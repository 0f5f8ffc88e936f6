------------------------------ MODULE EvDispatch ------------------------------
(***************************************************************************)
(* The message queue between the network side and the Java services        *)
(* (ev_dispatch.cpp, with GameTCPProtocol::ParsePacket that feeds it and   *)
(* the service registry of jImpl.cpp it looks commands up in).             *)
(*                                                                         *)
(* A network thread allocates a FromMsg, pushes it on qfmsg under          *)
(* mutex_queue and calls uv_async_send.  The dispatcher thread runs a      *)
(* libuv loop; an async wake-up makes it drain the queue, calling into     *)
(* Java with the mutex held.  Wake-ups coalesce: uv_async_send only sets   *)
(* the handle's pending flag, which the loop clears before it calls        *)
(* afterpost_cb.                                                           *)
(*                                                                         *)
(* Every FromMsg is deleted by proc_msg and again by afterpost_cb.  The    *)
(* second delete is undefined behaviour; the model lets it go unnoticed or *)
(* end the process, which is what the C library's allocator does with it.  *)
(***************************************************************************)
EXTENDS Naturals, Sequences

CONSTANTS
    Threads,      \* threads that call postMsg (the server has one, uvnet's)
    Dispatcher,   \* the thread that runs EvDispatch::StartThread
    Nobody,       \* mutex_queue is free
    Msgs,         \* messages; each is allocated at most once
    serviceCmd,   \* a message's command, as the sequence of its "/"-separated parts
    ava_srvs,     \* the services config.json lists, in order
    Loadable      \* the ones whose Java class can be found

ASSUME EvDispatchAssumption ==
    /\ Dispatcher \notin Threads
    /\ Nobody \notin Threads \cup {Dispatcher}

VARIABLES
    tpc,          \* where each network thread is in ParsePacket / postMsg
    tmsg,         \* the FromMsg it is posting
    mutex_queue,  \* the thread that holds it
    qfmsg,        \* the queue
    pending,      \* the async handle's pending flag
    dpc,          \* where the dispatcher thread is
    empty,        \* what checkQueue read
    msg,          \* the FromMsg afterpost_cb works on
    heap,         \* "free", "live" or "deleted", for every message
    aborted,      \* undefined behaviour or an uncaught exception ended the process
    posted,       \* history: messages pushed, in order
    handled,      \* history: messages proc_msg has dealt with, in order
    transacted    \* history: messages a Java service was called for

poster == <<tpc, tmsg>>
dispatcher == <<dpc, empty, msg>>
history == <<posted, handled, transacted>>
vars == <<tpc, tmsg, mutex_queue, qfmsg, pending, dpc, empty, msg, heap, aborted,
          posted, handled, transacted>>
-----------------------------------------------------------------------------
(***************************************************************************)
(* The service registry (JCommChannel).  loadJavaSrv returns false even    *)
(* when it registers the service, so load_allAvaJavaSrvs stops behind the  *)
(* first entry of the list.                                                *)
(***************************************************************************)
loadJavaSrv(name) == IF name \in Loadable THEN {<<name>>} ELSE {}

reg_srvs == IF ava_srvs = <<>> THEN {} ELSE loadJavaSrv(ava_srvs[1])

\* getService finds a service by the complete name it is asked for.
getService(cmd) == cmd \in reg_srvs
-----------------------------------------------------------------------------
Init ==
    /\ tpc = [t \in Threads |-> "ready"]
    /\ tmsg \in [Threads -> Msgs]
    /\ mutex_queue = Nobody
    /\ qfmsg = <<>>
    /\ pending = FALSE
    /\ dpc = "new"
    /\ empty = TRUE
    /\ msg \in Msgs
    /\ heap = [m \in Msgs |-> "free"]
    /\ aborted = FALSE
    /\ posted = <<>> /\ handled = <<>> /\ transacted = {}

\* The process has not been ended by the allocator, the Java VM or an exception.
Alive == ~aborted
-----------------------------------------------------------------------------
(***************************************************************************)
(* Network threads                                                         *)
(***************************************************************************)
\* Faulty variant: the pointer to the deleted FromMsg is reset, and posted all the same.
ParsePacketBad_PostsNull(t, m) ==
    /\ Alive
    /\ tpc[t] = "ready"
    /\ heap[m] = "free"
    /\ heap' = [heap EXCEPT ![m] = "deleted"]
    /\ tmsg' = [tmsg EXCEPT ![t] = "null"]
    /\ tpc' = [tpc EXCEPT ![t] = "lock"]
    /\ UNCHANGED <<mutex_queue, qfmsg, pending, dispatcher, aborted, history>>

\* A packet arrives that bufFromMsg cannot decode (the reader throws ProtoError): the
\* FromMsg is deleted at once.
ParsePacketBad(t, m) ==
    /\ Alive
    /\ tpc[t] = "ready"
    /\ heap[m] = "free"
    /\ heap' = [heap EXCEPT ![m] = "deleted"]
    /\ UNCHANGED <<poster, mutex_queue, qfmsg, pending, dispatcher, aborted, history>>

\* A packet arrives with a string of 128 to 255 bytes in the short form: its size byte
\* is a signed char, the reader throws std::length_error, which bufFromMsg does not
\* catch, and the process ends.
ParsePacketThrows(t, m) ==
    /\ Alive
    /\ tpc[t] = "ready"
    /\ heap[m] = "free"
    /\ heap' = [heap EXCEPT ![m] = "live"]
    /\ aborted' = TRUE
    /\ UNCHANGED <<poster, mutex_queue, qfmsg, pending, dispatcher, history>>

\* A packet arrives and becomes a FromMsg, which the thread goes on to post.
ParsePacketGood(t, m) ==
    /\ Alive
    /\ tpc[t] = "ready"
    /\ heap[m] = "free"
    /\ heap' = [heap EXCEPT ![m] = "live"]
    /\ tmsg' = [tmsg EXCEPT ![t] = m]
    /\ tpc' = [tpc EXCEPT ![t] = "lock"]
    /\ UNCHANGED <<mutex_queue, qfmsg, pending, dispatcher, aborted, history>>

\* Faulty variant: the thread does not wait for the mutex.
PostLock_NoWait(t) ==
    /\ Alive
    /\ tpc[t] = "lock"
    /\ mutex_queue' = t
    /\ tpc' = [tpc EXCEPT ![t] = "push"]
    /\ UNCHANGED <<tmsg, qfmsg, pending, dispatcher, heap, aborted, history>>

PostLock(t) ==
    /\ Alive
    /\ tpc[t] = "lock"
    /\ mutex_queue = Nobody
    /\ mutex_queue' = t
    /\ tpc' = [tpc EXCEPT ![t] = "push"]
    /\ UNCHANGED <<tmsg, qfmsg, pending, dispatcher, heap, aborted, history>>

PostPush(t) ==
    /\ Alive
    /\ tpc[t] = "push"
    /\ qfmsg' = Append(qfmsg, tmsg[t])
    /\ posted' = Append(posted, tmsg[t])
    /\ tpc' = [tpc EXCEPT ![t] = "unlock"]
    /\ UNCHANGED <<tmsg, mutex_queue, pending, dispatcher, heap, aborted, handled, transacted>>

PostUnlock(t) ==
    /\ Alive
    /\ tpc[t] = "unlock"
    /\ mutex_queue' = Nobody
    /\ tpc' = [tpc EXCEPT ![t] = "send"]
    /\ UNCHANGED <<tmsg, qfmsg, pending, dispatcher, heap, aborted, history>>

\* Faulty variant: no wake-up for a dispatcher that does not wait in its loop.
PostSend_OnlyWhenPolling(t) ==
    /\ Alive
    /\ tpc[t] = "send"
    /\ pending' = (pending \/ dpc = "poll")
    /\ tpc' = [tpc EXCEPT ![t] = "ready"]
    /\ UNCHANGED <<tmsg, mutex_queue, qfmsg, dispatcher, heap, aborted, history>>

PostSend(t) ==
    /\ Alive
    /\ tpc[t] = "send"
    /\ pending' = TRUE
    /\ tpc' = [tpc EXCEPT ![t] = "ready"]
    /\ UNCHANGED <<tmsg, mutex_queue, qfmsg, dispatcher, heap, aborted, history>>

postMsg(t) == PostLock(t) \/ PostPush(t) \/ PostUnlock(t) \/ PostSend(t)
-----------------------------------------------------------------------------
(***************************************************************************)
(* The dispatcher thread                                                   *)
(***************************************************************************)
\* Start creates the thread, which goes into uv_run; main ignores a failure.
Start ==
    /\ Alive
    /\ dpc = "new"
    /\ dpc' \in {"poll", "failed"}
    /\ UNCHANGED <<poster, mutex_queue, qfmsg, pending, empty, msg, heap, aborted, history>>

\* The loop finds the pending flag set, clears it and calls afterpost_cb.
Wake ==
    /\ Alive
    /\ dpc = "poll"
    /\ pending
    /\ pending' = FALSE
    /\ dpc' = "checkLock"
    /\ UNCHANGED <<poster, mutex_queue, qfmsg, empty, msg, heap, aborted, history>>

CheckLock ==
    /\ Alive
    /\ dpc = "checkLock"
    /\ mutex_queue = Nobody
    /\ mutex_queue' = Dispatcher
    /\ dpc' = "check"
    /\ UNCHANGED <<poster, qfmsg, pending, empty, msg, heap, aborted, history>>

Check ==
    /\ Alive
    /\ dpc = "check"
    /\ empty' = (qfmsg = <<>>)
    /\ dpc' = "checkUnlock"
    /\ UNCHANGED <<poster, mutex_queue, qfmsg, pending, msg, heap, aborted, history>>

\* Faulty variants: the answer of checkQueue is not used, and an early return leaves
\* the mutex locked.
CheckUnlock_Always ==
    /\ Alive
    /\ dpc = "checkUnlock"
    /\ mutex_queue' = Nobody
    /\ dpc' = "procLock"
    /\ UNCHANGED <<poster, qfmsg, pending, empty, msg, heap, aborted, history>>

CheckUnlock_KeepsMutex ==
    /\ Alive
    /\ dpc = "checkUnlock"
    /\ mutex_queue' = IF empty THEN Dispatcher ELSE Nobody
    /\ dpc' = IF empty THEN "poll" ELSE "procLock"
    /\ UNCHANGED <<poster, qfmsg, pending, empty, msg, heap, aborted, history>>

\* checkQueue returns; the callback ends when the queue was empty.
CheckUnlock ==
    /\ Alive
    /\ dpc = "checkUnlock"
    /\ mutex_queue' = Nobody
    /\ dpc' = IF empty THEN "poll" ELSE "procLock"
    /\ UNCHANGED <<poster, qfmsg, pending, empty, msg, heap, aborted, history>>

ProcLock ==
    /\ Alive
    /\ dpc = "procLock"
    /\ mutex_queue = Nobody
    /\ mutex_queue' = Dispatcher
    /\ dpc' = "front"
    /\ UNCHANGED <<poster, qfmsg, pending, empty, msg, heap, aborted, history>>

Front ==
    /\ Alive
    /\ dpc = "front"
    /\ msg' = Head(qfmsg)
    /\ dpc' = "proc"
    /\ UNCHANGED <<poster, mutex_queue, qfmsg, pending, empty, heap, aborted, history>>

\* proc_msg for a command no service is registered for.
ProcUnhandled ==
    /\ Alive
    /\ dpc = "proc"
    /\ ~getService(serviceCmd[msg])
    /\ handled' = Append(handled, msg)
    /\ heap' = [heap EXCEPT ![msg] = "deleted"]
    /\ dpc' = "delete"
    /\ UNCHANGED <<poster, mutex_queue, qfmsg, pending, empty, msg, aborted, posted, transacted>>

\* proc_msg calls into Java; the answer it gets back is dropped.
ProcTransact ==
    /\ Alive
    /\ dpc = "proc"
    /\ getService(serviceCmd[msg])
    /\ transacted' = transacted \cup {msg}
    /\ dpc' = "transact"
    /\ UNCHANGED <<poster, mutex_queue, qfmsg, pending, empty, msg, heap, aborted, posted, handled>>

ProcReturn ==
    /\ Alive
    /\ dpc = "transact"
    /\ handled' = Append(handled, msg)
    /\ heap' = [heap EXCEPT ![msg] = "deleted"]
    /\ dpc' = "delete"
    /\ UNCHANGED <<poster, mutex_queue, qfmsg, pending, empty, msg, aborted, posted, transacted>>

\* execTransact uses the JNIEnv of the thread that created the VM.  On another thread
\* that is undefined behaviour; besides working it may end the process.
JvmDies ==
    /\ Alive
    /\ dpc = "transact"
    /\ aborted' = TRUE
    /\ UNCHANGED <<poster, mutex_queue, qfmsg, pending, dispatcher, heap, history>>

\* Faulty variant: the deleted message is left in the queue.
DeleteAgain_NoPop ==
    /\ Alive
    /\ dpc = "delete"
    /\ \/ dpc' = "procUnlock" /\ UNCHANGED aborted
       \/ aborted' = TRUE /\ UNCHANGED dpc
    /\ UNCHANGED <<poster, mutex_queue, qfmsg, pending, empty, msg, heap, history>>

\* The second delete of the same FromMsg.
DeleteAgain ==
    /\ Alive
    /\ dpc = "delete"
    /\ \/ dpc' = "pop" /\ UNCHANGED aborted
       \/ aborted' = TRUE /\ UNCHANGED dpc
    /\ UNCHANGED <<poster, mutex_queue, qfmsg, pending, empty, msg, heap, history>>

\* Faulty variant: the newest message is removed instead of the oldest.
Pop_Newest ==
    /\ Alive
    /\ dpc = "pop"
    /\ qfmsg' = SubSeq(qfmsg, 1, Len(qfmsg) - 1)
    /\ dpc' = "procUnlock"
    /\ UNCHANGED <<poster, mutex_queue, pending, empty, msg, heap, aborted, history>>

Pop ==
    /\ Alive
    /\ dpc = "pop"
    /\ qfmsg' = Tail(qfmsg)
    /\ dpc' = "procUnlock"
    /\ UNCHANGED <<poster, mutex_queue, pending, empty, msg, heap, aborted, history>>

ProcUnlock ==
    /\ Alive
    /\ dpc = "procUnlock"
    /\ mutex_queue' = Nobody
    /\ dpc' = "checkLock"
    /\ UNCHANGED <<poster, qfmsg, pending, empty, msg, heap, aborted, history>>

afterpost_cb ==
    \/ Wake \/ CheckLock \/ Check \/ CheckUnlock
    \/ ProcLock \/ Front \/ ProcUnhandled \/ ProcTransact \/ ProcReturn
    \/ JvmDies \/ DeleteAgain \/ Pop \/ ProcUnlock
-----------------------------------------------------------------------------
\* Every message is used up and nobody has anything left to do, or the process is gone.
Finished ==
    /\ \/ aborted
       \/ /\ \A m \in Msgs : heap[m] # "free"
          /\ \A t \in Threads : tpc[t] = "ready"
          /\ dpc = "failed" \/ (dpc = "poll" /\ ~pending)
    /\ UNCHANGED vars

Next ==
    \/ \E t \in Threads, m \in Msgs : ParsePacketBad(t, m)
    \/ \E t \in Threads, m \in Msgs : ParsePacketThrows(t, m)
    \/ \E t \in Threads, m \in Msgs : ParsePacketGood(t, m)
    \/ \E t \in Threads : postMsg(t)
    \/ Start
    \/ afterpost_cb
    \/ Finished

Spec == Init /\ [][Next]_vars

(***************************************************************************)
(* A thread that has work keeps running, the Java call returns and the     *)
(* operating system hands out the mutex; packets need never arrive.  Weak  *)
(* fairness is enough: only finitely many messages compete for the mutex.  *)
(***************************************************************************)
FairSpec ==
    /\ Spec
    /\ \A t \in Threads : WF_vars(postMsg(t))
    /\ WF_vars(Start)
    /\ WF_vars(afterpost_cb)
-----------------------------------------------------------------------------
(***************************************************************************)
(* Properties                                                              *)
(***************************************************************************)
Elements(s) == {s[i] : i \in 1 .. Len(s)}

DispatcherHolds ==
    {"check", "checkUnlock", "front", "proc", "transact", "delete", "pop", "procUnlock"}

DispatcherIdle == {"new", "failed", "poll"}

\* Every variable has its type.
TypeOK ==
    /\ tpc \in [Threads -> {"ready", "lock", "push", "unlock", "send"}]
    /\ tmsg \in [Threads -> Msgs]
    /\ mutex_queue \in Threads \cup {Dispatcher, Nobody}
    /\ qfmsg \in Seq(Msgs)
    /\ pending \in BOOLEAN
    /\ dpc \in DispatcherHolds \cup DispatcherIdle \cup {"checkLock", "procLock"}
    /\ empty \in BOOLEAN
    /\ msg \in Msgs
    /\ heap \in [Msgs -> {"free", "live", "deleted"}]
    /\ aborted \in BOOLEAN
    /\ posted \in Seq(Msgs)
    /\ handled \in Seq(Msgs)
    /\ transacted \in SUBSET Msgs

\* std::queue is touched only by the thread that holds mutex_queue: a push never
\* overlaps another push, empty(), front() or pop().
QueueExclusive ==
    /\ \A t \in Threads : tpc[t] \in {"push", "unlock"} => mutex_queue = t
    /\ dpc \in DispatcherHolds => mutex_queue = Dispatcher

\* afterpost_cb checks the queue, releases the mutex and takes it again before it
\* calls front(); what it checked still holds then, and the message it works on
\* stays the front one until it is popped, whatever is pushed meanwhile.
FrontStable ==
    /\ dpc \in {"procLock", "front", "proc", "transact", "delete", "pop"} => qfmsg # <<>>
    /\ dpc \in {"proc", "transact", "delete", "pop"} => msg = Head(qfmsg)

\* A message in the queue has not been deleted, except the one that afterpost_cb is
\* about to pop: no deleted FromMsg can be reached through the queue once the mutex
\* is released, and a message being posted is not deleted under its thread.
QueueLive ==
    /\ \A i \in 1 .. Len(qfmsg) :
          heap[qfmsg[i]] = "live" \/ (i = 1 /\ dpc \in {"delete", "pop"})
    /\ \A t \in Threads : tpc[t] \in {"lock", "push"} => heap[tmsg[t]] = "live"

\* No lost wake-up.  While the queue is not empty, the pending flag is set, or the
\* dispatcher is going to look at the queue again, or a thread has yet to call
\* uv_async_send - also when wake-ups coalesce or come before the loop runs.
NoLostWakeup ==
    qfmsg # <<>> =>
        \/ pending
        \/ dpc \notin DispatcherIdle /\ ~(dpc = "checkUnlock" /\ empty)
        \/ \E t \in Threads : tpc[t] \in {"unlock", "send"}

Channel == INSTANCE MsgChannel

\* The two threads together behave as the abstract channel: messages are handled
\* in the order of their posting, none twice and none that was not posted.
ImplementsMsgChannel == Channel!Spec

\* Every posted message is handled, unless the dispatcher thread could not be created
\* or undefined behaviour or an exception ended the process.
PostedIsHandled ==
    \A m \in Msgs :
        m \in Elements(posted) ~> m \in Elements(handled) \/ dpc = "failed" \/ aborted

\* postMsg returns: a network thread is not blocked for good by a dispatcher that
\* calls into Java with the mutex held.
PostReturns ==
    \A t \in Threads : tpc[t] # "ready" ~> tpc[t] = "ready" \/ aborted

\* What the DummyLogin test does with a command: its first part names the service
\* (java_test.cpp, lines 46-52), so a message whose first part is a registered
\* service is handed to that service.
RoutedByFirstPart ==
    \A m \in Elements(handled) :
        getService(<<serviceCmd[m][1]>>) => m \in transacted
=============================================================================
