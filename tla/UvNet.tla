-------------------------------- MODULE UvNet --------------------------------
(***************************************************************************)
(* The TCP server's connections (uv_net.cpp), plain TCP mode.  Everything  *)
(* here runs on the thread of the libuv loop, one callback at a time, so a *)
(* callback is one step; which callback comes next is libuv's choice.      *)
(*                                                                         *)
(* A connection lives in a context (ClientConnS), named by its address.    *)
(* client_list holds contexts to be used again and client_map finds a      *)
(* context by its connection's id.  SubClientClosed puts a context into    *)
(* client_list and then deletes it, so a later connection may be given     *)
(* memory that was freed.  That is undefined behaviour; the model ends the *)
(* process, or goes on with the context as it was left and remembers it in *)
(* damaged.  malloc may hand out the address of a freed context again.     *)
(***************************************************************************)
EXTENDS Naturals, Sequences

CONSTANTS
    Ctxs,         \* addresses malloc can return for a context
    Params,       \* addresses malloc can return for a write_param
    backlog,      \* uvnet::backlog, 256 in the code
    InitialSize,  \* size of a new write_param's buffer, 10240 in the code
    SendSizes,    \* lengths of the data that is sent
    MaxId         \* bound: connection attempts looked at

ASSUME UvNetAssumption ==
    /\ backlog \in Nat
    /\ InitialSize \in Nat
    /\ SendSizes \subseteq Nat \ {0}
    /\ MaxId \in Nat

VARIABLES
    allocated,       \* the contexts that are allocated
    client_list,     \* contexts to be used again, oldest first
    client_map,      \* connection id -> context
    s_id,            \* the last id GetAvailaClientID returned
    clientid,        \* in each context: the id of its connection, 0 before the first
    handle,          \* in each context: its libuv handle, "none" when there is none
    read_bufs,       \* buffers of alloc_buffer that were not freed
    writeparam_list, \* write_params to be used again, oldest first
    write_params,    \* allocated write_param -> its buf.len and the real size of the buffer
    write_reqs,      \* write_param under way in libuv -> the context it sends for
    damaged,         \* a freed context was used
    aborted          \* the process was ended by the allocator

contexts == <<allocated, clientid>>
sending == <<writeparam_list, write_params, write_reqs>>
vars == <<allocated, client_list, client_map, s_id, clientid, handle, read_bufs,
          writeparam_list, write_params, write_reqs, damaged, aborted>>

Without(f, x) == [y \in DOMAIN f \ {x} |-> f[y]]

With(f, x, v) == [y \in DOMAIN f \cup {x} |-> IF y = x THEN v ELSE f[y]]

Elements(s) == {s[i] : i \in 1 .. Len(s)}

\* The process has not been ended.
Alive == ~aborted
-----------------------------------------------------------------------------
Init ==
    /\ allocated = {}
    /\ client_list = <<>>
    /\ client_map = <<>>
    /\ s_id = 0
    /\ clientid = [c \in Ctxs |-> 0]
    /\ handle = [c \in Ctxs |-> "none"]
    /\ read_bufs = 0
    /\ writeparam_list = <<>> /\ write_params = <<>> /\ write_reqs = <<>>
    /\ damaged = FALSE /\ aborted = FALSE
-----------------------------------------------------------------------------
(***************************************************************************)
(* on_new_connection                                                       *)
(***************************************************************************)
\* client_list is empty: a new context.
AllocTcpClientCtx(c) ==
    /\ client_list = <<>>
    /\ c \notin allocated
    /\ allocated' = allocated \cup {c}
    /\ UNCHANGED <<damaged, aborted>>

\* The context at the front of client_list.  Using it goes unnoticed or ends the
\* process when it has been freed.
FrontOfList(c) ==
    /\ client_list # <<>>
    /\ c = Head(client_list)
    /\ damaged' = (damaged \/ c \notin allocated)
    /\ aborted' \in IF c \in allocated THEN {FALSE} ELSE BOOLEAN
    /\ UNCHANGED allocated

ContextFor(c) == AllocTcpClientCtx(c) \/ FrontOfList(c)

\* Faulty variant: the front of the list is not removed.
RestOfList_NotPopped == client_list

RestOfList == IF client_list = <<>> THEN <<>> ELSE Tail(client_list)

\* Faulty variant: the id is returned before it is counted up.
GetAvailaClientID_Stuck == s_id

GetAvailaClientID == s_id + 1

\* uv_tcp_init fails: the context goes to the end of client_list.
NewConnectionNoHandle ==
    /\ Alive
    /\ s_id < MaxId
    /\ \E c \in Ctxs :
          /\ ContextFor(c)
          /\ client_list' = Append(RestOfList, c)
    /\ UNCHANGED <<client_map, s_id, clientid, handle, read_bufs, sending>>

\* uv_accept or uv_read_start fails: the handle is closed, for RecycleTcpHandle.
NewConnectionFails ==
    /\ Alive
    /\ s_id < MaxId
    /\ \E c \in Ctxs :
          /\ ContextFor(c)
          /\ clientid' = [clientid EXCEPT ![c] = GetAvailaClientID]
          /\ handle' = [handle EXCEPT ![c] = "recycling"]
    /\ client_list' = RestOfList
    /\ s_id' = GetAvailaClientID
    /\ UNCHANGED <<client_map, read_bufs, sending>>

NewConnection ==
    /\ Alive
    /\ s_id < MaxId
    /\ \E c \in Ctxs :
          /\ ContextFor(c)
          /\ clientid' = [clientid EXCEPT ![c] = GetAvailaClientID]
          /\ handle' = [handle EXCEPT ![c] = "reading"]
          /\ client_map' = With(client_map, GetAvailaClientID, c)
    /\ client_list' = RestOfList
    /\ s_id' = GetAvailaClientID
    /\ UNCHANGED <<read_bufs, sending>>
-----------------------------------------------------------------------------
(***************************************************************************)
(* Reading.  alloc_buffer and read_header are called by libuv in a row.    *)
(* Data that arrives changes the parser alone, which PacketSync models.    *)
(***************************************************************************)
\* The peer has closed the connection or it failed.  read_header returns without
\* freeing the buffer of alloc_buffer.
ReadError(c) ==
    /\ Alive
    /\ handle[c] = "reading"
    /\ handle' = [handle EXCEPT ![c] = "closing"]
    /\ read_bufs' = read_bufs + 1
    /\ UNCHANGED <<contexts, client_list, client_map, s_id, sending, damaged, aborted>>
-----------------------------------------------------------------------------
(***************************************************************************)
(* Close callbacks.  libuv completes the writes of a handle before.        *)
(***************************************************************************)
CloseDone(c, state) ==
    /\ Alive
    /\ handle[c] = state
    /\ \A w \in DOMAIN write_reqs : write_reqs[w] # c

\* Faulty variant: the bound of the list is not looked at.
ListFull_Never == FALSE

ListFull == Len(client_list) > backlog

\* FreeTcpClientCtx for a full list; client_list keeps the context otherwise.
Recycled(c) == IF ListFull THEN client_list ELSE Append(client_list, c)

RecycleTcpHandle(c) ==
    /\ CloseDone(c, "recycling")
    /\ handle' = [handle EXCEPT ![c] = "none"]
    /\ client_list' = Recycled(c)
    /\ allocated' = IF ListFull THEN allocated \ {c} ELSE allocated
    /\ UNCHANGED <<client_map, s_id, clientid, read_bufs, sending, damaged, aborted>>

\* Faulty variant: the connection stays in client_map.
SubClientClosed_StaysInMap(c) ==
    /\ CloseDone(c, "closing")
    /\ clientid[c] \in DOMAIN client_map
    /\ handle' = [handle EXCEPT ![c] = "none"]
    /\ client_list' = Recycled(c)
    /\ allocated' = allocated \ {c}
    /\ UNCHANGED <<client_map, s_id, clientid, read_bufs, sending, damaged, aborted>>

\* The context goes into client_list, or is freed when that is full, and then the one
\* client_map has for its id is deleted.  Freeing a context twice goes unnoticed or
\* ends the process.  A connection that client_map does not know is left alone.
SubClientClosed(c) ==
    /\ CloseDone(c, "closing")
    /\ handle' = [handle EXCEPT ![c] = "none"]
    /\ IF clientid[c] \in DOMAIN client_map
       THEN LET d == client_map[clientid[c]]
                freed == IF ListFull THEN {c} ELSE {}
            IN  /\ allocated' = (allocated \ freed) \ {d}
                /\ aborted' \in IF d \in allocated \ freed THEN {FALSE} ELSE BOOLEAN
                /\ client_list' = Recycled(c)
                /\ client_map' = Without(client_map, clientid[c])
       ELSE UNCHANGED <<allocated, aborted, client_list, client_map>>
    /\ UNCHANGED <<s_id, clientid, read_bufs, sending, damaged>>
-----------------------------------------------------------------------------
(***************************************************************************)
(* Sending                                                                 *)
(***************************************************************************)
\* The write_param sendinl takes: a new one, or the front of the list.
TakeParam(w) ==
    \/ /\ writeparam_list = <<>>
       /\ w \notin DOMAIN write_params
    \/ /\ writeparam_list # <<>>
       /\ w = Head(writeparam_list)

ParamBuf(w) ==
    IF w \in DOMAIN write_params THEN write_params[w]
    ELSE [len |-> InitialSize, size |-> InitialSize]

\* Faulty variant: the buffer is never reallocated.
BufFor_Never(buf, n) == [len |-> n, size |-> buf.size]

\* The buffer after n bytes were copied to it: it is reallocated if buf.len says that
\* it is too small.  buf.len is the length of the data from then on.
BufFor(buf, n) == [len |-> n, size |-> IF buf.len < n THEN n ELSE buf.size]

\* Faulty variant: the front of the list is not removed.
RestOfParams_NotPopped == writeparam_list

RestOfParams == IF writeparam_list = <<>> THEN <<>> ELSE Tail(writeparam_list)

\* uv_write takes the request, or fails and the write_param is kept for later.
sendinl(c, n) ==
    /\ Alive
    /\ handle[c] = "reading"
    /\ \E w \in Params :
          /\ TakeParam(w)
          /\ write_params' = With(write_params, w, BufFor(ParamBuf(w), n))
          /\ \/ /\ write_reqs' = With(write_reqs, w, c)
                /\ writeparam_list' = RestOfParams
             \/ /\ writeparam_list' = Append(RestOfParams, w)
                /\ UNCHANGED write_reqs
    /\ UNCHANGED <<contexts, client_list, client_map, s_id, handle, read_bufs,
                   damaged, aborted>>

\* The write has ended, well or not.
AfterSend(w) ==
    /\ Alive
    /\ w \in DOMAIN write_reqs
    /\ write_reqs' = Without(write_reqs, w)
    /\ IF Len(writeparam_list) > backlog
       THEN /\ write_params' = Without(write_params, w)
            /\ UNCHANGED writeparam_list
       ELSE /\ writeparam_list' = Append(writeparam_list, w)
            /\ UNCHANGED write_params
    /\ UNCHANGED <<contexts, client_list, client_map, s_id, handle, read_bufs,
                   damaged, aborted>>
-----------------------------------------------------------------------------
LoopStep ==
    \/ \E c \in Ctxs : RecycleTcpHandle(c) \/ SubClientClosed(c)
    \/ \E w \in Params : AfterSend(w)

\* Nothing is left to do, or the process is gone.
Finished ==
    /\ \/ aborted
       \/ s_id = MaxId /\ \A c \in Ctxs : handle[c] = "none"
    /\ UNCHANGED vars

Next ==
    \/ NewConnectionNoHandle \/ NewConnectionFails \/ NewConnection
    \/ \E c \in Ctxs : ReadError(c)
    \/ \E c \in Ctxs, n \in SendSizes : sendinl(c, n)
    \/ LoopStep
    \/ Finished

Spec == Init /\ [][Next]_vars

\* The loop runs every close callback and completes every write.
FairSpec ==
    /\ Spec
    /\ \A c \in Ctxs :
          WF_vars(RecycleTcpHandle(c) \/ SubClientClosed(c))
    /\ \A w \in Params : WF_vars(AfterSend(w))
-----------------------------------------------------------------------------
(***************************************************************************)
(* Properties.  What is said of contexts holds as long as none was used    *)
(* after it had been freed.                                                *)
(***************************************************************************)
\* Every variable has its type.
TypeOK ==
    /\ allocated \subseteq Ctxs
    /\ client_list \in Seq(Ctxs)
    /\ s_id \in Nat
    /\ DOMAIN client_map \subseteq 1 .. s_id
    /\ \A id \in DOMAIN client_map : client_map[id] \in Ctxs
    /\ clientid \in [Ctxs -> 0 .. s_id]
    /\ handle \in [Ctxs -> {"none", "reading", "closing", "recycling"}]
    /\ read_bufs \in Nat
    /\ writeparam_list \in Seq(Params)
    /\ DOMAIN write_params \subseteq Params
    /\ \A w \in DOMAIN write_params : write_params[w] \in [len : Nat, size : Nat]
    /\ DOMAIN write_reqs \subseteq Params
    /\ \A w \in DOMAIN write_reqs : write_reqs[w] \in Ctxs
    /\ damaged \in BOOLEAN /\ aborted \in BOOLEAN

\* Both lists of things kept for later stay within backlog + 1, though the error paths
\* of on_new_connection and sendinl add to them without looking at the bound.
PoolBounded ==
    Len(client_list) <= backlog + 1 /\ Len(writeparam_list) <= backlog + 1

\* A context is in one place: either libuv has its handle or client_list holds it, once.
\* libuv never has a handle in freed memory, and no allocated context is forgotten.
OneOwner ==
    ~damaged =>
        /\ \A i, j \in 1 .. Len(client_list) : client_list[i] = client_list[j] => i = j
        /\ \A c \in Elements(client_list) : handle[c] = "none"
        /\ \A c \in Ctxs : handle[c] # "none" => c \in allocated
        /\ \A c \in allocated : handle[c] # "none" \/ c \in Elements(client_list)

\* client_map has exactly the connections that were accepted and whose close callback
\* has not run, each under the id its context holds - also while earlier attempts
\* failed and used up ids.
Registered ==
    ~damaged =>
        /\ \A id \in DOMAIN client_map :
              /\ clientid[client_map[id]] = id
              /\ handle[client_map[id]] \in {"reading", "closing"}
        /\ \A c \in Ctxs :
              handle[c] \in {"reading", "closing"} =>
                  clientid[c] \in DOMAIN client_map /\ client_map[clientid[c]] = c

\* AfterSend reads the context of the connection it sent for: that context has not been
\* freed, also when the connection was closed with the write under way.  The
\* write_param is not in the list for the next write meanwhile.
WriteSafe ==
    /\ ~damaged => \A w \in DOMAIN write_reqs :
                      /\ write_reqs[w] \in allocated
                      /\ handle[write_reqs[w]] # "none"
    /\ \A w \in DOMAIN write_reqs : w \notin Elements(writeparam_list)

\* sendinl uses buf.len for the room in the buffer and for the length of the last data.
\* It never says more than there is, so no copy writes behind the buffer.
WriteFits ==
    \A w \in DOMAIN write_params : write_params[w].len <= write_params[w].size

\* A connection that failed or was closed by its peer leaves client_map.
ClosedIsForgotten ==
    \A c \in Ctxs :
        handle[c] = "closing" ~>
            (handle[c] = "none" /\ clientid[c] \notin DOMAIN client_map) \/ damaged \/ aborted

\* What uv_net.cpp calls "Recycle" (lines 137 and 149): the contexts of client_list can
\* be used again, so they are allocated.
RecycledIsAllocated == \A c \in Elements(client_list) : c \in allocated

\* What libuv's documentation asks of a read callback (stream.rst, uv_read_cb): it frees
\* the buffer it is given.
BuffersFreed == read_bufs = 0
=============================================================================
