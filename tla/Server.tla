-------------------------------- MODULE Server --------------------------------
(***************************************************************************)
(* The life of the process (main.cpp; start and stop of uv_net.cpp and     *)
(* ev_dispatch.cpp): the options, the start in main's order with whatever  *)
(* may fail in it, the thread of the dispatcher and that of the network,   *)
(* the end of the loop, SIGINT, and the ways the process ends.  All three  *)
(* threads log.  The lines logged while main is alone are left out unless  *)
(* they are errors; so is what connections and messages do.                *)
(***************************************************************************)
EXTENDS Debug, Sequences

CONSTANTS CommandLines,  \* sequences of options
          Atoi(_),       \* the number that a word stands for
          Dirs,          \* the directories that exist
          Faults,        \* what may fail, see FaultKinds
          MaxFaults      \* bound on how many of them fail in one start

VARIABLES args,      \* the command line, of which main's argv gives what is left
          faults,    \* what fails in this start
          opt,       \* what the options have set, and at which argv is
          pc,        \* thread -> where it is
          logfile,   \* the directory of the log file, or << >>
          tserver,   \* the port the server listens at, AnyPort or NotListening
          mutex_cl,  \* is it locked
          if_exit,
          handler,   \* who runs exit() after a SIGINT: "none", "main" or "vm"
          end        \* "running", or how the process ended

own == <<args, faults, opt, pc, logfile, tserver, mutex_cl, if_exit, handler, end>>
vars == <<own, logVars>>

FaultKinds ==
    {"fork",         \* fork or setsid
     "conf",         \* the configuration cannot be opened
     "json",         \* it is not JSON
     "settings",     \* it lacks something that is read from it
     "jvm",          \* JNI_CreateJavaVM
     "class",        \* the class JNInterface is not found
     "dispatch",     \* a call in EvDispatch() fails
     "dispThread", "netThread",  \* uv_thread_create
     "net",          \* a call in uvnet() fails
     "cert",         \* the certificate cannot be loaded
     "inuse",        \* another program listens at the port
     "noipv6"}       \* the system has no IPv6

NotListening == -1
AnyPort == 0

\* An option and the words it takes.
Options == [flag : STRING, params : Seq(STRING)]
TakesValue == {"--config", "--port", "--log", "--userdir", "--loglevel"}
Missing(a) == a.flag \in TakesValue /\ a.params = << >>

\* An option takes whatever word comes next: only the last can lack its value.
ASSUME ServerAssumption ==
    /\ CommandLines \subseteq Seq(Options)
    /\ \A words \in CommandLines : \A i \in 1 .. Len(words) : Missing(words[i]) => i = Len(words)
    /\ Faults \subseteq FaultKinds
    /\ Threads = {"main", "disp", "net"}
    /\ "home" \in Dirs

Defaults == [argv |-> 1, daemon |-> FALSE, port |-> 9001, userdir |-> "home", logdir |-> <<"home", "logs">>]

Init ==
    /\ LogInit
    /\ args \in CommandLines
    /\ faults \in {f \in SUBSET Faults : Cardinality(f) <= MaxFaults}
    /\ opt = Defaults
    /\ pc = [t \in Threads |-> IF t = "main" THEN "options" ELSE "none"]
    /\ logfile = << >>
    /\ tserver = NotListening
    /\ mutex_cl = FALSE
    /\ if_exit = FALSE
    /\ handler = "none"
    /\ end = "running"

-----------------------------------------------------------------------------
(* The steps of a thread *)

\* After a SIGINT the other threads go on until the process is gone.
Alive(t) == thrown = {} /\ (end = "running" \/ (end = "exiting" /\ t # handler))

At(t, from) == Alive(t) /\ pc[t] = from /\ ~ Writing(t)
GoTo(t, to) == pc' = [pc EXCEPT ![t] = to]
Quiet == UNCHANGED logVars
EndAs(how) == end' = how
GoOn == UNCHANGED end

Log(t) ==
    /\ Alive(t)
    /\ LogStep(t)
    /\ UNCHANGED own

-----------------------------------------------------------------------------
(* The options *)

\* --userdir sets the directory of the logs too, and makes it if it can.  The
\* port is never read, nor is what --config sets.
Handle(o, a) ==
    CASE a.flag = "--daemon" -> [o EXCEPT !.daemon = TRUE]
      [] a.flag = "--port" -> [o EXCEPT !.port = Atoi(a.params[1])]
      [] a.flag = "--log" -> [o EXCEPT !.logdir = <<a.params[1]>>]
      [] a.flag = "--userdir" ->
            [o EXCEPT !.userdir = a.params[1], !.logdir = <<a.params[1], "logs">>]
      [] OTHER -> o

BadLevel(a) == a.flag = "--loglevel" /\ a.params # << >> /\ Atoi(a.params[1]) \notin 0 .. 15
BadPath(a) == a.flag \in {"--log", "--userdir"} /\ a.params = <<"">>

\* How the process can be after an option.  A value that is missing is a null
\* pointer, which atoi reads, and of which std::string throws or reads; a level
\* out of range and a path without a last character throw.
Outcomes(a) ==
    CASE a.flag = "--help" -> {"help"}
      [] Missing(a) -> IF a.flag \in {"--port", "--loglevel"} THEN {"crash"} ELSE {"crash", "terminate"}
      [] BadLevel(a) \/ BadPath(a) -> {"terminate"}
      [] OTHER -> {"running"}

\* One turn of main's loop.
ReadOption ==
    /\ At("main", "options")
    /\ opt.argv <= Len(args)
    /\ LET a == args[opt.argv]
       IN  /\ end' \in Outcomes(a)
           /\ opt' = IF end' = "running" THEN [Handle(opt, a) EXCEPT !.argv = opt.argv + 1] ELSE opt
           /\ IF a.flag = "--loglevel" /\ end' = "running" THEN limitDebugLevel(Atoi(a.params[1])) ELSE Quiet
    /\ UNCHANGED <<args, faults, pc, logfile, tserver, mutex_cl, if_exit, handler>>

OptionsRead ==
    /\ At("main", "options")
    /\ opt.argv > Len(args)
    /\ GoTo("main", "log")
    /\ Quiet
    /\ UNCHANGED <<args, faults, opt, logfile, tserver, mutex_cl, if_exit, handler, end>>

\* check_logs lists the directory of the logs, and reads from a null pointer if
\* it is not there.  A daemon is followed in the child; it opens no log file.
ForkFails == opt.daemon /\ "fork" \in faults
LogDirExists == opt.logdir[1] \in Dirs
OpenLog ==
    /\ At("main", "log")
    /\ CASE ForkFails -> EndAs("failure")
         [] ~ ForkFails /\ ~ LogDirExists -> EndAs("crash")
         [] OTHER -> GoOn
    /\ logfile' = IF opt.daemon THEN << >> ELSE opt.logdir
    /\ GoTo("main", "conf")
    /\ Quiet
    /\ UNCHANGED <<args, faults, opt, tserver, mutex_cl, if_exit, handler>>

-----------------------------------------------------------------------------
(* The start *)

\* new Configure: an error if the file is not there, as it is not if its directory
\* is not; the exception of the parser is not the one that is caught.
ConfFails == "conf" \in faults \/ opt.userdir \notin Dirs
ReadConf ==
    /\ At("main", "conf")
    /\ IF ConfFails THEN DebugLog("main", "error", "main") ELSE Quiet
    /\ IF ~ ConfFails /\ "json" \in faults THEN EndAs("terminate") ELSE GoOn
    /\ GoTo("main", "jvm")
    /\ UNCHANGED <<args, faults, opt, logfile, tserver, mutex_cl, if_exit, handler>>

\* A setting is read here, and may be the one that is not there.
MayLack == GoOn \/ ("settings" \in faults /\ EndAs("terminate"))

\* createJVM, which reads server_apps if there is a VM, and load_allAvaJavaSrvs.
CreateJVM ==
    /\ At("main", "jvm")
    /\ IF "jvm" \in faults THEN GoOn ELSE MayLack
    /\ GoTo("main", "db")
    /\ Quiet
    /\ UNCHANGED <<args, faults, opt, logfile, tserver, mutex_cl, if_exit, handler>>

\* The settings of the database, and InitDB through the environment of the VM,
\* which is null if there is none.  Its result, false in the repository, is not
\* looked at.
InitDB ==
    /\ At("main", "db")
    /\ MayLack \/ ("jvm" \in faults /\ EndAs("crash"))
    /\ end' = end => "jvm" \notin faults
    /\ IF end' = end /\ "class" \in faults
       THEN DebugLog("main", "error", "other") ELSE Quiet
    /\ GoTo("main", "dispatch")
    /\ UNCHANGED <<args, faults, opt, logfile, tserver, mutex_cl, if_exit, handler>>

\* A constructor logs what failed and goes on, which the exception prevents.
NewDispatch ==
    /\ At("main", "dispatch")
    /\ IF "dispatch" \in faults THEN DebugLog("main", "error", "other") ELSE Quiet
    /\ GoTo("main", "dispStart")
    /\ UNCHANGED <<args, faults, opt, logfile, tserver, mutex_cl, if_exit, handler, end>>

\* uv_thread_create.  main does not look at the results of Start.
StartThread(t, fault, from, to) ==
    /\ At("main", from)
    /\ IF fault \in faults
       THEN DebugLog("main", "warning", "other") /\ GoTo("main", to)
       ELSE Quiet /\ pc' = [pc EXCEPT !["main"] = to, ![t] = "start"]
    /\ UNCHANGED <<args, faults, opt, logfile, tserver, mutex_cl, if_exit, handler, end>>

StartDispatch == StartThread("disp", "dispThread", "dispStart", "net")

NewNet ==
    /\ At("main", "net")
    /\ IF "net" \in faults THEN DebugLog("main", "error", "other") ELSE Quiet
    /\ GoTo("main", "cert")
    /\ UNCHANGED <<args, faults, opt, logfile, tserver, mutex_cl, if_exit, handler, end>>

\* The last settings, and set_srvcert.
SetCert ==
    /\ At("main", "cert")
    /\ IF "settings" \in faults THEN EndAs("terminate") /\ Quiet
       ELSE GoOn /\ DebugLog("main", "info", "other")
    /\ GoTo("main", "certDone")
    /\ UNCHANGED <<args, faults, opt, logfile, tserver, mutex_cl, if_exit, handler>>
CertDone ==
    /\ At("main", "certDone")
    /\ IF "cert" \in faults THEN DebugLog("main", "warning", "main") ELSE Quiet
    /\ GoTo("main", "bind")
    /\ UNCHANGED <<args, faults, opt, logfile, tserver, mutex_cl, if_exit, handler, end>>

Binding ==
    /\ At("main", "bind")
    /\ DebugLog("main", "info", "other")
    /\ GoTo("main", "listen")
    /\ UNCHANGED <<args, faults, opt, logfile, tserver, mutex_cl, if_exit, handler, end>>

\* uv_tcp_bind, whose result is not looked at, and uv_listen.  A port in use
\* shows in uv_listen; if the IPv6 socket could not be made, uv_listen makes an
\* IPv4 one, which the system binds to any port.
Listening ==
    CASE "noipv6" \in faults -> AnyPort
      [] "inuse" \in faults /\ "noipv6" \notin faults -> NotListening
      [] OTHER -> 9001
Listen ==
    /\ At("main", "listen")
    /\ tserver' \in IF "net" \in faults THEN {NotListening, Listening} ELSE {Listening}
    /\ IF tserver' = NotListening THEN DebugLog("main", "warning", "other") ELSE Quiet
    /\ GoTo("main", "start")
    /\ UNCHANGED <<args, faults, opt, logfile, mutex_cl, if_exit, handler, end>>

StartNet == StartThread("net", "netThread", "start", "wait")

-----------------------------------------------------------------------------
(* The threads *)

\* EvDispatch::StartThread, which never comes back from uv_run; a message for
\* no service is logged.
DispRuns ==
    /\ \/ At("disp", "start")
       \/ At("disp", "loop") /\ pc["net"] = "loop" /\ tserver # NotListening
    /\ DebugLog("disp", "info", "other")
    /\ GoTo("disp", "loop")
    /\ UNCHANGED <<args, faults, opt, logfile, tserver, mutex_cl, if_exit, handler, end>>

\* uvnet::StartThread: uv_run stays in the loop as long as the server listens,
\* and returns at once if it does not.
NetRuns ==
    /\ \/ At("net", "start")
       \/ At("net", "loop") /\ tserver # NotListening
    /\ DebugLog("net", "info", "other")
    /\ GoTo("net", "loop")
    /\ UNCHANGED <<args, faults, opt, logfile, tserver, mutex_cl, if_exit, handler, end>>

\* Faulty variant: mutex_cl is not locked.
LoopEnds_NoLock ==
    /\ At("net", "loop") /\ tserver = NotListening
    /\ DebugLog("net", "info", "other")
    /\ GoTo("net", "closed")
    /\ UNCHANGED <<args, faults, opt, logfile, tserver, mutex_cl, if_exit, handler, end>>

\* mutex_cl is locked for good.  uv_walk closes the handles, but their closing
\* is not finished: the loop does not run again.
LoopEnds ==
    /\ At("net", "loop") /\ tserver = NotListening
    /\ mutex_cl' = TRUE
    /\ DebugLog("net", "info", "other")
    /\ GoTo("net", "closed")
    /\ UNCHANGED <<args, faults, opt, logfile, tserver, if_exit, handler, end>>

\* Faulty variant: main is not told.
NetDone_Silent ==
    /\ At("net", "closed")
    /\ GoTo("net", "done")
    /\ Quiet
    /\ UNCHANGED <<args, faults, opt, logfile, tserver, mutex_cl, if_exit, handler, end>>

NetDone ==
    /\ At("net", "closed")
    /\ if_exit' = TRUE
    /\ GoTo("net", "done")
    /\ Quiet
    /\ UNCHANGED <<args, faults, opt, logfile, tserver, mutex_cl, handler, end>>

-----------------------------------------------------------------------------
(* The end *)

Wait ==
    /\ At("main", "wait")
    /\ if_exit
    /\ GoTo("main", "delete")
    /\ Quiet
    /\ UNCHANGED <<args, faults, opt, logfile, tserver, mutex_cl, if_exit, handler, end>>

\* delete net: uv_loop_close finds the server's handle and does nothing, the
\* thread is joined, and uv_mutex_destroy aborts if the mutex is locked.
DeleteNet ==
    /\ At("main", "delete")
    /\ pc["net"] = "done"
    /\ IF mutex_cl THEN EndAs("abort") ELSE EndAs("returned")
    /\ GoTo("main", "done")
    /\ Quiet
    /\ UNCHANGED <<args, faults, opt, logfile, tserver, mutex_cl, if_exit, handler>>

\* If uvnet() has failed and its exception was lost, main goes on with members
\* of which some were never initialised: what it, and the thread of the network,
\* do with them works or does not.
UseUninitialised ==
    /\ "net" \in faults
    /\ \/ \E at \in {"cert", "bind", "listen", "delete"} : At("main", at)
       \/ \E at \in {"start", "loop", "closed"} : At("net", at)
    /\ EndAs("undefined")
    /\ Quiet
    /\ UNCHANGED <<args, faults, opt, pc, logfile, tserver, mutex_cl, if_exit, handler>>

\* SIGINT: exit_handler runs exit() on the thread of main, which is alone; once
\* the VM is there it has put its own handler in place, which runs exit() too.
VMRuns == pc["main"] \notin {"conf", "jvm"} /\ "jvm" \notin faults
Signal ==
    /\ thrown = {} /\ end = "running"
    /\ pc["main"] \notin {"options", "log"}
    /\ handler' = IF VMRuns THEN "vm" ELSE "main"
    /\ end' = "exiting"
    /\ Quiet
    /\ UNCHANGED <<args, faults, opt, pc, logfile, tserver, mutex_cl, if_exit>>

\* exit() destroys debugFile.  A thread that still writes may go on or not.
UseDestroyed ==
    /\ end = "exiting"
    /\ \E t \in Threads : Alive(t) /\ Writing(t)
    /\ EndAs("undefined")
    /\ Quiet
    /\ UNCHANGED <<args, faults, opt, pc, logfile, tserver, mutex_cl, if_exit, handler>>

ExitDone ==
    /\ thrown = {} /\ end = "exiting"
    /\ EndAs("exit")
    /\ Quiet
    /\ UNCHANGED <<args, faults, opt, pc, logfile, tserver, mutex_cl, if_exit, handler>>

Main ==
    \/ ReadOption \/ OptionsRead \/ OpenLog \/ ReadConf \/ CreateJVM \/ InitDB \/ NewDispatch
    \/ StartDispatch \/ NewNet \/ SetCert \/ CertDone \/ Binding \/ Listen \/ StartNet \/ Wait \/ DeleteNet
Net == NetRuns \/ LoopEnds \/ NetDone

Next ==
    \/ Main \/ DispRuns \/ Net
    \/ \E t \in Threads : Log(t)
    \/ Signal \/ UseUninitialised \/ UseDestroyed \/ ExitDone

Spec == Init /\ [][Next]_vars

\* Threads that can run do; a SIGINT need never come.
FairSpec == Spec /\ WF_vars(Main) /\ WF_vars(Net) /\ \A t \in Threads : WF_vars(Log(t))

-----------------------------------------------------------------------------
Unusable == faults \intersect {"class", "dispatch", "net"} # {} \/ ConfFails
Ended == thrown # {} \/ end # "running"

MissingValue == \E i \in 1 .. Len(args) : Missing(args[i])
WrongValue == \E i \in 1 .. Len(args) : BadLevel(args[i]) \/ BadPath(args[i])

(***************************************************************************)
(* How the process can end, for what is on the command line and what has   *)
(* failed.  An exception leaves a thread only if something failed that is  *)
(* logged as an error, though the thread may be one that logs something    *)
(* else; otherwise what is thrown comes of an option or of a setting.  A   *)
(* failed uvnet() is survived only if another thread's line came between   *)
(* the error and its text.  A log directory that is not there is a crash,  *)
(* NULL included, which --help says drops the logs (main.cpp:90).  An end  *)
(* of the loop ends in abort(), because mutex_cl is still locked: main     *)
(* does not return.                                                        *)
(***************************************************************************)
EndHasCause ==
    /\ thrown # {} => Unusable
    /\ end = "terminate" => faults \intersect {"json", "settings"} # {} \/ MissingValue \/ WrongValue
    /\ end = "crash" => "jvm" \in faults \/ ~ LogDirExists \/ MissingValue
    /\ end = "failure" => ForkFails
    /\ end = "abort" => tserver = NotListening /\ faults \intersect {"inuse", "net"} # {}
    /\ end \in {"exiting", "exit"} => handler # "none"
    /\ end = "undefined" => ("net" \in faults /\ lost = "raced") \/ handler # "none"
    /\ lost # "alone"
    /\ end # "returned"

\* The last option of those that set the directory of the logs.
LogOptions == {i \in 1 .. Len(args) : args[i].flag \in {"--log", "--userdir"}}
LastLogOption == args[CHOOSE i \in LogOptions : \A j \in LogOptions : j <= i]

(***************************************************************************)
(* What a start that reaches main's loop has been through: no option was   *)
(* wrong; nothing failed but what is only warned of, or uvnet(), the       *)
(* exception of which another thread's line then took away; and it logs    *)
(* where the last of --log and --userdir says, a daemon nowhere.           *)
(***************************************************************************)
StartedWhole ==
    pc["main"] = "wait" =>
       /\ \A i \in 1 .. Len(args) : Outcomes(args[i]) = {"running"}
       /\ faults \subseteq {"fork", "dispThread", "netThread", "net", "cert", "inuse", "noipv6"}
       /\ ~ ForkFails /\ LogDirExists /\ ~ ConfFails
       /\ "net" \in faults => lost = "raced"
       /\ logfile = IF \E i \in 1 .. Len(args) : args[i].flag = "--daemon" THEN << >>
                    ELSE IF LogOptions = {} THEN Defaults.logdir
                    ELSE IF LastLogOption.flag = "--log" THEN <<LastLogOption.params[1]>>
                    ELSE <<LastLogOption.params[1], "logs">>

(***************************************************************************)
(* What is written of an error goes to the log: "Error are always logged,  *)
(* because they are important." (debug.cpp:239).  A line of another thread *)
(* that the filter drops turns the rest of it away.                        *)
(***************************************************************************)
ErrorsAreLogged ==
    [][\A t \in Threads :
          (Log(t) /\ line[t].lev = "error" /\ line[t].at # "arm") => "FILE" \in dir]_vars

(***************************************************************************)
(* A server that could not listen ends: the loop of its thread is empty,   *)
(* and main is told.  Without the thread it would wait for ever, and what  *)
(* a loop does that uvnet() has not initialised is anybody's guess.        *)
(***************************************************************************)
UnboundEnds ==
    (pc["main"] = "wait" /\ tserver = NotListening /\ faults \intersect {"netThread", "net"} = {}) ~> Ended
=============================================================================
