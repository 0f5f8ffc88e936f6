----------------------------- MODULE ServerProofs -----------------------------
(***************************************************************************)
(* Proofs of what Server says of the end of the process and of a start     *)
(* that reaches main's loop, for every command line and any number of      *)
(* failures in one start.                                                  *)
(***************************************************************************)
EXTENDS Server, TLAPS

Line == [at : {"idle", "preamble", "arm", "text"},
         lev : {"none", "info", "warning", "error"}, raced : BOOLEAN]

(***************************************************************************)
(* The log.  There are error lines, and exceptions, only after a failure   *)
(* that is logged as one; an error line that no other thread's has crossed *)
(* is armed when its text is written.                                      *)
(***************************************************************************)
ErrorsHaveCause ==
    (\/ \E t \in Threads : line[t].lev = "error"
     \/ "THROW" \in dir
     \/ thrown # {}) => Unusable

Armed ==
    \A t \in Threads :
       (line[t].at = "text" /\ line[t].lev = "error" /\ ~ line[t].raced) => "THROW" \in dir

ArmsErrors == \A t \in Threads : line[t].at = "arm" => line[t].lev = "error"

LogInv ==
    /\ line \in [Threads -> Line]
    /\ lost \in {"no", "raced"}
    /\ ErrorsHaveCause
    /\ Armed
    /\ ArmsErrors

(***************************************************************************)
(* The process.  The thread of the network runs only when main has got to  *)
(* its loop, with the server as Listen left it; when its loop has ended,   *)
(* the mutex is locked.  A failed uvnet() is still being logged when main  *)
(* gets to the certificate, or has been thrown, or was lost to a race.     *)
(***************************************************************************)
Late == {"wait", "delete", "done"}

ErrorUnderWay(t) == Writing(t) /\ line[t].lev = "error"

Fields(o) == [argv |-> o.argv, daemon |-> o.daemon, port |-> o.port, userdir |-> o.userdir, logdir |-> o.logdir]

DirOf(a) == IF a.flag = "--log" THEN <<a.params[1]>> ELSE <<a.params[1], "logs">>

\* Until the options are read main is alone, and has logged nothing.
AtOptions ==
    pc["main"] = "options" =>
       /\ end \in {"running", "help", "crash", "terminate"}
       /\ opt = Fields(opt) /\ opt.argv \in Nat \ {0}
       /\ pc["disp"] = "none"
       /\ line = [t \in Threads |-> NoLine] /\ dir = {} /\ thrown = {}

ProcessInv ==
    /\ AtOptions
    /\ pc["net"] # "none" => pc["main"] \in Late
    /\ (pc["main"] \in Late \union {"start"} /\ "net" \notin faults) => tserver = Listening
    /\ pc["net"] \in {"closed", "done"} => tserver = NotListening /\ mutex_cl
    /\ (pc["main"] = "cert" /\ "net" \in faults) =>
          lost = "raced" \/ thrown # {} \/ ErrorUnderWay("main")
    /\ (pc["main"] \in Late \union {"certDone", "bind", "listen", "start"} /\ "net" \in faults) =>
          lost = "raced"

EndInv ==
    /\ end = "terminate" => faults \intersect {"json", "settings"} # {} \/ MissingValue \/ WrongValue
    /\ end = "crash" => "jvm" \in faults \/ ~ LogDirExists \/ MissingValue
    /\ end = "failure" => ForkFails
    /\ end = "abort" =>
          /\ tserver = NotListening /\ faults \intersect {"inuse", "net"} # {}
          /\ pc["main"] = "done"
    /\ end \in {"exiting", "exit"} => handler # "none"
    /\ end = "undefined" => ("net" \in faults /\ lost = "raced") \/ handler # "none"
    /\ end # "returned"

Places == {"none", "options", "log", "conf", "jvm", "db", "dispatch", "dispStart", "net", "cert",
           "certDone", "bind", "listen", "start", "loop", "closed"} \union Late

IInv == LogInv /\ pc \in [Threads -> Places] /\ ProcessInv /\ EndInv

LEMMA SameCauses ==
    ASSUME UNCHANGED <<args, faults, opt>>
    PROVE  /\ MissingValue' <=> MissingValue
           /\ WrongValue' <=> WrongValue
           /\ ForkFails' <=> ForkFails
           /\ LogDirExists' <=> LogDirExists
           /\ ConfFails' <=> ConfFails
           /\ Unusable' <=> Unusable
    BY DEF MissingValue, WrongValue, ForkFails, LogDirExists, ConfFails, Unusable, Missing, BadLevel, BadPath

\* A line, another thread, or the end of exit() is there only when the options
\* have been read.
LEMMA PastOptions ==
    ASSUME IInv, pc["disp"] # "none" \/ pc["net"] # "none" \/ end = "exiting" \/ \E t \in Threads : Writing(t)
    PROVE  pc["main"] # "options"
    BY DEF IInv, ProcessInv, AtOptions, Late, Writing, NoLine

LEMMA EndHasCauseFollows == IInv => EndHasCause
    BY DEF IInv, LogInv, ErrorsHaveCause, EndInv, EndHasCause

-----------------------------------------------------------------------------
(* Logging *)

LEMMA RacedByIs ==
    ASSUME NEW t \in Threads, NEW lines \in [Threads -> Line]
    PROVE  /\ RacedBy(t, lines) \in [Threads -> Line]
           /\ RacedBy(t, lines)[t] = lines[t]
           /\ \A u \in Threads :
                 /\ RacedBy(t, lines)[u].at = lines[u].at
                 /\ RacedBy(t, lines)[u].lev = lines[u].lev
                 /\ (u # t /\ Writing(u)) => RacedBy(t, lines)[u].raced
                 /\ (u # t /\ ~ Writing(u)) => RacedBy(t, lines)[u] = lines[u]
<1>1. \A u \in Threads : lines[u] \in Line
    OBVIOUS
<1> QED
    BY <1>1 DEF RacedBy, Line

\* The line t has begun, and what is left of the others'.
LEMMA DebugLogIs ==
    ASSUME LogInv, NEW t \in Threads, NEW lev \in {"info", "warning", "error"}, NEW cl,
           DebugLog(t, lev, cl)
    PROVE  /\ line' \in [Threads -> Line]
           /\ line'[t].lev = lev /\ line'[t].at \in {"preamble", "text"}
           /\ lev = "error" => line'[t].at = "preamble"
           /\ ~ line'[t].raced
           /\ \A u \in Threads \ {t} :
                 /\ line'[u].at = line[u].at /\ line'[u].lev = line[u].lev
                 /\ Writing(u) => line'[u].raced
           /\ "THROW" \notin dir'
           /\ thrown' = thrown /\ lost' = lost
<1> DEFINE new == [at |-> IF Passes(lev, cl) THEN "preamble" ELSE "text", lev |-> lev, raced |-> FALSE]
           lines == [line EXCEPT ![t] = new]
<1>1. new \in Line /\ new.lev = lev /\ new.at \in {"preamble", "text"} /\ ~ new.raced
      /\ (lev = "error" => new.at = "preamble")
    BY DEF Line, Passes
<1>2. lines \in [Threads -> Line] /\ lines[t] = new /\ \A u \in Threads \ {t} : lines[u] = line[u]
    BY <1>1 DEF LogInv
<1>3. line' = RacedBy(t, lines) /\ "THROW" \notin dir' /\ thrown' = thrown /\ lost' = lost
    BY DEF DebugLog
<1> HIDE DEF new, lines
<1> QED
    BY <1>1, <1>2, <1>3, RacedByIs

LEMMA DebugLogKeeps ==
    ASSUME LogInv, NEW t \in Threads, NEW lev \in {"info", "warning", "error"}, NEW cl,
           DebugLog(t, lev, cl), lev = "error" => Unusable, UNCHANGED <<faults, opt>>
    PROVE  LogInv'
<1>1. /\ line' \in [Threads -> Line]
      /\ line'[t].lev = lev /\ line'[t].at \in {"preamble", "text"}
      /\ lev = "error" => line'[t].at = "preamble"
      /\ \A u \in Threads \ {t} :
            /\ line'[u].at = line[u].at /\ line'[u].lev = line[u].lev
            /\ Writing(u) => line'[u].raced
      /\ "THROW" \notin dir'
      /\ thrown' = thrown /\ lost' = lost
    BY DebugLogIs
<1>2. ErrorsHaveCause'
    BY <1>1 DEF LogInv, ErrorsHaveCause, Unusable, ConfFails
<1>3. Armed'
    BY <1>1 DEF Armed, Writing
<1>4. ArmsErrors'
    BY <1>1 DEF LogInv, ArmsErrors
<1> QED
    BY <1>1, <1>2, <1>3, <1>4 DEF LogInv

\* A step inside a line: an error under way stays so, is thrown, or is lost to a race.
LEMMA LogStepKeeps ==
    ASSUME LogInv, NEW t \in Threads, LogStep(t), UNCHANGED <<faults, opt>>
    PROVE  /\ LogInv'
           /\ thrown \subseteq thrown'
           /\ lost = "raced" => lost' = "raced"
           /\ \A u \in Threads : ErrorUnderWay(u) =>
                 lost' = "raced" \/ thrown' # {} \/ ErrorUnderWay(u)'
<1>0. line[t] \in Line /\ line \in [Threads -> Line]
    BY DEF LogInv
<1>1. CASE "THROW" \in dir /\ Throw(t)
  <2>1. /\ thrown' = thrown \union {t} /\ dir' = dir /\ line' = line /\ lost' = lost
      BY <1>1 DEF Throw
  <2> QED
      BY <1>1, <2>1 DEF LogInv, ErrorsHaveCause, Armed, ArmsErrors, Unusable, ConfFails
<1>2. CASE /\ line[t].at = "preamble" /\ "THROW" \notin dir
           /\ line' = [line EXCEPT ![t].at = IF line[t].lev = "error" THEN "arm" ELSE "text"]
           /\ UNCHANGED <<debugLevel, dir, thrown, lost>>
  <2>1. /\ line' \in [Threads -> Line]
        /\ line'[t].at \in {"arm", "text"} /\ line'[t].lev = line[t].lev
        /\ line[t].lev = "error" => line'[t].at = "arm"
        /\ \A u \in Threads \ {t} : line'[u] = line[u]
      BY <1>0, <1>2 DEF Line
  <2>2. LogInv'
      BY <1>2, <2>1 DEF LogInv, ErrorsHaveCause, Armed, ArmsErrors, Unusable, ConfFails
  <2> QED
      BY <1>2, <2>1, <2>2 DEF ErrorUnderWay, Writing
<1>3. CASE Arm(t)
  <2> DEFINE lines == [line EXCEPT ![t].at = "text"]
  <2>1. /\ lines \in [Threads -> Line]
        /\ lines[t].at = "text" /\ lines[t].lev = line[t].lev
        /\ \A u \in Threads \ {t} : lines[u] = line[u]
      BY <1>0 DEF Line
  <2>2. /\ line' = RacedBy(t, lines) /\ "THROW" \in dir' /\ thrown' = thrown /\ lost' = lost
      BY <1>3 DEF Arm
  <2> HIDE DEF lines
  <2>3. /\ line' \in [Threads -> Line]
        /\ \A u \in Threads : line'[u].lev = line[u].lev
        /\ line'[t].at = "text" /\ \A u \in Threads \ {t} : line'[u].at = line[u].at
      BY <2>1, <2>2, RacedByIs
  <2>4. ErrorsHaveCause'
    <3>1. line[t].lev = "error"
        BY <1>3 DEF LogInv, ArmsErrors, Arm
    <3>2. Unusable
        BY <3>1 DEF LogInv, ErrorsHaveCause
    <3> QED
        BY <3>2 DEF ErrorsHaveCause, Unusable, ConfFails
  <2>5. Armed' /\ ArmsErrors'
      BY <2>2, <2>3 DEF LogInv, Armed, ArmsErrors
  <2> QED
      BY <2>2, <2>3, <2>4, <2>5 DEF LogInv, ErrorUnderWay, Writing
<1>4. CASE /\ line[t].at = "text" /\ "THROW" \notin dir
           /\ line' = [line EXCEPT ![t] = NoLine]
           /\ lost' = IF line[t].lev # "error" THEN lost
                      ELSE IF line[t].raced THEN "raced" ELSE "alone"
           /\ UNCHANGED <<debugLevel, dir, thrown>>
  <2>1. /\ line' \in [Threads -> Line] /\ line'[t].lev = "none" /\ line'[t].at = "idle"
        /\ \A u \in Threads \ {t} : line'[u] = line[u]
      BY <1>0, <1>4 DEF NoLine, Line
  <2>2. line[t].lev = "error" => lost' = "raced"
      BY <1>4 DEF LogInv, Armed
  <2>3. line[t].lev # "error" => lost' = lost
      BY <1>4
  <2>4. LogInv'
    <3>1. lost' \in {"no", "raced"}
        BY <2>2, <2>3 DEF LogInv
    <3>2. ErrorsHaveCause'
        BY <1>4, <2>1 DEF LogInv, ErrorsHaveCause, Unusable, ConfFails
    <3>3. Armed' /\ ArmsErrors'
        BY <1>4, <2>1 DEF LogInv, Armed, ArmsErrors
    <3> QED
        BY <2>1, <3>1, <3>2, <3>3 DEF LogInv
  <2> QED
      BY <1>4, <2>1, <2>2, <2>3, <2>4 DEF ErrorUnderWay, Writing
<1> QED
    BY <1>1, <1>2, <1>3, <1>4 DEF LogStep, Preamble, Text

LEMMA QuietKeeps ==
    ASSUME LogInv, Quiet, UNCHANGED <<faults, opt>>
    PROVE  LogInv' /\ thrown' = thrown /\ lost' = lost /\ line' = line
    BY DEF LogInv, Quiet, logVars, ErrorsHaveCause, Armed, ArmsErrors, Unusable, ConfFails

-----------------------------------------------------------------------------
(* main *)

\* A step of main that logs nothing, or begins a line.
MainMoves(from, to) ==
    /\ At("main", from) /\ GoTo("main", to) /\ to \in Places /\ UNCHANGED <<faults, opt>>
    /\ \/ Quiet
       \/ \E lev \in {"info", "warning", "error"}, cl \in {"main", "other"} :
             DebugLog("main", lev, cl) /\ (lev = "error" => Unusable)

LEMMA MainStep ==
    ASSUME IInv, NEW from, NEW to, MainMoves(from, to)
    PROVE  /\ LogInv'
           /\ pc["main"] = from /\ ~ Writing("main") /\ thrown = {}
           /\ end = "running" \/ (end = "exiting" /\ handler # "main")
           /\ pc' \in [Threads -> Places] /\ pc'["main"] = to /\ pc'["net"] = pc["net"]
           /\ thrown' = thrown /\ lost' = lost
<1>0. {"main", "net"} \subseteq Threads
    BY ServerAssumption
<1>1. /\ pc["main"] = from /\ ~ Writing("main") /\ thrown = {}
      /\ end = "running" \/ (end = "exiting" /\ handler # "main")
    BY DEF MainMoves, At, Alive
<1>2. pc' \in [Threads -> Places] /\ pc'["main"] = to /\ pc'["net"] = pc["net"]
    BY <1>0 DEF MainMoves, IInv, GoTo
<1>3. CASE Quiet
    BY <1>1, <1>2, <1>3, QuietKeeps DEF IInv, MainMoves
<1>4. CASE \E lev \in {"info", "warning", "error"}, cl \in {"main", "other"} :
               DebugLog("main", lev, cl) /\ (lev = "error" => Unusable)
  <2>1. PICK lev \in {"info", "warning", "error"}, cl \in {"main", "other"} :
           DebugLog("main", lev, cl) /\ (lev = "error" => Unusable)
      BY <1>4
  <2>2. LogInv' /\ thrown' = thrown /\ lost' = lost
      BY <1>0, <2>1, DebugLogKeeps, DebugLogIs DEF IInv, MainMoves
  <2> QED
      BY <1>1, <1>2, <2>2
<1> QED
    BY <1>1, <1>2, <1>3, <1>4 DEF MainMoves

\* What one option does to the directory of the logs and to the daemon.
LEMMA HandleIs ==
    ASSUME NEW o, o = Fields(o), NEW a
    PROVE  LET h == [Handle(o, a) EXCEPT !.argv = o.argv + 1]
           IN  /\ h = Fields(h)
               /\ h.argv = o.argv + 1
               /\ h.daemon = IF a.flag = "--daemon" THEN TRUE ELSE o.daemon
               /\ h.logdir = IF a.flag \in {"--log", "--userdir"} THEN DirOf(a) ELSE o.logdir
<1>1. \A p : p = Fields(p) =>
         LET h == [p EXCEPT !.argv = o.argv + 1]
         IN  /\ h = Fields(h) /\ h.argv = o.argv + 1 /\ h.daemon = p.daemon /\ h.logdir = p.logdir
    BY DEF Fields
<1>2. CASE a.flag = "--daemon"
  <2>1. Handle(o, a) = [o EXCEPT !.daemon = TRUE]
      BY <1>2 DEF Handle
  <2>2. /\ Handle(o, a) = Fields(Handle(o, a))
        /\ Handle(o, a).daemon = TRUE /\ Handle(o, a).logdir = o.logdir
      BY <2>1 DEF Fields
  <2> QED
      BY <1>1, <1>2, <2>2
<1>3. CASE a.flag = "--log"
  <2>1. Handle(o, a) = [o EXCEPT !.logdir = <<a.params[1]>>]
      BY <1>3 DEF Handle
  <2>2. /\ Handle(o, a) = Fields(Handle(o, a))
        /\ Handle(o, a).daemon = o.daemon /\ Handle(o, a).logdir = DirOf(a)
      BY <1>3, <2>1 DEF Fields, DirOf
  <2> QED
      BY <1>1, <1>3, <2>2
<1>4. CASE a.flag = "--userdir"
  <2>1. Handle(o, a) = [o EXCEPT !.userdir = a.params[1], !.logdir = <<a.params[1], "logs">>]
      BY <1>4 DEF Handle
  <2>2. /\ Handle(o, a) = Fields(Handle(o, a))
        /\ Handle(o, a).daemon = o.daemon /\ Handle(o, a).logdir = DirOf(a)
      BY <1>4, <2>1 DEF Fields, DirOf
  <2> QED
      BY <1>1, <1>4, <2>2
<1>5. CASE a.flag = "--port"
  <2>1. Handle(o, a) = [o EXCEPT !.port = Atoi(a.params[1])]
      BY <1>5 DEF Handle
  <2>2. /\ Handle(o, a) = Fields(Handle(o, a))
        /\ Handle(o, a).daemon = o.daemon /\ Handle(o, a).logdir = o.logdir
      BY <2>1 DEF Fields
  <2> QED
      BY <1>1, <1>5, <2>2
<1>6. CASE a.flag \notin {"--daemon", "--port", "--log", "--userdir"}
  <2>1. Handle(o, a) = o
      BY <1>6 DEF Handle
  <2> QED
      BY <1>1, <1>6, <2>1
<1> QED
    BY <1>2, <1>3, <1>4, <1>5, <1>6

LEMMA ReadOptionKeeps == ASSUME IInv, ReadOption PROVE IInv'
<1> DEFINE a == args[opt.argv]
<1>1. /\ pc["main"] = "options" /\ end' \in Outcomes(a)
      /\ UNCHANGED <<args, faults, pc, tserver, mutex_cl, handler, dir, line, thrown, lost>>
    BY DEF ReadOption, At, limitDebugLevel, Quiet, logVars
<1>2. opt.argv \in 1 .. Len(args)
    BY <1>1 DEF IInv, ProcessInv, AtOptions, ReadOption
<1>3. /\ end' \in {"running", "help", "crash", "terminate"}
      /\ end' = "crash" => MissingValue
      /\ end' = "terminate" => MissingValue \/ WrongValue
    BY <1>1, <1>2 DEF Outcomes, MissingValue, WrongValue
<1>4. MissingValue' = MissingValue /\ WrongValue' = WrongValue
    BY <1>1 DEF MissingValue, WrongValue, Missing, BadLevel, BadPath
<1>5. AtOptions /\ LogInv /\ pc \in [Threads -> Places]
    BY DEF IInv, ProcessInv
<1>6. /\ \A t \in Threads : line[t].lev = "none" /\ line[t].at = "idle"
      /\ dir = {} /\ thrown = {}
    BY <1>1, <1>5 DEF AtOptions, NoLine
<1>7. LogInv'
    BY <1>1, <1>5, <1>6 DEF LogInv, ErrorsHaveCause, Armed, ArmsErrors
<1>8. AtOptions'
  <2>1. opt' = opt \/ opt' = [Handle(opt, a) EXCEPT !.argv = opt.argv + 1]
      BY DEF ReadOption
  <2>2. opt = Fields(opt) /\ opt.argv \in Nat \ {0}
      BY <1>1, <1>5 DEF AtOptions
  <2>3. opt' = Fields(opt') /\ opt'.argv \in Nat \ {0}
    <3> HIDE DEF a
    <3>1. CASE opt' = opt
        BY <2>2, <3>1
    <3>2. CASE opt' = [Handle(opt, a) EXCEPT !.argv = opt.argv + 1]
      <4>1. opt' = Fields(opt') /\ opt'.argv = opt.argv + 1
          BY <2>2, <3>2, HandleIs
      <4> QED
          BY <2>2, <4>1
    <3> QED
        BY <2>1, <3>1, <3>2
  <2> QED
      BY <1>1, <1>3, <1>5, <2>3 DEF AtOptions
<1>9. ProcessInv'
    BY <1>1, <1>8 DEF IInv, ProcessInv, Late
<1>10. EndInv'
    BY <1>3, <1>4 DEF EndInv
<1> QED
    BY <1>1, <1>5, <1>7, <1>9, <1>10 DEF IInv

LEMMA OptionsReadKeeps == ASSUME IInv, OptionsRead PROVE IInv'
<1>1. MainMoves("options", "log")
    BY DEF OptionsRead, MainMoves, Places, Late
<1>2. /\ LogInv' /\ pc["main"] = "options" /\ lost' = lost
      /\ pc' \in [Threads -> Places] /\ pc'["main"] = "log" /\ pc'["net"] = pc["net"]
    BY <1>1, MainStep
<1>3. ProcessInv'
    BY <1>2 DEF IInv, ProcessInv, AtOptions, OptionsRead, Late
<1>4. EndInv'
    BY <1>2, SameCauses DEF IInv, EndInv, OptionsRead
<1> QED
    BY <1>2, <1>3, <1>4 DEF IInv

LEMMA OpenLogKeeps == ASSUME IInv, OpenLog PROVE IInv'
<1>1. MainMoves("log", "conf")
    BY DEF OpenLog, MainMoves, Places, Late
<1>2. /\ LogInv' /\ pc["main"] = "log" /\ lost' = lost
      /\ pc' \in [Threads -> Places] /\ pc'["main"] = "conf" /\ pc'["net"] = pc["net"]
    BY <1>1, MainStep
<1>3. ProcessInv'
    BY <1>2 DEF IInv, ProcessInv, AtOptions, OpenLog, Late
<1>4. EndInv'
    BY <1>2, SameCauses DEF IInv, EndInv, OpenLog, EndAs, GoOn
<1> QED
    BY <1>2, <1>3, <1>4 DEF IInv

LEMMA ReadConfKeeps == ASSUME IInv, ReadConf PROVE IInv'
<1>1. MainMoves("conf", "jvm")
    BY DEF ReadConf, MainMoves, Places, Late, Unusable, ConfFails
<1>2. /\ LogInv' /\ pc["main"] = "conf" /\ lost' = lost
      /\ pc' \in [Threads -> Places] /\ pc'["main"] = "jvm" /\ pc'["net"] = pc["net"]
    BY <1>1, MainStep
<1>3. ProcessInv'
    BY <1>2 DEF IInv, ProcessInv, AtOptions, ReadConf, Late
<1>4. EndInv'
    BY <1>2, SameCauses DEF IInv, EndInv, ReadConf, EndAs, GoOn
<1> QED
    BY <1>2, <1>3, <1>4 DEF IInv

LEMMA CreateJVMKeeps == ASSUME IInv, CreateJVM PROVE IInv'
<1>1. MainMoves("jvm", "db")
    BY DEF CreateJVM, MainMoves, Places, Late
<1>2. /\ LogInv' /\ pc["main"] = "jvm" /\ lost' = lost
      /\ pc' \in [Threads -> Places] /\ pc'["main"] = "db" /\ pc'["net"] = pc["net"]
    BY <1>1, MainStep
<1>3. ProcessInv'
    BY <1>2 DEF IInv, ProcessInv, AtOptions, CreateJVM, Late
<1>4. EndInv'
    BY <1>2, SameCauses DEF IInv, EndInv, CreateJVM, EndAs, GoOn, MayLack
<1> QED
    BY <1>2, <1>3, <1>4 DEF IInv

LEMMA InitDBKeeps == ASSUME IInv, InitDB PROVE IInv'
<1>1. MainMoves("db", "dispatch")
    BY DEF InitDB, MainMoves, Places, Late, Unusable, ConfFails
<1>2. /\ LogInv' /\ pc["main"] = "db" /\ lost' = lost
      /\ pc' \in [Threads -> Places] /\ pc'["main"] = "dispatch" /\ pc'["net"] = pc["net"]
    BY <1>1, MainStep
<1>3. ProcessInv'
    BY <1>2 DEF IInv, ProcessInv, AtOptions, InitDB, Late
<1>4. EndInv'
    BY <1>2, SameCauses DEF IInv, EndInv, InitDB, EndAs, GoOn, MayLack
<1> QED
    BY <1>2, <1>3, <1>4 DEF IInv

LEMMA NewDispatchKeeps == ASSUME IInv, NewDispatch PROVE IInv'
<1>1. MainMoves("dispatch", "dispStart")
    BY DEF NewDispatch, MainMoves, Places, Late, Unusable, ConfFails
<1>2. /\ LogInv' /\ pc["main"] = "dispatch" /\ lost' = lost
      /\ pc' \in [Threads -> Places] /\ pc'["main"] = "dispStart" /\ pc'["net"] = pc["net"]
    BY <1>1, MainStep
<1>3. ProcessInv'
    BY <1>2 DEF IInv, ProcessInv, AtOptions, NewDispatch, Late
<1>4. EndInv'
    BY <1>2, SameCauses DEF IInv, EndInv, NewDispatch
<1> QED
    BY <1>2, <1>3, <1>4 DEF IInv

\* The error of a failed uvnet() is under way.
LEMMA NewNetKeeps == ASSUME IInv, NewNet PROVE IInv'
<1>1. MainMoves("net", "cert")
    BY DEF NewNet, MainMoves, Places, Late, Unusable, ConfFails
<1>2. /\ LogInv' /\ pc["main"] = "net" /\ lost' = lost
      /\ pc' \in [Threads -> Places] /\ pc'["main"] = "cert" /\ pc'["net"] = pc["net"]
    BY <1>1, MainStep
<1>3. "net" \in faults => ErrorUnderWay("main")'
  <2>1. "main" \in Threads /\ LogInv
      BY ServerAssumption DEF IInv
  <2>2. "net" \in faults => DebugLog("main", "error", "other")
      BY DEF NewNet
  <2>3. "net" \in faults => line'["main"].lev = "error" /\ line'["main"].at = "preamble"
      BY <2>1, <2>2, DebugLogIs
  <2> QED
      BY <2>3 DEF ErrorUnderWay, Writing
<1>4. ProcessInv'
    BY <1>2, <1>3 DEF IInv, ProcessInv, AtOptions, NewNet, Late
<1>5. EndInv'
    BY <1>2, SameCauses DEF IInv, EndInv, NewNet
<1> QED
    BY <1>2, <1>4, <1>5 DEF IInv

\* main gets here after a failed uvnet() only if the error was lost to a race.
LEMMA SetCertKeeps == ASSUME IInv, SetCert PROVE IInv'
<1>1. MainMoves("cert", "certDone")
    BY DEF SetCert, MainMoves, Places, Late
<1>2. /\ LogInv' /\ pc["main"] = "cert" /\ ~ Writing("main") /\ thrown = {} /\ lost' = lost
      /\ pc' \in [Threads -> Places] /\ pc'["main"] = "certDone" /\ pc'["net"] = pc["net"]
    BY <1>1, MainStep
<1>4. "net" \in faults => lost = "raced"
    BY <1>2 DEF IInv, ProcessInv, ErrorUnderWay
<1>3. ProcessInv'
    BY <1>2, <1>4 DEF IInv, ProcessInv, AtOptions, SetCert, Late
<1>5. EndInv'
    BY <1>2, <1>4, SameCauses DEF IInv, EndInv, SetCert, EndAs, GoOn
<1> QED
    BY <1>2, <1>3, <1>5 DEF IInv

LEMMA CertDoneKeeps == ASSUME IInv, CertDone PROVE IInv'
<1>1. MainMoves("certDone", "bind")
    BY DEF CertDone, MainMoves, Places, Late
<1>2. /\ LogInv' /\ pc["main"] = "certDone" /\ lost' = lost
      /\ pc' \in [Threads -> Places] /\ pc'["main"] = "bind" /\ pc'["net"] = pc["net"]
    BY <1>1, MainStep
<1>3. ProcessInv'
    BY <1>2 DEF IInv, ProcessInv, AtOptions, CertDone, Late
<1>4. EndInv'
    BY <1>2, SameCauses DEF IInv, EndInv, CertDone
<1> QED
    BY <1>2, <1>3, <1>4 DEF IInv

LEMMA BindingKeeps == ASSUME IInv, Binding PROVE IInv'
<1>1. MainMoves("bind", "listen")
    BY DEF Binding, MainMoves, Places, Late
<1>2. /\ LogInv' /\ pc["main"] = "bind" /\ lost' = lost
      /\ pc' \in [Threads -> Places] /\ pc'["main"] = "listen" /\ pc'["net"] = pc["net"]
    BY <1>1, MainStep
<1>3. ProcessInv'
    BY <1>2 DEF IInv, ProcessInv, AtOptions, Binding, Late
<1>4. EndInv'
    BY <1>2, SameCauses DEF IInv, EndInv, Binding
<1> QED
    BY <1>2, <1>3, <1>4 DEF IInv

LEMMA ListenKeeps == ASSUME IInv, Listen PROVE IInv'
<1>1. MainMoves("listen", "start")
    BY DEF Listen, MainMoves, Places, Late
<1>2. /\ LogInv' /\ pc["main"] = "listen" /\ lost' = lost
      /\ pc' \in [Threads -> Places] /\ pc'["main"] = "start" /\ pc'["net"] = pc["net"]
    BY <1>1, MainStep
<1>3. ProcessInv'
    BY <1>2 DEF IInv, ProcessInv, AtOptions, Listen, Late, Listening
<1>4. EndInv'
    BY <1>2, SameCauses DEF IInv, EndInv, Listen
<1> QED
    BY <1>2, <1>3, <1>4 DEF IInv

LEMMA WaitKeeps == ASSUME IInv, Wait PROVE IInv'
<1>1. MainMoves("wait", "delete")
    BY DEF Wait, MainMoves, Places, Late
<1>2. /\ LogInv' /\ pc["main"] = "wait" /\ lost' = lost
      /\ pc' \in [Threads -> Places] /\ pc'["main"] = "delete" /\ pc'["net"] = pc["net"]
    BY <1>1, MainStep
<1>3. ProcessInv'
    BY <1>2 DEF IInv, ProcessInv, AtOptions, Wait, Late, Listening
<1>4. EndInv'
    BY <1>2, SameCauses DEF IInv, EndInv, Wait
<1> QED
    BY <1>2, <1>3, <1>4 DEF IInv

\* The thread of the network is done: it has left the mutex locked.
LEMMA DeleteNetKeeps == ASSUME IInv, DeleteNet PROVE IInv'
<1>1. MainMoves("delete", "done")
    BY DEF DeleteNet, MainMoves, Places, Late
<1>2. /\ LogInv' /\ pc["main"] = "delete" /\ lost' = lost
      /\ pc' \in [Threads -> Places] /\ pc'["main"] = "done" /\ pc'["net"] = pc["net"]
    BY <1>1, MainStep
<1>3. ProcessInv'
    BY <1>2 DEF IInv, ProcessInv, AtOptions, DeleteNet, Late, Listening
<1>4. mutex_cl /\ tserver = NotListening /\ faults \intersect {"inuse", "net"} # {}
    BY <1>2 DEF IInv, ProcessInv, DeleteNet, Late, Listening, NotListening, AnyPort
<1>5. EndInv'
    BY <1>2, <1>4, SameCauses DEF IInv, EndInv, DeleteNet, EndAs
<1> QED
    BY <1>2, <1>3, <1>5 DEF IInv

LEMMA StartThreadKeeps ==
    ASSUME IInv, NEW t \in Threads \ {"main"}, NEW fault, NEW from, NEW to \in Places,
           from \notin Late, from = "start" <=> to \in Late, to \notin {"start", "options", "cert", "certDone", "bind", "listen"},
           t = "net" => from = "start",
           StartThread(t, fault, from, to)
    PROVE  IInv'
<1>0. {"main", "net"} \subseteq Threads
    BY ServerAssumption
<1>1. /\ pc["main"] = from
      /\ UNCHANGED <<args, faults, opt, tserver, mutex_cl, handler, end>>
    BY DEF StartThread, At
<1>2. /\ pc' \in [Threads -> Places] /\ pc'["main"] = to
      /\ pc'["net"] = pc["net"] \/ (pc'["net"] = "start" /\ t = "net")
    BY <1>0 DEF IInv, StartThread, GoTo, Places
<1>3. LogInv' /\ lost' = lost
  <2>1. CASE fault \in faults
      BY <1>0, <1>1, <2>1, DebugLogKeeps, DebugLogIs DEF IInv, StartThread
  <2>2. CASE fault \notin faults
      BY <1>1, <2>2, QuietKeeps DEF IInv, StartThread
  <2> QED
      BY <2>1, <2>2
<1>4. ProcessInv'
    BY <1>1, <1>2, <1>3 DEF IInv, ProcessInv, AtOptions, Listening, Late
<1>5. EndInv'
    BY <1>1, <1>2, <1>3, SameCauses DEF IInv, EndInv, Late
<1> QED
    BY <1>2, <1>3, <1>4, <1>5 DEF IInv

LEMMA StartDispatchKeeps == ASSUME IInv, StartDispatch PROVE IInv'
    BY ServerAssumption, StartThreadKeeps DEF StartDispatch, Late, Places

LEMMA StartNetKeeps == ASSUME IInv, StartNet PROVE IInv'
    BY ServerAssumption, StartThreadKeeps DEF StartNet, Late, Places

-----------------------------------------------------------------------------
(* The other threads *)

\* A step of another thread that logs; main's line stays under way.
LEMMA ThreadStep ==
    ASSUME IInv, NEW t \in Threads \ {"main"}, NEW from, NEW to \in Places, At(t, from), GoTo(t, to),
           DebugLog(t, "info", "other"), UNCHANGED <<faults, opt>>
    PROVE  /\ LogInv' /\ thrown' = thrown /\ lost' = lost
           /\ ErrorUnderWay("main") => ErrorUnderWay("main")'
           /\ pc[t] = from /\ pc' = [pc EXCEPT ![t] = to] /\ pc' \in [Threads -> Places]
<1>1. LogInv' /\ thrown' = thrown /\ lost' = lost
    BY DebugLogKeeps, DebugLogIs DEF IInv
<1>2. "main" \in Threads \ {t}
    BY ServerAssumption
<1>3. line'["main"].at = line["main"].at /\ line'["main"].lev = line["main"].lev
    BY <1>2, DebugLogIs DEF IInv
<1> QED
    BY <1>1, <1>3 DEF IInv, At, GoTo, ErrorUnderWay, Writing

LEMMA DispRunsKeeps == ASSUME IInv, DispRuns PROVE IInv'
<1>0. "disp" \in Threads \ {"main"} /\ "loop" \in Places /\ {"main", "net", "disp"} \subseteq Threads
    BY ServerAssumption DEF Places
<1>1. /\ GoTo("disp", "loop") /\ DebugLog("disp", "info", "other")
      /\ UNCHANGED <<args, faults, opt, tserver, mutex_cl, handler, end>>
      /\ At("disp", "start") \/ At("disp", "loop")
    BY DEF DispRuns
<1>2. /\ LogInv' /\ thrown' = thrown /\ lost' = lost
      /\ ErrorUnderWay("main") => ErrorUnderWay("main")'
      /\ pc' = [pc EXCEPT !["disp"] = "loop"] /\ pc' \in [Threads -> Places]
    BY <1>0, <1>1, ThreadStep
<1>3. pc'["main"] = pc["main"] /\ pc'["net"] = pc["net"]
    BY <1>0, <1>2 DEF IInv
<1>6. pc["main"] # "options"
    BY <1>1, PastOptions DEF At
<1>4. ProcessInv'
    BY <1>1, <1>2, <1>3, <1>6 DEF IInv, ProcessInv, AtOptions, Listening, Late
<1>5. EndInv'
    BY <1>1, <1>2, <1>3, SameCauses DEF IInv, EndInv
<1> QED
    BY <1>2, <1>4, <1>5 DEF IInv

LEMMA NetRunsKeeps == ASSUME IInv, NetRuns PROVE IInv'
<1>0. "net" \in Threads \ {"main"} /\ "loop" \in Places /\ {"main", "net"} \subseteq Threads
    BY ServerAssumption DEF Places
<1>1. /\ GoTo("net", "loop") /\ DebugLog("net", "info", "other")
      /\ UNCHANGED <<args, faults, opt, tserver, mutex_cl, handler, end>>
      /\ At("net", "start") \/ At("net", "loop")
    BY DEF NetRuns
<1>2. /\ LogInv' /\ thrown' = thrown /\ lost' = lost
      /\ ErrorUnderWay("main") => ErrorUnderWay("main")'
      /\ pc' = [pc EXCEPT !["net"] = "loop"] /\ pc' \in [Threads -> Places]
      /\ pc["net"] \in {"start", "loop"}
    BY <1>0, <1>1, ThreadStep
<1>3. pc'["main"] = pc["main"] /\ pc'["net"] = "loop"
    BY <1>0, <1>2 DEF IInv
<1>6. pc["main"] # "options"
    BY <1>1, PastOptions DEF At
<1>4. ProcessInv'
    BY <1>1, <1>2, <1>3, <1>6 DEF IInv, ProcessInv, AtOptions, Listening, Late
<1>5. EndInv'
    BY <1>1, <1>2, <1>3, SameCauses DEF IInv, EndInv
<1> QED
    BY <1>2, <1>4, <1>5 DEF IInv

\* The mutex is locked, and stays so.
LEMMA LoopEndsKeeps == ASSUME IInv, LoopEnds PROVE IInv'
<1>0. "net" \in Threads \ {"main"} /\ "closed" \in Places /\ {"main", "net"} \subseteq Threads
    BY ServerAssumption DEF Places
<1>1. /\ GoTo("net", "closed") /\ DebugLog("net", "info", "other") /\ mutex_cl' /\ tserver = NotListening
      /\ UNCHANGED <<args, faults, opt, tserver, handler, end>>
      /\ At("net", "loop")
    BY DEF LoopEnds
<1>2. /\ LogInv' /\ thrown' = thrown /\ lost' = lost
      /\ ErrorUnderWay("main") => ErrorUnderWay("main")'
      /\ pc' = [pc EXCEPT !["net"] = "closed"] /\ pc' \in [Threads -> Places]
      /\ pc["net"] = "loop"
    BY <1>0, <1>1, ThreadStep
<1>3. pc'["main"] = pc["main"] /\ pc'["net"] = "closed"
    BY <1>0, <1>2 DEF IInv
<1>6. pc["main"] # "options"
    BY <1>1, PastOptions DEF At
<1>4. ProcessInv'
    BY <1>1, <1>2, <1>3, <1>6 DEF IInv, ProcessInv, AtOptions, Listening, Late
<1>5. EndInv'
    BY <1>1, <1>2, <1>3, SameCauses DEF IInv, EndInv
<1> QED
    BY <1>2, <1>4, <1>5 DEF IInv

LEMMA NetDoneKeeps == ASSUME IInv, NetDone PROVE IInv'
<1>0. "done" \in Places /\ {"main", "net"} \subseteq Threads
    BY ServerAssumption DEF Places, Late
<1>1. /\ pc["net"] = "closed" /\ Quiet
      /\ UNCHANGED <<args, faults, opt, tserver, mutex_cl, handler, end>>
    BY DEF NetDone, At
<1>2. LogInv' /\ thrown' = thrown /\ lost' = lost /\ line' = line
    BY <1>1, QuietKeeps DEF IInv
<1>3. pc' \in [Threads -> Places] /\ pc'["main"] = pc["main"] /\ pc'["net"] = "done"
    BY <1>0 DEF IInv, NetDone, GoTo
<1>6. pc["main"] # "options"
    BY <1>1, PastOptions
<1>4. ProcessInv'
    BY <1>1, <1>2, <1>3, <1>6 DEF IInv, ProcessInv, AtOptions, Listening, ErrorUnderWay, Writing, Late
<1>5. EndInv'
    BY <1>1, <1>2, <1>3, SameCauses DEF IInv, EndInv
<1> QED
    BY <1>2, <1>3, <1>4, <1>5 DEF IInv

LEMMA LogKeeps == ASSUME IInv, NEW t \in Threads, Log(t) PROVE IInv'
<1>0. "main" \in Threads
    BY ServerAssumption
<1>1. LogStep(t) /\ UNCHANGED <<args, faults, opt, pc, tserver, mutex_cl, handler, end>>
    BY DEF Log, own
<1>2. /\ LogInv' /\ thrown \subseteq thrown'
      /\ lost = "raced" => lost' = "raced"
      /\ \A u \in Threads : ErrorUnderWay(u) =>
            lost' = "raced" \/ thrown' # {} \/ ErrorUnderWay(u)'
    BY <1>1, LogStepKeeps DEF IInv
<1>5. pc["main"] # "options"
    BY <1>1, PastOptions DEF LogStep, Preamble, Arm, Text, Writing
<1>3. ProcessInv'
    BY <1>0, <1>1, <1>2, <1>5 DEF IInv, ProcessInv, AtOptions, Listening
<1>4. EndInv'
    BY <1>1, <1>2, SameCauses DEF IInv, EndInv
<1> QED
    BY <1>1, <1>2, <1>3, <1>4 DEF IInv

-----------------------------------------------------------------------------
(* The end *)

\* SIGINT, what it destroys, the end of exit(), members never initialised, and
\* a stutter.
Ending == Signal \/ UseUninitialised \/ UseDestroyed \/ ExitDone

LEMMA EndingKeeps ==
    ASSUME IInv, Ending \/ UNCHANGED vars
    PROVE  IInv'
<1>1. Quiet /\ UNCHANGED <<args, faults, opt, pc, tserver, mutex_cl, dir, line, thrown, lost>>
    BY DEF Ending, Signal, UseUninitialised, UseDestroyed, ExitDone, vars, own, Quiet, logVars
<1>2. LogInv'
    BY <1>1, QuietKeeps DEF IInv
<1>3. \/ end' = end /\ handler' = handler
      \/ end' = "exiting" /\ handler' # "none" /\ pc["main"] # "options"
      \/ end = "exiting" /\ end' \in {"undefined", "exit"} /\ handler' = handler
      \/ UseUninitialised /\ end' = "undefined" /\ handler' = handler
    BY DEF Ending, Signal, UseUninitialised, UseDestroyed, ExitDone, EndAs, vars, own
<1>4. UseUninitialised => lost = "raced" /\ "net" \in faults /\ pc["main"] # "options"
  <2>1. ASSUME NEW at \in {"cert", "bind", "listen", "delete"}, At("main", at), "net" \in faults
        PROVE  lost = "raced" /\ pc["main"] # "options"
      BY <2>1 DEF IInv, ProcessInv, At, Alive, ErrorUnderWay, Late
  <2>2. ASSUME NEW at \in {"start", "loop", "closed"}, At("net", at), "net" \in faults
        PROVE  lost = "raced" /\ pc["main"] # "options"
      BY <2>2 DEF IInv, ProcessInv, At, Late
  <2> QED
      BY <2>1, <2>2 DEF UseUninitialised
<1>5. end = "exiting" => pc["main"] # "options"
    BY PastOptions
<1>6. AtOptions'
    BY <1>1, <1>3, <1>4, <1>5 DEF IInv, ProcessInv, AtOptions
<1>7. ProcessInv'
    BY <1>1, <1>6 DEF IInv, ProcessInv, Listening, ErrorUnderWay, Writing
<1>8. EndInv'
    BY <1>1, <1>3, <1>4, SameCauses DEF IInv, EndInv
<1> QED
    BY <1>1, <1>2, <1>7, <1>8 DEF IInv

-----------------------------------------------------------------------------
LEMMA IInvInit == Init => IInv
<1> SUFFICES ASSUME Init PROVE IInv
    OBVIOUS
<1>0. {"main", "disp", "net"} \subseteq Threads
    BY ServerAssumption
<1>1. line = [t \in Threads |-> NoLine] /\ NoLine \in Line /\ NoLine.lev = "none" /\ NoLine.at = "idle"
    BY DEF Init, LogInit, NoLine, Line
<1>2. LogInv
    BY <1>1 DEF Init, LogInit, LogInv, ErrorsHaveCause, Armed, ArmsErrors
<1>3. pc \in [Threads -> Places] /\ pc["main"] = "options" /\ pc["net"] = "none"
    BY <1>0 DEF Init, Places
<1>4. ProcessInv
    BY <1>0, <1>3 DEF Init, LogInit, ProcessInv, AtOptions, Late, Defaults, Fields
<1>5. EndInv
    BY DEF Init, EndInv
<1> QED
    BY <1>2, <1>3, <1>4, <1>5 DEF IInv

LEMMA IInvStep == IInv /\ [Next]_vars => IInv'
<1> SUFFICES ASSUME IInv, [Next]_vars PROVE IInv'
    OBVIOUS
<1>1. CASE Main
    BY <1>1, ReadOptionKeeps, OptionsReadKeeps, OpenLogKeeps, ReadConfKeeps, CreateJVMKeeps, InitDBKeeps,
       NewDispatchKeeps, StartDispatchKeeps, NewNetKeeps, SetCertKeeps, CertDoneKeeps, BindingKeeps,
       ListenKeeps, StartNetKeeps, WaitKeeps, DeleteNetKeeps DEF Main
<1>2. CASE DispRuns
    BY <1>2, DispRunsKeeps
<1>3. CASE Net
    BY <1>3, NetRunsKeeps, LoopEndsKeeps, NetDoneKeeps DEF Net
<1>4. CASE \E t \in Threads : Log(t)
    BY <1>4, LogKeeps
<1>5. CASE Ending \/ UNCHANGED vars
    BY <1>5, EndingKeeps
<1> QED
    BY <1>1, <1>2, <1>3, <1>4, <1>5 DEF Next, Ending

\* The invariant holds of every run of the process.
THEOREM IInvAlways == Spec => []IInv
    BY IInvInit, IInvStep, PTL DEF Spec

\* However the process ends, on every command line, the end has its cause: an
\* option without its value or with a wrong one, a failure that is logged as an
\* error, a setting that is missing, a port in use, a race of two threads for
\* debugFile, or a SIGINT.  main never returns.
THEOREM EveryEndHasCause == Spec => []EndHasCause
    BY IInvAlways, EndHasCauseFollows, PTL
-----------------------------------------------------------------------------
(***************************************************************************)
(* A start that reaches main's loop.  Until the dispatcher's thread is     *)
(* started main is alone, so that nothing takes the D_THROW of its errors  *)
(* away.  A failure that is not survived stops main one step later: the    *)
(* process has ended, an exception has left main, or its error is being    *)
(* written.                                                                *)
(***************************************************************************)
ToConf == {"options", "log", "conf"}
ToDb == ToConf \union {"jvm", "db"}
ToDispatch == ToDb \union {"dispatch"}
ToCert == ToDispatch \union {"dispStart", "net", "cert"}

Early == ToDispatch \union {"dispStart"}

MainAlone ==
    pc["main"] \in Early =>
       /\ pc["disp"] = "none" /\ pc["net"] = "none"
       /\ \A t \in Threads \ {"main"} : ~ Writing(t)
       /\ ~ line["main"].raced /\ lost = "no"

Fatal == thrown # {} \/ end \notin {"running", "exiting"}
Stopping == Fatal \/ ErrorUnderWay("main")

FailuresStop ==
    /\ faults \subseteq FaultKinds
    /\ (ForkFails \/ ~ LogDirExists) =>
          pc["main"] \in {"options", "log"} \/ (pc["main"] = "conf" /\ Fatal)
    /\ ConfFails => pc["main"] \in ToConf \/ (pc["main"] = "jvm" /\ Stopping)
    /\ "json" \in faults => pc["main"] \in ToConf \/ (pc["main"] = "jvm" /\ Stopping)
    /\ "jvm" \in faults => pc["main"] \in ToDb \/ (pc["main"] = "dispatch" /\ Fatal)
    /\ "class" \in faults => pc["main"] \in ToDb \/ (pc["main"] = "dispatch" /\ Stopping)
    /\ "dispatch" \in faults =>
          pc["main"] \in ToDispatch \/ (pc["main"] = "dispStart" /\ Stopping)
    /\ "settings" \in faults => pc["main"] \in ToCert \/ (pc["main"] = "certDone" /\ Fatal)

(***************************************************************************)
(* The options.  Those handled so far were right, and have set what they   *)
(* would have set alone, the last one of those that set the directory of   *)
(* the logs.                                                               *)
(***************************************************************************)
IsLastLog(i, n) == i < n /\ \A j \in LogOptions : j < n => j <= i

OptionsSet ==
    /\ args \in Seq(Options)
    /\ \A i \in 1 .. Len(args) : i < opt.argv => Outcomes(args[i]) = {"running"}
    /\ opt = Fields(opt)
    /\ opt.daemon \in BOOLEAN
    /\ opt.argv \in 1 .. Len(args) + 1
    /\ opt.daemon <=> \E i \in 1 .. Len(args) : i < opt.argv /\ args[i].flag = "--daemon"
    /\ \/ (\A i \in LogOptions : ~ (i < opt.argv)) /\ opt.logdir = Defaults.logdir
       \/ \E i \in LogOptions : IsLastLog(i, opt.argv) /\ opt.logdir = DirOf(args[i])
    /\ pc["main"] # "options" => opt.argv = Len(args) + 1
    /\ pc["main"] \notin {"options", "log"} =>
          logfile = IF opt.daemon THEN << >> ELSE opt.logdir

StartInv == IInv /\ MainAlone /\ FailuresStop /\ OptionsSet
LEMMA MainStarts == ASSUME StartInv, NEW from, At("main", from) PROVE pc["main"] = from /\ ~ Stopping /\ ~ Fatal
    BY DEF At, Alive, Stopping, Fatal, ErrorUnderWay

\* Main may log, and be alone or not.
LEMMA MainAloneKept ==
    ASSUME StartInv, NEW from, NEW to, MainMoves(from, to), pc'["disp"] = pc["disp"],
           to \in Early => from \in Early
    PROVE  MainAlone'
<1>0. "main" \in Threads /\ LogInv
    BY ServerAssumption DEF StartInv, IInv
<1>1. /\ pc["main"] = from /\ pc'["main"] = to /\ pc'["net"] = pc["net"] /\ lost' = lost
    BY MainStep DEF StartInv
<1>2. SUFFICES ASSUME from \in Early
               PROVE  /\ \A t \in Threads \ {"main"} : ~ Writing(t)'
                      /\ ~ line'["main"].raced
    BY <1>1 DEF StartInv, MainAlone
<1>3. (\A t \in Threads \ {"main"} : ~ Writing(t)) /\ ~ line["main"].raced
    BY <1>1, <1>2 DEF StartInv, MainAlone
<1>4. CASE Quiet
    BY <1>3, <1>4 DEF Quiet, logVars, Writing
<1>5. CASE \E lev \in {"info", "warning", "error"}, cl \in {"main", "other"} :
               DebugLog("main", lev, cl) /\ (lev = "error" => Unusable)
  <2>1. /\ ~ line'["main"].raced
        /\ \A u \in Threads \ {"main"} : line'[u].at = line[u].at
      BY <1>0, <1>5, DebugLogIs
  <2> QED
      BY <1>3, <2>1 DEF Writing
<1> QED
    BY <1>4, <1>5 DEF MainMoves

\* An error that main begins stops it.
LEMMA ErrorStops ==
    ASSUME LogInv, NEW cl, DebugLog("main", "error", cl)
    PROVE  Stopping'
    BY ServerAssumption, DebugLogIs DEF Stopping, ErrorUnderWay, Writing

LEMMA OptionsKept ==
    ASSUME OptionsSet, UNCHANGED <<args, opt, logfile>>,
           pc'["main"] # "options" => pc["main"] # "options",
           pc'["main"] \notin {"options", "log"} => pc["main"] \notin {"options", "log"}
    PROVE  OptionsSet'
    BY DEF OptionsSet, LogOptions, IsLastLog, DirOf, Fields, Outcomes, Missing, BadLevel, BadPath

LEMMA FailuresKept ==
    ASSUME FailuresStop, UNCHANGED <<args, faults, opt>>, pc'["main"] = pc["main"],
           Fatal => Fatal',
           (pc["main"] \in Early /\ Stopping) => Stopping'
    PROVE  FailuresStop'
    BY SameCauses DEF FailuresStop, Early, ToDispatch, ToDb, ToConf

-----------------------------------------------------------------------------
LEMMA StartInit == Init => StartInv
<1> SUFFICES ASSUME Init PROVE StartInv
    OBVIOUS
<1>0. {"main", "disp", "net"} = Threads
    BY ServerAssumption
<1>1. IInv
    BY IInvInit
<1>2. pc["main"] = "options" /\ pc["disp"] = "none" /\ pc["net"] = "none"
    BY <1>0 DEF Init
<1>3. \A t \in Threads : line[t].at = "idle" /\ ~ line[t].raced
    BY DEF Init, LogInit, NoLine
<1>4. MainAlone
    BY <1>0, <1>2, <1>3 DEF Init, LogInit, MainAlone, Writing
<1>5. FailuresStop
  <2>1. faults \subseteq FaultKinds
      BY ServerAssumption DEF Init
  <2> QED
      BY <1>2, <2>1 DEF FailuresStop, ToConf, ToDb, ToDispatch, ToCert
<1>6. OptionsSet
  <2>1. args \in Seq(Options)
      BY ServerAssumption DEF Init
  <2>2. opt = Fields(opt)
      BY DEF Init, Defaults, Fields
  <2>3. opt = Defaults /\ Defaults.argv = 1 /\ Defaults.daemon = FALSE
      BY DEF Init, Defaults
  <2>4. \A i \in 1 .. Len(args) : ~ (i < 1)
      BY <2>1
  <2>5. LogOptions \subseteq 1 .. Len(args)
      BY DEF LogOptions
  <2>6. Len(args) \in Nat /\ 1 \in 1 .. Len(args) + 1
      BY <2>1
  <2>7. opt.argv = 1 /\ opt.daemon = FALSE /\ opt.logdir = Defaults.logdir
      BY <2>3
  <2>8. opt.daemon <=> \E i \in 1 .. Len(args) : i < opt.argv /\ args[i].flag = "--daemon"
      BY <2>4, <2>7
  <2>9. \A i \in LogOptions : ~ (i < opt.argv)
      BY <2>4, <2>5, <2>7
  <2> QED
      BY <1>2, <2>1, <2>2, <2>4, <2>6, <2>7, <2>8, <2>9 DEF OptionsSet
<1> QED
    BY <1>1, <1>4, <1>5, <1>6 DEF StartInv
-----------------------------------------------------------------------------
(* The options *)

LEMMA ReadOptionStarts == ASSUME StartInv, ReadOption PROVE StartInv'
<1>0. IInv'
    BY ReadOptionKeeps DEF StartInv
<1>1. /\ pc["main"] = "options"
      /\ UNCHANGED <<args, faults, pc, logfile, dir, line, thrown, lost>>
      /\ opt.argv <= Len(args)
      /\ \/ opt' = opt
         \/ /\ opt' = [Handle(opt, args[opt.argv]) EXCEPT !.argv = opt.argv + 1]
            /\ "running" \in Outcomes(args[opt.argv])
    BY DEF ReadOption, At, limitDebugLevel, Quiet, logVars
<1>2. MainAlone'
    BY <1>1 DEF StartInv, MainAlone, Writing
<1>3. FailuresStop'
    BY <1>1, SameCauses DEF StartInv, FailuresStop, ToConf, ToDb, ToDispatch, ToCert
<1>4. CASE opt' = opt
    BY <1>0, <1>1, <1>2, <1>3, <1>4, OptionsKept DEF StartInv
<1>5. CASE opt' # opt
  <2> DEFINE n == opt.argv
             a == args[n]
  <2>0. Outcomes(a) = {"running"}
      BY <1>1, <1>5 DEF Outcomes
  <2>1. /\ opt' = Fields(opt') /\ opt'.argv = n + 1
        /\ opt'.daemon = IF a.flag = "--daemon" THEN TRUE ELSE opt.daemon
        /\ opt'.logdir = IF a.flag \in {"--log", "--userdir"} THEN DirOf(a) ELSE opt.logdir
    <3>1. opt' = [Handle(opt, a) EXCEPT !.argv = opt.argv + 1] /\ opt = Fields(opt)
        BY <1>1, <1>5 DEF StartInv, OptionsSet
    <3> HIDE DEF a
    <3> QED
        BY <3>1, HandleIs
  <2>2. /\ args \in Seq(Options)
        /\ n \in 1 .. Len(args)
        /\ \A i \in 1 .. Len(args) : i < n => Outcomes(args[i]) = {"running"}
        /\ opt.daemon \in BOOLEAN
        /\ opt.daemon <=> \E i \in 1 .. Len(args) : i < n /\ args[i].flag = "--daemon"
        /\ \/ (\A i \in LogOptions : ~ (i < n)) /\ opt.logdir = Defaults.logdir
           \/ \E i \in LogOptions : IsLastLog(i, n) /\ opt.logdir = DirOf(args[i])
    <3>1. OptionsSet
        BY DEF StartInv
    <3>2. n \in 1 .. Len(args) + 1 /\ Len(args) \in Nat /\ n <= Len(args)
        BY <1>1, <3>1 DEF OptionsSet
    <3>3. n \in 1 .. Len(args)
        BY <3>2
    <3> QED
        BY <3>1, <3>3 DEF OptionsSet
  <2>3. args' = args /\ LogOptions' = LogOptions
      BY <1>1 DEF LogOptions
  <2>4. LogOptions = {i \in 1 .. Len(args) : args[i].flag \in {"--log", "--userdir"}}
      BY DEF LogOptions
  <2>5. n \in Int /\ \A i \in 1 .. Len(args) : i \in Int /\ (i < n + 1 <=> (i < n \/ i = n))
      BY <2>2
  <2>6. n + 1 \in 1 .. Len(args) + 1
      BY <2>2
  <2> HIDE DEF n
  <2>7. opt'.daemon \in BOOLEAN
      BY <2>1, <2>2
  <2>8. opt'.daemon <=> \E i \in 1 .. Len(args) : i < n + 1 /\ args[i].flag = "--daemon"
      BY <2>1, <2>2, <2>5
  <2>9. \/ (\A i \in LogOptions : ~ (i < n + 1)) /\ opt'.logdir = Defaults.logdir
        \/ \E i \in LogOptions : IsLastLog(i, n + 1) /\ opt'.logdir = DirOf(args[i])
    <3>1. CASE a.flag \in {"--log", "--userdir"}
      <4>1. n \in LogOptions /\ opt'.logdir = DirOf(args[n])
          BY <2>1, <2>2, <2>4, <3>1
      <4>2. n < n + 1 /\ \A j \in LogOptions : j < n + 1 => j <= n
          BY <2>4, <2>5
      <4> QED
          BY <4>1, <4>2 DEF IsLastLog
    <3>2. CASE a.flag \notin {"--log", "--userdir"}
      <4>1. n \notin LogOptions /\ opt'.logdir = opt.logdir
          BY <2>1, <2>4, <3>2
      <4>2. \A i \in LogOptions : i < n + 1 <=> i < n
          BY <2>4, <2>5, <4>1
      <4>3. \A i \in LogOptions : IsLastLog(i, n) => IsLastLog(i, n + 1)
          BY <4>2 DEF IsLastLog
      <4> QED
          BY <2>2, <4>1, <4>2, <4>3
    <3> QED
        BY <3>1, <3>2
  <2>12. \A i \in 1 .. Len(args) : i < n + 1 => Outcomes(args[i]) = {"running"}
      BY <2>0, <2>2, <2>5
  <2>13. \A i \in 1 .. Len(args) : Outcomes(args[i])' = Outcomes(args[i])
      BY <2>3 DEF Outcomes, Missing, BadLevel, BadPath
  <2>10. pc'["main"] = "options"
      BY <1>1
  <2>11. \A i, m : IsLastLog(i, m)' <=> IsLastLog(i, m)
      BY <2>3 DEF IsLastLog
  <2>14. OptionsSet'
      BY <2>1, <2>2, <2>3, <2>6, <2>7, <2>8, <2>9, <2>10, <2>11, <2>12, <2>13 DEF OptionsSet, DirOf, Fields
  <2> QED
      BY <1>0, <1>2, <1>3, <2>14 DEF StartInv
<1> QED
    BY <1>4, <1>5

LEMMA OptionsReadStarts == ASSUME StartInv, OptionsRead PROVE StartInv'
<1>0. IInv'
    BY OptionsReadKeeps DEF StartInv
<1>1. /\ pc["main"] = "options" /\ pc'["main"] = "log"
      /\ UNCHANGED <<args, faults, opt, logfile>>
      /\ opt.argv > Len(args) /\ pc'["disp"] = pc["disp"]
    BY ServerAssumption DEF OptionsRead, At, GoTo, StartInv, IInv
<1>2. MainAlone'
  <2>1. MainMoves("options", "log")
      BY DEF OptionsRead, MainMoves, Places, Late
  <2> QED
      BY <1>1, <2>1, MainAloneKept DEF Early, ToDispatch, ToDb, ToConf
<1>3. FailuresStop'
    BY <1>1, SameCauses DEF StartInv, FailuresStop, ToConf, ToDb, ToDispatch, ToCert
<1>4. OptionsSet'
  <2>1. opt.argv = Len(args) + 1
      BY <1>1 DEF StartInv, OptionsSet
  <2> QED
      BY <1>1, <2>1 DEF StartInv, OptionsSet, LogOptions, IsLastLog, DirOf, Fields
<1> QED
    BY <1>0, <1>2, <1>3, <1>4 DEF StartInv

LEMMA OpenLogStarts == ASSUME StartInv, OpenLog PROVE StartInv'
<1>0. IInv'
    BY OpenLogKeeps DEF StartInv
<1>1. /\ pc["main"] = "log" /\ pc'["main"] = "conf"
      /\ UNCHANGED <<args, faults, opt>>
      /\ logfile' = (IF opt.daemon THEN << >> ELSE opt.logdir)
      /\ pc'["disp"] = pc["disp"]
    BY ServerAssumption DEF OpenLog, At, GoTo, StartInv, IInv
<1>2. MainAlone'
  <2>1. MainMoves("log", "conf")
      BY DEF OpenLog, MainMoves, Places, Late
  <2> QED
      BY <1>1, <2>1, MainAloneKept DEF Early, ToDispatch, ToDb, ToConf
<1>5. ForkFails \/ ~ LogDirExists => Fatal'
    BY DEF OpenLog, EndAs, Fatal
<1>3. FailuresStop'
    BY <1>1, <1>5, SameCauses DEF StartInv, FailuresStop, ToConf, ToDb, ToDispatch, ToCert
<1>4. OptionsSet'
    BY <1>1 DEF StartInv, OptionsSet, LogOptions, IsLastLog, DirOf, Fields
<1> QED
    BY <1>0, <1>2, <1>3, <1>4 DEF StartInv
-----------------------------------------------------------------------------
(* The start *)

LEMMA ReadConfStarts == ASSUME StartInv, ReadConf PROVE StartInv'
<1>0. IInv'
    BY ReadConfKeeps DEF StartInv
<1>1. /\ pc["main"] = "conf" /\ pc'["main"] = "jvm" /\ ~ Stopping /\ ~ Fatal
      /\ UNCHANGED <<args, faults, opt, logfile>>
      /\ pc'["disp"] = pc["disp"]
    BY ServerAssumption, MainStarts DEF ReadConf, GoTo, StartInv, IInv
<1>2. MainAlone'
  <2>1. MainMoves("conf", "jvm")
      BY DEF ReadConf, MainMoves, Places, Late, Unusable, ConfFails
  <2> QED
      BY <1>1, <2>1, MainAloneKept DEF Early, ToDispatch, ToDb, ToConf
<1>3. ConfFails \/ "json" \in faults => Stopping'
  <2>1. CASE ConfFails
      BY <2>1, ErrorStops DEF ReadConf, StartInv, IInv
  <2>2. CASE ~ ConfFails /\ "json" \in faults
      BY <2>2 DEF ReadConf, EndAs, Stopping, Fatal
  <2> QED
      BY <2>1, <2>2
<1>4. FailuresStop'
    BY <1>1, <1>3, SameCauses DEF StartInv, FailuresStop, ToConf, ToDb, ToDispatch, ToCert
<1>5. OptionsSet'
    BY <1>1, OptionsKept DEF StartInv
<1> QED
    BY <1>0, <1>2, <1>4, <1>5 DEF StartInv

LEMMA CreateJVMStarts == ASSUME StartInv, CreateJVM PROVE StartInv'
<1>0. IInv'
    BY CreateJVMKeeps DEF StartInv
<1>1. /\ pc["main"] = "jvm" /\ pc'["main"] = "db" /\ ~ Stopping /\ ~ Fatal
      /\ UNCHANGED <<args, faults, opt, logfile>>
      /\ pc'["disp"] = pc["disp"]
    BY ServerAssumption, MainStarts DEF CreateJVM, GoTo, StartInv, IInv
<1>2. MainAlone'
  <2>1. MainMoves("jvm", "db")
      BY DEF CreateJVM, MainMoves, Places, Late
  <2> QED
      BY <1>1, <2>1, MainAloneKept DEF Early, ToDispatch, ToDb, ToConf
<1>4. FailuresStop'
    BY <1>1, SameCauses DEF StartInv, FailuresStop, ToConf, ToDb, ToDispatch, ToCert
<1>5. OptionsSet'
    BY <1>1, OptionsKept DEF StartInv
<1> QED
    BY <1>0, <1>2, <1>4, <1>5 DEF StartInv

LEMMA InitDBStarts == ASSUME StartInv, InitDB PROVE StartInv'
<1>0. IInv'
    BY InitDBKeeps DEF StartInv
<1>1. /\ pc["main"] = "db" /\ pc'["main"] = "dispatch" /\ ~ Stopping /\ ~ Fatal
      /\ UNCHANGED <<args, faults, opt, logfile>>
      /\ pc'["disp"] = pc["disp"]
    BY ServerAssumption, MainStarts DEF InitDB, GoTo, StartInv, IInv
<1>2. MainAlone'
  <2>1. MainMoves("db", "dispatch")
      BY DEF InitDB, MainMoves, Places, Late, Unusable, ConfFails
  <2> QED
      BY <1>1, <2>1, MainAloneKept DEF Early, ToDispatch, ToDb, ToConf
<1>3. /\ "jvm" \in faults => Fatal'
      /\ "class" \in faults => Stopping'
  <2>1. end' = end \/ end' \in {"terminate", "crash"}
      BY DEF InitDB, MayLack, GoOn, EndAs
  <2>2. end' # end => Fatal'
      BY <2>1 DEF Fatal
  <2>3. (end' = end /\ "class" \in faults) => Stopping'
      BY ErrorStops DEF InitDB, StartInv, IInv
  <2> QED
      BY <2>2, <2>3 DEF InitDB, Stopping
<1>4. FailuresStop'
    BY <1>1, <1>3, SameCauses DEF StartInv, FailuresStop, ToConf, ToDb, ToDispatch, ToCert
<1>5. OptionsSet'
    BY <1>1, OptionsKept DEF StartInv
<1> QED
    BY <1>0, <1>2, <1>4, <1>5 DEF StartInv

LEMMA NewDispatchStarts == ASSUME StartInv, NewDispatch PROVE StartInv'
<1>0. IInv'
    BY NewDispatchKeeps DEF StartInv
<1>1. /\ pc["main"] = "dispatch" /\ pc'["main"] = "dispStart" /\ ~ Stopping /\ ~ Fatal
      /\ UNCHANGED <<args, faults, opt, logfile>>
      /\ pc'["disp"] = pc["disp"]
    BY ServerAssumption, MainStarts DEF NewDispatch, GoTo, StartInv, IInv
<1>2. MainAlone'
  <2>1. MainMoves("dispatch", "dispStart")
      BY DEF NewDispatch, MainMoves, Places, Late, Unusable, ConfFails
  <2> QED
      BY <1>1, <2>1, MainAloneKept DEF Early, ToDispatch, ToDb, ToConf
<1>3. "dispatch" \in faults => Stopping'
    BY ErrorStops DEF NewDispatch, StartInv, IInv
<1>4. FailuresStop'
    BY <1>1, <1>3, SameCauses DEF StartInv, FailuresStop, ToConf, ToDb, ToDispatch, ToCert
<1>5. OptionsSet'
    BY <1>1, OptionsKept DEF StartInv
<1> QED
    BY <1>0, <1>2, <1>4, <1>5 DEF StartInv

LEMMA NewNetStarts == ASSUME StartInv, NewNet PROVE StartInv'
<1>0. IInv'
    BY NewNetKeeps DEF StartInv
<1>1. /\ pc["main"] = "net" /\ pc'["main"] = "cert" /\ ~ Stopping /\ ~ Fatal
      /\ UNCHANGED <<args, faults, opt, logfile>>
      /\ pc'["disp"] = pc["disp"]
    BY ServerAssumption, MainStarts DEF NewNet, GoTo, StartInv, IInv
<1>2. MainAlone'
  <2>1. MainMoves("net", "cert")
      BY DEF NewNet, MainMoves, Places, Late, Unusable, ConfFails
  <2> QED
      BY <1>1, <2>1, MainAloneKept DEF Early, ToDispatch, ToDb, ToConf
<1>4. FailuresStop'
    BY <1>1, SameCauses DEF StartInv, FailuresStop, ToConf, ToDb, ToDispatch, ToCert
<1>5. OptionsSet'
    BY <1>1, OptionsKept DEF StartInv
<1> QED
    BY <1>0, <1>2, <1>4, <1>5 DEF StartInv

LEMMA SetCertStarts == ASSUME StartInv, SetCert PROVE StartInv'
<1>0. IInv'
    BY SetCertKeeps DEF StartInv
<1>1. /\ pc["main"] = "cert" /\ pc'["main"] = "certDone" /\ ~ Stopping /\ ~ Fatal
      /\ UNCHANGED <<args, faults, opt, logfile>>
      /\ pc'["disp"] = pc["disp"]
    BY ServerAssumption, MainStarts DEF SetCert, GoTo, StartInv, IInv
<1>2. MainAlone'
  <2>1. MainMoves("cert", "certDone")
      BY DEF SetCert, MainMoves, Places, Late
  <2> QED
      BY <1>1, <2>1, MainAloneKept DEF Early, ToDispatch, ToDb, ToConf
<1>3. "settings" \in faults => Fatal'
    BY DEF SetCert, EndAs, Fatal
<1>4. FailuresStop'
    BY <1>1, <1>3, SameCauses DEF StartInv, FailuresStop, ToConf, ToDb, ToDispatch, ToCert
<1>5. OptionsSet'
    BY <1>1, OptionsKept DEF StartInv
<1> QED
    BY <1>0, <1>2, <1>4, <1>5 DEF StartInv

LEMMA CertDoneStarts == ASSUME StartInv, CertDone PROVE StartInv'
<1>0. IInv'
    BY CertDoneKeeps DEF StartInv
<1>1. /\ pc["main"] = "certDone" /\ pc'["main"] = "bind" /\ ~ Stopping /\ ~ Fatal
      /\ UNCHANGED <<args, faults, opt, logfile>>
      /\ pc'["disp"] = pc["disp"]
    BY ServerAssumption, MainStarts DEF CertDone, GoTo, StartInv, IInv
<1>2. MainAlone'
  <2>1. MainMoves("certDone", "bind")
      BY DEF CertDone, MainMoves, Places, Late
  <2> QED
      BY <1>1, <2>1, MainAloneKept DEF Early, ToDispatch, ToDb, ToConf
<1>4. FailuresStop'
    BY <1>1, SameCauses DEF StartInv, FailuresStop, ToConf, ToDb, ToDispatch, ToCert
<1>5. OptionsSet'
    BY <1>1, OptionsKept DEF StartInv
<1> QED
    BY <1>0, <1>2, <1>4, <1>5 DEF StartInv

LEMMA BindingStarts == ASSUME StartInv, Binding PROVE StartInv'
<1>0. IInv'
    BY BindingKeeps DEF StartInv
<1>1. /\ pc["main"] = "bind" /\ pc'["main"] = "listen" /\ ~ Stopping /\ ~ Fatal
      /\ UNCHANGED <<args, faults, opt, logfile>>
      /\ pc'["disp"] = pc["disp"]
    BY ServerAssumption, MainStarts DEF Binding, GoTo, StartInv, IInv
<1>2. MainAlone'
  <2>1. MainMoves("bind", "listen")
      BY DEF Binding, MainMoves, Places, Late
  <2> QED
      BY <1>1, <2>1, MainAloneKept DEF Early, ToDispatch, ToDb, ToConf
<1>4. FailuresStop'
    BY <1>1, SameCauses DEF StartInv, FailuresStop, ToConf, ToDb, ToDispatch, ToCert
<1>5. OptionsSet'
    BY <1>1, OptionsKept DEF StartInv
<1> QED
    BY <1>0, <1>2, <1>4, <1>5 DEF StartInv

LEMMA ListenStarts == ASSUME StartInv, Listen PROVE StartInv'
<1>0. IInv'
    BY ListenKeeps DEF StartInv
<1>1. /\ pc["main"] = "listen" /\ pc'["main"] = "start" /\ ~ Stopping /\ ~ Fatal
      /\ UNCHANGED <<args, faults, opt, logfile>>
      /\ pc'["disp"] = pc["disp"]
    BY ServerAssumption, MainStarts DEF Listen, GoTo, StartInv, IInv
<1>2. MainAlone'
  <2>1. MainMoves("listen", "start")
      BY DEF Listen, MainMoves, Places, Late
  <2> QED
      BY <1>1, <2>1, MainAloneKept DEF Early, ToDispatch, ToDb, ToConf
<1>4. FailuresStop'
    BY <1>1, SameCauses DEF StartInv, FailuresStop, ToConf, ToDb, ToDispatch, ToCert
<1>5. OptionsSet'
    BY <1>1, OptionsKept DEF StartInv
<1> QED
    BY <1>0, <1>2, <1>4, <1>5 DEF StartInv

LEMMA WaitStarts == ASSUME StartInv, Wait PROVE StartInv'
<1>0. IInv'
    BY WaitKeeps DEF StartInv
<1>1. /\ pc["main"] = "wait" /\ pc'["main"] = "delete" /\ ~ Stopping /\ ~ Fatal
      /\ UNCHANGED <<args, faults, opt, logfile>>
      /\ pc'["disp"] = pc["disp"]
    BY ServerAssumption, MainStarts DEF Wait, GoTo, StartInv, IInv
<1>2. MainAlone'
  <2>1. MainMoves("wait", "delete")
      BY DEF Wait, MainMoves, Places, Late
  <2> QED
      BY <1>1, <2>1, MainAloneKept DEF Early, ToDispatch, ToDb, ToConf
<1>4. FailuresStop'
    BY <1>1, SameCauses DEF StartInv, FailuresStop, ToConf, ToDb, ToDispatch, ToCert
<1>5. OptionsSet'
    BY <1>1, OptionsKept DEF StartInv
<1> QED
    BY <1>0, <1>2, <1>4, <1>5 DEF StartInv

LEMMA DeleteNetStarts == ASSUME StartInv, DeleteNet PROVE StartInv'
<1>0. IInv'
    BY DeleteNetKeeps DEF StartInv
<1>1. /\ pc["main"] = "delete" /\ pc'["main"] = "done" /\ ~ Stopping /\ ~ Fatal
      /\ UNCHANGED <<args, faults, opt, logfile>>
      /\ pc'["disp"] = pc["disp"]
    BY ServerAssumption, MainStarts DEF DeleteNet, GoTo, StartInv, IInv
<1>2. MainAlone'
  <2>1. MainMoves("delete", "done")
      BY DEF DeleteNet, MainMoves, Places, Late
  <2> QED
      BY <1>1, <2>1, MainAloneKept DEF Early, ToDispatch, ToDb, ToConf
<1>4. FailuresStop'
    BY <1>1, SameCauses DEF StartInv, FailuresStop, ToConf, ToDb, ToDispatch, ToCert
<1>5. OptionsSet'
    BY <1>1, OptionsKept DEF StartInv
<1> QED
    BY <1>0, <1>2, <1>4, <1>5 DEF StartInv

\* The other threads start only when main has got there.
LEMMA StartThreadStarts ==
    ASSUME StartInv, NEW t \in Threads \ {"main"}, NEW fault, NEW from, NEW to, StartThread(t, fault, from, to)
    PROVE  /\ pc["main"] = from /\ pc'["main"] = to /\ ~ Stopping /\ ~ Fatal
           /\ UNCHANGED <<args, faults, opt, logfile>>
<1>1. "main" \in Threads \ {t} /\ pc \in [Threads -> Places]
    BY ServerAssumption DEF StartInv, IInv
<1> QED
    BY <1>1, MainStarts DEF StartThread, GoTo

LEMMA StartDispatchStarts == ASSUME StartInv, StartDispatch PROVE StartInv'
<1>0. IInv'
    BY StartDispatchKeeps DEF StartInv
<1>1. /\ pc["main"] = "dispStart" /\ pc'["main"] = "net" /\ ~ Stopping /\ ~ Fatal
      /\ UNCHANGED <<args, faults, opt, logfile>>
    BY ServerAssumption, StartThreadStarts DEF StartDispatch
<1>2. MainAlone'
    BY <1>1 DEF MainAlone, Early, ToDispatch, ToDb, ToConf
<1>3. FailuresStop'
    BY <1>1, SameCauses DEF StartInv, FailuresStop, ToConf, ToDb, ToDispatch, ToCert
<1>4. OptionsSet'
    BY <1>1, OptionsKept DEF StartInv
<1> QED
    BY <1>0, <1>2, <1>3, <1>4 DEF StartInv

LEMMA StartNetStarts == ASSUME StartInv, StartNet PROVE StartInv'
<1>0. IInv'
    BY StartNetKeeps DEF StartInv
<1>1. /\ pc["main"] = "start" /\ pc'["main"] = "wait" /\ ~ Stopping /\ ~ Fatal
      /\ UNCHANGED <<args, faults, opt, logfile>>
    BY ServerAssumption, StartThreadStarts DEF StartNet
<1>2. MainAlone'
    BY <1>1 DEF MainAlone, Early, ToDispatch, ToDb, ToConf
<1>3. FailuresStop'
    BY <1>1, SameCauses DEF StartInv, FailuresStop, ToConf, ToDb, ToDispatch, ToCert
<1>4. OptionsSet'
    BY <1>1, OptionsKept DEF StartInv
<1> QED
    BY <1>0, <1>2, <1>3, <1>4 DEF StartInv
-----------------------------------------------------------------------------
(* The other threads are there only when main has gone on *)

LEMMA OthersStart ==
    ASSUME StartInv, DispRuns \/ Net
    PROVE  StartInv'
<1>0. IInv'
    BY DispRunsKeeps, NetRunsKeeps, LoopEndsKeeps, NetDoneKeeps DEF Net, StartInv
<1>1. pc["disp"] # "none" \/ pc["net"] # "none"
    BY DEF DispRuns, Net, NetRuns, LoopEnds, NetDone, At
<1>2. pc["main"] \notin Early
    BY <1>1 DEF StartInv, MainAlone
<1>3. UNCHANGED <<args, faults, opt, logfile, end>> /\ pc'["main"] = pc["main"]
    BY ServerAssumption DEF DispRuns, Net, NetRuns, LoopEnds, NetDone, GoTo, StartInv, IInv
<1>4. thrown' = thrown
  <2>1. logVars' = logVars \/ \E t \in {"disp", "net"} : DebugLog(t, "info", "other")
      BY DEF DispRuns, Net, NetRuns, LoopEnds, NetDone, Quiet
  <2> QED
      BY <2>1 DEF logVars, DebugLog
<1>5. MainAlone'
    BY <1>2, <1>3 DEF MainAlone
<1>6. FailuresStop'
    BY <1>2, <1>3, <1>4, FailuresKept DEF StartInv, Fatal
<1>7. OptionsSet'
    BY <1>3, OptionsKept DEF StartInv
<1> QED
    BY <1>0, <1>5, <1>6, <1>7 DEF StartInv

\* While main is alone its errors are thrown: none is lost.
LEMMA LogStarts == ASSUME StartInv, NEW t \in Threads, Log(t) PROVE StartInv'
<1>0. IInv' /\ LogInv /\ "main" \in Threads
    BY LogKeeps, ServerAssumption DEF StartInv, IInv
<1>1. LogStep(t) /\ UNCHANGED <<args, faults, opt, pc, logfile, end>>
    BY DEF Log, own
<1>2. /\ thrown \subseteq thrown'
      /\ ErrorUnderWay("main") =>
            lost' = "raced" \/ thrown' # {} \/ ErrorUnderWay("main")'
    BY <1>0, <1>1, LogStepKeeps
<1>3. ASSUME pc["main"] \in Early
      PROVE  /\ lost' = "no" /\ ~ line'["main"].raced
             /\ \A u \in Threads \ {"main"} : ~ Writing(u)'
  <2>1. /\ \A u \in Threads \ {"main"} : ~ Writing(u)
        /\ ~ line["main"].raced /\ lost = "no"
      BY <1>3 DEF StartInv, MainAlone
  <2>2. t = "main"
      BY <1>1, <2>1 DEF LogStep, Preamble, Arm, Text, Writing
  <2>3. line \in [Threads -> Line] /\ line["main"] \in Line
      BY <1>0 DEF LogInv
  <2>4. CASE "THROW" \in dir /\ Throw("main")
      BY <2>1, <2>4 DEF Throw, Writing
  <2>5. CASE /\ line["main"].at = "preamble" /\ "THROW" \notin dir
             /\ line' = [line EXCEPT !["main"].at =
                           IF line["main"].lev = "error" THEN "arm" ELSE "text"]
             /\ UNCHANGED <<debugLevel, dir, thrown, lost>>
    <3>1. /\ line'["main"].raced = line["main"].raced
          /\ \A u \in Threads \ {"main"} : line'[u] = line[u]
        BY <1>0, <2>3, <2>5 DEF Line
    <3> QED
        BY <2>1, <2>5, <3>1 DEF Writing
  <2>6. CASE Arm("main")
    <3> DEFINE lines == [line EXCEPT !["main"].at = "text"]
    <3>1. /\ lines \in [Threads -> Line]
          /\ lines["main"].raced = line["main"].raced
          /\ \A u \in Threads \ {"main"} : lines[u] = line[u]
        BY <1>0, <2>3 DEF Line
    <3>2. line' = RacedBy("main", lines) /\ lost' = lost
        BY <2>6 DEF Arm
    <3> HIDE DEF lines
    <3>3. /\ line'["main"] = lines["main"]
          /\ \A u \in Threads \ {"main"} : line'[u].at = line[u].at
        BY <1>0, <3>1, <3>2, RacedByIs
    <3> QED
        BY <2>1, <3>1, <3>2, <3>3 DEF Writing
  <2>7. CASE /\ line["main"].at = "text" /\ "THROW" \notin dir
             /\ line' = [line EXCEPT !["main"] = NoLine]
             /\ lost' = IF line["main"].lev # "error" THEN lost
                        ELSE IF line["main"].raced THEN "raced" ELSE "alone"
    <3>1. line["main"].lev # "error"
        BY <1>0, <2>1, <2>7 DEF LogInv, Armed
    <3>2. ~ line'["main"].raced /\ \A u \in Threads \ {"main"} : line'[u] = line[u]
        BY <1>0, <2>3, <2>7 DEF NoLine
    <3> QED
        BY <2>1, <2>7, <3>1, <3>2 DEF Writing
  <2> QED
      BY <1>1, <2>2, <2>4, <2>5, <2>6, <2>7 DEF LogStep, Preamble, Text
<1>4. MainAlone'
    BY <1>1, <1>3 DEF StartInv, MainAlone
<1>5. FailuresStop'
  <2>1. Fatal => Fatal'
      BY <1>1, <1>2 DEF Fatal
  <2>2. pc["main"] \in Early /\ Stopping => Stopping'
      BY <1>2, <1>3, <2>1 DEF Stopping, Fatal
  <2> QED
      BY <1>1, <2>1, <2>2, FailuresKept DEF StartInv
<1>6. OptionsSet'
    BY <1>1, OptionsKept DEF StartInv
<1> QED
    BY <1>0, <1>4, <1>5, <1>6 DEF StartInv

LEMMA EndingStarts ==
    ASSUME StartInv, Ending \/ UNCHANGED vars
    PROVE  StartInv'
<1>0. IInv'
    BY EndingKeeps DEF StartInv
<1>1. UNCHANGED <<line, thrown, lost, args, faults, opt, pc, logfile>>
    BY DEF Ending, Signal, UseUninitialised, UseDestroyed, ExitDone, vars, own, Quiet, logVars
<1>2. Fatal => Fatal'
    BY <1>1 DEF Ending, Signal, UseUninitialised, UseDestroyed, ExitDone, EndAs, vars, own, Fatal
<1>3. MainAlone'
    BY <1>1 DEF StartInv, MainAlone, Writing
<1>4. FailuresStop'
  <2>1. Stopping => Stopping'
      BY <1>1, <1>2 DEF Stopping, ErrorUnderWay, Writing
  <2> QED
      BY <1>1, <1>2, <2>1, FailuresKept DEF StartInv
<1>5. OptionsSet'
    BY <1>1, OptionsKept DEF StartInv
<1> QED
    BY <1>0, <1>3, <1>4, <1>5 DEF StartInv

-----------------------------------------------------------------------------
LEMMA StartStep == StartInv /\ [Next]_vars => StartInv'
<1> SUFFICES ASSUME StartInv, [Next]_vars PROVE StartInv'
    OBVIOUS
<1>1. CASE Main
    BY <1>1, ReadOptionStarts, OptionsReadStarts, OpenLogStarts, ReadConfStarts, CreateJVMStarts,
       InitDBStarts, NewDispatchStarts, StartDispatchStarts, NewNetStarts, SetCertStarts, CertDoneStarts,
       BindingStarts, ListenStarts, StartNetStarts, WaitStarts, DeleteNetStarts DEF Main
<1>2. CASE DispRuns \/ Net
    BY <1>2, OthersStart
<1>3. CASE \E t \in Threads : Log(t)
    BY <1>3, LogStarts
<1>4. CASE Ending \/ UNCHANGED vars
    BY <1>4, EndingStarts
<1> QED
    BY <1>1, <1>2, <1>3, <1>4 DEF Next, Ending

\* The last of the log options, as OptionsSet finds it, is the one StartedWhole chooses.
LEMMA StartedWholeFollows == StartInv => StartedWhole
<1> SUFFICES ASSUME StartInv, pc["main"] = "wait"
             PROVE  /\ \A i \in 1 .. Len(args) : Outcomes(args[i]) = {"running"}
                    /\ faults \subseteq {"fork", "dispThread", "netThread", "net", "cert", "inuse", "noipv6"}
                    /\ ~ ForkFails /\ LogDirExists /\ ~ ConfFails
                    /\ "net" \in faults => lost = "raced"
                    /\ logfile = IF \E i \in 1 .. Len(args) : args[i].flag = "--daemon" THEN << >>
                                 ELSE IF LogOptions = {} THEN Defaults.logdir
                                 ELSE IF LastLogOption.flag = "--log" THEN <<LastLogOption.params[1]>>
                                 ELSE <<LastLogOption.params[1], "logs">>
    BY DEF StartedWhole
<1>1. /\ faults \subseteq {"fork", "dispThread", "netThread", "net", "cert", "inuse", "noipv6"}
      /\ ~ ForkFails /\ LogDirExists /\ ~ ConfFails
    BY DEF StartInv, FailuresStop, ToConf, ToDb, ToDispatch, ToCert, FaultKinds, ConfFails
<1>2. "net" \in faults => lost = "raced"
    BY DEF StartInv, IInv, ProcessInv, Late
<1>3. /\ logfile = IF opt.daemon THEN << >> ELSE opt.logdir
      /\ opt.argv = Len(args) + 1 /\ Len(args) \in Nat
      /\ \A i \in 1 .. Len(args) : i < opt.argv => Outcomes(args[i]) = {"running"}
      /\ LogOptions \subseteq 1 .. Len(args)
  <2>1. OptionsSet /\ LogOptions \subseteq 1 .. Len(args)
      BY DEF StartInv, LogOptions
  <2>2. args \in Seq(Options) /\ logfile = IF opt.daemon THEN << >> ELSE opt.logdir
      BY <2>1 DEF OptionsSet
  <2>3. opt.argv = Len(args) + 1
      BY <2>1 DEF OptionsSet
  <2>4. \A i \in 1 .. Len(args) : i < opt.argv => Outcomes(args[i]) = {"running"}
      BY <2>1 DEF OptionsSet
  <2>5. Len(args) \in Nat
      BY <2>2
  <2> QED
      BY <2>1, <2>2, <2>3, <2>4, <2>5
<1>4. \A i \in 1 .. Len(args) : i \in Int /\ i < opt.argv
    BY <1>3
<1>5. opt.daemon <=> \E i \in 1 .. Len(args) : args[i].flag = "--daemon"
    BY <1>4 DEF StartInv, OptionsSet
<1>8. \A i \in 1 .. Len(args) : Outcomes(args[i]) = {"running"}
    BY <1>3, <1>4
<1>6. CASE LogOptions = {}
    BY <1>1, <1>2, <1>3, <1>5, <1>6, <1>8 DEF StartInv, OptionsSet
<1>7. CASE LogOptions # {}
  <2>1. PICK i \in LogOptions : IsLastLog(i, opt.argv) /\ opt.logdir = DirOf(args[i])
      BY <1>3, <1>4, <1>7 DEF StartInv, OptionsSet
  <2>2. \A j \in LogOptions : j <= i
      BY <1>3, <1>4, <2>1 DEF IsLastLog
  <2>3. \A k \in LogOptions : (\A j \in LogOptions : j <= k) => k = i
      BY <1>3, <1>4, <2>2
  <2>4. LastLogOption = args[i]
      BY <2>2, <2>3 DEF LastLogOption
  <2> QED
      BY <1>1, <1>2, <1>3, <1>5, <1>8, <1>7, <2>1, <2>4 DEF DirOf
<1> QED
    BY <1>6, <1>7

\* A start that reaches main's loop is whole, for every command line, any set of
\* failures, and whatever the threads have logged meanwhile: every wrong option,
\* every failure that is logged as an error, and every setting missing, has
\* stopped main before, but for a failed uvnet() whose exception was lost.
THEOREM EveryStartIsWhole == Spec => []StartedWhole
<1>1. Spec => []StartInv
    BY StartInit, StartStep, PTL DEF Spec
<1> QED
    BY <1>1, StartedWholeFollows, PTL
=============================================================================
