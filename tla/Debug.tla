-------------------------------- MODULE Debug --------------------------------
(***************************************************************************)
(* DebugLog(level, class) << text (debug.cpp, debug.h): all threads write  *)
(* through one global debugFile, whose member dir says where to.  A call   *)
(* sets dir and writes time, level and class; the text follows later, in   *)
(* the caller's own expression, to wherever dir then points.  An error is  *)
(* armed with D_THROW: its text is thrown as an exception.  A step here is *)
(* one access to dir with what is written under it.                        *)
(***************************************************************************)
EXTENDS FiniteSets, Integers

CONSTANT Threads

VARIABLES debugLevel,  \* the levels below "error" that are logged
          dir,         \* debugFile.dir, a subset of {"FILE", "COUT", "CERR", "THROW"}
          line,        \* thread -> the line it writes
          thrown,      \* the threads an exception has left
          lost         \* history: how an error passed without an exception: "no",
                       \* "raced" if another thread set dir meanwhile, else "alone"

logVars == <<debugLevel, dir, line, thrown, lost>>

NoLine == [at |-> "idle", lev |-> "none", raced |-> FALSE]

\* A debug build starts with all levels, another one with errors only.
LogInit ==
    /\ debugLevel \in {{"info", "warning"}, {}}
    /\ dir = {}
    /\ line = [t \in Threads |-> NoLine]
    /\ thrown = {}
    /\ lost = "no"

Writing(t) == line[t].at # "idle"

\* The bits of the number given.
limitDebugLevel(n) ==
    /\ debugLevel' = {lev \in {"info", "warning"} : (n \div [info |-> 2, warning |-> 4][lev]) % 2 = 1}
    /\ UNCHANGED <<dir, line, thrown, lost>>

\* The class D_MAIN and errors pass every filter.
Passes(lev, cl) == lev \in debugLevel \/ lev = "error" \/ cl = "main"

\* The other lines under way have had their dir changed.
RacedBy(t, lines) ==
    [u \in Threads |-> IF u # t /\ Writing(u) THEN [lines[u] EXCEPT !.raced = TRUE] ELSE lines[u]]

\* The first assignment to dir.
DebugLog(t, lev, cl) ==
    /\ ~ Writing(t)
    /\ dir' = (IF lev = "error" THEN {"FILE", "CERR"}
               ELSE IF Passes(lev, cl) THEN {"FILE", "COUT"} ELSE {})
    /\ line' = RacedBy(t, [line EXCEPT ![t] =
                 [at |-> IF Passes(lev, cl) THEN "preamble" ELSE "text", lev |-> lev, raced |-> FALSE]])
    /\ UNCHANGED <<debugLevel, thrown, lost>>

Throw(t) == thrown' = thrown \union {t} /\ UNCHANGED <<debugLevel, dir, line, lost>>

\* Time, level and class.
Preamble(t) ==
    /\ line[t].at = "preamble"
    /\ \/ "THROW" \in dir /\ Throw(t)
       \/ /\ "THROW" \notin dir
          /\ line' = [line EXCEPT ![t].at = IF line[t].lev = "error" THEN "arm" ELSE "text"]
          /\ UNCHANGED <<debugLevel, dir, thrown, lost>>

\* Faulty variant: an error is not armed.
Arm_NoThrow(t) ==
    /\ line[t].at = "arm"
    /\ line' = RacedBy(t, [line EXCEPT ![t].at = "text"])
    /\ UNCHANGED <<debugLevel, dir, thrown, lost>>

\* dir |= D_THROW reads and writes; a store of another thread between the two
\* is overwritten.
Arm(t) ==
    /\ line[t].at = "arm"
    /\ \E d \in {dir, {"FILE", "CERR"}} : dir' = d \union {"THROW"}
    /\ line' = RacedBy(t, [line EXCEPT ![t].at = "text"])
    /\ UNCHANGED <<debugLevel, thrown, lost>>

\* << text
Text(t) ==
    /\ line[t].at = "text"
    /\ \/ "THROW" \in dir /\ Throw(t)
       \/ /\ "THROW" \notin dir
          /\ line' = [line EXCEPT ![t] = NoLine]
          /\ lost' = IF line[t].lev # "error" THEN lost
                     ELSE IF line[t].raced THEN "raced" ELSE "alone"
          /\ UNCHANGED <<debugLevel, dir, thrown>>

LogStep(t) == Preamble(t) \/ Arm(t) \/ Text(t)
=============================================================================
