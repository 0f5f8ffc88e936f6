------------------------------- MODULE MCServer -------------------------------
(***************************************************************************)
(* Every option alone, and those that touch the same thing in both orders; *)
(* values missing, out of range, empty, and at the bounds of their range.  *)
(***************************************************************************)
EXTENDS Server

Flag(flag) == [flag |-> flag, params |-> << >>]
Set(flag, value) == [flag |-> flag, params |-> <<value>>]

MCThreads == {"main", "disp", "net"}
MCAtoi(word) ==
    CASE word = "80" -> 80 [] word = "-1" -> -1 [] word = "2" -> 2
      [] word = "15" -> 15 [] word = "16" -> 16 [] OTHER -> 0

MCCommandLines ==
    {<< >>, <<Flag("--daemon")>>, <<Set("--port", "80")>>,
     <<Set("--log", "var"), Flag("--help"), Flag("--daemon")>>,
     <<Set("--log", "NULL")>>, <<Set("--userdir", "new")>>,
     <<Set("--log", "var"), Set("--userdir", "data")>>,
     <<Set("--userdir", "data"), Set("--log", "var")>>,
     <<Set("--userdir", "new"), Set("--log", "var")>>,
     <<Set("--loglevel", "15"), Set("--loglevel", "2")>>}
    \union {<<Set("--loglevel", n)>> : n \in {"word", "-1", "16"}}
    \union {<<Flag("--daemon"), Flag(f)>> : f \in TakesValue}
    \union {<<Set(f, "")>> : f \in {"--log", "--userdir"}}
=============================================================================
