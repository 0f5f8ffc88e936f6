------------------------------ MODULE MsgChannel ------------------------------
(***************************************************************************)
(* What the dispatcher promises to the network side: messages are handled  *)
(* one at a time, each at most once, in the order they were posted, and    *)
(* only after they were posted.                                            *)
(***************************************************************************)
EXTENDS Naturals, Sequences

CONSTANT Msgs       \* the messages that may be posted, each once

VARIABLES posted,   \* messages posted, in order
          handled   \* messages handled, in order

chVars == <<posted, handled>>

Elements(s) == {s[i] : i \in 1 .. Len(s)}

Init == posted = <<>> /\ handled = <<>>

Post ==
    /\ \E m \in Msgs \ Elements(posted) : posted' = Append(posted, m)
    /\ UNCHANGED handled

Handle ==
    /\ Len(handled) < Len(posted)
    /\ handled' = Append(handled, posted[Len(handled) + 1])
    /\ UNCHANGED posted

Next == Post \/ Handle

Spec == Init /\ [][Next]_chVars
=============================================================================
