----------------------------- MODULE AtMostOnce -----------------------------
(***************************************************************************)
(* What a conversation promises its reader, whatever fails underneath: the *)
(* server accepts and numbers messages, and hands each of them to the      *)
(* reader at most once, and none that it did not accept.  Nothing is said  *)
(* of the order, nor that a message is handed over at all.                 *)
(***************************************************************************)
EXTENDS Naturals, Sequences

VARIABLES
    accepted,  \* how many messages the server has numbered
    returned   \* the numbers of those handed over, in that order

vars == <<accepted, returned>>

Init ==
    /\ accepted = 0
    /\ returned = <<>>

Accept ==
    /\ accepted' = accepted + 1
    /\ UNCHANGED returned

Hand(n) ==
    /\ \A i \in DOMAIN returned : returned[i] # n
    /\ returned' = Append(returned, n)
    /\ UNCHANGED accepted

Next == Accept \/ \E n \in 1 .. accepted : Hand(n)

Spec == Init /\ [][Next]_vars

=============================================================================
