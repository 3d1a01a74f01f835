--------------------------- MODULE OrderedChannel ---------------------------
(***************************************************************************)
(* What the session layer promises two applications, whatever becomes of   *)
(* sessions, processes and records underneath: ReadMessage returns what    *)
(* the peer wrote and nothing else, in the order of writing and each       *)
(* message at most once, and never takes a message back.  A message may be *)
(* skipped, and then it never comes; one step may return several.          *)
(***************************************************************************)
EXTENDS Naturals, Sequences

CONSTANT Hosts

VARIABLES
    written,  \* host -> peer -> how many messages it wrote
    read      \* host -> peer -> the numbers of the messages it got, in that order

vars == <<written, read>>

Init ==
    /\ written = [h \in Hosts |-> [p \in Hosts |-> 0]]
    /\ read = [h \in Hosts |-> [p \in Hosts |-> <<>>]]

Write(h, p) ==
    /\ written' = [written EXCEPT ![h][p] = @ + 1]
    /\ UNCHANGED read

\* new is old with more messages after it.
Extends(new, old) ==
    /\ Len(old) <= Len(new)
    /\ \A i \in DOMAIN old : new[i] = old[i]

\* Messages of p, in order.
Readable(p, h, new) ==
    /\ \A i \in DOMAIN new : new[i] \in 1 .. written[p][h]
    /\ \A i, j \in DOMAIN new : i < j => new[i] < new[j]

\* h reads on in what p wrote.
Read(h, p) ==
    LET new == read'[h][p] IN
    /\ new \in Seq(Nat)
    /\ Extends(new, read[h][p])
    /\ Readable(p, h, new)
    /\ read' = [read EXCEPT ![h][p] = new]
    /\ UNCHANGED written

Next == \E h, p \in Hosts : Write(h, p) \/ Read(h, p)

Spec == Init /\ [][Next]_vars

=============================================================================
