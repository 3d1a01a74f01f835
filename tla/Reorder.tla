------------------------------ MODULE Reorder ------------------------------
(***************************************************************************)
(* The reorder buffer of recovery.go: per conversation, the references of  *)
(* inbound messages that could not be decrypted ("lost") and the decrypted *)
(* messages held back behind them ("pending").  A reference is the IM      *)
(* server's metadata of a message, which travels outside the encryption:   *)
(* an application message has its sequence number n >= 1; a handshake,     *)
(* alert or control message has an identity but sequence number 0.         *)
(***************************************************************************)
EXTENDS Naturals, Sequences, FiniteSets

Ref(isApp, n) == [app |-> isApp, n |-> n]

Refs == [app : BOOLEAN, n : Nat]

\* secureMessageRef.Seq: only application messages carry one.
SeqNo(ref) == IF ref.app THEN ref.n ELSE 0

\* Mutation: the comparison the wrong way round.
HasBlockingGapAbove(lost, n) ==
    /\ n # 0
    /\ \E ref \in lost : SeqNo(ref) > 0 /\ SeqNo(ref) > n

\* hasBlockingGapLocked: an older message is still missing.
HasBlockingGap(lost, n) ==
    /\ n # 0
    /\ \E ref \in lost : SeqNo(ref) > 0 /\ SeqNo(ref) < n

\* The pending messages flushReadyPendingLocked releases ...
Releasable(lost, pending) == {n \in pending : ~HasBlockingGap(lost, n)}

\* ... in the order of their sequence numbers: the i-th released has i of them
\* up to and including it.
Rank(S, n) == Cardinality({m \in S : m <= n})
Ascending(S) == [i \in 1..Cardinality(S) |-> CHOOSE n \in S : Rank(S, n) = i]
FlushReady(lost, pending) == Ascending(Releasable(lost, pending))

=============================================================================
