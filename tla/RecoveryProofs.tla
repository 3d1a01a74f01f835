--------------------------- MODULE RecoveryProofs ---------------------------
(***************************************************************************)
(* Recovery: no message is stranded in the reorder buffer, and what is     *)
(* delivered comes in the order in which it was sent, so that the session  *)
(* layer implements OrderedChannel.  Two inductive arguments on top of the *)
(* type correctness of SessionLayerProofs; the second rests on the first   *)
(* one's lemmas on the buffer, and the refinement on the second.           *)
(***************************************************************************)
EXTENDS SessionLayerProofs, FiniteSetTheorems

\* One conversation: everything pending waits for an older lost message.
Held(ls, ps) == \A n \in ps : HasBlockingGap(ls, n)

\* Remembering one more lost message unblocks nothing.
LEMMA GapMonotone ==
    ASSUME NEW ls, NEW ps, NEW ref, Held(ls, ps)
    PROVE  Held(ls \union {ref}, ps)
BY DEF Held, HasBlockingGap

\* After flushReadyPendingLocked everything that is left is blocked.
LEMMA FlushLeavesBlocked ==
    ASSUME NEW ls, NEW ps
    PROVE  Held(ls, ps \ Releasable(ls, ps))
BY DEF Held, Releasable

\* A step that touches the recovery state of one conversation only.
LEMMA ConversationStep ==
    ASSUME RecoveryOK, NoStrandedMessage, NEW h \in Hosts, NEW p \in Hosts, NEW ls, NEW ps,
           Held(ls, ps),
           lost' = lost \/ lost' = [lost EXCEPT ![h][p] = ls],
           lost' = lost => ls = lost[h][p],
           pending' = pending \/ pending' = [pending EXCEPT ![h][p] = ps],
           pending' = pending => ps = pending[h][p]
    PROVE  NoStrandedMessage'
<1>1. /\ lost'[h][p] = ls /\ pending'[h][p] = ps
      /\ \A a, b \in Hosts : ~(a = h /\ b = p) => lost'[a][b] = lost[a][b] /\ pending'[a][b] = pending[a][b]
  <2>1. lost'[h][p] = ls /\ \A a, b \in Hosts : ~(a = h /\ b = p) => lost'[a][b] = lost[a][b]
    BY DEF RecoveryOK
  <2>2. pending'[h][p] = ps /\ \A a, b \in Hosts : ~(a = h /\ b = p) => pending'[a][b] = pending[a][b]
    BY DEF RecoveryOK
  <2> QED BY <2>1, <2>2
<1>2. ASSUME NEW a \in Hosts, NEW b \in Hosts, NEW n \in pending'[a][b]
      PROVE  HasBlockingGap(lost'[a][b], n)
  <2>1. CASE a = h /\ b = p
    BY <1>1, <1>2, <2>1 DEF Held
  <2>2. CASE ~(a = h /\ b = p)
    BY <1>1, <1>2, <2>2 DEF NoStrandedMessage
  <2> QED BY <2>1, <2>2
<1> QED BY <1>2 DEF NoStrandedMessage

\* A step that leaves the recovery state alone.
LEMMA StrandingUnchanged ==
    ASSUME NoStrandedMessage, UNCHANGED recovery PROVE NoStrandedMessage'
BY DEF NoStrandedMessage, recovery

\* deliverApplication buffers only behind a gap, and flushes otherwise.
LEMMA DeliverHolds ==
    ASSUME RecoveryOK, NoStrandedMessage, NEW h \in Hosts, NEW p \in Hosts, NEW n,
           DeliverApplication(h, p, n)
    PROVE  NoStrandedMessage'
<1> DEFINE ls == lost[h][p]
<1>0. lost' = lost /\ Held(ls, pending[h][p])
  BY DEF DeliverApplication, NoStrandedMessage, Held
<1>1. CASE HasBlockingGap(ls, n)
  <2> DEFINE ps == pending[h][p] \union {n}
  <2>1. pending' = [pending EXCEPT ![h][p] = ps]
    BY <1>1 DEF DeliverApplication
  <2>2. Held(ls, ps)
    BY <1>0, <1>1 DEF Held
  <2>3. pending' = pending => ps = pending[h][p]
    BY <2>1 DEF RecoveryOK
  <2> HIDE DEF ps, ls
  <2> QED BY <1>0, <2>1, <2>2, <2>3, ConversationStep DEF ls
<1>2. CASE ~HasBlockingGap(ls, n)
  <2> DEFINE ps == pending[h][p] \ Releasable(ls, pending[h][p])
  <2>1. pending' = [pending EXCEPT ![h][p] = ps]
    BY <1>2 DEF DeliverApplication
  <2>2. Held(ls, ps)
    BY FlushLeavesBlocked
  <2>3. pending' = pending => ps = pending[h][p]
    BY <2>1 DEF RecoveryOK
  <2> HIDE DEF ps, ls
  <2> QED BY <1>0, <2>1, <2>2, <2>3, ConversationStep DEF ls
<1> QED BY <1>1, <1>2

\* Forgetting a lost message, with a flush of what it held back.
LEMMA ForgetHolds ==
    ASSUME RecoveryOK, NoStrandedMessage, NEW h \in Hosts, NEW p \in Hosts, NEW ls, NEW held,
           lost' = [lost EXCEPT ![h][p] = ls],
           pending' = [pending EXCEPT ![h][p] = held \ Releasable(ls, held)]
    PROVE  NoStrandedMessage'
<1> DEFINE ps == held \ Releasable(ls, held)
<1>1. Held(ls, ps)
  BY FlushLeavesBlocked
<1>2. (lost' = lost => ls = lost[h][p]) /\ (pending' = pending => ps = pending[h][p])
  BY DEF RecoveryOK
<1>3. pending' = [pending EXCEPT ![h][p] = ps]
  OBVIOUS
<1> HIDE DEF ps
<1> QED BY <1>1, <1>2, <1>3, ConversationStep

\* handleRetransmit.
LEMMA RetransmitHolds ==
    ASSUME RecoveryOK, NoStrandedMessage, NEW h \in Hosts, NEW p \in Hosts, NEW ref,
           HandleRetransmit(h, p, ref)
    PROVE  NoStrandedMessage'
<1>1. CASE ref \notin lost[h][p]
  BY <1>1, StrandingUnchanged DEF HandleRetransmit
<1>2. CASE ref \in lost[h][p]
  <2> DEFINE still == lost[h][p] \ {ref}
  <2> DEFINE held == IF HasBlockingGap(still, ref.n) THEN pending[h][p] \union {ref.n} ELSE pending[h][p]
  <2>1. lost' = [lost EXCEPT ![h][p] = still]
        /\ pending' = [pending EXCEPT ![h][p] = held \ Releasable(still, held)]
    BY <1>2 DEF HandleRetransmit
  <2> HIDE DEF still, held
  <2> QED BY <2>1, ForgetHolds
<1> QED BY <1>1, <1>2

\* handleSecureControl.
LEMMA ControlHolds ==
    ASSUME RecoveryOK, NoStrandedMessage, NEW h \in Hosts, NEW p \in Hosts,
           NEW o, NEW s, NEW pay, NEW w, HandleControl(h, p, o, s, pay, w)
    PROVE  NoStrandedMessage'
BY StrandingUnchanged, RetransmitHolds DEF HandleControl

\* markLostInbound.
LEMMA MarkLostHolds ==
    ASSUME RecoveryOK, NoStrandedMessage, NEW h \in Hosts, NEW p \in Hosts,
           NEW o, NEW s, NEW ref, MarkLost(h, p, o, s, ref)
    PROVE  NoStrandedMessage'
<1> DEFINE ls == lost[h][p] \union {ref}
<1>1. lost' = [lost EXCEPT ![h][p] = ls] /\ pending' = pending
  BY DEF MarkLost
<1>2. Held(ls, pending[h][p])
  BY GapMonotone DEF NoStrandedMessage, Held
<1>3. lost' = lost => ls = lost[h][p]
  BY <1>1 DEF RecoveryOK
<1> HIDE DEF ls
<1> QED BY <1>1, <1>2, <1>3, ConversationStep

\* Whatever record the readLoop takes.
LEMMA ReceiveHolds ==
    ASSUME RecoveryOK, NoStrandedMessage, NEW h \in Hosts, NEW p \in Hosts, Receive(h, p)
    PROVE  NoStrandedMessage'
<1>1. \/ UNCHANGED recovery
      \/ \E o, s, ref : MarkLost(h, p, o, s, ref)
      \/ \E n : DeliverApplication(h, p, n)
      \/ \E o, s, pay, w : HandleControl(h, p, o, s, pay, w)
  <2>1. ASSUME NEW o, NEW s, NEW rec, NEW w, Dispatch(h, p, o, s, rec, w)
        PROVE  \/ UNCHANGED recovery
               \/ DeliverApplication(h, p, rec.pay.n)
               \/ HandleControl(h, p, o, s, rec.pay, w)
    BY <2>1 DEF Dispatch
  <2> QED BY <2>1 DEF Receive
<1> QED BY <1>1, StrandingUnchanged, MarkLostHolds, DeliverHolds, ControlHolds

\* A message that was decrypted and buffered always has a lost message before
\* it whose retransmission or expiry will release it.
THEOREM NothingStranded == Spec => []NoStrandedMessage
<1>1. Init => NoStrandedMessage
  BY DEF Init, NoStrandedMessage
<1>2. IInv /\ NoStrandedMessage /\ [Next]_vars => NoStrandedMessage'
  <2> SUFFICES ASSUME IInv, NoStrandedMessage, [Next]_vars PROVE NoStrandedMessage'
    OBVIOUS
  <2>0. RecoveryOK
    BY DEF IInv, TypeOK, RecoveryOK
  <2>1. CASE UNCHANGED vars
    BY <2>1, StrandingUnchanged DEF vars, recovery
  <2>2. ASSUME NEW h \in Hosts, NEW p \in Hosts, WriteStart(h, p) \/ WriteStep(h, p)
        PROVE  NoStrandedMessage'
    BY <2>2, StrandingUnchanged DEF WriteStart, WriteStep, WriteReady, WriteHandshake, StartHandshake,
       WriteSend, WriteTerminate, WriteDelete
  <2>3. ASSUME NEW o \in Objects, HandshakeStep(o) PROVE NoStrandedMessage'
    BY <2>3, StrandingUnchanged DEF HandshakeStep, PassiveHandshake, StartHandshake, HandshakeClosed,
       ReadHello, ReadKxm, SwitchOut, ReadFinished
  <2>4. ASSUME NEW o \in Objects, RequestStep(o) PROVE NoStrandedMessage'
    BY <2>4, StrandingUnchanged DEF RequestStep, RequestLost, RequestLostToken, RequestLostGiveUp
  <2>5. ASSUME NEW h \in Hosts, ReadLoopStep(h) PROVE NoStrandedMessage'
    <3>1. CASE \E p \in Hosts : Receive(h, p)
      BY <3>1, <2>0, ReceiveHolds
    <3>2. CASE RlStore(h) \/ RlDelete(h) \/ RlChangeCipherSpec(h)
      BY <3>2, StrandingUnchanged DEF RlStore, RlDelete, RlChangeCipherSpec
    <3>3. CASE RlAwait(h)
      <4>1. rl[h].o[2] \in Hosts
        <5>1. RlOK(h, rl[h]) /\ rl[h].pc = "await"
          BY <3>3 DEF RlAwait, IInv, ReadLoopsOK
        <5> QED BY <5>1, ObjectFields DEF RlOK
      <4> QED BY <3>3, <4>1, <2>0, DeliverHolds, ControlHolds, StrandingUnchanged DEF RlAwait, recovery
    <3> QED BY <2>5, <3>1, <3>2, <3>3 DEF ReadLoopStep
  <2>6. ASSUME NEW h \in Hosts, RlAwaitTimeout(h) PROVE NoStrandedMessage'
    BY <2>6, StrandingUnchanged DEF RlAwaitTimeout
  <2>7. ASSUME NEW h \in Hosts, Restart(h) PROVE NoStrandedMessage'
    BY <2>7, <2>0 DEF Restart, NoStrandedMessage, RecoveryOK
  <2>8. ASSUME NEW h \in Hosts, NEW p \in Hosts, NEW ref \in lost[h][p], ExpireLost(h, p, ref)
        PROVE  NoStrandedMessage'
    BY <2>8, <2>0, ForgetHolds DEF ExpireLost
  <2>9. ASSUME NEW h \in Hosts, NEW p \in Hosts, RelayDrop(h, p) PROVE NoStrandedMessage'
    BY <2>9, StrandingUnchanged DEF RelayDrop
  <2> QED BY <2>1, <2>2, <2>3, <2>4, <2>5, <2>6, <2>7, <2>8, <2>9 DEF Next
<1> QED BY <1>1, <1>2, Invariance, PTL DEF Spec

-----------------------------------------------------------------------------
(***************************************************************************)
(* OrderedDelivery.                                                        *)
(*                                                                         *)
(* Per conversation there are numbers the receiver knows (lost, pending or *)
(* delivered), the one its readLoop may hold while it waits for the        *)
(* handshake, and those on the wire.  Each of these is above the ones      *)
(* before it and all are below the number the sender writes next; what was *)
(* delivered is below everything that is still lost.                       *)
(***************************************************************************)

\* The sequence numbers of the lost messages that have one.
LostNums(ls) == {ref.n : ref \in {r \in ls : r.app}}

\* What was delivered ...
Elems(ds) == {ds[i] : i \in DOMAIN ds}

\* ... and all that the receiver knows of.
Known(ls, ps, ds) == LostNums(ls) \union ps \union Elems(ds)

\* Application messages on the wire.
IsApp(rec) == rec.pay.typ = "app"
WireNums(w) == {w[i].pay.n : i \in {j \in DOMAIN w : IsApp(w[j])}}
WireSorted(w) == \A i, j \in DOMAIN w : i < j /\ IsApp(w[i]) /\ IsApp(w[j]) => w[i].pay.n < w[j].pay.n

\* The message of b that the readLoop of a holds in its wait.
InHand(r, b) == IF r.pc = "await" /\ r.o[2] = b /\ IsApp(r.rec) THEN {r.rec.pay.n} ELSE {}

\* The number of the next message that a writes to b.
NextNo(a, b) == IF wm[a][b].pc \in {"handshake", "send"} THEN sent[a][b] ELSE sent[a][b] + 1

\* In order and without repetition.
Increasing(ds) == \A i, j \in DOMAIN ds : i < j => ds[i] < ds[j]

\* Every number of S is below every one of T.
AllBelow(S, T) == \A x \in S, y \in T : x < y

\* The reorder buffer of one conversation.
BufferOK(ls, ps, ds) ==
    /\ Increasing(ds)
    /\ AllBelow(Elems(ds), LostNums(ls))
    /\ LostNums(ls) \intersect ps = {}
    /\ Held(ls, ps)

\* One conversation, with the message a in hand, the wire w and the next number k.
ConversationOK(ls, ps, ds, a, w, k) ==
    /\ BufferOK(ls, ps, ds)
    /\ WireSorted(w)
    /\ AllBelow(Known(ls, ps, ds), a \union WireNums(w))
    /\ AllBelow(a, WireNums(w))
    /\ AllBelow(Known(ls, ps, ds) \union a \union WireNums(w), {k})
    /\ 0 \notin Known(ls, ps, ds) \union a \union WireNums(w) \union {k}

\* handleSecureControl answers only for messages that have a sequence number.
RetransmitsApp(rec) == rec.pay.typ = "ctl" /\ rec.pay.c = "retransmit" => rec.pay.ref.app

WireAnswers(w) == \A a, b \in Hosts : \A i \in DOMAIN w[a][b] : RetransmitsApp(w[a][b][i])
HandAnswers(f) == \A a \in Hosts : f[a].pc = "await" => RetransmitsApp(f[a].rec)

\* What b sends to a.
Conversation(a, b) ==
    ConversationOK(lost[a][b], pending[a][b], delivered[a][b], InHand(rl[a], b), wire[b][a], NextNo(b, a))

\* The inductive invariant of OrderedDelivery.
OrderInv ==
    /\ delivered \in [Hosts -> [Hosts -> Seq(Nat)]]
    /\ \A a, b \in Hosts : Conversation(a, b)
    /\ WireAnswers(wire) /\ HandAnswers(rl)

(***************************************************************************)
(* flushReadyPendingLocked sorts what it releases.                         *)
(***************************************************************************)

\* Rank numbers the elements of a finite set from 1, in their order.
LEMMA RankOrder ==
    ASSUME NEW S \in SUBSET Nat, IsFiniteSet(S)
    PROVE  /\ \A n \in S : Rank(S, n) \in 1..Cardinality(S)
           /\ \A m, n \in S : m < n => Rank(S, m) < Rank(S, n)
<1> DEFINE Upto(n) == {m \in S : m <= n}
<1>0. Cardinality(S) \in Nat
  BY FS_CardinalityType
<1>1. ASSUME NEW n \in S
      PROVE  IsFiniteSet(Upto(n)) /\ Cardinality(Upto(n)) \in Nat /\ Cardinality(Upto(n)) <= Cardinality(S)
             /\ Cardinality(Upto(n)) # 0
  <2>1. Upto(n) \in SUBSET S /\ n \in Upto(n)
    OBVIOUS
  <2> HIDE DEF Upto
  <2>2. IsFiniteSet(Upto(n)) /\ Cardinality(Upto(n)) <= Cardinality(S)
    BY <2>1, FS_Subset
  <2>3. Cardinality(Upto(n)) \in Nat
    BY <2>2, FS_CardinalityType
  <2>4. Cardinality(Upto(n)) # 0
    BY <2>1, <2>2, FS_EmptySet
  <2> QED BY <2>2, <2>3, <2>4
<1>2. ASSUME NEW m \in S, NEW n \in S, m < n
      PROVE  Cardinality(Upto(m)) < Cardinality(Upto(n))
  <2>1. Upto(m) \in SUBSET Upto(n) /\ n \in Upto(n) /\ n \notin Upto(m)
    <3>1. m \in Nat /\ n \in Nat
      OBVIOUS
    <3>2. \A x \in S : x \in Nat /\ (x <= m => x <= n)
      BY <1>2, <3>1
    <3>3. n <= n /\ ~(n <= m)
      BY <1>2, <3>1
    <3> QED BY <3>2, <3>3
  <2>2. /\ IsFiniteSet(Upto(n)) /\ Cardinality(Upto(n)) \in Nat
        /\ Cardinality(Upto(m)) \in Nat
    BY <1>1
  <2> HIDE DEF Upto
  <2>3. Cardinality(Upto(m)) <= Cardinality(Upto(n))
        /\ (Cardinality(Upto(n)) = Cardinality(Upto(m)) => Upto(n) = Upto(m))
    BY <2>1, <2>2, FS_Subset
  <2> QED BY <2>1, <2>2, <2>3
<1>3. \A n : Rank(S, n) = Cardinality(Upto(n))
  BY DEF Rank
<1> HIDE DEF Upto
<1> QED BY <1>0, <1>1, <1>2, <1>3

\* Every number from 1 to Cardinality(S) is the rank of an element.
LEMMA RankOnto ==
    ASSUME NEW S \in SUBSET Nat, IsFiniteSet(S), NEW i \in 1..Cardinality(S)
    PROVE  \E n \in S : Rank(S, n) = i
<1> DEFINE T == 1..Cardinality(S)
<1> DEFINE f == [n \in S |-> Rank(S, n)]
<1>0. Cardinality(S) \in Nat
  BY FS_CardinalityType
<1>1. IsFiniteSet(T) /\ Cardinality(T) = Cardinality(S)
  <2>1. IsFiniteSet(T) /\ Cardinality(T) = IF 1 > Cardinality(S) THEN 0 ELSE Cardinality(S) - 1 + 1
    BY <1>0, FS_Interval, SMTT(60)
  <2> QED BY <2>1, <1>0
<1>2. f \in Injection(S, T)
  <2>1. f \in [S -> T]
    BY RankOrder
  <2>2. ASSUME NEW m \in S, NEW n \in S, f[m] = f[n] PROVE m = n
    <3>1. /\ Rank(S, m) = Rank(S, n) /\ Rank(S, m) \in Nat
          /\ (m < n => Rank(S, m) < Rank(S, n)) /\ (n < m => Rank(S, n) < Rank(S, m))
      BY <2>2, <1>0, RankOrder
    <3> QED BY <3>1
  <2> HIDE DEF f, T
  <2> QED BY <2>1, <2>2 DEF Injection, IsInjective
<1>3. f \in Surjection(S, T)
  <2> HIDE DEF f, T
  <2> QED BY <1>1, <1>2, FS_Injection
<1>4. \A t \in T : \E n \in S : f[n] = t
  <2> HIDE DEF f, T
  <2> QED BY <1>3 DEF Surjection
<1> QED BY <1>4

\* flushReadyPendingLocked's sort: all elements, smallest first.
LEMMA AscendingSorted ==
    ASSUME NEW S \in SUBSET Nat, IsFiniteSet(S)
    PROVE  /\ Ascending(S) \in Seq(Nat)
           /\ {Ascending(S)[i] : i \in DOMAIN Ascending(S)} = S
           /\ \A i, j \in DOMAIN Ascending(S) : i < j => Ascending(S)[i] < Ascending(S)[j]
<1> DEFINE A == Ascending(S)
<1>0. Cardinality(S) \in Nat /\ DOMAIN A = 1..Cardinality(S)
  BY FS_CardinalityType DEF Ascending
<1>1. ASSUME NEW i \in 1..Cardinality(S)
      PROVE  A[i] \in S /\ Rank(S, A[i]) = i
  <2>1. A[i] = CHOOSE n \in S : Rank(S, n) = i
    BY DEF Ascending
  <2>2. \E n \in S : Rank(S, n) = i
    BY RankOnto
  <2> HIDE DEF A
  <2> QED BY <2>1, <2>2
<1>2. A \in Seq(Nat)
  <2>1. A \in [1..Cardinality(S) -> Nat]
    BY <1>1, <1>0 DEF Ascending
  <2> HIDE DEF A
  <2> QED BY <2>1, <1>0
<1>3. ASSUME NEW n \in S PROVE n = A[Rank(S, n)] /\ Rank(S, n) \in DOMAIN A
  <2> DEFINE r == Rank(S, n)
  <2>1. r \in 1..Cardinality(S)
    BY RankOrder
  <2>2. A[r] \in S /\ Rank(S, A[r]) = r
    BY <2>1, <1>1
  <2>3. r = Rank(S, n)
    OBVIOUS
  <2> HIDE DEF A, r
  <2>4. ~(A[r] < n) /\ ~(n < A[r])
    <3>1. /\ A[r] < n => Rank(S, A[r]) < Rank(S, n)
          /\ n < A[r] => Rank(S, n) < Rank(S, A[r])
      BY <2>2, RankOrder
    <3> QED BY <2>1, <2>2, <2>3, <3>1, <1>0
  <2>5. A[r] \in Nat /\ n \in Nat
    BY <2>2
  <2> QED BY <2>1, <2>3, <2>4, <2>5, <1>0
<1>4. ASSUME NEW i \in DOMAIN A, NEW j \in DOMAIN A, i < j PROVE A[i] < A[j]
  <2>1. A[i] \in S /\ A[j] \in S /\ Rank(S, A[i]) = i /\ Rank(S, A[j]) = j /\ i \in Nat /\ j \in Nat
    BY <1>0, <1>1
  <2>2. A[i] \in Nat /\ A[j] \in Nat
    BY <2>1
  <2> HIDE DEF A
  <2>3. A[i] # A[j]
    BY <2>1, <1>4
  <2>4. ~(A[j] < A[i])
    <3> SUFFICES ASSUME A[j] < A[i] PROVE FALSE
      OBVIOUS
    <3>1. Rank(S, A[j]) < Rank(S, A[i])
      BY <2>1, RankOrder
    <3> QED BY <3>1, <2>1, <1>4
  <2> QED BY <2>2, <2>3, <2>4
<1> HIDE DEF A
<1>5. {A[i] : i \in DOMAIN A} = S
  BY <1>0, <1>1, <1>3
<1> QED BY <1>2, <1>4, <1>5 DEF A

(***************************************************************************)
(* The operations of recovery.go on one reorder buffer.                    *)
(***************************************************************************)

\* n is above every number of S.
Above(n, S) == \A x \in S : x < n

\* A reorder buffer as the operations of recovery.go find it ...
Buffer(ls, ps, ds) ==
    /\ ls \in SUBSET Refs /\ ps \in SUBSET Nat /\ ds \in Seq(Nat)
    /\ IsFiniteSet(ps)
    /\ BufferOK(ls, ps, ds)
    /\ 0 \notin LostNums(ls)

\* ... and leave it, where the messages X become known.
Advance(ls, ps, ds, X, ls2, ps2, ds2) ==
    /\ ls2 \in SUBSET Refs /\ ps2 \in SUBSET Nat /\ ds2 \in Seq(Nat)
    /\ BufferOK(ls2, ps2, ds2)
    /\ Known(ls2, ps2, ds2) \subseteq Known(ls, ps, ds) \union X
    /\ Channel!Extends(ds2, ds)

\* hasBlockingGapLocked in terms of the lost numbers.
LEMMA GapNums ==
    ASSUME NEW ls \in SUBSET Refs, NEW n \in Nat
    PROVE  /\ LostNums(ls) \in SUBSET Nat
           /\ HasBlockingGap(ls, n) <=> \E x \in LostNums(ls) : 0 < x /\ x < n
<1>1. \A ref \in ls : ref.app \in BOOLEAN /\ ref.n \in Nat
  BY DEF Refs
<1>2. LostNums(ls) \in SUBSET Nat
  BY <1>1 DEF LostNums
<1>3. ASSUME HasBlockingGap(ls, n) PROVE \E x \in LostNums(ls) : 0 < x /\ x < n
  <2>1. PICK ref \in ls : SeqNo(ref) > 0 /\ SeqNo(ref) < n
    BY <1>3 DEF HasBlockingGap
  <2>2. ref.app
    BY <2>1 DEF SeqNo
  <2>3. ref.n \in LostNums(ls) /\ SeqNo(ref) = ref.n /\ ref.n \in Nat
    BY <1>1, <2>2 DEF LostNums, SeqNo
  <2> QED BY <2>1, <2>3
<1>4. ASSUME NEW x \in LostNums(ls), 0 < x, x < n PROVE HasBlockingGap(ls, n)
  <2>1. PICK ref \in ls : ref.app /\ ref.n = x
    BY DEF LostNums
  <2>2. SeqNo(ref) = x /\ x \in Nat
    BY <2>1, <1>1 DEF SeqNo
  <2> QED BY <2>2, <1>4 DEF HasBlockingGap
<1> QED BY <1>2, <1>3, <1>4

\* Two runs of numbers one after the other.
LEMMA ConcatIncreasing ==
    ASSUME NEW ds \in Seq(Nat), NEW es \in Seq(Nat), Increasing(ds), Increasing(es),
           AllBelow(Elems(ds), Elems(es))
    PROVE  /\ ds \o es \in Seq(Nat)
           /\ Increasing(ds \o es)
           /\ Elems(ds \o es) = Elems(ds) \union Elems(es)
<1> DEFINE cs == ds \o es
<1> DEFINE m == Len(ds)
<1> DEFINE l == Len(es)
<1>1. /\ cs \in Seq(Nat) /\ m \in Nat /\ l \in Nat
      /\ DOMAIN ds = 1..m /\ DOMAIN es = 1..l /\ DOMAIN cs = 1..(m + l)
      /\ \A i \in 1..(m + l) : cs[i] = IF i <= m THEN ds[i] ELSE es[i - m]
  OBVIOUS
<1> HIDE DEF cs, m, l
<1>2. /\ \A i \in 1..m : cs[i] = ds[i] /\ i \in DOMAIN cs
      /\ \A i \in 1..l : cs[m + i] = es[i] /\ m + i \in DOMAIN cs
      /\ \A i \in DOMAIN cs : i \in 1..m \/ (i - m \in 1..l /\ i = m + (i - m) /\ cs[i] = es[i - m])
  BY <1>1
<1>3. Elems(cs) = Elems(ds) \union Elems(es)
  <2>1. ASSUME NEW x \in Elems(cs) PROVE x \in Elems(ds) \union Elems(es)
    <3>1. PICK i \in DOMAIN cs : x = cs[i]
      BY DEF Elems
    <3> QED BY <3>1, <1>1, <1>2 DEF Elems
  <2>2. ASSUME NEW x \in Elems(ds) PROVE x \in Elems(cs)
    <3>1. PICK i \in DOMAIN ds : x = ds[i]
      BY DEF Elems
    <3> QED BY <3>1, <1>1, <1>2 DEF Elems
  <2>3. ASSUME NEW x \in Elems(es) PROVE x \in Elems(cs)
    <3>1. PICK i \in DOMAIN es : x = es[i]
      BY DEF Elems
    <3>2. cs[m + i] = x /\ m + i \in DOMAIN cs
      BY <3>1, <1>1, <1>2
    <3> QED BY <3>2 DEF Elems
  <2> QED BY <2>1, <2>2, <2>3
<1>4. ASSUME NEW i \in DOMAIN cs, NEW j \in DOMAIN cs, i < j PROVE cs[i] < cs[j]
  <2>0. i \in Nat /\ j \in Nat
    BY <1>1
  <2>1. CASE i \in 1..m /\ j \in 1..m
    BY <2>1, <1>1, <1>2, <1>4 DEF Increasing
  <2>2. CASE i \in 1..m /\ j \notin 1..m
    <3>1. cs[i] \in Elems(ds) /\ cs[j] \in Elems(es)
      BY <2>2, <1>1, <1>2 DEF Elems
    <3> QED BY <3>1 DEF AllBelow
  <2>3. CASE i \notin 1..m
    <3>a. m \in Nat /\ l \in Nat /\ i # 0
      BY <1>1
    <3>b. i > m
      BY <2>0, <2>3, <3>a
    <3>c. i \notin 1..m /\ j \notin 1..m
      BY <2>0, <3>a, <3>b, <1>4
    <3>d. i - m \in 1..l /\ j - m \in 1..l
      BY <3>c, <1>2
    <3>1. i - m \in 1..l /\ j - m \in 1..l /\ i - m < j - m
      BY <2>0, <3>a, <3>d, <1>4
    <3>2. cs[i] = es[i - m] /\ cs[j] = es[j - m]
      BY <2>0, <2>3, <1>1, <1>2, <1>4
    <3> QED BY <3>1, <3>2, <1>1 DEF Increasing
  <2> QED BY <2>1, <2>2, <2>3
<1> QED BY <1>1, <1>3, <1>4 DEF cs, Increasing

\* One message joins a run of smaller ones.
LEMMA AppendIncreasing ==
    ASSUME NEW ds \in Seq(Nat), NEW n \in Nat, Increasing(ds), AllBelow(Elems(ds), {n})
    PROVE  /\ Append(ds, n) \in Seq(Nat)
           /\ Increasing(Append(ds, n))
           /\ Elems(Append(ds, n)) = Elems(ds) \union {n}
<1> DEFINE es == <<n>>
<1>1. Append(ds, n) = ds \o es /\ es \in Seq(Nat)
  OBVIOUS
<1>2. Elems(es) = {n} /\ Increasing(es)
  BY DEF Elems, Increasing
<1> HIDE DEF es
<1>3. AllBelow(Elems(ds), Elems(es))
  BY <1>2
<1>4. ds \o es \in Seq(Nat) /\ Increasing(ds \o es) /\ Elems(ds \o es) = Elems(ds) \union Elems(es)
  BY <1>1, <1>2, <1>3, ConcatIncreasing
<1> QED BY <1>1, <1>2, <1>4

\* A run of messages with more after it.
LEMMA Longer ==
    ASSUME NEW ds \in Seq(Nat)
    PROVE  /\ Channel!Extends(ds, ds)
           /\ \A n \in Nat : Channel!Extends(Append(ds, n), ds)
           /\ \A es \in Seq(Nat) : Channel!Extends(ds \o es, ds)
           /\ \A es, cs \in Seq(Nat) :
                 Channel!Extends(cs, es) /\ Channel!Extends(es, ds) => Channel!Extends(cs, ds)
<1>1. Channel!Extends(ds, ds)
  BY DEF Channel!Extends
<1>2. ASSUME NEW n \in Nat PROVE Channel!Extends(Append(ds, n), ds)
  BY DEF Channel!Extends
<1>3. ASSUME NEW es \in Seq(Nat) PROVE Channel!Extends(ds \o es, ds)
  BY DEF Channel!Extends
<1>4. ASSUME NEW es \in Seq(Nat), NEW cs \in Seq(Nat), Channel!Extends(cs, es), Channel!Extends(es, ds)
      PROVE  Channel!Extends(cs, ds)
  <2>1. DOMAIN ds = 1..Len(ds) /\ DOMAIN es = 1..Len(es) /\ Len(ds) <= Len(es) /\ Len(es) <= Len(cs)
    BY <1>4 DEF Channel!Extends
  <2> QED BY <1>4, <2>1 DEF Channel!Extends
<1> QED BY <1>1, <1>2, <1>3, <1>4

\* flushReadyPendingLocked keeps the order of what was delivered.
LEMMA FlushOrder ==
    ASSUME NEW ls \in SUBSET Refs, NEW ps \in SUBSET Nat, NEW ds \in Seq(Nat), IsFiniteSet(ps),
           Increasing(ds), AllBelow(Elems(ds), LostNums(ls)), AllBelow(Elems(ds), ps),
           LostNums(ls) \intersect ps = {}, 0 \notin LostNums(ls)
    PROVE  /\ ds \o FlushReady(ls, ps) \in Seq(Nat)
           /\ BufferOK(ls, ps \ Releasable(ls, ps), ds \o FlushReady(ls, ps))
           /\ Known(ls, ps \ Releasable(ls, ps), ds \o FlushReady(ls, ps)) = Known(ls, ps, ds)
           /\ Channel!Extends(ds \o FlushReady(ls, ps), ds)
<1> DEFINE out == Releasable(ls, ps)
<1> DEFINE es == Ascending(out)
<1> DEFINE cs == ds \o es
<1>1. out \in SUBSET ps /\ out \in SUBSET Nat /\ IsFiniteSet(out)
  <2>1. out \in SUBSET ps
    BY DEF Releasable
  <2> HIDE DEF out
  <2> QED BY <2>1, FS_Subset
<1>2. AllBelow(out, LostNums(ls))
  <2> SUFFICES ASSUME NEW n \in out, NEW x \in LostNums(ls) PROVE n < x
    BY DEF AllBelow
  <2>1. n \in ps /\ n \in Nat /\ ~HasBlockingGap(ls, n)
    BY DEF Releasable
  <2>2. x \in Nat /\ x # 0 /\ x # n
    BY <2>1, GapNums
  <2>3. ~(x < n)
    BY <2>1, <2>2, GapNums
  <2> QED BY <2>1, <2>2, <2>3
<1> HIDE DEF out
<1>3. es \in Seq(Nat) /\ Elems(es) = out /\ Increasing(es)
  BY <1>1, AscendingSorted DEF Elems, Increasing
<1> HIDE DEF es
<1>4. AllBelow(Elems(ds), out)
  BY <1>1 DEF AllBelow
<1>5. cs \in Seq(Nat) /\ Increasing(cs) /\ Elems(cs) = Elems(ds) \union out
      /\ Channel!Extends(cs, ds)
  BY <1>3, <1>4, ConcatIncreasing, Longer
<1> HIDE DEF cs
<1>6. AllBelow(Elems(cs), LostNums(ls))
  BY <1>2, <1>5 DEF AllBelow
<1>7. Held(ls, ps \ out)
  BY FlushLeavesBlocked DEF out
<1>8. BufferOK(ls, ps \ out, cs)
  BY <1>5, <1>6, <1>7 DEF BufferOK
<1>9. Known(ls, ps \ out, cs) = Known(ls, ps, ds)
  BY <1>5, <1>1 DEF Known
<1>10. FlushReady(ls, ps) = es
  BY DEF FlushReady, es, out
<1> QED BY <1>5, <1>8, <1>9, <1>10 DEF cs, out

\* The buffer flushReadyPendingLocked starts from, and the one it leaves.
FlushFrom(ls, ps, ds) ==
    /\ ls \in SUBSET Refs /\ ps \in SUBSET Nat /\ ds \in Seq(Nat) /\ IsFiniteSet(ps)
    /\ Increasing(ds) /\ AllBelow(Elems(ds), LostNums(ls)) /\ AllBelow(Elems(ds), ps)
    /\ LostNums(ls) \intersect ps = {} /\ 0 \notin LostNums(ls)

FlushTo(ls, ps, ds, qs, cs) ==
    /\ cs \in Seq(Nat) /\ BufferOK(ls, qs, cs)
    /\ Known(ls, qs, cs) = Known(ls, ps, ds)
    /\ Channel!Extends(cs, ds)

LEMMA FlushStep ==
    ASSUME NEW ls, NEW ps, NEW ds, FlushFrom(ls, ps, ds)
    PROVE  FlushTo(ls, ps, ds, ps \ Releasable(ls, ps), ds \o FlushReady(ls, ps))
<1> DEFINE cs == ds \o FlushReady(ls, ps)
<1>1. /\ ls \in SUBSET Refs /\ ps \in SUBSET Nat /\ ds \in Seq(Nat) /\ IsFiniteSet(ps)
      /\ Increasing(ds) /\ AllBelow(Elems(ds), LostNums(ls)) /\ AllBelow(Elems(ds), ps)
      /\ LostNums(ls) \intersect ps = {} /\ 0 \notin LostNums(ls)
  BY DEF FlushFrom
<1>2. /\ cs \in Seq(Nat) /\ BufferOK(ls, ps \ Releasable(ls, ps), cs)
      /\ Known(ls, ps \ Releasable(ls, ps), cs) = Known(ls, ps, ds)
      /\ Channel!Extends(cs, ds)
  BY <1>1, FlushOrder
<1> HIDE DEF cs
<1>3. FlushTo(ls, ps, ds, ps \ Releasable(ls, ps), cs)
  BY <1>2 DEF FlushTo
<1> QED BY <1>3 DEF cs

\* What was delivered is below what is held back.
LEMMA DeliveredBelowHeld ==
    ASSUME NEW ls \in SUBSET Refs, NEW ps \in SUBSET Nat, NEW ds \in Seq(Nat), BufferOK(ls, ps, ds)
    PROVE  AllBelow(Elems(ds), ps) /\ (LostNums(ls) = {} => ps = {})
<1>1. ASSUME NEW n \in ps PROVE \E x \in LostNums(ls) : x \in Nat /\ x < n
  <2>1. HasBlockingGap(ls, n) /\ n \in Nat
    BY DEF BufferOK, Held
  <2> QED BY <2>1, GapNums
<1>2. ASSUME NEW n \in ps, NEW y \in Elems(ds) PROVE y < n
  <2>1. PICK x \in LostNums(ls) : x \in Nat /\ x < n
    BY <1>1
  <2>2. y \in Nat /\ n \in Nat
    BY DEF Elems
  <2>3. y < x
    BY DEF BufferOK, AllBelow
  <2> QED BY <2>1, <2>2, <2>3
<1> QED BY <1>1, <1>2 DEF AllBelow

\* The numbers of a reorder buffer are finitely many.
LEMMA KnownFinite ==
    ASSUME NEW ps \in SUBSET Nat, NEW k \in Nat, AllBelow(ps, {k})
    PROVE  IsFiniteSet(ps)
<1>1. \A n \in ps : n <= k
  BY DEF AllBelow
<1> QED BY <1>1, FS_BoundedSetOfNaturals

\* deliverApplication of a message above all that is known: it is buffered ...
LEMMA DeliverBlocked ==
    ASSUME NEW ls, NEW ps, NEW ds, Buffer(ls, ps, ds),
           NEW n \in Nat, Above(n, Known(ls, ps, ds)), HasBlockingGap(ls, n)
    PROVE  Advance(ls, ps, ds, {n}, ls, ps \union {n}, ds)
<1> SUFFICES ASSUME ls \in SUBSET Refs, ps \in SUBSET Nat, ds \in Seq(Nat), IsFiniteSet(ps),
                    BufferOK(ls, ps, ds), 0 \notin LostNums(ls)
             PROVE  Advance(ls, ps, ds, {n}, ls, ps \union {n}, ds)
  BY DEF Buffer
<1>1. n \notin LostNums(ls)
  BY DEF Above, Known
<1>2. Held(ls, ps \union {n})
  BY DEF Held, BufferOK
<1>3. BufferOK(ls, ps \union {n}, ds) /\ ps \union {n} \in SUBSET Nat
  BY <1>1, <1>2 DEF BufferOK
<1>4. Known(ls, ps \union {n}, ds) \subseteq Known(ls, ps, ds) \union {n}
  BY DEF Known
<1> QED BY <1>3, <1>4, Longer DEF Advance

\* ... or delivered, when nothing is lost and so nothing is pending.
LEMMA DeliverNow ==
    ASSUME NEW ls, NEW ps, NEW ds, Buffer(ls, ps, ds),
           NEW n \in Nat, Above(n, Known(ls, ps, ds)), n # 0, ~HasBlockingGap(ls, n)
    PROVE  Advance(ls, ps, ds, {n}, ls, ps \ Releasable(ls, ps), Append(ds, n) \o FlushReady(ls, ps))
<1> SUFFICES ASSUME ls \in SUBSET Refs, ps \in SUBSET Nat, ds \in Seq(Nat), IsFiniteSet(ps),
                    BufferOK(ls, ps, ds), 0 \notin LostNums(ls)
             PROVE  Advance(ls, ps, ds, {n}, ls, ps \ Releasable(ls, ps),
                            Append(ds, n) \o FlushReady(ls, ps))
  BY DEF Buffer
<1>1. LostNums(ls) = {}
  <2> SUFFICES ASSUME NEW x \in LostNums(ls) PROVE FALSE
    OBVIOUS
  <2>1. x \in Nat /\ x # 0 /\ x < n
    BY GapNums DEF Above, Known
  <2> QED BY <2>1, GapNums
<1>2. ps = {}
  BY <1>1, DeliveredBelowHeld
<1> DEFINE es == Append(ds, n)
<1>3. /\ es \in Seq(Nat) /\ Increasing(es) /\ Elems(es) = Elems(ds) \union {n}
      /\ Channel!Extends(es, ds)
  <2>1. AllBelow(Elems(ds), {n}) /\ Increasing(ds)
    BY DEF Above, AllBelow, Known, BufferOK
  <2> QED BY <2>1, AppendIncreasing, Longer
<1> HIDE DEF es
<1>4. AllBelow(Elems(es), LostNums(ls)) /\ AllBelow(Elems(es), ps)
  BY <1>1, <1>2 DEF AllBelow
<1>5. /\ es \o FlushReady(ls, ps) \in Seq(Nat)
      /\ BufferOK(ls, ps \ Releasable(ls, ps), es \o FlushReady(ls, ps))
      /\ Known(ls, ps \ Releasable(ls, ps), es \o FlushReady(ls, ps)) = Known(ls, ps, es)
      /\ Channel!Extends(es \o FlushReady(ls, ps), es)
  BY <1>2, <1>3, <1>4, FlushOrder
<1>6. Known(ls, ps, es) = Known(ls, ps, ds) \union {n}
  BY <1>3 DEF Known
<1> DEFINE cs == es \o FlushReady(ls, ps)
<1> HIDE DEF cs
<1>7. Advance(ls, ps, ds, {n}, ls, ps \ Releasable(ls, ps), cs)
  <2>1. Channel!Extends(cs, ds) /\ cs \in Seq(Nat)
    BY <1>3, <1>5, Longer DEF cs
  <2> QED BY <1>5, <1>6, <2>1 DEF Advance, cs
<1> QED BY <1>7 DEF es, cs

\* A lost message is forgotten.
LEMMA ForgetNums ==
    ASSUME NEW ls \in SUBSET Refs, NEW ref \in ls
    PROVE  /\ LostNums(ls \ {ref}) \in SUBSET LostNums(ls)
           /\ ls \ {ref} \in SUBSET Refs
           /\ ref.app => /\ ref.n \in LostNums(ls) /\ ref.n \notin LostNums(ls \ {ref})
                         /\ LostNums(ls) = LostNums(ls \ {ref}) \union {ref.n}
<1>1. \A r \in ls : r \in Refs /\ r = [app |-> r.app, n |-> r.n] /\ r.app \in BOOLEAN
  BY DEF Refs
<1>2. \A r \in ls : r.app /\ ref.app /\ r.n = ref.n => r = ref
  BY <1>1
<1> QED BY <1>2 DEF LostNums

\* expireLostInbound.
LEMMA ExpireOrder ==
    ASSUME NEW ls, NEW ps, NEW ds, Buffer(ls, ps, ds), NEW ref \in ls, NEW still, still = ls \ {ref}
    PROVE  Advance(ls, ps, ds, {}, still, ps \ Releasable(still, ps), ds \o FlushReady(still, ps))
<1> SUFFICES ASSUME ls \in SUBSET Refs, ps \in SUBSET Nat, ds \in Seq(Nat), IsFiniteSet(ps),
                    BufferOK(ls, ps, ds), 0 \notin LostNums(ls)
             PROVE  Advance(ls, ps, ds, {}, still, ps \ Releasable(still, ps), ds \o FlushReady(still, ps))
  BY DEF Buffer
<1>1. still \in SUBSET Refs /\ LostNums(still) \in SUBSET LostNums(ls)
  BY ForgetNums
<1>2. /\ Increasing(ds) /\ AllBelow(Elems(ds), LostNums(still)) /\ LostNums(still) \intersect ps = {}
      /\ 0 \notin LostNums(still)
  BY <1>1 DEF BufferOK, AllBelow
<1>3. AllBelow(Elems(ds), ps)
  BY DeliveredBelowHeld
<1>4. Known(still, ps, ds) \subseteq Known(ls, ps, ds)
  BY <1>1 DEF Known
<1> DEFINE cs == ds \o FlushReady(still, ps)
<1>5. /\ cs \in Seq(Nat) /\ BufferOK(still, ps \ Releasable(still, ps), cs)
      /\ Known(still, ps \ Releasable(still, ps), cs) = Known(still, ps, ds)
      /\ Channel!Extends(cs, ds)
  BY <1>1, <1>2, <1>3, FlushOrder
<1> HIDE DEF cs
<1>6. Advance(ls, ps, ds, {}, still, ps \ Releasable(still, ps), cs)
  BY <1>1, <1>4, <1>5 DEF Advance
<1> QED BY <1>6 DEF cs

\* handleRetransmit of a lost application message that is still blocked: it
\* joins the pending ones.
LEMMA RetransmitBlocked ==
    ASSUME NEW ls, NEW ps, NEW ds, Buffer(ls, ps, ds), NEW ref \in ls, ref.app,
           NEW still, still = ls \ {ref}, NEW held, held = ps \union {ref.n}
    PROVE  Advance(ls, ps, ds, {}, still, held \ Releasable(still, held), ds \o FlushReady(still, held))
<1> SUFFICES ASSUME ls \in SUBSET Refs, ps \in SUBSET Nat, ds \in Seq(Nat), IsFiniteSet(ps),
                    BufferOK(ls, ps, ds), 0 \notin LostNums(ls)
             PROVE  Advance(ls, ps, ds, {}, still, held \ Releasable(still, held),
                            ds \o FlushReady(still, held))
  BY DEF Buffer
<1>1. /\ still \in SUBSET Refs /\ LostNums(still) \in SUBSET LostNums(ls)
      /\ ref.n \in LostNums(ls) /\ ref.n \notin LostNums(still) /\ ref.n \in Nat
  BY ForgetNums DEF Refs
<1>2. /\ Increasing(ds) /\ AllBelow(Elems(ds), LostNums(ls)) /\ LostNums(ls) \intersect ps = {}
      /\ 0 \notin LostNums(still) /\ AllBelow(Elems(ds), ps)
  BY <1>1, DeliveredBelowHeld DEF BufferOK
<1>3. /\ AllBelow(Elems(ds), LostNums(still)) /\ AllBelow(Elems(ds), held)
      /\ LostNums(still) \intersect held = {} /\ held \in SUBSET Nat
  BY <1>1, <1>2 DEF AllBelow
<1>4. IsFiniteSet(held)
  BY FS_AddElement
<1>5. Known(still, held, ds) \subseteq Known(ls, ps, ds)
  BY <1>1 DEF Known
<1> DEFINE cs == ds \o FlushReady(still, held)
<1>6. /\ cs \in Seq(Nat) /\ BufferOK(still, held \ Releasable(still, held), cs)
      /\ Known(still, held \ Releasable(still, held), cs) = Known(still, held, ds)
      /\ Channel!Extends(cs, ds)
  <2>1. /\ still \in SUBSET Refs /\ held \in SUBSET Nat /\ ds \in Seq(Nat) /\ IsFiniteSet(held)
        /\ Increasing(ds) /\ AllBelow(Elems(ds), LostNums(still)) /\ AllBelow(Elems(ds), held)
        /\ LostNums(still) \intersect held = {} /\ 0 \notin LostNums(still)
    BY <1>1, <1>2, <1>3, <1>4
  <2>2. FlushFrom(still, held, ds)
    BY <2>1 DEF FlushFrom
  <2>3. FlushTo(still, held, ds, held \ Releasable(still, held), cs)
    BY <2>2, FlushStep, Zenon
  <2> HIDE DEF cs
  <2> QED BY <2>3 DEF FlushTo
<1> HIDE DEF cs
<1>7. Advance(ls, ps, ds, {}, still, held \ Releasable(still, held), cs)
  BY <1>1, <1>3, <1>5, <1>6 DEF Advance
<1> QED BY <1>7 DEF cs

\* handleRetransmit of a lost application message that nothing blocks.
LEMMA RetransmitNow ==
    ASSUME NEW ls, NEW ps, NEW ds, Buffer(ls, ps, ds), NEW ref \in ls, ref.app,
           NEW still, still = ls \ {ref}, ~HasBlockingGap(still, ref.n)
    PROVE  Advance(ls, ps, ds, {}, still, ps \ Releasable(still, ps),
                   Append(ds, ref.n) \o FlushReady(still, ps))
<1> SUFFICES ASSUME ls \in SUBSET Refs, ps \in SUBSET Nat, ds \in Seq(Nat), IsFiniteSet(ps),
                    BufferOK(ls, ps, ds), 0 \notin LostNums(ls)
             PROVE  Advance(ls, ps, ds, {}, still, ps \ Releasable(still, ps),
                            Append(ds, ref.n) \o FlushReady(still, ps))
  BY DEF Buffer
<1> DEFINE n == ref.n
<1> DEFINE es == Append(ds, n)
<1>1. /\ still \in SUBSET Refs /\ LostNums(still) \in SUBSET LostNums(ls)
      /\ n \in LostNums(ls) /\ n \notin LostNums(still) /\ n \in Nat
      /\ LostNums(ls) = LostNums(still) \union {n}
  BY ForgetNums DEF Refs
<1>2. /\ Increasing(ds) /\ AllBelow(Elems(ds), LostNums(ls)) /\ LostNums(ls) \intersect ps = {}
      /\ 0 \notin LostNums(still) /\ AllBelow(Elems(ds), ps)
  BY <1>1, DeliveredBelowHeld DEF BufferOK
<1>3. ~HasBlockingGap(still, n)
  OBVIOUS
<1> HIDE DEF n
<1>4. AllBelow(Elems(ds), {n})
  BY <1>1, <1>2 DEF AllBelow
<1>5. /\ es \in Seq(Nat) /\ Increasing(es) /\ Elems(es) = Elems(ds) \union {n}
      /\ Channel!Extends(es, ds)
  BY <1>1, <1>2, <1>4, AppendIncreasing, Longer
<1> HIDE DEF es
<1>6. ASSUME NEW x \in LostNums(still) PROVE x \in Nat /\ n < x
  <2>1. x \in Nat /\ x # 0 /\ x # n
    BY <1>1, <1>2, GapNums
  <2>2. ~\E y \in LostNums(still) : 0 < y /\ y < n
    BY <1>1, <1>3, GapNums
  <2>3. 0 < x /\ n \in Nat
    BY <1>1, <2>1
  <2>4. ~(x < n)
    BY <2>2, <2>3
  <2> QED BY <2>1, <2>3, <2>4
<1>7. ASSUME NEW y \in ps PROVE n < y
  <2>1. HasBlockingGap(ls, y) /\ y \in Nat
    BY DEF BufferOK, Held
  <2>2. PICK x \in LostNums(ls) : x < y
    BY <2>1, GapNums
  <2>3. x = n \/ (x \in Nat /\ n < x)
    BY <1>1, <1>6
  <2> QED BY <1>1, <2>1, <2>2, <2>3
<1>8. AllBelow(Elems(es), LostNums(still)) /\ AllBelow(Elems(es), ps) /\ LostNums(still) \intersect ps = {}
  BY <1>1, <1>2, <1>5, <1>6, <1>7 DEF AllBelow
<1>9. Known(still, ps, es) \subseteq Known(ls, ps, ds)
  BY <1>1, <1>5 DEF Known
<1>10. /\ es \o FlushReady(still, ps) \in Seq(Nat)
       /\ BufferOK(still, ps \ Releasable(still, ps), es \o FlushReady(still, ps))
       /\ Known(still, ps \ Releasable(still, ps), es \o FlushReady(still, ps)) = Known(still, ps, es)
       /\ Channel!Extends(es \o FlushReady(still, ps), es)
  BY <1>1, <1>2, <1>5, <1>8, FlushOrder
<1> DEFINE cs == es \o FlushReady(still, ps)
<1> HIDE DEF cs
<1>11. Advance(ls, ps, ds, {}, still, ps \ Releasable(still, ps), cs)
  <2>1. Channel!Extends(cs, ds) /\ cs \in Seq(Nat)
    BY <1>5, <1>10, Longer DEF cs
  <2> QED BY <1>1, <1>9, <1>10, <2>1 DEF Advance, cs
<1> QED BY <1>11 DEF cs, es, n

\* markLostInbound of a message above all that is known.
LEMMA MarkLostOrder ==
    ASSUME NEW ls, NEW ps, NEW ds, Buffer(ls, ps, ds), NEW ref \in Refs,
           ref.app => Above(ref.n, Known(ls, ps, ds)),
           NEW X, X = IF ref.app THEN {ref.n} ELSE {}
    PROVE  Advance(ls, ps, ds, X, ls \union {ref}, ps, ds)
<1> SUFFICES ASSUME ls \in SUBSET Refs, ps \in SUBSET Nat, ds \in Seq(Nat), IsFiniteSet(ps),
                    BufferOK(ls, ps, ds), 0 \notin LostNums(ls)
             PROVE  Advance(ls, ps, ds, X, ls \union {ref}, ps, ds)
  BY DEF Buffer
<1>1. LostNums(ls \union {ref}) = LostNums(ls) \union X /\ ref.n \in Nat
  BY DEF LostNums, Refs
<1>2. Held(ls \union {ref}, ps)
  BY GapMonotone DEF BufferOK
<1>3. AllBelow(Elems(ds), X) /\ X \intersect ps = {}
  BY <1>1 DEF AllBelow, Above, Known
<1>4. BufferOK(ls \union {ref}, ps, ds)
  BY <1>1, <1>2, <1>3 DEF BufferOK, AllBelow
<1>5. Known(ls \union {ref}, ps, ds) \subseteq Known(ls, ps, ds) \union X
  BY <1>1 DEF Known
<1> QED BY <1>1, <1>4, <1>5, Longer DEF Advance

(***************************************************************************)
(* Steps that leave a conversation alone but for its queue.                *)
(***************************************************************************)

\* No application message joins the queue, and it keeps its order.
Fewer(v, w) == WireNums(v) \subseteq WireNums(w) /\ (WireSorted(w) => WireSorted(v))

\* A handshake, alert or control record joins the queue.
LEMMA FewerAppend ==
    ASSUME NEW w \in Seq(Records), NEW rec, ~IsApp(rec)
    PROVE  Fewer(Append(w, rec), w)
<1> DEFINE v == Append(w, rec)
<1>1. /\ Len(w) \in Nat /\ DOMAIN w = 1..Len(w) /\ DOMAIN v = 1..(Len(w) + 1)
      /\ \A i \in 1..Len(w) : v[i] = w[i]
      /\ v[Len(w) + 1] = rec
  OBVIOUS
<1> HIDE DEF v
<1>2. \A i \in DOMAIN v : IsApp(v[i]) => i \in DOMAIN w /\ v[i] = w[i]
  BY <1>1
<1>3. WireNums(v) \subseteq WireNums(w)
  BY <1>2 DEF WireNums
<1>4. WireSorted(w) => WireSorted(v)
  BY <1>2 DEF WireSorted
<1> QED BY <1>3, <1>4 DEF Fewer, v

\* The receiver or the relay takes the first record.
LEMMA FewerTail ==
    ASSUME NEW w \in Seq(Records), w # <<>>
    PROVE  /\ Fewer(Tail(w), w)
           /\ IsApp(Head(w)) => Head(w).pay.n \in WireNums(w)
           /\ WireSorted(w) /\ IsApp(Head(w)) => AllBelow({Head(w).pay.n}, WireNums(Tail(w)))
<1> DEFINE v == Tail(w)
<1> DEFINE hd == Head(w)
<1>1. /\ Len(w) \in Nat \ {0} /\ DOMAIN w = 1..Len(w) /\ DOMAIN v = 1..(Len(w) - 1)
      /\ \A i \in 1..(Len(w) - 1) : v[i] = w[i + 1]
      /\ hd = w[1]
  OBVIOUS
<1> HIDE DEF v, hd
<1>2. /\ \A i \in DOMAIN v : i \in Nat /\ i + 1 \in DOMAIN w /\ v[i] = w[i + 1] /\ 1 < i + 1
      /\ \A i, j \in DOMAIN v : i < j => i + 1 < j + 1
      /\ 1 \in DOMAIN w
  BY <1>1
<1>3. WireNums(v) \subseteq WireNums(w)
  BY <1>2 DEF WireNums
<1>4. ASSUME WireSorted(w) PROVE WireSorted(v)
  <2> SUFFICES ASSUME NEW i \in DOMAIN v, NEW j \in DOMAIN v, i < j, IsApp(v[i]), IsApp(v[j])
               PROVE  v[i].pay.n < v[j].pay.n
    BY DEF WireSorted
  <2> QED BY <1>2, <1>4 DEF WireSorted
<1>5. IsApp(hd) => hd.pay.n \in WireNums(w)
  BY <1>1, <1>2 DEF WireNums
<1>6. ASSUME WireSorted(w), IsApp(hd) PROVE AllBelow({hd.pay.n}, WireNums(v))
  <2> SUFFICES ASSUME NEW i \in DOMAIN v, IsApp(v[i]) PROVE hd.pay.n < v[i].pay.n
    BY DEF AllBelow, WireNums
  <2> QED BY <1>1, <1>2, <1>6 DEF WireSorted
<1> QED BY <1>3, <1>4, <1>5, <1>6 DEF Fewer, v, hd

\* An application message joins the queue behind smaller ones.
LEMMA AppendApp ==
    ASSUME NEW w \in Seq(Records), NEW rec \in Records, IsApp(rec), WireSorted(w),
           AllBelow(WireNums(w), {rec.pay.n})
    PROVE  /\ WireSorted(Append(w, rec))
           /\ WireNums(Append(w, rec)) = WireNums(w) \union {rec.pay.n}
<1> DEFINE v == Append(w, rec)
<1>1. /\ Len(w) \in Nat /\ DOMAIN w = 1..Len(w) /\ DOMAIN v = 1..(Len(w) + 1)
      /\ \A i \in 1..Len(w) : v[i] = w[i]
      /\ v[Len(w) + 1] = rec
  OBVIOUS
<1> HIDE DEF v
<1>2. /\ \A i \in DOMAIN v : (i \in DOMAIN w /\ v[i] = w[i]) \/ (i = Len(w) + 1 /\ v[i] = rec)
      /\ \A i \in DOMAIN w : i \in DOMAIN v /\ v[i] = w[i] /\ i < Len(w) + 1
      /\ Len(w) + 1 \in DOMAIN v
      /\ \A i, j \in DOMAIN v : i < j => i \in DOMAIN w
  BY <1>1
<1>3. WireNums(v) = WireNums(w) \union {rec.pay.n}
  <2>1. ASSUME NEW x \in WireNums(v) PROVE x \in WireNums(w) \union {rec.pay.n}
    BY <1>2 DEF WireNums
  <2>2. ASSUME NEW x \in WireNums(w) PROVE x \in WireNums(v)
    BY <1>2 DEF WireNums
  <2>3. rec.pay.n \in WireNums(v)
    BY <1>1, <1>2 DEF WireNums
  <2> QED BY <2>1, <2>2, <2>3
<1>4. WireSorted(v)
  <2> SUFFICES ASSUME NEW i \in DOMAIN v, NEW j \in DOMAIN v, i < j, IsApp(v[i]), IsApp(v[j])
               PROVE  v[i].pay.n < v[j].pay.n
    BY DEF WireSorted
  <2>1. i \in DOMAIN w /\ v[i] = w[i] /\ w[i].pay.n \in WireNums(w)
    BY <1>2 DEF WireNums
  <2>2. CASE j \in DOMAIN w
    BY <1>2, <2>1, <2>2 DEF WireSorted
  <2>3. CASE v[j] = rec
    BY <2>1, <2>3 DEF AllBelow
  <2> QED BY <1>2, <2>2, <2>3
<1> QED BY <1>3, <1>4 DEF v

\* The messages X move up, from the wire or the readLoop's hand to what is
\* known, and nothing new comes in.
LEMMA MoveOK ==
    ASSUME NEW ls, NEW ps, NEW ds, NEW a, NEW w, NEW k \in Nat, ConversationOK(ls, ps, ds, a, w, k),
           NEW ls2, NEW ps2, NEW ds2, NEW a2, NEW w2, NEW k2 \in Nat, BufferOK(ls2, ps2, ds2),
           NEW X, X \subseteq a \union WireNums(w),
           Known(ls, ps, ds) \union a \union WireNums(w) \subseteq Nat,
           Known(ls2, ps2, ds2) \subseteq Known(ls, ps, ds) \union X,
           a2 \subseteq a \union WireNums(w), Fewer(w2, w),
           AllBelow(X, a2 \union WireNums(w2)), AllBelow(a2, WireNums(w2)), k <= k2
    PROVE  ConversationOK(ls2, ps2, ds2, a2, w2, k2)
<1> DEFINE K == Known(ls, ps, ds)
<1> DEFINE K2 == Known(ls2, ps2, ds2)
<1> DEFINE N == WireNums(w)
<1> DEFINE N2 == WireNums(w2)
<1>1. /\ AllBelow(K, a \union N) /\ AllBelow(K \union a \union N, {k}) /\ WireSorted(w)
      /\ 0 \notin K \union a \union N \union {k}
  BY DEF ConversationOK
<1>2. N2 \subseteq N /\ WireSorted(w2)
  BY <1>1 DEF Fewer
<1>3. K2 \subseteq K \union X
  OBVIOUS
<1> HIDE DEF K, K2, N, N2
<1>4. AllBelow(K2, a2 \union N2)
  BY <1>1, <1>2, <1>3 DEF AllBelow, N, N2
<1>5. AllBelow(K2 \union a2 \union N2, {k2})
  <2> SUFFICES ASSUME NEW x \in K2 \union a2 \union N2 PROVE x < k2
    BY DEF AllBelow
  <2>1. x \in K \union a \union N
    BY <1>2, <1>3 DEF N
  <2>2. x < k /\ x \in Nat
    BY <1>1, <2>1 DEF AllBelow, K, N
  <2> QED BY <2>2
<1>6. 0 \notin K2 \union a2 \union N2 \union {k2}
  BY <1>1, <1>2, <1>3 DEF N
<1> QED BY <1>2, <1>4, <1>5, <1>6 DEF ConversationOK, K2, N2

\* A step that leaves the messages of b to a where they are, takes some off the
\* wire, or forgets them on a restart.
QuietConv(a, b) ==
    /\ \/ lost'[a][b] = lost[a][b] /\ pending'[a][b] = pending[a][b]
       \/ lost'[a][b] = {} /\ pending'[a][b] = {}
    /\ delivered'[a][b] = delivered[a][b]
    /\ InHand(rl'[a], b) \subseteq InHand(rl[a], b)
    /\ Fewer(wire'[b][a], wire[b][a])
    /\ NextNo(b, a)' \in Nat /\ NextNo(b, a) <= NextNo(b, a)'

\* The types of what one conversation holds, and the buffer lemmas' view of it.
LEMMA ConversationTypes ==
    ASSUME IInv, OrderInv, NEW a \in Hosts, NEW b \in Hosts
    PROVE  /\ lost[a][b] \in SUBSET Refs /\ pending[a][b] \in SUBSET Nat
           /\ delivered[a][b] \in Seq(Nat)
           /\ wire[b][a] \in Seq(Records)
           /\ Known(lost[a][b], pending[a][b], delivered[a][b]) \subseteq Nat
           /\ InHand(rl[a], b) \subseteq Nat
           /\ WireNums(wire[b][a]) \subseteq Nat
           /\ NextNo(b, a) \in Nat
           /\ IsFiniteSet(pending[a][b])
           /\ Conversation(a, b)
           /\ RlOK(a, rl[a])
<1>1. /\ lost[a][b] \in SUBSET Refs /\ pending[a][b] \in SUBSET Nat
      /\ delivered[a][b] \in Seq(Nat) /\ wire[b][a] \in Seq(Records)
      /\ sent[b][a] \in Nat /\ RlOK(a, rl[a]) /\ Conversation(a, b)
  <2>1. /\ lost[a][b] \in SUBSET Refs /\ pending[a][b] \in SUBSET Nat
        /\ wire[b][a] \in Seq(Records)
    BY DEF IInv, TypeOK
  <2>2. sent[b][a] \in Nat
    BY BoundsAssumption DEF IInv, TypeOK
  <2>3. RlOK(a, rl[a])
    BY DEF IInv, ReadLoopsOK
  <2>4. delivered[a][b] \in Seq(Nat) /\ Conversation(a, b)
    BY DEF OrderInv
  <2> QED BY <2>1, <2>2, <2>3, <2>4
<1>2. \A rec \in Records : IsApp(rec) => rec.pay.n \in Nat
  BY PayloadFields DEF Records, IsApp
<1>3. InHand(rl[a], b) \subseteq Nat
  BY <1>1, <1>2 DEF InHand, RlOK
<1>4. WireNums(wire[b][a]) \subseteq Nat
  <2>1. \A i \in DOMAIN wire[b][a] : wire[b][a][i] \in Records
    BY <1>1
  <2> QED BY <1>2, <2>1 DEF WireNums
<1>5. Known(lost[a][b], pending[a][b], delivered[a][b]) \subseteq Nat
  <2>1. Elems(delivered[a][b]) \subseteq Nat
    BY <1>1 DEF Elems
  <2>2. LostNums(lost[a][b]) \subseteq Nat
    BY <1>1 DEF LostNums, Refs
  <2> QED BY <1>1, <2>1, <2>2 DEF Known
<1>6. NextNo(b, a) \in Nat
  BY <1>1 DEF NextNo
<1>7. IsFiniteSet(pending[a][b])
  <2>1. AllBelow(pending[a][b], {NextNo(b, a)})
    BY <1>1 DEF Conversation, ConversationOK, AllBelow, Known
  <2> QED BY <1>1, <1>6, <2>1, KnownFinite
<1> QED BY <1>1, <1>3, <1>4, <1>5, <1>6, <1>7

\* A quiet step keeps the order of the conversation.
LEMMA QuietConvOK ==
    ASSUME IInv, OrderInv, NEW a \in Hosts, NEW b \in Hosts, QuietConv(a, b)
    PROVE  Conversation(a, b)'
<1> DEFINE ls == lost[a][b]
<1> DEFINE ps == pending[a][b]
<1> DEFINE ds == delivered[a][b]
<1> DEFINE ls2 == lost'[a][b]
<1> DEFINE ps2 == pending'[a][b]
<1> DEFINE ds2 == delivered'[a][b]
<1> DEFINE hd == InHand(rl[a], b)
<1> DEFINE hd2 == InHand(rl'[a], b)
<1> DEFINE w == wire[b][a]
<1> DEFINE w2 == wire'[b][a]
<1> DEFINE k == NextNo(b, a)
<1> DEFINE k2 == NextNo(b, a)'
<1>1. /\ ConversationOK(ls, ps, ds, hd, w, k)
      /\ k \in Nat /\ Known(ls, ps, ds) \union hd \union WireNums(w) \subseteq Nat
  BY ConversationTypes DEF Conversation
<1>2. BufferOK(ls, ps, ds) /\ AllBelow(hd, WireNums(w))
  BY <1>1 DEF ConversationOK
<1>3. /\ k2 \in Nat /\ k <= k2 /\ Fewer(w2, w) /\ hd2 \subseteq hd /\ ds2 = ds
      /\ (ls2 = ls /\ ps2 = ps) \/ (ls2 = {} /\ ps2 = {})
  BY DEF QuietConv
<1>4. Conversation(a, b)' <=> ConversationOK(ls2, ps2, ds2, hd2, w2, k2)
  BY DEF Conversation
<1> HIDE DEF ls, ps, ds, ls2, ps2, ds2, hd, hd2, w, w2, k, k2
<1>5. LostNums({}) = {}
  BY DEF LostNums
<1>6. BufferOK({}, {}, ds)
  BY <1>2, <1>5 DEF BufferOK, AllBelow, Held
<1>7. BufferOK(ls2, ps2, ds2) /\ Known(ls2, ps2, ds2) \subseteq Known(ls, ps, ds)
  BY <1>2, <1>3, <1>5, <1>6 DEF Known
<1>8. AllBelow({}, hd2 \union WireNums(w2)) /\ AllBelow(hd2, WireNums(w2))
  BY <1>2, <1>3 DEF AllBelow, Fewer
<1>9. ConversationOK(ls2, ps2, ds2, hd2, w2, k2)
  BY <1>1, <1>3, <1>7, <1>8, MoveOK
<1> QED BY <1>4, <1>9

\* A record other than an application message joins a queue.
LEMMA PutQuiet ==
    ASSUME NEW w \in [Hosts -> [Hosts -> Seq(Records)]], NEW o \in Objects, NEW rec, ~IsApp(rec)
    PROVE  /\ \A a, b \in Hosts : Fewer(Put(w, o, rec)[a][b], w[a][b])
           /\ \A a, b \in Hosts : ~(a = o[1] /\ b = o[2]) => Put(w, o, rec)[a][b] = w[a][b]
           /\ WireAnswers(w) /\ RetransmitsApp(rec) => WireAnswers(Put(w, o, rec))
<1>0. o[1] \in Hosts /\ o[2] \in Hosts
  BY ObjectFields
<1>1. /\ Put(w, o, rec)[o[1]][o[2]] = Append(w[o[1]][o[2]], rec)
      /\ \A a, b \in Hosts : ~(a = o[1] /\ b = o[2]) => Put(w, o, rec)[a][b] = w[a][b]
  BY <1>0 DEF Put
<1>2. ASSUME NEW a \in Hosts, NEW b \in Hosts PROVE Fewer(Put(w, o, rec)[a][b], w[a][b])
  <2>1. CASE a = o[1] /\ b = o[2]
    <3> DEFINE q == w[a][b]
    <3>1. Put(w, o, rec)[a][b] = Append(q, rec) /\ q \in Seq(Records)
      BY <1>0, <1>1, <2>1
    <3> HIDE DEF q
    <3>2. Fewer(Append(q, rec), q)
      BY <3>1, FewerAppend
    <3> QED BY <3>1, <3>2 DEF q
  <2>2. CASE ~(a = o[1] /\ b = o[2])
    BY <1>1, <2>2 DEF Fewer
  <2> QED BY <2>1, <2>2
<1>3. ASSUME WireAnswers(w), RetransmitsApp(rec), NEW a \in Hosts, NEW b \in Hosts,
             NEW i \in DOMAIN Put(w, o, rec)[a][b]
      PROVE  RetransmitsApp(Put(w, o, rec)[a][b][i])
  <2>1. CASE a = o[1] /\ b = o[2]
    <3> DEFINE q == w[a][b]
    <3> DEFINE v == Append(q, rec)
    <3>1. Put(w, o, rec)[a][b] = v /\ q \in Seq(Records)
      BY <1>0, <1>1, <2>1
    <3> HIDE DEF q
    <3>2. \A j \in DOMAIN v : v[j] = rec \/ (j \in DOMAIN q /\ v[j] = q[j])
      BY <3>1
    <3> HIDE DEF v
    <3> QED BY <1>3, <3>1, <3>2 DEF WireAnswers, q
  <2>2. CASE ~(a = o[1] /\ b = o[2])
    BY <1>1, <1>3, <2>2 DEF WireAnswers
  <2> QED BY <2>1, <2>2
<1>4. WireAnswers(w) /\ RetransmitsApp(rec) => WireAnswers(Put(w, o, rec))
  BY <1>3 DEF WireAnswers
<1> QED BY <1>1, <1>2, <1>4

\* The first record of a queue is taken.
LEMMA PopQuiet ==
    ASSUME NEW w \in [Hosts -> [Hosts -> Seq(Records)]], NEW h \in Hosts, NEW p \in Hosts, w[p][h] # <<>>
    PROVE  /\ Pop(w, h, p) \in [Hosts -> [Hosts -> Seq(Records)]]
           /\ \A a, b \in Hosts : Fewer(Pop(w, h, p)[a][b], w[a][b])
           /\ Pop(w, h, p)[p][h] = Tail(w[p][h])
           /\ WireAnswers(w) => WireAnswers(Pop(w, h, p)) /\ RetransmitsApp(Head(w[p][h]))
<1> DEFINE q == w[p][h]
<1>1. /\ Pop(w, h, p)[p][h] = Tail(q) /\ q \in Seq(Records) /\ q # <<>>
      /\ \A a, b \in Hosts : ~(a = p /\ b = h) => Pop(w, h, p)[a][b] = w[a][b]
      /\ Pop(w, h, p) \in [Hosts -> [Hosts -> Seq(Records)]]
  BY DEF Pop
<1>2. ASSUME NEW a \in Hosts, NEW b \in Hosts PROVE Fewer(Pop(w, h, p)[a][b], w[a][b])
  <2>1. CASE a = p /\ b = h
    BY <1>1, <2>1, FewerTail
  <2>2. CASE ~(a = p /\ b = h)
    BY <1>1, <2>2 DEF Fewer
  <2> QED BY <2>1, <2>2
<1> DEFINE v == Tail(q)
<1>3. ASSUME WireAnswers(w) PROVE WireAnswers(Pop(w, h, p)) /\ RetransmitsApp(Head(q))
  <2>1. \A i \in DOMAIN q : RetransmitsApp(q[i])
    BY <1>3 DEF WireAnswers
  <2> HIDE DEF q
  <2>2. /\ \A i \in DOMAIN v : i + 1 \in DOMAIN q /\ v[i] = q[i + 1]
        /\ 1 \in DOMAIN q /\ Head(q) = q[1]
    BY <1>1
  <2>3. Pop(w, h, p)[p][h] = v
    BY <1>1
  <2> HIDE DEF v
  <2>4. \A i \in DOMAIN v : RetransmitsApp(v[i])
    BY <2>1, <2>2
  <2>5. ASSUME NEW a \in Hosts, NEW b \in Hosts, NEW i \in DOMAIN Pop(w, h, p)[a][b]
        PROVE  RetransmitsApp(Pop(w, h, p)[a][b][i])
    <3>1. CASE a = p /\ b = h
      BY <2>3, <2>4, <2>5, <3>1
    <3>2. CASE ~(a = p /\ b = h)
      <4>1. Pop(w, h, p)[a][b] = w[a][b]
        BY <1>1, <3>2
      <4>2. i \in DOMAIN w[a][b] /\ Pop(w, h, p)[a][b][i] = w[a][b][i]
        BY <4>1, <2>5
      <4> QED BY <4>2, <1>3 DEF WireAnswers
    <3> QED BY <3>1, <3>2
  <2> QED BY <2>1, <2>2, <2>5 DEF WireAnswers
<1> QED BY <1>1, <1>2, <1>3

\* A step that is quiet for every conversation.
LEMMA QuietOrder ==
    ASSUME IInv, OrderInv, UNCHANGED delivered,
           \A a, b \in Hosts : QuietConv(a, b), WireAnswers(wire'), HandAnswers(rl')
    PROVE  OrderInv'
<1>1. \A a, b \in Hosts : Conversation(a, b)'
  BY QuietConvOK
<1>2. delivered' \in [Hosts -> [Hosts -> Seq(Nat)]]
  BY DEF OrderInv
<1> QED BY <1>1, <1>2 DEF OrderInv

\* What a step may do to the reorder buffer of one conversation: the messages
\* X become known to it.
BufferStep(h, p, X) ==
    /\ delivered' \in [Hosts -> [Hosts -> Seq(Nat)]]
    /\ BufferOK(lost'[h][p], pending'[h][p], delivered'[h][p])
    /\ Known(lost'[h][p], pending'[h][p], delivered'[h][p])
          \subseteq Known(lost[h][p], pending[h][p], delivered[h][p]) \union X
    /\ Channel!Extends(delivered'[h][p], delivered[h][p])
    /\ \A a, b \in Hosts : ~(a = h /\ b = p) =>
          /\ lost'[a][b] = lost[a][b]
          /\ pending'[a][b] = pending[a][b]
          /\ delivered'[a][b] = delivered[a][b]

\* Nobody but the application of h gets messages, and only of p.
Reads(h, p) ==
    /\ delivered' \in [Hosts -> [Hosts -> Seq(Nat)]]
    /\ Channel!Extends(delivered'[h][p], delivered[h][p])
    /\ \A a, b \in Hosts : ~(a = h /\ b = p) => delivered'[a][b] = delivered[a][b]

LEMMA BufferReads ==
    ASSUME NEW h \in Hosts, NEW p \in Hosts, NEW X, BufferStep(h, p, X) PROVE Reads(h, p)
BY DEF BufferStep, Reads

\* A step of the readLoop of h on what p sends to it.
LEMMA TakeStep ==
    ASSUME IInv, OrderInv, NEW h \in Hosts, NEW p \in Hosts, UNCHANGED <<wm, sent>>,
           NEW X, BufferStep(h, p, X), X \subseteq InHand(rl[h], p) \union WireNums(wire[p][h]),
           NEW r, rl' = [rl EXCEPT ![h] = r],
           InHand(r, p) \subseteq InHand(rl[h], p) \union WireNums(wire[p][h]),
           \A b \in Hosts : b # p => InHand(r, b) = {},
           r.pc = "await" => RetransmitsApp(r.rec),
           \A a, b \in Hosts : Fewer(wire'[a][b], wire[a][b]), WireAnswers(wire'),
           AllBelow(X, InHand(r, p) \union WireNums(wire'[p][h])),
           AllBelow(InHand(r, p), WireNums(wire'[p][h]))
    PROVE  OrderInv' /\ Reads(h, p)
<1>1. rl'[h] = r /\ \A a \in Hosts : a # h => rl'[a] = rl[a]
  BY DEF IInv, TypeOK
<1>2. \A a, b \in Hosts : NextNo(a, b)' = NextNo(a, b) /\ NextNo(a, b) \in Nat
                          /\ NextNo(a, b) <= NextNo(a, b)
  <2>1. \A a, b \in Hosts : NextNo(a, b)' = NextNo(a, b)
    BY DEF NextNo
  <2>2. \A a, b \in Hosts : NextNo(a, b) \in Nat
    BY ConversationTypes
  <2> QED BY <2>1, <2>2
<1>3. ASSUME NEW a \in Hosts, NEW b \in Hosts, ~(a = h /\ b = p) PROVE Conversation(a, b)'
  <2>1. InHand(rl'[a], b) \subseteq InHand(rl[a], b)
    BY <1>1, <1>3
  <2>2. QuietConv(a, b)
    BY <1>2, <1>3, <2>1 DEF QuietConv, BufferStep
  <2> QED BY <2>2, QuietConvOK
<1>4. Conversation(h, p)'
  <2> DEFINE ls == lost[h][p]
  <2> DEFINE ps == pending[h][p]
  <2> DEFINE ds == delivered[h][p]
  <2> DEFINE ls2 == lost'[h][p]
  <2> DEFINE ps2 == pending'[h][p]
  <2> DEFINE ds2 == delivered'[h][p]
  <2> DEFINE hd == InHand(rl[h], p)
  <2> DEFINE hd2 == InHand(r, p)
  <2> DEFINE w == wire[p][h]
  <2> DEFINE w2 == wire'[p][h]
  <2> DEFINE k == NextNo(p, h)
  <2>1. /\ ConversationOK(ls, ps, ds, hd, w, k)
        /\ k \in Nat /\ Known(ls, ps, ds) \union hd \union WireNums(w) \subseteq Nat
    BY ConversationTypes DEF Conversation
  <2>2. /\ Fewer(w2, w) /\ X \subseteq hd \union WireNums(w) /\ hd2 \subseteq hd \union WireNums(w)
        /\ AllBelow(X, hd2 \union WireNums(w2)) /\ AllBelow(hd2, WireNums(w2)) /\ k <= k
    BY <1>2
  <2>3. /\ BufferOK(ls2, ps2, ds2) /\ Known(ls2, ps2, ds2) \subseteq Known(ls, ps, ds) \union X
    BY DEF BufferStep
  <2>4. Conversation(h, p)' <=> ConversationOK(ls2, ps2, ds2, hd2, w2, k)
    BY <1>1, <1>2 DEF Conversation
  <2> HIDE DEF ls, ps, ds, ls2, ps2, ds2, hd, hd2, w, w2, k
  <2>5. ConversationOK(ls2, ps2, ds2, hd2, w2, k)
    BY <2>1, <2>2, <2>3, MoveOK
  <2> QED BY <2>4, <2>5
<1>5. HandAnswers(rl')
  BY <1>1 DEF HandAnswers, OrderInv
<1>6. delivered' \in [Hosts -> [Hosts -> Seq(Nat)]]
  BY DEF BufferStep
<1> QED BY <1>3, <1>4, <1>5, <1>6, BufferReads DEF OrderInv

\* The recovery state stays.
LEMMA BufferUnchanged ==
    ASSUME OrderInv, NEW h \in Hosts, NEW p \in Hosts, UNCHANGED recovery
    PROVE  BufferStep(h, p, {})
<1>1. delivered[h][p] \in Seq(Nat)
  BY DEF OrderInv
<1> QED BY <1>1, Longer DEF OrderInv, Conversation, ConversationOK, BufferStep, recovery

\* Every buffer is one that the operations can work on, and a message that
\* the readLoop of h has or takes next is above all that is known to it.
LEMMA BufferReady ==
    ASSUME IInv, OrderInv, NEW h \in Hosts, NEW p \in Hosts
    PROVE  /\ Buffer(lost[h][p], pending[h][p], delivered[h][p])
           /\ \A n \in InHand(rl[h], p) \union WireNums(wire[p][h]) :
                 /\ n \in Nat /\ n # 0
                 /\ Above(n, Known(lost[h][p], pending[h][p], delivered[h][p]))
<1>1. Buffer(lost[h][p], pending[h][p], delivered[h][p])
  BY ConversationTypes DEF Conversation, ConversationOK, Buffer, Known
<1>2. ASSUME NEW n \in InHand(rl[h], p) \union WireNums(wire[p][h])
      PROVE  n \in Nat /\ n # 0 /\ Above(n, Known(lost[h][p], pending[h][p], delivered[h][p]))
  BY ConversationTypes DEF Conversation, ConversationOK, AllBelow, Above
<1> QED BY <1>1, <1>2

\* An update of the buffer of one conversation.
LEMMA BufferUpdate ==
    ASSUME IInv, OrderInv, NEW h \in Hosts, NEW p \in Hosts, NEW X, NEW ls, NEW ps, NEW ds,
           Advance(lost[h][p], pending[h][p], delivered[h][p], X, ls, ps, ds),
           lost' = [lost EXCEPT ![h][p] = ls] \/ (lost' = lost /\ ls = lost[h][p]),
           pending' = [pending EXCEPT ![h][p] = ps] \/ (pending' = pending /\ ps = pending[h][p]),
           delivered' = [delivered EXCEPT ![h][p] = ds] \/ (delivered' = delivered /\ ds = delivered[h][p])
    PROVE  BufferStep(h, p, X)
<1>1. /\ delivered \in [Hosts -> [Hosts -> Seq(Nat)]]
      /\ pending \in [Hosts -> [Hosts -> SUBSET Nat]]
      /\ lost \in [Hosts -> [Hosts -> SUBSET Refs]]
      /\ ls \in SUBSET Refs /\ ps \in SUBSET Nat /\ ds \in Seq(Nat)
  BY DEF OrderInv, IInv, TypeOK, Advance
<1>2. \A a, b \in Hosts : lost'[a][b] = IF a = h /\ b = p THEN ls ELSE lost[a][b]
  <2>1. CASE lost' = [lost EXCEPT ![h][p] = ls]
    BY <1>1, <2>1, TableUpdate, SMTT(60)
  <2>2. CASE lost' = lost /\ ls = lost[h][p]
    BY <1>1, <2>2
  <2> QED BY <2>1, <2>2
<1>3. \A a, b \in Hosts : pending'[a][b] = IF a = h /\ b = p THEN ps ELSE pending[a][b]
  <2>1. CASE pending' = [pending EXCEPT ![h][p] = ps]
    BY <1>1, <2>1, TableUpdate, SMTT(60)
  <2>2. CASE pending' = pending /\ ps = pending[h][p]
    BY <1>1, <2>2
  <2> QED BY <2>1, <2>2
<1>4. /\ delivered' \in [Hosts -> [Hosts -> Seq(Nat)]]
      /\ \A a, b \in Hosts : delivered'[a][b] = IF a = h /\ b = p THEN ds ELSE delivered[a][b]
  <2>1. CASE delivered' = [delivered EXCEPT ![h][p] = ds]
    <3> DEFINE T == Seq(Nat)
    <3>1. delivered \in [Hosts -> [Hosts -> T]] /\ ds \in T
      BY <1>1
    <3> HIDE DEF T
    <3>2. /\ delivered' \in [Hosts -> [Hosts -> T]]
          /\ \A a, b \in Hosts : delivered'[a][b] = IF a = h /\ b = p THEN ds ELSE delivered[a][b]
      BY <2>1, <3>1, TableUpdate, SMTT(60)
    <3> QED BY <3>2 DEF T
  <2>2. CASE delivered' = delivered /\ ds = delivered[h][p]
    BY <1>1, <2>2
  <2> QED BY <2>1, <2>2
<1> QED BY <1>2, <1>3, <1>4 DEF BufferStep, Advance

\* deliverApplication.
LEMMA DeliverStep ==
    ASSUME IInv, OrderInv, NEW h \in Hosts, NEW p \in Hosts,
           NEW n \in Nat, n \in InHand(rl[h], p) \union WireNums(wire[p][h]), DeliverApplication(h, p, n)
    PROVE  BufferStep(h, p, {n})
<1> DEFINE ls == lost[h][p]
<1> DEFINE ps == pending[h][p]
<1> DEFINE ds == delivered[h][p]
<1>0. Buffer(ls, ps, ds) /\ n # 0 /\ Above(n, Known(ls, ps, ds))
  BY BufferReady
<1>1. CASE HasBlockingGap(ls, n)
  <2> DEFINE qs == ps \union {n}
  <2>1. pending' = [pending EXCEPT ![h][p] = qs] /\ delivered' = delivered /\ lost' = lost
    BY <1>1 DEF DeliverApplication
  <2>2. Advance(ls, ps, ds, {n}, ls, qs, ds)
    <3> HIDE DEF ls, ps, ds
    <3> QED BY <1>0, <1>1, DeliverBlocked
  <2> HIDE DEF qs
  <2> QED BY <2>1, <2>2, BufferUpdate
<1>2. CASE ~HasBlockingGap(ls, n)
  <2> DEFINE qs == ps \ Releasable(ls, ps)
  <2> DEFINE cs == Append(ds, n) \o FlushReady(ls, ps)
  <2>1. /\ pending' = [pending EXCEPT ![h][p] = qs] /\ delivered' = [delivered EXCEPT ![h][p] = cs]
        /\ lost' = lost
    BY <1>2 DEF DeliverApplication
  <2>2. Advance(ls, ps, ds, {n}, ls, qs, cs)
    <3> HIDE DEF ls, ps, ds
    <3> QED BY <1>0, <1>2, DeliverNow
  <2> HIDE DEF qs, cs
  <2> QED BY <2>1, <2>2, BufferUpdate
<1> QED BY <1>1, <1>2

\* expireLostInbound.
LEMMA ExpireStep ==
    ASSUME IInv, OrderInv, NEW h \in Hosts, NEW p \in Hosts, NEW ref \in lost[h][p], ExpireLost(h, p, ref)
    PROVE  BufferStep(h, p, {})
<1> DEFINE ls == lost[h][p]
<1> DEFINE ps == pending[h][p]
<1> DEFINE ds == delivered[h][p]
<1> DEFINE still == ls \ {ref}
<1> DEFINE qs == ps \ Releasable(still, ps)
<1> DEFINE cs == ds \o FlushReady(still, ps)
<1>0. Buffer(ls, ps, ds) /\ ref \in ls
  BY BufferReady
<1>1. /\ lost' = [lost EXCEPT ![h][p] = still] /\ pending' = [pending EXCEPT ![h][p] = qs]
      /\ delivered' = [delivered EXCEPT ![h][p] = cs]
  BY DEF ExpireLost
<1>2. Advance(ls, ps, ds, {}, still, qs, cs)
  <2> HIDE DEF ls, ps, ds
  <2> QED BY <1>0, ExpireOrder
<1> HIDE DEF still, qs, cs
<1> QED BY <1>1, <1>2, BufferUpdate

\* handleRetransmit.
LEMMA RetransmitStep ==
    ASSUME IInv, OrderInv, NEW h \in Hosts, NEW p \in Hosts, NEW ref, ref.app, HandleRetransmit(h, p, ref)
    PROVE  BufferStep(h, p, {})
<1> DEFINE ls == lost[h][p]
<1> DEFINE ps == pending[h][p]
<1> DEFINE ds == delivered[h][p]
<1> DEFINE still == ls \ {ref}
<1>0. Buffer(ls, ps, ds)
  BY BufferReady
<1>1. CASE ref \notin ls
  BY <1>1, BufferUnchanged DEF HandleRetransmit
<1>2. CASE ref \in ls /\ HasBlockingGap(still, ref.n)
  <2> DEFINE held == ps \union {ref.n}
  <2> DEFINE qs == held \ Releasable(still, held)
  <2> DEFINE cs == ds \o FlushReady(still, held)
  <2>1. /\ lost' = [lost EXCEPT ![h][p] = still] /\ pending' = [pending EXCEPT ![h][p] = qs]
        /\ delivered' = [delivered EXCEPT ![h][p] = cs]
    BY <1>2 DEF HandleRetransmit
  <2>2. Advance(ls, ps, ds, {}, still, qs, cs)
    <3> HIDE DEF ls, ps, ds
    <3> QED BY <1>0, <1>2, RetransmitBlocked
  <2> HIDE DEF still, qs, cs
  <2> QED BY <2>1, <2>2, BufferUpdate
<1>3. CASE ref \in ls /\ ~HasBlockingGap(still, ref.n)
  <2> DEFINE qs == ps \ Releasable(still, ps)
  <2> DEFINE cs == Append(ds, ref.n) \o FlushReady(still, ps)
  <2>1. /\ lost' = [lost EXCEPT ![h][p] = still] /\ pending' = [pending EXCEPT ![h][p] = qs]
        /\ delivered' = [delivered EXCEPT ![h][p] = cs]
    BY <1>3 DEF HandleRetransmit
  <2>2. Advance(ls, ps, ds, {}, still, qs, cs)
    <3> HIDE DEF ls, ps, ds
    <3> QED BY <1>0, <1>3, RetransmitNow
  <2> HIDE DEF still, qs, cs
  <2> QED BY <2>1, <2>2, BufferUpdate
<1> QED BY <1>1, <1>2, <1>3

\* markLostInbound.
LEMMA MarkLostStep ==
    ASSUME IInv, OrderInv, NEW h \in Hosts, NEW p \in Hosts, NEW o, NEW s, NEW ref \in Refs,
           ref.app => ref.n \in WireNums(wire[p][h]), MarkLost(h, p, o, s, ref)
    PROVE  BufferStep(h, p, IF ref.app THEN {ref.n} ELSE {})
<1> DEFINE ls == lost[h][p]
<1> DEFINE ps == pending[h][p]
<1> DEFINE ds == delivered[h][p]
<1> DEFINE X == IF ref.app THEN {ref.n} ELSE {}
<1> DEFINE more == ls \union {ref}
<1>0. Buffer(ls, ps, ds) /\ (ref.app => Above(ref.n, Known(ls, ps, ds)))
  BY BufferReady
<1>1. lost' = [lost EXCEPT ![h][p] = more] /\ pending' = pending /\ delivered' = delivered
  BY DEF MarkLost
<1>2. Advance(ls, ps, ds, X, more, ps, ds)
  <2> HIDE DEF ls, ps, ds
  <2>1. X = IF ref.app THEN {ref.n} ELSE {}
    OBVIOUS
  <2> HIDE DEF X
  <2> QED BY <1>0, <2>1, MarkLostOrder
<1> HIDE DEF X, more
<1>3. BufferStep(h, p, X)
  BY <1>1, <1>2, BufferUpdate
<1> QED BY <1>3 DEF X

(***************************************************************************)
(* The steps of the goroutines.                                            *)
(***************************************************************************)

\* A record that carries no application message and answers for none that has
\* no sequence number.
QuietRecord(rec) == ~IsApp(rec) /\ RetransmitsApp(rec)

\* A step that sends at most one such record.
Sends(w, v) == v = w \/ \E o \in Objects : \E rec : QuietRecord(rec) /\ v = Put(w, o, rec)

\* Alerts, change-cipher-specs, handshake and control records are quiet.
LEMMA QuietRecords ==
    /\ \A s : QuietRecord(Sealed(s, AlertPay)) /\ QuietRecord(Sealed(s, CcsPay))
    /\ \A s, msg : QuietRecord(Sealed(s, HsPay(msg)))
    /\ \A s, ref : QuietRecord(Sealed(s, CtlPay("lost_request", ref)))
    /\ \A s, ref : ref.app => QuietRecord(Sealed(s, CtlPay("retransmit", ref)))
<1>1. \A s, pay : Sealed(s, pay).pay = pay
  BY DEF Sealed
<1>2. /\ AlertPay.typ = "alert" /\ CcsPay.typ = "ccs" /\ \A msg : HsPay(msg).typ = "hs"
      /\ \A c, ref : CtlPay(c, ref).typ = "ctl" /\ CtlPay(c, ref).c = c /\ CtlPay(c, ref).ref = ref
  BY DEF AlertPay, CcsPay, HsPay, CtlPay
<1> QED BY <1>1, <1>2 DEF QuietRecord, IsApp, RetransmitsApp

\* Sending one puts no application message on any queue.
LEMMA SendsQuiet ==
    ASSUME NEW w \in [Hosts -> [Hosts -> Seq(Records)]], WireAnswers(w), NEW v, Sends(w, v)
    PROVE  WireAnswers(v) /\ \A a, b \in Hosts : Fewer(v[a][b], w[a][b])
<1>1. CASE v = w
  BY <1>1 DEF Fewer
<1>2. CASE \E o \in Objects : \E rec : QuietRecord(rec) /\ v = Put(w, o, rec)
  <2>1. PICK o \in Objects : \E rec : QuietRecord(rec) /\ v = Put(w, o, rec)
    BY <1>2
  <2>2. PICK rec : QuietRecord(rec) /\ v = Put(w, o, rec)
    BY <2>1
  <2> QED BY <2>2, PutQuiet DEF QuietRecord
<1> QED BY <1>1, <1>2 DEF Sends

\* The sender goes on with the same number while no writeMessage moves.
LEMMA NextNoSame ==
    ASSUME IInv, OrderInv, UNCHANGED <<wm, sent>>, NEW a \in Hosts, NEW b \in Hosts
    PROVE  NextNo(a, b)' \in Nat /\ NextNo(a, b) <= NextNo(a, b)'
<1>1. NextNo(a, b) \in Nat
  BY ConversationTypes
<1>2. NextNo(a, b)' = NextNo(a, b)
  BY DEF NextNo
<1> QED BY <1>1, <1>2

\* The wire of IInv.
LEMMA WireTypes ==
    ASSUME IInv, OrderInv
    PROVE  wire \in [Hosts -> [Hosts -> Seq(Records)]] /\ WireAnswers(wire)
BY DEF IInv, TypeOK, OrderInv

\* A step of a writer or of a goroutine other than the readLoop.
LEMMA SendOrder ==
    ASSUME IInv, OrderInv, UNCHANGED <<recovery, rl>>, Sends(wire, wire'),
           \A a, b \in Hosts : NextNo(a, b)' \in Nat /\ NextNo(a, b) <= NextNo(a, b)'
    PROVE  OrderInv'
<1>1. WireAnswers(wire') /\ \A a, b \in Hosts : Fewer(wire'[a][b], wire[a][b])
  BY WireTypes, SendsQuiet
<1>2. \A a, b \in Hosts : QuietConv(a, b)
  BY <1>1 DEF QuietConv, recovery
<1>3. HandAnswers(rl') /\ delivered' = delivered
  BY DEF OrderInv, recovery
<1> QED BY <1>1, <1>2, <1>3, QuietOrder

\* A goroutine other than a writer or the readLoop sends at most one record.
LEMMA GoroutineOrder ==
    ASSUME IInv, OrderInv, UNCHANGED <<recovery, rl, wm, sent>>, Sends(wire, wire')
    PROVE  OrderInv'
BY NextNoSame, SendOrder

\* The readLoop of h moves on without a record to look at.
LEMMA RlQuietOrder ==
    ASSUME IInv, OrderInv, NEW h \in Hosts, UNCHANGED <<recovery, wm, sent>>, Sends(wire, wire'),
           NEW r, r.pc # "await", rl' = [rl EXCEPT ![h] = r]
    PROVE  OrderInv'
<1>1. WireAnswers(wire') /\ \A a, b \in Hosts : Fewer(wire'[a][b], wire[a][b])
  BY WireTypes, SendsQuiet
<1>2. rl'[h] = r /\ \A a \in Hosts : a # h => rl'[a] = rl[a]
  BY DEF IInv, TypeOK
<1>3. \A b \in Hosts : InHand(r, b) = {}
  BY DEF InHand
<1>4. ASSUME NEW a \in Hosts, NEW b \in Hosts PROVE QuietConv(a, b)
  <2>1. InHand(rl'[a], b) \subseteq InHand(rl[a], b)
    BY <1>2, <1>3
  <2> QED BY <1>1, <2>1, NextNoSame DEF QuietConv, recovery
<1>5. HandAnswers(rl') /\ delivered' = delivered
  BY <1>2 DEF OrderInv, HandAnswers, recovery
<1> QED BY <1>1, <1>4, <1>5, QuietOrder

\* The number of the first record in a queue, if it has one.
HeadNum(w) == IF IsApp(Head(w)) THEN {Head(w).pay.n} ELSE {}

\* The readLoop of h takes the first record that p sent.
LEMMA TakeHead ==
    ASSUME IInv, OrderInv, NEW h \in Hosts, NEW p \in Hosts, rl[h].pc = "idle", wire[p][h] # <<>>,
           UNCHANGED <<wm, sent>>, Sends(Pop(wire, h, p), wire'),
           NEW X, BufferStep(h, p, X), X \subseteq HeadNum(wire[p][h]),
           NEW r, rl' = [rl EXCEPT ![h] = r], InHand(r, p) \subseteq HeadNum(wire[p][h]),
           X = {} \/ InHand(r, p) = {},
           \A b \in Hosts : b # p => InHand(r, b) = {},
           r.pc = "await" => r.rec = Head(wire[p][h])
    PROVE  OrderInv' /\ Reads(h, p)
<1> DEFINE w == Pop(wire, h, p)
<1> DEFINE q == wire[p][h]
<1>1. /\ w \in [Hosts -> [Hosts -> Seq(Records)]] /\ WireAnswers(w) /\ RetransmitsApp(Head(q))
      /\ \A a, b \in Hosts : Fewer(w[a][b], wire[a][b])
      /\ w[p][h] = Tail(q)
  BY WireTypes, PopQuiet
<1>2. Sends(w, wire') /\ q \in Seq(Records) /\ q # <<>>
  BY WireTypes
<1>3. WireSorted(q)
  BY ConversationTypes DEF Conversation, ConversationOK
<1> HIDE DEF w
<1>4. WireAnswers(wire') /\ \A a, b \in Hosts : Fewer(wire'[a][b], w[a][b])
  BY <1>1, <1>2, SendsQuiet
<1>5. \A a, b \in Hosts : Fewer(wire'[a][b], wire[a][b])
  BY <1>1, <1>4 DEF Fewer
<1>6. HeadNum(q) \subseteq WireNums(q) /\ AllBelow(HeadNum(q), WireNums(Tail(q)))
  <2> HIDE DEF q
  <2> QED BY <1>2, <1>3, FewerTail DEF HeadNum, AllBelow
<1>7. WireNums(wire'[p][h]) \subseteq WireNums(Tail(q))
  BY <1>1, <1>4 DEF Fewer
<1>8. /\ AllBelow(X, InHand(r, p) \union WireNums(wire'[p][h]))
      /\ AllBelow(InHand(r, p), WireNums(wire'[p][h]))
  BY <1>6, <1>7 DEF AllBelow
<1>9. r.pc = "await" => RetransmitsApp(r.rec)
  BY <1>1
<1>10. /\ X \subseteq InHand(rl[h], p) \union WireNums(q)
       /\ InHand(r, p) \subseteq InHand(rl[h], p) \union WireNums(q)
  BY <1>6
<1> QED BY <1>4, <1>5, <1>8, <1>9, <1>10, TakeStep

\* The sender's next number goes on the wire.
LEMMA SentOK ==
    ASSUME NEW ls, NEW ps, NEW ds, NEW a, NEW w \in Seq(Records), NEW k \in Nat,
           ConversationOK(ls, ps, ds, a, w, k),
           Known(ls, ps, ds) \union a \union WireNums(w) \subseteq Nat,
           NEW rec \in Records, IsApp(rec), rec.pay.n = k
    PROVE  ConversationOK(ls, ps, ds, a, Append(w, rec), k + 1)
<1> DEFINE K == Known(ls, ps, ds)
<1> DEFINE N == WireNums(w)
<1> DEFINE v == Append(w, rec)
<1>1. /\ AllBelow(K, a \union N) /\ AllBelow(K \union a \union N, {k}) /\ WireSorted(w)
      /\ AllBelow(a, N) /\ BufferOK(ls, ps, ds)
      /\ 0 \notin K \union a \union N \union {k}
  BY DEF ConversationOK
<1>2. AllBelow(N, {rec.pay.n})
  BY <1>1 DEF AllBelow
<1>3. WireSorted(v) /\ WireNums(v) = N \union {k}
  BY <1>1, <1>2, AppendApp
<1> HIDE DEF K, N, v
<1>4. AllBelow(K, a \union WireNums(v)) /\ AllBelow(a, WireNums(v))
  BY <1>1, <1>3 DEF AllBelow
<1>5. AllBelow(K \union a \union WireNums(v), {k + 1})
  <2> SUFFICES ASSUME NEW x \in K \union a \union N \union {k} PROVE x < k + 1
    BY <1>3 DEF AllBelow
  <2>1. x = k \/ (x \in Nat /\ x < k)
    BY <1>1 DEF AllBelow, K, N
  <2> QED BY <2>1
<1>6. 0 \notin K \union a \union WireNums(v) \union {k + 1}
  BY <1>1, <1>3
<1> QED BY <1>1, <1>3, <1>4, <1>5, <1>6 DEF ConversationOK, K, v

\* A WriteMessage caller moves on: the next number stays or is used up.
LEMMA NextNoUp ==
    ASSUME IInv, OrderInv, NEW h \in Hosts, NEW p \in Hosts, NEW m \in WmStates,
           wm' = [wm EXCEPT ![h][p] = m],
           \/ sent' = sent /\ (m.pc \in {"handshake", "send"} => wm[h][p].pc \in {"handshake", "send"})
           \/ /\ sent' = [sent EXCEPT ![h][p] = @ + 1]
              /\ wm[h][p].pc \notin {"handshake", "send"},
           NEW a \in Hosts, NEW b \in Hosts
    PROVE  NextNo(a, b)' \in Nat /\ NextNo(a, b) <= NextNo(a, b)'
<1>1. /\ sent \in [Hosts -> [Hosts -> 0..MaxWrites]] /\ wm \in [Hosts -> [Hosts -> WmStates]]
      /\ MaxWrites \in Nat
  BY BoundsAssumption DEF IInv, TypeOK
<1>2. \A x, y \in Hosts : wm'[x][y] = IF x = h /\ y = p THEN m ELSE wm[x][y]
  <2>1. wm \in [Hosts -> [Hosts -> WmStates]] /\ wm' = [wm EXCEPT ![h][p] = m]
    BY <1>1
  <2> QED BY <2>1
<1>3. \A x, y \in Hosts : sent[x][y] \in Nat
  BY <1>1
<1>4. CASE sent' = sent /\ (m.pc \in {"handshake", "send"} => wm[h][p].pc \in {"handshake", "send"})
  BY <1>2, <1>3, <1>4 DEF NextNo
<1>5. CASE sent' = [sent EXCEPT ![h][p] = @ + 1] /\ wm[h][p].pc \notin {"handshake", "send"}
  <2>1. \A x, y \in Hosts : sent'[x][y] = IF x = h /\ y = p THEN sent[x][y] + 1 ELSE sent[x][y]
    BY <1>1, <1>5
  <2> QED BY <1>2, <1>3, <1>5, <2>1 DEF NextNo
<1> QED BY <1>4, <1>5

\* Everything WriteMessage does but the send itself.
LEMMA WriteOrder ==
    ASSUME IInv, OrderInv, NEW h \in Hosts, NEW p \in Hosts,
           WriteStart(h, p) \/ WriteReady(h, p) \/ WriteTerminate(h, p) \/ WriteDelete(h, p)
    PROVE  OrderInv'
<1>0. wm[h][p].pc # "idle" => wm[h][p].o \in Objects
  BY DEF IInv, WritersOK, Created
<1>1. CASE WriteStart(h, p)
  <2>1. Entry(h, p) \in Objects
    BY <1>1, EntryOK DEF WriteStart
  <2> DEFINE m == WmAt("handshake", Entry(h, p))
  <2>2. /\ m \in WmStates /\ wm' = [wm EXCEPT ![h][p] = m] /\ wm[h][p].pc = "idle"
        /\ sent' = [sent EXCEPT ![h][p] = @ + 1]
        /\ UNCHANGED <<recovery, rl>> /\ wire' = wire
    BY <1>1, <2>1, WmAtOK DEF WriteStart
  <2> HIDE DEF m
  <2>3. \A a, b \in Hosts : NextNo(a, b)' \in Nat /\ NextNo(a, b) <= NextNo(a, b)'
    BY <2>2, NextNoUp
  <2> QED BY <2>2, <2>3, SendOrder DEF Sends
<1>2. CASE WriteReady(h, p)
  <2> DEFINE m == WmAt("send", wm[h][p].o)
  <2>1. /\ m \in WmStates /\ wm' = [wm EXCEPT ![h][p] = m] /\ wm[h][p].pc = "handshake" /\ sent' = sent
        /\ UNCHANGED <<recovery, rl>> /\ wire' = wire
    BY <1>0, <1>2, WmAtOK DEF WriteReady
  <2> HIDE DEF m
  <2>2. \A a, b \in Hosts : NextNo(a, b)' \in Nat /\ NextNo(a, b) <= NextNo(a, b)'
    BY <2>1, NextNoUp
  <2> QED BY <2>1, <2>2, SendOrder DEF Sends
<1>3. CASE WriteTerminate(h, p)
  <2> DEFINE m == WmAt("delete", wm[h][p].o)
  <2>1. /\ m \in WmStates /\ m.pc = "delete" /\ wm' = [wm EXCEPT ![h][p] = m] /\ sent' = sent
        /\ UNCHANGED <<recovery, rl>>
        /\ wm[h][p].o \in Objects /\ wire' = Put(wire, wm[h][p].o, Sealed(ses[wm[h][p].o], AlertPay))
    BY <1>0, <1>3, WmAtOK DEF WriteTerminate
  <2> HIDE DEF m
  <2>2. \A a, b \in Hosts : NextNo(a, b)' \in Nat /\ NextNo(a, b) <= NextNo(a, b)'
    BY <2>1, NextNoUp
  <2>3. Sends(wire, wire')
    BY <2>1, QuietRecords DEF Sends
  <2> QED BY <2>1, <2>2, <2>3, SendOrder
<1>4. CASE WriteDelete(h, p)
  <2>1. /\ WmIdle \in WmStates /\ WmIdle.pc = "idle" /\ wm' = [wm EXCEPT ![h][p] = WmIdle] /\ sent' = sent
        /\ UNCHANGED <<recovery, rl>> /\ wire' = wire
    BY <1>4, WmIdleOK DEF WriteDelete
  <2>2. \A a, b \in Hosts : NextNo(a, b)' \in Nat /\ NextNo(a, b) <= NextNo(a, b)'
    BY <2>1, NextNoUp
  <2> QED BY <2>1, <2>2, SendOrder DEF Sends
<1> QED BY <1>1, <1>2, <1>3, <1>4

\* WriteMessage sends: the conversation gets its next number.
LEMMA WriteSendOrder ==
    ASSUME IInv, OrderInv, NEW h \in Hosts, NEW p \in Hosts, WriteSend(h, p)
    PROVE  OrderInv'
<1> DEFINE o == wm[h][p].o
<1> DEFINE rec == Sealed(ses[o], AppPay(sent[h][p]))
<1>1. /\ o \in Objects /\ o[1] = h /\ o[2] = p /\ SessionOK(ses[o])
      /\ wm[h][p].pc = "send" /\ wire' = Put(wire, o, rec)
      /\ wm' = [wm EXCEPT ![h][p] = WmIdle] /\ sent' = sent
      /\ UNCHANGED <<rl, recovery>>
  BY DEF WriteSend, IInv, WritersOK, Created
<1>2. /\ sent[h][p] \in Nat /\ AppPay(sent[h][p]) \in Payloads
      /\ AppPay(sent[h][p]).typ = "app" /\ AppPay(sent[h][p]).n = sent[h][p]
  <2>1. sent[h][p] \in Nat
    BY BoundsAssumption DEF IInv, TypeOK
  <2> QED BY <2>1, PayloadsOK DEF AppPay
<1>3. rec \in Records /\ IsApp(rec) /\ rec.pay.n = sent[h][p]
  BY <1>1, <1>2, SealOK DEF IsApp
<1> HIDE DEF o, rec
<1>4. /\ wire'[h][p] = Append(wire[h][p], rec)
      /\ \A a, b \in Hosts : ~(a = h /\ b = p) => wire'[a][b] = wire[a][b]
  BY <1>1, WireTypes DEF Put
<1>5. \A a, b \in Hosts : NextNo(a, b)' \in Nat /\ NextNo(a, b) <= NextNo(a, b)'
  BY <1>1, WmIdleOK, NextNoUp
<1>6. NextNo(h, p) = sent[h][p] /\ NextNo(h, p)' = sent[h][p] + 1
  <2>1. wm'[h][p] = WmIdle
    BY <1>1 DEF IInv, TypeOK
  <2> QED BY <1>1, <2>1, WmIdleOK DEF NextNo
<1>7. ASSUME NEW a \in Hosts, NEW b \in Hosts, ~(a = p /\ b = h) PROVE Conversation(a, b)'
  <2>1. wire'[b][a] = wire[b][a]
    BY <1>4, <1>7
  <2>2. QuietConv(a, b)
    BY <1>1, <1>5, <2>1 DEF QuietConv, Fewer, recovery
  <2> QED BY <2>2, QuietConvOK
<1>8. Conversation(p, h)'
  <2> DEFINE ls == lost[p][h]
  <2> DEFINE ps == pending[p][h]
  <2> DEFINE ds == delivered[p][h]
  <2> DEFINE hd == InHand(rl[p], h)
  <2> DEFINE w == wire[h][p]
  <2> DEFINE k == sent[h][p]
  <2>1. /\ ConversationOK(ls, ps, ds, hd, w, k) /\ w \in Seq(Records) /\ k \in Nat
        /\ Known(ls, ps, ds) \union hd \union WireNums(w) \subseteq Nat
    BY <1>2, <1>6, ConversationTypes DEF Conversation
  <2>2. Conversation(p, h)' <=> ConversationOK(ls, ps, ds, hd, Append(w, rec), k + 1)
    BY <1>1, <1>4, <1>6 DEF Conversation, recovery
  <2>3. rec.pay.n = k
    BY <1>3
  <2> HIDE DEF ls, ps, ds, hd, w, k
  <2>4. ConversationOK(ls, ps, ds, hd, Append(w, rec), k + 1)
    BY <1>3, <2>1, <2>3, SentOK
  <2> QED BY <2>2, <2>4
<1>9. WireAnswers(wire')
  <2>1. RetransmitsApp(rec)
    BY <1>3 DEF IsApp, RetransmitsApp
  <2>2. ASSUME NEW a \in Hosts, NEW b \in Hosts, NEW i \in DOMAIN wire'[a][b]
        PROVE  RetransmitsApp(wire'[a][b][i])
    <3>1. CASE a = h /\ b = p
      <4> DEFINE q == wire[h][p]
      <4> DEFINE v == Append(q, rec)
      <4>1. wire'[a][b] = v /\ q \in Seq(Records) /\ \A j \in DOMAIN q : RetransmitsApp(q[j])
        BY <1>4, <3>1, WireTypes DEF WireAnswers
      <4> HIDE DEF q
      <4>2. \A j \in DOMAIN v : v[j] = rec \/ (j \in DOMAIN q /\ v[j] = q[j])
        BY <4>1
      <4> HIDE DEF v
      <4> QED BY <2>1, <2>2, <4>1, <4>2
    <3>2. CASE ~(a = h /\ b = p)
      BY <1>4, <2>2, <3>2, WireTypes DEF WireAnswers
    <3> QED BY <3>1, <3>2
  <2> QED BY <2>2 DEF WireAnswers
<1>10. HandAnswers(rl') /\ delivered' \in [Hosts -> [Hosts -> Seq(Nat)]]
  BY <1>1 DEF OrderInv, recovery
<1> QED BY <1>7, <1>8, <1>9, <1>10 DEF OrderInv

\* The handshake sends handshake and change-cipher-spec records only.
LEMMA StartOrder ==
    ASSUME IInv, OrderInv, NEW o \in Objects, StartHandshake(o) PROVE OrderInv'
BY QuietRecords, GoroutineOrder DEF StartHandshake, Sends

\* Every step of the handshake goroutine.
LEMMA HandshakeOrder ==
    ASSUME IInv, OrderInv, NEW o \in Objects, HandshakeStep(o) PROVE OrderInv'
<1>1. CASE PassiveHandshake(o)
  BY <1>1, StartOrder DEF PassiveHandshake
<1>2. CASE HandshakeClosed(o)
  BY <1>2, GoroutineOrder DEF HandshakeClosed, Sends
<1>3. CASE ReadHello(o)
  <2>1. UNCHANGED <<recovery, rl, wm, sent>>
    BY <1>3 DEF ReadHello
  <2>2. \/ wire' = wire
        \/ wire' = Put(wire, o, Sealed(ses[o], HsPay(Kxm(o, Head(ses[o].chan).from))))
    BY <1>3 DEF ReadHello, FailHandshake
  <2>3. Sends(wire, wire')
    BY <2>2, QuietRecords DEF Sends
  <2> QED BY <2>1, <2>3, GoroutineOrder
<1>4. CASE ReadKxm(o)
  <2>1. UNCHANGED <<recovery, rl, wm, sent>>
    BY <1>4 DEF ReadKxm
  <2>2. wire' = wire \/ wire' = Put(wire, o, Sealed(ses[o], CcsPay))
    BY <1>4 DEF ReadKxm, FailHandshake
  <2>3. Sends(wire, wire')
    BY <2>2, QuietRecords DEF Sends
  <2> QED BY <2>1, <2>3, GoroutineOrder
<1>5. CASE SwitchOut(o)
  <2>1. UNCHANGED <<recovery, rl, wm, sent>>
    BY <1>5 DEF SwitchOut
  <2>2. \E s, msg : wire' = Put(wire, o, Sealed(s, HsPay(msg)))
    BY <1>5 DEF SwitchOut
  <2>3. Sends(wire, wire')
    BY <2>2, QuietRecords DEF Sends
  <2> QED BY <2>1, <2>3, GoroutineOrder
<1>6. CASE ReadFinished(o)
  <2>1. UNCHANGED <<recovery, rl, wm, sent>> /\ wire' = wire
    BY <1>6 DEF ReadFinished, FailHandshake
  <2> QED BY <2>1, GoroutineOrder DEF Sends
<1> QED BY <1>1, <1>2, <1>3, <1>4, <1>5, <1>6 DEF HandshakeStep

\* requestLostAfterHandshake sends lost_request frames only.
LEMMA RequestOrder ==
    ASSUME IInv, OrderInv, NEW o \in Objects, RequestStep(o) PROVE OrderInv'
<1>1. UNCHANGED <<recovery, rl, wm, sent>>
  BY DEF RequestStep, RequestLost, RequestLostToken, RequestLostGiveUp
<1>2. wire' = wire \/ \E s, ref : wire' = Put(wire, o, Sealed(s, CtlPay("lost_request", ref)))
  BY DEF RequestStep, RequestLost, RequestLostToken, RequestLostGiveUp, AskFor
<1>3. Sends(wire, wire')
  BY <1>2, QuietRecords DEF Sends
<1> QED BY <1>1, <1>3, GoroutineOrder

\* The first record of a queue, and what the server tells of it.
LEMMA HeadRef ==
    ASSUME NEW w \in Seq(Records), w # <<>>
    PROVE  /\ Head(w) \in Records
           /\ RefOf(Head(w)) \in Refs
           /\ (IF RefOf(Head(w)).app THEN {RefOf(Head(w)).n} ELSE {}) = HeadNum(w)
           /\ RefOf(Head(w)).app => RefOf(Head(w)).n \in WireNums(w)
<1> DEFINE rec == Head(w)
<1>1. rec \in Records
  OBVIOUS
<1>2. IsApp(rec) => rec.pay.n \in WireNums(w)
  BY FewerTail
<1>3. HeadNum(w) = IF IsApp(rec) THEN {rec.pay.n} ELSE {}
  BY DEF HeadNum
<1> HIDE DEF rec
<1>4. rec.seq \in Nat /\ (IsApp(rec) => rec.pay.n \in Nat)
  BY <1>1, PayloadFields DEF Records, IsApp
<1>5. CASE IsApp(rec)
  <2>1. RefOf(rec) = [app |-> TRUE, n |-> rec.pay.n]
    BY <1>5 DEF RefOf, Ref, IsApp
  <2>2. RefOf(rec).app /\ RefOf(rec).n = rec.pay.n /\ RefOf(rec) \in Refs
    BY <1>4, <1>5, <2>1 DEF Refs
  <2> QED BY <1>1, <1>2, <1>3, <1>5, <2>2 DEF rec
<1>6. CASE ~IsApp(rec)
  <2>1. RefOf(rec) = [app |-> FALSE, n |-> rec.seq]
    BY <1>6 DEF RefOf, Ref, IsApp
  <2>2. ~RefOf(rec).app /\ RefOf(rec) \in Refs
    BY <1>4, <2>1 DEF Refs
  <2> QED BY <1>1, <1>2, <1>3, <1>6, <2>2 DEF rec
<1> QED BY <1>5, <1>6

\* What readRecord and handleReadBoundMsg come to, as far as order goes.
LEMMA ReceiveCases ==
    ASSUME IInv, NEW h \in Hosts, NEW p \in Hosts, Receive(h, p),
           NEW o, o = Entry(h, p), NEW rec, rec = Head(wire[p][h]), NEW w, w = Pop(wire, h, p)
    PROVE  /\ h # p /\ rl[h].pc = "idle" /\ wire[p][h] # <<>> /\ UNCHANGED <<wm, sent>>
           /\ o \in Objects /\ o[2] = p
           /\ \/ /\ UNCHANGED recovery
                 /\ Sends(w, wire')
                 /\ \E r : r.pc # "await" /\ rl' = [rl EXCEPT ![h] = r]
              \/ /\ UNCHANGED recovery
                 /\ wire' = w
                 /\ rl' = [rl EXCEPT ![h] = RlAt("await", o, rec)]
              \/ /\ \E s : MarkLost(h, p, o, s, RefOf(rec))
                 /\ wire' = w /\ rl' = rl
              \/ /\ IsApp(rec) /\ DeliverApplication(h, p, rec.pay.n)
                 /\ wire' = w /\ rl' = rl
              \/ /\ rec.pay.typ = "ctl" /\ \E s : HandleControl(h, p, o, s, rec.pay, w)
                 /\ rl' = rl
<1>1. /\ h # p /\ rl[h].pc = "idle" /\ wire[p][h] # <<>> /\ UNCHANGED <<wm, sent>>
      /\ o \in Objects /\ o[1] = h /\ o[2] = p
  BY EntryOK DEF Receive
<1>2. rl' = rl => rl' = [rl EXCEPT ![h] = rl[h]]
  BY DEF IInv, TypeOK
<1>3. /\ \A x, y : RlAt("delete", x, y).pc # "await" /\ RlAt("store", x, y).pc # "await"
                   /\ RlAt("ccs", x, y).pc # "await"
  BY DEF RlAt
<1>4. ASSUME NEW s, RlTerminate(h, o, s, w)
      PROVE  Sends(w, wire') /\ \E r : r.pc # "await" /\ rl' = [rl EXCEPT ![h] = r]
  BY <1>1, <1>3, <1>4, QuietRecords DEF RlTerminate, Sends
<1>5. ASSUME NEW s, Dispatch(h, p, o, s, rec, w)
      PROVE  \/ /\ UNCHANGED recovery
                /\ Sends(w, wire')
                /\ \E r : r.pc # "await" /\ rl' = [rl EXCEPT ![h] = r]
             \/ /\ UNCHANGED recovery
                /\ wire' = w
                /\ rl' = [rl EXCEPT ![h] = RlAt("await", o, rec)]
             \/ /\ IsApp(rec) /\ DeliverApplication(h, p, rec.pay.n)
                /\ wire' = w /\ rl' = rl
             \/ /\ rec.pay.typ = "ctl" /\ \E t : HandleControl(h, p, o, t, rec.pay, w)
                /\ rl' = rl
  <2>1. \/ UNCHANGED recovery /\ wire' = w /\ rl' = rl
        \/ UNCHANGED recovery /\ wire' = w /\ rl' = [rl EXCEPT ![h] = RlAt("delete", o, Nil)]
        \/ UNCHANGED recovery /\ wire' = w /\ rl' = [rl EXCEPT ![h] = RlAt("ccs", o, Nil)]
        \/ UNCHANGED recovery /\ RlTerminate(h, o, s, w)
        \/ UNCHANGED recovery /\ wire' = w /\ rl' = [rl EXCEPT ![h] = RlAt("await", o, rec)]
        \/ IsApp(rec) /\ DeliverApplication(h, p, rec.pay.n) /\ wire' = w /\ rl' = rl
        \/ rec.pay.typ = "ctl" /\ HandleControl(h, p, o, s, rec.pay, w) /\ rl' = rl
    BY <1>5 DEF Dispatch, IsApp
  <2>2. wire' = w => Sends(w, wire')
    BY DEF Sends
  <2> QED BY <1>1, <1>2, <1>3, <1>4, <2>1, <2>2
<1>6. \/ /\ UNCHANGED recovery
         /\ Sends(w, wire')
         /\ \E r : r.pc # "await" /\ rl' = [rl EXCEPT ![h] = r]
      \/ /\ \E s : MarkLost(h, p, o, s, RefOf(rec))
         /\ wire' = w /\ rl' = rl
      \/ \E s : Dispatch(h, p, o, s, rec, w)
  <2>1. \/ /\ UNCHANGED recovery /\ wire' = w
           /\ rl' = [rl EXCEPT ![h] = RlAt("store", o, rec)]
        \/ UNCHANGED recovery /\ \E s : RlTerminate(h, o, s, w)
        \/ /\ \E s : MarkLost(h, p, o, s, RefOf(rec))
           /\ wire' = w /\ rl' = rl
        \/ \E s : Dispatch(h, p, o, s, rec, w)
    BY DEF Receive
  <2>2. wire' = w => Sends(w, wire')
    BY DEF Sends
  <2> QED BY <1>3, <1>4, <2>1, <2>2
<1> QED BY <1>1, <1>5, <1>6

\* handleSecureControl answers, or delivers what was retransmitted.
LEMMA ControlCases ==
    ASSUME NEW h \in Hosts, NEW p \in Hosts, NEW o \in Objects, NEW s, NEW pay, NEW w,
           HandleControl(h, p, o, s, pay, w), pay.c = "retransmit" => pay.ref.app
    PROVE  \/ UNCHANGED recovery /\ Sends(w, wire')
           \/ pay.ref.app /\ HandleRetransmit(h, p, pay.ref) /\ wire' = w
<1>1. \/ UNCHANGED recovery /\ wire' = w
      \/ UNCHANGED recovery /\ pay.ref.app /\ wire' = Put(w, o, Sealed(s, CtlPay("retransmit", pay.ref)))
      \/ pay.c = "retransmit" /\ HandleRetransmit(h, p, pay.ref) /\ wire' = w
  BY DEF HandleControl
<1> QED BY <1>1, QuietRecords DEF Sends

\* TakeHead where the record is kept and the buffer is left alone.
LEMMA TakeFirst ==
    ASSUME IInv, OrderInv, NEW h \in Hosts, NEW p \in Hosts, rl[h].pc = "idle", wire[p][h] # <<>>,
           UNCHANGED <<wm, sent>>, Sends(Pop(wire, h, p), wire'), BufferStep(h, p, {}),
           NEW r, rl' = [rl EXCEPT ![h] = r], InHand(r, p) \subseteq HeadNum(wire[p][h]),
           \A b \in Hosts : b # p => InHand(r, b) = {},
           r.pc = "await" => r.rec = Head(wire[p][h])
    PROVE  OrderInv' /\ Reads(h, p)
<1> DEFINE X == {}
<1>1. BufferStep(h, p, X) /\ X \subseteq HeadNum(wire[p][h]) /\ X = {}
  OBVIOUS
<1> HIDE DEF X
<1> QED BY <1>1, TakeHead

\* The readLoop reads a record.
LEMMA ReceiveOrder ==
    ASSUME IInv, OrderInv, NEW h \in Hosts, NEW p \in Hosts, Receive(h, p) PROVE OrderInv' /\ Reads(h, p)
<1> DEFINE o == Entry(h, p)
<1> DEFINE q == wire[p][h]
<1> DEFINE rec == Head(q)
<1> DEFINE w == Pop(wire, h, p)
<1>1. /\ rl[h].pc = "idle" /\ q # <<>> /\ UNCHANGED <<wm, sent>>
      /\ o \in Objects /\ o[2] = p
  BY ReceiveCases
<1>11. \/ /\ UNCHANGED recovery
          /\ Sends(w, wire')
          /\ \E r : r.pc # "await" /\ rl' = [rl EXCEPT ![h] = r]
       \/ /\ UNCHANGED recovery
          /\ wire' = w
          /\ rl' = [rl EXCEPT ![h] = RlAt("await", o, rec)]
       \/ /\ \E s : MarkLost(h, p, o, s, RefOf(rec))
          /\ wire' = w /\ rl' = rl
       \/ /\ IsApp(rec) /\ DeliverApplication(h, p, rec.pay.n)
          /\ wire' = w /\ rl' = rl
       \/ /\ rec.pay.typ = "ctl" /\ \E s : HandleControl(h, p, o, s, rec.pay, w)
          /\ rl' = rl
  BY ReceiveCases
<1>2. q \in Seq(Records) /\ RetransmitsApp(rec)
  BY <1>1, WireTypes, PopQuiet
<1>3. \A r : r.pc # "await" => \A b : InHand(r, b) = {}
  BY DEF InHand
<1>4. rl' = rl => rl' = [rl EXCEPT ![h] = rl[h]] /\ rl[h].pc # "await"
  BY <1>1 DEF IInv, TypeOK
<1>5. wire' = w => Sends(w, wire')
  BY DEF Sends
<1> HIDE DEF o, w, rec
<1>6. CASE /\ UNCHANGED recovery
           /\ Sends(w, wire')
           /\ \E r : r.pc # "await" /\ rl' = [rl EXCEPT ![h] = r]
  <2>1. PICK r : r.pc # "await" /\ rl' = [rl EXCEPT ![h] = r]
    BY <1>6
  <2>2. BufferStep(h, p, {})
    BY <1>6, BufferUnchanged
  <2>3. \A b : InHand(r, b) = {}
    BY <1>3, <2>1
  <2>4. Sends(w, wire') /\ InHand(r, p) \subseteq HeadNum(q)
    BY <1>6, <2>3
  <2> QED BY <1>1, <2>1, <2>2, <2>3, <2>4, TakeHead DEF w
<1>7. CASE /\ UNCHANGED recovery
           /\ wire' = w
           /\ rl' = [rl EXCEPT ![h] = RlAt("await", o, rec)]
  <2> DEFINE r == RlAt("await", o, rec)
  <2>1. r.pc = "await" /\ r.o = o /\ r.rec = rec
    BY DEF RlAt
  <2> HIDE DEF r
  <2>2. BufferStep(h, p, {})
    BY <1>7, BufferUnchanged
  <2>3. InHand(r, p) \subseteq HeadNum(q) /\ \A b \in Hosts : b # p => InHand(r, b) = {}
    BY <1>1, <2>1 DEF InHand, HeadNum, rec
  <2>4. Sends(w, wire') /\ rl' = [rl EXCEPT ![h] = r]
    BY <1>5, <1>7 DEF r
  <2>5. rl[h].pc = "idle" /\ wire[p][h] # <<>> /\ UNCHANGED <<wm, sent>>
    BY <1>1
  <2>6. Sends(Pop(wire, h, p), wire') /\ rl' = [rl EXCEPT ![h] = r]
    BY <2>4 DEF w
  <2>7. InHand(r, p) \subseteq HeadNum(wire[p][h]) /\ \A b \in Hosts : b # p => InHand(r, b) = {}
    BY <2>3
  <2>8. r.pc = "await" => r.rec = Head(wire[p][h])
    BY <2>1 DEF rec
  <2> QED BY <2>2, <2>5, <2>6, <2>7, <2>8, TakeFirst
<1>8. CASE /\ \E s : MarkLost(h, p, o, s, RefOf(rec))
           /\ wire' = w /\ rl' = rl
  <2>1. PICK s : MarkLost(h, p, o, s, RefOf(rec))
    BY <1>8
  <2> DEFINE ref == RefOf(rec)
  <2> DEFINE X == IF ref.app THEN {ref.n} ELSE {}
  <2>2. ref \in Refs /\ X = HeadNum(q) /\ (ref.app => ref.n \in WireNums(q))
    BY <1>1, <1>2, HeadRef DEF rec
  <2>3. BufferStep(h, p, X)
    BY <2>1, <2>2, MarkLostStep
  <2> HIDE DEF X
  <2>4. rl[h].pc # "await" /\ \A b : InHand(rl[h], b) = {}
    BY <1>1, <1>3
  <2> QED BY <1>1, <1>4, <1>5, <1>8, <2>2, <2>3, <2>4, TakeHead DEF w
<1>9. CASE /\ IsApp(rec) /\ DeliverApplication(h, p, rec.pay.n)
           /\ wire' = w /\ rl' = rl
  <2> DEFINE n == rec.pay.n
  <2>1. HeadNum(q) = {n} /\ n \in WireNums(q)
    BY <1>1, <1>2, <1>9, FewerTail DEF HeadNum, rec
  <2>2. n \in Nat
    BY <2>1, ConversationTypes
  <2>3. DeliverApplication(h, p, n)
    BY <1>9
  <2> HIDE DEF n
  <2>4. BufferStep(h, p, {n})
    BY <2>1, <2>2, <2>3, DeliverStep
  <2>5. rl[h].pc # "await" /\ \A b : InHand(rl[h], b) = {}
    BY <1>1, <1>3
  <2> QED BY <1>1, <1>4, <1>5, <1>9, <2>1, <2>4, <2>5, TakeHead DEF w
<1>10. CASE /\ rec.pay.typ = "ctl" /\ \E s : HandleControl(h, p, o, s, rec.pay, w)
            /\ rl' = rl
  <2>1. PICK s : HandleControl(h, p, o, s, rec.pay, w)
    BY <1>10
  <2>2. rec.pay.c = "retransmit" => rec.pay.ref.app
    BY <1>2, <1>10 DEF RetransmitsApp
  <2>3. \/ UNCHANGED recovery /\ Sends(w, wire')
        \/ rec.pay.ref.app /\ HandleRetransmit(h, p, rec.pay.ref) /\ wire' = w
    BY <1>1, <2>1, <2>2, ControlCases
  <2>4. BufferStep(h, p, {}) /\ Sends(w, wire')
    BY <1>5, <2>3, BufferUnchanged, RetransmitStep
  <2>5. rl[h].pc # "await" /\ \A b : InHand(rl[h], b) = {}
    BY <1>1, <1>3
  <2> QED BY <1>1, <1>4, <1>10, <2>4, <2>5, TakeHead DEF w
<1> QED BY <1>6, <1>7, <1>8, <1>9, <1>10, <1>11

\* The wait of the readLoop ends.
LEMMA RlAwaitOrder ==
    ASSUME IInv, OrderInv, NEW h \in Hosts, RlAwait(h) PROVE OrderInv' /\ Reads(h, rl[h].o[2])
<1> DEFINE o == rl[h].o
<1> DEFINE p == o[2]
<1> DEFINE rec == rl[h].rec
<1>1. /\ rl[h].pc = "await" /\ o \in Objects /\ p \in Hosts /\ RetransmitsApp(rec)
      /\ rl' = [rl EXCEPT ![h] = RlIdle] /\ UNCHANGED <<wm, sent>>
  <2>1. RlOK(h, rl[h]) /\ rl[h].pc = "await"
    BY DEF RlAwait, IInv, ReadLoopsOK
  <2>2. o \in Objects
    BY <2>1 DEF RlOK
  <2> QED BY <2>1, <2>2, ObjectFields DEF RlAwait, OrderInv, HandAnswers
<1>2. RlIdle.pc # "await" /\ \A b : InHand(RlIdle, b) = {}
  BY DEF InHand, RlIdle, RlAt
<1>3. \/ IsApp(rec) /\ DeliverApplication(h, p, rec.pay.n) /\ wire' = wire
      \/ rec.pay.typ = "ctl" /\ \E s : HandleControl(h, p, o, s, rec.pay, wire)
      \/ UNCHANGED recovery /\ wire' = wire
  BY DEF RlAwait, IsApp
<1> HIDE DEF o, p, rec
<1>4. CASE UNCHANGED recovery /\ Sends(wire, wire')
  <2>1. OrderInv'
    BY <1>1, <1>2, <1>4, RlQuietOrder
  <2>2. BufferStep(h, p, {})
    BY <1>1, <1>4, BufferUnchanged
  <2> QED BY <1>1, <2>1, <2>2, BufferReads DEF o, p
<1>5. CASE IsApp(rec) /\ DeliverApplication(h, p, rec.pay.n) /\ wire' = wire
  <2> DEFINE n == rec.pay.n
  <2>1. InHand(rl[h], p) = {n}
    BY <1>1, <1>5 DEF InHand, o, p, rec
  <2>2. n \in Nat /\ AllBelow({n}, WireNums(wire[p][h]))
    BY <1>1, <2>1, ConversationTypes DEF Conversation, ConversationOK
  <2>3. DeliverApplication(h, p, n)
    BY <1>5
  <2> HIDE DEF n
  <2>4. BufferStep(h, p, {n})
    BY <1>1, <2>1, <2>2, <2>3, DeliverStep
  <2>5. WireAnswers(wire') /\ \A a, b \in Hosts : Fewer(wire'[a][b], wire[a][b])
    BY <1>5, WireTypes DEF Fewer
  <2>6. AllBelow({n}, InHand(RlIdle, p) \union WireNums(wire'[p][h]))
        /\ AllBelow(InHand(RlIdle, p), WireNums(wire'[p][h]))
    BY <1>2, <1>5, <2>2 DEF AllBelow
  <2> QED BY <1>1, <1>2, <2>1, <2>4, <2>5, <2>6, TakeStep DEF o, p
<1>6. CASE rec.pay.typ = "ctl" /\ \E s : HandleControl(h, p, o, s, rec.pay, wire)
  <2>1. PICK s : HandleControl(h, p, o, s, rec.pay, wire)
    BY <1>6
  <2>2. rec.pay.c = "retransmit" => rec.pay.ref.app
    BY <1>1, <1>6 DEF RetransmitsApp
  <2>3. \/ UNCHANGED recovery /\ Sends(wire, wire')
        \/ rec.pay.ref.app /\ HandleRetransmit(h, p, rec.pay.ref) /\ wire' = wire
    BY <1>1, <2>1, <2>2, ControlCases
  <2>4. ASSUME rec.pay.ref.app, HandleRetransmit(h, p, rec.pay.ref), wire' = wire PROVE OrderInv' /\ Reads(h, p)
    <3>1. BufferStep(h, p, {})
      BY <1>1, <2>4, RetransmitStep
    <3>2. WireAnswers(wire') /\ \A a, b \in Hosts : Fewer(wire'[a][b], wire[a][b])
      BY <2>4, WireTypes DEF Fewer
    <3>3. AllBelow({}, InHand(RlIdle, p) \union WireNums(wire'[p][h]))
          /\ AllBelow(InHand(RlIdle, p), WireNums(wire'[p][h]))
      BY <1>2 DEF AllBelow
    <3> QED BY <1>1, <1>2, <3>1, <3>2, <3>3, TakeStep
  <2> QED BY <1>4, <2>3, <2>4 DEF o, p
<1> QED BY <1>3, <1>4, <1>5, <1>6 DEF Sends

\* The other steps of the readLoop have no message in hand.
LEMMA RlOtherOrder ==
    ASSUME IInv, OrderInv, NEW h \in Hosts,
           RlStore(h) \/ RlDelete(h) \/ RlChangeCipherSpec(h) \/ RlAwaitTimeout(h)
    PROVE  OrderInv'
<1>1. UNCHANGED <<recovery, wm, sent>>
  BY DEF RlStore, RlDelete, RlChangeCipherSpec, RlAwaitTimeout
<1>2. \/ wire' = wire /\ rl' = [rl EXCEPT ![h] = RlIdle]
      \/ rl[h].pc # "idle" /\ \E s : RlTerminate(h, rl[h].o, s, wire)
  BY DEF RlStore, RlDelete, RlChangeCipherSpec, RlAwaitTimeout
<1>3. RlIdle.pc # "await" /\ \A x, y : RlAt("delete", x, y).pc # "await"
  BY DEF RlIdle, RlAt
<1>4. rl[h].pc # "idle" => rl[h].o \in Objects
  BY DEF IInv, ReadLoopsOK, RlOK
<1>5. Sends(wire, wire') /\ \E r : r.pc # "await" /\ rl' = [rl EXCEPT ![h] = r]
  BY <1>2, <1>3, <1>4, QuietRecords DEF RlTerminate, Sends
<1> QED BY <1>1, <1>5, RlQuietOrder

\* expireLostInbound.
LEMMA ExpireLostOrder ==
    ASSUME IInv, OrderInv, NEW h \in Hosts, NEW p \in Hosts, NEW ref \in lost[h][p], ExpireLost(h, p, ref)
    PROVE  OrderInv' /\ Reads(h, p)
<1>1. BufferStep(h, p, {}) /\ UNCHANGED <<wm, sent, rl, wire>>
  BY ExpireStep DEF ExpireLost
<1>2. \A a, b \in Hosts : ~(a = h /\ b = p) => Conversation(a, b)'
  <2>1. \A a, b \in Hosts : ~(a = h /\ b = p) => QuietConv(a, b)
    BY <1>1, NextNoSame DEF QuietConv, BufferStep, Fewer
  <2> QED BY <2>1, QuietConvOK
<1>3. Conversation(h, p)'
  <2> DEFINE ls == lost[h][p]
  <2> DEFINE ps == pending[h][p]
  <2> DEFINE ds == delivered[h][p]
  <2> DEFINE ls2 == lost'[h][p]
  <2> DEFINE ps2 == pending'[h][p]
  <2> DEFINE ds2 == delivered'[h][p]
  <2> DEFINE hd == InHand(rl[h], p)
  <2> DEFINE w == wire[p][h]
  <2> DEFINE k == NextNo(p, h)
  <2>1. /\ ConversationOK(ls, ps, ds, hd, w, k)
        /\ k \in Nat /\ Known(ls, ps, ds) \union hd \union WireNums(w) \subseteq Nat
    BY ConversationTypes DEF Conversation
  <2>2. /\ BufferOK(ls2, ps2, ds2) /\ Known(ls2, ps2, ds2) \subseteq Known(ls, ps, ds)
    BY <1>1 DEF BufferStep
  <2>3. Conversation(h, p)' <=> ConversationOK(ls2, ps2, ds2, hd, w, k)
    BY <1>1 DEF Conversation, NextNo
  <2> HIDE DEF ls, ps, ds, ls2, ps2, ds2, hd, w, k
  <2>4. Fewer(w, w) /\ AllBelow({}, hd \union WireNums(w)) /\ AllBelow(hd, WireNums(w)) /\ k <= k
    BY <2>1 DEF ConversationOK, Fewer, AllBelow
  <2>5. ConversationOK(ls2, ps2, ds2, hd, w, k)
    BY <2>1, <2>2, <2>4, MoveOK
  <2> QED BY <2>3, <2>5
<1>4. delivered' \in [Hosts -> [Hosts -> Seq(Nat)]] /\ WireAnswers(wire') /\ HandAnswers(rl')
  BY <1>1 DEF BufferStep, OrderInv
<1> QED BY <1>1, <1>2, <1>3, <1>4, BufferReads DEF OrderInv

\* A restart forgets the buffers of h and what its readLoop had in hand.
LEMMA RestartOrder ==
    ASSUME IInv, OrderInv, NEW h \in Hosts, Restart(h) PROVE OrderInv'
<1>1. /\ lost \in [Hosts -> [Hosts -> SUBSET Refs]] /\ pending \in [Hosts -> [Hosts -> SUBSET Nat]]
      /\ wm \in [Hosts -> [Hosts -> WmStates]] /\ rl \in [Hosts -> RlStates]
      /\ \A a, b \in Hosts : sent[a][b] \in Nat
  BY BoundsAssumption DEF IInv, TypeOK
<1>2. /\ wire' = wire /\ delivered' = delivered /\ sent' = sent
      /\ rl' = [rl EXCEPT ![h] = RlIdle]
      /\ wm' = [wm EXCEPT ![h] = [p \in Hosts |-> WmIdle]]
      /\ lost' = [lost EXCEPT ![h] = [p \in Hosts |-> {}]]
      /\ pending' = [pending EXCEPT ![h] = [p \in Hosts |-> {}]]
  BY DEF Restart
<1>3. rl'[h] = RlIdle /\ \A a \in Hosts : a # h => rl'[a] = rl[a]
  BY <1>1, <1>2
<1>4. RlIdle.pc # "await" /\ \A b : InHand(RlIdle, b) = {}
  BY DEF InHand, RlIdle, RlAt
<1>5. ASSUME NEW a \in Hosts, NEW b \in Hosts PROVE QuietConv(a, b)
  <2>1. \/ lost'[a][b] = lost[a][b] /\ pending'[a][b] = pending[a][b]
        \/ lost'[a][b] = {} /\ pending'[a][b] = {}
    BY <1>1, <1>2
  <2>2. InHand(rl'[a], b) \subseteq InHand(rl[a], b)
    BY <1>3, <1>4
  <2>3. NextNo(b, a)' \in Nat /\ NextNo(b, a) <= NextNo(b, a)'
    <3>1. wm'[b][a] = IF b = h THEN WmIdle ELSE wm[b][a]
      BY <1>1, <1>2
    <3>2. sent[b][a] \in Nat /\ sent'[b][a] = sent[b][a]
      BY <1>1, <1>2
    <3> QED BY <3>1, <3>2, WmIdleOK DEF NextNo
  <2> QED BY <1>2, <2>1, <2>2, <2>3 DEF QuietConv, Fewer
<1>6. WireAnswers(wire') /\ HandAnswers(rl')
  BY <1>2, <1>3, <1>4 DEF OrderInv, HandAnswers
<1> QED BY <1>2, <1>5, <1>6, QuietOrder

\* The relay drops a record.
LEMMA RelayDropOrder ==
    ASSUME IInv, OrderInv, NEW h \in Hosts, NEW p \in Hosts, RelayDrop(h, p) PROVE OrderInv'
<1>1. /\ wire[h][p] # <<>> /\ wire' = Pop(wire, p, h)
      /\ UNCHANGED <<recovery, rl, wm, sent>>
  BY DEF RelayDrop, Pop
<1>2. WireAnswers(wire') /\ \A a, b \in Hosts : Fewer(wire'[a][b], wire[a][b])
  BY <1>1, WireTypes, PopQuiet
<1>3. \A a, b \in Hosts : QuietConv(a, b)
  BY <1>1, <1>2, NextNoSame DEF QuietConv, recovery
<1>4. HandAnswers(rl') /\ delivered' = delivered
  BY <1>1 DEF OrderInv, recovery
<1> QED BY <1>2, <1>3, <1>4, QuietOrder

\* The invariant holds before anything is sent.
LEMMA InitOrder ==
    ASSUME Init PROVE OrderInv
<1>1. \A a, b \in Hosts : /\ lost[a][b] = {} /\ pending[a][b] = {} /\ delivered[a][b] = <<>>
                          /\ wire[b][a] = <<>> /\ rl[a] = RlIdle
                          /\ wm[b][a] = WmIdle /\ sent[b][a] = 0
  BY DEF Init
<1>2. /\ LostNums({}) = {} /\ Elems(<<>>) = {} /\ WireNums(<<>>) = {} /\ WireSorted(<<>>)
      /\ Increasing(<<>>) /\ RlIdle.pc = "idle" /\ \A b : InHand(RlIdle, b) = {}
  <2>1. LostNums({}) = {}
    BY DEF LostNums
  <2>2. Elems(<<>>) = {} /\ WireNums(<<>>) = {} /\ WireSorted(<<>>) /\ Increasing(<<>>)
    BY DEF Elems, WireNums, WireSorted, Increasing
  <2>3. RlIdle.pc = "idle" /\ \A b : InHand(RlIdle, b) = {}
    BY DEF InHand, RlIdle, RlAt
  <2> QED BY <2>1, <2>2, <2>3
<1>3. ASSUME NEW a \in Hosts, NEW b \in Hosts PROVE Conversation(a, b)
  <2>1. NextNo(b, a) = 1
    BY <1>1, WmIdleOK DEF NextNo
  <2>2. ConversationOK({}, {}, <<>>, {}, <<>>, 1)
    BY <1>2 DEF ConversationOK, BufferOK, AllBelow, Known, Held
  <2> QED BY <1>1, <1>2, <2>1, <2>2 DEF Conversation
<1>4. delivered \in [Hosts -> [Hosts -> Seq(Nat)]]
  BY DEF Init
<1>5. WireAnswers(wire) /\ HandAnswers(rl)
  <2>1. \A a, b \in Hosts : DOMAIN wire[a][b] = {}
    BY <1>1
  <2>2. \A a \in Hosts : rl[a].pc = "idle"
    BY <1>2 DEF Init
  <2> QED BY <2>1, <2>2 DEF WireAnswers, HandAnswers
<1> QED BY <1>3, <1>4, <1>5 DEF OrderInv

\* Every step keeps the order.
LEMMA NextOrder ==
    ASSUME IInv, OrderInv, [Next]_vars PROVE OrderInv'
<1>1. CASE UNCHANGED vars
  BY <1>1, GoroutineOrder DEF vars, recovery, Sends
<1>2. ASSUME NEW h \in Hosts, NEW p \in Hosts, WriteStart(h, p) \/ WriteStep(h, p)
      PROVE  OrderInv'
  <2>1. CASE WriteHandshake(h, p)
    <3>1. wm[h][p].o \in Objects
      BY <2>1 DEF WriteHandshake, IInv, WritersOK, Created
    <3> QED BY <2>1, <3>1, StartOrder DEF WriteHandshake
  <2> QED BY <1>2, <2>1, WriteOrder, WriteSendOrder DEF WriteStep
<1>3. ASSUME NEW o \in Objects, HandshakeStep(o) \/ RequestStep(o) PROVE OrderInv'
  BY <1>3, HandshakeOrder, RequestOrder
<1>4. ASSUME NEW h \in Hosts, ReadLoopStep(h) \/ RlAwaitTimeout(h) \/ Restart(h) PROVE OrderInv'
  BY <1>4, ReceiveOrder, RlAwaitOrder, RlOtherOrder, RestartOrder DEF ReadLoopStep
<1>5. ASSUME NEW h \in Hosts, NEW p \in Hosts, NEW ref \in lost[h][p], ExpireLost(h, p, ref)
      PROVE  OrderInv'
  BY <1>5, ExpireLostOrder
<1>6. ASSUME NEW h \in Hosts, NEW p \in Hosts, RelayDrop(h, p) PROVE OrderInv'
  BY <1>6, RelayDropOrder
<1> QED BY <1>1, <1>2, <1>3, <1>4, <1>5, <1>6 DEF Next

\* ReadMessage returns the messages of a peer in the order they were written,
\* each at most once.
THEOREM InOrder == Spec => []OrderedDelivery
<1>1. Init => OrderInv
  BY InitOrder
<1>2. IInv /\ OrderInv /\ [Next]_vars => OrderInv'
  BY NextOrder
<1>3. OrderInv => OrderedDelivery
  BY DEF OrderInv, Conversation, ConversationOK, BufferOK, Increasing, OrderedDelivery
<1> QED BY <1>1, <1>2, <1>3, Invariance, PTL DEF Spec

(***************************************************************************)
(* The ordered channel.                                                    *)
(***************************************************************************)

\* A step that gives the application of h messages of p is a Read: what it has
\* then is in order, and p wrote it.
LEMMA ReadsRead ==
    ASSUME IInv, IInv', OrderInv, OrderInv', NEW h \in Hosts, NEW p \in Hosts, Reads(h, p), sent' = sent
    PROVE  Channel!Read(h, p)
<1> DEFINE new == delivered'[h][p]
<1>1. new \in Seq(Nat) /\ Channel!Extends(new, delivered[h][p])
  BY DEF Reads
<1>2. Increasing(new) /\ 0 \notin Elems(new) /\ \A x \in Elems(new) : x < NextNo(p, h)'
  BY DEF OrderInv, Conversation, ConversationOK, BufferOK, AllBelow, Known
<1>3. sent'[p][h] \in Nat /\ (NextNo(p, h)' = sent[p][h] \/ NextNo(p, h)' = sent[p][h] + 1)
  BY BoundsAssumption DEF IInv, TypeOK, NextNo
<1>4. delivered' = [delivered EXCEPT ![h][p] = new]
  BY DEF Reads, OrderInv
<1> HIDE DEF new
<1>5. ASSUME NEW i \in DOMAIN new PROVE new[i] \in 1 .. sent[p][h]
  <2>1. new[i] \in Elems(new) /\ new[i] \in Nat
    BY <1>1 DEF Elems
  <2>2. new[i] # 0 /\ new[i] < NextNo(p, h)'
    BY <1>2, <2>1
  <2> QED BY <1>3, <2>1, <2>2
<1>6. Channel!Readable(p, h, new)
  BY <1>2, <1>5 DEF Channel!Readable, Increasing
<1> QED BY <1>1, <1>4, <1>6 DEF Channel!Read, new

\* WriteMessage numbers a message, and hands nothing over.
LEMMA StepsWrite ==
    ASSUME NEW h \in Hosts, NEW p \in Hosts, WriteStart(h, p) \/ WriteStep(h, p)
    PROVE  Channel!Write(h, p) \/ UNCHANGED Channel!vars
<1>1. WriteStart(h, p) => Channel!Write(h, p)
  BY DEF WriteStart, recovery, Channel!Write
<1>2. WriteStep(h, p) => UNCHANGED <<sent, delivered>>
  BY DEF WriteStep, WriteReady, WriteHandshake, StartHandshake, WriteSend, WriteTerminate,
         WriteDelete, recovery
<1> QED BY <1>1, <1>2 DEF Channel!vars

\* What the goroutines of a session do is no concern of the applications, ...
LEMMA StepsInside ==
    ASSUME NEW o \in Objects, HandshakeStep(o) \/ RequestStep(o) PROVE UNCHANGED <<sent, delivered>>
<1>1. StartHandshake(o) \/ HandshakeClosed(o) => UNCHANGED <<sent, delivered>>
  BY DEF StartHandshake, HandshakeClosed, recovery
<1>2. ReadHello(o) \/ ReadKxm(o) => UNCHANGED <<sent, delivered>>
  BY DEF ReadHello, ReadKxm, recovery
<1>3. SwitchOut(o) \/ ReadFinished(o) => UNCHANGED <<sent, delivered>>
  BY DEF SwitchOut, ReadFinished, recovery
<1>4. RequestStep(o) => UNCHANGED <<sent, delivered>>
  BY DEF RequestStep, RequestLost, RequestLostToken, RequestLostGiveUp, recovery
<1> QED BY <1>1, <1>2, <1>3, <1>4 DEF HandshakeStep, PassiveHandshake

\* ... nor are restarts, losses and what a readLoop does between two messages.
LEMMA StepsAround ==
    ASSUME NEW h \in Hosts,
           \/ RlStore(h) \/ RlDelete(h) \/ RlChangeCipherSpec(h) \/ RlAwaitTimeout(h) \/ Restart(h)
           \/ \E p \in Hosts : RelayDrop(h, p)
    PROVE  UNCHANGED <<sent, delivered>>
BY DEF RlStore, RlDelete, RlChangeCipherSpec, RlAwaitTimeout, Restart, RelayDrop, recovery

\* The session layer implements the ordered channel.
THEOREM ChannelRefinement == Spec => ImplementsOrderedChannel
<1>1. Init => Channel!Init
  BY DEF Init, Channel!Init
<1>2. IInv /\ IInv' /\ OrderInv /\ OrderInv' /\ [Next]_vars => [Channel!Next]_(Channel!vars)
  <2> SUFFICES ASSUME IInv, IInv', OrderInv, OrderInv', [Next]_vars
               PROVE  Channel!Next \/ UNCHANGED Channel!vars
    OBVIOUS
  <2>1. UNCHANGED <<sent, delivered>> => UNCHANGED Channel!vars
    BY DEF Channel!vars
  <2>2. \A h, p \in Hosts : Channel!Write(h, p) \/ Channel!Read(h, p) => Channel!Next
    BY DEF Channel!Next
  <2>3. CASE UNCHANGED vars
    BY <2>1, <2>3 DEF vars
  <2>4. ASSUME NEW h \in Hosts, NEW p \in Hosts, WriteStart(h, p) \/ WriteStep(h, p)
        PROVE  Channel!Next \/ UNCHANGED Channel!vars
    BY <2>2, <2>4, StepsWrite
  <2>5. ASSUME NEW o \in Objects, HandshakeStep(o) \/ RequestStep(o) PROVE UNCHANGED Channel!vars
    BY <2>1, <2>5, StepsInside
  <2>6. ASSUME NEW h \in Hosts, NEW p \in Hosts, Receive(h, p) PROVE Channel!Next
    <3>1. Reads(h, p) /\ sent' = sent
      BY <2>6, ReceiveOrder DEF Receive
    <3> QED BY <2>2, <3>1, ReadsRead
  <2>7. ASSUME NEW h \in Hosts, RlAwait(h) PROVE Channel!Next
    <3> DEFINE p == rl[h].o[2]
    <3>1. Reads(h, p) /\ sent' = sent
      BY <2>7, RlAwaitOrder DEF RlAwait
    <3>2. p \in Hosts
      BY <2>7, ObjectFields DEF RlAwait, IInv, ReadLoopsOK, RlOK
    <3> HIDE DEF p
    <3> QED BY <2>2, <3>1, <3>2, ReadsRead
  <2>8. ASSUME NEW h \in Hosts, NEW p \in Hosts, NEW ref \in lost[h][p], ExpireLost(h, p, ref)
        PROVE  Channel!Next
    <3>1. Reads(h, p) /\ sent' = sent
      BY <2>8, ExpireLostOrder DEF ExpireLost
    <3> QED BY <2>2, <3>1, ReadsRead
  <2> QED BY <2>1, <2>3, <2>4, <2>5, <2>6, <2>7, <2>8, StepsAround DEF Next, ReadLoopStep
<1>3. Init => OrderInv
  BY InitOrder
<1>4. IInv /\ OrderInv /\ [Next]_vars => OrderInv'
  BY NextOrder
<1> QED BY <1>1, <1>2, <1>3, <1>4, Invariance, PTL DEF Spec, ImplementsOrderedChannel, Channel!Spec

=============================================================================
