---------------------------- MODULE OverlayProofs ----------------------------
(***************************************************************************)
(* The safety properties of Overlay, proved for every set of messages.     *)
(***************************************************************************)
EXTENDS Overlay, TLAPS

\* The server has no clear copy of a text or of a record of the overlay.
StoredSealed == \A m \in Text \cup Internal \cup Own : stored[m] # "clear"

IInv == TypeOK /\ StoredSealed /\ NoSealedShown /\ CacheExact /\ ShownWasDelivered

\* What a set of forms contains.
LEMMA AsMember ==
    ASSUME NEW f, NEW B, NEW m, NEW g
    PROVE  <<m, g>> \in As(f, B) <=> m \in B /\ g = f
    BY DEF As

\* Forms of messages are pairs of the type of shown.
LEMMA AsType ==
    ASSUME NEW f \in {"clear", "sealed"}, NEW B, B \subseteq Msgs
    PROVE  As(f, B) \subseteq Msgs \X {"clear", "sealed"}
    BY DEF As

\* Nothing is shown and nothing is stored at first.
LEMMA InitIInv == Init => IInv
BY KindsAssumption
DEF Init, IInv, TypeOK, StoredSealed, NoSealedShown, CacheExact, ShownWasDelivered, Keyed, Msgs

\* Sending a message keeps the invariant.
LEMMA SendKeeps ==
    ASSUME IInv, NEW m \in Msgs, Send(m)
    PROVE  IInv'
<1>1. WireForm(m) \in {"clear", "sealed"} /\ (m \in Text \cup Internal \cup Own => WireForm(m) = "sealed")
    BY DEF WireForm, ShouldSecureOutbound
<1>2. TypeOK'
    BY <1>1 DEF Send, IInv, TypeOK
<1>3. StoredSealed'
    BY <1>1 DEF Send, IInv, TypeOK, StoredSealed, Msgs
<1> QED
    BY <1>2, <1>3 DEF Send, IInv, NoSealedShown, CacheExact, ShownWasDelivered, Keyed

\* A frame that is passed on whole keeps the invariant: nothing in it is marked.
LEMMA BypassKeeps ==
    ASSUME IInv, NEW r \in BOOLEAN, NEW i \in BOOLEAN, NEW B \in SUBSET OnServer, Bypass(r, i, B)
    PROVE  IInv'
<1>1. B \subseteq Msgs /\ \A m \in B : stored[m] # "none"
    BY DEF OnServer
<1>2. CASE Marked(B) = {}
    <2>1. \A m \in B : m \notin Text
        BY <1>1, <1>2 DEF IInv, TypeOK, StoredSealed, Marked, Msgs
    <2>2. shown' = shown \/ shown' = shown \cup As("clear", B)
        BY <1>2 DEF Bypass
    <2>3. /\ As("clear", B) \subseteq Msgs \X {"clear", "sealed"}
          /\ \A m \in Msgs : <<m, "sealed">> \notin As("clear", B)
          /\ \A m \in Text : <<m, "clear">> \notin As("clear", B)
        BY <1>1, <2>1, AsMember, AsType
    <2>4. TypeOK'
        BY <1>1, <2>2, <2>3 DEF Bypass, IInv, TypeOK
    <2>5. NoSealedShown' /\ ShownWasDelivered'
        BY <2>2, <2>3 DEF Bypass, IInv, NoSealedShown, ShownWasDelivered
    <2> QED
        BY <2>4, <2>5 DEF Bypass, IInv, StoredSealed, CacheExact, Keyed
<1>3. CASE Marked(B) # {}
    <2>1. Verdict(r, i, B) # "bypass"
        BY <1>3 DEF Verdict
    <2>2. shown' = shown
        BY <2>1 DEF Bypass
    <2>3. TypeOK'
        BY <1>1, <2>2 DEF Bypass, IInv, TypeOK
    <2> QED
        BY <2>2, <2>3 DEF Bypass, IInv, StoredSealed, NoSealedShown, CacheExact, ShownWasDelivered, Keyed
<1> QED
    BY <1>2, <1>3

\* A realtime push keeps the invariant. A text delivered now cannot have been
\* synced after its delivery before: it was not pushed yet.
LEMMA RealtimeKeeps ==
    ASSUME IInv, NEW i \in BOOLEAN, NEW B \in SUBSET (OnServer \ pushed), NEW L \in SUBSET B,
           delivered \cup lost \subseteq pushed, Realtime(i, B, L)
    PROVE  IInv'
<1> DEFINE D == Readable(B) \ L
           S == (B \ Marked(B)) \cup D
<1>1. B \subseteq Msgs /\ \A m \in B : stored[m] # "none"
    BY DEF OnServer
<1>2. D \subseteq Text /\ D \cap delivered = {} /\ D \cap synced = {}
    BY DEF IInv, TypeOK, Marked, Readable
<1>3. \A m \in S : m \in Text => m \in D
    BY <1>1 DEF IInv, TypeOK, StoredSealed, Marked, Msgs, Readable
<1>4. /\ shown' = shown \cup As("clear", S) /\ delivered' = delivered \cup D
      /\ cache' = cache \cup Keyed(D) /\ lost' = lost \cup Keyed(L)
      /\ L \subseteq Text /\ pushed' = pushed \cup B /\ UNCHANGED <<stored, synced>>
    BY DEF Realtime, Remember, Readable
<1>5. S \subseteq Msgs
    BY <1>1, <1>2 DEF Msgs
<1> HIDE DEF D, S
<1>6. /\ As("clear", S) \subseteq Msgs \X {"clear", "sealed"}
      /\ \A m \in Msgs : <<m, "sealed">> \notin As("clear", S)
      /\ \A m \in Text : <<m, "clear">> \in As("clear", S) => m \in D
    BY <1>3, <1>5, AsMember, AsType
<1>7. TypeOK'
    BY <1>1, <1>2, <1>4, <1>6 DEF IInv, TypeOK, Keyed
<1>8. NoSealedShown' /\ ShownWasDelivered'
    BY <1>4, <1>6 DEF IInv, NoSealedShown, ShownWasDelivered
<1>9. CacheExact'
    BY <1>2, <1>4 DEF IInv, CacheExact, Keyed
<1> QED
    BY <1>4, <1>7, <1>8, <1>9 DEF IInv, StoredSealed

\* A sync keeps the invariant: it shows only clear copies and remembered ones.
LEMMA SyncKeeps ==
    ASSUME IInv, NEW B \in SUBSET OnServer, Sync(B)
    PROVE  IInv'
<1> DEFINE S == (B \ Marked(B)) \cup (B \cap cache)
<1>1. B \subseteq Msgs /\ \A m \in B : stored[m] # "none"
    BY DEF OnServer
<1>2. \A m \in B \cap Text : m \in Marked(B)
    BY <1>1 DEF IInv, TypeOK, StoredSealed, Marked, Msgs
<1>3. S \subseteq Msgs /\ \A m \in S : m \in Text => m \in delivered
    BY <1>1, <1>2 DEF IInv, TypeOK, CacheExact, Keyed
<1>4. /\ shown' = shown \cup As("clear", S) /\ cache' = cache \ Marked(B)
      /\ synced' = synced \cup (B \cap delivered) /\ UNCHANGED <<stored, pushed, lost, delivered>>
    BY DEF Sync, Sanitized, Take
<1>5. CacheExact'
    BY <1>2, <1>4 DEF IInv, TypeOK, CacheExact, Keyed, Marked
<1> HIDE DEF S
<1>6. /\ As("clear", S) \subseteq Msgs \X {"clear", "sealed"}
      /\ \A m \in Msgs : <<m, "sealed">> \notin As("clear", S)
      /\ \A m \in Text : <<m, "clear">> \in As("clear", S) => m \in delivered
    BY <1>3, AsMember, AsType
<1>7. TypeOK'
    BY <1>4, <1>6 DEF IInv, TypeOK
<1>8. NoSealedShown' /\ ShownWasDelivered'
    BY <1>4, <1>6 DEF IInv, NoSealedShown, ShownWasDelivered
<1> QED
    BY <1>4, <1>5, <1>7, <1>8 DEF IInv, StoredSealed

\* A retransmission or an expiry keeps the invariant.
LEMMA LostKeeps ==
    ASSUME IInv, NEW m \in Msgs, lost \cap delivered = {}, Retransmit(m) \/ Expire(m)
    PROVE  IInv'
<1>1. CASE Retransmit(m)
    <2>1. /\ m \in Text /\ m \notin delivered /\ m \notin synced
          /\ shown' = shown \cup As("clear", {m}) /\ lost' = lost \ {m}
          /\ delivered' = delivered \cup {m} /\ cache' = cache \cup Keyed({m})
          /\ UNCHANGED <<stored, pushed, synced>>
        BY <1>1 DEF Retransmit, Remember, IInv, TypeOK
    <2>2. /\ As("clear", {m}) \subseteq Msgs \X {"clear", "sealed"}
          /\ \A n \in Msgs : <<n, "sealed">> \notin As("clear", {m})
          /\ \A n \in Text : <<n, "clear">> \in As("clear", {m}) => n = m
        BY AsMember, AsType
    <2>3. TypeOK'
        BY <2>1, <2>2 DEF IInv, TypeOK, Keyed
    <2>4. NoSealedShown' /\ ShownWasDelivered'
        BY <2>1, <2>2 DEF IInv, NoSealedShown, ShownWasDelivered
    <2>5. CacheExact'
        BY <2>1 DEF IInv, CacheExact, Keyed
    <2> QED
        BY <2>1, <2>3, <2>4, <2>5 DEF IInv, StoredSealed
<1>2. CASE Expire(m)
    <2>1. TypeOK'
        BY <1>2 DEF Expire, IInv, TypeOK
    <2> QED
        BY <1>2, <2>1 DEF Expire, IInv, StoredSealed, NoSealedShown, CacheExact, ShownWasDelivered, Keyed
<1> QED
    BY <1>1, <1>2

\* A text that was delivered or marked lost was pushed, and it is never both.
Once == delivered \cup lost \subseteq pushed /\ lost \cap delivered = {}

\* Every step keeps Once: a push brings only messages that were not pushed.
LEMMA OnceKeeps ==
    ASSUME IInv, Once, Next
    PROVE  Once'
<1>1. ASSUME NEW m \in Msgs, Send(m) \/ Retransmit(m) \/ Expire(m) PROVE Once'
    BY <1>1 DEF Once, Send, Retransmit, Expire
<1>2. ASSUME NEW B \in SUBSET (OnServer \ pushed), NEW i \in BOOLEAN,
             Bypass(TRUE, i, B) \/ \E L \in SUBSET B : Realtime(i, B, L)
      PROVE  Once'
    BY <1>2 DEF Once, Bypass, Realtime, Marked, Keyed, Readable
<1>3. ASSUME NEW B \in SUBSET OnServer, Sync(B) \/ \E i \in BOOLEAN : Bypass(FALSE, i, B)
      PROVE  Once'
    BY <1>3 DEF Once, Sync, Bypass
<1> QED
    BY <1>1, <1>2, <1>3 DEF Next

\* IInv and Once are invariants of the specification.
THEOREM OverlayInvariance == Spec => [](IInv /\ Once)
<1>1. Init => IInv /\ Once
    BY InitIInv DEF Init, Once
<1>2. IInv /\ Once /\ [Next]_vars => (IInv /\ Once)'
    <2> SUFFICES ASSUME IInv, Once, [Next]_vars PROVE IInv' /\ Once'
        OBVIOUS
    <2>1. CASE Next
        <3>1. ASSUME NEW m \in Msgs, Send(m) \/ Retransmit(m) \/ Expire(m) PROVE IInv'
            BY <3>1, SendKeeps, LostKeeps DEF Once
        <3>2. ASSUME NEW B \in SUBSET (OnServer \ pushed), NEW i \in BOOLEAN,
                     Bypass(TRUE, i, B) \/ \E L \in SUBSET B : Realtime(i, B, L)
              PROVE  IInv'
            BY <3>2, BypassKeeps, RealtimeKeeps DEF Once
        <3>3. ASSUME NEW B \in SUBSET OnServer, Sync(B) \/ \E i \in BOOLEAN : Bypass(FALSE, i, B)
              PROVE  IInv'
            BY <3>3, BypassKeeps, SyncKeeps
        <3> QED
            BY <2>1, <3>1, <3>2, <3>3, OnceKeeps DEF Next
    <2>2. CASE UNCHANGED vars
        BY <2>2 DEF vars, IInv, Once, TypeOK, StoredSealed, NoSealedShown, CacheExact,
                    ShownWasDelivered, Keyed
    <2> QED
        BY <2>1, <2>2
<1> QED
    BY <1>1, <1>2, PTL DEF Spec

\* The state of the parser and of the server keeps its shape.
THEOREM TypeCorrect == Spec => []TypeOK
<1>1. IInv /\ Once => TypeOK
    BY DEF IInv
<1> QED
    BY <1>1, OverlayInvariance, PTL

\* A text is never shown, live or by a sync, unless it was decrypted and delivered.
THEOREM OnlyDeliveredShown == Spec => []ShownWasDelivered
<1>1. IInv /\ Once => ShownWasDelivered
    BY DEF IInv
<1> QED
    BY <1>1, OverlayInvariance, PTL

\* The application never sees a sealed message.
THEOREM SealedStaysHidden == Spec => []NoSealedShown
<1>1. IInv /\ Once => NoSealedShown
    BY DEF IInv
<1> QED
    BY <1>1, OverlayInvariance, PTL

\* The parser remembers exactly what the next sync has to show.
THEOREM RemembersExactly == Spec => []CacheExact
<1>1. IInv /\ Once => CacheExact
    BY DEF IInv
<1> QED
    BY <1>1, OverlayInvariance, PTL

=============================================================================
