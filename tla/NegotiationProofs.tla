-------------------------- MODULE NegotiationProofs --------------------------
(***************************************************************************)
(* Two ends that complete the negotiation agree, each chooses the best     *)
(* suite both offer, and compatible ends do not fail, for any two suites   *)
(* and schemes and whatever the two configurations.                        *)
(*                                                                         *)
(* An end compares the other's key exchange message with its own choice    *)
(* once; that the choices are still equal when both are done rests on a    *)
(* choice never changing after it was made. That the choice is right rests *)
(* on the hellos being those of the configurations and on what the lists   *)
(* operators give, which is worked out first.                              *)
(***************************************************************************)
EXTENDS Negotiation, FiniteSetTheorems, TLAPS

-----------------------------------------------------------------------------
(* Lists and offers *)

\* The offers makeHello can put in a hello, the suites and the schemes.
Offers == {<<>>, <<Sm2Suite>>, <<HybridSuite>>, <<HybridSuite, Sm2Suite>>}
Suites == {Sm2Suite, HybridSuite}
Sigs == {Sm2Sig, OtherSig}

\* There are two suites, and two kinds of schemes.
LEMMA PairCardinality == ASSUME NEW x, NEW y, x # y PROVE Cardinality({x, y}) = 2
<1>1. IsFiniteSet({x}) /\ Cardinality({x}) = 1 /\ y \notin {x}
  BY FS_Singleton
<1>2. Cardinality({x} \cup {y}) = 1 + 1
  BY <1>1, FS_AddElement
<1> QED BY <1>2

\* The lists that a configuration or a hello may hold.
LEMMA ListsAre ==
    ASSUME NEW x, NEW y, x # y
    PROVE  Lists({x, y}) = {<<>>, <<x>>, <<y>>, <<x, y>>, <<y, x>>}
<1> DEFINE S == {x, y}
<1>1. Lists(S) = {s \in UNION {[1 .. n -> S] : n \in 0 .. 2} : \A i, j \in DOMAIN s : s[i] = s[j] => i = j}
  BY PairCardinality DEF Lists
<1>2. ASSUME NEW s \in Lists(S) PROVE s \in {<<>>, <<x>>, <<y>>, <<x, y>>, <<y, x>>}
  <2>1. PICK n \in 0 .. 2 : s \in [1 .. n -> S]
    BY <1>1
  <2>2. \A i, j \in 1 .. n : s[i] = s[j] => i = j
    BY <1>1, <2>1
  <2>3. CASE n = 0
    <3>1. s = <<>>
      BY <2>1, <2>3
    <3> QED BY <3>1
  <2>4. CASE n = 1
    <3>1. s = <<s[1]>> /\ s[1] \in S
      BY <2>1, <2>4
    <3> QED BY <3>1
  <2>5. CASE n = 2
    <3>1. s = <<s[1], s[2]>> /\ s[1] \in S /\ s[2] \in S
      BY <2>1, <2>5
    <3>2. s[1] # s[2]
      BY <2>2, <2>5
    <3> QED BY <3>1, <3>2
  <2> QED BY <2>1, <2>3, <2>4, <2>5
<1>3. ASSUME NEW n \in 0 .. 2, NEW s \in [1 .. n -> S], \A i, j \in 1 .. n : s[i] = s[j] => i = j
      PROVE  s \in Lists(S)
  <2>1. s \in UNION {[1 .. k -> S] : k \in 0 .. 2}
    OBVIOUS
  <2>2. DOMAIN s = 1 .. n
    OBVIOUS
  <2> HIDE DEF S
  <2> QED BY <1>1, <1>3, <2>1, <2>2
<1>4. <<>> \in Lists(S)
  <2> DEFINE s == <<>>
  <2>1. s \in [1 .. 0 -> S] /\ DOMAIN s = {}
    OBVIOUS
  <2> HIDE DEF s, S
  <2>2. s \in UNION {[1 .. k -> S] : k \in 0 .. 2}
    BY <2>1
  <2>3. s \in Lists(S)
    BY <2>1, <2>2, <1>1
  <2> QED BY <2>3 DEF s
<1>5. ASSUME NEW u \in S PROVE <<u>> \in Lists(S)
  <2> DEFINE s == <<u>>
  <2>1. s \in [1 .. 1 -> S] /\ \A i, j \in 1 .. 1 : s[i] = s[j] => i = j
    OBVIOUS
  <2> HIDE DEF s, S
  <2>2. s \in Lists(S)
    BY <2>1, <1>3
  <2> QED BY <2>2 DEF s
<1>6. ASSUME NEW u \in S, NEW v \in S, u # v PROVE <<u, v>> \in Lists(S)
  <2> DEFINE s == <<u, v>>
  <2>1. s \in [1 .. 2 -> S] /\ s[1] = u /\ s[2] = v
    OBVIOUS
  <2>2. \A i, j \in 1 .. 2 : s[i] = s[j] => i = j
    BY <1>6, <2>1
  <2> HIDE DEF s, S
  <2>3. s \in Lists(S)
    BY <2>1, <2>2, <1>3
  <2> QED BY <2>3 DEF s
<1>7. {<<>>, <<x>>, <<y>>, <<x, y>>, <<y, x>>} \subseteq Lists(S)
  <2>1. x \in S /\ y \in S
    OBVIOUS
  <2> HIDE DEF S
  <2>2. <<x>> \in Lists(S) /\ <<y>> \in Lists(S) /\ <<x, y>> \in Lists(S) /\ <<y, x>> \in Lists(S)
    BY <2>1, <1>5, <1>6
  <2> QED BY <2>2, <1>4
<1>8. Lists(S) \subseteq {<<>>, <<x>>, <<y>>, <<x, y>>, <<y, x>>}
  BY <1>2
<1> QED BY <1>7, <1>8, Zenon

\* What makeHello keeps of a list, by the positions it keeps: of none,
LEMMA KeptNone ==
    ASSUME NEW s, NEW T, \A i \in DOMAIN s : s[i] \notin T
    PROVE  Kept(s, T) = <<>>
<1> DEFINE pos == {i \in DOMAIN s : s[i] \in T}
<1> DEFINE nth(n) == CHOOSE i \in pos : Cardinality({j \in pos : j <= i}) = n
<1>1. pos = {}
  OBVIOUS
<1>2. Cardinality(pos) = 0
  BY <1>1, FS_EmptySet
<1> HIDE DEF pos, nth
<1>3. [n \in 1 .. Cardinality(pos) |-> s[nth(n)]] = <<>>
  BY <1>2
<1> QED BY <1>3 DEF Kept, pos, nth

\* ... of one position,
LEMMA KeptOne ==
    ASSUME NEW s, NEW T, NEW k \in DOMAIN s, k \in Nat, s[k] \in T,
           \A i \in DOMAIN s : s[i] \in T => i = k
    PROVE  Kept(s, T) = <<s[k]>>
<1> DEFINE pos == {i \in DOMAIN s : s[i] \in T}
<1> DEFINE nth(n) == CHOOSE i \in pos : Cardinality({j \in pos : j <= i}) = n
<1>1. pos = {k}
  OBVIOUS
<1>2. Cardinality({k}) = 1
  BY FS_Singleton
<1> HIDE DEF pos
<1>3. {j \in pos : j <= k} = {k}
  BY <1>1
<1>4. nth(1) = k
  BY <1>1, <1>2, <1>3
<1> HIDE DEF nth
<1>5. [n \in 1 .. Cardinality(pos) |-> s[nth(n)]] = <<s[k]>>
  BY <1>1, <1>2, <1>4
<1> QED BY <1>5 DEF Kept, pos, nth

\* ... and of both.
LEMMA KeptBoth ==
    ASSUME NEW u, NEW v, NEW T, u \in T, v \in T
    PROVE  Kept(<<u, v>>, T) = <<u, v>>
<1> DEFINE s == <<u, v>>
<1> DEFINE pos == {i \in DOMAIN s : s[i] \in T}
<1> DEFINE nth(n) == CHOOSE i \in pos : Cardinality({j \in pos : j <= i}) = n
<1>0. DOMAIN s = 1 .. 2 /\ s[1] = u /\ s[2] = v /\ 1 .. 2 = {1, 2}
  OBVIOUS
<1> HIDE DEF s
<1>1. pos = {1, 2}
  BY <1>0
<1>2. Cardinality({1, 2}) = 2 /\ Cardinality({1}) = 1
  <2>1. 1 # 2
    OBVIOUS
  <2>2. Cardinality({1, 2}) = 2
    BY <2>1, PairCardinality, Zenon
  <2>3. Cardinality({1}) = 1
    BY FS_Singleton, Zenon
  <2> QED BY <2>2, <2>3
<1> HIDE DEF pos
<1>3. {j \in pos : j <= 1} = {1} /\ {j \in pos : j <= 2} = {1, 2}
  BY <1>1
<1>4. nth(1) = 1 /\ nth(2) = 2
  BY <1>1, <1>2, <1>3
<1> HIDE DEF nth
<1>5. [n \in 1 .. Cardinality(pos) |-> s[nth(n)]] = <<u, v>>
  BY <1>0, <1>1, <1>2, <1>4
<1>6. Kept(s, T) = <<u, v>>
  BY <1>5 DEF Kept, pos, nth
<1> QED BY <1>6 DEF s

\* makeHello offers the suites in the order of the build, whatever the order in
\* which they are configured.
LEMMA OfferedAre ==
    ASSUME NEW c \in Configs
    PROVE  Offered(c) \in {<<>>, <<Sm2Suite>>, <<HybridSuite>>, <<HybridSuite, Sm2Suite>>}
<1> DEFINE T == Elements(CipherSuites(c))
<1> HIDE DEF T
<1>1. CASE c.hybridBuild
  <2> DEFINE s == <<HybridSuite, Sm2Suite>>
  <2>1. Offered(c) = Kept(s, T)
    BY <1>1 DEF Offered, CipherSuitesPreferenceOrder, T
  <2>2. DOMAIN s = {1, 2} /\ s[1] = HybridSuite /\ s[2] = Sm2Suite
    OBVIOUS
  <2>3. CASE HybridSuite \in T /\ Sm2Suite \in T
    <3>1. Kept(s, T) = <<HybridSuite, Sm2Suite>>
      BY <2>3, KeptBoth
    <3> HIDE DEF s
    <3> QED BY <2>1, <3>1
  <2> HIDE DEF s
  <2>4. CASE HybridSuite \in T /\ Sm2Suite \notin T
    <3>1. Kept(s, T) = <<s[1]>>
      BY <2>2, <2>4, KeptOne
    <3> QED BY <2>1, <2>2, <3>1
  <2>5. CASE HybridSuite \notin T /\ Sm2Suite \in T
    <3>1. Kept(s, T) = <<s[2]>>
      BY <2>2, <2>5, KeptOne
    <3> QED BY <2>1, <2>2, <3>1
  <2>6. CASE HybridSuite \notin T /\ Sm2Suite \notin T
    BY <2>1, <2>2, <2>6, KeptNone
  <2> QED BY <2>3, <2>4, <2>5, <2>6
<1>2. CASE ~c.hybridBuild
  <2> DEFINE s == <<Sm2Suite>>
  <2>1. Offered(c) = Kept(s, T)
    BY <1>2 DEF Offered, CipherSuitesPreferenceOrder, T
  <2>2. DOMAIN s = {1} /\ s[1] = Sm2Suite
    OBVIOUS
  <2> HIDE DEF s
  <2>3. CASE Sm2Suite \in T
    <3>1. Kept(s, T) = <<s[1]>>
      BY <2>2, <2>3, KeptOne
    <3> QED BY <2>1, <2>2, <3>1
  <2>4. CASE Sm2Suite \notin T
    BY <2>1, <2>2, <2>4, KeptNone
  <2> QED BY <2>3, <2>4
<1> QED BY <1>1, <1>2

\* What Intersection returns, given the position of the first common element.
LEMMA FirstIs ==
    ASSUME NEW a, NEW b, NEW n \in Nat, DOMAIN b = 1 .. n, NEW i \in 1 .. n, Contains(a, b[i]),
           \A j \in 1 .. i - 1 : ~Contains(a, b[j])
    PROVE  Intersection(a, b) = b[i]
<1> DEFINE First(k) == Contains(a, b[k]) /\ \A j \in 1 .. k - 1 : ~Contains(a, b[j])
<1>1. ASSUME NEW k \in 1 .. n, First(k) PROVE k = i
  <2>1. ~(k < i)
    <3> SUFFICES ASSUME k < i PROVE FALSE
      OBVIOUS
    <3>1. k \in 1 .. i - 1
      OBVIOUS
    <3> QED BY <3>1, <1>1
  <2>2. ~(i < k)
    <3> SUFFICES ASSUME i < k PROVE FALSE
      OBVIOUS
    <3>1. i \in 1 .. k - 1
      OBVIOUS
    <3> QED BY <3>1, <1>1
  <2> QED BY <2>1, <2>2
<1>2. First(i)
  OBVIOUS
<1> HIDE DEF First
<1>3. (CHOOSE k \in 1 .. n : First(k)) = i
  BY <1>1, <1>2
<1>4. \E k \in DOMAIN b : Contains(a, b[k])
  OBVIOUS
<1> QED BY <1>3, <1>4 DEF Intersection, First

\* Without a common element it is the zero value.
LEMMA NoneCommon ==
    ASSUME NEW a, NEW b, \A i \in DOMAIN b : ~Contains(a, b[i])
    PROVE  Intersection(a, b) = Zero
BY DEF Intersection

\* Intersection over a list of at most two.
LEMMA FirstCommon ==
    ASSUME NEW a, NEW b, NEW n \in 0 .. 2, DOMAIN b = 1 .. n
    PROVE  \/ (\A i \in DOMAIN b : ~Contains(a, b[i])) /\ Intersection(a, b) = Zero
           \/ \E i \in DOMAIN b : /\ Contains(a, b[i]) /\ Intersection(a, b) = b[i]
                                  /\ \A j \in 1 .. i - 1 : ~Contains(a, b[j])
<1>1. CASE \A i \in DOMAIN b : ~Contains(a, b[i])
  BY <1>1, NoneCommon
<1>2. CASE 1 \in DOMAIN b /\ Contains(a, b[1])
  <2>1. \A j \in 1 .. 1 - 1 : ~Contains(a, b[j])
    OBVIOUS
  <2>2. Intersection(a, b) = b[1]
    BY <1>2, <2>1, FirstIs
  <2> QED BY <1>2, <2>1, <2>2
<1>3. CASE 2 \in DOMAIN b /\ Contains(a, b[2]) /\ ~Contains(a, b[1])
  <2>1. \A j \in 1 .. 2 - 1 : ~Contains(a, b[j])
    BY <1>3
  <2>2. Intersection(a, b) = b[2]
    BY <1>3, <2>1, FirstIs
  <2> QED BY <1>3, <2>1, <2>2
<1>4. DOMAIN b \subseteq {1, 2}
  OBVIOUS
<1>5. 2 \in DOMAIN b => 1 \in DOMAIN b
  OBVIOUS
<1> QED BY <1>1, <1>2, <1>3, <1>4, <1>5


\* An offer lists at most two suites, the hybrid one first.
LEMMA OfferShape ==
    ASSUME NEW s \in Offers
    PROVE  /\ \E n \in 0 .. 2 : DOMAIN s = 1 .. n
           /\ \A i \in DOMAIN s : s[i] \in Suites
           /\ Contains(s, HybridSuite) => s[1] = HybridSuite
           /\ s \in Lists(Suites)
<1>1. CASE s = <<>>
  <2>1. DOMAIN s = 1 .. 0
    BY <1>1
  <2>2. DOMAIN s = {} /\ 0 \in 0 .. 2
    BY <1>1
  <2> QED BY <1>1, <2>1, <2>2, ListsAre, SuitesAssumption DEF Contains, Suites
<1>2. <<Sm2Suite>> \in Lists(Suites) /\ <<HybridSuite>> \in Lists(Suites)
  BY ListsAre, SuitesAssumption DEF Suites
<1>3. CASE s = <<Sm2Suite>> \/ s = <<HybridSuite>>
  <2>1. PICK u \in Suites : s = <<u>>
    BY <1>3 DEF Suites
  <2>2. s \in Lists(Suites)
    BY <1>2, <1>3
  <2>3. DOMAIN s = 1 .. 1 /\ s[1] = u
    BY <2>1
  <2> QED BY <2>2, <2>3 DEF Contains
<1>4. CASE s = <<HybridSuite, Sm2Suite>>
  <2>1. DOMAIN s = 1 .. 2 /\ s[1] = HybridSuite /\ s[2] = Sm2Suite
    BY <1>4
  <2>2. s \in Lists(Suites)
    BY <1>4, ListsAre, SuitesAssumption DEF Suites
  <2> QED BY <2>1, <2>2 DEF Suites
<1> QED BY <1>1, <1>3, <1>4 DEF Offers

\* mutualCipherSuite on two offers: the best common suite, if there is one.
LEMMA BestCommon ==
    ASSUME NEW p \in Offers, NEW q \in Offers
    PROVE  /\ Intersection(p, q) \in Suites \cup {Zero}
           /\ Elements(p) \cap Elements(q) # {} => Intersection(p, q) # Zero
           /\ Intersection(p, q) # Zero =>
                 /\ Intersection(p, q) = IF Contains(p, HybridSuite) /\ Contains(q, HybridSuite)
                                         THEN HybridSuite ELSE Sm2Suite
                 /\ Intersection(p, q) \in Elements(p) \cap Elements(q)
<1>1. /\ \E n \in 0 .. 2 : DOMAIN q = 1 .. n
      /\ \A i \in DOMAIN q : q[i] \in Suites
      /\ Contains(q, HybridSuite) => q[1] = HybridSuite
  BY OfferShape
<1>2. Zero \notin Suites /\ Sm2Suite # HybridSuite
  BY SuitesAssumption DEF Suites
<1>3. CASE (\A i \in DOMAIN q : ~Contains(p, q[i])) /\ Intersection(p, q) = Zero
  <2>1. Elements(p) \cap Elements(q) = {}
    BY <1>3 DEF Elements, Contains
  <2> QED BY <1>3, <2>1
<1>4. ASSUME NEW i \in DOMAIN q, Contains(p, q[i]), Intersection(p, q) = q[i],
             \A j \in 1 .. i - 1 : ~Contains(p, q[j])
      PROVE  /\ Intersection(p, q) \in Suites /\ Intersection(p, q) \in Elements(p) \cap Elements(q)
             /\ Intersection(p, q) = IF Contains(p, HybridSuite) /\ Contains(q, HybridSuite)
                                         THEN HybridSuite ELSE Sm2Suite
  <2>1. q[i] \in Suites /\ q[i] \in Elements(p) \cap Elements(q)
    BY <1>1, <1>4 DEF Elements, Contains
  <2>2. CASE Contains(p, HybridSuite) /\ Contains(q, HybridSuite)
    <3>1. q[1] = HybridSuite
      BY <1>1, <2>2
    <3>2. i = 1
      <4> SUFFICES ASSUME i # 1 PROVE FALSE
        OBVIOUS
      <4>1. 1 \in 1 .. i - 1
        BY <1>1
      <4> QED BY <4>1, <1>4, <2>2, <3>1
    <3> QED BY <1>4, <2>1, <2>2, <3>1, <3>2
  <2>3. CASE ~(Contains(p, HybridSuite) /\ Contains(q, HybridSuite))
    <3>1. q[i] # HybridSuite
      BY <1>4, <2>3 DEF Contains
    <3> QED BY <1>4, <2>1, <2>3, <3>1 DEF Suites
  <2> QED BY <2>2, <2>3
<1>5. PICK n \in 0 .. 2 : DOMAIN q = 1 .. n
  BY <1>1
<1>6. \/ (\A i \in DOMAIN q : ~Contains(p, q[i])) /\ Intersection(p, q) = Zero
      \/ \E i \in DOMAIN q : /\ Contains(p, q[i]) /\ Intersection(p, q) = q[i]
                             /\ \A j \in 1 .. i - 1 : ~Contains(p, q[j])
  BY <1>5, FirstCommon
<1>7. CASE \E i \in DOMAIN q : /\ Contains(p, q[i]) /\ Intersection(p, q) = q[i]
                               /\ \A j \in 1 .. i - 1 : ~Contains(p, q[j])
  <2>1. /\ Intersection(p, q) \in Suites /\ Intersection(p, q) \in Elements(p) \cap Elements(q)
        /\ Intersection(p, q) = IF Contains(p, HybridSuite) /\ Contains(q, HybridSuite)
                                         THEN HybridSuite ELSE Sm2Suite
    BY <1>4, <1>7
  <2> QED BY <2>1, <1>2
<1> QED BY <1>3, <1>6, <1>7

\* The lists of schemes.
LEMMA SigsShape ==
    ASSUME NEW c \in Configs
    PROVE  /\ SignatureSchemes(c) \in Lists(Sigs)
           /\ \E n \in 0 .. 2 : DOMAIN SignatureSchemes(c) = 1 .. n
           /\ \A i \in DOMAIN SignatureSchemes(c) : SignatureSchemes(c)[i] \in Sigs
<1> DEFINE s == SignatureSchemes(c)
<1>1. s \in Lists(Sigs)
  <2>1. <<Sm2Sig>> \in Lists(Sigs)
    BY ListsAre, SigsAssumption DEF Sigs
  <2>2. c.signatureSchemes \in Lists(Sigs) \cup {Zero}
    BY DEF Configs, Sigs
  <2> QED BY <2>1, <2>2 DEF SignatureSchemes
<1> HIDE DEF s
<1>2. Cardinality(Sigs) = 2
  BY PairCardinality, SigsAssumption DEF Sigs
<1>3. PICK n \in 0 .. 2 : s \in [1 .. n -> Sigs]
  BY <1>1, <1>2 DEF Lists
<1>4. DOMAIN s = 1 .. n /\ \A i \in DOMAIN s : s[i] \in Sigs
  BY <1>3
<1> QED BY <1>1, <1>4 DEF s

\* pickSignatureScheme on two lists.
LEMMA CommonSig ==
    ASSUME NEW p, NEW q \in Lists(Sigs), NEW n \in 0 .. 2, DOMAIN q = 1 .. n,
           \A i \in DOMAIN q : q[i] \in Sigs
    PROVE  /\ Intersection(p, q) \in Sigs \cup {Zero}
           /\ PrefersSm2(q, p) => Intersection(p, q) = Sm2Sig
<1>1. Intersection(p, q) \in Sigs \cup {Zero}
  BY FirstCommon
<1>2. ASSUME PrefersSm2(q, p) PROVE Intersection(p, q) = Sm2Sig
  <2>1. PICK i \in DOMAIN q : q[i] = Sm2Sig /\ \A j \in 1 .. i - 1 : ~Contains(p, q[j])
    BY <1>2 DEF PrefersSm2
  <2>2. Contains(p, q[i]) /\ i \in 1 .. n /\ n \in Nat
    BY <1>2, <2>1 DEF PrefersSm2
  <2> QED BY <2>1, <2>2, FirstIs
<1> QED BY <1>1, <1>2

-----------------------------------------------------------------------------
(* Agreement *)

\* The parts of the state that the argument needs.
Shape ==
    /\ DOMAIN st = Ends
    /\ DOMAIN pick = Ends
    /\ DOMAIN pre = Ends
    /\ \A e \in Ends : pick[e] = [suite |-> pick[e].suite, sig |-> pick[e].sig]

\* An end that has not processed the other's hello has chosen nothing.
ChosenOnce == \A e \in Ends : st[e] \in {"start", "hello"} => pick[e] = NoPick

\* An end that accepted the other's key exchange made the same choice, and has
\* the pre-master secret of the suite.
DoneAgrees ==
    \A e \in Ends : st[e] = "done" =>
        /\ pick[Peer(e)] # NoPick
        /\ pick[Peer(e)] = pick[e]
        /\ pre[e] = PreMaster(e, pick[e].suite)

IInv == Shape /\ ChosenOnce /\ DoneAgrees

LEMMA PeerIsEnd == \A e \in Ends : Peer(e) \in Ends
BY DEF Peer, Ends

LEMMA InitIInv == Init => IInv
BY DEF Init, IInv, Shape, ChosenOnce, DoneAgrees, NoPick

LEMMA SayHelloKeeps == ASSUME IInv, NEW e \in Ends, SayHello(e) PROVE IInv'
<1>1. UNCHANGED <<pick, pre>> /\ st[e] = "start" /\ DOMAIN st' = Ends
      /\ st'[e] \in {"hello", "failed"} /\ \A d \in Ends : d # e => st'[d] = st[d]
  BY DEF SayHello, IInv, Shape
<1>2. ChosenOnce'
  BY <1>1 DEF IInv, ChosenOnce
<1>3. DoneAgrees'
  BY <1>1 DEF IInv, DoneAgrees
<1> QED BY <1>1, <1>2, <1>3 DEF IInv, Shape

\* The end that chooses had chosen nothing, so nobody had agreed with it.
LEMMA ProcessHelloKeeps == ASSUME IInv, NEW e \in Ends, ProcessHello(e) PROVE IInv'
<1>1. /\ UNCHANGED pre /\ st[e] = "hello" /\ DOMAIN st' = Ends /\ DOMAIN pick' = Ends
      /\ st'[e] \in {"picked", "failed"}
      /\ pick'[e] = [suite |-> pick'[e].suite, sig |-> pick'[e].sig]
      /\ \A d \in Ends : d # e => st'[d] = st[d] /\ pick'[d] = pick[d]
  BY DEF ProcessHello, IInv, Shape, NoPick
<1>2. pick[e] = NoPick
  BY <1>1 DEF IInv, ChosenOnce
<1>3. \A d \in Ends : st[d] = "done" => d # e /\ Peer(d) # e
  BY <1>1, <1>2 DEF IInv, DoneAgrees
<1>4. ChosenOnce'
  BY <1>1 DEF IInv, ChosenOnce
<1>5. DoneAgrees'
  BY <1>1, <1>3, PeerIsEnd DEF IInv, DoneAgrees
<1> QED BY <1>1, <1>4, <1>5 DEF IInv, Shape

LEMMA ProcessKxmKeeps == ASSUME IInv, NEW e \in Ends, ProcessKxm(e) PROVE IInv'
<1>1. /\ UNCHANGED pick /\ st[e] = "picked" /\ pick[Peer(e)] # NoPick
      /\ DOMAIN st' = Ends /\ DOMAIN pre' = Ends
      /\ \A d \in Ends : d # e => st'[d] = st[d] /\ pre'[d] = pre[d]
  BY DEF ProcessKxm, IInv, Shape
<1>2. CASE KxmAccepted(e)
  <2>1. st'[e] = "done" /\ pre'[e] = PreMaster(e, pick[e].suite)
    BY <1>2 DEF ProcessKxm, IInv, Shape
  <2>2. pick[Peer(e)].suite = pick[e].suite /\ pick[Peer(e)].sig = pick[e].sig
    BY <1>2 DEF KxmAccepted, Kxm
  <2>3. pick[Peer(e)] = pick[e]
    BY <2>2, PeerIsEnd DEF IInv, Shape
  <2> QED BY <1>1, <2>1, <2>3 DEF IInv, Shape, ChosenOnce, DoneAgrees
<1>3. CASE ~KxmAccepted(e)
  <2>1. st'[e] = "failed"
    BY <1>3 DEF ProcessKxm, IInv, Shape
  <2> QED BY <1>1, <2>1 DEF IInv, Shape, ChosenOnce, DoneAgrees
<1> QED BY <1>2, <1>3

\* Two ends that both completed the negotiation have the same suite, the same
\* signature scheme and the same pre-master secret.
THEOREM Agreement == Spec => []SameOutcome
<1>1. IInv /\ [Next]_vars => IInv'
  <2> SUFFICES ASSUME IInv, [Next]_vars PROVE IInv'
    OBVIOUS
  <2>1. CASE Next
    BY <2>1, SayHelloKeeps, ProcessHelloKeeps, ProcessKxmKeeps DEF Next
  <2>2. CASE UNCHANGED vars
    BY <2>2 DEF vars, IInv, Shape, ChosenOnce, DoneAgrees
  <2> QED BY <2>1, <2>2
<1>2. IInv => SameOutcome
  BY DEF IInv, DoneAgrees, SameOutcome, Peer, Ends, PreMaster
<1> QED BY InitIInv, <1>1, <1>2, PTL DEF Spec

-----------------------------------------------------------------------------
(* Every choice is the one the two configurations give *)

\* What an end computes from the two configurations.
ChoiceOf(e) ==
    [suite |-> Intersection(Offered(cfg[e]), Offered(cfg[Peer(e)])),
     sig   |-> Intersection(SignatureSchemes(cfg[e]), SignatureSchemes(cfg[Peer(e)]))]

\* A hello that was sent says what the sender's configuration offers.
HelloSaid ==
    \A e \in Ends : /\ hello[e] \in {NoHello, Hello(cfg[e])}
                    /\ st[e] \in {"hello", "picked", "done"} => hello[e] = Hello(cfg[e])

\* A choice is what the two configurations give, whenever it was made.
ChoiceComputed ==
    \A e \in Ends : /\ pick[e] \in {NoPick, ChoiceOf(e)}
                    /\ st[e] \in {"picked", "done"} => /\ pick[e] = ChoiceOf(e)
                                                       /\ ChoiceOf(e).suite # Zero

ChoiceInv == TypeOK /\ HelloSaid /\ ChoiceComputed /\ NoNeedlessFailure

\* The hello of a configuration.
LEMMA HelloType ==
    ASSUME NEW c \in Configs
    PROVE  /\ Offered(c) \in Offers /\ Hello(c).suites = Offered(c) /\ Hello(c).sigs = SignatureSchemes(c)
           /\ Hello(c) \in [suites : Lists(Suites), sigs : Lists(Sigs)]
<1>1. Offered(c) \in Offers
  BY OfferedAre DEF Offers
<1>2. Offered(c) \in Lists(Suites) /\ SignatureSchemes(c) \in Lists(Sigs)
  BY <1>1, OfferShape, SigsShape
<1> QED BY <1>1, <1>2 DEF Hello

\* The choice of an end: its type, that it is the best suite both offer, and that
\* compatible configurations give one that the key exchange accepts.
LEMMA ChoiceType ==
    ASSUME cfg \in [Ends -> Configs], NEW e \in Ends
    PROVE  /\ ChoiceOf(e) \in [suite : Suites \cup {Zero}, sig : Sigs \cup {Zero}]
           /\ ChoiceOf(e).suite # Zero =>
                 ChoiceOf(e).suite = IF \A d \in Ends : Contains(Offered(cfg[d]), HybridSuite)
                                     THEN HybridSuite ELSE Sm2Suite
           /\ Compatible => /\ ChoiceOf(e).suite # Zero /\ ChoiceOf(e).sig = Sm2Sig
                            /\ KeysPresent(cfg[e], ChoiceOf(e).suite)
                            /\ SignatureSchemes(cfg[e]) # <<>>
<1> DEFINE p == Peer(e)
<1> DEFINE a == Offered(cfg[e])
<1> DEFINE b == Offered(cfg[p])
<1> DEFINE k == SignatureSchemes(cfg[e])
<1> DEFINE l == SignatureSchemes(cfg[p])
<1>1. p \in Ends /\ cfg[e] \in Configs /\ cfg[p] \in Configs /\ Ends = {e, p}
  BY PeerIsEnd DEF Peer, Ends
<1>2. a \in Offers /\ b \in Offers
  BY <1>1, HelloType
<1>3. /\ l \in Lists(Sigs) /\ \E n \in 0 .. 2 : DOMAIN l = 1 .. n
      /\ \A i \in DOMAIN l : l[i] \in Sigs
  BY <1>1, SigsShape
<1>4. ChoiceOf(e).suite = Intersection(a, b) /\ ChoiceOf(e).sig = Intersection(k, l)
      /\ ChoiceOf(e) = [suite |-> Intersection(a, b), sig |-> Intersection(k, l)]
  BY DEF ChoiceOf
<1>5. ASSUME Compatible
      PROVE  /\ Elements(a) \cap Elements(b) # {} /\ PrefersSm2(k, l) /\ PrefersSm2(l, k)
             /\ HybridSuite \in Elements(a) \cap Elements(b) => cfg[e].kemKeys
  <2>1. CASE e = Initiator
    BY <1>5, <2>1 DEF Compatible, Peer
  <2>2. CASE e # Initiator
    <3>1. e = Responder /\ p = Initiator
      BY <2>2 DEF Peer, Ends
    <3> QED BY <1>5, <3>1 DEF Compatible
  <2> QED BY <2>1, <2>2
<1>6. (\A d \in Ends : Contains(Offered(cfg[d]), HybridSuite))
         <=> Contains(a, HybridSuite) /\ Contains(b, HybridSuite)
  BY <1>1
<1> HIDE DEF a, b, k, l
<1>7. /\ Intersection(a, b) \in Suites \cup {Zero}
      /\ Elements(a) \cap Elements(b) # {} => Intersection(a, b) # Zero
      /\ Intersection(a, b) # Zero =>
            /\ Intersection(a, b) = IF Contains(a, HybridSuite) /\ Contains(b, HybridSuite)
                                    THEN HybridSuite ELSE Sm2Suite
            /\ Intersection(a, b) \in Elements(a) \cap Elements(b)
  BY <1>2, BestCommon
<1>8. Intersection(k, l) \in Sigs \cup {Zero} /\ (PrefersSm2(l, k) => Intersection(k, l) = Sm2Sig)
  BY <1>3, CommonSig
<1>9. ASSUME Compatible
      PROVE  /\ ChoiceOf(e).suite # Zero /\ ChoiceOf(e).sig = Sm2Sig
             /\ KeysPresent(cfg[e], ChoiceOf(e).suite)
             /\ SignatureSchemes(cfg[e]) # <<>>
  <2>1. KeysPresent(cfg[e], ChoiceOf(e).suite)
    BY <1>4, <1>5, <1>7, <1>9 DEF KeysPresent
  <2>2. k # <<>>
    BY <1>5, <1>9 DEF PrefersSm2
  <2> QED BY <1>4, <1>5, <1>7, <1>8, <1>9, <2>1, <2>2 DEF k
<1> QED BY <1>4, <1>6, <1>7, <1>8, <1>9

LEMMA ChoiceInit == Init => ChoiceInv
<1> SUFFICES ASSUME Init PROVE ChoiceInv
  OBVIOUS
<1>1. <<>> \in Lists(Suites) /\ <<>> \in Lists(Sigs)
  BY ListsAre, SuitesAssumption, SigsAssumption DEF Suites, Sigs
<1>2. NoHello \in [suites : Lists(Suites), sigs : Lists(Sigs)]
  BY <1>1 DEF NoHello
<1>3. NoPick \in [suite : {Sm2Suite, HybridSuite, Zero}, sig : {Sm2Sig, OtherSig, Zero}]
  BY DEF NoPick
<1>4. TypeOK
  BY <1>2, <1>3 DEF Init, TypeOK, Suites, Sigs
<1>5. HelloSaid /\ ChoiceComputed /\ NoNeedlessFailure
  BY DEF Init, HelloSaid, ChoiceComputed, NoNeedlessFailure
<1> QED BY <1>4, <1>5 DEF ChoiceInv

\* The configurations never change, and with them the choices they give.
LEMMA SameConfigs ==
    ASSUME cfg' = cfg
    PROVE  (Compatible' <=> Compatible) /\ \A e \in Ends : ChoiceOf(e)' = ChoiceOf(e)
BY DEF Compatible, ChoiceOf

LEMMA SayHelloChoice == ASSUME ChoiceInv, NEW e \in Ends, SayHello(e) PROVE ChoiceInv'
<1> DEFINE ok == SignatureSchemes(cfg[e]) # <<>>
<1>1. /\ cfg \in [Ends -> Configs] /\ cfg' = cfg /\ pick' = pick /\ st[e] = "start"
      /\ st' = [st EXCEPT ![e] = IF ok THEN "hello" ELSE "failed"]
      /\ hello' = [hello EXCEPT ![e] = IF ok THEN Hello(cfg[e]) ELSE NoHello]
      /\ DOMAIN st = Ends /\ DOMAIN hello = Ends
  BY DEF SayHello, ChoiceInv, TypeOK
<1>2. Hello(cfg[e]) \in [suites : Lists(Suites), sigs : Lists(Sigs)]
  BY <1>1, HelloType
<1>3. <<>> \in Lists(Suites) /\ <<>> \in Lists(Sigs)
  BY ListsAre, SuitesAssumption, SigsAssumption DEF Suites, Sigs
<1>4. NoHello \in [suites : Lists(Suites), sigs : Lists(Sigs)]
  BY <1>3 DEF NoHello
<1>5. Compatible => ok
  BY <1>1, ChoiceType
<1> HIDE DEF ok
<1>6. TypeOK'
  <2>1. hello \in [Ends -> [suites : Lists(Suites), sigs : Lists(Sigs)]]
    BY DEF ChoiceInv, TypeOK, Suites, Sigs
  <2>2. hello' \in [Ends -> [suites : Lists(Suites), sigs : Lists(Sigs)]]
    BY <1>1, <1>2, <1>4, <2>1
  <2>3. st' \in [Ends -> {"start", "hello", "picked", "done", "failed"}]
    BY <1>1 DEF ChoiceInv, TypeOK
  <2> QED BY <1>1, <2>2, <2>3 DEF ChoiceInv, TypeOK, Suites, Sigs
<1>7. HelloSaid'
  BY <1>1 DEF ChoiceInv, HelloSaid
<1>8. ChoiceComputed'
  BY <1>1, SameConfigs DEF ChoiceInv, ChoiceComputed
<1>9. NoNeedlessFailure'
  BY <1>1, <1>5, SameConfigs DEF ChoiceInv, NoNeedlessFailure
<1> QED BY <1>6, <1>7, <1>8, <1>9 DEF ChoiceInv

LEMMA ProcessHelloChoice == ASSUME ChoiceInv, NEW e \in Ends, ProcessHello(e) PROVE ChoiceInv'
<1> DEFINE ok == ChoiceOf(e).suite # Zero /\ ChoiceOf(e).sig # Zero /\ KeysPresent(cfg[e], ChoiceOf(e).suite)
<1>1. /\ cfg \in [Ends -> Configs] /\ cfg' = cfg /\ hello' = hello /\ st[e] = "hello"
      /\ hello[Peer(e)] # NoHello /\ DOMAIN st = Ends /\ DOMAIN pick = Ends /\ Peer(e) \in Ends
  BY PeerIsEnd DEF ProcessHello, ChoiceInv, TypeOK
<1>2. hello[e] = Hello(cfg[e]) /\ hello[Peer(e)] = Hello(cfg[Peer(e)])
  BY <1>1 DEF ChoiceInv, HelloSaid
<1>3. /\ hello[e].suites = Offered(cfg[e]) /\ hello[Peer(e)].suites = Offered(cfg[Peer(e)])
      /\ hello[e].sigs = SignatureSchemes(cfg[e])
      /\ hello[Peer(e)].sigs = SignatureSchemes(cfg[Peer(e)])
  BY <1>1, <1>2, HelloType
<1>4. ChoiceOf(e) = [suite |-> MutualCipherSuite(hello[e].suites, hello[Peer(e)].suites),
                     sig   |-> Intersection(hello[e].sigs, hello[Peer(e)].sigs)]
  BY <1>3 DEF ChoiceOf, MutualCipherSuite
<1>5. /\ st' = [st EXCEPT ![e] = IF ok THEN "picked" ELSE "failed"]
      /\ pick' = [pick EXCEPT ![e] = IF ok THEN ChoiceOf(e) ELSE NoPick]
  BY <1>4 DEF ProcessHello
<1>6. /\ ChoiceOf(e) \in [suite : {Sm2Suite, HybridSuite, Zero}, sig : {Sm2Sig, OtherSig, Zero}]
      /\ ok => ChoiceOf(e).suite # Zero
      /\ Compatible => ok
  <2>1. Suites \cup {Zero} = {Sm2Suite, HybridSuite, Zero} /\ Sigs \cup {Zero} = {Sm2Sig, OtherSig, Zero}
    BY DEF Suites, Sigs
  <2>2. Sm2Sig # Zero
    BY SigsAssumption
  <2> QED BY <1>1, <2>1, <2>2, ChoiceType
<1>7. NoPick \in [suite : {Sm2Suite, HybridSuite, Zero}, sig : {Sm2Sig, OtherSig, Zero}]
  BY DEF NoPick
<1> HIDE DEF ok
<1>8. TypeOK'
  <2>1. pick' \in [Ends -> [suite : {Sm2Suite, HybridSuite, Zero}, sig : {Sm2Sig, OtherSig, Zero}]]
    BY <1>5, <1>6, <1>7 DEF ChoiceInv, TypeOK
  <2>2. st' \in [Ends -> {"start", "hello", "picked", "done", "failed"}]
    BY <1>5 DEF ChoiceInv, TypeOK
  <2> QED BY <1>1, <2>1, <2>2 DEF ChoiceInv, TypeOK
<1>9. HelloSaid'
  BY <1>1, <1>5 DEF ChoiceInv, HelloSaid
<1>10. ChoiceComputed'
  <2>1. \A d \in Ends : ChoiceOf(d)' = ChoiceOf(d)
    BY <1>1, SameConfigs
  <2>2. /\ \A d \in Ends : d # e => st'[d] = st[d] /\ pick'[d] = pick[d]
        /\ pick'[e] = (IF ok THEN ChoiceOf(e) ELSE NoPick) /\ st'[e] = (IF ok THEN "picked" ELSE "failed")
    BY <1>1, <1>5
  <2> QED BY <1>6, <2>1, <2>2 DEF ChoiceInv, ChoiceComputed
<1>11. NoNeedlessFailure'
  BY <1>1, <1>5, <1>6, SameConfigs DEF ChoiceInv, NoNeedlessFailure
<1> QED BY <1>8, <1>9, <1>10, <1>11 DEF ChoiceInv

LEMMA ProcessKxmChoice == ASSUME ChoiceInv, NEW e \in Ends, ProcessKxm(e) PROVE ChoiceInv'
<1>1. /\ cfg \in [Ends -> Configs] /\ cfg' = cfg /\ hello' = hello /\ pick' = pick
      /\ st[e] = "picked" /\ DOMAIN st = Ends /\ pick[Peer(e)] # NoPick /\ Peer(e) \in Ends
      /\ st' = [st EXCEPT ![e] = IF KxmAccepted(e) THEN "done" ELSE "failed"]
  BY PeerIsEnd DEF ProcessKxm, ChoiceInv, TypeOK
<1>2. TypeOK'
  <2>1. st' \in [Ends -> {"start", "hello", "picked", "done", "failed"}]
    BY <1>1 DEF ChoiceInv, TypeOK
  <2> QED BY <1>1, <2>1 DEF ChoiceInv, TypeOK
<1>3. HelloSaid'
  BY <1>1 DEF ChoiceInv, HelloSaid
<1>4. ChoiceComputed'
  BY <1>1, SameConfigs DEF ChoiceInv, ChoiceComputed
<1>5. ASSUME Compatible PROVE KxmAccepted(e)
  <2>1. pick[e] = ChoiceOf(e) /\ pick[Peer(e)] = ChoiceOf(Peer(e))
    BY <1>1 DEF ChoiceInv, ChoiceComputed
  <2> DEFINE best == IF \A d \in Ends : Contains(Offered(cfg[d]), HybridSuite)
                     THEN HybridSuite ELSE Sm2Suite
  <2>2. \A d \in Ends : ChoiceOf(d).suite = best /\ ChoiceOf(d).sig = Sm2Sig
    BY <1>1, <1>5, ChoiceType
  <2> HIDE DEF best
  <2> QED BY <1>1, <2>1, <2>2 DEF KxmAccepted, Kxm, SigType
<1>6. NoNeedlessFailure'
  BY <1>1, <1>5, SameConfigs DEF ChoiceInv, NoNeedlessFailure
<1> QED BY <1>2, <1>3, <1>4, <1>6 DEF ChoiceInv

LEMMA ChoiceStep == ChoiceInv /\ [Next]_vars => ChoiceInv'
<1> SUFFICES ASSUME ChoiceInv, [Next]_vars PROVE ChoiceInv'
  OBVIOUS
<1>1. CASE Next
  BY <1>1, SayHelloChoice, ProcessHelloChoice, ProcessKxmChoice DEF Next
<1>2. CASE UNCHANGED vars
  <2>1. UNCHANGED <<cfg, st, hello, pick>>
    BY <1>2 DEF vars
  <2> QED BY <2>1, SameConfigs DEF ChoiceInv, TypeOK, HelloSaid, ChoiceComputed, NoNeedlessFailure
<1> QED BY <1>1, <1>2

\* A hello lists every suite and scheme at most once, and each end's choice is a
\* suite and a scheme of the code or nothing.
THEOREM TypeCorrect == Spec => []TypeOK
<1>1. ChoiceInv => TypeOK
  BY DEF ChoiceInv
<1> QED BY ChoiceInit, ChoiceStep, <1>1, PTL DEF Spec

\* Each end that chose has the hybrid suite if both offer it, and SM2 if not.
THEOREM Best == Spec => []BestSuite
<1>1. ChoiceInv => BestSuite
  <2> SUFFICES ASSUME ChoiceInv, NEW e \in Ends, st[e] \in {"picked", "done"}
               PROVE  pick[e].suite = IF \A d \in Ends : Contains(Offered(cfg[d]), HybridSuite)
                                      THEN HybridSuite ELSE Sm2Suite
    BY DEF BestSuite
  <2>1. pick[e] = ChoiceOf(e) /\ ChoiceOf(e).suite # Zero /\ cfg \in [Ends -> Configs]
    BY DEF ChoiceInv, ChoiceComputed, TypeOK
  <2> QED BY <2>1, ChoiceType
<1> QED BY ChoiceInit, ChoiceStep, <1>1, PTL DEF Spec

\* Between compatible configurations the negotiation does not fail.
THEOREM CompatibleSucceed == Spec => []NoNeedlessFailure
<1>1. ChoiceInv => NoNeedlessFailure
  BY DEF ChoiceInv
<1> QED BY ChoiceInit, ChoiceStep, <1>1, PTL DEF Spec

=============================================================================
