----------------------------- MODULE Negotiation -----------------------------
(***************************************************************************)
(* What two ends with different builds and configurations settle on:       *)
(* makeHello, the Intersection of the two offers that each end takes for   *)
(* itself, the choice of the key agreement, and the checks on the peer's   *)
(* key exchange message. Nobody announces a choice: each end computes it   *)
(* from the two hellos, and the handshake only works if both compute the   *)
(* same. Interleavings with other records are SessionLayer's.              *)
(***************************************************************************)
EXTENDS Naturals, Sequences, FiniteSets

CONSTANTS
    Initiator, Responder,  \* the end with the greater id, and the other
    Sm2Suite, HybridSuite, \* the suites a build may know
    Sm2Sig, OtherSig,      \* SM2WithSM3, and any other signature scheme
    Zero                   \* the zero value that Intersection returns; nil lists

\* The ids of the code are distinct, and no suite and no scheme has the id zero.
ASSUME EndsAssumption == Initiator # Responder
ASSUME SuitesAssumption == Sm2Suite # HybridSuite /\ Zero \notin {Sm2Suite, HybridSuite}
ASSUME SigsAssumption == Sm2Sig # OtherSig /\ Zero \notin {Sm2Sig, OtherSig}

Ends == {Initiator, Responder}
Peer(e) == IF e = Initiator THEN Responder ELSE Initiator

Lists(S) == {s \in UNION {[1 .. n -> S] : n \in 0 .. Cardinality(S)} :
                \A i, j \in DOMAIN s : s[i] = s[j] => i = j}

\* Config, the build tag and the key store of one end.
Configs == [hybridBuild : BOOLEAN,
            enableSM2MLKEM : BOOLEAN,
            cipherSuites : Lists({Sm2Suite, HybridSuite}) \cup {Zero},
            signatureSchemes : Lists({Sm2Sig, OtherSig}) \cup {Zero},
            kemKeys : BOOLEAN]

VARIABLES
    cfg,   \* configuration of each end
    st,    \* "start", "hello", "picked", "done" or "failed"
    hello, \* the hello each end sent
    pick,  \* the suite and the scheme each end chose
    pre    \* preMasterSecret of each end

vars == <<cfg, st, hello, pick, pre>>

NoHello == [suites |-> <<>>, sigs |-> <<>>]
NoPick == [suite |-> Zero, sig |-> Zero]

-----------------------------------------------------------------------------

Contains(s, x) == \E i \in DOMAIN s : s[i] = x
Elements(s) == {s[i] : i \in DOMAIN s}

\* The elements of s that are in T, in the order of s.
Kept(s, T) ==
    LET pos == {i \in DOMAIN s : s[i] \in T}
        nth(n) == CHOOSE i \in pos : Cardinality({j \in pos : j <= i}) = n
    IN  [n \in 1 .. Cardinality(pos) |-> s[nth(n)]]

\* The first element of b that a has, or the zero value.
Intersection(a, b) ==
    IF \E i \in DOMAIN b : Contains(a, b[i])
    THEN b[CHOOSE i \in DOMAIN b :
              Contains(a, b[i]) /\ \A j \in 1 .. i - 1 : ~Contains(a, b[j])]
    ELSE Zero

\* Mutant: the build's suite is put in front and left in its place.
CipherSuitesPreferenceOrderTwice(c) ==
    IF c.hybridBuild THEN <<HybridSuite, Sm2Suite, HybridSuite>> ELSE <<Sm2Suite>>

\* cipherSuitesPreferenceOrder: the hybrid build puts its suite first.
CipherSuitesPreferenceOrder(c) ==
    IF c.hybridBuild THEN <<HybridSuite, Sm2Suite>> ELSE <<Sm2Suite>>

\* The hybrid suite is a default only where the configuration enables it.
DefaultCipherSuitesForConfig(c) ==
    Kept(CipherSuitesPreferenceOrder(c),
         IF c.enableSM2MLKEM THEN {Sm2Suite, HybridSuite} ELSE {Sm2Suite})

\* Config.cipherSuites.
CipherSuites(c) ==
    IF c.cipherSuites # Zero THEN c.cipherSuites ELSE DefaultCipherSuitesForConfig(c)

\* Config.supportedSignatureAlgorithms when none are set.
SignatureSchemes(c) == IF c.signatureSchemes # Zero THEN c.signatureSchemes ELSE <<Sm2Sig>>

\* Mutant: the suites go out in the order of the configuration.
OfferedInConfigOrder(c) ==
    Kept(CipherSuites(c), Elements(CipherSuitesPreferenceOrder(c)))

\* makeHello: the known suites that are configured, in the order of the build.
Offered(c) ==
    Kept(CipherSuitesPreferenceOrder(c), Elements(CipherSuites(c)))

\* Mutant: a hybrid build loads the KEM keys for every suite.
KeysPresentAlways(c, suite) == c.hybridBuild => c.kemKeys

\* The helloMsg as the peer reads it.
Hello(c) == [suites |-> Offered(c), sigs |-> SignatureSchemes(c)]

\* mutualCipherSuite: a suite on offer is in the build's table of suites.
MutualCipherSuite(have, want) == Intersection(have, want)

\* newKeyAgreement: the hybrid one loads the KEM keys.
KeysPresent(c, suite) == suite = HybridSuite => c.kemKeys

\* ComputeSecret: what the SM2 key exchange gives to both ends.
Sm2Secret == "sm2"

\* Mutant: each end puts its own KEM secret first.
PreMasterOwnFirst(e, suite) ==
    IF suite = Sm2Suite THEN <<Sm2Secret>> ELSE <<Sm2Secret, e, Peer(e)>>

\* The pre-master secret: the SM2 secret both ends compute and, in the hybrid
\* suite, the secrets the two ends encapsulated, the initiator's first.
PreMaster(e, suite) ==
    IF suite = Sm2Suite THEN <<Sm2Secret>> ELSE <<Sm2Secret, Initiator, Responder>>

\* generateLocalKeyExchange: the layout is the suite's, and it names the scheme.
Kxm(e) == [layout |-> pick[e].suite, scheme |-> pick[e].sig]

\* typeAndHashFromSignatureScheme.
SigType(scheme) == IF scheme = Sm2Sig THEN "sm2" ELSE "other"

\* processRemoteKeyExchange: a message of the other layout does not parse, the
\* scheme must be the one this end chose, and the keys are SM2 keys.
KxmAccepted(e) ==
    /\ Kxm(Peer(e)).layout = pick[e].suite
    /\ Kxm(Peer(e)).scheme = pick[e].sig
    /\ SigType(pick[e].sig) = "sm2"

-----------------------------------------------------------------------------

Init ==
    /\ cfg \in [Ends -> Configs]
    /\ st = [e \in Ends |-> "start"]
    /\ hello = [e \in Ends |-> NoHello]
    /\ pick = [e \in Ends |-> NoPick]
    /\ pre = [e \in Ends |-> <<>>]

\* An end without signature schemes cannot say hello.
SayHello(e) ==
    /\ st[e] = "start"
    /\ LET ok == SignatureSchemes(cfg[e]) # <<>> IN
       /\ st' = [st EXCEPT ![e] = IF ok THEN "hello" ELSE "failed"]
       /\ hello' = [hello EXCEPT ![e] = IF ok THEN Hello(cfg[e]) ELSE NoHello]
    /\ UNCHANGED <<cfg, pick, pre>>

\* processHello (pickCipherSuite, pickSignatureScheme) and newKeyAgreement; then
\* the key exchange message goes out.
ProcessHello(e) ==
    LET p == Peer(e)
        choice == [suite |-> MutualCipherSuite(hello[e].suites, hello[p].suites),
                   sig   |-> Intersection(hello[e].sigs, hello[p].sigs)]
        ok == choice.suite # Zero /\ choice.sig # Zero /\ KeysPresent(cfg[e], choice.suite)
    IN
    /\ st[e] = "hello"
    /\ hello[p] # NoHello
    /\ st' = [st EXCEPT ![e] = IF ok THEN "picked" ELSE "failed"]
    /\ pick' = [pick EXCEPT ![e] = IF ok THEN choice ELSE NoPick]
    /\ UNCHANGED <<cfg, hello, pre>>

ProcessKxm(e) ==
    /\ st[e] = "picked"
    /\ pick[Peer(e)] # NoPick
    /\ st' = [st EXCEPT ![e] = IF KxmAccepted(e) THEN "done" ELSE "failed"]
    /\ pre' = [pre EXCEPT ![e] = IF KxmAccepted(e) THEN PreMaster(e, pick[e].suite) ELSE <<>>]
    /\ UNCHANGED <<cfg, hello, pick>>

Next == \E e \in Ends : SayHello(e) \/ ProcessHello(e) \/ ProcessKxm(e)

Spec == Init /\ [][Next]_vars

-----------------------------------------------------------------------------
(* Safety *)

\* A hello lists every suite and every scheme at most once.
TypeOK ==
    /\ cfg \in [Ends -> Configs]
    /\ hello \in [Ends -> [suites : Lists({Sm2Suite, HybridSuite}), sigs : Lists({Sm2Sig, OtherSig})]]
    /\ st \in [Ends -> {"start", "hello", "picked", "done", "failed"}]
    /\ pick \in [Ends -> [suite : {Sm2Suite, HybridSuite, Zero}, sig : {Sm2Sig, OtherSig, Zero}]]

\* Two ends that both accepted the other's key exchange have the same suite, the
\* same scheme and the same pre-master secret, though neither told the other what
\* it chose (pickCipherSuite, processRemoteKeyExchange of both key agreements).
SameOutcome ==
    (\A e \in Ends : st[e] = "done") =>
        pick[Initiator] = pick[Responder] /\ pre[Initiator] = pre[Responder]

\* Each end chooses the suite that is best by the order of the builds among those
\* both have on offer: the hybrid suite whenever both offer it
\* (mutualCipherSuite over the lists makeHello sorted).
BestSuite ==
    \A e \in Ends : st[e] \in {"picked", "done"} =>
        pick[e].suite =
            IF \A d \in Ends : Contains(Offered(cfg[d]), HybridSuite)
            THEN HybridSuite ELSE Sm2Suite

\* SM2 is in both lists of schemes, and no other common scheme comes before it in a.
PrefersSm2(a, b) ==
    /\ Contains(b, Sm2Sig)
    /\ \E i \in DOMAIN a : a[i] = Sm2Sig /\ \A j \in 1 .. i - 1 : ~Contains(b, a[j])

\* What two configurations need for a handshake: a suite in common, SM2 the first
\* choice of each list among the other's schemes, and the keys of the suite.
Compatible ==
    LET a == cfg[Initiator]
        b == cfg[Responder]
        common == Elements(Offered(a)) \cap Elements(Offered(b))
    IN
    /\ common # {}
    /\ PrefersSm2(SignatureSchemes(a), SignatureSchemes(b))
    /\ PrefersSm2(SignatureSchemes(b), SignatureSchemes(a))
    /\ HybridSuite \in common => a.kemKeys /\ b.kemKeys

\* Between compatible ends no handshake fails in the negotiation, whatever the
\* builds, the order of the configured suites and the other entries of the lists.
NoNeedlessFailure == Compatible => \A e \in Ends : st[e] # "failed"

=============================================================================
