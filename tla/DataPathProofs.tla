--------------------------- MODULE DataPathProofs ---------------------------
(***************************************************************************)
(* Type correctness of DataPath, the order of what the readLoop sends, and *)
(* that the data path implements AtMostOnce.                               *)
(*                                                                         *)
(* Every number the receiver has seen is in one place: lost, pending, in   *)
(* the readLoop's hands, in those of an expiry goroutine, or sent. The     *)
(* invariant says that the places are disjoint, that all that is in them   *)
(* is below whatever is still on the wire, and that the readLoop is ahead  *)
(* of the buffer: what it has sent or holds is below what is lost or       *)
(* pending. Its arithmetic is that of eight sets (Places), one lemma for   *)
(* each way in which the code moves a number from one place to another.    *)
(*                                                                         *)
(* The last part shows that records are opened in the order of sealing,    *)
(* from an invariant about the seals of the records on their way.          *)
(***************************************************************************)
EXTENDS DataPath, TLAPS

-----------------------------------------------------------------------------
(* The places of a message, as sets of numbers *)

\* l lost, p pending, b held by the readLoop, f held by expiry goroutines,
\* h sent, o sent by the readLoop; m messages numbered, w those on the wire.
Places(l, p, b, f, h, o, m, w) ==
    /\ l \cap p = {} /\ l \cap b = {} /\ l \cap f = {} /\ l \cap h = {}
    /\ p \cap b = {} /\ p \cap f = {} /\ p \cap h = {}
    /\ b \cap f = {} /\ b \cap h = {} /\ f \cap h = {}
    /\ o \subseteq h
    /\ w \subseteq 1 .. m
    /\ l \subseteq 1 .. m /\ p \subseteq 1 .. m /\ b \subseteq 1 .. m /\ f \subseteq 1 .. m
    /\ h \subseteq 1 .. m
    /\ \A x \in w : \A n \in l \union p \union b \union f \union h : n < x
    /\ \A n \in p : \E k \in l : k < n
    /\ \A k \in o : \A n \in l \union p \union b : k < n
    /\ \A k \in b : \A n \in l \union p : k < n

\* What hasBlockingGapLocked finds in a buffer of numbers.
LEMMA BlockedMeans ==
    ASSUME NEW l \in SUBSET Nat, NEW n \in Nat
    PROVE  Blocked(l, n) <=> \E k \in l : k > 0 /\ k < n
<1>1. ASSUME Blocked(l, n) PROVE \E k \in l : k > 0 /\ k < n
  BY <1>1 DEF Blocked, HasBlockingGap, LostRefs, Ref, SeqNo
<1>2. ASSUME NEW k \in l, k > 0, k < n PROVE Blocked(l, n)
  <2>1. Ref(TRUE, k) \in LostRefs(l) /\ SeqNo(Ref(TRUE, k)) = k
    BY DEF LostRefs, Ref, SeqNo
  <2>2. n # 0
    BY <1>2
  <2> QED BY <1>2, <2>1, <2>2 DEF Blocked, HasBlockingGap
<1> QED BY <1>1, <1>2

\* What flushReadyPendingLocked releases.
LEMMA ReleasedMeans ==
    ASSUME NEW m \in Nat, NEW l \in SUBSET (1 .. m), NEW p \in SUBSET (1 .. m)
    PROVE  /\ Released(l, p) \subseteq p
           /\ \A n \in p : n \in Released(l, p) <=> \A k \in l : ~(k < n)
<1>1. \A n \in p : n \in Released(l, p) <=> ~Blocked(l, n)
  BY DEF Released, Releasable, Blocked
<1>2. \A n \in p : Blocked(l, n) <=> \E k \in l : k < n
  BY BlockedMeans
<1>3. Released(l, p) \subseteq p
  BY DEF Released, Releasable
<1> QED BY <1>1, <1>2, <1>3

\* The server numbers one more message.
LEMMA PlaceAccept ==
    ASSUME NEW l, NEW p, NEW b, NEW f, NEW h, NEW o, NEW m \in Nat, NEW w,
           Places(l, p, b, f, h, o, m, w)
    PROVE  Places(l, p, b, f, h, o, m + 1, w \union {m + 1})
BY DEF Places

\* A record leaves the wire and changes nothing else.
LEMMA PlaceDrop ==
    ASSUME NEW l, NEW p, NEW b, NEW f, NEW h, NEW o, NEW m \in Nat, NEW w, NEW v \in SUBSET w,
           Places(l, p, b, f, h, o, m, w)
    PROVE  Places(l, p, b, f, h, o, m, v)
BY DEF Places

\* markLostInbound.
LEMMA PlaceLost ==
    ASSUME NEW l, NEW p, NEW b, NEW f, NEW h, NEW o, NEW m \in Nat, NEW w,
           NEW n \in w, NEW v \in SUBSET w, \A x \in v : n < x,
           Places(l, p, b, f, h, o, m, w)
    PROVE  Places(l \union {n}, p, b, f, h, o, m, v)
BY DEF Places

\* deliverApplication behind a gap.
LEMMA PlaceHold ==
    ASSUME NEW l, NEW p, NEW b, NEW f, NEW h, NEW o, NEW m \in Nat, NEW w,
           NEW n \in w, NEW v \in SUBSET w, \A x \in v : n < x,
           Places(l, p, b, f, h, o, m, w), Blocked(l, n)
    PROVE  Places(l, p \union {n}, b, f, h, o, m, v)
<1>1. n \in Nat /\ l \in SUBSET Nat
  BY DEF Places
<1>2. \E k \in l : k < n
  BY <1>1, BlockedMeans
<1> QED BY <1>2 DEF Places

\* deliverApplication without a gap: everything older has been dealt with.
LEMMA PlaceSend ==
    ASSUME NEW l, NEW p, NEW b, NEW f, NEW h, NEW o, NEW m \in Nat, NEW w,
           NEW n \in w, NEW v \in SUBSET w, \A x \in v : n < x,
           Places(l, p, b, f, h, o, m, w), ~Blocked(l, n)
    PROVE  Places(l, p, {n}, f, h, o, m, v)
<1>1. n \in Nat /\ l \in SUBSET Nat /\ l \subseteq 1 .. m /\ \A k \in l : k < n
  BY DEF Places
<1>2. l = {}
  BY <1>1, BlockedMeans
<1>3. p = {}
  BY <1>2 DEF Places
<1> QED BY <1>2, <1>3 DEF Places

\* flushReadyPending in the readLoop.
LEMMA PlaceFlush ==
    ASSUME NEW l, NEW p, NEW b, NEW f, NEW h, NEW o, NEW m \in Nat, NEW w,
           Places(l, p, b, f, h, o, m, w)
    PROVE  Places(l, p \ Released(l, p), Released(l, p), f, h, o, m, w)
<1> DEFINE r == Released(l, p)
<1>0. l \in SUBSET (1 .. m) /\ p \in SUBSET (1 .. m)
  BY DEF Places
<1>1. r \subseteq p /\ \A n \in p : n \in r <=> \A k \in l : ~(k < n)
  BY <1>0, ReleasedMeans
<1> HIDE DEF r
<1>2. l \cap r = {}
  BY <1>1 DEF Places
<1>3. \A n \in p \ r : \E k \in l : k < n
  BY <1>1
<1>4. ASSUME NEW x \in r, NEW n \in l PROVE x < n
  <2>1. x \in Nat /\ n \in Nat /\ x # n /\ ~(n < x)
    BY <1>0, <1>1, <1>2
  <2> QED BY <2>1
<1>5. ASSUME NEW x \in r, NEW n \in p \ r PROVE x < n
  <2>1. PICK k \in l : k < n
    BY <1>3
  <2>2. x \in Nat /\ n \in Nat /\ k \in Nat /\ x < k
    BY <1>0, <1>1, <1>4
  <2> QED BY <2>1, <2>2
<1>6. Places(l, p \ r, r, f, h, o, m, w)
  BY <1>1, <1>2, <1>3, <1>4, <1>5 DEF Places
<1> QED BY <1>6 DEF r

\* expireLostInbound.
LEMMA PlaceExpire ==
    ASSUME NEW l, NEW p, NEW b, NEW f, NEW h, NEW o, NEW m \in Nat, NEW w, NEW n \in l,
           Places(l, p, b, f, h, o, m, w)
    PROVE  LET r == Released(l \ {n}, p) IN Places(l \ {n}, p \ r, b, f \union r, h, o, m, w)
<1> DEFINE r == Released(l \ {n}, p)
<1>1. r \subseteq p /\ \A x \in p : x \in r <=> \A k \in l \ {n} : ~(k < x)
  <2> DEFINE e == l \ {n}
  <2>1. e \in SUBSET (1 .. m) /\ p \in SUBSET (1 .. m)
    BY DEF Places
  <2> HIDE DEF e
  <2>2. Released(e, p) \subseteq p /\ \A x \in p : x \in Released(e, p) <=> \A k \in e : ~(k < x)
    BY <2>1, ReleasedMeans
  <2> QED BY <2>2 DEF e
<1> HIDE DEF r
<1>2. \A x \in p \ r : \E k \in l \ {n} : k < x
  BY <1>1
<1>3. /\ (p \ r) \cap (f \union r) = {} /\ (l \ {n}) \cap (f \union r) = {}
      /\ b \cap (f \union r) = {} /\ (f \union r) \cap h = {}
      /\ f \union r \subseteq 1 .. m
  BY <1>1 DEF Places
<1>4. (l \ {n}) \union (p \ r) \union b \union (f \union r) \union h \subseteq l \union p \union b \union f \union h
  BY <1>1
<1>5. \A x \in w : \A y \in (l \ {n}) \union (p \ r) \union b \union (f \union r) \union h : y < x
  BY <1>4 DEF Places
<1>6. Places(l \ {n}, p \ r, b, f \union r, h, o, m, w)
  BY <1>2, <1>3, <1>5 DEF Places
<1> QED BY <1>6 DEF r

\* handleRetransmit of a message that is behind a gap still ...
LEMMA PlaceRestoreHeld ==
    ASSUME NEW l, NEW p, NEW b, NEW f, NEW h, NEW o, NEW m \in Nat, NEW w, NEW n \in l,
           Places(l, p, b, f, h, o, m, w), Blocked(l \ {n}, n)
    PROVE  LET r == Released(l \ {n}, p \union {n})
           IN  Places(l \ {n}, (p \union {n}) \ r, r, f, h, o, m, w)
<1> DEFINE s == l \ {n}
<1> DEFINE q == p \union {n}
<1>1. \E k \in s : k < n
  <2>1. s \in SUBSET Nat /\ n \in Nat
    BY DEF Places
  <2> QED BY <2>1, BlockedMeans
<1>2. \A x \in p : \E k \in s : k < x
  <2> SUFFICES ASSUME NEW x \in p PROVE \E k \in s : k < x
    OBVIOUS
  <2>1. PICK k \in l : k < x
    BY DEF Places
  <2>2. CASE k = n
    <3>1. PICK j \in s : j < n
      BY <1>1
    <3>2. j \in Nat /\ n \in Nat /\ x \in Nat
      BY DEF Places
    <3> QED BY <2>1, <2>2, <3>1, <3>2
  <2> QED BY <2>1, <2>2
<1>3. Places(s, q, {}, f, h, o, m, w)
  BY <1>1, <1>2 DEF Places
<1> HIDE DEF s, q
<1>4. LET r == Released(s, q) IN Places(s, q \ r, r, f, h, o, m, w)
  BY <1>3, PlaceFlush
<1> QED BY <1>4 DEF s, q

\* ... and of one that is not.
LEMMA PlaceRestoreSent ==
    ASSUME NEW l, NEW p, NEW b, NEW f, NEW h, NEW o, NEW m \in Nat, NEW w, NEW n \in l,
           Places(l, p, b, f, h, o, m, w), ~Blocked(l \ {n}, n)
    PROVE  LET r == Released(l \ {n}, p)
           IN  Places(l \ {n}, p \ r, {n} \union r, f, h, o, m, w)
<1> DEFINE s == l \ {n}
<1> DEFINE r == Released(s, p)
<1>0. s \in SUBSET (1 .. m) /\ s \in SUBSET Nat /\ p \in SUBSET (1 .. m) /\ n \in Nat
  BY DEF Places
<1>a. n \notin s /\ ~Blocked(s, n) /\ s \subseteq l
  OBVIOUS
<1> HIDE DEF s
<1>1. r \subseteq p /\ \A x \in p : x \in r <=> \A k \in s : ~(k < x)
  BY <1>0, ReleasedMeans
<1>2. ASSUME NEW k \in s PROVE n < k
  <2>1. ~(k > 0 /\ k < n)
    BY <1>0, <1>a, BlockedMeans
  <2>2. k \in 1 .. m /\ k # n
    BY <1>0, <1>a
  <2> QED BY <1>0, <2>1, <2>2
<1> HIDE DEF r
<1>3. \A x \in p \ r : \E k \in s : k < x
  BY <1>1
<1>4. s \cap r = {} /\ n \notin p /\ n \notin r
  BY <1>1, <1>a DEF Places
<1>5. ASSUME NEW x \in {n} \union r, NEW k \in s PROVE x < k
  <2>1. x \in Nat /\ k \in Nat /\ x # k /\ ~(k < x)
    BY <1>0, <1>1, <1>2, <1>4
  <2> QED BY <2>1
<1>6. ASSUME NEW x \in {n} \union r, NEW y \in p \ r PROVE x < y
  <2>1. PICK k \in s : k < y
    BY <1>3
  <2>2. x \in Nat /\ y \in Nat /\ k \in Nat /\ x < k
    BY <1>0, <1>1, <1>5
  <2> QED BY <2>1, <2>2
<1>7. Places(s, p \ r, {n} \union r, f, h, o, m, w)
  BY <1>1, <1>3, <1>4, <1>5, <1>6 DEF Places, s
<1> QED BY <1>7 DEF r, s

\* The readLoop sends n on msgChan, and has c left to send.
LEMMA PlaceRlSent ==
    ASSUME NEW l, NEW p, NEW b, NEW f, NEW h, NEW o, NEW m \in Nat, NEW w,
           NEW n \in b, NEW c \in SUBSET (b \ {n}), \A k \in c : n < k,
           NEW q \in SUBSET (o \union {n}), Places(l, p, b, f, h, o, m, w)
    PROVE  Places(l, p, c, f, h \union {n}, q, m, w)
BY DEF Places

\* An expiry goroutine sends n on msgChan.
LEMMA PlaceExpirySent ==
    ASSUME NEW l, NEW p, NEW b, NEW f, NEW h, NEW o, NEW m \in Nat, NEW w,
           NEW n \in f, NEW q \in SUBSET o, Places(l, p, b, f, h, o, m, w)
    PROVE  Places(l, p, b, f \ {n}, h \union {n}, q, m, w)
BY DEF Places

-----------------------------------------------------------------------------
(* Sequences *)

\* The numbers of the application records on the wire.
AppNumbers(w) == {w[i].n : i \in {j \in DOMAIN w : w[j].body.typ = "app"}}

\* They are on the wire in the order of their numbers.
WireSorted(w) ==
    \A i, j \in DOMAIN w :
        i < j /\ w[i].body.typ = "app" /\ w[j].body.typ = "app" => w[i].n < w[j].n

\* What a sequence is made of, and that it is made of it once.
Elements(s) == {s[i] : i \in DOMAIN s}
NoRepeat(s) == \A i, j \in DOMAIN s : s[i] = s[j] => i = j

LEMMA AppendFacts ==
    ASSUME NEW T, NEW s \in Seq(T), NEW e \in T
    PROVE  /\ Append(s, e) \in Seq(T)
           /\ Len(s) \in Nat
           /\ Len(Append(s, e)) = Len(s) + 1
           /\ DOMAIN s = 1 .. Len(s)
           /\ DOMAIN Append(s, e) = 1 .. Len(s) + 1
           /\ \A i \in DOMAIN s : Append(s, e)[i] = s[i]
           /\ Append(s, e)[Len(s) + 1] = e
OBVIOUS

LEMMA TailFacts ==
    ASSUME NEW T, NEW s \in Seq(T), s # <<>>
    PROVE  /\ Tail(s) \in Seq(T)
           /\ Head(s) \in T
           /\ Head(s) = s[1]
           /\ Len(s) \in Nat /\ Len(s) > 0
           /\ DOMAIN s = 1 .. Len(s)
           /\ DOMAIN Tail(s) = 1 .. Len(s) - 1
           /\ \A i \in DOMAIN Tail(s) : Tail(s)[i] = s[i + 1]
OBVIOUS

\* A record is written.
LEMMA WireAppend ==
    ASSUME NEW w \in Seq(Records), NEW rec \in Records, WireSorted(w),
           rec.body.typ = "app" => \A x \in AppNumbers(w) : x < rec.n
    PROVE  /\ WireSorted(Append(w, rec))
           /\ rec.body.typ = "app" => AppNumbers(Append(w, rec)) = AppNumbers(w) \union {rec.n}
           /\ rec.body.typ # "app" => AppNumbers(Append(w, rec)) = AppNumbers(w)
<1> DEFINE v == Append(w, rec)
<1> DEFINE L == Len(w)
<1>1. /\ L \in Nat /\ DOMAIN w = 1 .. L /\ DOMAIN v = 1 .. L + 1
      /\ \A i \in DOMAIN w : v[i] = w[i]
      /\ v[L + 1] = rec
  BY AppendFacts
<1> HIDE DEF v, L
<1>2. \A i \in DOMAIN v : i \in DOMAIN w \/ i = L + 1
  BY <1>1
<1>3. DOMAIN w \subseteq DOMAIN v /\ L + 1 \in DOMAIN v /\ \A i \in DOMAIN w : i < L + 1
  BY <1>1
<1>4. WireSorted(v)
  <2> SUFFICES ASSUME NEW i \in DOMAIN v, NEW j \in DOMAIN v, i < j, v[i].body.typ = "app",
                      v[j].body.typ = "app"
               PROVE  v[i].n < v[j].n
    BY DEF WireSorted
  <2>1. i \in DOMAIN w
    BY <1>1
  <2>2. CASE j \in DOMAIN w
    BY <1>1, <2>1, <2>2 DEF WireSorted
  <2>3. CASE j = L + 1
    <3>1. w[i].n \in AppNumbers(w)
      BY <1>1, <2>1 DEF AppNumbers
    <3> QED BY <1>1, <2>1, <2>3, <3>1
  <2> QED BY <1>2, <2>2, <2>3
<1>5. ASSUME rec.body.typ = "app" PROVE AppNumbers(v) = AppNumbers(w) \union {rec.n}
  BY <1>1, <1>2, <1>3, <1>5 DEF AppNumbers
<1>6. ASSUME rec.body.typ # "app" PROVE AppNumbers(v) = AppNumbers(w)
  BY <1>1, <1>2, <1>3, <1>6 DEF AppNumbers
<1> QED BY <1>4, <1>5, <1>6 DEF v

\* The next record is taken.
LEMMA WireTail ==
    ASSUME NEW w \in Seq(Records), w # <<>>, WireSorted(w)
    PROVE  /\ WireSorted(Tail(w))
           /\ AppNumbers(Tail(w)) \subseteq AppNumbers(w)
           /\ Head(w).body.typ = "app" => /\ Head(w).n \in AppNumbers(w)
                                          /\ \A x \in AppNumbers(Tail(w)) : Head(w).n < x
<1> DEFINE v == Tail(w)
<1> DEFINE L == Len(w)
<1>1. /\ L \in Nat /\ L > 0 /\ DOMAIN w = 1 .. L /\ DOMAIN v = 1 .. L - 1
      /\ \A i \in DOMAIN v : v[i] = w[i + 1]
      /\ Head(w) = w[1]
  BY TailFacts
<1> HIDE DEF v, L
<1>2. 1 \in DOMAIN w /\ \A i \in DOMAIN v : i \in Nat /\ i + 1 \in DOMAIN w /\ 1 < i + 1
  BY <1>1
<1>3. WireSorted(v)
  BY <1>1, <1>2 DEF WireSorted
<1>4. AppNumbers(v) \subseteq AppNumbers(w)
  BY <1>1, <1>2 DEF AppNumbers
<1>5. ASSUME Head(w).body.typ = "app"
      PROVE  Head(w).n \in AppNumbers(w) /\ \A x \in AppNumbers(v) : Head(w).n < x
  BY <1>1, <1>2, <1>5 DEF AppNumbers, WireSorted
<1> QED BY <1>3, <1>4, <1>5 DEF v

\* A message is sent on msgChan.
LEMMA EmittedAppend ==
    ASSUME NEW s \in Seq(Nat), NEW n \in Nat
    PROVE  /\ Elements(Append(s, n)) = Elements(s) \union {n}
           /\ NoRepeat(s) /\ n \notin Elements(s) => NoRepeat(Append(s, n))
<1> DEFINE v == Append(s, n)
<1> DEFINE L == Len(s)
<1>1. /\ L \in Nat /\ DOMAIN s = 1 .. L /\ DOMAIN v = 1 .. L + 1
      /\ \A i \in DOMAIN s : v[i] = s[i]
      /\ v[L + 1] = n
  BY AppendFacts
<1> HIDE DEF v, L
<1>2. /\ \A i \in DOMAIN v : i \in DOMAIN s \/ i = L + 1
      /\ DOMAIN s \subseteq DOMAIN v /\ L + 1 \in DOMAIN v
  BY <1>1
<1>3. Elements(v) = Elements(s) \union {n}
  BY <1>1, <1>2 DEF Elements
<1>4. ASSUME NoRepeat(s), n \notin Elements(s) PROVE NoRepeat(v)
  BY <1>1, <1>2, <1>4 DEF NoRepeat, Elements
<1> QED BY <1>3, <1>4 DEF v

-----------------------------------------------------------------------------
(* Types *)

\* A sender past Handshake holds the key of a session, one with a record in hand
\* has a record.
SendersOK ==
    \A s \in Senders :
        /\ wr[s].pc = "ready" => wr[s].key \in 1 .. MaxGen
        /\ wr[s].pc = "sealed" => wr[s].rec \in Records

\* A request was sent in a session with a cipher.
RequestsOK == \A r \in requests : r.key # 0

TypeInv == TypeOK /\ SendersOK /\ RequestsOK

LEMMA NewHalfConnType ==
    ASSUME NEW key \in Nat PROVE NewHalfConn(key) \in HalfConns
BY DEF NewHalfConn, NewContext, HalfConns, Contexts

LEMMA EncryptedType ==
    ASSUME NEW hc \in HalfConns, NEW body \in Bodies
    PROVE  Encrypted(hc, body) \in HalfConns /\ Encrypted(hc, body).ctx.tag \in Tags
<1> DEFINE ctx == hc.ctx
<1> DEFINE seq == hc.seq
<1>1. ctx \in Contexts /\ seq \in Nat
  BY DEF HalfConns
<1> HIDE DEF ctx, seq
<1>2. SetAAD(ctx, seq) \in Contexts /\ SetAAD(ctx, seq).key \in Nat /\ SetAAD(ctx, seq).aad = seq
  BY <1>1 DEF SetAAD, Contexts
<1>3. ASSUME NEW c \in Contexts, c.key \in Nat, c.aad = seq
      PROVE  EncryptAll(c, body) \in Contexts /\ EncryptAll(c, body).tag \in Tags
  BY <1>1, <1>3 DEF EncryptAll, SetTag, Tag, Contexts, Tags
<1>4. Seal(ctx, seq, body) \in Contexts /\ Seal(ctx, seq, body).tag \in Tags
  BY <1>2, <1>3 DEF Seal
<1> QED BY <1>1, <1>4 DEF Encrypted, HalfConns, ctx, seq

LEMMA DecryptedType ==
    ASSUME NEW hc \in HalfConns, NEW rec \in Records
    PROVE  Decrypted(hc, rec) \in HalfConns
<1> DEFINE ctx == hc.ctx
<1> DEFINE seq == hc.seq
<1> DEFINE tag == rec.tag
<1>1. ctx \in Contexts /\ seq \in Nat /\ tag \in Tags \union {Nil}
  BY DEF HalfConns, Records
<1> HIDE DEF ctx, seq, tag
<1>2. SetAAD(ctx, seq) \in Contexts
  BY <1>1 DEF SetAAD, Contexts
<1>3. ASSUME NEW c \in Contexts PROVE SetTag(c, tag) \in Contexts
  BY <1>1 DEF SetTag, Contexts
<1> QED BY <1>1, <1>2, <1>3 DEF Decrypted, OpenWith, HalfConns, ctx, seq, tag

LEMMA RecordType ==
    ASSUME NEW body \in Bodies, NEW tag \in Tags \union {Nil} PROVE Record(body, tag) \in Records
BY DEF Record, Records

LEMMA ReleasedType ==
    ASSUME NEW l, NEW p \in SUBSET Nat PROVE Released(l, p) \in SUBSET Nat
BY DEF Released, Releasable

LEMMA SendingType ==
    ASSUME NEW b \in SUBSET Nat
    PROVE  /\ Sending(b) \in [pc : {"idle", "send", "flush", "emit"}, batch : SUBSET Nat]
           /\ Sending(b).batch = b
BY DEF Sending, Idle

\* The send cache stays a sequence of ids.
LEMMA CacheType ==
    ASSUME TypeOK, NEW id \in Nat PROVE CacheOutbound(id) \in Seq(Nat)
<1>1. Append(cache, id) \in Seq(Nat) /\ Len(cache) \in Nat /\ Len(Append(cache, id)) = Len(cache) + 1
  BY DEF TypeOK
<1>2. Append(cache, id) # <<>>
  BY <1>1
<1>3. Tail(Append(cache, id)) \in Seq(Nat)
  BY <1>1, <1>2
<1> QED BY <1>1, <1>3 DEF CacheOutbound

\* A sender has sealed a record.
LEMMA SealType ==
    ASSUME TypeInv, NEW s \in Senders, NEW key \in 1 .. MaxGen, NEW body \in Bodies,
           SealInHand(s, key, body)
    PROVE  /\ out' \in [1 .. MaxGen -> HalfConns]
           /\ wr' \in [Senders -> [pc : {"idle", "ready", "sealed"}, key : 0 .. MaxGen,
                                   rec : Records \union {Nil}]]
           /\ SendersOK'
<1> DEFINE hc == Encrypted(out[key], body)
<1> DEFINE rec == Record(body, hc.ctx.tag)
<1>1. out[key] \in HalfConns
  BY DEF TypeInv, TypeOK
<1>2. hc \in HalfConns /\ hc.ctx.tag \in Tags
  BY <1>1, EncryptedType
<1>3. rec \in Records
  BY <1>2, RecordType
<1>4. /\ out' = [out EXCEPT ![key] = hc]
      /\ wr' = [wr EXCEPT ![s] = [pc |-> "sealed", key |-> key, rec |-> rec]]
  BY DEF SealInHand
<1> HIDE DEF hc, rec
<1>5. out' \in [1 .. MaxGen -> HalfConns]
  BY <1>2, <1>4 DEF TypeInv, TypeOK
<1>6. key \in 0 .. MaxGen
  BY BoundsAssumption
<1>7. wr' \in [Senders -> [pc : {"idle", "ready", "sealed"}, key : 0 .. MaxGen,
                           rec : Records \union {Nil}]]
  BY <1>3, <1>4, <1>6 DEF TypeInv, TypeOK
<1>8. SendersOK'
  <2> SUFFICES ASSUME NEW a \in Senders
               PROVE  /\ wr'[a].pc = "ready" => wr'[a].key \in 1 .. MaxGen
                      /\ wr'[a].pc = "sealed" => wr'[a].rec \in Records
    BY DEF SendersOK
  <2>1. CASE a = s
    BY <1>3, <1>4, <2>1 DEF TypeInv, TypeOK
  <2>2. CASE a # s
    BY <1>4, <2>2 DEF TypeInv, TypeOK, SendersOK
  <2> QED BY <2>1, <2>2
<1> QED BY <1>5, <1>7, <1>8

\* A sender without a record in hand.
LEMMA PutDownType ==
    ASSUME TypeInv, NEW s \in Senders, NEW pc \in {"idle", "ready"}, NEW key \in 0 .. MaxGen,
           pc = "ready" => key \in 1 .. MaxGen,
           wr' = [wr EXCEPT ![s] = [pc |-> pc, key |-> key, rec |-> Nil]]
    PROVE  /\ wr' \in [Senders -> [pc : {"idle", "ready", "sealed"}, key : 0 .. MaxGen,
                                   rec : Records \union {Nil}]]
           /\ SendersOK'
<1>1. wr' \in [Senders -> [pc : {"idle", "ready", "sealed"}, key : 0 .. MaxGen,
                           rec : Records \union {Nil}]]
  BY DEF TypeInv, TypeOK
<1>2. SendersOK'
  <2> SUFFICES ASSUME NEW a \in Senders
               PROVE  /\ wr'[a].pc = "ready" => wr'[a].key \in 1 .. MaxGen
                      /\ wr'[a].pc = "sealed" => wr'[a].rec \in Records
    BY DEF SendersOK
  <2>1. CASE a = s
    BY <2>1 DEF TypeInv, TypeOK
  <2>2. CASE a # s
    BY <2>2 DEF TypeInv, TypeOK, SendersOK
  <2> QED BY <2>1, <2>2
<1> QED BY <1>1, <1>2

LEMMA TypeInit == Init => TypeInv
<1> SUFFICES ASSUME Init PROVE TypeInv
  OBVIOUS
<1>1. /\ {ChanCap, CacheCap, MaxWrites, MaxGen, MaxFaults} \subseteq Nat
      /\ ChanCap \in Nat /\ MaxWrites \in Nat /\ MaxGen \in Nat /\ MaxFaults \in Nat
  BY BoundsAssumption
<1>2. out \in [1 .. MaxGen -> HalfConns] /\ in \in HalfConns
  BY <1>1, NewHalfConnType DEF Init, NoCipher
<1>3. /\ wr \in [Senders -> [pc : {"idle", "ready", "sealed"}, key : 0 .. MaxGen,
                             rec : Records \union {Nil}]]
      /\ SendersOK
  BY <1>1 DEF Init, NoRecord, SendersOK
<1>4. connected \in BOOLEAN
  BY DEF Init
<1>5. rl \in [pc : {"idle", "send", "flush", "emit"}, batch : SUBSET Nat]
  BY DEF Init, Idle
<1>6. RequestsOK
  BY DEF Init, RequestsOK
<1> QED BY <1>1, <1>2, <1>3, <1>4, <1>5, <1>6 DEF Init, TypeInv, TypeOK

LEMMA RekeyType == ASSUME TypeInv, Rekey PROVE TypeInv'
<1> DEFINE rec == Record([typ |-> "handshake", of |-> gen + 1], Nil)
<1>1. gen + 1 \in 0 .. MaxGen /\ gen + 1 \in Nat
  BY BoundsAssumption DEF TypeInv, TypeOK, Rekey
<1>2. rec \in Records
  BY <1>1, RecordType DEF Bodies
<1>3. wire' = Append(wire, rec)
  BY DEF Rekey
<1> HIDE DEF rec
<1>4. wire' \in Seq(Records)
  BY <1>2, <1>3 DEF TypeInv, TypeOK
<1> QED BY <1>1, <1>4 DEF TypeInv, TypeOK, Rekey, SendersOK, RequestsOK, reorderVars, requestVars, chanVars

LEMMA WriteStartType == ASSUME TypeInv, NEW s \in Writers, WriteStart(s) PROVE TypeInv'
<1>1. gen \in 1 .. MaxGen /\ gen \in 0 .. MaxGen /\ s \in Senders
  BY BoundsAssumption DEF TypeInv, TypeOK, WriteStart, Senders
<1>2. wr' = [wr EXCEPT ![s] = [pc |-> "ready", key |-> gen, rec |-> Nil]]
  BY DEF WriteStart
<1>3. /\ wr' \in [Senders -> [pc : {"idle", "ready", "sealed"}, key : 0 .. MaxGen,
                              rec : Records \union {Nil}]]
      /\ SendersOK'
  BY <1>1, <1>2, PutDownType
<1> QED BY <1>3 DEF TypeInv, TypeOK, WriteStart, RequestsOK, reorderVars, requestVars, chanVars

LEMMA WriteSealType == ASSUME TypeInv, NEW s \in Writers, WriteSeal(s) PROVE TypeInv'
<1> DEFINE body == [typ |-> "app", of |-> written + 1]
<1>1. written + 1 \in 0 .. MaxWrites /\ written + 1 \in Nat
  BY BoundsAssumption DEF TypeInv, TypeOK, WriteSeal
<1>2. body \in Bodies /\ s \in Senders
  BY <1>1 DEF Bodies, Senders
<1>3. wr[s].key \in 1 .. MaxGen
  BY <1>2 DEF TypeInv, SendersOK, WriteSeal
<1>4. SealInHand(s, wr[s].key, body)
  BY DEF WriteSeal
<1> HIDE DEF body
<1>5. /\ out' \in [1 .. MaxGen -> HalfConns]
      /\ wr' \in [Senders -> [pc : {"idle", "ready", "sealed"}, key : 0 .. MaxGen,
                              rec : Records \union {Nil}]]
      /\ SendersOK'
  BY <1>2, <1>3, <1>4, SealType
<1>6. cache' \in Seq(Nat)
  BY <1>1, CacheType DEF WriteSeal, TypeInv
<1> QED BY <1>1, <1>5, <1>6 DEF TypeInv, TypeOK, WriteSeal, RequestsOK, reorderVars, requestVars, chanVars

LEMMA WritePutType == ASSUME TypeInv, NEW s \in Senders, WritePut(s) PROVE TypeInv'
<1> DEFINE rec == wr[s].rec
<1> DEFINE k == IF rec.body.typ = "app" THEN Len(store) + 1 ELSE 0
<1>1. rec \in Records
  BY DEF TypeInv, SendersOK, WritePut
<1>2. rec.body.of \in Nat /\ k \in Nat
  BY <1>1 DEF Records, Bodies, TypeInv, TypeOK
<1>3. [rec EXCEPT !.n = k] \in Records
  BY <1>1, <1>2 DEF Records
<1>4. /\ store' = IF rec.body.typ = "app" THEN Append(store, rec.body.of) ELSE store
      /\ wire' = Append(wire, [rec EXCEPT !.n = k])
      /\ wr' = [wr EXCEPT ![s] = [pc |-> "idle", key |-> 0, rec |-> Nil]]
  BY DEF WritePut, NoRecord
<1> HIDE DEF rec, k
<1>5. store' \in Seq(Nat) /\ wire' \in Seq(Records)
  BY <1>2, <1>3, <1>4 DEF TypeInv, TypeOK
<1>6. /\ wr' \in [Senders -> [pc : {"idle", "ready", "sealed"}, key : 0 .. MaxGen,
                              rec : Records \union {Nil}]]
      /\ SendersOK'
  <2>1. 0 \in 0 .. MaxGen
    BY BoundsAssumption
  <2> QED BY <1>4, <2>1, PutDownType
<1> QED BY <1>5, <1>6 DEF TypeInv, TypeOK, WritePut, RequestsOK, reorderVars, requestVars, chanVars

LEMMA FaultType ==
    ASSUME faults \in 0 .. MaxFaults, Fault \/ UNCHANGED faults PROVE faults' \in 0 .. MaxFaults
BY BoundsAssumption DEF Fault

LEMMA WriteFailsType == ASSUME TypeInv, NEW s \in Senders, WriteFails(s) PROVE TypeInv'
<1>1. wr' = [wr EXCEPT ![s] = [pc |-> "idle", key |-> 0, rec |-> Nil]] /\ 0 \in 0 .. MaxGen
  BY BoundsAssumption DEF WriteFails, NoRecord
<1>2. /\ wr' \in [Senders -> [pc : {"idle", "ready", "sealed"}, key : 0 .. MaxGen,
                              rec : Records \union {Nil}]]
      /\ SendersOK'
  BY <1>1, PutDownType
<1>3. connected' \in BOOLEAN
  BY DEF WriteFails
<1>4. faults' \in 0 .. MaxFaults
  <2>1. Fault \/ UNCHANGED faults
    BY DEF WriteFails
  <2>2. faults \in 0 .. MaxFaults
    BY DEF TypeInv, TypeOK
  <2> QED BY <2>1, <2>2, FaultType
<1>5. UNCHANGED <<gen, out, written, cache, store, wire, in, lost, pending, asking, requests, rl,
                  expiries, emitted, nread, byExpiry, opened>>
  BY DEF WriteFails, reorderVars, requestVars, chanVars
<1> QED BY <1>2, <1>3, <1>4, <1>5 DEF TypeInv, TypeOK, RequestsOK

LEMMA DialType == ASSUME TypeInv, Dial PROVE TypeInv'
BY DEF TypeInv, TypeOK, SendersOK, RequestsOK, Dial, reorderVars, requestVars, chanVars

LEMMA AnswerLostType == ASSUME TypeInv, NEW r \in requests, AnswerLost(r) PROVE TypeInv'
<1> DEFINE body == [typ |-> "retransmit", of |-> r.n]
<1>1. body \in Bodies
  BY DEF Bodies, TypeInv, TypeOK
<1>2. (SealInHand(ReadLoop, gen, body) /\ r.key = gen) \/ UNCHANGED <<out, wr>>
  BY DEF AnswerLost
<1> HIDE DEF body
<1>3. /\ out' \in [1 .. MaxGen -> HalfConns]
      /\ wr' \in [Senders -> [pc : {"idle", "ready", "sealed"}, key : 0 .. MaxGen,
                              rec : Records \union {Nil}]]
      /\ SendersOK'
  <2>1. CASE SealInHand(ReadLoop, gen, body) /\ r.key = gen
    <3>1. gen \in 1 .. MaxGen
      BY <2>1 DEF TypeInv, TypeOK, RequestsOK
    <3>2. ReadLoop \in Senders
      BY DEF Senders
    <3> QED BY <1>1, <2>1, <3>1, <3>2, SealType
  <2>2. CASE UNCHANGED <<out, wr>>
    BY <2>2 DEF TypeInv, TypeOK, SendersOK
  <2> QED BY <1>2, <2>1, <2>2
<1> QED BY <1>3 DEF TypeInv, TypeOK, AnswerLost, RequestsOK, reorderVars, chanVars

LEMMA RelayDropType == ASSUME TypeInv, RelayDrop PROVE TypeInv'
<1>1. wire' \in Seq(Records)
  BY TailFacts DEF RelayDrop, TypeInv, TypeOK
<1>2. faults' \in 0 .. MaxFaults
  BY FaultType DEF RelayDrop, TypeInv, TypeOK
<1> QED BY <1>1, <1>2 DEF TypeInv, TypeOK, SendersOK, RequestsOK, RelayDrop, senderVars, reorderVars,
          requestVars, chanVars

LEMMA CloseSessionType == ASSUME CloseSession PROVE in' \in HalfConns /\ asking' = {}
BY NewHalfConnType DEF CloseSession, NoCipher

LEMMA SessionEndsType == ASSUME TypeInv, SessionEnds PROVE TypeInv'
<1>1. in' \in HalfConns /\ asking' = {}
  BY CloseSessionType DEF SessionEnds
<1>2. faults' \in 0 .. MaxFaults
  BY FaultType DEF SessionEnds, TypeInv, TypeOK
<1> QED BY <1>1, <1>2 DEF TypeInv, TypeOK, SendersOK, RequestsOK, SessionEnds, senderVars, reorderVars,
          chanVars

\* What a record does to the reorder buffer and to the readLoop.
BufferType ==
    /\ lost \subseteq Nat /\ pending \subseteq Nat
    /\ rl \in [pc : {"idle", "send", "flush", "emit"}, batch : SUBSET Nat]

LEMMA DeliverType ==
    ASSUME BufferType, NEW n \in Nat, DeliverApplication(n) PROVE BufferType'
<1>1. CASE Blocked(lost, n)
  BY <1>1 DEF BufferType, DeliverApplication
<1>2. CASE ~Blocked(lost, n)
  <2>1. rl' = [pc |-> "send", batch |-> {n}] /\ {n} \in SUBSET Nat /\ UNCHANGED <<lost, pending>>
    BY <1>2 DEF DeliverApplication
  <2> QED BY <2>1 DEF BufferType
<1> QED BY <1>1, <1>2

LEMMA RetransmitType ==
    ASSUME BufferType, NEW n \in Nat, HandleRetransmit(n) PROVE BufferType'
<1>1. CASE n \notin lost
  BY <1>1 DEF BufferType, HandleRetransmit
<1>2. CASE n \in lost
  <2> DEFINE still == lost \ {n}
  <2> DEFINE blocked == Blocked(still, n)
  <2> DEFINE held == IF blocked THEN pending \union {n} ELSE pending
  <2> DEFINE first == IF blocked THEN {} ELSE {n}
  <2>1. /\ lost' = still
        /\ pending' = held \ Released(still, held)
        /\ rl' = Sending(first \union Released(still, held))
    BY <1>2 DEF HandleRetransmit
  <2>2. still \in SUBSET Nat /\ held \in SUBSET Nat /\ first \in SUBSET Nat
    BY DEF BufferType
  <2> HIDE DEF still, held, first
  <2>3. Released(still, held) \in SUBSET Nat
    BY <2>2, ReleasedType
  <2>4. first \union Released(still, held) \in SUBSET Nat
    BY <2>2, <2>3
  <2>5. rl' \in [pc : {"idle", "send", "flush", "emit"}, batch : SUBSET Nat]
    BY <2>1, <2>4, SendingType
  <2> QED BY <2>1, <2>2, <2>5 DEF BufferType
<1> QED BY <1>1, <1>2

LEMMA ReceiveType == ASSUME TypeInv, Receive PROVE TypeInv'
<1> DEFINE rec == Head(wire)
<1>1. rec \in Records /\ wire' \in Seq(Records)
  BY TailFacts DEF Receive, TypeInv, TypeOK
<1>2. rec.body.of \in Nat /\ rec.n \in Nat
  BY <1>1 DEF Records, Bodies
<1>3. BufferType /\ in \in HalfConns /\ asking \subseteq Nat /\ opened \in Seq(Nat)
  BY DEF TypeInv, TypeOK, BufferType
<1>4. \/ in' = NewHalfConn(rec.body.of) /\ UNCHANGED <<reorderVars, rl, asking, opened>>
      \/ MarkLost(rec.n) /\ UNCHANGED <<in, opened>>
      \/ UNCHANGED <<in, reorderVars, rl, asking, opened>>
      \/ /\ in' = Decrypted(in, rec) /\ opened' = Append(opened, rec.body.of)
         /\ DeliverApplication(rec.n) /\ UNCHANGED asking
      \/ in' = Decrypted(in, rec) /\ HandleRetransmit(rec.body.of) /\ UNCHANGED <<asking, opened>>
      \/ CloseSession /\ UNCHANGED <<reorderVars, rl, opened>>
  BY DEF Receive
<1> HIDE DEF rec
<1>5. BufferType' /\ in' \in HalfConns /\ asking' \subseteq Nat /\ opened' \in Seq(Nat)
  <2>1. CASE in' = NewHalfConn(rec.body.of) /\ UNCHANGED <<reorderVars, rl, asking, opened>>
    BY <2>1, <1>2, <1>3, NewHalfConnType DEF BufferType, reorderVars
  <2>2. CASE MarkLost(rec.n) /\ UNCHANGED <<in, opened>>
    BY <2>2, <1>2, <1>3 DEF MarkLost, BufferType
  <2>3. CASE UNCHANGED <<in, reorderVars, rl, asking, opened>>
    BY <2>3, <1>3 DEF BufferType, reorderVars
  <2>4. CASE /\ in' = Decrypted(in, rec) /\ opened' = Append(opened, rec.body.of)
             /\ DeliverApplication(rec.n) /\ UNCHANGED asking
    <3>1. opened' \in Seq(Nat)
      BY <2>4, <1>2, <1>3
    <3> QED BY <2>4, <3>1, <1>1, <1>2, <1>3, DeliverType, DecryptedType
  <2>5. CASE in' = Decrypted(in, rec) /\ HandleRetransmit(rec.body.of) /\ UNCHANGED <<asking, opened>>
    BY <2>5, <1>1, <1>2, <1>3, RetransmitType, DecryptedType
  <2>6. CASE CloseSession /\ UNCHANGED <<reorderVars, rl, opened>>
    BY <2>6, <1>3, CloseSessionType DEF BufferType, reorderVars
  <2> QED BY <1>4, <2>1, <2>2, <2>3, <2>4, <2>5, <2>6
<1> QED BY <1>1, <1>5 DEF TypeInv, TypeOK, BufferType, SendersOK, RequestsOK, Receive, senderVars, chanVars

\* A send on msgChan keeps its type and its capacity.
LEMMA EmitType ==
    ASSUME TypeInv, NEW n \in Nat, Emit(n)
    PROVE  emitted' \in Seq(Nat) /\ nread' \in Nat /\ Len(emitted') <= nread' + ChanCap
<1>1. emitted \in Seq(Nat) /\ nread \in Nat /\ ChanCap \in Nat
  BY BoundsAssumption DEF TypeInv, TypeOK
<1>2. emitted' \in Seq(Nat) /\ Len(emitted) \in Nat /\ Len(emitted') = Len(emitted) + 1
  BY <1>1 DEF Emit
<1> QED BY <1>1, <1>2 DEF Emit

LEMMA ReadLoopEmitType ==
    ASSUME TypeInv, NEW n \in rl.batch, RlSend(n) \/ RlEmit(n) PROVE TypeInv'
<1>1. n \in Nat /\ rl.batch \in SUBSET Nat
  BY DEF TypeInv, TypeOK
<1>2. emitted' \in Seq(Nat) /\ nread' \in Nat /\ Len(emitted') <= nread' + ChanCap
  BY <1>1, EmitType DEF RlSend, RlEmit
<1>3. rl' \in [pc : {"idle", "send", "flush", "emit"}, batch : SUBSET Nat]
  <2>1. CASE RlSend(n)
    BY <2>1 DEF RlSend
  <2>2. CASE RlEmit(n)
    <3>1. rl.batch \ {n} \in SUBSET Nat
      BY <1>1
    <3> QED BY <2>2, <3>1, SendingType DEF RlEmit
  <2> QED BY <2>1, <2>2
<1> QED BY <1>2, <1>3 DEF TypeInv, TypeOK, SendersOK, RequestsOK, RlSend, RlEmit, senderVars,
          reorderVars, requestVars

LEMMA RlFlushType == ASSUME TypeInv, RlFlush PROVE TypeInv'
<1>1. Released(lost, pending) \in SUBSET Nat
  BY ReleasedType DEF TypeInv, TypeOK
<1>2. rl' \in [pc : {"idle", "send", "flush", "emit"}, batch : SUBSET Nat]
  BY <1>1, SendingType DEF RlFlush
<1> QED BY <1>2 DEF TypeInv, TypeOK, SendersOK, RequestsOK, RlFlush, senderVars, requestVars, chanVars

LEMMA RequestLostType == ASSUME TypeInv, NEW n \in asking, RequestLost(n) PROVE TypeInv'
<1>1. n \in Nat /\ in.ctx.key \in Nat /\ in.ctx.key # 0
  BY DEF TypeInv, TypeOK, RequestLost, HalfConns, Contexts
<1>2. requests' \subseteq [n : Nat, key : Nat] /\ RequestsOK'
  BY <1>1 DEF TypeInv, TypeOK, RequestLost, RequestsOK
<1> QED BY <1>2 DEF TypeInv, TypeOK, SendersOK, RequestLost, senderVars, reorderVars, chanVars

LEMMA RequestFailsType == ASSUME TypeInv, NEW n, RequestFails(n) PROVE TypeInv'
<1>1. faults' \in 0 .. MaxFaults
  BY FaultType DEF RequestFails, TypeInv, TypeOK
<1>2. requests' \subseteq requests /\ asking' \subseteq asking
  BY DEF RequestFails
<1> QED BY <1>1, <1>2 DEF TypeInv, TypeOK, SendersOK, RequestsOK, RequestFails, senderVars, reorderVars,
          chanVars

LEMMA ExpireType == ASSUME TypeInv, NEW n \in lost, Expire(n) PROVE TypeInv'
<1> DEFINE ready == Released(lost \ {n}, pending)
<1>1. ready \in SUBSET Nat /\ n \in Nat
  BY ReleasedType DEF TypeInv, TypeOK
<1>2. /\ lost' = lost \ {n} /\ pending' = pending \ ready
      /\ expiries' = IF ready = {} THEN expiries ELSE expiries \union {[of |-> n, batch |-> ready]}
  BY DEF Expire
<1> HIDE DEF ready
<1>3. expiries' \subseteq [of : Nat, batch : SUBSET Nat]
  <2> DEFINE g == [of |-> n, batch |-> ready]
  <2>1. g \in [of : Nat, batch : SUBSET Nat]
    BY <1>1
  <2>2. expiries' \subseteq expiries \union {g}
    BY <1>2
  <2> HIDE DEF g
  <2> QED BY <2>1, <2>2 DEF TypeInv, TypeOK
<1> QED BY <1>2, <1>3 DEF TypeInv, TypeOK, SendersOK, RequestsOK, Expire, senderVars, requestVars, chanVars

LEMMA ExpiryEmitType ==
    ASSUME TypeInv, NEW g \in expiries, NEW n \in g.batch, ExpiryEmit(g, n) PROVE TypeInv'
<1>1. g \in [of : Nat, batch : SUBSET Nat] /\ n \in Nat
  BY DEF TypeInv, TypeOK
<1>2. emitted' \in Seq(Nat) /\ nread' \in Nat /\ Len(emitted') <= nread' + ChanCap
  BY <1>1, EmitType DEF ExpiryEmit
<1>3. [g EXCEPT !.batch = @ \ {n}] \in [of : Nat, batch : SUBSET Nat]
  <2>1. g.batch \ {n} \in SUBSET Nat
    BY <1>1
  <2> QED BY <1>1, <2>1
<1>4. expiries' \subseteq [of : Nat, batch : SUBSET Nat]
  BY <1>3 DEF TypeInv, TypeOK, ExpiryEmit
<1>5. byExpiry' \subseteq Nat
  BY <1>1 DEF TypeInv, TypeOK, ExpiryEmit
<1> QED BY <1>2, <1>4, <1>5 DEF TypeInv, TypeOK, SendersOK, RequestsOK, ExpiryEmit, senderVars,
          reorderVars, requestVars

LEMMA ReadMessageType == ASSUME TypeInv, ReadMessage PROVE TypeInv'
<1>1. emitted \in Seq(Nat) /\ nread \in Nat /\ ChanCap \in Nat /\ Len(emitted) \in Nat
      /\ Len(emitted) <= nread + ChanCap
  BY BoundsAssumption DEF TypeInv, TypeOK
<1>2. nread' \in Nat /\ Len(emitted) <= nread' + ChanCap
  BY <1>1 DEF ReadMessage
<1> QED BY <1>2 DEF TypeInv, TypeOK, SendersOK, RequestsOK, ReadMessage, senderVars, reorderVars, requestVars

LEMMA TypeStutter == ASSUME TypeInv, UNCHANGED vars PROVE TypeInv'
BY DEF TypeInv, TypeOK, SendersOK, RequestsOK, vars

LEMMA TypeStep == ASSUME TypeInv, [Next]_vars PROVE TypeInv'
<1>1. CASE UNCHANGED vars
  BY <1>1, TypeStutter
<1>2. CASE Rekey \/ Dial \/ RelayDrop \/ SessionEnds \/ ReadMessage
  BY <1>2, RekeyType, DialType, RelayDropType, SessionEndsType, ReadMessageType
<1>3. CASE \E s \in Writers : WriteStart(s) \/ WriteSeal(s)
  BY <1>3, WriteStartType, WriteSealType
<1>4. CASE \E s \in Senders : WritePut(s) \/ WriteFails(s)
  BY <1>4, WritePutType, WriteFailsType
<1>5. CASE \E r \in requests : AnswerLost(r)
  BY <1>5, AnswerLostType
<1>6. CASE ReadLoopStep
  BY <1>6, ReceiveType, RlFlushType, ReadLoopEmitType DEF ReadLoopStep
<1>7. CASE \E n \in asking : RequestLost(n)
  BY <1>7, RequestLostType
<1>8. CASE \E n \in asking \union {r.n : r \in requests} : RequestFails(n)
  BY <1>8, RequestFailsType
<1>9. CASE \E n \in lost : Expire(n)
  BY <1>9, ExpireType
<1>10. CASE \E g \in expiries : ExpiryStep(g)
  BY <1>10, ExpiryEmitType DEF ExpiryStep
<1> QED BY <1>1, <1>2, <1>3, <1>4, <1>5, <1>6, <1>7, <1>8, <1>9, <1>10 DEF Next

LEMMA Typing == Spec => []TypeInv
<1>1. TypeInv /\ [Next]_vars => TypeInv'
  BY TypeStep
<1> QED BY TypeInit, <1>1, PTL DEF Spec

\* The data path keeps its shape whatever is lost, and msgChan never holds more
\* than its capacity: readLoop and expiry goroutines wait for room.
THEOREM TypeCorrect == Spec => []TypeOK
BY Typing, PTL DEF TypeInv

-----------------------------------------------------------------------------
(* The numbers *)

Flying == UNION {g.batch : g \in expiries}

Handed == Elements(emitted)

\* The messages that expiry goroutines hold are nobody else's.
ExpiriesApart ==
    \A g \in expiries :
        /\ g.batch # {}
        /\ \A k \in expiries : g # k => g.batch \cap k.batch = {}

PlacesOK ==
    Places(lost, pending, rl.batch, Flying, Handed, Handed \ byExpiry, Len(store), AppNumbers(wire))

NumInv ==
    /\ WireSorted(wire)
    /\ PlacesOK
    /\ ExpiriesApart
    /\ NoRepeat(emitted)
    /\ ReadLoopInOrder

LEMMA NumInit == Init => NumInv
<1> SUFFICES ASSUME Init PROVE NumInv
  OBVIOUS
<1>1. DOMAIN wire = {} /\ DOMAIN emitted = {} /\ Len(store) = 0
  BY DEF Init
<1>2. WireSorted(wire) /\ AppNumbers(wire) = {} /\ Handed = {} /\ NoRepeat(emitted) /\ ReadLoopInOrder
  BY <1>1 DEF WireSorted, AppNumbers, Handed, Elements, NoRepeat, ReadLoopInOrder
<1>3. lost = {} /\ pending = {} /\ rl.batch = {} /\ expiries = {} /\ Flying = {}
  BY DEF Init, Idle, Flying
<1>4. Places({}, {}, {}, {}, {}, {}, 0, {})
  BY DEF Places
<1>5. Handed \ byExpiry = {}
  BY <1>2
<1>6. PlacesOK
  BY <1>1, <1>2, <1>3, <1>4, <1>5 DEF PlacesOK
<1> QED BY <1>2, <1>3, <1>6 DEF NumInv, ExpiriesApart

\* Steps that touch neither the wire nor the buffer nor msgChan.
LEMMA NumFrame ==
    ASSUME NumInv, UNCHANGED <<store, wire, lost, pending, rl, expiries, emitted, byExpiry>>
    PROVE  NumInv'
<1>1. PlacesOK' /\ ReadLoopInOrder'
  BY DEF NumInv, PlacesOK, Flying, Handed, ReadLoopInOrder
<1> QED BY <1>1 DEF NumInv, ExpiriesApart

\* Steps that change the wire and the server only, the buffer and the readLoop
\* only, ...: what is left is that the numbers are in their places.
LEMMA NumChange ==
    ASSUME NumInv, UNCHANGED <<expiries, emitted, byExpiry>>, WireSorted(wire'), PlacesOK'
    PROVE  NumInv'
<1>1. ReadLoopInOrder'
  BY DEF NumInv, ReadLoopInOrder
<1> QED BY <1>1 DEF NumInv, ExpiriesApart

LEMMA RekeyNum == ASSUME TypeInv, NumInv, Rekey PROVE NumInv'
<1> DEFINE rec == Record([typ |-> "handshake", of |-> gen + 1], Nil)
<1>1. rec \in Records /\ rec.body.typ # "app" /\ wire \in Seq(Records)
  <2>1. gen + 1 \in Nat /\ wire \in Seq(Records)
    BY DEF TypeInv, TypeOK
  <2>2. rec \in Records
    BY <2>1, RecordType DEF Bodies
  <2> QED BY <2>1, <2>2 DEF Record
<1>2. wire' = Append(wire, rec) /\ UNCHANGED <<store, lost, pending, rl, expiries, emitted, byExpiry>>
  BY DEF Rekey, reorderVars, chanVars
<1> HIDE DEF rec
<1>3. WireSorted(wire') /\ AppNumbers(wire') = AppNumbers(wire)
  BY <1>1, <1>2, WireAppend DEF NumInv
<1>4. PlacesOK'
  BY <1>2, <1>3 DEF NumInv, PlacesOK, Flying, Handed
<1> QED BY <1>2, <1>3, <1>4, NumChange

LEMMA WritePutNum == ASSUME TypeInv, NumInv, NEW s \in Senders, WritePut(s) PROVE NumInv'
<1> DEFINE rec == wr[s].rec
<1> DEFINE k == IF rec.body.typ = "app" THEN Len(store) + 1 ELSE 0
<1> DEFINE sent == [rec EXCEPT !.n = k]
<1>0. wire \in Seq(Records) /\ store \in Seq(Nat) /\ Len(store) \in Nat
  BY DEF TypeInv, TypeOK
<1>1. rec \in Records
  BY DEF TypeInv, SendersOK, WritePut
<1>2. rec.body.of \in Nat /\ k \in Nat
  BY <1>0, <1>1 DEF Records, Bodies
<1>3. sent \in Records /\ sent.n = k /\ sent.body = rec.body
  BY <1>1, <1>2 DEF Records
<1>4. /\ store' = IF rec.body.typ = "app" THEN Append(store, rec.body.of) ELSE store
      /\ wire' = Append(wire, sent)
      /\ UNCHANGED <<lost, pending, rl, expiries, emitted, byExpiry>>
  BY DEF WritePut, reorderVars, chanVars
<1>5. rec.body.typ = "app" => k = Len(store) + 1
  OBVIOUS
<1> HIDE DEF k, sent, rec
<1>6. CASE rec.body.typ = "app"
  <2>1. Len(store') = Len(store) + 1
    BY <1>0, <1>2, <1>4, <1>6
  <2>2. \A x \in AppNumbers(wire) : x < sent.n
    BY <1>0, <1>3, <1>5, <1>6 DEF NumInv, PlacesOK, Places
  <2>3. WireSorted(wire') /\ AppNumbers(wire') = AppNumbers(wire) \union {Len(store) + 1}
    BY <1>0, <1>3, <1>4, <1>5, <1>6, <2>2, WireAppend DEF NumInv
  <2>4. Places(lost, pending, rl.batch, Flying, Handed, Handed \ byExpiry, Len(store) + 1,
               AppNumbers(wire) \union {Len(store) + 1})
    BY <1>0, PlaceAccept DEF NumInv, PlacesOK
  <2>5. PlacesOK'
    BY <1>4, <2>1, <2>3, <2>4 DEF PlacesOK, Flying, Handed
  <2> QED BY <1>4, <2>3, <2>5, NumChange
<1>7. CASE rec.body.typ # "app"
  <2>1. WireSorted(wire') /\ AppNumbers(wire') = AppNumbers(wire) /\ store' = store
    BY <1>0, <1>3, <1>4, <1>7, WireAppend DEF NumInv
  <2>2. PlacesOK'
    BY <1>4, <2>1 DEF NumInv, PlacesOK, Flying, Handed
  <2> QED BY <1>4, <2>1, <2>2, NumChange
<1> QED BY <1>6, <1>7

LEMMA RelayDropNum == ASSUME TypeInv, NumInv, RelayDrop PROVE NumInv'
<1>1. wire \in Seq(Records) /\ wire # <<>> /\ wire' = Tail(wire) /\ Len(store) \in Nat
      /\ UNCHANGED <<store, lost, pending, rl, expiries, emitted, byExpiry>>
  BY DEF TypeInv, TypeOK, RelayDrop, reorderVars, chanVars
<1>2. WireSorted(wire') /\ AppNumbers(wire') \subseteq AppNumbers(wire)
  BY <1>1, WireTail DEF NumInv
<1>3. PlacesOK'
  BY <1>1, <1>2, PlaceDrop DEF NumInv, PlacesOK, Flying, Handed
<1> QED BY <1>1, <1>2, <1>3, NumChange

\* handleReadBoundMsg: the record leaves the wire, and its number moves on.
LEMMA ReceiveNum == ASSUME TypeInv, NumInv, Receive PROVE NumInv'
<1> DEFINE rec == Head(wire)
<1> DEFINE F == Flying
<1> DEFINE H == Handed
<1> DEFINE O == Handed \ byExpiry
<1> DEFINE m == Len(store)
<1>1. wire \in Seq(Records) /\ wire # <<>> /\ wire' = Tail(wire) /\ m \in Nat
      /\ UNCHANGED <<store, expiries, emitted, byExpiry>>
  BY DEF TypeInv, TypeOK, Receive, chanVars
<1>2. /\ WireSorted(wire') /\ AppNumbers(wire') \subseteq AppNumbers(wire)
      /\ rec.body.typ = "app" => /\ rec.n \in AppNumbers(wire)
                                 /\ \A x \in AppNumbers(wire') : rec.n < x
  BY <1>1, WireTail DEF NumInv
<1>3. Places(lost, pending, rl.batch, F, H, O, m, AppNumbers(wire))
  BY DEF NumInv, PlacesOK
<1>4. Places(lost, pending, rl.batch, F, H, O, m, AppNumbers(wire'))
  BY <1>1, <1>2, <1>3, PlaceDrop
<1>5. F' = F /\ H' = H /\ O' = O /\ m' = m
  BY <1>1 DEF Flying, Handed
<1>6. \/ UNCHANGED <<lost, pending, rl>>
      \/ rec.body.typ = "app" /\ MarkLost(rec.n)
      \/ rec.body.typ = "app" /\ DeliverApplication(rec.n)
      \/ HandleRetransmit(rec.body.of)
  BY DEF Receive, reorderVars
<1> DEFINE l == lost
<1> DEFINE p == pending
<1> DEFINE b == rl.batch
<1> DEFINE w == AppNumbers(wire)
<1> DEFINE v == AppNumbers(wire')
<1> SUFFICES Places(lost', pending', rl'.batch, F, H, O, m, v)
  <2>1. PlacesOK' <=> Places(lost', pending', rl'.batch, F', H', O', m', v)
    BY DEF PlacesOK
  <2> QED BY <1>1, <1>2, <1>5, <2>1, NumChange
<1>7. CASE UNCHANGED <<lost, pending, rl>>
  BY <1>4, <1>7
<1>8. CASE rec.body.typ = "app" /\ MarkLost(rec.n)
  <2>1. lost' = lost \union {rec.n} /\ pending' = pending /\ rl' = rl
    BY <1>8 DEF MarkLost
  <2> HIDE DEF rec, F, H, O, m
  <2> QED BY <1>1, <1>2, <1>3, <1>8, <2>1, PlaceLost
<1>9. CASE rec.body.typ = "app" /\ DeliverApplication(rec.n)
  <2>1. CASE Blocked(lost, rec.n)
    <3>1. lost' = lost /\ pending' = pending \union {rec.n} /\ rl' = rl
      BY <1>9, <2>1 DEF DeliverApplication
    <3> HIDE DEF rec, F, H, O, m
    <3> QED BY <1>1, <1>2, <1>3, <1>9, <2>1, <3>1, PlaceHold
  <2>2. CASE ~Blocked(lost, rec.n)
    <3>1. lost' = lost /\ pending' = pending /\ rl'.batch = {rec.n}
      BY <1>9, <2>2 DEF DeliverApplication
    <3> HIDE DEF rec, F, H, O, m
    <3> QED BY <1>1, <1>2, <1>3, <1>9, <2>2, <3>1, PlaceSend
  <2> QED BY <2>1, <2>2
<1>10. CASE HandleRetransmit(rec.body.of)
  <2> DEFINE n == rec.body.of
  <2>0. n \in Nat
    <3>1. rec \in Records
      BY <1>1, TailFacts
    <3> QED BY <3>1 DEF Records, Bodies
  <2> HIDE DEF n, F, H, O, m
  <2>1. CASE n \notin lost
    <3>1. UNCHANGED <<lost, pending, rl>>
      BY <1>10, <2>1 DEF HandleRetransmit, n
    <3> QED BY <1>4, <3>1
  <2>2. CASE n \in lost /\ Blocked(lost \ {n}, n)
    <3> DEFINE r == Released(lost \ {n}, pending \union {n})
    <3>1. lost' = lost \ {n} /\ pending' = (pending \union {n}) \ r /\ rl' = Sending({} \union r)
      BY <1>10, <2>2 DEF HandleRetransmit, n
    <3>2. Places(lost \ {n}, (pending \union {n}) \ r, r, F, H, O, m, v)
      BY <1>1, <1>4, <2>2, PlaceRestoreHeld
    <3>3. rl'.batch = r
      <4>1. {} \union r = r /\ r \in SUBSET Nat
        BY <2>0, ReleasedType DEF TypeInv, TypeOK
      <4> HIDE DEF r
      <4> QED BY <3>1, <4>1, SendingType
    <3> QED BY <3>1, <3>2, <3>3
  <2>3. CASE n \in lost /\ ~Blocked(lost \ {n}, n)
    <3> DEFINE r == Released(lost \ {n}, pending)
    <3>1. lost' = lost \ {n} /\ pending' = pending \ r /\ rl' = Sending({n} \union r)
      BY <1>10, <2>3 DEF HandleRetransmit, n
    <3>2. Places(lost \ {n}, pending \ r, {n} \union r, F, H, O, m, v)
      BY <1>1, <1>4, <2>3, PlaceRestoreSent
    <3>3. rl'.batch = {n} \union r
      <4>1. {n} \union r \in SUBSET Nat
        BY <2>0, ReleasedType DEF TypeInv, TypeOK
      <4> HIDE DEF r
      <4> QED BY <3>1, <4>1, SendingType
    <3> QED BY <3>1, <3>2, <3>3
  <2> QED BY <2>1, <2>2, <2>3
<1> QED BY <1>6, <1>7, <1>8, <1>9, <1>10

LEMMA RlFlushNum == ASSUME TypeInv, NumInv, RlFlush PROVE NumInv'
<1> DEFINE r == Released(lost, pending)
<1>1. /\ pending' = pending \ r /\ rl' = Sending(r)
      /\ UNCHANGED <<store, wire, lost, expiries, emitted, byExpiry>>
  BY DEF RlFlush, chanVars
<1>2. Len(store) \in Nat /\ r \in SUBSET Nat
  <2>1. Len(store) \in Nat /\ pending \in SUBSET Nat
    BY DEF TypeInv, TypeOK
  <2> QED BY <2>1, ReleasedType
<1>3. Places(lost, pending \ r, r, Flying, Handed, Handed \ byExpiry, Len(store), AppNumbers(wire))
  BY <1>2, PlaceFlush DEF NumInv, PlacesOK
<1> HIDE DEF r
<1>4. rl'.batch = r
  BY <1>1, <1>2, SendingType
<1>5. PlacesOK'
  <2>1. Flying' = Flying /\ Handed' = Handed
    BY <1>1 DEF Flying, Handed
  <2> QED BY <1>1, <1>3, <1>4, <2>1 DEF PlacesOK
<1> QED BY <1>1, <1>5, NumChange DEF NumInv

\* A message that was not sent before is sent: what that does to msgChan.
LEMMA EmitNum ==
    ASSUME TypeInv, NumInv, NEW n \in Nat, n \notin Handed, Emit(n),
           byExpiry \subseteq byExpiry', n \notin byExpiry' => \A k \in Handed \ byExpiry : k < n
    PROVE  /\ Handed' = Handed \union {n}
           /\ NoRepeat(emitted)'
           /\ ReadLoopInOrder'
<1>1. emitted \in Seq(Nat) /\ emitted' = Append(emitted, n)
  BY DEF TypeInv, TypeOK, Emit
<1>2. Handed' = Handed \union {n} /\ NoRepeat(emitted)'
  BY <1>1, EmittedAppend DEF NumInv, Handed
<1> DEFINE L == Len(emitted)
<1>3. /\ L \in Nat /\ DOMAIN emitted = 1 .. L /\ DOMAIN emitted' = 1 .. L + 1
      /\ \A i \in DOMAIN emitted : emitted'[i] = emitted[i]
      /\ emitted'[L + 1] = n
  BY <1>1, AppendFacts
<1> HIDE DEF L
<1>4. ASSUME NEW i \in DOMAIN emitted', NEW j \in DOMAIN emitted', i < j,
             emitted'[i] \notin byExpiry', emitted'[j] \notin byExpiry'
      PROVE  emitted'[i] < emitted'[j]
  <2>1. i \in DOMAIN emitted /\ emitted[i] \notin byExpiry
    BY <1>3, <1>4
  <2>2. CASE j \in DOMAIN emitted
    BY <1>3, <1>4, <2>1, <2>2 DEF NumInv, ReadLoopInOrder
  <2>3. CASE j = L + 1
    <3>1. emitted[i] \in Handed \ byExpiry
      BY <2>1 DEF Handed, Elements
    <3> QED BY <1>3, <1>4, <2>1, <2>3, <3>1
  <2> QED BY <1>3, <2>2, <2>3
<1>5. ReadLoopInOrder'
  BY <1>4 DEF ReadLoopInOrder
<1> QED BY <1>2, <1>5

LEMMA ReadLoopEmitNum ==
    ASSUME TypeInv, NumInv, NEW n \in rl.batch, RlSend(n) \/ RlEmit(n) PROVE NumInv'
<1> DEFINE b == rl'.batch
<1>1. /\ n \in Nat /\ rl.batch \in SUBSET Nat /\ Len(store) \in Nat
      /\ Emit(n) /\ UNCHANGED <<store, wire, lost, pending, expiries, byExpiry>>
  BY DEF TypeInv, TypeOK, RlSend, RlEmit, reorderVars
<1>2. b \in SUBSET (rl.batch \ {n}) /\ \A k \in b : n < k
  <2>1. CASE RlSend(n)
    <3>1. b = {}
      BY <2>1 DEF RlSend
    <3> HIDE DEF b
    <3> QED BY <3>1
  <2>2. CASE RlEmit(n)
    <3>1. b = rl.batch \ {n}
      <4>1. rl.batch \ {n} \in SUBSET Nat /\ rl' = Sending(rl.batch \ {n})
        BY <1>1, <2>2 DEF RlEmit
      <4> QED BY <4>1, SendingType
    <3>2. \A k \in rl.batch : n <= k
      BY <2>2 DEF RlEmit, Least
    <3> HIDE DEF b
    <3>3. ASSUME NEW k \in b PROVE n < k
      <4>1. k \in Nat /\ k # n /\ n <= k
        BY <1>1, <3>1, <3>2
      <4> QED BY <1>1, <4>1
    <3> QED BY <3>1, <3>3
  <2> QED BY <2>1, <2>2
<1>3. Places(lost, pending, rl.batch, Flying, Handed, Handed \ byExpiry, Len(store), AppNumbers(wire))
  BY DEF NumInv, PlacesOK
<1>4. n \notin Handed /\ \A k \in Handed \ byExpiry : k < n
  BY <1>3 DEF Places
<1>5. Handed' = Handed \union {n} /\ NoRepeat(emitted)' /\ ReadLoopInOrder'
  BY <1>1, <1>4, EmitNum
<1>6. Handed' \ byExpiry' \in SUBSET ((Handed \ byExpiry) \union {n})
  BY <1>1, <1>5
<1>7. PlacesOK'
  <2> HIDE DEF b
  <2>1. Places(lost, pending, b, Flying, Handed \union {n}, Handed' \ byExpiry', Len(store),
               AppNumbers(wire))
    BY <1>1, <1>2, <1>3, <1>6, PlaceRlSent
  <2> QED BY <1>1, <1>5, <2>1 DEF PlacesOK, Flying, b
<1> QED BY <1>1, <1>5, <1>7 DEF NumInv, ExpiriesApart

LEMMA ExpireNum == ASSUME TypeInv, NumInv, NEW n \in lost, Expire(n) PROVE NumInv'
<1> DEFINE r == Released(lost \ {n}, pending)
<1> DEFINE e == [of |-> n, batch |-> r]
<1>1. /\ lost' = lost \ {n} /\ pending' = pending \ r
      /\ expiries' = IF r = {} THEN expiries ELSE expiries \union {e}
      /\ UNCHANGED <<store, wire, rl, emitted, byExpiry>>
  BY DEF Expire, chanVars
<1>2. Len(store) \in Nat /\ lost \in SUBSET Nat /\ pending \in SUBSET Nat
  BY DEF TypeInv, TypeOK
<1>3. Places(lost, pending, rl.batch, Flying, Handed, Handed \ byExpiry, Len(store), AppNumbers(wire))
  BY DEF NumInv, PlacesOK
<1>4. Places(lost \ {n}, pending \ r, rl.batch, Flying \union r, Handed, Handed \ byExpiry, Len(store),
             AppNumbers(wire))
  BY <1>2, <1>3, PlaceExpire
<1>5. r \subseteq pending /\ e.batch = r
  BY DEF Released, Releasable
<1>6. \A g \in expiries : g.batch \cap r = {}
  BY <1>3, <1>5 DEF Places, Flying
<1> HIDE DEF r, e
<1>7. Flying' = Flying \union r
  BY <1>1, <1>5 DEF Flying
<1>8. ExpiriesApart'
  BY <1>1, <1>5, <1>6 DEF NumInv, ExpiriesApart
<1>9. PlacesOK'
  BY <1>1, <1>4, <1>7 DEF PlacesOK, Handed
<1>10. ReadLoopInOrder'
  BY <1>1 DEF NumInv, ReadLoopInOrder
<1> QED BY <1>1, <1>8, <1>9, <1>10 DEF NumInv

LEMMA ExpiryEmitNum ==
    ASSUME TypeInv, NumInv, NEW g \in expiries, NEW n \in g.batch, ExpiryEmit(g, n) PROVE NumInv'
<1> DEFINE e == [g EXCEPT !.batch = @ \ {n}]
<1>1. /\ Emit(n) /\ byExpiry' = byExpiry \union {n}
      /\ expiries' = (expiries \ {g}) \union (IF g.batch = {n} THEN {} ELSE {e})
      /\ UNCHANGED <<store, wire, lost, pending, rl>>
  BY DEF ExpiryEmit, reorderVars
<1>2. /\ Len(store) \in Nat /\ g \in [of : Nat, batch : SUBSET Nat] /\ n \in Nat /\ n \in Flying
      /\ expiries \subseteq [of : Nat, batch : SUBSET Nat]
  BY DEF TypeInv, TypeOK, Flying
<1>3. e.batch = g.batch \ {n}
  BY <1>2
<1> HIDE DEF e
<1>4. Places(lost, pending, rl.batch, Flying, Handed, Handed \ byExpiry, Len(store), AppNumbers(wire))
  BY DEF NumInv, PlacesOK
<1>5. n \notin Handed
  BY <1>2, <1>4 DEF Places
<1>6. Handed' = Handed \union {n} /\ NoRepeat(emitted)' /\ ReadLoopInOrder'
  BY <1>1, <1>2, <1>5, EmitNum
<1>7. \A k \in expiries : k # g => n \notin k.batch /\ k.batch \cap g.batch = {}
  BY DEF NumInv, ExpiriesApart
<1>8. Flying' = Flying \ {n}
  BY <1>1, <1>3, <1>7 DEF Flying
<1>9. ExpiriesApart'
  <2>1. \A k \in expiries' : (k \in expiries /\ k # g) \/ (k = e /\ g.batch # {n})
    BY <1>1
  <2>2. g.batch # {n} => e.batch # {}
    BY <1>3
  <2> QED BY <1>3, <1>7, <2>1, <2>2 DEF NumInv, ExpiriesApart
<1>10. Handed' \ byExpiry' \in SUBSET (Handed \ byExpiry)
  BY <1>1, <1>6
<1>11. Places(lost, pending, rl.batch, Flying \ {n}, Handed \union {n}, Handed' \ byExpiry', Len(store),
              AppNumbers(wire))
  BY <1>2, <1>4, <1>10, PlaceExpirySent
<1>12. PlacesOK'
  BY <1>1, <1>6, <1>8, <1>11 DEF PlacesOK
<1> QED BY <1>1, <1>6, <1>9, <1>12 DEF NumInv

LEMMA NumStep == ASSUME TypeInv, NumInv, [Next]_vars PROVE NumInv'
<1>1. CASE UNCHANGED vars
  BY <1>1, NumFrame DEF vars
<1>2. CASE Rekey \/ RelayDrop
  BY <1>2, RekeyNum, RelayDropNum
<1>3. CASE Dial \/ SessionEnds \/ ReadMessage
  BY <1>3, NumFrame DEF Dial, SessionEnds, ReadMessage, reorderVars, chanVars
<1>4. CASE \E s \in Writers : WriteStart(s) \/ WriteSeal(s)
  BY <1>4, NumFrame DEF WriteStart, WriteSeal, reorderVars, chanVars
<1>5. CASE \E s \in Senders : WritePut(s)
  BY <1>5, WritePutNum
<1>6. CASE \E s \in Senders : WriteFails(s)
  BY <1>6, NumFrame DEF WriteFails, reorderVars, chanVars
<1>7. CASE \E r \in requests : AnswerLost(r)
  BY <1>7, NumFrame DEF AnswerLost, reorderVars, chanVars
<1>8. CASE ReadLoopStep
  BY <1>8, ReceiveNum, RlFlushNum, ReadLoopEmitNum DEF ReadLoopStep
<1>9. CASE \E n \in asking : RequestLost(n)
  BY <1>9, NumFrame DEF RequestLost, reorderVars, chanVars
<1>10. CASE \E n \in asking \union {r.n : r \in requests} : RequestFails(n)
  BY <1>10, NumFrame DEF RequestFails, reorderVars, chanVars
<1>11. CASE \E n \in lost : Expire(n)
  BY <1>11, ExpireNum
<1>12. CASE \E g \in expiries : ExpiryStep(g)
  BY <1>12, ExpiryEmitNum DEF ExpiryStep
<1> QED BY <1>1, <1>2, <1>3, <1>4, <1>5, <1>6, <1>7, <1>8, <1>9, <1>10, <1>11, <1>12 DEF Next

LEMMA Numbering == Spec => []NumInv
<1>1. TypeInv /\ NumInv /\ [Next]_vars => NumInv'
  BY NumStep
<1> QED BY NumInit, <1>1, Typing, PTL DEF Spec

\* What the readLoop sends on msgChan is in the order of the server's numbers,
\* for any number of writers, losses, retransmissions and expiries.
THEOREM ReadLoopOrder == Spec => []ReadLoopInOrder
BY Numbering, PTL DEF NumInv

-----------------------------------------------------------------------------
(* The refinement *)

LEMMA ServiceStep ==
    ASSUME TypeInv, NumInv, [Next]_vars PROVE [Service!Next]_(Service!vars)
<1>0. PlacesOK /\ store \in Seq(Nat) /\ Len(store) \in Nat
  BY DEF NumInv, TypeInv, TypeOK
<1>1. ASSUME NEW n \in rl.batch \union Flying, Emit(n), store' = store PROVE Service!Next
  <2>1. n \in 1 .. Len(store) /\ n \notin Handed
    BY <1>0, <1>1 DEF PlacesOK, Places
  <2>2. \A i \in DOMAIN emitted : emitted[i] # n
    BY <2>1 DEF Handed, Elements
  <2>3. Service!Hand(n)
    BY <1>1, <2>2 DEF Emit, Service!Hand
  <2> QED BY <2>1, <2>3 DEF Service!Next
<1>2. ASSUME UNCHANGED <<store, emitted>> PROVE UNCHANGED Service!vars
  BY <1>2 DEF Service!vars
<1>3. CASE UNCHANGED vars
  BY <1>2, <1>3 DEF vars
<1>4. CASE Rekey \/ RelayDrop \/ Dial \/ SessionEnds \/ ReadMessage
  BY <1>2, <1>4 DEF Rekey, RelayDrop, Dial, SessionEnds, ReadMessage, chanVars
<1>5. CASE \E s \in Writers : WriteStart(s) \/ WriteSeal(s)
  BY <1>2, <1>5 DEF WriteStart, WriteSeal, chanVars
<1>6. ASSUME NEW s \in Senders, WritePut(s) PROVE [Service!Next]_(Service!vars)
  <2>1. emitted' = emitted /\ (store' = store \/ store' = Append(store, wr[s].rec.body.of))
    BY <1>6 DEF WritePut, chanVars
  <2>2. CASE store' = store
    BY <1>2, <2>1, <2>2
  <2>3. CASE store' = Append(store, wr[s].rec.body.of)
    <3>1. wr[s].rec \in Records
      BY <1>6 DEF TypeInv, SendersOK, WritePut
    <3>2. wr[s].rec.body.of \in Nat
      BY <3>1 DEF Records, Bodies
    <3>3. Len(store') = Len(store) + 1
      BY <1>0, <2>3, <3>2
    <3> QED BY <2>1, <3>3 DEF Service!Next, Service!Accept
  <2> QED BY <2>1, <2>2, <2>3
<1>7. CASE \E s \in Senders : WriteFails(s)
  BY <1>2, <1>7 DEF WriteFails, chanVars
<1>8. CASE \E r \in requests : AnswerLost(r)
  BY <1>2, <1>8 DEF AnswerLost, chanVars
<1>9. CASE ReadLoopStep
  <2>1. CASE Receive \/ RlFlush
    BY <1>2, <2>1 DEF Receive, RlFlush, chanVars
  <2>2. CASE \E n \in rl.batch : RlSend(n) \/ RlEmit(n)
    BY <1>1, <2>2 DEF RlSend, RlEmit
  <2> QED BY <1>9, <2>1, <2>2 DEF ReadLoopStep
<1>10. CASE \E n \in asking : RequestLost(n)
  BY <1>2, <1>10 DEF RequestLost, chanVars
<1>11. CASE \E n \in asking \union {r.n : r \in requests} : RequestFails(n)
  BY <1>2, <1>11 DEF RequestFails, chanVars
<1>12. CASE \E n \in lost : Expire(n)
  BY <1>2, <1>12 DEF Expire, chanVars
<1>13. CASE \E g \in expiries : ExpiryStep(g)
  <2>1. PICK g \in expiries : \E n \in g.batch : ExpiryEmit(g, n)
    BY <1>13 DEF ExpiryStep
  <2>2. g.batch \subseteq Flying
    BY DEF Flying
  <2> QED BY <1>1, <2>1, <2>2 DEF ExpiryEmit
<1> QED BY <1>3, <1>4, <1>5, <1>6, <1>7, <1>8, <1>9, <1>10, <1>11, <1>12, <1>13 DEF Next

\* The data path hands the application each message at most once and none that
\* the server did not number, whatever overtakes, is lost, repeated or given up.
THEOREM Refinement == Spec => ImplementsAtMostOnce
<1>1. Init => Service!Init
  BY DEF Init, Service!Init
<1>2. TypeInv /\ NumInv /\ [Next]_vars => [Service!Next]_(Service!vars)
  BY ServiceStep
<1> QED BY <1>1, <1>2, Typing, Numbering, PTL DEF Spec, ImplementsAtMostOnce, Service!Spec

-----------------------------------------------------------------------------
(***************************************************************************)
(* OpenedInSealOrder for every number of writers, sessions and faults.     *)
(*                                                                         *)
(* A sealed application record is described by its seal: the id of the     *)
(* message, the session's key and the sequence number.  The invariant says *)
(* of the seals that exist, in a writer's hands or on the wire: within a   *)
(* session the sequence numbers order the ids; every seal that the         *)
(* receiver can still open, in the session it has or in one whose          *)
(* handshake is still on its way, is of a later message than all that it   *)
(* has opened or will have opened by then.                                 *)
(***************************************************************************)

SealOf(rec) == [id |-> rec.body.of, key |-> rec.tag.key, seq |-> rec.tag.aad]

\* The application records of senders that have sealed and not yet written ...
HandSeals == {SealOf(wr[s].rec) : s \in {t \in Senders : wr[t].pc = "sealed"
                                                     /\ wr[t].rec.body.typ = "app"}}

\* ... and those on the wire.
WireSeals(w) == {SealOf(w[i]) : i \in {j \in DOMAIN w : w[j].body.typ = "app"}}

Seals == HandSeals \union WireSeals(wire)

\* Only a handshake travels without a tag.
Tagged(rec) == rec.body.typ = "app" => rec.tag \in Tags

TagsOK ==
    /\ \A s \in Senders : wr[s].pc = "sealed" => Tagged(wr[s].rec) /\ wr[s].rec.body.typ # "handshake"
    /\ \A i \in DOMAIN wire : Tagged(wire[i])
    /\ \A k \in 1 .. MaxGen : out[k].ctx.key = k
    /\ \A s \in Senders : wr[s].pc = "ready" => wr[s].key <= gen

\* A seal is of a message that was written, in a session that was set up, with a
\* sequence number that the session has used.
SealsOK ==
    /\ \A x \in Seals : /\ x.id \in 1 .. written
                        /\ x.key \in 1 .. gen
                        /\ x.seq \in Nat /\ x.seq < out[x.key].seq
    /\ \A i \in DOMAIN opened : opened[i] <= written

SeqOrdersIds == \A x, y \in Seals : x.key = y.key /\ x.seq < y.seq => x.id < y.id

\* The session the receiver has.
AheadOfOpened ==
    in.ctx.key # 0 =>
        \A x \in Seals : x.key = in.ctx.key /\ x.seq >= in.seq =>
            \A i \in DOMAIN opened : opened[i] < x.id

\* The sessions whose handshake is on its way: with the wire w, the seals X, the
\* ids opened op and the sessions set up g.
HandshakesAhead(w, X, op, g) ==
    \A i \in DOMAIN w : w[i].body.typ = "handshake" =>
        /\ w[i].body.of \in 1 .. g
        /\ \A x \in X : x.key = w[i].body.of =>
            /\ \A j \in DOMAIN op : op[j] < x.id
            /\ \A j \in DOMAIN w : j < i /\ w[j].body.typ = "app" => w[j].body.of < x.id

AheadOfHandshake == HandshakesAhead(wire, Seals, opened, gen)

SealInv ==
    /\ TagsOK
    /\ SealsOK
    /\ SeqOrdersIds
    /\ AheadOfOpened
    /\ AheadOfHandshake
    /\ OpenedInSealOrder

-----------------------------------------------------------------------------
(* What the steps do to the seals *)

\* A sender's state changes to v.
LEMMA HandStep ==
    ASSUME TypeInv, NEW s \in Senders, NEW v, wr' = [wr EXCEPT ![s] = v]
    PROVE  \A x \in HandSeals' :
              \/ x \in HandSeals
              \/ v.pc = "sealed" /\ v.rec.body.typ = "app" /\ x = SealOf(v.rec)
<1> SUFFICES ASSUME NEW a \in Senders, wr'[a].pc = "sealed", wr'[a].rec.body.typ = "app"
             PROVE  \/ SealOf(wr'[a].rec) \in HandSeals
                    \/ v.pc = "sealed" /\ v.rec.body.typ = "app" /\ SealOf(wr'[a].rec) = SealOf(v.rec)
  BY DEF HandSeals
<1>1. DOMAIN wr = Senders
  BY DEF TypeInv, TypeOK
<1>2. CASE a = s
  <2>1. wr'[a] = v
    BY <1>1, <1>2
  <2> QED BY <2>1
<1>3. CASE a # s
  <2>1. wr'[a] = wr[a]
    BY <1>1, <1>3
  <2> QED BY <2>1 DEF HandSeals
<1> QED BY <1>2, <1>3

LEMMA WireSealsAppend ==
    ASSUME NEW w \in Seq(Records), NEW rec \in Records
    PROVE  \A x \in WireSeals(Append(w, rec)) :
              x \in WireSeals(w) \/ (rec.body.typ = "app" /\ x = SealOf(rec))
<1> DEFINE v == Append(w, rec)
<1> DEFINE L == Len(w)
<1>1. /\ L \in Nat /\ DOMAIN w = 1 .. L /\ DOMAIN v = 1 .. L + 1
      /\ \A i \in DOMAIN w : v[i] = w[i]
      /\ v[L + 1] = rec
  BY AppendFacts
<1> HIDE DEF v, L
<1>2. \A i \in DOMAIN v : i \in DOMAIN w \/ i = L + 1
  BY <1>1
<1>3. \A x \in WireSeals(v) : x \in WireSeals(w) \/ (rec.body.typ = "app" /\ x = SealOf(rec))
  BY <1>1, <1>2 DEF WireSeals
<1> QED BY <1>3 DEF v

LEMMA WireSealsTail ==
    ASSUME NEW w \in Seq(Records), w # <<>>
    PROVE  /\ WireSeals(Tail(w)) \subseteq WireSeals(w)
           /\ Head(w).body.typ = "app" => SealOf(Head(w)) \in WireSeals(w)
<1> DEFINE v == Tail(w)
<1> DEFINE L == Len(w)
<1>1. /\ L \in Nat /\ L > 0 /\ DOMAIN w = 1 .. L /\ DOMAIN v = 1 .. L - 1
      /\ \A i \in DOMAIN v : v[i] = w[i + 1]
      /\ Head(w) = w[1]
  BY TailFacts
<1> HIDE DEF v, L
<1>2. 1 \in DOMAIN w /\ \A i \in DOMAIN v : i \in Nat /\ i + 1 \in DOMAIN w
  BY <1>1
<1>3. WireSeals(v) \subseteq WireSeals(w)
  BY <1>1, <1>2 DEF WireSeals
<1>4. Head(w).body.typ = "app" => SealOf(Head(w)) \in WireSeals(w)
  BY <1>1, <1>2 DEF WireSeals
<1> QED BY <1>3, <1>4 DEF v

-----------------------------------------------------------------------------
(* What they do to the handshakes on their way *)

LEMMA AheadMonotone ==
    ASSUME NEW w, NEW X, NEW op, NEW g \in Nat, HandshakesAhead(w, X, op, g),
           NEW Y \in SUBSET X, NEW k \in Nat, g <= k
    PROVE  HandshakesAhead(w, Y, op, k)
<1>1. \A n \in 1 .. g : n \in 1 .. k
  OBVIOUS
<1> QED BY <1>1 DEF HandshakesAhead

\* One more record; if it is a handshake, nothing is sealed in its session yet.
LEMMA AheadAppend ==
    ASSUME NEW w \in Seq(Records), NEW rec \in Records, NEW X, NEW op, NEW g,
           HandshakesAhead(w, X, op, g),
           rec.body.typ = "handshake" => rec.body.of \in 1 .. g /\ \A x \in X : x.key # rec.body.of
    PROVE  HandshakesAhead(Append(w, rec), X, op, g)
<1> DEFINE v == Append(w, rec)
<1> DEFINE L == Len(w)
<1>1. /\ L \in Nat /\ DOMAIN w = 1 .. L /\ DOMAIN v = 1 .. L + 1
      /\ \A i \in DOMAIN w : v[i] = w[i]
      /\ v[L + 1] = rec
  BY AppendFacts
<1> HIDE DEF v, L
<1>2. \A i \in DOMAIN v : i \in DOMAIN w \/ i = L + 1
  BY <1>1
<1>3. \A i \in DOMAIN w : \A j \in DOMAIN v : j < i => j \in DOMAIN w
  BY <1>1
<1>4. ASSUME NEW i \in DOMAIN v, v[i].body.typ = "handshake"
      PROVE  /\ v[i].body.of \in 1 .. g
             /\ \A x \in X : x.key = v[i].body.of =>
                 /\ \A j \in DOMAIN op : op[j] < x.id
                 /\ \A j \in DOMAIN v : j < i /\ v[j].body.typ = "app" => v[j].body.of < x.id
  <2>1. CASE i \in DOMAIN w
    BY <1>1, <1>3, <1>4, <2>1 DEF HandshakesAhead
  <2>2. CASE i = L + 1
    BY <1>1, <1>4, <2>2
  <2> QED BY <1>2, <2>1, <2>2
<1>5. HandshakesAhead(v, X, op, g)
  BY <1>4 DEF HandshakesAhead
<1> QED BY <1>5 DEF v

\* The next record is taken, and opened if it is an application record.
LEMMA AheadTail ==
    ASSUME NEW w \in Seq(Records), w # <<>>, NEW X, NEW op \in Seq(Nat), NEW g,
           HandshakesAhead(w, X, op, g)
    PROVE  /\ HandshakesAhead(Tail(w), X, op, g)
           /\ Head(w).body.typ = "app" => HandshakesAhead(Tail(w), X, Append(op, Head(w).body.of), g)
           /\ Head(w).body.typ = "handshake" =>
                /\ Head(w).body.of \in 1 .. g
                /\ \A x \in X : x.key = Head(w).body.of => \A j \in DOMAIN op : op[j] < x.id
<1> DEFINE v == Tail(w)
<1> DEFINE L == Len(w)
<1> DEFINE id == Head(w).body.of
<1> DEFINE q == Append(op, id)
<1>1. /\ L \in Nat /\ L > 0 /\ DOMAIN w = 1 .. L /\ DOMAIN v = 1 .. L - 1
      /\ \A i \in DOMAIN v : v[i] = w[i + 1]
      /\ Head(w) = w[1] /\ Head(w) \in Records
  BY TailFacts
<1>2. id \in Nat
  BY <1>1 DEF Records, Bodies
<1> HIDE DEF id
<1>3. \A j \in DOMAIN q : q[j] = id \/ (j \in DOMAIN op /\ q[j] = op[j])
  <2>1. /\ Len(op) \in Nat /\ DOMAIN op = 1 .. Len(op) /\ DOMAIN q = 1 .. Len(op) + 1
        /\ \A i \in DOMAIN op : q[i] = op[i]
        /\ q[Len(op) + 1] = id
    BY <1>2, AppendFacts
  <2> HIDE DEF q
  <2> QED BY <2>1
<1> HIDE DEF v, L, q
<1>4. 1 \in DOMAIN w /\ \A i \in DOMAIN v : i \in Nat /\ i + 1 \in DOMAIN w /\ 1 < i + 1
  BY <1>1
<1>5. \A i, j \in DOMAIN v : j < i => j + 1 < i + 1
  BY <1>1
<1>6. HandshakesAhead(v, X, op, g)
  BY <1>1, <1>4, <1>5 DEF HandshakesAhead
<1>7. ASSUME Head(w).body.typ = "app" PROVE HandshakesAhead(v, X, q, g)
  <2> SUFFICES ASSUME NEW i \in DOMAIN v, v[i].body.typ = "handshake", NEW x \in X,
                      x.key = v[i].body.of, NEW j \in DOMAIN q
               PROVE  q[j] < x.id
    BY <1>6 DEF HandshakesAhead
  <2>1. id < x.id
    <3>1. /\ i + 1 \in DOMAIN w /\ w[i + 1].body.typ = "handshake" /\ x.key = w[i + 1].body.of
          /\ 1 \in DOMAIN w /\ 1 < i + 1 /\ w[1].body.typ = "app" /\ id = w[1].body.of
      BY <1>1, <1>4, <1>7 DEF id
    <3> QED BY <3>1 DEF HandshakesAhead
  <2>2. \A m \in DOMAIN op : op[m] < x.id
    BY <1>6 DEF HandshakesAhead
  <2> QED BY <1>3, <2>1, <2>2
<1>8. ASSUME Head(w).body.typ = "handshake"
      PROVE  /\ Head(w).body.of \in 1 .. g
             /\ \A x \in X : x.key = Head(w).body.of => \A j \in DOMAIN op : op[j] < x.id
  BY <1>1, <1>4, <1>8 DEF HandshakesAhead
<1> QED BY <1>6, <1>7, <1>8 DEF v, q, id

\* One more seal, of a message later than all on the wire and all opened.
LEMMA AheadSeal ==
    ASSUME NEW w, NEW X, NEW op, NEW g, HandshakesAhead(w, X, op, g), NEW y,
           \A j \in DOMAIN op : op[j] < y.id,
           \A j \in DOMAIN w : w[j].body.typ = "app" => w[j].body.of < y.id,
           NEW Y \in SUBSET (X \union {y})
    PROVE  HandshakesAhead(w, Y, op, g)
BY DEF HandshakesAhead

-----------------------------------------------------------------------------
(* The steps *)

LEMMA SealInit == Init => SealInv
<1> SUFFICES ASSUME Init PROVE SealInv
  OBVIOUS
<1>1. DOMAIN wire = {} /\ DOMAIN opened = {}
  BY DEF Init
<1>2. \A s \in Senders : wr[s].pc = "idle"
  BY DEF Init, NoRecord
<1>3. TagsOK
  BY <1>1, <1>2 DEF Init, TagsOK, NewHalfConn, NewContext
<1>4. Seals = {}
  BY <1>1, <1>2 DEF Seals, HandSeals, WireSeals
<1> QED BY <1>1, <1>3, <1>4 DEF SealInv, SealsOK, SeqOrdersIds, AheadOfOpened, AheadOfHandshake,
          HandshakesAhead, OpenedInSealOrder

\* Steps that leave all of it alone.
LEMMA SealFrame ==
    ASSUME SealInv, UNCHANGED <<gen, out, wr, written, wire, in, opened>> PROVE SealInv'
<1>1. HandSeals' = HandSeals
  BY DEF HandSeals
<1>2. Seals' = Seals
  BY <1>1 DEF Seals
<1>3. TagsOK'
  BY DEF SealInv, TagsOK
<1>4. SealsOK' /\ SeqOrdersIds' /\ AheadOfOpened' /\ AheadOfHandshake' /\ OpenedInSealOrder'
  BY <1>2 DEF SealInv, SealsOK, SeqOrdersIds, AheadOfOpened, AheadOfHandshake, OpenedInSealOrder
<1> QED BY <1>3, <1>4 DEF SealInv

\* Steps that seal and open nothing.
LEMMA SealsKept ==
    ASSUME TypeInv, SealInv, Seals' \subseteq Seals, UNCHANGED <<out, written, opened>>,
           gen' \in Nat, gen <= gen', in' = in \/ in'.ctx.key = 0
    PROVE  SealsOK' /\ SeqOrdersIds' /\ AheadOfOpened' /\ OpenedInSealOrder'
<1>0. gen \in Nat /\ \A k \in 1 .. gen : k \in 1 .. gen'
  BY DEF TypeInv, TypeOK
<1>1. SealsOK'
  BY <1>0 DEF SealInv, SealsOK
<1>2. SeqOrdersIds'
  BY DEF SealInv, SeqOrdersIds
<1>3. AheadOfOpened'
  BY DEF SealInv, AheadOfOpened
<1>4. OpenedInSealOrder'
  BY DEF SealInv, OpenedInSealOrder
<1> QED BY <1>1, <1>2, <1>3, <1>4

LEMMA RekeySeal == ASSUME TypeInv, SealInv, Rekey PROVE SealInv'
<1> DEFINE rec == Record([typ |-> "handshake", of |-> gen + 1], Nil)
<1>1. gen \in Nat /\ gen + 1 \in Nat /\ wire \in Seq(Records)
  BY DEF TypeInv, TypeOK
<1>2. rec \in Records /\ rec.body.typ = "handshake" /\ rec.body.of = gen + 1
  <2>1. rec \in Records
    BY <1>1, RecordType DEF Bodies
  <2> QED BY <2>1 DEF Record
<1>3. wire' = Append(wire, rec) /\ gen' = gen + 1 /\ UNCHANGED <<out, wr, written, in, opened>>
  BY DEF Rekey
<1> HIDE DEF rec
<1>4. Seals' \subseteq Seals
  <2>1. HandSeals' = HandSeals
    BY <1>3 DEF HandSeals
  <2>2. WireSeals(wire') \subseteq WireSeals(wire)
    BY <1>1, <1>2, <1>3, WireSealsAppend
  <2> QED BY <2>1, <2>2 DEF Seals
<1>5. TagsOK'
  <2>1. \A i \in DOMAIN wire' : Tagged(wire'[i])
    <3>1. /\ Len(wire) \in Nat /\ DOMAIN wire = 1 .. Len(wire) /\ DOMAIN wire' = 1 .. Len(wire) + 1
          /\ \A i \in DOMAIN wire : wire'[i] = wire[i]
          /\ wire'[Len(wire) + 1] = rec
      BY <1>1, <1>2, <1>3, AppendFacts
    <3>2. \A i \in DOMAIN wire' : i \in DOMAIN wire \/ i = Len(wire) + 1
      BY <3>1
    <3>3. Tagged(rec) /\ \A i \in DOMAIN wire : Tagged(wire[i])
      BY <1>2 DEF SealInv, TagsOK, Tagged
    <3> QED BY <3>1, <3>2, <3>3
  <2>2. \A s \in Senders : wr[s].pc = "ready" => wr[s].key <= gen + 1
    BY <1>1 DEF SealInv, TagsOK, TypeInv, TypeOK, SendersOK
  <2> QED BY <1>3, <2>1, <2>2 DEF SealInv, TagsOK
<1>6. AheadOfHandshake'
  <2>1. HandshakesAhead(wire, Seals, opened, gen)
    BY DEF SealInv, AheadOfHandshake
  <2>2. HandshakesAhead(wire, Seals', opened, gen + 1)
    <3>1. gen <= gen + 1
      BY <1>1
    <3> QED BY <1>1, <1>4, <2>1, <3>1, AheadMonotone
  <2>3. \A x \in Seals' : x.key # gen + 1
    BY <1>1, <1>4 DEF SealInv, SealsOK
  <2>4. gen + 1 \in 1 .. gen + 1
    BY <1>1
  <2>5. HandshakesAhead(wire', Seals', opened, gen + 1)
    BY <1>1, <1>2, <1>3, <2>2, <2>3, <2>4, AheadAppend
  <2> QED BY <1>3, <2>5 DEF AheadOfHandshake
<1>7. SealsOK' /\ SeqOrdersIds' /\ AheadOfOpened' /\ OpenedInSealOrder'
  BY <1>1, <1>3, <1>4, SealsKept
<1> QED BY <1>5, <1>6, <1>7 DEF SealInv

\* A sender puts its record down, or has none yet.
LEMMA PutDownSeal ==
    ASSUME TypeInv, SealInv, NEW s \in Senders, NEW pc \in {"idle", "ready"}, NEW key \in Nat,
           key <= gen, wr' = [wr EXCEPT ![s] = [pc |-> pc, key |-> key, rec |-> Nil]],
           UNCHANGED <<gen, out>>
    PROVE  /\ HandSeals' \subseteq HandSeals
           /\ (\A i \in DOMAIN wire' : Tagged(wire'[i])) => TagsOK'
<1> DEFINE v == [pc |-> pc, key |-> key, rec |-> Nil]
<1>1. v.pc # "sealed" /\ v.pc = pc /\ v.key = key /\ wr' = [wr EXCEPT ![s] = v] /\ DOMAIN wr = Senders
  BY DEF TypeInv, TypeOK
<1> HIDE DEF v
<1>2. HandSeals' \subseteq HandSeals
  BY <1>1, HandStep
<1>3. \A a \in Senders : wr'[a] = IF a = s THEN v ELSE wr[a]
  BY <1>1
<1>4. \A a \in Senders : /\ wr'[a].pc = "sealed" => Tagged(wr'[a].rec) /\ wr'[a].rec.body.typ # "handshake"
                         /\ wr'[a].pc = "ready" => wr'[a].key <= gen
  BY <1>1, <1>3 DEF SealInv, TagsOK
<1>5. (\A i \in DOMAIN wire' : Tagged(wire'[i])) => TagsOK'
  BY <1>4 DEF SealInv, TagsOK
<1> QED BY <1>2, <1>5

LEMMA WriteStartSeal == ASSUME TypeInv, SealInv, NEW s \in Writers, WriteStart(s) PROVE SealInv'
<1>1. /\ wr' = [wr EXCEPT ![s] = [pc |-> "ready", key |-> gen, rec |-> Nil]]
      /\ UNCHANGED <<gen, out, written, wire, in, opened>>
      /\ gen \in Nat /\ gen <= gen /\ s \in Senders
  BY DEF WriteStart, TypeInv, TypeOK, Senders
<1>2. HandSeals' \subseteq HandSeals /\ ((\A i \in DOMAIN wire' : Tagged(wire'[i])) => TagsOK')
  BY <1>1, PutDownSeal
<1>3. TagsOK' /\ Seals' \subseteq Seals
  BY <1>1, <1>2 DEF SealInv, TagsOK, Seals
<1>4. AheadOfHandshake'
  BY <1>1, <1>3, AheadMonotone DEF SealInv, AheadOfHandshake
<1> QED BY <1>1, <1>3, <1>4, SealsKept DEF SealInv

LEMMA WriteFailsSeal == ASSUME TypeInv, SealInv, NEW s \in Senders, WriteFails(s) PROVE SealInv'
<1>1. /\ wr' = [wr EXCEPT ![s] = [pc |-> "idle", key |-> 0, rec |-> Nil]]
      /\ UNCHANGED <<gen, out, written, wire, in, opened>>
      /\ gen \in Nat /\ 0 <= gen /\ gen <= gen
  BY DEF WriteFails, NoRecord, TypeInv, TypeOK
<1>2. HandSeals' \subseteq HandSeals /\ ((\A i \in DOMAIN wire' : Tagged(wire'[i])) => TagsOK')
  BY <1>1, PutDownSeal
<1>3. TagsOK' /\ Seals' \subseteq Seals
  BY <1>1, <1>2 DEF SealInv, TagsOK, Seals
<1>4. AheadOfHandshake'
  BY <1>1, <1>3, AheadMonotone DEF SealInv, AheadOfHandshake
<1> QED BY <1>1, <1>3, <1>4, SealsKept DEF SealInv

LEMMA WritePutSeal == ASSUME TypeInv, SealInv, NEW s \in Senders, WritePut(s) PROVE SealInv'
<1> DEFINE rec == wr[s].rec
<1> DEFINE k == IF rec.body.typ = "app" THEN Len(store) + 1 ELSE 0
<1> DEFINE sent == [rec EXCEPT !.n = k]
<1>1. /\ wr' = [wr EXCEPT ![s] = [pc |-> "idle", key |-> 0, rec |-> Nil]]
      /\ wire' = Append(wire, sent)
      /\ UNCHANGED <<gen, out, written, in, opened>>
      /\ wr[s].pc = "sealed" /\ wire \in Seq(Records)
      /\ gen \in Nat /\ 0 <= gen /\ gen <= gen
  BY DEF WritePut, NoRecord, TypeInv, TypeOK
<1>2. rec \in Records /\ Tagged(rec) /\ rec.body.typ # "handshake"
  BY <1>1 DEF TypeInv, SendersOK, SealInv, TagsOK
<1>3. sent \in Records /\ sent.body = rec.body /\ sent.tag = rec.tag
  <2>1. k \in Nat
    BY DEF TypeInv, TypeOK
  <2> HIDE DEF k, rec
  <2> QED BY <1>2, <2>1 DEF Records
<1>4. rec.body.typ = "app" => SealOf(rec) \in HandSeals
  BY <1>1 DEF HandSeals
<1> HIDE DEF k, sent, rec
<1>5. SealOf(sent) = SealOf(rec) /\ Tagged(sent)
  BY <1>2, <1>3 DEF SealOf, Tagged
<1>6. \A i \in DOMAIN wire' : Tagged(wire'[i])
  <2>1. /\ Len(wire) \in Nat /\ DOMAIN wire = 1 .. Len(wire) /\ DOMAIN wire' = 1 .. Len(wire) + 1
        /\ \A i \in DOMAIN wire : wire'[i] = wire[i]
        /\ wire'[Len(wire) + 1] = sent
    BY <1>1, <1>3, AppendFacts
  <2>2. \A i \in DOMAIN wire' : i \in DOMAIN wire \/ i = Len(wire) + 1
    BY <2>1
  <2>3. \A i \in DOMAIN wire : Tagged(wire[i])
    BY DEF SealInv, TagsOK
  <2> QED BY <1>5, <2>1, <2>2, <2>3
<1>7. HandSeals' \subseteq HandSeals /\ TagsOK'
  BY <1>1, <1>6, PutDownSeal
<1>8. Seals' \subseteq Seals
  <2>1. \A x \in WireSeals(wire') : x \in WireSeals(wire) \/ (rec.body.typ = "app" /\ x = SealOf(rec))
    BY <1>1, <1>3, <1>5, WireSealsAppend
  <2> QED BY <1>4, <1>7, <2>1 DEF Seals
<1>9. AheadOfHandshake'
  <2>1. HandshakesAhead(wire, Seals', opened, gen)
    BY <1>1, <1>8, AheadMonotone DEF SealInv, AheadOfHandshake
  <2>2. HandshakesAhead(wire', Seals', opened, gen)
    BY <1>1, <1>2, <1>3, <2>1, AheadAppend
  <2> QED BY <1>1, <2>2 DEF AheadOfHandshake
<1> QED BY <1>1, <1>7, <1>8, <1>9, SealsKept DEF SealInv

LEMMA RelayDropSeal == ASSUME TypeInv, SealInv, RelayDrop PROVE SealInv'
<1>1. /\ wire \in Seq(Records) /\ wire # <<>> /\ wire' = Tail(wire) /\ opened \in Seq(Nat)
      /\ UNCHANGED <<gen, out, wr, written, in, opened>> /\ gen \in Nat /\ gen <= gen
  BY DEF TypeInv, TypeOK, RelayDrop, senderVars
<1>2. Seals' \subseteq Seals
  <2>1. HandSeals' = HandSeals
    BY <1>1 DEF HandSeals
  <2> QED BY <1>1, <2>1, WireSealsTail DEF Seals
<1>3. TagsOK'
  <2>1. \A i \in DOMAIN wire' : i + 1 \in DOMAIN wire /\ wire'[i] = wire[i + 1]
    BY <1>1, TailFacts
  <2> QED BY <1>1, <2>1 DEF SealInv, TagsOK
<1>4. AheadOfHandshake'
  <2>1. HandshakesAhead(wire, Seals', opened, gen)
    BY <1>1, <1>2, AheadMonotone DEF SealInv, AheadOfHandshake
  <2>2. HandshakesAhead(wire', Seals', opened, gen)
    BY <1>1, <2>1, AheadTail
  <2> QED BY <1>1, <2>2 DEF AheadOfHandshake
<1> QED BY <1>1, <1>2, <1>3, <1>4, SealsKept DEF SealInv

LEMMA SessionEndsSeal == ASSUME TypeInv, SealInv, SessionEnds PROVE SealInv'
<1>1. /\ UNCHANGED <<gen, out, wr, written, wire, opened>> /\ in'.ctx.key = 0
      /\ gen \in Nat /\ gen <= gen
  BY DEF TypeInv, TypeOK, SessionEnds, CloseSession, NoCipher, NewHalfConn, NewContext, senderVars
<1>2. Seals' = Seals
  BY <1>1 DEF Seals, HandSeals
<1>3. TagsOK' /\ AheadOfHandshake'
  BY <1>1, <1>2 DEF SealInv, TagsOK, AheadOfHandshake
<1> QED BY <1>1, <1>2, <1>3, SealsKept DEF SealInv

\* halfConn.encrypt: the seal has the session's key and its next sequence number.
LEMMA EncryptedSeal ==
    ASSUME NEW hc \in HalfConns, NEW body \in Bodies
    PROVE  /\ Encrypted(hc, body).ctx.key = hc.ctx.key
           /\ Encrypted(hc, body).seq = hc.seq + 1
           /\ Encrypted(hc, body).ctx.tag = Tag(hc.ctx.key, hc.seq, body)
<1> DEFINE ctx == hc.ctx
<1> DEFINE seq == hc.seq
<1>1. ctx \in Contexts /\ seq \in Nat
  BY DEF HalfConns
<1> HIDE DEF ctx, seq
<1>2. SetAAD(ctx, seq) \in Contexts /\ SetAAD(ctx, seq).key = ctx.key /\ SetAAD(ctx, seq).aad = seq
  BY <1>1 DEF SetAAD, Contexts
<1>3. ASSUME NEW c \in Contexts, c.key = ctx.key, c.aad = seq
      PROVE  EncryptAll(c, body).key = ctx.key /\ EncryptAll(c, body).tag = Tag(ctx.key, seq, body)
  BY <1>3 DEF EncryptAll, SetTag, Contexts
<1> QED BY <1>2, <1>3 DEF Encrypted, Seal, ctx, seq

LEMMA SealStep ==
    ASSUME TypeInv, SealInv, NEW s \in Senders, NEW key \in 1 .. gen, NEW body \in Bodies,
           body.typ # "handshake", SealInHand(s, key, body), UNCHANGED <<gen, wire, in, opened>>,
           body.typ = "app" => body.of = written + 1 /\ written' = written + 1,
           body.typ # "app" => written' = written
    PROVE  SealInv'
<1> DEFINE hc == Encrypted(out[key], body)
<1> DEFINE rec == Record(body, hc.ctx.tag)
<1> DEFINE v == [pc |-> "sealed", key |-> key, rec |-> rec]
<1> DEFINE y == [id |-> body.of, key |-> key, seq |-> out[key].seq]
<1>0. gen \in Nat /\ key \in 1 .. MaxGen /\ written \in Nat /\ out \in [1 .. MaxGen -> HalfConns]
      /\ opened \in Seq(Nat) /\ wire \in Seq(Records)
  BY BoundsAssumption, SMTT(60) DEF TypeInv, TypeOK
<1>1. out[key] \in HalfConns /\ out[key].ctx.key = key /\ out[key].seq \in Nat
  BY <1>0 DEF SealInv, TagsOK, HalfConns
<1>2. hc.ctx.key = key /\ hc.seq = out[key].seq + 1 /\ hc.ctx.tag = Tag(key, out[key].seq, body)
      /\ hc.ctx.tag \in Tags
  BY <1>1, EncryptedSeal, EncryptedType
<1>3. out' = [out EXCEPT ![key] = hc] /\ wr' = [wr EXCEPT ![s] = v] /\ DOMAIN wr = Senders
  BY DEF SealInHand, TypeInv, TypeOK
<1>4. rec.body = body /\ rec.tag \in Tags /\ SealOf(rec) = y
  BY <1>2 DEF Record, SealOf, Tag
<1>5. v.pc = "sealed" /\ v.rec = rec
  OBVIOUS
<1> HIDE DEF hc, rec, v
<1>6. /\ \A k \in 1 .. MaxGen : out'[k].ctx.key = k
      /\ out'[key].seq = out[key].seq + 1
      /\ \A k \in 1 .. MaxGen : k # key => out'[k].seq = out[k].seq
  BY <1>0, <1>2, <1>3 DEF SealInv, TagsOK
<1>7. TagsOK'
  <2>1. \A a \in Senders : wr'[a] = IF a = s THEN v ELSE wr[a]
    BY <1>3
  <2>2. \A a \in Senders : /\ wr'[a].pc = "sealed" => Tagged(wr'[a].rec) /\ wr'[a].rec.body.typ # "handshake"
                           /\ wr'[a].pc = "ready" => wr'[a].key <= gen
    BY <1>4, <1>5, <2>1 DEF SealInv, TagsOK, Tagged
  <2> QED BY <1>6, <2>2 DEF SealInv, TagsOK
<1>8. \A x \in Seals' : x \in Seals \/ (body.typ = "app" /\ x = y)
  <2>1. \A x \in HandSeals' : x \in HandSeals \/ (body.typ = "app" /\ x = y)
    BY <1>3, <1>4, <1>5, HandStep
  <2> QED BY <2>1 DEF Seals
<1>9. y.id = body.of /\ y.key = key /\ y.seq = out[key].seq
  OBVIOUS
<1> HIDE DEF y
<1>10. \A x \in Seals : x.id \in 1 .. written /\ x.key \in 1 .. gen /\ x.seq \in Nat /\ x.seq < out[x.key].seq
  BY DEF SealInv, SealsOK
<1>11. \A x \in Seals : x.seq < out'[x.key].seq
  <2> SUFFICES ASSUME NEW x \in Seals PROVE x.seq < out'[x.key].seq
    OBVIOUS
  <2>1. x.key \in 1 .. MaxGen /\ x.seq \in Nat /\ x.seq < out[x.key].seq
    <3>1. gen \in 0 .. MaxGen /\ MaxGen \in Nat
      BY BoundsAssumption DEF TypeInv, TypeOK
    <3>2. x.key \in 1 .. gen /\ x.seq \in Nat /\ x.seq < out[x.key].seq
      BY <1>10
    <3> QED BY <3>1, <3>2
  <2>2. CASE x.key = key
    BY <1>1, <1>6, <2>1, <2>2
  <2>3. CASE x.key # key
    BY <1>6, <2>1, <2>3
  <2> QED BY <2>2, <2>3
<1>12. SealsOK'
  <2>1. \A i \in DOMAIN opened : opened[i] \in Nat /\ opened[i] <= written
    BY <1>0 DEF SealInv, SealsOK
  <2>2. \A i \in DOMAIN opened : opened[i] <= written'
    BY <1>0, <2>1
  <2>3. ASSUME NEW x \in Seals'
        PROVE  x.id \in 1 .. written' /\ x.key \in 1 .. gen /\ x.seq \in Nat /\ x.seq < out'[x.key].seq
    <3>1. CASE x \in Seals
      BY <1>0, <1>10, <1>11, <3>1
    <3>2. CASE body.typ = "app" /\ x = y
      BY <1>0, <1>1, <1>6, <1>9, <3>2
    <3> QED BY <1>8, <3>1, <3>2
  <2> QED BY <2>2, <2>3 DEF SealsOK
<1>13. SeqOrdersIds'
  <2> SUFFICES ASSUME NEW x \in Seals', NEW z \in Seals', x.key = z.key, x.seq < z.seq
               PROVE  x.id < z.id
    BY DEF SeqOrdersIds
  <2>1. CASE x \in Seals /\ z \in Seals
    BY <2>1 DEF SealInv, SeqOrdersIds
  <2>2. CASE x \in Seals /\ body.typ = "app" /\ z = y
    BY <1>0, <1>9, <1>10, <2>2
  <2>3. CASE z \in Seals /\ x = y
    BY <1>1, <1>9, <1>10, <2>3
  <2>4. CASE x = y /\ z = y
    BY <1>1, <1>9, <2>4
  <2> QED BY <1>8, <2>1, <2>2, <2>3, <2>4
<1>14. body.typ = "app" => \A i \in DOMAIN opened : opened[i] < y.id
  BY <1>0, <1>9 DEF SealInv, SealsOK
<1>15. AheadOfOpened'
  BY <1>8, <1>14 DEF SealInv, AheadOfOpened
<1>16. AheadOfHandshake'
  <2>0. HandshakesAhead(wire, Seals, opened, gen)
    BY DEF SealInv, AheadOfHandshake
  <2>1. CASE body.typ = "app"
    <3>1. \A j \in DOMAIN wire : wire[j].body.typ = "app" => wire[j].body.of < y.id
      <4> SUFFICES ASSUME NEW j \in DOMAIN wire, wire[j].body.typ = "app" PROVE wire[j].body.of < y.id
        OBVIOUS
      <4>1. SealOf(wire[j]) \in Seals /\ SealOf(wire[j]).id = wire[j].body.of
        BY DEF Seals, WireSeals, SealOf
      <4> QED BY <1>0, <1>9, <1>10, <2>1, <4>1
    <3>2. Seals' \subseteq Seals \union {y}
      BY <1>8
    <3>3. HandshakesAhead(wire, Seals', opened, gen)
      BY <1>14, <2>0, <2>1, <3>1, <3>2, AheadSeal
    <3> QED BY <3>3 DEF AheadOfHandshake
  <2>2. CASE body.typ # "app"
    <3>1. Seals' \subseteq Seals /\ gen <= gen
      BY <1>0, <1>8, <2>2
    <3>2. HandshakesAhead(wire, Seals', opened, gen)
      BY <1>0, <2>0, <3>1, AheadMonotone
    <3> QED BY <3>2 DEF AheadOfHandshake
  <2> QED BY <2>1, <2>2
<1>17. OpenedInSealOrder'
  BY DEF SealInv, OpenedInSealOrder
<1> QED BY <1>7, <1>12, <1>13, <1>15, <1>16, <1>17 DEF SealInv

LEMMA WriteSealSeal == ASSUME TypeInv, SealInv, NEW s \in Writers, WriteSeal(s) PROVE SealInv'
<1> DEFINE body == [typ |-> "app", of |-> written + 1]
<1>1. /\ s \in Senders /\ wr[s].pc = "ready" /\ SealInHand(s, wr[s].key, body)
      /\ written' = written + 1 /\ UNCHANGED <<gen, wire, in, opened>>
  BY DEF WriteSeal, Senders
<1>2. wr[s].key \in 1 .. gen
  <2>1. wr[s].key \in 1 .. MaxGen /\ wr[s].key <= gen /\ gen \in Nat
    BY <1>1 DEF TypeInv, TypeOK, SendersOK, SealInv, TagsOK
  <2> QED BY <2>1
<1>3. body \in Bodies /\ body.typ = "app" /\ body.of = written + 1
  BY DEF Bodies, TypeInv, TypeOK
<1> HIDE DEF body
<1> QED BY <1>1, <1>2, <1>3, SealStep

LEMMA AnswerLostSeal == ASSUME TypeInv, SealInv, NEW r \in requests, AnswerLost(r) PROVE SealInv'
<1> DEFINE body == [typ |-> "retransmit", of |-> r.n]
<1>1. /\ body \in Bodies /\ body.typ = "retransmit" /\ ReadLoop \in Senders
      /\ UNCHANGED <<gen, written, wire, in, opened>>
  BY DEF Bodies, TypeInv, TypeOK, Senders, AnswerLost
<1>2. (SealInHand(ReadLoop, gen, body) /\ r.key = gen) \/ UNCHANGED <<out, wr>>
  BY DEF AnswerLost
<1> HIDE DEF body
<1>3. CASE SealInHand(ReadLoop, gen, body) /\ r.key = gen
  <2>1. gen \in 1 .. gen
    BY <1>3 DEF TypeInv, TypeOK, RequestsOK
  <2> QED BY <1>1, <1>3, <2>1, SealStep
<1>4. CASE UNCHANGED <<out, wr>>
  BY <1>1, <1>4, SealFrame
<1> QED BY <1>2, <1>3, <1>4

\* halfConn.decrypt: what opens was sealed with the session's key and the
\* sequence number it expects.
LEMMA DecryptsMeans ==
    ASSUME NEW hc \in HalfConns, NEW rec \in Records, Decrypts(hc, rec)
    PROVE  rec.tag = Tag(hc.ctx.key, hc.seq, rec.body)
<1> DEFINE ctx == hc.ctx
<1> DEFINE seq == hc.seq
<1> DEFINE tag == rec.tag
<1>1. ctx \in Contexts /\ seq \in Nat /\ tag \in Tags \union {Nil}
  BY DEF HalfConns, Records
<1> HIDE DEF ctx, seq, tag
<1>2. SetAAD(ctx, seq) \in Contexts /\ SetAAD(ctx, seq).key = ctx.key /\ SetAAD(ctx, seq).aad = seq
  BY <1>1 DEF SetAAD, Contexts
<1>3. ASSUME NEW c \in Contexts
      PROVE  SetTag(c, tag).key = c.key /\ SetTag(c, tag).aad = c.aad /\ SetTag(c, tag).tag = tag
  BY DEF SetTag, Contexts
<1>4. DecryptAll(SetTag(SetAAD(ctx, seq), tag), rec.body)
  BY DEF Decrypts, OpenWith, ctx, seq, tag
<1> QED BY <1>2, <1>3, <1>4 DEF DecryptAll, ctx, seq, tag

LEMMA DecryptedKey ==
    ASSUME NEW hc \in HalfConns, NEW rec
    PROVE  Decrypted(hc, rec).ctx.key = hc.ctx.key /\ Decrypted(hc, rec).seq = hc.seq + 1
<1> DEFINE ctx == hc.ctx
<1> DEFINE seq == hc.seq
<1>1. ctx \in Contexts
  BY DEF HalfConns
<1> HIDE DEF ctx, seq
<1>2. SetTag(SetAAD(ctx, seq), rec.tag).key = ctx.key
  BY <1>1 DEF SetTag, SetAAD, Contexts
<1> QED BY <1>2 DEF Decrypted, OpenWith, ctx, seq

\* An application record opens: it is later than all before, and earlier than
\* all that the session can still open.
LEMMA OpenSeal ==
    ASSUME TypeInv, SealInv, Seals' \subseteq Seals, NEW x \in Seals, in.ctx.key # 0,
           x.key = in.ctx.key, x.seq = in.seq, opened' = Append(opened, x.id),
           in'.ctx.key = in.ctx.key, in'.seq = in.seq + 1, UNCHANGED <<out, written, gen>>
    PROVE  SealsOK' /\ SeqOrdersIds' /\ AheadOfOpened' /\ OpenedInSealOrder'
<1>0. /\ opened \in Seq(Nat) /\ written \in Nat /\ x.id \in Nat /\ x.id <= written /\ in.seq \in Nat
      /\ \A z \in Seals : z.seq \in Nat /\ z.id \in Nat
  BY SMTT(60) DEF TypeInv, TypeOK, SealInv, SealsOK, HalfConns
<1> DEFINE L == Len(opened)
<1>1. /\ L \in Nat /\ DOMAIN opened = 1 .. L /\ DOMAIN opened' = 1 .. L + 1
      /\ \A i \in DOMAIN opened : opened'[i] = opened[i]
      /\ opened'[L + 1] = x.id
  BY <1>0, AppendFacts
<1> HIDE DEF L
<1>2. \A i \in DOMAIN opened' : i \in DOMAIN opened \/ i = L + 1
  BY <1>1
<1>3. \A i \in DOMAIN opened : opened[i] < x.id
  BY <1>0 DEF SealInv, AheadOfOpened
<1>4. SealsOK'
  <2>1. \A i \in DOMAIN opened' : opened'[i] <= written
    BY <1>0, <1>1, <1>2 DEF SealInv, SealsOK
  <2> QED BY <2>1 DEF SealInv, SealsOK
<1>5. SeqOrdersIds'
  BY DEF SealInv, SeqOrdersIds
<1>6. AheadOfOpened'
  <2> SUFFICES ASSUME NEW z \in Seals', z.key = in.ctx.key, z.seq >= in.seq + 1,
                      NEW i \in DOMAIN opened'
               PROVE  opened'[i] < z.id
    BY DEF AheadOfOpened
  <2>1. z \in Seals /\ x.seq < z.seq /\ z.seq >= in.seq
    BY <1>0
  <2>2. x.id < z.id
    BY <2>1 DEF SealInv, SeqOrdersIds
  <2>3. \A j \in DOMAIN opened : opened[j] < z.id
    BY <2>1 DEF SealInv, AheadOfOpened
  <2> QED BY <1>1, <1>2, <2>2, <2>3
<1>7. OpenedInSealOrder'
  <2> SUFFICES ASSUME NEW i \in DOMAIN opened', NEW j \in DOMAIN opened', i < j
               PROVE  opened'[i] < opened'[j]
    BY DEF OpenedInSealOrder
  <2>1. i \in DOMAIN opened
    BY <1>1
  <2>2. CASE j \in DOMAIN opened
    BY <1>1, <2>1, <2>2 DEF SealInv, OpenedInSealOrder
  <2>3. CASE j = L + 1
    BY <1>1, <1>3, <2>1, <2>3
  <2> QED BY <1>2, <2>2, <2>3
<1> QED BY <1>4, <1>5, <1>6, <1>7

LEMMA ReceiveSeal == ASSUME TypeInv, SealInv, Receive PROVE SealInv'
<1> DEFINE rec == Head(wire)
<1>1. /\ wire \in Seq(Records) /\ wire # <<>> /\ wire' = Tail(wire) /\ opened \in Seq(Nat)
      /\ UNCHANGED <<gen, out, wr, written>> /\ gen \in Nat /\ gen <= gen /\ in \in HalfConns
  BY DEF TypeInv, TypeOK, Receive, senderVars
<1>2. /\ rec \in Records
      /\ \A i \in DOMAIN wire' : i + 1 \in DOMAIN wire /\ wire'[i] = wire[i + 1]
  BY <1>1, TailFacts
<1>3. Seals' \subseteq Seals /\ (rec.body.typ = "app" => SealOf(rec) \in Seals)
  <2>1. HandSeals' = HandSeals
    BY <1>1 DEF HandSeals
  <2> QED BY <1>1, <2>1, WireSealsTail DEF Seals
<1>4. TagsOK'
  BY <1>1, <1>2 DEF SealInv, TagsOK
<1>5. /\ HandshakesAhead(wire', Seals', opened, gen)
      /\ rec.body.typ = "app" => HandshakesAhead(wire', Seals', Append(opened, rec.body.of), gen)
      /\ rec.body.typ = "handshake" =>
            \A x \in Seals' : x.key = rec.body.of => \A j \in DOMAIN opened : opened[j] < x.id
  <2>1. HandshakesAhead(wire, Seals', opened, gen)
    BY <1>1, <1>3, AheadMonotone DEF SealInv, AheadOfHandshake
  <2> QED BY <1>1, <2>1, AheadTail
<1>6. \/ rec.body.typ = "handshake" /\ in' = NewHalfConn(rec.body.of) /\ UNCHANGED opened
      \/ UNCHANGED <<in, opened>>
      \/ /\ rec.body.typ = "app" /\ in.ctx.key # 0 /\ Decrypts(in, rec)
         /\ in' = Decrypted(in, rec) /\ opened' = Append(opened, rec.body.of)
      \/ in' = Decrypted(in, rec) /\ UNCHANGED opened
      \/ CloseSession /\ UNCHANGED opened
  BY DEF Receive, MarkLost
<1> HIDE DEF rec
<1>7. ASSUME UNCHANGED opened PROVE AheadOfHandshake'
  BY <1>1, <1>5, <1>7 DEF AheadOfHandshake
<1>8. ASSUME UNCHANGED opened PROVE SealsOK' /\ SeqOrdersIds' /\ OpenedInSealOrder'
  BY <1>1, <1>3, <1>8 DEF SealInv, SealsOK, SeqOrdersIds, OpenedInSealOrder
<1>9. CASE rec.body.typ = "handshake" /\ in' = NewHalfConn(rec.body.of) /\ UNCHANGED opened
  <2>1. in'.ctx.key = rec.body.of
    BY <1>9 DEF NewHalfConn, NewContext
  <2>2. AheadOfOpened'
    BY <1>5, <1>9, <2>1 DEF AheadOfOpened
  <2> QED BY <1>4, <1>7, <1>8, <1>9, <2>2 DEF SealInv
<1>10. CASE UNCHANGED <<in, opened>>
  BY <1>1, <1>3, <1>4, <1>7, <1>10, SealsKept DEF SealInv
<1>11. CASE /\ rec.body.typ = "app" /\ in.ctx.key # 0 /\ Decrypts(in, rec)
            /\ in' = Decrypted(in, rec) /\ opened' = Append(opened, rec.body.of)
  <2>1. rec.tag = Tag(in.ctx.key, in.seq, rec.body)
    BY <1>1, <1>2, <1>11, DecryptsMeans
  <2> DEFINE x == SealOf(rec)
  <2>2. x \in Seals /\ x.key = in.ctx.key /\ x.seq = in.seq /\ x.id = rec.body.of
    BY <1>3, <1>11, <2>1 DEF SealOf, Tag
  <2>3. in'.ctx.key = in.ctx.key /\ in'.seq = in.seq + 1
    BY <1>1, <1>11, DecryptedKey
  <2> HIDE DEF x
  <2>4. SealsOK' /\ SeqOrdersIds' /\ AheadOfOpened' /\ OpenedInSealOrder'
    BY <1>1, <1>3, <1>11, <2>2, <2>3, OpenSeal
  <2>5. AheadOfHandshake'
    BY <1>1, <1>5, <1>11 DEF AheadOfHandshake
  <2> QED BY <1>4, <2>4, <2>5 DEF SealInv
<1>12. CASE in' = Decrypted(in, rec) /\ UNCHANGED opened
  <2>1. in'.ctx.key = in.ctx.key /\ in'.seq = in.seq + 1 /\ in.seq \in Nat
    BY <1>1, <1>12, DecryptedKey DEF HalfConns
  <2>2. AheadOfOpened'
    <3> SUFFICES ASSUME in.ctx.key # 0, NEW z \in Seals', z.key = in.ctx.key, z.seq >= in.seq + 1,
                        NEW i \in DOMAIN opened
                 PROVE  opened[i] < z.id
      BY <1>12, <2>1 DEF AheadOfOpened
    <3>1. z \in Seals /\ z.seq \in Nat
      BY <1>3 DEF SealInv, SealsOK
    <3>2. z.seq >= in.seq
      BY <2>1, <3>1
    <3> QED BY <3>1, <3>2 DEF SealInv, AheadOfOpened
  <2> QED BY <1>4, <1>7, <1>8, <1>12, <2>2 DEF SealInv
<1>13. CASE CloseSession /\ UNCHANGED opened
  <2>1. in'.ctx.key = 0
    BY <1>13 DEF CloseSession, NoCipher, NewHalfConn, NewContext
  <2> QED BY <1>1, <1>3, <1>4, <1>7, <1>13, <2>1, SealsKept DEF SealInv
<1> QED BY <1>6, <1>9, <1>10, <1>11, <1>12, <1>13

LEMMA SealInvStep == ASSUME TypeInv, SealInv, [Next]_vars PROVE SealInv'
<1>1. CASE UNCHANGED vars
  BY <1>1, SealFrame DEF vars
<1>2. CASE Rekey \/ RelayDrop \/ SessionEnds
  BY <1>2, RekeySeal, RelayDropSeal, SessionEndsSeal
<1>3. CASE Dial \/ ReadMessage
  BY <1>3, SealFrame DEF Dial, ReadMessage, senderVars
<1>4. CASE \E s \in Writers : WriteStart(s) \/ WriteSeal(s)
  BY <1>4, WriteStartSeal, WriteSealSeal
<1>5. CASE \E s \in Senders : WritePut(s) \/ WriteFails(s)
  BY <1>5, WritePutSeal, WriteFailsSeal
<1>6. CASE \E r \in requests : AnswerLost(r)
  BY <1>6, AnswerLostSeal
<1>7. CASE ReadLoopStep
  <2>1. CASE RlFlush \/ \E n \in rl.batch : RlSend(n) \/ RlEmit(n)
    BY <2>1, SealFrame DEF RlFlush, RlSend, RlEmit, senderVars
  <2> QED BY <1>7, <2>1, ReceiveSeal DEF ReadLoopStep
<1>8. CASE \E n \in asking : RequestLost(n)
  BY <1>8, SealFrame DEF RequestLost, senderVars
<1>9. CASE \E n \in asking \union {r.n : r \in requests} : RequestFails(n)
  BY <1>9, SealFrame DEF RequestFails, senderVars
<1>10. CASE \E n \in lost : Expire(n)
  BY <1>10, SealFrame DEF Expire, senderVars
<1>11. CASE \E g \in expiries : ExpiryStep(g)
  BY <1>11, SealFrame DEF ExpiryStep, ExpiryEmit, senderVars
<1> QED BY <1>1, <1>2, <1>3, <1>4, <1>5, <1>6, <1>7, <1>8, <1>9, <1>10, <1>11 DEF Next

\* The receiver opens application records in the order in which they were
\* sealed, however many writers, sessions, losses and failed writes there are.
THEOREM SealOrder == Spec => []OpenedInSealOrder
<1>1. TypeInv /\ SealInv /\ [Next]_vars => SealInv'
  BY SealInvStep
<1>2. SealInv => OpenedInSealOrder
  BY DEF SealInv
<1> QED BY SealInit, <1>1, <1>2, Typing, PTL DEF Spec

=============================================================================
