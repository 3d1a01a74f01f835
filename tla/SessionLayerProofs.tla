------------------------- MODULE SessionLayerProofs -------------------------
(***************************************************************************)
(* What holds of SessionLayer for every set of hosts and every bound.      *)
(***************************************************************************)
EXTENDS SessionLayer, TLAPS

\* A session that is far enough to send data has its sending cipher, a token
\* is only there once the handshake is complete, and the handshake has what
\* its next step reads.
SessionOK(s) ==
    /\ s \in Sessions
    /\ s.complete => s.out # Nil
    /\ s.token => s.complete
    /\ s.hs \in {"waitFin", "ok"} => s.out # Nil
    /\ s.hs \in {"waitKxm", "switchOut", "waitFin", "ok"} => s.rem \in Objects
    /\ s.hs = "switchOut" => s.master \in Masters

\* The record queues, with no data in the clear.
WireOK(w) ==
    /\ w \in [Hosts -> [Hosts -> Seq(Records)]]
    /\ \A h, p \in Hosts : \A i \in DOMAIN w[h][p] :
          w[h][p][i].pay.typ \in {"app", "ctl"} => w[h][p][i].key # Nil

\* Every reference to a session object is to one that was created, for that
\* host and peer.
Created(g, o, h, p) ==
    /\ o \in Objects
    /\ o[1] = h
    /\ o[2] = p
    /\ o[3] <= g[h][p]

MapOK == \A h, p \in Hosts : cur[h][p] # Nil => Created(gen, cur[h][p], h, p)

\* A readLoop has in hand what its next step reads.
RlOK(h, r) ==
    /\ r \in RlStates
    /\ r.pc # "idle" => r.o \in Objects /\ r.o[1] = h
    /\ r.pc = "await" => r.rec \in Records /\ r.rec.pay.typ \in {"app", "ctl"}
    /\ r.pc = "store" => r.rec \in Records /\ r.rec.pay.typ = "hs"

ReadLoopsOK(f) == f \in [Hosts -> RlStates] /\ \A h \in Hosts : RlOK(h, f[h])

WritersOK ==
    \A h, p \in Hosts :
        /\ wm[h][p].pc # "idle" => Created(gen, wm[h][p].o, h, p)
        /\ wm[h][p].pc = "send" => ses[wm[h][p].o].complete

\* The inductive invariant.
IInv ==
    /\ TypeOK
    /\ \A o \in Objects : SessionOK(ses[o])
    /\ WireOK(wire)
    /\ MapOK
    /\ ReadLoopsOK(rl)
    /\ WritersOK

-----------------------------------------------------------------------------
(* Lemmas about sessions, records and queues *)

\* An object is a triple of two different hosts and a generation.
LEMMA ObjectFields ==
    ASSUME NEW o \in Objects
    PROVE  o[1] \in Hosts /\ o[2] \in Hosts /\ o[1] # o[2] /\ o[3] \in 1..MaxGen /\ o # Nil
BY NilAssumption DEF Objects

\* The object that LoadOrStore or Store creates next.
LEMMA NextObject ==
    ASSUME NEW h \in Hosts, NEW p \in Hosts, h # p,
           NEW g \in 0..MaxGen, g < MaxGen
    PROVE  <<h, p, g + 1>> \in Objects
BY BoundsAssumption DEF Objects

\* NewSession starts a session in order.
LEMMA NewSessionOK ==
    ASSUME NEW b \in BOOLEAN
    PROVE  SessionOK(NewSession(b)) /\ ~NewSession(b).complete
BY DEF NewSession, SessionOK, Sessions, HsStates, Transcripts

\* encrypt keeps the session in order and makes a record of it.
LEMMA SealOK ==
    ASSUME NEW s, SessionOK(s), NEW pay \in Payloads
    PROVE  /\ Sealed(s, pay) \in Records
           /\ Sealed(s, pay).pay = pay
           /\ Sealed(s, pay).key = s.out
           /\ SessionOK(AfterSeal(s))
           /\ AfterSeal(s).complete = s.complete
<1>1. s.outSeq \in Nat /\ s.out \in Keys \union {Nil}
  BY DEF SessionOK, Sessions
<1>2. Sealed(s, pay) \in Records
  BY <1>1 DEF Sealed, Records
<1>3. SessionOK(AfterSeal(s)) /\ AfterSeal(s).complete = s.complete
  BY <1>1 DEF AfterSeal, SessionOK, Sessions
<1> QED
  BY <1>2, <1>3 DEF Sealed

\* A record joins a queue: it is sealed if it carries data.
LEMMA PutOK ==
    ASSUME NEW w, WireOK(w), NEW o \in Objects, NEW rec \in Records,
           rec.pay.typ \in {"app", "ctl"} => rec.key # Nil
    PROVE  WireOK(Put(w, o, rec))
<1>1. o[1] \in Hosts /\ o[2] \in Hosts
  BY ObjectFields
<1>2. Put(w, o, rec) \in [Hosts -> [Hosts -> Seq(Records)]]
  BY <1>1 DEF Put, WireOK
<1>3. ASSUME NEW h \in Hosts, NEW p \in Hosts, NEW i \in DOMAIN Put(w, o, rec)[h][p],
             Put(w, o, rec)[h][p][i].pay.typ \in {"app", "ctl"}
      PROVE  Put(w, o, rec)[h][p][i].key # Nil
  <2>1. CASE h = o[1] /\ p = o[2]
    <3>1. Put(w, o, rec)[h][p] = Append(w[h][p], rec)
      BY <2>1, <1>1 DEF Put, WireOK
    <3>2. w[h][p] \in Seq(Records)
      BY DEF WireOK
    <3>3. i \in 1..(Len(w[h][p]) + 1)
      BY <3>1, <3>2, <1>3
    <3>4. CASE i = Len(w[h][p]) + 1
      BY <3>1, <3>2, <3>4, <1>3
    <3>5. CASE i \in 1..Len(w[h][p])
      BY <3>1, <3>2, <3>5, <1>3 DEF WireOK
    <3> QED BY <3>3, <3>4, <3>5, <3>2
  <2>2. CASE ~(h = o[1] /\ p = o[2])
    BY <2>2, <1>1, <1>3 DEF Put, WireOK
  <2> QED BY <2>1, <2>2
<1> QED BY <1>2, <1>3 DEF WireOK

\* Taking the head of a queue leaves the queues in order.
LEMMA PopOK ==
    ASSUME NEW w, WireOK(w), NEW h \in Hosts, NEW p \in Hosts, w[p][h] # <<>>
    PROVE  WireOK(Pop(w, h, p)) /\ Head(w[p][h]) \in Records
<1>1. w[p][h] \in Seq(Records) /\ w \in [Hosts -> [Hosts -> Seq(Records)]]
  BY DEF WireOK
<1>2. Pop(w, h, p) \in [Hosts -> [Hosts -> Seq(Records)]]
  BY <1>1 DEF Pop
<1>3. ASSUME NEW a \in Hosts, NEW b \in Hosts, NEW i \in DOMAIN Pop(w, h, p)[a][b],
             Pop(w, h, p)[a][b][i].pay.typ \in {"app", "ctl"}
      PROVE  Pop(w, h, p)[a][b][i].key # Nil
  <2>1. CASE a = p /\ b = h
    <3>1. Pop(w, h, p)[a][b] = Tail(w[a][b])
      BY <2>1, <1>1 DEF Pop
    <3>2. i \in 1..(Len(w[a][b]) - 1) /\ Pop(w, h, p)[a][b][i] = w[a][b][i + 1]
      BY <3>1, <2>1, <1>1
    <3>3. i + 1 \in DOMAIN w[a][b]
      BY <3>2, <1>1, <2>1
    <3> QED BY <3>2, <3>3, <1>3 DEF WireOK
  <2>2. CASE ~(a = p /\ b = h)
    BY <2>2, <1>1, <1>3 DEF Pop, WireOK
  <2> QED BY <2>1, <2>2
<1> QED BY <1>1, <1>2, <1>3 DEF WireOK


-----------------------------------------------------------------------------
(* Lemmas about tables and their entries *)

\* Writing one entry of a table indexed by host and peer.
LEMMA TableUpdate ==
    ASSUME NEW T, NEW f \in [Hosts -> [Hosts -> T]], NEW h \in Hosts, NEW p \in Hosts,
           NEW v \in T, NEW g, g = [f EXCEPT ![h][p] = v]
    PROVE  /\ g \in [Hosts -> [Hosts -> T]]
           /\ \A a, b \in Hosts : g[a][b] = IF a = h /\ b = p THEN v ELSE f[a][b]
OBVIOUS

\* Where a readLoop can go next.
LEMMA RlAtOK ==
    ASSUME NEW h \in Hosts, NEW o \in Objects, o[1] = h
    PROVE  /\ RlOK(h, RlIdle)
           /\ RlOK(h, RlAt("delete", o, Nil))
           /\ RlOK(h, RlAt("ccs", o, Nil))
           /\ \A rec \in Records :
                 /\ rec.pay.typ \in {"app", "ctl"} => RlOK(h, RlAt("await", o, rec))
                 /\ rec.pay.typ = "hs" => RlOK(h, RlAt("store", o, rec))
BY DEF RlOK, RlIdle, RlAt, RlStates

LEMMA RlIdleOK == ASSUME NEW h PROVE RlOK(h, RlIdle)
BY DEF RlOK, RlIdle, RlAt, RlStates

\* One readLoop moves.
LEMMA ReadLoopStep1 ==
    ASSUME NEW f, ReadLoopsOK(f), NEW h \in Hosts, NEW r, RlOK(h, r)
    PROVE  ReadLoopsOK([f EXCEPT ![h] = r])
<1>1. r \in RlStates
  BY DEF RlOK
<1> QED BY <1>1 DEF ReadLoopsOK

\* The states of a WriteMessage caller.
LEMMA WmAtOK ==
    ASSUME NEW o \in Objects
    PROVE  /\ \A pc \in {"handshake", "send", "delete"} :
                 WmAt(pc, o) \in WmStates /\ WmAt(pc, o).pc = pc /\ WmAt(pc, o).o = o
           /\ WmIdle \in WmStates /\ WmIdle.pc = "idle"
BY DEF WmAt, WmIdle, WmStates

LEMMA WmIdleOK == WmIdle \in WmStates /\ WmIdle.pc = "idle"
BY DEF WmAt, WmIdle, WmStates

-----------------------------------------------------------------------------
(* Lemmas about steps *)

\* What IInv says of an unchanged part stays true.
LEMMA Types ==
    ASSUME IInv
    PROVE  /\ ses \in [Objects -> Sessions]
           /\ gen \in [Hosts -> [Hosts -> 0..MaxGen]]
           /\ MaxGen \in Nat
           /\ \A h, p \in Hosts : gen[h][p] \in Nat
           /\ wm \in [Hosts -> [Hosts -> WmStates]]
           /\ cur \in [Hosts -> [Hosts -> Objects \union {Nil}]]
BY BoundsAssumption DEF IInv, TypeOK

\* A step that changes one session, or makes a new one, and never undoes a
\* completed handshake.
LEMMA SessionStep ==
    ASSUME IInv, NEW o \in Objects, NEW s, SessionOK(s),
           (ses[o].complete => s.complete) \/ o[3] > gen[o[1]][o[2]],
           ses' = [ses EXCEPT ![o] = s]
    PROVE  /\ ses' \in [Objects -> Sessions]
           /\ \A x \in Objects : SessionOK(ses'[x])
           /\ \A h, p \in Hosts : wm[h][p].pc = "send" => ses'[wm[h][p].o].complete
<1>0. ses \in [Objects -> Sessions]
  BY Types
<1>1. ses' \in [Objects -> Sessions]
  BY <1>0 DEF SessionOK
<1>2. \A x \in Objects : SessionOK(ses'[x])
  BY <1>0 DEF IInv
<1>3. ASSUME NEW h \in Hosts, NEW p \in Hosts, wm[h][p].pc = "send"
      PROVE  ses'[wm[h][p].o].complete
  <2>1. Created(gen, wm[h][p].o, h, p) /\ ses[wm[h][p].o].complete
    BY <1>3 DEF IInv, WritersOK
  <2>2. CASE wm[h][p].o = o
    <3>1. o[1] = h /\ o[2] = p /\ o[3] <= gen[h][p]
      BY <2>1, <2>2 DEF Created
    <3>2. o[3] \in 1..MaxGen
      BY ObjectFields
    <3>3. o[3] \in Nat /\ gen[h][p] \in Nat
      BY <3>2, Types
    <3>4. s.complete
      BY <3>1, <3>3, <2>1, <2>2
    <3> QED BY <3>4, <2>2, <1>0
  <2>3. CASE wm[h][p].o # o
    BY <2>1, <2>3, <1>0 DEF Created
  <2> QED BY <2>2, <2>3
<1> QED BY <1>1, <1>2, <1>3

\* A step that leaves the generations, the map and the writers alone.
LEMMA LocalStep ==
    ASSUME IInv, UNCHANGED <<cur, gen, wm, sent>>,
           NEW o \in Objects, NEW s, SessionOK(s), ses[o].complete => s.complete,
           ses' = [ses EXCEPT ![o] = s],
           WireOK(wire'), ReadLoopsOK(rl'),
           cache' \in [Hosts -> Seq(Hosts \X Nat)],
           lost' \in [Hosts -> [Hosts -> SUBSET Refs]],
           pending' \in [Hosts -> [Hosts -> SUBSET Nat]],
           faults' \in FaultCounts
    PROVE  IInv'
<1>1. /\ ses' \in [Objects -> Sessions]
      /\ \A x \in Objects : SessionOK(ses'[x])
      /\ \A h, p \in Hosts : wm[h][p].pc = "send" => ses'[wm[h][p].o].complete
  BY SessionStep
<1>2. TypeOK'
  BY <1>1 DEF IInv, TypeOK, WireOK, ReadLoopsOK
<1>3. MapOK' /\ WritersOK'
  <2>1. cur' = cur /\ gen' = gen /\ wm' = wm /\ MapOK /\ WritersOK
    BY DEF IInv
  <2> QED BY <1>1, <2>1 DEF MapOK, WritersOK
<1>5. WireOK(wire)' /\ ReadLoopsOK(rl)' /\ (\A x \in Objects : SessionOK(ses[x]))'
  BY <1>1 DEF WireOK, ReadLoopsOK, SessionOK, RlOK
<1> QED BY <1>2, <1>3, <1>5 DEF IInv

\* A created object stays created.
LEMMA StaysCreated ==
    ASSUME IInv, NEW h \in Hosts, NEW p \in Hosts, gen' = GenAfter(h, p),
           CanCreate(h, p)
    PROVE  /\ gen' \in [Hosts -> [Hosts -> 0..MaxGen]]
           /\ \A x, a, b : a \in Hosts /\ b \in Hosts /\ Created(gen, x, a, b) =>
                 Created(gen', x, a, b)
<1>1. gen \in [Hosts -> [Hosts -> 0..MaxGen]] /\ MaxGen \in Nat
  BY Types
<1>2. gen' \in [Hosts -> [Hosts -> 0..MaxGen]]
  BY <1>1 DEF GenAfter, CanCreate
<1>3. \A a, b \in Hosts : gen[a][b] \in Nat /\ gen'[a][b] \in Nat /\ gen[a][b] <= gen'[a][b]
  BY <1>1, <1>2 DEF GenAfter
<1>4. \A x \in Objects : x[3] \in Nat
  BY <1>1, ObjectFields
<1>5. ASSUME NEW x, NEW a \in Hosts, NEW b \in Hosts, Created(gen, x, a, b)
      PROVE  x \in Objects /\ x[1] = a /\ x[2] = b /\ x[3] <= gen'[a][b]
  BY <1>3, <1>4, <1>5 DEF Created
<1> QED BY <1>2, <1>5 DEF Created

\* The map entry, or the object created for it, is one of that host and peer.
LEMMA EntryOK ==
    ASSUME IInv, NEW h \in Hosts, NEW p \in Hosts, h # p, CanCreate(h, p),
           gen' = GenAfter(h, p)
    PROVE  /\ Created(gen', Entry(h, p), h, p)
           /\ Entry(h, p) \in Objects /\ Entry(h, p)[1] = h /\ Entry(h, p)[2] = p
           /\ cur[h][p] # Nil => Entry(h, p) = cur[h][p]
           /\ cur[h][p] = Nil => Entry(h, p)[3] > gen[h][p]
<1>1. gen \in [Hosts -> [Hosts -> 0..MaxGen]] /\ gen[h][p] \in 0..MaxGen /\ MaxGen \in Nat
  BY Types
<1>2. CASE cur[h][p] # Nil
  <2>1. Entry(h, p) = cur[h][p] /\ Created(gen, cur[h][p], h, p)
    BY <1>2 DEF Entry, IInv, MapOK
  <2>2. gen'[h][p] = gen[h][p]
    BY <1>2, <1>1 DEF GenAfter
  <2>3. /\ Entry(h, p) \in Objects /\ Entry(h, p)[1] = h /\ Entry(h, p)[2] = p
        /\ Entry(h, p)[3] <= gen'[h][p]
    BY <2>1, <2>2 DEF Created
  <2> QED BY <1>2, <2>1, <2>3 DEF Created
<1>3. CASE cur[h][p] = Nil
  <2>1. gen'[h][p] = gen[h][p] + 1
    BY <1>3, <1>1 DEF GenAfter
  <2>2. Entry(h, p) = <<h, p, gen[h][p] + 1>> /\ gen[h][p] < MaxGen
    BY <1>3 DEF Entry, CanCreate
  <2>3. Entry(h, p) \in Objects
    BY <2>2, <1>1, NextObject
  <2> QED BY <2>1, <2>2, <2>3, <1>1, <1>3 DEF Created
<1> QED BY <1>2, <1>3

\* The initial states.
LEMMA InitIInv ==
    ASSUME Init PROVE IInv
<1>1. SessionOK(Unused)
  BY NewSessionOK DEF Unused
<1>2. RlIdle \in RlStates /\ WmIdle \in WmStates /\ WmIdle.pc = "idle"
  BY RlIdleOK, WmIdleOK DEF RlOK
<1>3. TypeOK
  BY <1>1, <1>2, BoundsAssumption DEF Init, TypeOK, SessionOK, FaultCounts
<1>4. \A o \in Objects : SessionOK(ses[o])
  BY <1>1 DEF Init
<1>5. WireOK(wire)
  BY DEF Init, WireOK
<1>6. ReadLoopsOK(rl)
  BY <1>2, RlIdleOK DEF Init, ReadLoopsOK
<1>7. MapOK
  BY DEF Init, MapOK
<1>8. WritersOK
  BY <1>2 DEF Init, WritersOK
<1> QED BY <1>3, <1>4, <1>5, <1>6, <1>7, <1>8 DEF IInv

-----------------------------------------------------------------------------
(* WriteMessage *)

\* WriteStart preserves the invariant.
LEMMA WriteStartIInv ==
    ASSUME IInv, NEW h \in Hosts, NEW p \in Hosts, WriteStart(h, p)
    PROVE  IInv'
<1> DEFINE o == Entry(h, p)
<1>1. h # p /\ CanCreate(h, p) /\ gen' = GenAfter(h, p)
  BY DEF WriteStart
<1>2. Created(gen', o, h, p) /\ o \in Objects
  BY <1>1, EntryOK
<1>3. gen' \in [Hosts -> [Hosts -> 0..MaxGen]]
  BY <1>1, StaysCreated
<1>4. \A x, a, b : a \in Hosts /\ b \in Hosts /\ Created(gen, x, a, b) => Created(gen', x, a, b)
  BY <1>1, StaysCreated
<1>5. WmAt("handshake", o) \in WmStates /\ WmAt("handshake", o).pc = "handshake"
      /\ WmAt("handshake", o).o = o
  BY <1>2, WmAtOK
<1>6. /\ wm' \in [Hosts -> [Hosts -> WmStates]]
      /\ \A a, b \in Hosts :
            wm'[a][b] = IF a = h /\ b = p THEN WmAt("handshake", o) ELSE wm[a][b]
  <2>1. wm' = [wm EXCEPT ![h][p] = WmAt("handshake", o)]
    BY DEF WriteStart
  <2>2. wm \in [Hosts -> [Hosts -> WmStates]]
    BY Types
  <2> DEFINE v == WmAt("handshake", o)
  <2>3. v \in WmStates /\ wm' = [wm EXCEPT ![h][p] = v]
    BY <2>1, <1>5
  <2> HIDE DEF v
  <2>4. /\ wm' \in [Hosts -> [Hosts -> WmStates]]
        /\ \A a, b \in Hosts : wm'[a][b] = IF a = h /\ b = p THEN v ELSE wm[a][b]
    BY <2>2, <2>3, TableUpdate, SMTT(60)
  <2> QED BY <2>4 DEF v
<1>7. /\ cur' \in [Hosts -> [Hosts -> Objects \union {Nil}]]
      /\ \A a, b \in Hosts : cur'[a][b] = IF a = h /\ b = p THEN o ELSE cur[a][b]
  <2>1. cur' = [cur EXCEPT ![h][p] = o]
    BY DEF WriteStart
  <2> HIDE DEF o
  <2>2. cur \in [Hosts -> [Hosts -> Objects \union {Nil}]] /\ o \in Objects \union {Nil}
    BY <1>2, Types
  <2> QED BY <2>1, <2>2, TableUpdate, SMTT(60)
<1>8. sent' \in [Hosts -> [Hosts -> 0..MaxWrites]]
  <2>1. sent \in [Hosts -> [Hosts -> 0..MaxWrites]] /\ MaxWrites \in Nat
    BY BoundsAssumption DEF IInv, TypeOK
  <2>2. sent' = [sent EXCEPT ![h][p] = sent[h][p] + 1] /\ sent[h][p] < MaxWrites
    BY DEF WriteStart
  <2>3. sent[h][p] + 1 \in 0..MaxWrites
    BY <2>1, <2>2
  <2> QED BY <2>1, <2>2, <2>3, TableUpdate, SMTT(60)
<1>9. TypeOK'
  BY <1>3, <1>6, <1>7, <1>8 DEF WriteStart, IInv, TypeOK, recovery
<1>10. (\A x \in Objects : SessionOK(ses[x]))' /\ WireOK(wire)' /\ ReadLoopsOK(rl)'
  BY DEF WriteStart, IInv, ReadLoopsOK, WireOK, SessionOK, RlOK
<1>11. MapOK'
  BY <1>2, <1>4, <1>7 DEF IInv, MapOK
<1>12. WritersOK'
  <2>1. ses' = ses
    BY DEF WriteStart
  <2> QED BY <2>1, <1>2, <1>4, <1>5, <1>6 DEF IInv, WritersOK
<1> QED BY <1>9, <1>10, <1>11, <1>12 DEF IInv

\* A writer that moves on with its own object, on an unchanged map.
LEMMA WriterMoves ==
    ASSUME IInv, NEW h \in Hosts, NEW p \in Hosts, NEW m \in WmStates,
           m.pc # "idle" => Created(gen, m.o, h, p),
           m.pc = "send" => ses'[m.o].complete,
           wm' = [wm EXCEPT ![h][p] = m], gen' = gen,
           \A a, b \in Hosts : wm[a][b].pc = "send" => ses'[wm[a][b].o].complete
    PROVE  wm' \in [Hosts -> [Hosts -> WmStates]] /\ WritersOK'
<1>1. /\ wm' \in [Hosts -> [Hosts -> WmStates]]
      /\ \A a, b \in Hosts : wm'[a][b] = IF a = h /\ b = p THEN m ELSE wm[a][b]
  <2>1. wm \in [Hosts -> [Hosts -> WmStates]]
    BY Types
  <2> QED BY <2>1, TableUpdate, SMTT(60)
<1>2. \A x, a, b : Created(gen, x, a, b) => Created(gen', x, a, b)
  BY DEF Created
<1> QED BY <1>1, <1>2 DEF IInv, WritersOK

\* WriteReady preserves the invariant.
LEMMA WriteReadyIInv ==
    ASSUME IInv, NEW h \in Hosts, NEW p \in Hosts, WriteReady(h, p)
    PROVE  IInv'
<1> DEFINE o == wm[h][p].o
<1>1. Created(gen, o, h, p) /\ o \in Objects /\ ses[o].complete
  BY DEF WriteReady, IInv, WritersOK, Created
<1>2. WmAt("send", o) \in WmStates /\ WmAt("send", o).pc = "send" /\ WmAt("send", o).o = o
  BY <1>1, WmAtOK
<1>3. \A a, b \in Hosts : wm[a][b].pc = "send" => ses'[wm[a][b].o].complete
  BY DEF WriteReady, IInv, WritersOK
<1>4. wm' \in [Hosts -> [Hosts -> WmStates]] /\ WritersOK'
  BY <1>1, <1>2, <1>3, WriterMoves DEF WriteReady
<1>5. TypeOK'
  BY <1>4 DEF WriteReady, IInv, TypeOK, recovery
<1>6. (\A x \in Objects : SessionOK(ses[x]))' /\ WireOK(wire)' /\ ReadLoopsOK(rl)' /\ MapOK'
  BY DEF WriteReady, IInv, ReadLoopsOK, RlOK, WireOK, SessionOK, MapOK, Created
<1> QED BY <1>4, <1>5, <1>6 DEF IInv

\* The payloads that are sent are payloads.
LEMMA PayloadsOK ==
    /\ AlertPay \in Payloads /\ AlertPay.typ = "alert"
    /\ CcsPay \in Payloads /\ CcsPay.typ = "ccs"
    /\ \A n \in Nat : AppPay(n) \in Payloads
    /\ \A c \in {"lost_request", "retransmit"}, ref \in Refs : CtlPay(c, ref) \in Payloads
    /\ \A msg \in HsMsgs : HsPay(msg) \in Payloads /\ HsPay(msg).typ = "hs"
BY DEF AlertPay, CcsPay, AppPay, CtlPay, HsPay, Payloads

\* A session sends a record: data only once it has a cipher.
LEMMA SendOK ==
    ASSUME NEW w, WireOK(w), NEW o \in Objects, NEW s, SessionOK(s), NEW pay \in Payloads,
           pay.typ \in {"app", "ctl"} => s.out # Nil
    PROVE  /\ WireOK(Put(w, o, Sealed(s, pay)))
           /\ SessionOK(AfterSeal(s)) /\ AfterSeal(s).complete = s.complete
<1>1. /\ Sealed(s, pay) \in Records /\ Sealed(s, pay).pay = pay /\ Sealed(s, pay).key = s.out
      /\ SessionOK(AfterSeal(s)) /\ AfterSeal(s).complete = s.complete
  BY SealOK
<1> QED BY <1>1, PutOK

\* Close() leaves the rest of the session alone.
LEMMA ClosedOK ==
    ASSUME NEW s, SessionOK(s)
    PROVE  SessionOK(Closed(s)) /\ Closed(s).complete = s.complete
BY DEF Closed, SessionOK, Sessions

\* WriteTerminate preserves the invariant.
LEMMA WriteTerminateIInv ==
    ASSUME IInv, NEW h \in Hosts, NEW p \in Hosts, WriteTerminate(h, p)
    PROVE  IInv'
<1> DEFINE o == wm[h][p].o
<1> DEFINE s == Closed(AfterSeal(ses[o]))
<1>1. Created(gen, o, h, p) /\ o \in Objects /\ SessionOK(ses[o])
  BY DEF WriteTerminate, IInv, WritersOK, Created
<1>2. WireOK(wire') /\ SessionOK(s) /\ s.complete = ses[o].complete
  <2>1. WireOK(wire)
    BY DEF IInv
  <2> QED BY <2>1, <1>1, SendOK, ClosedOK, PayloadsOK DEF WriteTerminate
<1>3. ses' = [ses EXCEPT ![o] = s]
  BY DEF WriteTerminate
<1>4. /\ ses' \in [Objects -> Sessions]
      /\ \A x \in Objects : SessionOK(ses'[x])
      /\ \A a, b \in Hosts : wm[a][b].pc = "send" => ses'[wm[a][b].o].complete
  BY <1>1, <1>2, <1>3, SessionStep
<1>5. WmAt("delete", o) \in WmStates /\ WmAt("delete", o).pc = "delete" /\ WmAt("delete", o).o = o
  BY <1>1, WmAtOK
<1>6. wm' \in [Hosts -> [Hosts -> WmStates]] /\ WritersOK'
  BY <1>1, <1>4, <1>5, WriterMoves DEF WriteTerminate
<1>7. TypeOK'
  BY <1>2, <1>4, <1>6 DEF WriteTerminate, IInv, TypeOK, recovery, WireOK
<1>8. ReadLoopsOK(rl)' /\ MapOK'
  BY DEF WriteTerminate, IInv, ReadLoopsOK, RlOK, MapOK, Created
<1>9. (\A x \in Objects : SessionOK(ses[x]))' /\ WireOK(wire)'
  BY <1>2, <1>4 DEF SessionOK, WireOK
<1> QED BY <1>6, <1>7, <1>8, <1>9 DEF IInv

\* Deleting a map entry leaves the map in order.
LEMMA MapDelete ==
    ASSUME IInv, NEW h \in Hosts, NEW p \in Hosts, gen' = gen,
           cur' = [cur EXCEPT ![h][p] = Nil]
    PROVE  cur' \in [Hosts -> [Hosts -> Objects \union {Nil}]] /\ MapOK'
<1>1. /\ cur' \in [Hosts -> [Hosts -> Objects \union {Nil}]]
      /\ \A a, b \in Hosts : cur'[a][b] = IF a = h /\ b = p THEN Nil ELSE cur[a][b]
  <2>1. cur \in [Hosts -> [Hosts -> Objects \union {Nil}]]
    BY Types
  <2>2. Nil \in Objects \union {Nil}
    OBVIOUS
  <2> QED BY <2>1, <2>2, TableUpdate, SMTT(60)
<1> QED BY <1>1 DEF IInv, MapOK

\* WriteDelete preserves the invariant.
LEMMA WriteDeleteIInv ==
    ASSUME IInv, NEW h \in Hosts, NEW p \in Hosts, WriteDelete(h, p)
    PROVE  IInv'
<1>1. cur' \in [Hosts -> [Hosts -> Objects \union {Nil}]] /\ MapOK'
  BY MapDelete DEF WriteDelete
<1>2. \A a, b \in Hosts : wm[a][b].pc = "send" => ses'[wm[a][b].o].complete
  BY DEF WriteDelete, IInv, WritersOK
<1>3. wm' \in [Hosts -> [Hosts -> WmStates]] /\ WritersOK'
  BY <1>2, WmIdleOK, WriterMoves DEF WriteDelete
<1>4. TypeOK'
  BY <1>1, <1>3 DEF WriteDelete, IInv, TypeOK, recovery
<1>5. (\A x \in Objects : SessionOK(ses[x]))' /\ WireOK(wire)' /\ ReadLoopsOK(rl)'
  BY DEF WriteDelete, IInv, ReadLoopsOK, RlOK, WireOK, SessionOK
<1> QED BY <1>1, <1>3, <1>4, <1>5 DEF IInv

\* cacheOutboundMessage keeps a queue of entries.
LEMMA CacheOutboundOK ==
    ASSUME NEW c \in Seq(Hosts \X Nat), NEW e \in Hosts \X Nat
    PROVE  CacheOutbound(c, e) \in Seq(Hosts \X Nat)
<1> DEFINE T == Hosts \X Nat
<1> HIDE DEF T
<1>1. c \in Seq(T) /\ e \in T
  BY DEF T
<1>2. Append(c, e) \in Seq(T) /\ Len(Append(c, e)) = Len(c) + 1
  BY <1>1
<1>3. Append(c, e) # <<>>
  BY <1>1, <1>2
<1>4. Tail(Append(c, e)) \in Seq(T)
  BY <1>2, <1>3
<1> QED BY <1>2, <1>4 DEF CacheOutbound, T

\* WriteSend preserves the invariant: the session is complete, so it seals.
LEMMA WriteSendIInv ==
    ASSUME IInv, NEW h \in Hosts, NEW p \in Hosts, WriteSend(h, p)
    PROVE  IInv'
<1> DEFINE o == wm[h][p].o
<1> DEFINE s == AfterSeal(ses[o])
<1>1. Created(gen, o, h, p) /\ o \in Objects /\ SessionOK(ses[o]) /\ ses[o].complete
  BY DEF WriteSend, IInv, WritersOK, Created
<1>2. ses[o].out # Nil
  BY <1>1 DEF SessionOK
<1>3. sent[h][p] \in Nat
  BY BoundsAssumption DEF IInv, TypeOK
<1>4. WireOK(wire') /\ SessionOK(s) /\ s.complete = ses[o].complete
  <2>1. WireOK(wire)
    BY DEF IInv
  <2>2. AppPay(sent[h][p]) \in Payloads
    BY <1>3, PayloadsOK
  <2> QED BY <2>1, <2>2, <1>1, <1>2, SendOK DEF WriteSend
<1>5. ses' = [ses EXCEPT ![o] = s]
  BY DEF WriteSend
<1>6. /\ ses' \in [Objects -> Sessions]
      /\ \A x \in Objects : SessionOK(ses'[x])
      /\ \A a, b \in Hosts : wm[a][b].pc = "send" => ses'[wm[a][b].o].complete
  BY <1>1, <1>4, <1>5, SessionStep
<1>7. wm' \in [Hosts -> [Hosts -> WmStates]] /\ WritersOK'
  BY <1>6, WmIdleOK, WriterMoves DEF WriteSend
<1>8. cache' \in [Hosts -> Seq(Hosts \X Nat)]
  <2>1. cache \in [Hosts -> Seq(Hosts \X Nat)]
    BY DEF IInv, TypeOK
  <2>2. CacheOutbound(cache[h], <<p, sent[h][p]>>) \in Seq(Hosts \X Nat)
    BY <2>1, <1>3, CacheOutboundOK
  <2> QED BY <2>1, <2>2 DEF WriteSend
<1>9. TypeOK'
  BY <1>4, <1>6, <1>7, <1>8 DEF WriteSend, IInv, TypeOK, recovery, WireOK
<1>10. ReadLoopsOK(rl)' /\ MapOK'
  BY DEF WriteSend, IInv, ReadLoopsOK, RlOK, MapOK, Created
<1>11. (\A x \in Objects : SessionOK(ses[x]))' /\ WireOK(wire)'
  BY <1>4, <1>6 DEF SessionOK, WireOK
<1> QED BY <1>7, <1>9, <1>10, <1>11 DEF IInv

-----------------------------------------------------------------------------
(* The handshake *)

\* A goroutine that only works on its session and sends.
LEMMA GoroutineStep ==
    ASSUME IInv, UNCHANGED <<cur, gen, rl, wm, cache, recovery, sent>>,
           NEW o \in Objects, NEW s, SessionOK(s), ses[o].complete => s.complete,
           ses' = [ses EXCEPT ![o] = s],
           WireOK(wire'), faults' \in FaultCounts
    PROVE  IInv'
<1>1. ReadLoopsOK(rl')
  BY DEF IInv
<1>2. /\ cache' \in [Hosts -> Seq(Hosts \X Nat)]
      /\ lost' \in [Hosts -> [Hosts -> SUBSET Refs]]
      /\ pending' \in [Hosts -> [Hosts -> SUBSET Nat]]
  BY DEF IInv, TypeOK, recovery
<1> QED BY <1>1, <1>2, LocalStep

\* The messages of the handshake are messages, and so are their transcripts.
LEMMA MessagesOK ==
    ASSUME NEW o \in Objects, NEW r \in Objects, NEW b \in BOOLEAN
    PROVE  /\ Hello(o) \in HsMsgs
           /\ Kxm(o, r) \in HsMsgs
           /\ Master(o, r, b) \in Masters
           /\ Transcript(o, r, b) \in Transcripts
<1>1. Hello(o) \in HsMsgs /\ Kxm(o, r) \in HsMsgs
  BY DEF Hello, Kxm, HsMsgs
<1>2. Master(o, r, b) \in Masters
  BY DEF Master, Masters
<1>3. Transcript(o, r, b) \in Transcripts
  <2> DEFINE E == [m : {"hello", "kxm"}, from : Objects]
  <2>1. HelloEntry(o) \in E /\ HelloEntry(r) \in E /\ KxmEntry(o) \in E /\ KxmEntry(r) \in E
    BY DEF HelloEntry, KxmEntry
  <2> HIDE DEF E
  <2>2. /\ <<HelloEntry(o), HelloEntry(r), KxmEntry(o)>> \in Seq(E)
        /\ <<HelloEntry(r), HelloEntry(o)>> \in Seq(E)
        /\ <<KxmEntry(r)>> \in Seq(E)
        /\ <<KxmEntry(r), KxmEntry(o)>> \in Seq(E)
        /\ <<>> \in Seq(E)
    BY <2>1
  <2>3. Transcript(o, r, b) \in Seq(E)
    BY <2>2 DEF Transcript
  <2> QED BY <2>3 DEF Transcripts, E
<1> QED BY <1>1, <1>2, <1>3

\* Sending the Hello preserves the invariant.
LEMMA StartHandshakeIInv ==
    ASSUME IInv, NEW o \in Objects, StartHandshake(o)
    PROVE  IInv'
<1> DEFINE a == AfterSeal(ses[o])
<1> DEFINE s == [a EXCEPT !.hs = "waitHello"]
<1>1. SessionOK(ses[o]) /\ WireOK(wire) /\ faults \in FaultCounts
  BY DEF IInv, TypeOK
<1>2. HsPay(Hello(o)) \in Payloads /\ HsPay(Hello(o)).typ = "hs"
  <2>1. Hello(o) \in HsMsgs
    BY DEF Hello, HsMsgs
  <2> QED BY <2>1, PayloadsOK
<1>3. WireOK(wire') /\ SessionOK(a) /\ a.complete = ses[o].complete
  BY <1>1, <1>2, SendOK DEF StartHandshake
<1>4. SessionOK(s) /\ s.complete = a.complete
  <2> HIDE DEF a
  <2> QED BY <1>3 DEF SessionOK, Sessions, HsStates
<1>5. ses' = [ses EXCEPT ![o] = s]
  BY DEF StartHandshake
<1>6. UNCHANGED <<cur, gen, rl, wm, cache, recovery, sent>> /\ faults' \in FaultCounts
  BY <1>1 DEF StartHandshake
<1> HIDE DEF s, a
<1> QED BY <1>3, <1>4, <1>5, <1>6, GoroutineStep

\* A session whose handshake gives up on the message at hand.
LEMMA FailedOK ==
    ASSUME NEW s, SessionOK(s), NEW c \in Seq(HsMsgs)
    PROVE  LET t == [s EXCEPT !.hs = "failed", !.chan = c]
           IN  SessionOK(t) /\ t.complete = s.complete
<1> DEFINE t == [s EXCEPT !.hs = "failed", !.chan = c]
<1>1. s \in Sessions
  BY DEF SessionOK
<1>2. t \in Sessions /\ t.hs = "failed"
  BY <1>1 DEF Sessions, HsStates
<1>3. t.complete = s.complete /\ t.out = s.out /\ t.token = s.token
  BY <1>1 DEF Sessions
<1> HIDE DEF t
<1>4. SessionOK(t) /\ t.complete = s.complete
  BY <1>2, <1>3 DEF SessionOK
<1> QED BY <1>4 DEF t

\* A session that answered a Hello.
LEMMA AnsweredHelloOK ==
    ASSUME NEW s, SessionOK(s), NEW c \in Seq(HsMsgs), NEW r \in Objects
    PROVE  LET t == [s EXCEPT !.hs = "waitKxm", !.chan = c, !.rem = r]
           IN  SessionOK(t) /\ t.complete = s.complete
<1> DEFINE t == [s EXCEPT !.hs = "waitKxm", !.chan = c, !.rem = r]
<1>1. s \in Sessions
  BY DEF SessionOK
<1>2. t \in Sessions /\ t.hs = "waitKxm" /\ t.rem \in Objects
  BY <1>1 DEF Sessions, HsStates
<1>3. t.complete = s.complete /\ t.out = s.out /\ t.token = s.token
  BY <1>1 DEF Sessions
<1> HIDE DEF t
<1>4. SessionOK(t) /\ t.complete = s.complete
  BY <1>2, <1>3 DEF SessionOK
<1> QED BY <1>4 DEF t

\* A session whose nextCipherReady token was taken by the readLoop.
LEMMA TakenOK ==
    ASSUME NEW s, SessionOK(s)
    PROVE  LET t == [s EXCEPT !.inReady = FALSE]
           IN  SessionOK(t) /\ t.complete = s.complete
<1> DEFINE t == [s EXCEPT !.inReady = FALSE]
<1>1. s \in Sessions
  BY DEF SessionOK
<1>2. t \in Sessions
  BY <1>1 DEF Sessions
<1>3. /\ t.complete = s.complete /\ t.out = s.out /\ t.token = s.token
      /\ t.hs = s.hs /\ t.rem = s.rem /\ t.master = s.master
  BY <1>1 DEF Sessions
<1> HIDE DEF t
<1>4. SessionOK(t) /\ t.complete = s.complete
  BY <1>2, <1>3 DEF SessionOK
<1> QED BY <1>4 DEF t

\* A session whose handshakeComplete token was taken by the readLoop.
LEMMA WokenOK ==
    ASSUME NEW s, SessionOK(s)
    PROVE  LET t == [s EXCEPT !.token = FALSE]
           IN  SessionOK(t) /\ t.complete = s.complete
<1> DEFINE t == [s EXCEPT !.token = FALSE]
<1>1. s \in Sessions
  BY DEF SessionOK
<1>2. t \in Sessions /\ t.token = FALSE
  BY <1>1 DEF Sessions
<1>3. /\ t.complete = s.complete /\ t.out = s.out
      /\ t.hs = s.hs /\ t.rem = s.rem /\ t.master = s.master
  BY <1>1 DEF Sessions
<1> HIDE DEF t
<1>4. SessionOK(t) /\ t.complete = s.complete
  BY <1>2, <1>3 DEF SessionOK
<1> QED BY <1>4 DEF t

\* A refused message preserves the invariant.
LEMMA FailHandshakeIInv ==
    ASSUME IInv, NEW o \in Objects, ses[o].chan # <<>>, FailHandshake(o),
           UNCHANGED <<cur, gen, rl, wm, cache, recovery, sent, faults>>
    PROVE  IInv'
<1> DEFINE s == [ses[o] EXCEPT !.hs = "failed", !.chan = Tail(@)]
<1>1. SessionOK(ses[o]) /\ WireOK(wire') /\ faults' \in FaultCounts
  BY DEF IInv, TypeOK, FailHandshake
<1>2. SessionOK(s) /\ s.complete = ses[o].complete
  <2>1. ses[o].chan \in Seq(HsMsgs)
    BY <1>1 DEF SessionOK, Sessions
  <2>2. Tail(ses[o].chan) \in Seq(HsMsgs)
    BY <2>1
  <2> QED BY <2>2, <1>1, FailedOK
<1>3. ses' = [ses EXCEPT ![o] = s]
  <2>1. ses \in [Objects -> Sessions]
    BY Types
  <2> QED BY <2>1 DEF FailHandshake, Sessions
<1> HIDE DEF s
<1> QED BY <1>1, <1>2, <1>3, GoroutineStep

\* HandshakeClosed preserves the invariant.
LEMMA HandshakeClosedIInv ==
    ASSUME IInv, NEW o \in Objects, HandshakeClosed(o)
    PROVE  IInv'
<1> DEFINE s == [ses[o] EXCEPT !.hs = "failed"]
<1>1. SessionOK(ses[o]) /\ WireOK(wire') /\ faults' \in FaultCounts
  BY DEF IInv, TypeOK, HandshakeClosed
<1>2. SessionOK(s) /\ s.complete = ses[o].complete
  BY <1>1 DEF SessionOK, Sessions, HsStates
<1>3. ses' = [ses EXCEPT ![o] = s]
  BY DEF HandshakeClosed
<1>4. UNCHANGED <<cur, gen, rl, wm, cache, recovery, sent>>
  BY DEF HandshakeClosed
<1> HIDE DEF s
<1> QED BY <1>1, <1>2, <1>3, <1>4, GoroutineStep

\* The head of handshakeChan is a message.
LEMMA ChanOK ==
    ASSUME NEW s, SessionOK(s), s.chan # <<>>
    PROVE  /\ Head(s.chan) \in HsMsgs /\ Tail(s.chan) \in Seq(HsMsgs)
           /\ Head(s.chan).m = "hello" => Head(s.chan).from \in Objects
<1>1. s.chan \in Seq(HsMsgs)
  BY DEF SessionOK, Sessions
<1>2. Head(s.chan) \in HsMsgs /\ Tail(s.chan) \in Seq(HsMsgs)
  BY <1>1
<1> QED BY <1>2 DEF HsMsgs

\* ReadHello preserves the invariant.
LEMMA ReadHelloIInv ==
    ASSUME IInv, NEW o \in Objects, ReadHello(o)
    PROVE  IInv'
<1> DEFINE msg == Head(ses[o].chan)
<1> DEFINE a == AfterSeal(ses[o])
<1> DEFINE s == [a EXCEPT !.hs = "waitKxm", !.chan = Tail(ses[o].chan), !.rem = msg.from]
<1>1. /\ SessionOK(ses[o]) /\ WireOK(wire) /\ faults \in FaultCounts
      /\ ses[o].chan # <<>>
      /\ UNCHANGED <<cur, gen, rl, wm, cache, recovery, sent, faults>>
  BY DEF IInv, TypeOK, ReadHello
<1>2. CASE msg.m = "hello"
  <2>1. msg.from \in Objects /\ Tail(ses[o].chan) \in Seq(HsMsgs)
    BY <1>1, <1>2, ChanOK
  <2>2. HsPay(Kxm(o, msg.from)) \in Payloads /\ HsPay(Kxm(o, msg.from)).typ = "hs"
    BY <2>1, MessagesOK, PayloadsOK
  <2>3. WireOK(wire') /\ SessionOK(a) /\ a.complete = ses[o].complete
    BY <1>1, <1>2, <2>2, SendOK DEF ReadHello
  <2>5. SessionOK(s) /\ s.complete = a.complete
    <3> HIDE DEF a, msg
    <3> QED BY <2>1, <2>3, AnsweredHelloOK
  <2>6. ses' = [ses EXCEPT ![o] = s]
    BY <1>2 DEF ReadHello
  <2> HIDE DEF s, a
  <2> QED BY <1>1, <2>3, <2>5, <2>6, GoroutineStep
<1>3. CASE msg.m # "hello"
  BY <1>1, <1>3, FailHandshakeIInv DEF ReadHello
<1> QED BY <1>2, <1>3

\* ReadKxm preserves the invariant.
LEMMA ReadKxmIInv ==
    ASSUME IInv, NEW o \in Objects, ReadKxm(o)
    PROVE  IInv'
<1> DEFINE msg == Head(ses[o].chan)
<1> DEFINE isKxm == msg.m = "kxm"
<1> DEFINE master == Master(o, ses[o].rem, isKxm)
<1> DEFINE log == Transcript(o, ses[o].rem, isKxm)
<1> DEFINE a == AfterSeal(ses[o])
<1> DEFINE s == [Prepared(o, a, master) EXCEPT
                    !.hs = "switchOut", !.chan = Tail(ses[o].chan), !.log = log]
<1>1. /\ SessionOK(ses[o]) /\ WireOK(wire) /\ faults \in FaultCounts
      /\ ses[o].chan # <<>> /\ ses[o].hs = "waitKxm"
      /\ UNCHANGED <<cur, gen, rl, wm, cache, recovery, sent, faults>>
  BY DEF IInv, TypeOK, ReadKxm
<1>2. CASE isKxm => KxmAccepted(o, msg)
  <2>1. ses[o].rem \in Objects /\ Tail(ses[o].chan) \in Seq(HsMsgs)
    BY <1>1, ChanOK DEF SessionOK
  <2>2. master \in Masters /\ log \in Transcripts
    BY <2>1, MessagesOK
  <2>3. InKey(o, master) \in Keys
    BY <2>2 DEF InKey, Keys
  <2>4. WireOK(wire') /\ SessionOK(a) /\ a.complete = ses[o].complete
    BY <1>1, <1>2, PayloadsOK, SendOK DEF ReadKxm
  <2>5. a.rem = ses[o].rem
    BY <1>1 DEF AfterSeal, SessionOK, Sessions
  <2>6. SessionOK(s) /\ s.complete = a.complete
    <3>1. a.rem \in Objects
      BY <2>1, <2>5
    <3>2. master # Nil
      BY <2>2, NilAssumption
    <3> HIDE DEF a, msg, isKxm, master, log
    <3>3. SessionOK(Prepared(o, a, master)) /\ Prepared(o, a, master).complete = a.complete
          /\ Prepared(o, a, master).rem = a.rem
          /\ Prepared(o, a, master).master = master
      <4>1. a \in Sessions
        BY <2>4 DEF SessionOK
      <4>2. Prepared(o, a, master) \in Sessions
        BY <4>1, <2>2, <2>3 DEF Prepared, Sessions
      <4> QED BY <4>1, <4>2, <2>2, <2>4 DEF Prepared, SessionOK, Sessions
    <3> DEFINE b == Prepared(o, a, master)
    <3> HIDE DEF b
    <3>4. SessionOK([b EXCEPT !.hs = "switchOut", !.chan = Tail(ses[o].chan), !.log = log])
          /\ [b EXCEPT !.hs = "switchOut", !.chan = Tail(ses[o].chan), !.log = log].complete = b.complete
      <4>1. SessionOK(b) /\ b.rem \in Objects /\ b.master \in Masters
        BY <3>1, <3>3, <2>2 DEF b
      <4> QED BY <4>1, <2>1, <2>2 DEF SessionOK, Sessions, HsStates
    <3> QED BY <3>3, <3>4 DEF b
  <2>7. ses' = [ses EXCEPT ![o] = s]
    BY <1>2 DEF ReadKxm
  <2> HIDE DEF s, a
  <2> QED BY <1>1, <2>4, <2>6, <2>7, GoroutineStep
<1>3. CASE ~(isKxm => KxmAccepted(o, msg))
  BY <1>1, <1>3, FailHandshakeIInv DEF ReadKxm
<1> QED BY <1>2, <1>3

\* SwitchOut preserves the invariant: from here on the session seals.
LEMMA SwitchOutIInv ==
    ASSUME IInv, NEW o \in Objects, SwitchOut(o)
    PROVE  IInv'
<1> DEFINE b == [ses[o] EXCEPT !.out = OutKey(o, ses[o].master), !.outSeq = 0]
<1> DEFINE a == AfterSeal(b)
<1> DEFINE s == [a EXCEPT !.hs = "waitFin"]
<1> DEFINE pay == HsPay(Finished(o[1], b.master, b.log))
<1>1. /\ SessionOK(ses[o]) /\ WireOK(wire) /\ faults \in FaultCounts
      /\ ses[o].hs = "switchOut"
      /\ UNCHANGED <<cur, gen, rl, wm, cache, recovery, sent, faults>>
  BY DEF IInv, TypeOK, SwitchOut
<1>2. OutKey(o, ses[o].master) \in Keys /\ OutKey(o, ses[o].master) # Nil
  BY <1>1, NilAssumption DEF OutKey, Keys, SessionOK
<1>3. /\ SessionOK(b) /\ b.complete = ses[o].complete /\ b.out # Nil
      /\ b.master \in Masters /\ b.rem \in Objects
  BY <1>1, <1>2 DEF SessionOK, Sessions
<1>4. pay \in Payloads /\ pay.typ = "hs"
  <2>1. b.log \in Transcripts
    BY <1>3 DEF SessionOK, Sessions
  <2>2. Finished(o[1], b.master, b.log) \in HsMsgs
    <3> HIDE DEF b
    <3> QED BY <2>1, <1>3, ObjectFields DEF Finished, HsMsgs
  <2> QED BY <2>2, PayloadsOK
<1>5. WireOK(wire') /\ SessionOK(a) /\ a.complete = b.complete
  BY <1>1, <1>3, <1>4, SendOK DEF SwitchOut
<1>6. a.out # Nil /\ a.rem \in Objects
  <2> HIDE DEF b
  <2> QED BY <1>3 DEF AfterSeal, SessionOK, Sessions
<1>7. SessionOK(s) /\ s.complete = a.complete
  <2> HIDE DEF a
  <2> QED BY <1>5, <1>6 DEF SessionOK, Sessions, HsStates
<1>8. ses' = [ses EXCEPT ![o] = s]
  BY DEF SwitchOut
<1> HIDE DEF s, a, b
<1> QED BY <1>1, <1>3, <1>5, <1>7, <1>8, GoroutineStep

\* ReadFinished preserves the invariant.
LEMMA ReadFinishedIInv ==
    ASSUME IInv, NEW o \in Objects, ReadFinished(o)
    PROVE  IInv'
<1> DEFINE s == [Completed(ses[o]) EXCEPT !.chan = Tail(ses[o].chan)]
<1>1. /\ SessionOK(ses[o]) /\ WireOK(wire) /\ faults \in FaultCounts
      /\ ses[o].chan # <<>> /\ ses[o].hs = "waitFin"
      /\ UNCHANGED <<cur, gen, rl, wm, cache, recovery, sent, faults>>
  BY DEF IInv, TypeOK, ReadFinished
<1>2. CASE FinishedAccepted(o, Head(ses[o].chan))
  <2>1. Tail(ses[o].chan) \in Seq(HsMsgs)
    BY <1>1, ChanOK
  <2>2. ses[o].out # Nil /\ ses[o].rem \in Objects
    BY <1>1 DEF SessionOK
  <2>3. SessionOK(s) /\ s.complete
    BY <1>1, <2>1, <2>2 DEF SessionOK, Sessions, HsStates, Completed
  <2>4. ses' = [ses EXCEPT ![o] = s] /\ wire' = wire
    BY <1>2 DEF ReadFinished
  <2> HIDE DEF s
  <2> QED BY <1>1, <2>3, <2>4, GoroutineStep
<1>3. CASE ~FinishedAccepted(o, Head(ses[o].chan))
  BY <1>1, <1>3, FailHandshakeIInv DEF ReadFinished
<1> QED BY <1>2, <1>3

-----------------------------------------------------------------------------
(* The readLoop *)

RecoveryOK == /\ lost \in [Hosts -> [Hosts -> SUBSET Refs]]
              /\ pending \in [Hosts -> [Hosts -> SUBSET Nat]]

\* What the handling of a record with session s of object o leaves behind.
Handled(o, s) ==
    /\ \E t : SessionOK(t) /\ (s.complete => t.complete) /\ ses' = [ses EXCEPT ![o] = t]
    /\ WireOK(wire')
    /\ ReadLoopsOK(rl')
    /\ RecoveryOK'

\* The recovery state of a step that leaves it alone.
LEMMA RecoveryUnchanged ==
    ASSUME IInv, UNCHANGED recovery PROVE RecoveryOK'
BY DEF IInv, TypeOK, RecoveryOK, recovery

\* terminateSession leaves everything in order.
LEMMA RlTerminateOK ==
    ASSUME IInv, NEW h \in Hosts, NEW o \in Objects, o[1] = h, NEW s, SessionOK(s),
           NEW w, WireOK(w), RlTerminate(h, o, s, w), UNCHANGED recovery
    PROVE  Handled(o, s)
<1>1. WireOK(wire') /\ SessionOK(AfterSeal(s)) /\ AfterSeal(s).complete = s.complete
  BY SendOK, PayloadsOK DEF RlTerminate
<1>2. SessionOK(Closed(AfterSeal(s))) /\ Closed(AfterSeal(s)).complete = s.complete
  BY <1>1, ClosedOK
<1>3. ses' = [ses EXCEPT ![o] = Closed(AfterSeal(s))] /\ rl' = [rl EXCEPT ![h] = RlAt("delete", o, Nil)]
  BY DEF RlTerminate
<1>4. ReadLoopsOK(rl')
  BY <1>3, RlAtOK, ReadLoopStep1 DEF IInv
<1> QED BY <1>1, <1>2, <1>3, <1>4, RecoveryUnchanged DEF Handled

\* deliverApplication keeps the types of the recovery state.
LEMMA DeliverOK ==
    ASSUME IInv, NEW h \in Hosts, NEW p \in Hosts, NEW n \in Nat, DeliverApplication(h, p, n)
    PROVE  RecoveryOK'
<1>1. lost \in [Hosts -> [Hosts -> SUBSET Refs]] /\ pending \in [Hosts -> [Hosts -> SUBSET Nat]]
  BY DEF IInv, TypeOK
<1>2. lost' = lost
  BY DEF DeliverApplication
<1>3. CASE HasBlockingGap(lost[h][p], n)
  <2>1. pending' = [pending EXCEPT ![h][p] = pending[h][p] \union {n}]
    BY <1>3 DEF DeliverApplication
  <2>2. pending[h][p] \union {n} \in SUBSET Nat
    BY <1>1
  <2> QED BY <1>1, <1>2, <2>1, <2>2, TableUpdate, SMTT(60) DEF RecoveryOK
<1>4. CASE ~HasBlockingGap(lost[h][p], n)
  <2>1. pending' = [pending EXCEPT ![h][p] = pending[h][p] \ Releasable(lost[h][p], pending[h][p])]
    BY <1>4 DEF DeliverApplication
  <2>2. pending[h][p] \ Releasable(lost[h][p], pending[h][p]) \in SUBSET Nat
    BY <1>1
  <2> QED BY <1>1, <1>2, <2>1, <2>2, TableUpdate, SMTT(60) DEF RecoveryOK
<1> QED BY <1>3, <1>4

\* handleRetransmit keeps the types of the recovery state.
LEMMA RetransmitOK ==
    ASSUME IInv, NEW h \in Hosts, NEW p \in Hosts, NEW ref \in Refs, HandleRetransmit(h, p, ref)
    PROVE  RecoveryOK'
<1>1. lost \in [Hosts -> [Hosts -> SUBSET Refs]] /\ pending \in [Hosts -> [Hosts -> SUBSET Nat]]
  BY DEF IInv, TypeOK
<1>2. CASE ref \notin lost[h][p]
  BY <1>2, RecoveryUnchanged DEF HandleRetransmit
<1>3. CASE ref \in lost[h][p]
  <2> DEFINE still == lost[h][p] \ {ref}
  <2> DEFINE held == IF HasBlockingGap(still, ref.n) THEN pending[h][p] \union {ref.n} ELSE pending[h][p]
  <2>1. lost' = [lost EXCEPT ![h][p] = still]
        /\ pending' = [pending EXCEPT ![h][p] = held \ Releasable(still, held)]
    BY <1>3 DEF HandleRetransmit
  <2>2. ref.n \in Nat
    BY DEF Refs
  <2>3. still \in SUBSET Refs /\ held \ Releasable(still, held) \in SUBSET Nat
    BY <1>1, <2>2
  <2> HIDE DEF still, held
  <2>4. lost' \in [Hosts -> [Hosts -> SUBSET Refs]]
    BY <1>1, <2>1, <2>3, TableUpdate, SMTT(60)
  <2>5. pending' \in [Hosts -> [Hosts -> SUBSET Nat]]
    BY <1>1, <2>1, <2>3, TableUpdate, SMTT(60)
  <2> QED BY <2>4, <2>5 DEF RecoveryOK
<1> QED BY <1>2, <1>3

\* A control frame names a message.
LEMMA PayloadFields ==
    ASSUME NEW pay \in Payloads
    PROVE  /\ pay.typ \in {"hs", "ccs", "alert", "app", "ctl"}
           /\ pay.typ = "ctl" => pay.c \in {"lost_request", "retransmit"} /\ pay.ref \in Refs
           /\ pay.typ = "app" => pay.n \in Nat
           /\ pay.typ = "hs" => pay.msg \in HsMsgs
BY DEF Payloads

\* handleSecureControl on a complete session answers with a sealed frame.
LEMMA ControlOK ==
    ASSUME IInv, NEW h \in Hosts, NEW p \in Hosts, NEW o \in Objects, NEW s, SessionOK(s),
           s.complete, NEW pay \in Payloads, pay.typ = "ctl", NEW w, WireOK(w),
           HandleControl(h, p, o, s, pay, w), ReadLoopsOK(rl')
    PROVE  Handled(o, s)
<1>1. pay.ref \in Refs /\ s.out # Nil
  BY PayloadFields DEF SessionOK
<1>2. CASE UNCHANGED recovery /\ wire' = Put(w, o, Sealed(s, CtlPay("retransmit", pay.ref)))
           /\ ses' = [ses EXCEPT ![o] = AfterSeal(s)]
  <2>1. CtlPay("retransmit", pay.ref) \in Payloads
    BY <1>1, PayloadsOK
  <2>2. WireOK(wire') /\ SessionOK(AfterSeal(s)) /\ AfterSeal(s).complete = s.complete
    BY <1>1, <1>2, <2>1, SendOK
  <2> QED BY <1>2, <2>2, RecoveryUnchanged DEF Handled
<1>3. CASE UNCHANGED recovery /\ wire' = w /\ ses' = [ses EXCEPT ![o] = s]
  BY <1>3, RecoveryUnchanged DEF Handled
<1>4. CASE HandleRetransmit(h, p, pay.ref) /\ wire' = w /\ ses' = [ses EXCEPT ![o] = s]
  BY <1>1, <1>4, RetransmitOK DEF Handled
<1> QED BY <1>2, <1>3, <1>4 DEF HandleControl

\* markLostInbound only adds to the sets.
LEMMA MarkLostOK ==
    ASSUME IInv, NEW h \in Hosts, NEW p \in Hosts, NEW o \in Objects, NEW s, SessionOK(s),
           NEW ref \in Refs, MarkLost(h, p, o, s, ref), WireOK(wire'), rl' = rl
    PROVE  Handled(o, s)
<1> DEFINE t == [s EXCEPT !.asking = @ \union {ref}]
<1>1. SessionOK(t) /\ t.complete = s.complete
  BY DEF SessionOK, Sessions
<1>2. ses' = [ses EXCEPT ![o] = t]
  BY DEF MarkLost
<1>3. lost \in [Hosts -> [Hosts -> SUBSET Refs]] /\ pending \in [Hosts -> [Hosts -> SUBSET Nat]]
  BY DEF IInv, TypeOK
<1>4. lost' = [lost EXCEPT ![h][p] = lost[h][p] \union {ref}] /\ pending' = pending
  BY DEF MarkLost
<1>5. lost[h][p] \union {ref} \in SUBSET Refs
  BY <1>3
<1>6. RecoveryOK'
  BY <1>3, <1>4, <1>5, TableUpdate, SMTT(60) DEF RecoveryOK
<1>7. ReadLoopsOK(rl')
  BY DEF IInv
<1> HIDE DEF t
<1> QED BY <1>1, <1>2, <1>6, <1>7 DEF Handled

\* Every branch of the switch over the record type leaves everything in order.
LEMMA DispatchOK ==
    ASSUME IInv, NEW h \in Hosts, NEW p \in Hosts, NEW o \in Objects, o[1] = h,
           NEW s, SessionOK(s), NEW rec \in Records, NEW w, WireOK(w),
           Dispatch(h, p, o, s, rec, w)
    PROVE  Handled(o, s)
<1>0. /\ rec.pay \in Payloads
      /\ ReadLoopsOK(rl)
  BY DEF IInv, Records
<1>1. CASE rec.pay.typ = "alert" /\ ses' = [ses EXCEPT ![o] = Closed(s)]
           /\ rl' = [rl EXCEPT ![h] = RlAt("delete", o, Nil)] /\ wire' = w /\ UNCHANGED recovery
  <2>1. ReadLoopsOK(rl')
    BY <1>0, <1>1, RlAtOK, ReadLoopStep1
  <2> QED BY <1>1, <2>1, ClosedOK, RecoveryUnchanged DEF Handled
<1>2. CASE rec.pay.typ = "app" /\ DeliverApplication(h, p, rec.pay.n)
           /\ ses' = [ses EXCEPT ![o] = s] /\ wire' = w /\ rl' = rl
  <2>1. RecoveryOK'
    BY <1>0, <1>2, PayloadFields, DeliverOK
  <2> QED BY <1>0, <1>2, <2>1 DEF Handled
<1>3. CASE rec.pay.typ = "ctl" /\ s.complete /\ HandleControl(h, p, o, s, rec.pay, w) /\ rl' = rl
  BY <1>0, <1>3, ControlOK
<1>4. CASE rec.pay.typ \in {"app", "ctl"} /\ ses' = [ses EXCEPT ![o] = s]
           /\ rl' = [rl EXCEPT ![h] = RlAt("await", o, rec)] /\ wire' = w /\ UNCHANGED recovery
  <2>1. ReadLoopsOK(rl')
    BY <1>0, <1>4, RlAtOK, ReadLoopStep1
  <2> QED BY <1>4, <2>1, RecoveryUnchanged DEF Handled
<1>5. CASE rec.pay.typ = "hs" /\ ses' = [ses EXCEPT ![o] = [s EXCEPT !.chan = Append(@, rec.pay.msg)]]
           /\ wire' = w /\ rl' = rl /\ UNCHANGED recovery
  <2> DEFINE t == [s EXCEPT !.chan = Append(@, rec.pay.msg)]
  <2>1. rec.pay.msg \in HsMsgs
    BY <1>0, <1>5, PayloadFields
  <2>2. Append(s.chan, rec.pay.msg) \in Seq(HsMsgs)
    BY <2>1 DEF SessionOK, Sessions
  <2>3. SessionOK(t) /\ t.complete = s.complete
    BY <2>2 DEF SessionOK, Sessions
  <2>4. ses' = [ses EXCEPT ![o] = t]
    BY <1>5
  <2> HIDE DEF t
  <2> QED BY <1>0, <1>5, <2>3, <2>4, RecoveryUnchanged DEF Handled
<1>6. CASE RlTerminate(h, o, s, w) /\ UNCHANGED recovery
  BY <1>6, RlTerminateOK
<1>7. CASE ses' = [ses EXCEPT ![o] = SwitchIn(s)] /\ wire' = w /\ rl' = rl /\ UNCHANGED recovery
  <2>1. SessionOK(SwitchIn(s)) /\ SwitchIn(s).complete = s.complete
    BY DEF SwitchIn, SessionOK, Sessions
  <2> QED BY <1>0, <1>7, <2>1, RecoveryUnchanged DEF Handled
<1>8. CASE ses' = [ses EXCEPT ![o] = s] /\ rl' = [rl EXCEPT ![h] = RlAt("ccs", o, Nil)]
           /\ wire' = w /\ UNCHANGED recovery
  <2>1. ReadLoopsOK(rl')
    BY <1>0, <1>8, RlAtOK, ReadLoopStep1
  <2> QED BY <1>8, <2>1, RecoveryUnchanged DEF Handled
<1> QED BY <1>1, <1>2, <1>3, <1>4, <1>5, <1>6, <1>7, <1>8 DEF Dispatch

\* Receive, whatever the record and whatever became of the session, preserves
\* the invariant.
LEMMA ReceiveIInv ==
    ASSUME IInv, NEW h \in Hosts, NEW p \in Hosts, Receive(h, p)
    PROVE  IInv'
<1> DEFINE o == Entry(h, p)
<1> DEFINE s == IF cur[h][p] = Nil THEN NewSession(TRUE) ELSE ses[o]
<1> DEFINE rec == Head(wire[p][h])
<1> DEFINE w == Pop(wire, h, p)
<1> DEFINE opened == [s EXCEPT !.inSeq = @ + 1]
<1>1. /\ h # p /\ CanCreate(h, p) /\ gen' = GenAfter(h, p) /\ wire[p][h] # <<>>
      /\ UNCHANGED <<wm, cache, sent, faults>>
  BY DEF Receive
<1>2. /\ Created(gen', o, h, p) /\ o \in Objects /\ o[1] = h /\ o[2] = p
      /\ cur[h][p] # Nil => o = cur[h][p]
      /\ cur[h][p] = Nil => o[3] > gen[h][p]
  BY <1>1, EntryOK
<1>3. SessionOK(s)
  BY <1>2, NewSessionOK DEF IInv
<1>4. SessionOK(opened) /\ opened.complete = s.complete
  <2> HIDE DEF s
  <2> QED BY <1>3 DEF SessionOK, Sessions
<1>5. WireOK(w) /\ rec \in Records
  BY <1>1, PopOK DEF IInv
<1>6. cur' = [cur EXCEPT ![h][p] = Nil] \/ cur' = [cur EXCEPT ![h][p] = o]
  BY DEF Receive
<1>7. Handled(o, s)
  <2> HIDE DEF o, s, w
  <2>1. CASE /\ IsHelloRecord(rec) /\ ses' = [ses EXCEPT ![o] = Closed(s)]
             /\ rl' = [rl EXCEPT ![h] = RlAt("store", o, rec)] /\ wire' = w
             /\ UNCHANGED recovery
    <3>1. rec.pay.typ = "hs"
      BY <2>1 DEF IsHelloRecord
    <3>2. ReadLoopsOK(rl')
      BY <3>1, <2>1, <1>2, <1>5, RlAtOK, ReadLoopStep1 DEF IInv
    <3> QED BY <2>1, <3>2, <1>3, <1>5, ClosedOK, RecoveryUnchanged DEF Handled
  <2>2. CASE RlTerminate(h, o, s, w) /\ UNCHANGED recovery
    BY <2>2, <1>2, <1>3, <1>5, RlTerminateOK
  <2>3. CASE RlTerminate(h, o, opened, w) /\ UNCHANGED recovery
    <3> HIDE DEF opened
    <3>1. Handled(o, opened)
      BY <2>3, <1>2, <1>4, <1>5, RlTerminateOK
    <3> QED BY <3>1, <1>4 DEF Handled
  <2>4. CASE MarkLost(h, p, o, opened, RefOf(rec)) /\ wire' = w /\ rl' = rl
    <3> HIDE DEF opened
    <3>1. RefOf(rec) \in Refs
      <4> HIDE DEF rec
      <4>1. rec.pay \in Payloads /\ rec.seq \in Nat
        BY <1>5 DEF Records
      <4> QED BY <4>1, PayloadFields DEF RefOf, Ref, Refs
    <3>2. Handled(o, opened)
      BY <2>4, <3>1, <1>2, <1>4, <1>5, MarkLostOK
    <3> QED BY <3>2, <1>4 DEF Handled
  <2>5. CASE Dispatch(h, p, o, opened, rec, w)
    <3> HIDE DEF opened, rec
    <3>1. Handled(o, opened)
      BY <2>5, <1>2, <1>4, <1>5, DispatchOK
    <3> QED BY <3>1, <1>4 DEF Handled
  <2> QED BY <2>1, <2>2, <2>3, <2>4, <2>5 DEF Receive, o, s, w
<1> HIDE DEF s, rec, w, opened
<1>8. PICK t : SessionOK(t) /\ (s.complete => t.complete) /\ ses' = [ses EXCEPT ![o] = t]
  BY <1>7 DEF Handled
<1>9. (ses[o].complete => t.complete) \/ o[3] > gen[o[1]][o[2]]
  BY <1>8, <1>2 DEF s
<1>10. /\ ses' \in [Objects -> Sessions]
       /\ \A x \in Objects : SessionOK(ses'[x])
       /\ \A a, b \in Hosts : wm[a][b].pc = "send" => ses'[wm[a][b].o].complete
  BY <1>2, <1>8, <1>9, SessionStep
<1>11. gen' \in [Hosts -> [Hosts -> 0..MaxGen]]
  BY <1>1, StaysCreated
<1>12. \A x, a, b : a \in Hosts /\ b \in Hosts /\ Created(gen, x, a, b) => Created(gen', x, a, b)
  BY <1>1, StaysCreated
<1>13. /\ cur' \in [Hosts -> [Hosts -> Objects \union {Nil}]]
       /\ \A a, b \in Hosts : cur'[a][b] = cur[a][b] \/ (a = h /\ b = p /\ cur'[a][b] \in {Nil, o})
  <2> HIDE DEF o
  <2>1. cur \in [Hosts -> [Hosts -> Objects \union {Nil}]]
    BY Types
  <2>2. CASE cur' = [cur EXCEPT ![h][p] = Nil]
    BY <2>1, <2>2, TableUpdate, SMTT(60)
  <2>3. CASE cur' = [cur EXCEPT ![h][p] = o]
    BY <2>1, <2>3, <1>2, TableUpdate, SMTT(60)
  <2> QED BY <2>2, <2>3, <1>6
<1>14. MapOK'
  BY <1>2, <1>12, <1>13 DEF IInv, MapOK
<1>15. WritersOK'
  BY <1>1, <1>10, <1>12 DEF IInv, WritersOK
<1>16. TypeOK'
  BY <1>1, <1>7, <1>10, <1>11, <1>13 DEF Handled, RecoveryOK, WireOK, ReadLoopsOK, IInv, TypeOK
<1>17. WireOK(wire)' /\ ReadLoopsOK(rl)' /\ (\A x \in Objects : SessionOK(ses[x]))'
  BY <1>7, <1>10 DEF Handled, WireOK, ReadLoopsOK, RlOK, SessionOK
<1> QED BY <1>14, <1>15, <1>16, <1>17 DEF IInv

\* RlStore preserves the invariant: the session it stores is one that no
\* writer can refer to yet.
LEMMA RlStoreIInv ==
    ASSUME IInv, NEW h \in Hosts, RlStore(h)
    PROVE  IInv'
<1> DEFINE p == rl[h].o[2]
<1> DEFINE o == <<h, p, gen[h][p] + 1>>
<1> DEFINE msg == rl[h].rec.pay.msg
<1> DEFINE s == [NewSession(TRUE) EXCEPT !.chan = <<msg>>]
<1>0. RlOK(h, rl[h]) /\ rl[h].pc = "store"
  BY DEF RlStore, IInv, ReadLoopsOK
<1>1. p \in Hosts /\ h # p /\ msg \in HsMsgs
  <2>1. rl[h].o \in Objects /\ rl[h].o[1] = h /\ rl[h].rec \in Records /\ rl[h].rec.pay.typ = "hs"
    BY <1>0 DEF RlOK
  <2>2. rl[h].rec.pay \in Payloads
    BY <2>1 DEF Records
  <2> QED BY <2>1, <2>2, ObjectFields, PayloadFields
<1> HIDE DEF p, msg
<1>2. gen[h][p] \in 0..MaxGen /\ gen[h][p] < MaxGen /\ gen' = [gen EXCEPT ![h][p] = gen[h][p] + 1]
      /\ MaxGen \in Nat /\ gen \in [Hosts -> [Hosts -> 0..MaxGen]]
  BY <1>1, Types DEF RlStore, p
<1>3. o \in Objects /\ o[1] = h /\ o[2] = p /\ o[3] = gen[h][p] + 1
  BY <1>1, <1>2, NextObject
<1>4. SessionOK(s)
  <2>1. <<msg>> \in Seq(HsMsgs)
    BY <1>1
  <2>2. SessionOK(NewSession(TRUE))
    BY NewSessionOK
  <2> QED BY <2>1, <2>2 DEF SessionOK, Sessions
<1>5. ses' = [ses EXCEPT ![o] = s]
  BY DEF RlStore, p, msg
<1>6. cur' = [cur EXCEPT ![h][p] = o] /\ rl' = [rl EXCEPT ![h] = RlIdle]
      /\ UNCHANGED <<wire, wm, cache, recovery, sent, faults>>
  BY DEF RlStore, p
<1> HIDE DEF o, s
<1>7. /\ ses' \in [Objects -> Sessions]
      /\ \A x \in Objects : SessionOK(ses'[x])
      /\ \A a, b \in Hosts : wm[a][b].pc = "send" => ses'[wm[a][b].o].complete
  <2>1. o[3] > gen[o[1]][o[2]]
    BY <1>2, <1>3
  <2> QED BY <2>1, <1>3, <1>4, <1>5, SessionStep
<1>8. gen[h][p] + 1 \in 0..MaxGen
  BY <1>2
<1>9. /\ gen' \in [Hosts -> [Hosts -> 0..MaxGen]]
      /\ \A a, b \in Hosts : gen'[a][b] = IF a = h /\ b = p THEN gen[h][p] + 1 ELSE gen[a][b]
  BY <1>1, <1>2, <1>8, TableUpdate, SMTT(60)
<1>10. \A x, a, b : a \in Hosts /\ b \in Hosts /\ Created(gen, x, a, b) => Created(gen', x, a, b)
  <2>1. \A x \in Objects : x[3] \in Nat
    BY <1>2, ObjectFields
  <2>2. \A a, b \in Hosts : gen[a][b] \in Nat /\ gen'[a][b] \in Nat /\ gen[a][b] <= gen'[a][b]
    BY <1>2, <1>9
  <2>3. ASSUME NEW x, NEW a \in Hosts, NEW b \in Hosts, Created(gen, x, a, b)
        PROVE  Created(gen', x, a, b)
    BY <2>1, <2>2, <2>3 DEF Created
  <2> QED BY <2>3
<1>11. Created(gen', o, h, p)
  BY <1>1, <1>2, <1>3, <1>9 DEF Created
<1>12. /\ cur' \in [Hosts -> [Hosts -> Objects \union {Nil}]]
       /\ \A a, b \in Hosts : cur'[a][b] = IF a = h /\ b = p THEN o ELSE cur[a][b]
  <2>1. cur \in [Hosts -> [Hosts -> Objects \union {Nil}]]
    BY Types
  <2>2. h \in Hosts /\ p \in Hosts /\ o \in Objects \union {Nil} /\ cur' = [cur EXCEPT ![h][p] = o]
    BY <1>1, <1>3, <1>6
  <2> HIDE DEF p
  <2> QED BY <2>1, <2>2, TableUpdate, SMTT(60)
<1>13. ReadLoopsOK(rl')
  BY <1>6, RlIdleOK, ReadLoopStep1 DEF IInv
<1>14. MapOK'
  BY <1>10, <1>11, <1>12 DEF IInv, MapOK
<1>15. WritersOK'
  BY <1>6, <1>7, <1>10 DEF IInv, WritersOK
<1>16. TypeOK'
  BY <1>6, <1>7, <1>9, <1>12, <1>13 DEF ReadLoopsOK, IInv, TypeOK, recovery
<1>17. WireOK(wire)' /\ ReadLoopsOK(rl)' /\ (\A x \in Objects : SessionOK(ses[x]))'
  BY <1>6, <1>7, <1>13 DEF IInv, WireOK, ReadLoopsOK, RlOK, SessionOK
<1> QED BY <1>14, <1>15, <1>16, <1>17 DEF IInv

\* RlDelete preserves the invariant.
LEMMA RlDeleteIInv ==
    ASSUME IInv, NEW h \in Hosts, RlDelete(h)
    PROVE  IInv'
<1>1. rl[h].o[2] \in Hosts
  <2>1. RlOK(h, rl[h]) /\ rl[h].pc = "delete"
    BY DEF RlDelete, IInv, ReadLoopsOK
  <2>2. rl[h].o \in Objects
    BY <2>1 DEF RlOK
  <2> QED BY <2>2, ObjectFields
<1>2. cur' \in [Hosts -> [Hosts -> Objects \union {Nil}]] /\ MapOK'
  BY <1>1, MapDelete DEF RlDelete
<1>3. ReadLoopsOK(rl')
  BY RlIdleOK, ReadLoopStep1 DEF IInv, RlDelete
<1>4. TypeOK'
  BY <1>2, <1>3 DEF RlDelete, IInv, TypeOK, recovery, ReadLoopsOK
<1>5. WritersOK'
  BY DEF RlDelete, IInv, WritersOK, Created
<1>6. (\A x \in Objects : SessionOK(ses[x]))' /\ WireOK(wire)' /\ ReadLoopsOK(rl)'
  BY <1>3 DEF RlDelete, IInv, ReadLoopsOK, RlOK, WireOK, SessionOK
<1> QED BY <1>2, <1>4, <1>5, <1>6 DEF IInv

\* A record handled with the session at hand preserves the invariant.
LEMMA HandledIInv ==
    ASSUME IInv, NEW o \in Objects, Handled(o, ses[o]),
           UNCHANGED <<cur, gen, wm, cache, sent>>, faults' \in FaultCounts
    PROVE  IInv'
<1>1. PICK t : SessionOK(t) /\ (ses[o].complete => t.complete) /\ ses' = [ses EXCEPT ![o] = t]
  BY DEF Handled
<1>2. cache' \in [Hosts -> Seq(Hosts \X Nat)]
  BY DEF IInv, TypeOK
<1> QED BY <1>1, <1>2, LocalStep DEF Handled, RecoveryOK

\* RlChangeCipherSpec preserves the invariant.
LEMMA RlChangeCipherSpecIInv ==
    ASSUME IInv, NEW h \in Hosts, RlChangeCipherSpec(h)
    PROVE  IInv'
<1> DEFINE o == rl[h].o
<1> DEFINE taken == [ses[o] EXCEPT !.inReady = FALSE]
<1>1. /\ o \in Objects /\ o[1] = h /\ SessionOK(ses[o]) /\ WireOK(wire) /\ ReadLoopsOK(rl)
  <2>1. RlOK(h, rl[h]) /\ rl[h].pc = "ccs"
    BY DEF RlChangeCipherSpec, IInv, ReadLoopsOK
  <2> QED BY <2>1 DEF RlOK, IInv
<1>2. UNCHANGED <<cur, gen, wm, cache, recovery, sent>> /\ faults' \in FaultCounts
  BY DEF RlChangeCipherSpec, IInv, TypeOK
<1>3. SessionOK(taken) /\ taken.complete = ses[o].complete
  BY <1>1, TakenOK
<1> HIDE DEF o
<1>4. CASE RlTerminate(h, o, taken, wire)
  <2> HIDE DEF taken
  <2>1. Handled(o, taken)
    BY <1>1, <1>2, <1>3, <1>4, RlTerminateOK
  <2>2. Handled(o, ses[o])
    BY <2>1, <1>3 DEF Handled
  <2> QED BY <2>2, <1>1, <1>2, HandledIInv
<1>5. CASE ses' = [ses EXCEPT ![o] = SwitchIn(taken)] /\ rl' = [rl EXCEPT ![h] = RlIdle] /\ wire' = wire
  <2> HIDE DEF taken
  <2>1. SessionOK(SwitchIn(taken)) /\ SwitchIn(taken).complete = taken.complete
    BY <1>3 DEF SwitchIn, SessionOK, Sessions
  <2>2. ReadLoopsOK(rl')
    BY <1>1, <1>5, RlIdleOK, ReadLoopStep1
  <2>3. Handled(o, ses[o])
    BY <2>1, <2>2, <1>1, <1>2, <1>3, <1>5, RecoveryUnchanged DEF Handled
  <2> QED BY <2>3, <1>1, <1>2, HandledIInv
<1>6. CASE RlTerminate(h, o, ses[o], wire)
  <2>1. Handled(o, ses[o])
    BY <1>1, <1>2, <1>6, RlTerminateOK
  <2> QED BY <2>1, <1>1, <1>2, HandledIInv
<1> QED BY <1>4, <1>5, <1>6 DEF RlChangeCipherSpec, o

\* RlAwait preserves the invariant: a token means a complete session, so what
\* it answers is sealed.
LEMMA RlAwaitIInv ==
    ASSUME IInv, NEW h \in Hosts, RlAwait(h)
    PROVE  IInv'
<1> DEFINE o == rl[h].o
<1> DEFINE s == [ses[o] EXCEPT !.token = FALSE]
<1> DEFINE rec == rl[h].rec
<1>1. /\ o \in Objects /\ o[1] = h /\ SessionOK(ses[o]) /\ WireOK(wire) /\ ReadLoopsOK(rl)
      /\ rec.pay \in Payloads
  <2>1. RlOK(h, rl[h]) /\ rl[h].pc = "await"
    BY DEF RlAwait, IInv, ReadLoopsOK
  <2> QED BY <2>1 DEF RlOK, IInv, Records
<1>2. UNCHANGED <<cur, gen, wm, cache, sent>> /\ faults' \in FaultCounts
  BY DEF RlAwait, IInv, TypeOK
<1>3. SessionOK(s) /\ s.complete = ses[o].complete
  BY <1>1, WokenOK
<1>4. ReadLoopsOK(rl')
  BY <1>1, RlIdleOK, ReadLoopStep1 DEF RlAwait
<1>5. o[2] \in Hosts
  BY <1>1, ObjectFields
<1> HIDE DEF o, s, rec
<1>6. CASE rec.pay.typ = "app" /\ DeliverApplication(h, o[2], rec.pay.n)
           /\ ses' = [ses EXCEPT ![o] = s] /\ wire' = wire
  <2>1. RecoveryOK'
    BY <1>1, <1>5, <1>6, PayloadFields, DeliverOK
  <2>2. Handled(o, ses[o])
    BY <2>1, <1>1, <1>3, <1>4, <1>6 DEF Handled
  <2> QED BY <2>2, <1>1, <1>2, HandledIInv
<1>7. CASE ses[o].token /\ rec.pay.typ = "ctl" /\ HandleControl(h, o[2], o, s, rec.pay, wire)
  <2>1. s.complete
    BY <1>1, <1>3, <1>7 DEF SessionOK
  <2>2. Handled(o, s)
    BY <2>1, <1>1, <1>3, <1>4, <1>5, <1>7, ControlOK
  <2>3. Handled(o, ses[o])
    BY <2>2, <1>3 DEF Handled
  <2> QED BY <2>3, <1>1, <1>2, HandledIInv
<1>8. CASE UNCHANGED <<ses, wire, recovery>>
  <2>1. ses' = [ses EXCEPT ![o] = ses[o]]
    BY <1>1, <1>8, Types
  <2>2. Handled(o, ses[o])
    BY <2>1, <1>1, <1>4, <1>8, RecoveryUnchanged DEF Handled
  <2> QED BY <2>2, <1>1, <1>2, HandledIInv
<1> QED BY <1>6, <1>7, <1>8 DEF RlAwait, o, s, rec

\* A timer that fires is counted.
LEMMA TimeoutOK ==
    ASSUME IInv, Timeout PROVE faults' \in FaultCounts
<1>1. faults \in FaultCounts /\ MaxTimeouts \in Nat
  BY BoundsAssumption DEF IInv, TypeOK
<1> QED BY <1>1 DEF Timeout, FaultCounts

\* RlAwaitTimeout preserves the invariant.
LEMMA RlAwaitTimeoutIInv ==
    ASSUME IInv, NEW h \in Hosts, RlAwaitTimeout(h)
    PROVE  IInv'
<1> DEFINE o == rl[h].o
<1>1. /\ o \in Objects /\ o[1] = h /\ SessionOK(ses[o]) /\ WireOK(wire) /\ ReadLoopsOK(rl)
  <2>1. RlOK(h, rl[h]) /\ rl[h].pc = "await"
    BY DEF RlAwaitTimeout, IInv, ReadLoopsOK
  <2> QED BY <2>1 DEF RlOK, IInv
<1>2. UNCHANGED <<cur, gen, wm, cache, recovery, sent>> /\ faults' \in FaultCounts
  BY TimeoutOK DEF RlAwaitTimeout
<1> HIDE DEF o
<1>3. CASE RlTerminate(h, o, ses[o], wire)
  <2>1. Handled(o, ses[o])
    BY <1>1, <1>2, <1>3, RlTerminateOK
  <2> QED BY <2>1, <1>1, <1>2, HandledIInv
<1>4. CASE rl' = [rl EXCEPT ![h] = RlIdle] /\ UNCHANGED <<ses, wire>>
  <2>1. ReadLoopsOK(rl')
    BY <1>1, <1>4, RlIdleOK, ReadLoopStep1
  <2>2. ses' = [ses EXCEPT ![o] = ses[o]]
    BY <1>1, <1>4, Types
  <2>3. Handled(o, ses[o])
    BY <2>1, <2>2, <1>1, <1>2, <1>4, RecoveryUnchanged DEF Handled
  <2> QED BY <2>3, <1>1, <1>2, HandledIInv
<1> QED BY <1>3, <1>4 DEF RlAwaitTimeout, o

-----------------------------------------------------------------------------
(* Recovery goroutines and the environment *)

\* A request goroutine of a complete session sends it sealed.
LEMMA AskForIInv ==
    ASSUME IInv, NEW o \in Objects, NEW s, SessionOK(s), s.complete,
           NEW ref \in Refs, AskFor(o, s, ref),
           UNCHANGED <<cur, gen, rl, wm, cache, recovery, sent, faults>>
    PROVE  IInv'
<1>1. CtlPay("lost_request", ref) \in Payloads
  BY PayloadsOK
<1>2. WireOK(wire) /\ s.out # Nil /\ faults' \in FaultCounts
  BY DEF IInv, TypeOK, SessionOK
<1>3. WireOK(wire') /\ SessionOK(AfterSeal(s)) /\ AfterSeal(s).complete = s.complete
  BY <1>1, <1>2, SendOK DEF AskFor
<1>4. ses' = [ses EXCEPT ![o] = AfterSeal(s)]
  BY DEF AskFor
<1> QED BY <1>2, <1>3, <1>4, GoroutineStep

\* RequestLost preserves the invariant.
LEMMA RequestLostIInv ==
    ASSUME IInv, NEW o \in Objects, NEW ref \in ses[o].asking, RequestLost(o, ref)
    PROVE  IInv'
<1> DEFINE s == [ses[o] EXCEPT !.asking = @ \ {ref}]
<1> DEFINE t == [s EXCEPT !.waiting = @ \union {ref}]
<1>1. SessionOK(ses[o]) /\ WireOK(wire) /\ faults \in FaultCounts
      /\ UNCHANGED <<cur, gen, rl, wm, cache, recovery, sent, faults>>
  BY DEF IInv, TypeOK, RequestLost
<1>2. ref \in Refs
  BY <1>1 DEF SessionOK, Sessions
<1>3. SessionOK(s) /\ s.complete = ses[o].complete
  BY <1>1 DEF SessionOK, Sessions
<1>4. CASE ses[o].complete
  <2>1. AskFor(o, s, ref)
    BY <1>4 DEF RequestLost
  <2> HIDE DEF s
  <2> QED BY <2>1, <1>1, <1>2, <1>3, <1>4, AskForIInv
<1>5. CASE ~ses[o].complete
  <2>1. ses' = [ses EXCEPT ![o] = t] /\ wire' = wire
    BY <1>5 DEF RequestLost
  <2>2. SessionOK(t)
    <3> HIDE DEF s
    <3> QED BY <1>2, <1>3 DEF SessionOK, Sessions
  <2> HIDE DEF t
  <2> QED BY <2>1, <2>2, <1>1, <1>5, GoroutineStep
<1> QED BY <1>4, <1>5

\* RequestLostToken preserves the invariant.
LEMMA RequestLostTokenIInv ==
    ASSUME IInv, NEW o \in Objects, NEW ref \in ses[o].waiting, RequestLostToken(o, ref)
    PROVE  IInv'
<1> DEFINE s == [ses[o] EXCEPT !.waiting = @ \ {ref}, !.token = FALSE]
<1>1. SessionOK(ses[o]) /\ ses[o].token
      /\ UNCHANGED <<cur, gen, rl, wm, cache, recovery, sent, faults>>
  BY DEF IInv, RequestLostToken
<1>2. ref \in Refs
  BY <1>1 DEF SessionOK, Sessions
<1>3. SessionOK(s) /\ s.complete
  BY <1>1 DEF SessionOK, Sessions
<1>4. AskFor(o, s, ref)
  BY DEF RequestLostToken
<1> HIDE DEF s
<1> QED BY <1>1, <1>2, <1>3, <1>4, AskForIInv

\* RequestLostGiveUp preserves the invariant.
LEMMA RequestLostGiveUpIInv ==
    ASSUME IInv, NEW o \in Objects, NEW ref \in ses[o].waiting, RequestLostGiveUp(o, ref)
    PROVE  IInv'
<1> DEFINE s == [ses[o] EXCEPT !.waiting = @ \ {ref}]
<1>1. SessionOK(ses[o]) /\ WireOK(wire) /\ wire' = wire
      /\ UNCHANGED <<cur, gen, rl, wm, cache, recovery, sent>>
  BY DEF IInv, RequestLostGiveUp
<1>2. faults' \in FaultCounts
  BY TimeoutOK DEF RequestLostGiveUp, IInv, TypeOK
<1>3. SessionOK(s) /\ s.complete = ses[o].complete
  BY <1>1 DEF SessionOK, Sessions
<1>4. ses' = [ses EXCEPT ![o] = s]
  BY DEF RequestLostGiveUp
<1> HIDE DEF s
<1> QED BY <1>1, <1>2, <1>3, <1>4, GoroutineStep

\* A step that leaves the sessions and who refers to them alone.
LEMMA QuietStep ==
    ASSUME IInv, UNCHANGED <<ses, cur, gen, rl, wm, cache, sent>>,
           WireOK(wire'), RecoveryOK', faults' \in FaultCounts
    PROVE  IInv'
<1>1. TypeOK'
  BY DEF IInv, TypeOK, WireOK, RecoveryOK
<1>2. MapOK' /\ WritersOK'
  BY DEF IInv, MapOK, WritersOK, Created
<1>3. WireOK(wire)' /\ ReadLoopsOK(rl)' /\ (\A x \in Objects : SessionOK(ses[x]))'
  BY DEF IInv, WireOK, ReadLoopsOK, RlOK, SessionOK
<1> QED BY <1>1, <1>2, <1>3 DEF IInv

\* ExpireLost preserves the invariant.
LEMMA ExpireLostIInv ==
    ASSUME IInv, NEW h \in Hosts, NEW p \in Hosts, NEW ref \in lost[h][p], ExpireLost(h, p, ref)
    PROVE  IInv'
<1> DEFINE still == lost[h][p] \ {ref}
<1> DEFINE left == pending[h][p] \ Releasable(still, pending[h][p])
<1>1. lost \in [Hosts -> [Hosts -> SUBSET Refs]] /\ pending \in [Hosts -> [Hosts -> SUBSET Nat]]
      /\ WireOK(wire)
  BY DEF IInv, TypeOK
<1>2. lost' = [lost EXCEPT ![h][p] = still] /\ pending' = [pending EXCEPT ![h][p] = left]
      /\ wire' = wire /\ UNCHANGED <<ses, cur, gen, rl, wm, cache, sent>>
  BY DEF ExpireLost
<1>3. still \in SUBSET Refs /\ left \in SUBSET Nat
  BY <1>1
<1> HIDE DEF still, left
<1>4. lost' \in [Hosts -> [Hosts -> SUBSET Refs]]
  BY <1>1, <1>2, <1>3, TableUpdate, SMTT(60)
<1>5. pending' \in [Hosts -> [Hosts -> SUBSET Nat]]
  BY <1>1, <1>2, <1>3, TableUpdate, SMTT(60)
<1>6. faults' \in FaultCounts
  BY TimeoutOK DEF ExpireLost
<1> QED BY <1>1, <1>2, <1>4, <1>5, <1>6, QuietStep DEF RecoveryOK

\* RelayDrop preserves the invariant.
LEMMA RelayDropIInv ==
    ASSUME IInv, NEW h \in Hosts, NEW p \in Hosts, RelayDrop(h, p)
    PROVE  IInv'
<1>1. WireOK(wire')
  <2>1. wire' = Pop(wire, p, h) /\ wire[h][p] # <<>>
    BY DEF RelayDrop, Pop
  <2> QED BY <2>1, PopOK DEF IInv
<1>2. faults' \in FaultCounts
  <2>1. faults \in FaultCounts /\ MaxDrops \in Nat
    BY BoundsAssumption DEF IInv, TypeOK
  <2> QED BY <2>1 DEF RelayDrop, FaultCounts
<1>3. RecoveryOK' /\ UNCHANGED <<ses, cur, gen, rl, wm, cache, sent>>
  BY RecoveryUnchanged DEF RelayDrop
<1> QED BY <1>1, <1>2, <1>3, QuietStep

\* Restart preserves the invariant: the writers that are left refer to
\* sessions of other hosts.
LEMMA RestartIInv ==
    ASSUME IInv, NEW h \in Hosts, Restart(h)
    PROVE  IInv'
<1>0. ses \in [Objects -> Sessions] /\ \A x \in Objects : SessionOK(ses[x])
  BY DEF IInv, TypeOK
<1>1. \A x \in Objects : SessionOK(Abandoned(ses[x]))
  <2>1. ASSUME NEW s, SessionOK(s) PROVE SessionOK(Abandoned(s))
    <3>1. s \in Sessions
      BY <2>1 DEF SessionOK
    <3>2. Abandoned(s) \in Sessions
      <4> DEFINE hs == IF s.hs = "ok" THEN "ok" ELSE "failed"
      <4>1. hs \in HsStates /\ <<>> \in Seq(HsMsgs) /\ {} \in SUBSET Refs
        BY DEF HsStates
      <4>2. Abandoned(s) = [s EXCEPT !.hs = hs, !.passive = FALSE, !.chan = <<>>, !.token = FALSE,
                                     !.done = TRUE, !.inReady = FALSE, !.asking = {}, !.waiting = {}]
        BY DEF Abandoned
      <4> HIDE DEF hs
      <4> QED BY <3>1, <4>1, <4>2 DEF Sessions
    <3>3. /\ Abandoned(s).complete = s.complete /\ Abandoned(s).out = s.out
          /\ Abandoned(s).token = FALSE /\ Abandoned(s).rem = s.rem
          /\ Abandoned(s).hs = IF s.hs = "ok" THEN "ok" ELSE "failed"
      BY <3>1 DEF Abandoned, Sessions
    <3> QED BY <2>1, <3>2, <3>3 DEF SessionOK
  <2> QED BY <2>1, <1>0
<1>2. /\ ses' \in [Objects -> Sessions]
      /\ \A x \in Objects : SessionOK(ses'[x]) /\ (x[1] # h => ses'[x] = ses[x])
  BY <1>0, <1>1 DEF Restart, SessionOK
<1>3. /\ wm' \in [Hosts -> [Hosts -> WmStates]]
      /\ \A a, b \in Hosts : wm'[a][b] = IF a = h THEN WmIdle ELSE wm[a][b]
  BY Types, WmIdleOK DEF Restart
<1>4. /\ cur' \in [Hosts -> [Hosts -> Objects \union {Nil}]]
      /\ \A a, b \in Hosts : cur'[a][b] = IF a = h THEN Nil ELSE cur[a][b]
  BY Types DEF Restart
<1>5. ReadLoopsOK(rl')
  BY RlIdleOK, ReadLoopStep1 DEF IInv, Restart
<1>6. cache' \in [Hosts -> Seq(Hosts \X Nat)] /\ RecoveryOK'
  BY DEF IInv, TypeOK, Restart, RecoveryOK
<1>7. faults' \in FaultCounts
  <2>1. faults \in FaultCounts /\ MaxRestarts \in Nat
    BY BoundsAssumption DEF IInv, TypeOK
  <2> QED BY <2>1 DEF Restart, FaultCounts
<1>8. TypeOK'
  BY <1>2, <1>3, <1>4, <1>5, <1>6, <1>7 DEF Restart, ReadLoopsOK, RecoveryOK, IInv, TypeOK
<1>9. MapOK'
  BY <1>4 DEF Restart, IInv, MapOK, Created
<1>10. WritersOK'
  BY <1>2, <1>3, WmIdleOK DEF Restart, IInv, WritersOK, Created
<1>11. WireOK(wire)' /\ ReadLoopsOK(rl)' /\ (\A x \in Objects : SessionOK(ses[x]))'
  BY <1>2, <1>5 DEF Restart, IInv, WireOK, ReadLoopsOK, RlOK, SessionOK
<1> QED BY <1>8, <1>9, <1>10, <1>11 DEF IInv

-----------------------------------------------------------------------------
(* The theorems *)

\* Every step preserves the invariant.
LEMMA NextIInv ==
    ASSUME IInv, [Next]_vars PROVE IInv'
<1>1. CASE UNCHANGED vars
  <2>1. /\ ses' = ses /\ cur' = cur /\ gen' = gen /\ wire' = wire /\ rl' = rl /\ wm' = wm
        /\ cache' = cache /\ lost' = lost /\ pending' = pending /\ sent' = sent
        /\ faults' = faults
    BY <1>1 DEF vars
  <2>2. WireOK(wire') /\ RecoveryOK' /\ faults' \in FaultCounts
    BY <2>1 DEF IInv, TypeOK, RecoveryOK
  <2> QED BY <2>1, <2>2, QuietStep
<1>2. ASSUME NEW h \in Hosts, NEW p \in Hosts, WriteStart(h, p) \/ WriteStep(h, p)
      PROVE  IInv'
  <2>1. CASE WriteHandshake(h, p)
    <3>1. wm[h][p].o \in Objects
      BY <2>1 DEF WriteHandshake, IInv, WritersOK, Created
    <3> QED BY <2>1, <3>1, StartHandshakeIInv DEF WriteHandshake
  <2> QED BY <1>2, <2>1, WriteStartIInv, WriteReadyIInv, WriteSendIInv, WriteTerminateIInv,
             WriteDeleteIInv DEF WriteStep
<1>3. ASSUME NEW o \in Objects, HandshakeStep(o) PROVE IInv'
  BY <1>3, StartHandshakeIInv, HandshakeClosedIInv, ReadHelloIInv, ReadKxmIInv,
     SwitchOutIInv, ReadFinishedIInv DEF HandshakeStep, PassiveHandshake
<1>4. ASSUME NEW o \in Objects, RequestStep(o) PROVE IInv'
  BY <1>4, RequestLostIInv, RequestLostTokenIInv, RequestLostGiveUpIInv DEF RequestStep
<1>5. ASSUME NEW h \in Hosts, ReadLoopStep(h) PROVE IInv'
  BY <1>5, ReceiveIInv, RlStoreIInv, RlDeleteIInv, RlChangeCipherSpecIInv, RlAwaitIInv
     DEF ReadLoopStep
<1> QED BY <1>1, <1>2, <1>3, <1>4, <1>5, RlAwaitTimeoutIInv, RestartIInv, ExpireLostIInv,
           RelayDropIInv DEF Next

\* Every reachable state of the session layer satisfies the inductive
\* invariant, for every set of hosts and every bound.
THEOREM Invariance == Spec => []IInv
<1>1. Init => IInv
  BY InitIInv
<1>2. IInv /\ [Next]_vars => IInv'
  BY NextIInv
<1> QED BY <1>1, <1>2, PTL DEF Spec

\* The state of Conn and its sessions keeps its shape.
THEOREM TypeCorrectness == Spec => []TypeOK
<1>1. IInv => TypeOK
  BY DEF IInv
<1> QED BY <1>1, Invariance, PTL

\* writeRecordLocked never puts application data or a recovery control frame
\* on the wire in the clear.
THEOREM Confidentiality == Spec => []NoPlaintextData
<1>1. IInv => NoPlaintextData
  BY DEF IInv, WireOK, NoPlaintextData
<1> QED BY <1>1, Invariance, PTL

=============================================================================
