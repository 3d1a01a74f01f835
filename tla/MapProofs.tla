----------------------------- MODULE MapProofs -----------------------------
(***************************************************************************)
(* A closed session does not stay in the sessions map, for every set of    *)
(* hosts and every bound.                                                  *)
(*                                                                         *)
(* The goroutine that closes a session goes on to delete it.  What could   *)
(* still leave a closed session behind is an entry that gets one from      *)
(* somewhere else; but LoadOrStore and Store only put fresh sessions in    *)
(* the map, and a session that was not created yet was not closed.         *)
(***************************************************************************)
EXTENDS SessionLayerProofs

\* A goroutine is on its way to the Delete of the entry of b in a's map.
Deleting(a, b) == wm[a][b].pc = "delete" \/ (rl[a].pc = "delete" /\ rl[a].o[2] = b)

\* Only a session that was created can be closed.
ClosedIsCreated == \A x \in Objects : ses[x].done => Created(gen, x, x[1], x[2])

\* The readLoop has a session that was created.
InHandIsCreated == \A a \in Hosts : rl[a].pc # "idle" => Created(gen, rl[a].o, a, rl[a].o[2])

MapInv == ClosedIsCreated /\ InHandIsCreated /\ ClosedSessionLeavesMap

\* What a step must do for the map to stay in order: whoever closes a session
\* will delete it, nobody drops a Delete, and an entry gets open sessions only.
MapStep ==
    /\ \A x \in Objects : ses'[x].done /\ ~ses[x].done =>
          /\ Created(gen', x, x[1], x[2])
          /\ cur'[x[1]][x[2]] = x => Deleting(x[1], x[2])'
    /\ \A x \in Objects : \A a, b \in Hosts : Created(gen, x, a, b) => Created(gen', x, a, b)
    /\ \A a, b \in Hosts : Deleting(a, b) => Deleting(a, b)' \/ cur'[a][b] = Nil
    /\ \A a, b \in Hosts :
          cur'[a][b] # cur[a][b] => cur'[a][b] = Nil \/ ~ses[cur'[a][b]].done
    /\ InHandIsCreated'

LEMMA MapStepKeeps == ASSUME IInv, IInv', MapInv, MapStep PROVE MapInv'
<1>1. ClosedIsCreated'
  <2> SUFFICES ASSUME NEW x \in Objects, ses'[x].done PROVE Created(gen', x, x[1], x[2])
    BY DEF ClosedIsCreated
  <2>1. x[1] \in Hosts /\ x[2] \in Hosts
    BY ObjectFields
  <2>2. CASE ses[x].done
    BY <2>1, <2>2, Zenon DEF MapInv, ClosedIsCreated, MapStep
  <2>3. CASE ~ses[x].done
    BY <2>3, Zenon DEF MapStep
  <2> QED BY <2>2, <2>3
<1>2. ClosedSessionLeavesMap'
  <2> SUFFICES ASSUME NEW a \in Hosts, NEW b \in Hosts, cur'[a][b] # Nil, ses'[cur'[a][b]].done
               PROVE  Deleting(a, b)'
    BY DEF ClosedSessionLeavesMap, Deleting
  <2>1. cur'[a][b] \in Objects /\ cur'[a][b][1] = a /\ cur'[a][b][2] = b
    <3>1. MapOK'
      BY DEF IInv
    <3> QED BY <3>1 DEF MapOK, Created
  <2>2. CASE ses[cur'[a][b]].done
    <3>1. cur'[a][b] = cur[a][b]
      BY <2>2, Zenon DEF MapStep
    <3>2. Deleting(a, b)
      BY <2>2, <3>1 DEF MapInv, ClosedSessionLeavesMap, Deleting
    <3> QED BY <3>2, Zenon DEF MapStep
  <2>3. CASE ~ses[cur'[a][b]].done
    BY <2>1, <2>3, Zenon DEF MapStep
  <2> QED BY <2>2, <2>3
<1> QED BY <1>1, <1>2 DEF MapInv, MapStep

LEMMA InitMapInv == Init => MapInv
<1> SUFFICES ASSUME Init PROVE MapInv
  OBVIOUS
<1>1. \A x \in Objects : ~ses[x].done
  BY DEF Init, Unused, NewSession
<1>2. \A a \in Hosts : rl[a].pc = "idle"
  BY DEF Init, RlIdle, RlAt
<1>3. \A a, b \in Hosts : cur[a][b] = Nil
  BY DEF Init
<1> QED BY <1>1, <1>2, <1>3 DEF MapInv, ClosedIsCreated, InHandIsCreated, ClosedSessionLeavesMap

-----------------------------------------------------------------------------
(* The steps of a readLoop *)

\* An entry of the map changes to nothing or to an open session.
EntriesOpen ==
    \A a, b \in Hosts : cur'[a][b] # cur[a][b] => cur'[a][b] = Nil \/ ~ses[cur'[a][b]].done

\* Created sessions stay created.
StillCreated ==
    \A x \in Objects : \A a, b \in Hosts : Created(gen, x, a, b) => Created(gen', x, a, b)

\* The readLoop of h has dealt with session o, in state s before: if it closed
\* it, it goes on to the Delete or has emptied the entry.
Outcome(h, o, s) ==
    \E t, r :
        /\ ses' = [ses EXCEPT ![o] = t]
        /\ rl' = [rl EXCEPT ![h] = r]
        /\ r.pc # "idle" => r.o = o
        /\ t.done => s.done \/ r.pc = "delete" \/ cur'[h][o[2]] = Nil

LEMMA ReadLoopMap ==
    ASSUME IInv, MapInv, NEW h \in Hosts, NEW o \in Objects, o[1] = h,
           Created(gen', o, h, o[2]), StillCreated, EntriesOpen, wm' = wm,
           rl[h].pc # "delete", NEW s, Outcome(h, o, s), s.done => ses[o].done
    PROVE  MapStep
<1>0. o[2] \in Hosts
  BY ObjectFields
<1>1. PICK t, r :
        /\ ses' = [ses EXCEPT ![o] = t]
        /\ rl' = [rl EXCEPT ![h] = r]
        /\ r.pc # "idle" => r.o = o
        /\ t.done => s.done \/ r.pc = "delete" \/ cur'[h][o[2]] = Nil
  BY DEF Outcome
<1>2. /\ \A x \in Objects : x # o => ses'[x] = ses[x]
      /\ ses'[o] = t
  BY <1>1, Types
<1>3. /\ \A a \in Hosts : a # h => rl'[a] = rl[a]
      /\ rl'[h] = r
  BY <1>1 DEF IInv, TypeOK
<1>4. ASSUME NEW x \in Objects, ses'[x].done, ~ses[x].done
      PROVE  Created(gen', x, x[1], x[2]) /\ (cur'[x[1]][x[2]] = x => Deleting(x[1], x[2])')
  <2>1. x = o
    BY <1>2, <1>4
  <2>2. r.pc = "delete" \/ cur'[h][o[2]] = Nil
    BY <1>1, <1>2, <1>4, <2>1
  <2>3. o # Nil
    BY ObjectFields
  <2>4. CASE r.pc = "delete"
    <3>1. Deleting(h, o[2])'
      BY <1>1, <1>3, <2>4 DEF Deleting
    <3> QED BY <3>1, <2>1
  <2>5. CASE cur'[h][o[2]] = Nil
    BY <2>1, <2>3, <2>5
  <2> QED BY <2>2, <2>4, <2>5
<1>5. ASSUME NEW a \in Hosts, NEW b \in Hosts, Deleting(a, b)
      PROVE  Deleting(a, b)'
  BY <1>3, <1>5 DEF Deleting
<1>6. InHandIsCreated'
  <2> SUFFICES ASSUME NEW a \in Hosts, rl'[a].pc # "idle"
               PROVE  Created(gen', rl'[a].o, a, rl'[a].o[2])
    BY DEF InHandIsCreated
  <2>1. CASE a = h
    BY <2>1, <1>1, <1>3
  <2>2. CASE a # h
    <3>1. rl'[a] = rl[a] /\ RlOK(a, rl[a])
      BY <2>2, <1>3 DEF IInv, ReadLoopsOK
    <3>2. rl[a].o \in Objects /\ rl[a].o[2] \in Hosts
      BY <3>1, ObjectFields DEF RlOK
    <3>3. Created(gen, rl[a].o, a, rl[a].o[2])
      BY <3>1 DEF MapInv, InHandIsCreated
    <3>4. Created(gen', rl[a].o, a, rl[a].o[2])
      BY <3>2, <3>3, Zenon DEF StillCreated
    <3> QED BY <3>1, <3>4
  <2> QED BY <2>1, <2>2
<1> QED BY <1>4, <1>5, <1>6 DEF MapStep, StillCreated, EntriesOpen

\* terminateSession on the readLoop is on its way to the Delete.
LEMMA TerminateOutcome ==
    ASSUME NEW h, NEW o, NEW s, NEW w, NEW x, RlTerminate(h, o, s, w)
    PROVE  Outcome(h, o, x)
<1> DEFINE t == Closed(AfterSeal(s))
<1> DEFINE r == RlAt("delete", o, Nil)
<1>1. ses' = [ses EXCEPT ![o] = t] /\ rl' = [rl EXCEPT ![h] = r]
  BY DEF RlTerminate
<1>2. r.pc = "delete" /\ r.o = o
  BY DEF RlAt
<1> HIDE DEF t, r
<1> QED BY <1>1, <1>2 DEF Outcome

\* A readLoop that does not close the session.
LEMMA KeepsOutcome ==
    ASSUME NEW h, NEW o, NEW s, NEW t, NEW r, ses' = [ses EXCEPT ![o] = t],
           rl' = [rl EXCEPT ![h] = r], r.pc # "idle" => r.o = o, t.done => s.done
    PROVE  Outcome(h, o, s)
BY DEF Outcome

\* handleSecureControl does not close the session.
LEMMA ControlOutcome ==
    ASSUME NEW h, NEW p, NEW o, NEW s \in Sessions, NEW pay, NEW w, NEW r,
           HandleControl(h, p, o, s, pay, w), rl' = [rl EXCEPT ![h] = r],
           r.pc # "idle" => r.o = o
    PROVE  Outcome(h, o, s)
<1>1. CASE ses' = [ses EXCEPT ![o] = AfterSeal(s)]
  <2>1. AfterSeal(s).done = s.done
    BY DEF AfterSeal, Sessions
  <2> QED BY <1>1, <2>1, KeepsOutcome
<1>2. CASE ses' = [ses EXCEPT ![o] = s]
  BY <1>2, KeepsOutcome
<1> QED BY <1>1, <1>2 DEF HandleControl

\* Every branch of the switch over the record type that closes the session
\* goes on to the Delete.
LEMMA DispatchOutcome ==
    ASSUME IInv, NEW h \in Hosts, NEW p, NEW o, NEW s \in Sessions, NEW rec, NEW w,
           rl[h].pc = "idle", Dispatch(h, p, o, s, rec, w)
    PROVE  Outcome(h, o, s)
<1>0. rl' = rl => rl' = [rl EXCEPT ![h] = rl[h]]
  BY DEF IInv, TypeOK
<1>1. CASE ses' = [ses EXCEPT ![o] = Closed(s)] /\ rl' = [rl EXCEPT ![h] = RlAt("delete", o, Nil)]
  <2> DEFINE t == Closed(s)
  <2> DEFINE r == RlAt("delete", o, Nil)
  <2>1. ses' = [ses EXCEPT ![o] = t] /\ rl' = [rl EXCEPT ![h] = r]
    BY <1>1
  <2>2. r.pc = "delete" /\ r.o = o
    BY DEF RlAt
  <2> HIDE DEF t, r
  <2> QED BY <2>1, <2>2 DEF Outcome
<1>2. CASE ses' = [ses EXCEPT ![o] = s] /\ rl' = rl
  BY <1>0, <1>2, KeepsOutcome
<1>3. CASE HandleControl(h, p, o, s, rec.pay, w) /\ rl' = rl
  BY <1>0, <1>3, ControlOutcome
<1>4. CASE ses' = [ses EXCEPT ![o] = s] /\ rl' = [rl EXCEPT ![h] = RlAt("await", o, rec)]
  <2>1. RlAt("await", o, rec).o = o
    BY DEF RlAt
  <2> QED BY <1>4, <2>1, KeepsOutcome
<1>5. CASE ses' = [ses EXCEPT ![o] = [s EXCEPT !.chan = Append(@, rec.pay.msg)]] /\ rl' = rl
  <2> DEFINE t == [s EXCEPT !.chan = Append(@, rec.pay.msg)]
  <2>1. t.done = s.done
    BY DEF Sessions
  <2>2. ses' = [ses EXCEPT ![o] = t]
    BY <1>5
  <2> HIDE DEF t
  <2> QED BY <1>0, <1>5, <2>1, <2>2, KeepsOutcome
<1>6. CASE RlTerminate(h, o, s, w)
  BY <1>6, TerminateOutcome
<1>7. CASE ses' = [ses EXCEPT ![o] = SwitchIn(s)] /\ rl' = rl
  <2>1. SwitchIn(s).done = s.done
    BY DEF SwitchIn, Sessions
  <2> QED BY <1>0, <1>7, <2>1, KeepsOutcome
<1>8. CASE ses' = [ses EXCEPT ![o] = s] /\ rl' = [rl EXCEPT ![h] = RlAt("ccs", o, Nil)]
  <2>1. RlAt("ccs", o, Nil).o = o
    BY DEF RlAt
  <2> QED BY <1>8, <2>1, KeepsOutcome
<1> QED BY <1>1, <1>2, <1>3, <1>4, <1>5, <1>6, <1>7, <1>8 DEF Dispatch

\* A session that was not created yet is not closed.
LEMMA FreshIsOpen ==
    ASSUME IInv, MapInv, NEW o \in Objects, o[3] > gen[o[1]][o[2]]
    PROVE  ~ses[o].done
<1>1. o[1] \in Hosts /\ o[2] \in Hosts /\ o[3] \in 1..MaxGen
  BY ObjectFields
<1>2. o[3] \in Nat /\ gen[o[1]][o[2]] \in Nat
  BY <1>1, Types
<1>3. ~Created(gen, o, o[1], o[2])
  BY <1>2 DEF Created
<1> QED BY <1>3 DEF MapInv, ClosedIsCreated

\* LoadOrStore leaves an entry as it is or fills it with an open session.
LEMMA EntryIsOpen ==
    ASSUME IInv, MapInv, NEW h \in Hosts, NEW p \in Hosts, h # p, CanCreate(h, p),
           gen' = GenAfter(h, p),
           cur' = [cur EXCEPT ![h][p] = Nil] \/ cur' = [cur EXCEPT ![h][p] = Entry(h, p)]
    PROVE  EntriesOpen
<1> DEFINE o == Entry(h, p)
<1>1. /\ o \in Objects /\ o[1] = h /\ o[2] = p
      /\ cur[h][p] # Nil => o = cur[h][p]
      /\ cur[h][p] = Nil => o[3] > gen[h][p]
  BY EntryOK
<1> HIDE DEF o
<1>2. cur[h][p] = Nil => ~ses[o].done
  BY <1>1, FreshIsOpen
<1>3. \A a, b \in Hosts : cur'[a][b] = cur[a][b] \/ (a = h /\ b = p /\ cur'[a][b] \in {Nil, o})
  BY Types DEF o
<1> QED BY <1>1, <1>2, <1>3 DEF EntriesOpen

LEMMA GenStillCreated ==
    ASSUME IInv, NEW h \in Hosts, NEW p \in Hosts, gen' = GenAfter(h, p), CanCreate(h, p)
    PROVE  StillCreated
BY StaysCreated DEF StillCreated

\* Receive: every way a record closes its session leads to the Delete.
LEMMA ReceiveMap ==
    ASSUME IInv, MapInv, NEW h \in Hosts, NEW p \in Hosts, Receive(h, p)
    PROVE  MapStep
<1> DEFINE o == Entry(h, p)
<1> DEFINE s == IF cur[h][p] = Nil THEN NewSession(TRUE) ELSE ses[o]
<1> DEFINE rec == Head(wire[p][h])
<1> DEFINE w == Pop(wire, h, p)
<1> DEFINE opened == [s EXCEPT !.inSeq = @ + 1]
<1>1. /\ h # p /\ CanCreate(h, p) /\ gen' = GenAfter(h, p) /\ wm' = wm /\ rl[h].pc = "idle"
  BY DEF Receive
<1>2. /\ Created(gen', o, h, o[2]) /\ o \in Objects /\ o[1] = h /\ o[2] = p
  BY <1>1, EntryOK
<1>3. EntriesOpen
  <2>1. cur' = [cur EXCEPT ![h][p] = Nil] \/ cur' = [cur EXCEPT ![h][p] = Entry(h, p)]
    BY DEF Receive
  <2> QED BY <2>1, <1>1, EntryIsOpen
<1>4. StillCreated
  BY <1>1, GenStillCreated
<1>5. s \in Sessions /\ (s.done => ses[o].done)
  <2>1. NewSession(TRUE) \in Sessions /\ ~NewSession(TRUE).done
    BY NewSessionOK DEF SessionOK, NewSession
  <2>2. ses[o] \in Sessions
    BY <1>2, Types
  <2> QED BY <2>1, <2>2
<1>6. opened \in Sessions /\ opened.done = s.done
  <2> HIDE DEF s
  <2> QED BY <1>5 DEF Sessions
<1>7. Outcome(h, o, s)
  <2>0. rl' = rl => rl' = [rl EXCEPT ![h] = rl[h]]
    BY DEF IInv, TypeOK
  <2> HIDE DEF o, s, w
  <2>1. CASE /\ ses' = [ses EXCEPT ![o] = Closed(s)] /\ cur' = [cur EXCEPT ![h][p] = Nil]
             /\ rl' = [rl EXCEPT ![h] = RlAt("store", o, rec)]
    <3>1. cur'[h][o[2]] = Nil
      BY <2>1, <1>2, Types
    <3>2. RlAt("store", o, rec).o = o
      BY DEF RlAt
    <3> QED BY <2>1, <3>1, <3>2 DEF Outcome
  <2>2. CASE RlTerminate(h, o, s, w) \/ RlTerminate(h, o, opened, w)
    BY <2>2, TerminateOutcome
  <2>3. CASE MarkLost(h, p, o, opened, RefOf(rec)) /\ rl' = rl
    <3> HIDE DEF opened
    <3> DEFINE t == [opened EXCEPT !.asking = @ \union {RefOf(rec)}]
    <3>1. ses' = [ses EXCEPT ![o] = t]
      BY <2>3 DEF MarkLost
    <3>2. t.done = s.done
      BY <1>6 DEF Sessions
    <3> HIDE DEF t
    <3> QED BY <1>1, <2>0, <2>3, <3>1, <3>2, KeepsOutcome
  <2>4. CASE Dispatch(h, p, o, opened, rec, w)
    <3> HIDE DEF opened, rec
    <3>1. Outcome(h, o, opened)
      BY <1>1, <1>6, <2>4, DispatchOutcome
    <3> QED BY <1>6, <3>1 DEF Outcome
  <2> QED BY <2>1, <2>2, <2>3, <2>4 DEF Receive, o, s, w
<1> HIDE DEF o, s
<1> QED BY <1>1, <1>2, <1>3, <1>4, <1>5, <1>7, ReadLoopMap

\* A readLoop in the middle of a record: the map stays as it is.
LEMMA InHandMap ==
    ASSUME IInv, MapInv, NEW h \in Hosts, rl[h].pc \notin {"idle", "delete"},
           UNCHANGED <<cur, gen, wm>>, Outcome(h, rl[h].o, ses[rl[h].o])
    PROVE  MapStep
<1> DEFINE o == rl[h].o
<1>1. o \in Objects /\ o[1] = h
  <2>1. RlOK(h, rl[h])
    BY DEF IInv, ReadLoopsOK
  <2> QED BY <2>1 DEF RlOK
<1>2. Created(gen', o, h, o[2])
  BY DEF MapInv, InHandIsCreated
<1>3. StillCreated /\ EntriesOpen
  BY DEF StillCreated, EntriesOpen
<1>4. Outcome(h, o, ses[o])
  OBVIOUS
<1> HIDE DEF o
<1> QED BY <1>1, <1>2, <1>3, <1>4, ReadLoopMap

LEMMA RlChangeCipherSpecMap ==
    ASSUME IInv, MapInv, NEW h \in Hosts, RlChangeCipherSpec(h)
    PROVE  MapStep
<1> DEFINE o == rl[h].o
<1> DEFINE taken == [ses[o] EXCEPT !.inReady = FALSE]
<1>1. rl[h].pc = "ccs" /\ UNCHANGED <<cur, gen, wm>>
  BY DEF RlChangeCipherSpec
<1>2. ses[o] \in Sessions
  <2>1. RlOK(h, rl[h])
    BY DEF IInv, ReadLoopsOK
  <2> QED BY <1>1, <2>1, Types DEF RlOK
<1>3. Outcome(h, o, ses[o])
  <2>1. CASE RlTerminate(h, o, taken, wire) \/ RlTerminate(h, o, ses[o], wire)
    BY <2>1, TerminateOutcome
  <2>2. CASE ses' = [ses EXCEPT ![o] = SwitchIn(taken)] /\ rl' = [rl EXCEPT ![h] = RlIdle]
    <3>1. SwitchIn(taken).done = ses[o].done
      BY <1>2 DEF SwitchIn, Sessions
    <3>2. RlIdle.pc = "idle"
      BY DEF RlIdle, RlAt
    <3> QED BY <2>2, <3>1, <3>2, KeepsOutcome
  <2> QED BY <2>1, <2>2 DEF RlChangeCipherSpec
<1> QED BY <1>1, <1>3, InHandMap

LEMMA RlAwaitMap ==
    ASSUME IInv, MapInv, NEW h \in Hosts, RlAwait(h) \/ RlAwaitTimeout(h)
    PROVE  MapStep
<1> DEFINE o == rl[h].o
<1> DEFINE s == [ses[o] EXCEPT !.token = FALSE]
<1>1. rl[h].pc = "await" /\ UNCHANGED <<cur, gen, wm>>
  BY DEF RlAwait, RlAwaitTimeout
<1>2. o \in Objects /\ ses[o] \in Sessions
  <2>1. RlOK(h, rl[h])
    BY DEF IInv, ReadLoopsOK
  <2> QED BY <1>1, <2>1, Types DEF RlOK
<1>3. s \in Sessions /\ s.done = ses[o].done
  BY <1>2 DEF Sessions
<1>4. RlIdle.pc = "idle"
  BY DEF RlIdle, RlAt
<1>5. Outcome(h, o, ses[o])
  <2>1. CASE ses' = [ses EXCEPT ![o] = s] /\ rl' = [rl EXCEPT ![h] = RlIdle]
    <3> HIDE DEF s
    <3> QED BY <1>3, <1>4, <2>1, KeepsOutcome
  <2>2. CASE HandleControl(h, o[2], o, s, rl[h].rec.pay, wire) /\ rl' = [rl EXCEPT ![h] = RlIdle]
    <3> HIDE DEF s
    <3>1. Outcome(h, o, s)
      BY <1>3, <1>4, <2>2, ControlOutcome
    <3> QED BY <1>3, <3>1 DEF Outcome
  <2>3. CASE ses' = ses /\ rl' = [rl EXCEPT ![h] = RlIdle]
    <3>1. ses' = [ses EXCEPT ![o] = ses[o]]
      BY <2>3, <1>2, Types
    <3> QED BY <1>4, <2>3, <3>1, KeepsOutcome
  <2>4. CASE RlTerminate(h, o, ses[o], wire)
    BY <2>4, TerminateOutcome
  <2> QED BY <2>1, <2>2, <2>3, <2>4 DEF RlAwait, RlAwaitTimeout
<1> QED BY <1>1, <1>5, InHandMap

LEMMA RlStoreMap ==
    ASSUME IInv, MapInv, NEW h \in Hosts, RlStore(h)
    PROVE  MapStep
<1> DEFINE p == rl[h].o[2]
<1> DEFINE o == <<h, p, gen[h][p] + 1>>
<1> DEFINE s == [NewSession(TRUE) EXCEPT !.chan = <<rl[h].rec.pay.msg>>]
<1>1. rl[h].pc = "store" /\ gen[h][p] < MaxGen /\ gen' = [gen EXCEPT ![h][p] = gen[h][p] + 1]
      /\ cur' = [cur EXCEPT ![h][p] = o] /\ wm' = wm
      /\ ses' = [ses EXCEPT ![o] = s] /\ rl' = [rl EXCEPT ![h] = RlIdle]
  BY DEF RlStore
<1>2. p \in Hosts /\ h # p
  <2>1. RlOK(h, rl[h])
    BY DEF IInv, ReadLoopsOK
  <2> QED BY <1>1, <2>1, ObjectFields DEF RlOK
<1> HIDE DEF p
<1>3. gen \in [Hosts -> [Hosts -> 0..MaxGen]] /\ gen[h][p] \in 0..MaxGen /\ MaxGen \in Nat
  BY <1>2, Types
<1>4. o \in Objects /\ o[1] = h /\ o[2] = p /\ o[3] = gen[h][p] + 1
  BY <1>1, <1>2, <1>3, NextObject
<1>5. ~s.done
  BY DEF NewSession
<1> HIDE DEF o, s
<1>6. ~ses[o].done
  BY <1>3, <1>4, FreshIsOpen
<1>7. \A a, b \in Hosts : gen'[a][b] = IF a = h /\ b = p THEN gen[h][p] + 1 ELSE gen[a][b]
  BY <1>1, <1>2, <1>3
<1>8. StillCreated
  <2>1. \A x \in Objects : x[3] \in Nat
    BY <1>3, ObjectFields
  <2>2. \A a, b \in Hosts : gen[a][b] \in Nat /\ gen'[a][b] \in Nat /\ gen[a][b] <= gen'[a][b]
    BY <1>3, <1>7
  <2>3. ASSUME NEW x \in Objects, NEW a \in Hosts, NEW b \in Hosts, Created(gen, x, a, b)
        PROVE  Created(gen', x, a, b)
    BY <2>1, <2>2, <2>3 DEF Created
  <2> QED BY <2>3 DEF StillCreated
<1>9. Created(gen', o, h, o[2])
  BY <1>2, <1>3, <1>4, <1>7 DEF Created
<1>10. EntriesOpen
  <2>1. \A a, b \in Hosts : cur'[a][b] = cur[a][b] \/ cur'[a][b] = o
    BY <1>1, <1>2, Types
  <2> QED BY <2>1, <1>6 DEF EntriesOpen
<1>11. Outcome(h, o, ses[o])
  <2>1. RlIdle.pc = "idle"
    BY DEF RlIdle, RlAt
  <2> QED BY <1>1, <1>5, <2>1, KeepsOutcome
<1> QED BY <1>1, <1>4, <1>8, <1>9, <1>10, <1>11, ReadLoopMap

LEMMA RlDeleteMap ==
    ASSUME IInv, MapInv, NEW h \in Hosts, RlDelete(h)
    PROVE  MapStep
<1> DEFINE p == rl[h].o[2]
<1>1. rl[h].pc = "delete" /\ cur' = [cur EXCEPT ![h][p] = Nil] /\ rl' = [rl EXCEPT ![h] = RlIdle]
      /\ UNCHANGED <<ses, gen, wm>>
  BY DEF RlDelete
<1>2. p \in Hosts
  <2>1. RlOK(h, rl[h])
    BY DEF IInv, ReadLoopsOK
  <2> QED BY <1>1, <2>1, ObjectFields DEF RlOK
<1> HIDE DEF p
<1>3. \A a, b \in Hosts : cur'[a][b] = IF a = h /\ b = p THEN Nil ELSE cur[a][b]
  BY <1>1, <1>2, Types
<1>4. /\ \A a \in Hosts : a # h => rl'[a] = rl[a]
      /\ rl'[h].pc = "idle"
  BY <1>1 DEF IInv, TypeOK, RlIdle, RlAt
<1>5. ASSUME NEW a \in Hosts, NEW b \in Hosts, Deleting(a, b)
      PROVE  Deleting(a, b)' \/ cur'[a][b] = Nil
  BY <1>1, <1>3, <1>4, <1>5 DEF Deleting, p
<1>6. InHandIsCreated'
  BY <1>1, <1>4 DEF MapInv, InHandIsCreated
<1> QED BY <1>1, <1>3, <1>5, <1>6 DEF MapStep

-----------------------------------------------------------------------------
(* The other steps *)

\* A step of a goroutine that neither closes a session nor touches the map.
LEMMA QuietMap ==
    ASSUME MapInv, UNCHANGED <<cur, gen, wm, rl>>,
           \A x \in Objects : ses'[x].done => ses[x].done
    PROVE  MapStep
<1>1. InHandIsCreated'
  BY DEF MapInv, InHandIsCreated
<1>2. \A a, b \in Hosts : Deleting(a, b) => Deleting(a, b)'
  BY DEF Deleting
<1>3. StillCreated
  BY DEF StillCreated
<1> QED BY <1>1, <1>2, <1>3 DEF MapStep, StillCreated

LEMMA SessionMap ==
    ASSUME IInv, MapInv, UNCHANGED <<cur, gen, wm, rl>>, NEW o \in Objects, NEW t,
           ses' = [ses EXCEPT ![o] = t], t.done = ses[o].done
    PROVE  MapStep
<1>1. \A x \in Objects : ses'[x].done => ses[x].done
  BY Types
<1> QED BY <1>1, QuietMap

LEMMA SealSame ==
    ASSUME NEW s \in Sessions
    PROVE  AfterSeal(s) \in Sessions /\ AfterSeal(s).done = s.done
BY DEF AfterSeal, Sessions

LEMMA StartHandshakeMap ==
    ASSUME IInv, MapInv, NEW o \in Objects, StartHandshake(o) PROVE MapStep
<1> DEFINE a == AfterSeal(ses[o])
<1> DEFINE t == [a EXCEPT !.hs = "waitHello"]
<1>1. ses' = [ses EXCEPT ![o] = t] /\ UNCHANGED <<cur, gen, wm, rl>>
  BY DEF StartHandshake
<1>2. a \in Sessions /\ a.done = ses[o].done
  BY SealSame, Types
<1>3. t.done = a.done
  <2> HIDE DEF a
  <2> QED BY <1>2 DEF Sessions
<1> HIDE DEF t, a
<1> QED BY <1>1, <1>2, <1>3, SessionMap

LEMMA FailHandshakeMap ==
    ASSUME IInv, MapInv, NEW o \in Objects, FailHandshake(o) \/ HandshakeClosed(o),
           UNCHANGED <<cur, gen, wm, rl>>
    PROVE  MapStep
<1>1. ses[o] \in Sessions /\ ses \in [Objects -> Sessions]
  BY Types
<1>2. CASE FailHandshake(o)
  <2> DEFINE t == [ses[o] EXCEPT !.hs = "failed", !.chan = Tail(@)]
  <2>1. ses' = [ses EXCEPT ![o] = t]
    BY <1>1, <1>2 DEF FailHandshake, Sessions
  <2>2. t.done = ses[o].done
    BY <1>1 DEF Sessions
  <2> HIDE DEF t
  <2> QED BY <2>1, <2>2, SessionMap
<1>3. CASE HandshakeClosed(o)
  <2> DEFINE t == [ses[o] EXCEPT !.hs = "failed"]
  <2>1. ses' = [ses EXCEPT ![o] = t]
    BY <1>3 DEF HandshakeClosed
  <2>2. t.done = ses[o].done
    BY <1>1 DEF Sessions
  <2> HIDE DEF t
  <2> QED BY <2>1, <2>2, SessionMap
<1> QED BY <1>2, <1>3

LEMMA ReadHelloMap ==
    ASSUME IInv, MapInv, NEW o \in Objects, ReadHello(o) PROVE MapStep
<1> DEFINE msg == Head(ses[o].chan)
<1> DEFINE a == AfterSeal(ses[o])
<1> DEFINE t == [a EXCEPT !.hs = "waitKxm", !.chan = Tail(ses[o].chan), !.rem = msg.from]
<1>1. UNCHANGED <<cur, gen, wm, rl>>
  BY DEF ReadHello
<1>2. CASE msg.m = "hello"
  <2>1. ses' = [ses EXCEPT ![o] = t]
    BY <1>2 DEF ReadHello
  <2>2. a \in Sessions /\ a.done = ses[o].done
    BY SealSame, Types
  <2>3. t.done = a.done
    <3> HIDE DEF a, msg
    <3> QED BY <2>2 DEF Sessions
  <2> HIDE DEF t, a
  <2> QED BY <1>1, <2>1, <2>2, <2>3, SessionMap
<1>3. CASE msg.m # "hello"
  BY <1>1, <1>3, FailHandshakeMap DEF ReadHello
<1> QED BY <1>2, <1>3

LEMMA ReadKxmMap ==
    ASSUME IInv, MapInv, NEW o \in Objects, ReadKxm(o) PROVE MapStep
<1> DEFINE msg == Head(ses[o].chan)
<1> DEFINE isKxm == msg.m = "kxm"
<1> DEFINE master == Master(o, ses[o].rem, isKxm)
<1> DEFINE log == Transcript(o, ses[o].rem, isKxm)
<1> DEFINE a == AfterSeal(ses[o])
<1> DEFINE t == [Prepared(o, a, master) EXCEPT
                    !.hs = "switchOut", !.chan = Tail(ses[o].chan), !.log = log]
<1>1. UNCHANGED <<cur, gen, wm, rl>>
  BY DEF ReadKxm
<1>2. CASE isKxm => KxmAccepted(o, msg)
  <2>1. ses' = [ses EXCEPT ![o] = t]
    BY <1>2 DEF ReadKxm
  <2>2. a \in Sessions /\ a.done = ses[o].done
    BY SealSame, Types
  <2>3. t.done = a.done
    <3> HIDE DEF a, msg, isKxm, master, log
    <3> QED BY <2>2 DEF Prepared, Sessions
  <2> HIDE DEF t, a
  <2> QED BY <1>1, <2>1, <2>2, <2>3, SessionMap
<1>3. CASE ~(isKxm => KxmAccepted(o, msg))
  BY <1>1, <1>3, FailHandshakeMap DEF ReadKxm
<1> QED BY <1>2, <1>3

LEMMA SwitchOutMap ==
    ASSUME IInv, MapInv, NEW o \in Objects, SwitchOut(o) PROVE MapStep
<1> DEFINE b == [ses[o] EXCEPT !.out = OutKey(o, ses[o].master), !.outSeq = 0]
<1> DEFINE a == AfterSeal(b)
<1> DEFINE t == [a EXCEPT !.hs = "waitFin"]
<1>1. ses' = [ses EXCEPT ![o] = t] /\ UNCHANGED <<cur, gen, wm, rl>> /\ ses[o].hs = "switchOut"
  BY DEF SwitchOut
<1>2. SessionOK(ses[o])
  BY DEF IInv
<1>3. OutKey(o, ses[o].master) \in Keys
  BY <1>1, <1>2 DEF OutKey, Keys, SessionOK
<1>4. b \in Sessions /\ b.done = ses[o].done
  BY <1>2, <1>3 DEF SessionOK, Sessions
<1> HIDE DEF b
<1>5. a \in Sessions /\ a.done = b.done
  BY <1>4, SealSame
<1> HIDE DEF a
<1>6. t.done = a.done
  BY <1>5 DEF Sessions
<1> HIDE DEF t
<1> QED BY <1>1, <1>4, <1>5, <1>6, SessionMap

LEMMA ReadFinishedMap ==
    ASSUME IInv, MapInv, NEW o \in Objects, ReadFinished(o) PROVE MapStep
<1> DEFINE t == [Completed(ses[o]) EXCEPT !.chan = Tail(ses[o].chan)]
<1>1. UNCHANGED <<cur, gen, wm, rl>>
  BY DEF ReadFinished
<1>2. CASE FinishedAccepted(o, Head(ses[o].chan))
  <2>1. ses' = [ses EXCEPT ![o] = t]
    BY <1>2 DEF ReadFinished
  <2>2. ses[o] \in Sessions
    BY Types
  <2>3. t.done = ses[o].done
    BY <2>2 DEF Completed, Sessions
  <2> HIDE DEF t
  <2> QED BY <1>1, <2>1, <2>3, SessionMap
<1>3. CASE ~FinishedAccepted(o, Head(ses[o].chan))
  BY <1>1, <1>3, FailHandshakeMap DEF ReadFinished
<1> QED BY <1>2, <1>3

LEMMA RequestMap ==
    ASSUME IInv, MapInv, NEW o \in Objects, RequestStep(o) PROVE MapStep
<1>1. ses[o] \in Sessions
  BY Types
<1>2. ASSUME NEW ref, RequestLost(o, ref) PROVE MapStep
  <2> DEFINE s == [ses[o] EXCEPT !.asking = @ \ {ref}]
  <2> DEFINE t == [s EXCEPT !.waiting = @ \union {ref}]
  <2>1. s \in Sessions /\ s.done = ses[o].done
    BY <1>1 DEF Sessions
  <2>2. t.done = ses[o].done
    BY <1>1 DEF Sessions
  <2>3. UNCHANGED <<cur, gen, wm, rl>>
    BY <1>2 DEF RequestLost
  <2>4. ses' = [ses EXCEPT ![o] = AfterSeal(s)] \/ ses' = [ses EXCEPT ![o] = t]
    BY <1>2 DEF RequestLost, AskFor
  <2> HIDE DEF s, t
  <2>5. AfterSeal(s).done = s.done
    BY <2>1, SealSame
  <2> QED BY <2>1, <2>2, <2>3, <2>4, <2>5, SessionMap
<1>3. ASSUME NEW ref, RequestLostToken(o, ref) PROVE MapStep
  <2> DEFINE s == [ses[o] EXCEPT !.waiting = @ \ {ref}, !.token = FALSE]
  <2>1. s \in Sessions /\ s.done = ses[o].done
    BY <1>1 DEF Sessions
  <2>2. ses' = [ses EXCEPT ![o] = AfterSeal(s)] /\ UNCHANGED <<cur, gen, wm, rl>>
    BY <1>3 DEF RequestLostToken, AskFor
  <2> HIDE DEF s
  <2>3. AfterSeal(s).done = s.done
    BY <2>1, SealSame
  <2> QED BY <2>1, <2>2, <2>3, SessionMap
<1>4. ASSUME NEW ref, RequestLostGiveUp(o, ref) PROVE MapStep
  <2> DEFINE s == [ses[o] EXCEPT !.waiting = @ \ {ref}]
  <2>1. s.done = ses[o].done
    BY <1>1 DEF Sessions
  <2>2. ses' = [ses EXCEPT ![o] = s] /\ UNCHANGED <<cur, gen, wm, rl>>
    BY <1>4 DEF RequestLostGiveUp
  <2> HIDE DEF s
  <2> QED BY <2>1, <2>2, SessionMap
<1> QED BY <1>2, <1>3, <1>4 DEF RequestStep

LEMMA HandshakeMap ==
    ASSUME IInv, MapInv, NEW o \in Objects, HandshakeStep(o) PROVE MapStep
<1>1. CASE PassiveHandshake(o)
  BY <1>1, StartHandshakeMap DEF PassiveHandshake
<1>2. CASE HandshakeClosed(o)
  <2>1. UNCHANGED <<cur, gen, wm, rl>>
    BY <1>2 DEF HandshakeClosed
  <2> QED BY <1>2, <2>1, FailHandshakeMap
<1> QED BY <1>1, <1>2, ReadHelloMap, ReadKxmMap, SwitchOutMap, ReadFinishedMap DEF HandshakeStep

\* One WriteMessage caller moves on: a Delete that was due is still due or done.
LEMMA WriterMap ==
    ASSUME IInv, MapInv, NEW h \in Hosts, NEW p \in Hosts, NEW v,
           wm' = [wm EXCEPT ![h][p] = v], rl' = rl, StillCreated, EntriesOpen,
           wm[h][p].pc = "delete" => cur'[h][p] = Nil,
           \A x \in Objects : ses'[x].done /\ ~ses[x].done =>
              Created(gen', x, h, p) /\ v.pc = "delete"
    PROVE  MapStep
<1>1. \A a, b \in Hosts : wm'[a][b] = IF a = h /\ b = p THEN v ELSE wm[a][b]
  BY Types
<1>2. ASSUME NEW a \in Hosts, NEW b \in Hosts, Deleting(a, b)
      PROVE  Deleting(a, b)' \/ cur'[a][b] = Nil
  BY <1>1, <1>2 DEF Deleting
<1>3. InHandIsCreated'
  <2> SUFFICES ASSUME NEW a \in Hosts, rl[a].pc # "idle"
               PROVE  Created(gen', rl[a].o, a, rl[a].o[2])
    BY DEF InHandIsCreated
  <2>1. RlOK(a, rl[a])
    BY DEF IInv, ReadLoopsOK
  <2>2. rl[a].o \in Objects /\ rl[a].o[2] \in Hosts
    BY <2>1, ObjectFields DEF RlOK
  <2>3. Created(gen, rl[a].o, a, rl[a].o[2])
    BY DEF MapInv, InHandIsCreated
  <2> QED BY <2>2, <2>3, Zenon DEF StillCreated
<1>4. ASSUME NEW x \in Objects, ses'[x].done, ~ses[x].done
      PROVE  Created(gen', x, x[1], x[2]) /\ Deleting(x[1], x[2])'
  <2>1. Created(gen', x, h, p) /\ v.pc = "delete"
    BY <1>4
  <2>2. x[1] = h /\ x[2] = p
    BY <2>1 DEF Created
  <2>3. Deleting(h, p)'
    BY <1>1, <2>1 DEF Deleting
  <2> QED BY <2>1, <2>2, <2>3
<1> QED BY <1>2, <1>3, <1>4 DEF MapStep, StillCreated, EntriesOpen

LEMMA WriteMap ==
    ASSUME IInv, MapInv, NEW h \in Hosts, NEW p \in Hosts, WriteStart(h, p) \/ WriteStep(h, p)
    PROVE  MapStep
<1> DEFINE o == wm[h][p].o
<1>0. gen' = gen => StillCreated
  BY DEF StillCreated
<1>1. CASE WriteStart(h, p)
  <2>1. /\ h # p /\ CanCreate(h, p) /\ gen' = GenAfter(h, p) /\ ses' = ses /\ rl' = rl
        /\ wm[h][p].pc = "idle"
        /\ wm' = [wm EXCEPT ![h][p] = WmAt("handshake", Entry(h, p))]
        /\ cur' = [cur EXCEPT ![h][p] = Entry(h, p)]
    BY <1>1 DEF WriteStart
  <2>2. EntriesOpen /\ StillCreated
    BY <2>1, EntryIsOpen, GenStillCreated
  <2> QED BY <2>1, <2>2, WriterMap
<1>2. CASE WriteReady(h, p)
  <2>1. /\ UNCHANGED <<cur, gen, ses, rl>> /\ wm[h][p].pc = "handshake"
        /\ wm' = [wm EXCEPT ![h][p] = WmAt("send", o)]
    BY <1>2 DEF WriteReady
  <2>2. EntriesOpen
    BY <2>1 DEF EntriesOpen
  <2> QED BY <1>0, <2>1, <2>2, WriterMap
<1>3. CASE WriteHandshake(h, p)
  <2>1. o \in Objects /\ StartHandshake(o)
    BY <1>3 DEF WriteHandshake, IInv, WritersOK, Created
  <2> QED BY <2>1, StartHandshakeMap
<1>4. CASE WriteSend(h, p)
  <2>1. /\ UNCHANGED <<cur, gen, rl>> /\ wm[h][p].pc = "send"
        /\ ses' = [ses EXCEPT ![o] = AfterSeal(ses[o])]
        /\ wm' = [wm EXCEPT ![h][p] = WmIdle]
    BY <1>4 DEF WriteSend
  <2>2. o \in Objects /\ ses[o] \in Sessions
    BY <2>1, Types DEF IInv, WritersOK, Created
  <2>3. AfterSeal(ses[o]).done = ses[o].done
    BY <2>2, SealSame
  <2>4. \A x \in Objects : ses'[x].done => ses[x].done
    BY <2>1, <2>2, <2>3, Types
  <2>5. EntriesOpen
    BY <2>1 DEF EntriesOpen
  <2> QED BY <1>0, <2>1, <2>4, <2>5, WriterMap
<1>5. CASE WriteTerminate(h, p)
  <2> DEFINE t == Closed(AfterSeal(ses[o]))
  <2>1. /\ UNCHANGED <<cur, gen, rl>> /\ wm[h][p].pc = "handshake"
        /\ ses' = [ses EXCEPT ![o] = t]
        /\ wm' = [wm EXCEPT ![h][p] = WmAt("delete", o)]
    BY <1>5 DEF WriteTerminate
  <2>2. Created(gen, o, h, p)
    BY <2>1 DEF IInv, WritersOK
  <2> HIDE DEF t, o
  <2>3. \A x \in Objects : x # o => ses'[x] = ses[x]
    BY <2>1, Types
  <2>4. Created(gen', o, h, p) /\ WmAt("delete", o).pc = "delete"
    BY <2>1, <2>2 DEF WmAt
  <2>5. EntriesOpen
    BY <2>1 DEF EntriesOpen
  <2>6. \A x \in Objects : ses'[x].done /\ ~ses[x].done =>
            Created(gen', x, h, p) /\ WmAt("delete", o).pc = "delete"
    BY <2>3, <2>4
  <2> QED BY <1>0, <2>1, <2>5, <2>6, WriterMap
<1>6. CASE WriteDelete(h, p)
  <2>1. /\ UNCHANGED <<ses, gen, rl>> /\ cur' = [cur EXCEPT ![h][p] = Nil]
        /\ wm' = [wm EXCEPT ![h][p] = WmIdle]
    BY <1>6 DEF WriteDelete
  <2>2. \A a, b \in Hosts : cur'[a][b] = IF a = h /\ b = p THEN Nil ELSE cur[a][b]
    BY <2>1, Types
  <2>3. EntriesOpen
    BY <2>2 DEF EntriesOpen
  <2> QED BY <1>0, <2>1, <2>2, <2>3, WriterMap
<1> QED BY <1>1, <1>2, <1>3, <1>4, <1>5, <1>6 DEF WriteStep

\* Restart: the sessions of h are closed, and its map is empty.
LEMMA RestartMap ==
    ASSUME IInv, MapInv, NEW h \in Hosts, Restart(h)
    PROVE  MapStep
<1>1. /\ \A a, b \in Hosts : cur'[a][b] = IF a = h THEN Nil ELSE cur[a][b]
      /\ \A a, b \in Hosts : a # h => wm'[a][b] = wm[a][b]
      /\ \A a \in Hosts : a # h => rl'[a] = rl[a]
      /\ rl'[h].pc = "idle"
      /\ gen' = gen
  BY DEF Restart, IInv, TypeOK, RlIdle, RlAt
<1>2. \A x \in Objects : ses'[x] = ses[x] \/ (x[1] = h /\ x[3] <= gen[h][x[2]])
  BY DEF Restart
<1>3. ASSUME NEW x \in Objects, ses'[x].done, ~ses[x].done
      PROVE  Created(gen', x, x[1], x[2]) /\ cur'[x[1]][x[2]] # x
  <2>1. x[1] = h /\ x[3] <= gen[h][x[2]]
    BY <1>2, <1>3
  <2>2. x[2] \in Hosts /\ x # Nil
    BY ObjectFields
  <2> QED BY <2>1, <2>2, <1>1 DEF Created
<1>4. ASSUME NEW a \in Hosts, NEW b \in Hosts, Deleting(a, b)
      PROVE  Deleting(a, b)' \/ cur'[a][b] = Nil
  BY <1>1, <1>4 DEF Deleting
<1>5. InHandIsCreated'
  BY <1>1 DEF MapInv, InHandIsCreated
<1> QED BY <1>1, <1>3, <1>4, <1>5 DEF MapStep

-----------------------------------------------------------------------------
(* The theorem *)

\* Every step leaves the map in order.
LEMMA NextMap ==
    ASSUME IInv, MapInv, [Next]_vars PROVE MapStep
<1>1. CASE UNCHANGED vars
  <2>1. UNCHANGED <<cur, gen, wm, rl>> /\ ses' = ses
    BY <1>1 DEF vars
  <2> QED BY <2>1, QuietMap
<1>2. ASSUME NEW h \in Hosts, NEW p \in Hosts, NEW ref, ExpireLost(h, p, ref)
      PROVE  MapStep
  <2>1. UNCHANGED <<cur, gen, wm, rl>> /\ ses' = ses
    BY <1>2 DEF ExpireLost
  <2> QED BY <2>1, QuietMap
<1>3. ASSUME NEW h \in Hosts, NEW p \in Hosts, RelayDrop(h, p) PROVE MapStep
  <2>1. UNCHANGED <<cur, gen, wm, rl>> /\ ses' = ses
    BY <1>3 DEF RelayDrop
  <2> QED BY <2>1, QuietMap
<1>4. ASSUME NEW h \in Hosts, ReadLoopStep(h) PROVE MapStep
  BY <1>4, ReceiveMap, RlStoreMap, RlDeleteMap, RlChangeCipherSpecMap, RlAwaitMap DEF ReadLoopStep
<1> QED BY <1>1, <1>2, <1>3, <1>4, WriteMap, HandshakeMap, RequestMap, RlAwaitMap, RestartMap
        DEF Next

\* A closed session is in the sessions map only while the goroutine that
\* closed it, the WriteMessage caller or the readLoop, is on its way to the
\* Delete of terminateSession or closeSessionLocally: whatever the peers send
\* and whichever process restarts, no later message meets a dead entry.
THEOREM ClosedLeaves == Spec => []ClosedSessionLeavesMap
<1>1. Init => IInv /\ MapInv
  BY InitIInv, InitMapInv
<1>2. IInv /\ MapInv /\ [Next]_vars => IInv' /\ MapInv'
  BY NextIInv, NextMap, MapStepKeeps
<1>3. MapInv => ClosedSessionLeavesMap
  BY DEF MapInv
<1> QED BY <1>1, <1>2, <1>3, PTL DEF Spec

=============================================================================
