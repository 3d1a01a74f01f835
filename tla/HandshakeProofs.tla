-------------------------- MODULE HandshakeProofs --------------------------
(***************************************************************************)
(* Two theorems about the handshake, for every set of hosts and every      *)
(* bound.                                                                  *)
(*                                                                         *)
(* KeyAgreement: two sessions that completed it have the same keys,        *)
(* whatever restarts, losses, timeouts and resets came before.             *)
(* readFinished accepts a verify_data only from a session that derived the *)
(* same master secret from the same transcript.  The master secret is made *)
(* of the two sessions' randoms, so the sender is the very session whose   *)
(* Hello was read, and it read this one's; the transcripts tell apart the  *)
(* handshakes that skipped the key exchange.                               *)
(*                                                                         *)
(* Undisturbed: until something goes wrong around them, no session is torn *)
(* down and no handshake fails.  The records of each end are numbered, and *)
(* every queue, handshakeChan and readLoop holds the next of them.         *)
(***************************************************************************)
EXTENDS MapProofs

\* What session s of object o has derived comes from its own random, the one
\* it read and the messages it read; the ciphers come from its master secret;
\* a Finished gets to it only under the cipher of its peer.
KeysOK(o, s) ==
    /\ s.master # Nil =>
          /\ s.rem \in Objects
          /\ s.master = Master(o, s.rem, s.master.pre)
          /\ s.log = Transcript(o, s.rem, s.master.pre)
    /\ s.hs \in {"new", "waitHello", "waitKxm"} => s.master = Nil
    /\ s.hs \in {"switchOut", "waitFin", "ok"} => s.master # Nil
    /\ s.hs \in {"waitFin", "ok"} => s.out = OutKey(o, s.master)
    /\ s.inNext # Nil => s.master # Nil /\ s.inNext = InKey(o, s.master)
    /\ s.in # Nil => s.master # Nil /\ s.in = InKey(o, s.master)
    /\ s.complete => s.hs = "ok" /\ s.in # Nil
    /\ \A i \in DOMAIN s.chan : s.chan[i].m = "fin" => s.in # Nil

\* The Finished m was made by a session of the host it names.
Made(S, m) ==
    \E x \in Objects : /\ x[1] = m.by
                       /\ S[x].master # Nil
                       /\ S[x].master = m.master
                       /\ S[x].log = m.log

\* Nothing was derived in a session that was not created, and no handshake
\* runs there.
Fresh(s) == s.hs = "new" /\ ~s.passive /\ s.master = Nil
UncreatedFresh == \A x \in Objects : Created(gen, x, x[1], x[2]) \/ Fresh(ses[x])

\* Every Finished in flight is sealed and was made by a session ...
FinMade(S, rec) ==
    rec.pay.typ = "hs" /\ rec.pay.msg.m = "fin" => rec.key # Nil /\ Made(S, rec.pay.msg)
WireMade(S, w) == \A a, b \in Hosts : \A i \in DOMAIN w[a][b] : FinMade(S, w[a][b][i])

\* ... and so was every one in a handshakeChan.
ChanMade(S, c) == \A i \in DOMAIN c : c[i].m = "fin" => Made(S, c[i])

\* The reset on a plaintext Hello has a Hello in hand.
StoresHello == \A h \in Hosts : rl[h].pc = "store" => rl[h].rec.pay.msg.m = "hello"

\* What relates the sessions, their channels and the wire.
KeyInv ==
    /\ \A x \in Objects : KeysOK(x, ses[x]) /\ ChanMade(ses, ses[x].chan)
    /\ UncreatedFresh
    /\ WireMade(ses, wire)
    /\ StoresHello
    /\ AgreedKeys

-----------------------------------------------------------------------------
(* Master secrets and transcripts *)

\* A master secret tells its parts.
LEMMA MasterFields ==
    ASSUME NEW o, NEW r, NEW b
    PROVE  /\ Master(o, r, b).pre = b
           /\ IsInitiator(o) => Master(o, r, b).init = o /\ Master(o, r, b).resp = r
           /\ ~IsInitiator(o) => Master(o, r, b).resp = o /\ Master(o, r, b).init = r
BY DEF Master

\* Without a remote key exchange the initiator has its own in the transcript,
\* the responder has none.
LEMMA TranscriptsDiffer ==
    ASSUME NEW o, NEW r, NEW x, NEW y, IsInitiator(o), ~IsInitiator(x)
    PROVE  Transcript(o, r, FALSE) # Transcript(x, y, FALSE)
<1> DEFINE a == Transcript(o, r, FALSE)
<1> DEFINE b == Transcript(x, y, FALSE)
<1>1. a = <<HelloEntry(o), HelloEntry(r), KxmEntry(o)>>
  BY DEF Transcript
<1>2. b = <<HelloEntry(y), HelloEntry(x)>>
  BY DEF Transcript
<1> HIDE DEF a, b
<1>3. Len(a) = 3 /\ Len(b) = 2
  BY <1>1, <1>2
<1>4. a # b
  BY <1>3
<1> QED BY <1>4 DEF a, b

\* Two sessions of the two hosts with one master secret and one transcript
\* read each other's Hello and each other's key exchange.
LEMMA SameMasterAgrees ==
    ASSUME NEW o \in Objects, NEW s \in Sessions, KeysOK(o, s), s.master # Nil,
           NEW x \in Objects, NEW t \in Sessions, KeysOK(x, t), t.master # Nil,
           x[1] = o[2], t.master = s.master, t.log = s.log
    PROVE  s.rem = x /\ t.rem = o /\ s.master.pre
<1>0. o # x
  BY ObjectFields
<1>1. s.master.pre \in BOOLEAN
  BY DEF Sessions, Masters
<1>2. s.master = Master(o, s.rem, s.master.pre) /\ s.master = Master(x, t.rem, s.master.pre)
  BY DEF KeysOK
<1>3. IsInitiator(o) <=> ~IsInitiator(x)
  BY <1>0, <1>2, MasterFields
<1>4. s.rem = x /\ t.rem = o
  BY <1>2, <1>3, MasterFields
<1>5. s.log = Transcript(o, x, s.master.pre) /\ s.log = Transcript(x, o, s.master.pre)
  BY <1>4 DEF KeysOK
<1>6. s.master.pre # FALSE
  BY <1>3, <1>5, TranscriptsDiffer
<1> QED BY <1>1, <1>4, <1>6

-----------------------------------------------------------------------------
(* What a step may do to the sessions *)

\* Once derived, the master secret and what it was derived from stay.
Stable(s, t) ==
    s.master # Nil => t.master = s.master /\ t.log = s.log /\ t.rem = s.rem

\* The session o and the one whose Hello it read agree.
Agreed(S, o) ==
    /\ S[o].master.pre
    /\ S[S[o].rem].master = S[o].master
    /\ S[S[o].rem].rem = o

\* What a session made stays made ...
LEMMA MadeStays ==
    ASSUME NEW S, NEW T, NEW m, Made(S, m), \A x \in Objects : Stable(S[x], T[x])
    PROVE  Made(T, m)
BY DEF Made, Stable

\* ... also for the records in flight.
LEMMA WireMadeStays ==
    ASSUME NEW S, NEW T, NEW w, WireMade(S, w), \A x \in Objects : Stable(S[x], T[x])
    PROVE  WireMade(T, w)
BY MadeStays DEF WireMade, FinMade

\* What a step must show of every session.
LEMMA KeyStep ==
    ASSUME KeyInv,
           \A x \in Objects : /\ KeysOK(x, ses'[x])
                              /\ Stable(ses[x], ses'[x])
                              /\ ChanMade(ses, ses'[x].chan)
                              /\ ses'[x].complete => ses[x].complete \/ Agreed(ses', x),
           WireMade(ses, wire'), UncreatedFresh', StoresHello'
    PROVE  KeyInv'
<1>1. WireMade(ses', wire')
  BY WireMadeStays
<1>2. \A x \in Objects : ChanMade(ses', ses'[x].chan)
  BY MadeStays DEF ChanMade
<1>3. ASSUME NEW x \in Objects, ses'[x].complete PROVE Agreed(ses', x)
  <2>1. CASE ses[x].complete
    <3>1. Agreed(ses, x)
      BY <2>1 DEF KeyInv, AgreedKeys, Agreed
    <3>2. KeysOK(x, ses[x])
      BY DEF KeyInv
    <3>3. ses[x].master # Nil /\ ses[x].rem \in Objects
      BY <2>1, <3>2 DEF KeysOK
    <3>4. ses'[x].master = ses[x].master /\ ses'[x].rem = ses[x].rem
      BY <3>3 DEF Stable
    <3>5. ses'[ses[x].rem].master = ses[x].master /\ ses'[ses[x].rem].rem = x
      BY <3>1, <3>3 DEF Agreed, Stable
    <3> QED BY <3>1, <3>4, <3>5 DEF Agreed
  <2>2. CASE ~ses[x].complete
    BY <1>3, <2>2
  <2> QED BY <2>1, <2>2
<1>4. AgreedKeys'
  <2> SUFFICES ASSUME NEW x \in Objects, ses'[x].complete
               PROVE  /\ Agreed(ses', x)
                      /\ ses'[x].out = OutKey(x, ses'[x].master)
                      /\ ses'[x].in = InKey(x, ses'[x].master)
    BY DEF AgreedKeys, Agreed
  <2>1. KeysOK(x, ses'[x])
    OBVIOUS
  <2> QED BY <1>3, <2>1 DEF KeysOK
<1> QED BY <1>1, <1>2, <1>4 DEF KeyInv

\* Session o goes from s to t, and the rest of the sessions stay.
Derived(o, s, t) ==
    /\ KeysOK(o, t)
    /\ Stable(s, t)
    /\ ChanMade(ses, t.chan)
    /\ t.complete => s.complete

\* A step that changes one session.
LEMMA OneSession ==
    ASSUME IInv, KeyInv, NEW o \in Objects, NEW t, ses' = [ses EXCEPT ![o] = t],
           Derived(o, ses[o], t), WireMade(ses, wire'), StillCreated, StoresHello',
           Created(gen', o, o[1], o[2]) \/ (Fresh(ses[o]) => Fresh(t))
    PROVE  KeyInv'
<1>1. ses'[o] = t /\ \A x \in Objects : x # o => ses'[x] = ses[x]
  BY Types
<1>2. \A x \in Objects : KeysOK(x, ses[x]) /\ ChanMade(ses, ses[x].chan)
  BY DEF KeyInv
<1>3. \A x \in Objects : /\ KeysOK(x, ses'[x])
                         /\ Stable(ses[x], ses'[x])
                         /\ ChanMade(ses, ses'[x].chan)
                         /\ ses'[x].complete => ses[x].complete
  BY <1>1, <1>2 DEF Derived, Stable
<1>4. UncreatedFresh'
  <2> SUFFICES ASSUME NEW x \in Objects PROVE Created(gen', x, x[1], x[2]) \/ Fresh(ses'[x])
    BY DEF UncreatedFresh
  <2>1. x[1] \in Hosts /\ x[2] \in Hosts
    BY ObjectFields
  <2>2. Created(gen, x, x[1], x[2]) => Created(gen', x, x[1], x[2])
    BY <2>1, Zenon DEF StillCreated
  <2>3. Created(gen, x, x[1], x[2]) \/ Fresh(ses[x])
    BY DEF KeyInv, UncreatedFresh
  <2> QED BY <1>1, <2>2, <2>3
<1> QED BY <1>3, <1>4, KeyStep

-----------------------------------------------------------------------------
(* Records, queues and sessions *)

\* A record joins a queue.
LEMMA SendMade ==
    ASSUME NEW S, NEW w, WireOK(w), WireMade(S, w), NEW o \in Objects, NEW s, SessionOK(s),
           NEW pay \in Payloads,
           pay.typ = "hs" /\ pay.msg.m = "fin" => s.out # Nil /\ Made(S, pay.msg)
    PROVE  WireMade(S, Put(w, o, Sealed(s, pay)))
<1> DEFINE rec == Sealed(s, pay)
<1>1. rec \in Records /\ FinMade(S, rec)
  <2>1. rec \in Records /\ rec.pay = pay /\ rec.key = s.out
    BY SealOK
  <2> HIDE DEF rec
  <2> QED BY <2>1 DEF FinMade
<1> HIDE DEF rec
<1>2. o[1] \in Hosts /\ o[2] \in Hosts /\ w \in [Hosts -> [Hosts -> Seq(Records)]]
  BY ObjectFields DEF WireOK
<1>3. ASSUME NEW a \in Hosts, NEW b \in Hosts, NEW i \in DOMAIN Put(w, o, rec)[a][b]
      PROVE  FinMade(S, Put(w, o, rec)[a][b][i])
  <2>1. CASE a = o[1] /\ b = o[2]
    <3>1. Put(w, o, rec)[a][b] = Append(w[a][b], rec) /\ w[a][b] \in Seq(Records)
      BY <2>1, <1>2 DEF Put
    <3>2. i \in 1..(Len(w[a][b]) + 1)
      BY <3>1, <1>1, <1>3
    <3>3. CASE i = Len(w[a][b]) + 1
      BY <3>1, <3>3, <1>1
    <3>4. CASE i \in 1..Len(w[a][b])
      <4>1. Put(w, o, rec)[a][b][i] = w[a][b][i] /\ i \in DOMAIN w[a][b]
        BY <3>1, <3>4, <1>1
      <4> QED BY <4>1 DEF WireMade
    <3> QED BY <3>1, <3>2, <3>3, <3>4
  <2>2. CASE ~(a = o[1] /\ b = o[2])
    <3>1. Put(w, o, rec)[a][b] = w[a][b]
      BY <2>2, <1>2 DEF Put
    <3> QED BY <3>1, <1>3 DEF WireMade
  <2> QED BY <2>1, <2>2
<1> QED BY <1>3 DEF WireMade, rec

\* The head of a queue is taken, by a readLoop or by the relay.
LEMMA TailMade ==
    ASSUME NEW S, NEW w, WireOK(w), WireMade(S, w), NEW a \in Hosts, NEW b \in Hosts,
           w[a][b] # <<>>
    PROVE  FinMade(S, Head(w[a][b])) /\ WireMade(S, [w EXCEPT ![a][b] = Tail(w[a][b])])
<1> DEFINE v == [w EXCEPT ![a][b] = Tail(w[a][b])]
<1>1. w[a][b] \in Seq(Records) /\ w \in [Hosts -> [Hosts -> Seq(Records)]]
  BY DEF WireOK
<1>2. Head(w[a][b]) = w[a][b][1] /\ 1 \in DOMAIN w[a][b]
  BY <1>1
<1>3. ASSUME NEW c \in Hosts, NEW d \in Hosts, NEW i \in DOMAIN v[c][d]
      PROVE  FinMade(S, v[c][d][i])
  <2>1. CASE c = a /\ d = b
    <3>1. v[c][d] = Tail(w[a][b])
      BY <2>1, <1>1
    <3> HIDE DEF v
    <3>2. i \in 1..(Len(w[a][b]) - 1) /\ v[c][d][i] = w[a][b][i + 1]
      BY <3>1, <1>1, <1>3
    <3>3. i + 1 \in DOMAIN w[a][b]
      BY <3>2, <1>1, SMTT(60)
    <3> QED BY <3>2, <3>3 DEF WireMade
  <2>2. CASE ~(c = a /\ d = b)
    <3>1. v[c][d] = w[c][d]
      BY <2>2, <1>1
    <3> QED BY <3>1, <1>3 DEF WireMade
  <2> QED BY <2>1, <2>2
<1>4. WireMade(S, v)
  <2> HIDE DEF v
  <2> QED BY <1>3 DEF WireMade
<1>5. FinMade(S, Head(w[a][b]))
  BY <1>2 DEF WireMade
<1> QED BY <1>4, <1>5

\* What neither derives a key nor gets a message leaves the keys as they are.
SameKeys(s, t) ==
    /\ t.hs = s.hs /\ t.passive = s.passive /\ t.chan = s.chan
    /\ t.rem = s.rem /\ t.master = s.master /\ t.log = s.log
    /\ t.out = s.out /\ t.in = s.in /\ t.inNext = s.inNext
    /\ t.complete = s.complete

\* A step that leaves the keys alone derives nothing wrong.
LEMMA SameKeysDerived ==
    ASSUME NEW o, NEW s, NEW t, SameKeys(s, t), KeysOK(o, s), ChanMade(ses, s.chan)
    PROVE  Derived(o, s, t) /\ (Fresh(s) => Fresh(t))
<1>1. KeysOK(o, t)
  BY DEF SameKeys, KeysOK
<1> QED BY <1>1 DEF SameKeys, Derived, Stable, Fresh

\* Sealing and closing leave the keys alone.
LEMMA SameKeysOf ==
    ASSUME NEW s \in Sessions
    PROVE  /\ SameKeys(s, s)
           /\ SameKeys(s, AfterSeal(s)) /\ AfterSeal(s) \in Sessions
           /\ SameKeys(s, Closed(s))
           /\ SameKeys(s, Closed(AfterSeal(s)))
<1>1. AfterSeal(s) \in Sessions /\ SameKeys(s, AfterSeal(s))
  BY DEF AfterSeal, Sessions, SameKeys
<1>2. \A t \in Sessions : SameKeys(t, Closed(t))
  BY DEF Closed, Sessions, SameKeys
<1> QED BY <1>1, <1>2 DEF SameKeys

-----------------------------------------------------------------------------
(* The steps of a readLoop *)

\* The readLoop has dealt with session o, in state s before.
KeyOutcome(o, s) ==
    /\ \E t : /\ ses' = [ses EXCEPT ![o] = t]
              /\ Derived(o, s, t)
              /\ Fresh(s) => Fresh(t)
    /\ WireMade(ses, wire')
    /\ StoresHello'

\* One readLoop moves.
LEMMA ReadLoopHello ==
    ASSUME IInv, KeyInv, NEW h \in Hosts, NEW r, rl' = [rl EXCEPT ![h] = r],
           r.pc = "store" => r.rec.pay.msg.m = "hello"
    PROVE  StoresHello'
<1>1. \A a \in Hosts : rl'[a] = IF a = h THEN r ELSE rl[a]
  BY DEF IInv, TypeOK
<1> QED BY <1>1 DEF KeyInv, StoresHello

\* A step in which no readLoop moves.
LEMMA SameStore == ASSUME KeyInv, rl' = rl PROVE StoresHello'
BY DEF KeyInv, StoresHello

\* The readLoop is done with a session and left its keys alone.
LEMMA SameOutcome ==
    ASSUME NEW o, NEW s, NEW t, SameKeys(s, t), KeysOK(o, s), ChanMade(ses, s.chan),
           ses' = [ses EXCEPT ![o] = t], WireMade(ses, wire'), StoresHello'
    PROVE  KeyOutcome(o, s)
BY SameKeysDerived DEF KeyOutcome

\* terminateSession sends an Alert and closes.
LEMMA TerminateKeys ==
    ASSUME IInv, KeyInv, NEW h \in Hosts, NEW o \in Objects, NEW s, SessionOK(s), KeysOK(o, s),
           ChanMade(ses, s.chan), NEW w, WireOK(w), WireMade(ses, w), RlTerminate(h, o, s, w)
    PROVE  KeyOutcome(o, s)
<1>1. /\ wire' = Put(w, o, Sealed(s, AlertPay))
      /\ ses' = [ses EXCEPT ![o] = Closed(AfterSeal(s))]
      /\ rl' = [rl EXCEPT ![h] = RlAt("delete", o, Nil)]
  BY DEF RlTerminate
<1>2. WireMade(ses, wire')
  BY <1>1, PayloadsOK, SendMade
<1>3. RlAt("delete", o, Nil).pc = "delete"
  BY DEF RlAt
<1>4. StoresHello'
  BY <1>1, <1>3, ReadLoopHello
<1>5. SameKeys(s, Closed(AfterSeal(s)))
  BY SameKeysOf DEF SessionOK
<1> QED BY <1>1, <1>2, <1>4, <1>5, SameOutcome

\* Control records derive nothing.
LEMMA ControlKeys ==
    ASSUME IInv, KeyInv, NEW h \in Hosts, NEW p \in Hosts, NEW o \in Objects, NEW s, SessionOK(s),
           KeysOK(o, s), ChanMade(ses, s.chan), NEW pay \in Payloads, pay.typ = "ctl",
           NEW w, WireOK(w), WireMade(ses, w), HandleControl(h, p, o, s, pay, w), StoresHello'
    PROVE  KeyOutcome(o, s)
<1>0. s \in Sessions
  BY DEF SessionOK
<1>1. CASE /\ wire' = Put(w, o, Sealed(s, CtlPay("retransmit", pay.ref)))
           /\ ses' = [ses EXCEPT ![o] = AfterSeal(s)]
  <2>1. CtlPay("retransmit", pay.ref) \in Payloads
    BY PayloadFields, PayloadsOK
  <2>2. CtlPay("retransmit", pay.ref).typ = "ctl"
    BY DEF CtlPay
  <2>3. WireMade(ses, wire')
    BY <1>1, <2>1, <2>2, SendMade
  <2> QED BY <1>0, <1>1, <2>3, SameKeysOf, SameOutcome
<1>2. CASE wire' = w /\ ses' = [ses EXCEPT ![o] = s]
  BY <1>0, <1>2, SameKeysOf, SameOutcome
<1> QED BY <1>1, <1>2 DEF HandleControl

\* in.changeCipherSpec installs the prepared cipher.
LEMMA SwitchInKeys ==
    ASSUME NEW o, NEW s \in Sessions, KeysOK(o, s), ChanMade(ses, s.chan), s.inNext # Nil
    PROVE  Derived(o, s, SwitchIn(s)) /\ (Fresh(s) => Fresh(SwitchIn(s)))
<1> DEFINE t == SwitchIn(s)
<1>1. /\ t.hs = s.hs /\ t.passive = s.passive /\ t.chan = s.chan
      /\ t.rem = s.rem /\ t.master = s.master /\ t.log = s.log
      /\ t.out = s.out /\ t.in = s.inNext /\ t.inNext = Nil
      /\ t.complete = s.complete
  BY DEF SwitchIn, Sessions
<1> HIDE DEF t
<1>2. KeysOK(o, t)
  BY <1>1 DEF KeysOK
<1> QED BY <1>1, <1>2 DEF Derived, Stable, Fresh, t

\* A handshake record joins handshakeChan: a Finished only under a cipher.
LEMMA QueueKeys ==
    ASSUME NEW o, NEW s \in Sessions, KeysOK(o, s), ChanMade(ses, s.chan), NEW msg \in HsMsgs,
           msg.m = "fin" => s.in # Nil /\ Made(ses, msg),
           NEW t, t = [s EXCEPT !.chan = Append(s.chan, msg)]
    PROVE  Derived(o, s, t) /\ (Fresh(s) => Fresh(t))
<1>1. /\ t.hs = s.hs /\ t.passive = s.passive /\ t.chan = Append(s.chan, msg)
      /\ t.rem = s.rem /\ t.master = s.master /\ t.log = s.log
      /\ t.out = s.out /\ t.in = s.in /\ t.inNext = s.inNext
      /\ t.complete = s.complete
  BY DEF Sessions
<1>2. s.chan \in Seq(HsMsgs)
  BY DEF Sessions
<1>3. ASSUME NEW i \in DOMAIN t.chan
      PROVE  (i \in DOMAIN s.chan /\ t.chan[i] = s.chan[i]) \/ t.chan[i] = msg
  BY <1>1, <1>2, <1>3
<1>4. \A i \in DOMAIN t.chan : t.chan[i].m = "fin" => s.in # Nil
  BY <1>3 DEF KeysOK
<1>5. ChanMade(ses, t.chan)
  BY <1>3 DEF ChanMade
<1>6. KeysOK(o, t)
  BY <1>1, <1>4 DEF KeysOK
<1> QED BY <1>1, <1>5, <1>6 DEF Derived, Stable, Fresh

\* Every branch of the switch over the record type.
LEMMA DispatchKeys ==
    ASSUME IInv, KeyInv, NEW h \in Hosts, NEW p \in Hosts, NEW o \in Objects, NEW s, SessionOK(s),
           KeysOK(o, s), ChanMade(ses, s.chan), NEW rec \in Records, FinMade(ses, rec),
           rec.key # Nil => s.in # Nil,
           NEW w, WireOK(w), WireMade(ses, w), Dispatch(h, p, o, s, rec, w)
    PROVE  KeyOutcome(o, s)
<1>0. s \in Sessions /\ rec.pay \in Payloads
  BY DEF SessionOK, Records
<1>1. CASE ses' = [ses EXCEPT ![o] = Closed(s)] /\ wire' = w
           /\ rl' = [rl EXCEPT ![h] = RlAt("delete", o, Nil)]
  <2>1. RlAt("delete", o, Nil).pc = "delete"
    BY DEF RlAt
  <2>2. StoresHello'
    BY <1>1, <2>1, ReadLoopHello
  <2> QED BY <1>0, <1>1, <2>2, SameKeysOf, SameOutcome
<1>2. CASE ses' = [ses EXCEPT ![o] = s] /\ wire' = w /\ rl' = rl
  BY <1>0, <1>2, SameStore, SameKeysOf, SameOutcome
<1>3. CASE rec.pay.typ = "ctl" /\ HandleControl(h, p, o, s, rec.pay, w) /\ rl' = rl
  BY <1>0, <1>3, SameStore, ControlKeys
<1>4. CASE /\ ses' = [ses EXCEPT ![o] = s] /\ wire' = w
           /\ \/ rl' = [rl EXCEPT ![h] = RlAt("await", o, rec)]
              \/ rl' = [rl EXCEPT ![h] = RlAt("ccs", o, Nil)]
  <2>1. RlAt("await", o, rec).pc = "await" /\ RlAt("ccs", o, Nil).pc = "ccs"
    BY DEF RlAt
  <2>2. StoresHello'
    BY <1>4, <2>1, ReadLoopHello
  <2> QED BY <1>0, <1>4, <2>2, SameKeysOf, SameOutcome
<1>5. CASE rec.pay.typ = "hs" /\ ses' = [ses EXCEPT ![o] = [s EXCEPT !.chan = Append(@, rec.pay.msg)]]
           /\ wire' = w /\ rl' = rl
  <2> DEFINE msg == rec.pay.msg
  <2> DEFINE t == [s EXCEPT !.chan = Append(s.chan, msg)]
  <2>1. msg \in HsMsgs
    BY <1>0, <1>5, PayloadFields
  <2>2. msg.m = "fin" => s.in # Nil /\ Made(ses, msg)
    BY <1>5 DEF FinMade
  <2>3. ses' = [ses EXCEPT ![o] = t]
    BY <1>5
  <2>4. Derived(o, s, t) /\ (Fresh(s) => Fresh(t))
    <3> HIDE DEF msg
    <3> QED BY <1>0, <2>1, <2>2, QueueKeys
  <2> HIDE DEF t
  <2> QED BY <1>5, <2>3, <2>4, SameStore DEF KeyOutcome
<1>6. CASE RlTerminate(h, o, s, w)
  BY <1>6, TerminateKeys
<1>7. CASE s.inNext # Nil /\ ses' = [ses EXCEPT ![o] = SwitchIn(s)] /\ wire' = w /\ rl' = rl
  BY <1>0, <1>7, SwitchInKeys, SameStore DEF KeyOutcome
<1> QED BY <1>1, <1>2, <1>3, <1>4, <1>5, <1>6, <1>7 DEF Dispatch

\* Sessions in the map, in use, or just created.
LEMMA KeyFacts ==
    ASSUME IInv, KeyInv, NEW o \in Objects
    PROVE  SessionOK(ses[o]) /\ ses[o] \in Sessions /\ KeysOK(o, ses[o]) /\ ChanMade(ses, ses[o].chan)
BY DEF IInv, KeyInv, SessionOK

\* Nothing is derived in a session without master secret.
LEMMA NewKeys ==
    ASSUME NEW o, NEW t \in Sessions, t.hs = "new", t.master = Nil, ~t.complete,
           t.in = Nil, t.inNext = Nil, \A i \in DOMAIN t.chan : t.chan[i].m # "fin"
    PROVE  KeysOK(o, t) /\ ChanMade(ses, t.chan)
BY DEF KeysOK, ChanMade

\* NewSession makes such a session.
LEMMA NewSessionKeys ==
    ASSUME NEW o
    PROVE  KeysOK(o, NewSession(TRUE)) /\ ChanMade(ses, NewSession(TRUE).chan)
<1> DEFINE s == NewSession(TRUE)
<1>1. s \in Sessions
  BY NewSessionOK DEF SessionOK
<1>2. s.hs = "new" /\ s.master = Nil /\ ~s.complete /\ s.in = Nil /\ s.inNext = Nil /\ s.chan = <<>>
  BY DEF NewSession
<1> HIDE DEF s
<1>3. \A i \in DOMAIN s.chan : s.chan[i].m # "fin"
  BY <1>2
<1>4. KeysOK(o, s) /\ ChanMade(ses, s.chan)
  BY <1>1, <1>2, <1>3, NewKeys
<1> QED BY <1>4 DEF s

\* The session that is created had no keys before.
LEMMA UncreatedNoKeys ==
    ASSUME IInv, KeyInv, NEW o \in Objects, o[3] > gen[o[1]][o[2]]
    PROVE  ses[o].master = Nil
<1>1. o[1] \in Hosts /\ o[2] \in Hosts /\ o[3] \in 1..MaxGen
  BY ObjectFields
<1>2. o[3] \in Nat /\ gen[o[1]][o[2]] \in Nat
  BY <1>1, Types
<1>3. ~Created(gen, o, o[1], o[2])
  BY <1>2 DEF Created
<1> QED BY <1>3 DEF KeyInv, UncreatedFresh, Fresh

\* Receive: with the session of the entry, or with the one it creates.
LEMMA ReceiveKeys ==
    ASSUME IInv, KeyInv, NEW h \in Hosts, NEW p \in Hosts, Receive(h, p)
    PROVE  KeyInv'
<1> DEFINE o == Entry(h, p)
<1> DEFINE s == IF cur[h][p] = Nil THEN NewSession(TRUE) ELSE ses[o]
<1> DEFINE rec == Head(wire[p][h])
<1> DEFINE w == Pop(wire, h, p)
<1> DEFINE opened == [s EXCEPT !.inSeq = @ + 1]
<1>1. /\ h # p /\ CanCreate(h, p) /\ gen' = GenAfter(h, p) /\ wire[p][h] # <<>>
  BY DEF Receive
<1>2. /\ Created(gen', o, h, p) /\ o \in Objects /\ o[1] = h /\ o[2] = p
      /\ cur[h][p] = Nil => o[3] > gen[h][p]
  BY <1>1, EntryOK
<1>3. SessionOK(s) /\ s \in Sessions /\ KeysOK(o, s) /\ ChanMade(ses, s.chan)
  BY <1>2, NewSessionOK, NewSessionKeys, KeyFacts DEF SessionOK
<1>4. ses[o].master # Nil =>
          s.master = ses[o].master /\ s.log = ses[o].log /\ s.rem = ses[o].rem
  BY <1>2, UncreatedNoKeys
<1>5. s.complete => ses[o].complete
  <2>1. ~NewSession(TRUE).complete
    BY NewSessionOK
  <2> QED BY <2>1
<1>6. SessionOK(opened) /\ opened \in Sessions /\ SameKeys(s, opened)
  <2> HIDE DEF s
  <2> QED BY <1>3 DEF SessionOK, Sessions, SameKeys
<1>7. KeysOK(o, opened) /\ ChanMade(ses, opened.chan)
  <2> HIDE DEF s, opened
  <2> QED BY <1>3, <1>6 DEF SameKeys, KeysOK
<1>8. WireOK(w) /\ rec \in Records /\ FinMade(ses, rec) /\ WireMade(ses, w)
  <2>1. WireOK(wire) /\ WireMade(ses, wire)
    BY DEF IInv, KeyInv
  <2>2. WireOK(w) /\ rec \in Records
    BY <1>1, <2>1, PopOK
  <2>3. FinMade(ses, rec) /\ WireMade(ses, [wire EXCEPT ![p][h] = Tail(wire[p][h])])
    BY <1>1, <2>1, TailMade
  <2> QED BY <2>2, <2>3 DEF Pop
<1>9. KeyOutcome(o, s)
  <2> HIDE DEF o, s, w
  <2>1. CASE /\ IsHelloRecord(rec) /\ ses' = [ses EXCEPT ![o] = Closed(s)]
             /\ rl' = [rl EXCEPT ![h] = RlAt("store", o, rec)] /\ wire' = w
    <3>1. RlAt("store", o, rec).rec = rec /\ rec.pay.msg.m = "hello"
      BY <2>1 DEF RlAt, IsHelloRecord
    <3>2. StoresHello'
      BY <2>1, <3>1, ReadLoopHello
    <3> QED BY <1>3, <1>8, <2>1, <3>2, SameKeysOf, SameOutcome
  <2>2. CASE RlTerminate(h, o, s, w)
    BY <1>2, <1>3, <1>8, <2>2, TerminateKeys
  <2>3. ASSUME KeyOutcome(o, opened) PROVE KeyOutcome(o, s)
    <3> HIDE DEF opened
    <3>1. \A t : Derived(o, opened, t) /\ (Fresh(opened) => Fresh(t))
                  => Derived(o, s, t) /\ (Fresh(s) => Fresh(t))
      BY <1>6 DEF SameKeys, Derived, Stable, Fresh
    <3> QED BY <2>3, <3>1 DEF KeyOutcome
  <2> HIDE DEF opened
  <2>4. CASE RlTerminate(h, o, opened, w)
    BY <1>2, <1>6, <1>7, <1>8, <2>3, <2>4, TerminateKeys
  <2>5. CASE MarkLost(h, p, o, opened, RefOf(rec)) /\ wire' = w /\ rl' = rl
    <3> DEFINE t == [opened EXCEPT !.asking = @ \union {RefOf(rec)}]
    <3>1. ses' = [ses EXCEPT ![o] = t]
      BY <2>5 DEF MarkLost
    <3>2. SameKeys(opened, t)
      BY <1>6 DEF Sessions, SameKeys
    <3> HIDE DEF t
    <3>3. KeyOutcome(o, opened)
      BY <1>7, <1>8, <2>5, <3>1, <3>2, SameStore, SameOutcome
    <3> QED BY <2>3, <3>3
  <2>6. CASE Decrypts(s, rec) /\ ~Unreadable(s, rec) /\ Dispatch(h, p, o, opened, rec, w)
    <3>1. rec.key # Nil => opened.in # Nil
      BY <1>6, <2>6 DEF Unreadable, SameKeys
    <3> HIDE DEF rec
    <3>2. KeyOutcome(o, opened)
      BY <1>2, <1>6, <1>7, <1>8, <2>6, <3>1, DispatchKeys
    <3> QED BY <2>3, <3>2
  <2> QED BY <2>1, <2>2, <2>4, <2>5, <2>6 DEF Receive, o, s, w, opened
<1> HIDE DEF o, s
<1>10. PICK t : ses' = [ses EXCEPT ![o] = t] /\ Derived(o, s, t)
  BY <1>9 DEF KeyOutcome
<1>11. Derived(o, ses[o], t)
  BY <1>4, <1>5, <1>10 DEF Derived, Stable
<1>12. WireMade(ses, wire') /\ StoresHello' /\ StillCreated
  BY <1>1, <1>9, GenStillCreated DEF KeyOutcome
<1>13. Created(gen', o, o[1], o[2])
  BY <1>2
<1> QED BY <1>2, <1>10, <1>11, <1>12, <1>13, OneSession

\* A readLoop in the middle of a record.
LEMMA InHandKeys ==
    ASSUME IInv, KeyInv, NEW o \in Objects, gen' = gen, KeyOutcome(o, ses[o])
    PROVE  KeyInv'
<1>1. StillCreated
  BY DEF StillCreated
<1> QED BY <1>1, OneSession DEF KeyOutcome

LEMMA RlChangeCipherSpecKeys ==
    ASSUME IInv, KeyInv, NEW h \in Hosts, RlChangeCipherSpec(h) PROVE KeyInv'
<1> DEFINE o == rl[h].o
<1> DEFINE taken == [ses[o] EXCEPT !.inReady = FALSE]
<1>1. gen' = gen /\ o \in Objects /\ WireOK(wire) /\ WireMade(ses, wire)
  <2>1. RlOK(h, rl[h]) /\ rl[h].pc = "ccs" /\ gen' = gen
    BY DEF RlChangeCipherSpec, IInv, ReadLoopsOK
  <2> QED BY <2>1 DEF RlOK, IInv, KeyInv
<1>2. SessionOK(ses[o]) /\ ses[o] \in Sessions /\ KeysOK(o, ses[o]) /\ ChanMade(ses, ses[o].chan)
  BY <1>1, KeyFacts
<1>3. SessionOK(taken) /\ taken \in Sessions /\ SameKeys(ses[o], taken)
  <2>1. SessionOK(taken) /\ taken \in Sessions
    BY <1>2, TakenOK DEF SessionOK
  <2>2. SameKeys(ses[o], taken)
    BY <1>2 DEF Sessions, SameKeys
  <2> QED BY <2>1, <2>2
<1> HIDE DEF taken
<1>4. KeysOK(o, taken) /\ ChanMade(ses, taken.chan)
  BY <1>2, <1>3 DEF SameKeys, KeysOK
<1>5. ASSUME KeyOutcome(o, taken) PROVE KeyOutcome(o, ses[o])
  <2>1. \A t : Derived(o, taken, t) /\ (Fresh(taken) => Fresh(t))
                => Derived(o, ses[o], t) /\ (Fresh(ses[o]) => Fresh(t))
    BY <1>3 DEF SameKeys, Derived, Stable, Fresh
  <2> QED BY <1>5, <2>1 DEF KeyOutcome
<1>6. CASE RlTerminate(h, o, taken, wire)
  BY <1>1, <1>3, <1>4, <1>5, <1>6, TerminateKeys, InHandKeys
<1>7. CASE RlTerminate(h, o, ses[o], wire)
  BY <1>1, <1>2, <1>7, TerminateKeys, InHandKeys
<1>8. CASE ses[o].inNext # Nil /\ ses' = [ses EXCEPT ![o] = SwitchIn(taken)]
           /\ rl' = [rl EXCEPT ![h] = RlIdle] /\ wire' = wire
  <2>1. RlIdle.pc = "idle" /\ taken.inNext # Nil
    BY <1>3, <1>8 DEF RlIdle, RlAt, SameKeys
  <2>2. StoresHello'
    BY <1>8, <2>1, ReadLoopHello
  <2>3. Derived(o, taken, SwitchIn(taken)) /\ (Fresh(taken) => Fresh(SwitchIn(taken)))
    BY <1>3, <1>4, <2>1, SwitchInKeys
  <2>4. KeyOutcome(o, taken)
    BY <1>1, <1>8, <2>2, <2>3 DEF KeyOutcome
  <2> QED BY <1>1, <1>5, <2>4, InHandKeys
<1> QED BY <1>6, <1>7, <1>8 DEF RlChangeCipherSpec, taken

LEMMA RlAwaitKeys ==
    ASSUME IInv, KeyInv, NEW h \in Hosts, RlAwait(h) \/ RlAwaitTimeout(h) PROVE KeyInv'
<1> DEFINE o == rl[h].o
<1> DEFINE s == [ses[o] EXCEPT !.token = FALSE]
<1> DEFINE pay == rl[h].rec.pay
<1>1. gen' = gen /\ o \in Objects /\ WireOK(wire) /\ WireMade(ses, wire) /\ pay \in Payloads
  <2>1. RlOK(h, rl[h]) /\ rl[h].pc = "await" /\ gen' = gen
    BY DEF RlAwait, RlAwaitTimeout, IInv, ReadLoopsOK
  <2> QED BY <2>1 DEF RlOK, IInv, KeyInv, Records
<1>2. SessionOK(ses[o]) /\ ses[o] \in Sessions /\ KeysOK(o, ses[o]) /\ ChanMade(ses, ses[o].chan)
  BY <1>1, KeyFacts
<1>3. SessionOK(s) /\ s \in Sessions /\ SameKeys(ses[o], s)
  <2>1. SessionOK(s) /\ s \in Sessions
    BY <1>2, WokenOK DEF SessionOK
  <2>2. SameKeys(ses[o], s)
    BY <1>2 DEF Sessions, SameKeys
  <2> QED BY <2>1, <2>2
<1> HIDE DEF s
<1>4. KeysOK(o, s) /\ ChanMade(ses, s.chan)
  BY <1>2, <1>3 DEF SameKeys, KeysOK
<1>5. ASSUME rl' = [rl EXCEPT ![h] = RlIdle] PROVE StoresHello'
  <2>1. RlIdle.pc = "idle"
    BY DEF RlIdle, RlAt
  <2> QED BY <1>5, <2>1, ReadLoopHello
<1>6. CASE rl' = [rl EXCEPT ![h] = RlIdle] /\ ses' = [ses EXCEPT ![o] = s] /\ wire' = wire
  <2>1. KeyOutcome(o, ses[o])
    BY <1>1, <1>2, <1>3, <1>5, <1>6, SameOutcome
  <2> QED BY <1>1, <2>1, InHandKeys
<1>7. CASE rl' = [rl EXCEPT ![h] = RlIdle] /\ ses' = ses /\ wire' = wire
  <2>1. ses' = [ses EXCEPT ![o] = ses[o]]
    BY <1>1, <1>7, Types
  <2>2. KeyOutcome(o, ses[o])
    BY <1>1, <1>2, <1>5, <1>7, <2>1, SameKeysOf, SameOutcome
  <2> QED BY <1>1, <2>2, InHandKeys
<1>8. CASE /\ rl' = [rl EXCEPT ![h] = RlIdle] /\ pay.typ = "ctl"
           /\ HandleControl(h, o[2], o, s, pay, wire)
  <2>1. o[2] \in Hosts
    BY <1>1, ObjectFields
  <2>2. KeyOutcome(o, s)
    <3> HIDE DEF pay, o
    <3> QED BY <1>1, <1>3, <1>4, <1>5, <1>8, <2>1, ControlKeys
  <2>3. \A t : Derived(o, s, t) /\ (Fresh(s) => Fresh(t))
                => Derived(o, ses[o], t) /\ (Fresh(ses[o]) => Fresh(t))
    BY <1>3 DEF SameKeys, Derived, Stable, Fresh
  <2>4. KeyOutcome(o, ses[o])
    BY <2>2, <2>3 DEF KeyOutcome
  <2> QED BY <1>1, <2>4, InHandKeys
<1>9. CASE RlTerminate(h, o, ses[o], wire)
  BY <1>1, <1>2, <1>9, TerminateKeys, InHandKeys
<1> QED BY <1>6, <1>7, <1>8, <1>9 DEF RlAwait, RlAwaitTimeout, s

\* Storing a fresh session with the Hello in hand.
LEMMA RlStoreKeys ==
    ASSUME IInv, KeyInv, NEW h \in Hosts, RlStore(h) PROVE KeyInv'
<1> DEFINE p == rl[h].o[2]
<1> DEFINE o == <<h, p, gen[h][p] + 1>>
<1> DEFINE msg == rl[h].rec.pay.msg
<1> DEFINE t == [NewSession(TRUE) EXCEPT !.chan = <<msg>>]
<1>1. rl[h].pc = "store" /\ gen[h][p] < MaxGen /\ gen' = [gen EXCEPT ![h][p] = gen[h][p] + 1]
      /\ ses' = [ses EXCEPT ![o] = t] /\ rl' = [rl EXCEPT ![h] = RlIdle] /\ wire' = wire
  BY DEF RlStore
<1>2. p \in Hosts /\ h # p /\ msg \in HsMsgs /\ msg.m = "hello"
  <2>1. RlOK(h, rl[h]) /\ msg.m = "hello"
    BY <1>1 DEF IInv, ReadLoopsOK, KeyInv, StoresHello
  <2>2. rl[h].rec.pay \in Payloads /\ rl[h].rec.pay.typ = "hs"
    BY <1>1, <2>1 DEF RlOK, Records
  <2> QED BY <1>1, <2>1, <2>2, ObjectFields, PayloadFields DEF RlOK
<1> HIDE DEF p, msg
<1>3. gen \in [Hosts -> [Hosts -> 0..MaxGen]] /\ gen[h][p] \in 0..MaxGen /\ MaxGen \in Nat
  BY <1>2, Types
<1>4. o \in Objects /\ o[1] = h /\ o[2] = p /\ o[3] = gen[h][p] + 1
  BY <1>1, <1>2, <1>3, NextObject
<1>5. KeysOK(o, t) /\ ChanMade(ses, t.chan) /\ ~t.complete
  <2>1. NewSession(TRUE) \in Sessions
    BY NewSessionOK DEF SessionOK
  <2>2. t \in Sessions
    <3>1. <<msg>> \in Seq(HsMsgs)
      BY <1>2
    <3> QED BY <2>1, <3>1 DEF Sessions
  <2>3. t.hs = "new" /\ t.master = Nil /\ ~t.complete /\ t.in = Nil /\ t.inNext = Nil /\ t.chan = <<msg>>
    BY DEF NewSession
  <2> HIDE DEF t, o
  <2>4. \A i \in DOMAIN t.chan : t.chan[i].m # "fin"
    BY <1>2, <2>3
  <2> QED BY <2>2, <2>3, <2>4, NewKeys
<1> HIDE DEF o, t
<1>6. ses[o].master = Nil
  BY <1>3, <1>4, UncreatedNoKeys
<1>7. Derived(o, ses[o], t)
  BY <1>5, <1>6 DEF Derived, Stable
<1>8. \A a, b \in Hosts : gen'[a][b] = IF a = h /\ b = p THEN gen[h][p] + 1 ELSE gen[a][b]
  BY <1>1, <1>2, <1>3
<1>9. StillCreated
  <2>1. \A x \in Objects : x[3] \in Nat
    BY <1>3, ObjectFields
  <2>2. \A a, b \in Hosts : gen[a][b] \in Nat /\ gen'[a][b] \in Nat /\ gen[a][b] <= gen'[a][b]
    BY <1>3, <1>8
  <2>3. ASSUME NEW x \in Objects, NEW a \in Hosts, NEW b \in Hosts, Created(gen, x, a, b)
        PROVE  Created(gen', x, a, b)
    BY <2>1, <2>2, <2>3 DEF Created
  <2> QED BY <2>3 DEF StillCreated
<1>10. Created(gen', o, o[1], o[2])
  BY <1>2, <1>3, <1>4, <1>8 DEF Created
<1>11. StoresHello'
  <2>1. RlIdle.pc = "idle"
    BY DEF RlIdle, RlAt
  <2> QED BY <1>1, <2>1, ReadLoopHello
<1>12. WireMade(ses, wire')
  BY <1>1 DEF KeyInv
<1> QED BY <1>1, <1>4, <1>7, <1>9, <1>10, <1>11, <1>12, OneSession

-----------------------------------------------------------------------------
(* The handshake *)

\* A goroutine that works on its session and sends.
LEMMA GoroutineKeys ==
    ASSUME IInv, KeyInv, NEW o \in Objects, NEW t, ses' = [ses EXCEPT ![o] = t],
           Derived(o, ses[o], t), UNCHANGED <<gen, rl>>, WireMade(ses, wire'),
           Created(gen, o, o[1], o[2]) \/ (Fresh(ses[o]) => Fresh(t))
    PROVE  KeyInv'
<1>1. StillCreated /\ StoresHello'
  BY SameStore DEF StillCreated
<1> QED BY <1>1, OneSession

\* The handshake goes on before there is a master secret.
LEMMA EarlyKeys ==
    ASSUME NEW o, NEW s, KeysOK(o, s), ChanMade(ses, s.chan), s.master = Nil,
           NEW t, t.master = Nil, t.complete = s.complete, t.in = s.in, t.inNext = s.inNext,
           t.hs \in {"waitHello", "waitKxm"},
           \A i \in DOMAIN t.chan : \E j \in DOMAIN s.chan : t.chan[i] = s.chan[j]
    PROVE  Derived(o, s, t)
<1>1. s.in = Nil /\ s.inNext = Nil /\ ~s.complete
  BY DEF KeysOK
<1>2. \A i \in DOMAIN t.chan : t.chan[i].m # "fin"
  BY <1>1 DEF KeysOK
<1>3. KeysOK(o, t) /\ ChanMade(ses, t.chan)
  BY <1>1, <1>2 DEF KeysOK, ChanMade
<1> QED BY <1>1, <1>3 DEF Derived, Stable

\* What is left of handshakeChan was in it.
LEMMA TailOf ==
    ASSUME NEW s \in Sessions, s.chan # <<>>
    PROVE  /\ \A i \in DOMAIN Tail(s.chan) : \E j \in DOMAIN s.chan : Tail(s.chan)[i] = s.chan[j]
           /\ 1 \in DOMAIN s.chan /\ Head(s.chan) = s.chan[1]
<1>1. s.chan \in Seq(HsMsgs)
  BY DEF Sessions
<1>2. ASSUME NEW i \in DOMAIN Tail(s.chan)
      PROVE  i + 1 \in DOMAIN s.chan /\ Tail(s.chan)[i] = s.chan[i + 1]
  BY <1>1, <1>2
<1>3. 1 \in DOMAIN s.chan /\ Head(s.chan) = s.chan[1]
  BY <1>1
<1> QED BY <1>2, <1>3

LEMMA StartHandshakeKeys ==
    ASSUME IInv, KeyInv, NEW o \in Objects, StartHandshake(o),
           Created(gen, o, o[1], o[2]) \/ ses[o].passive
    PROVE  KeyInv'
<1> DEFINE a == AfterSeal(ses[o])
<1> DEFINE t == [a EXCEPT !.hs = "waitHello"]
<1>1. /\ ses' = [ses EXCEPT ![o] = t] /\ UNCHANGED <<gen, rl>> /\ ses[o].hs = "new"
      /\ wire' = Put(wire, o, Sealed(ses[o], HsPay(Hello(o))))
  BY DEF StartHandshake
<1>2. SessionOK(ses[o]) /\ ses[o] \in Sessions /\ KeysOK(o, ses[o]) /\ ChanMade(ses, ses[o].chan)
      /\ ses[o].master = Nil
  BY <1>1, KeyFacts DEF KeysOK
<1>3. WireMade(ses, wire')
  <2>1. HsPay(Hello(o)) \in Payloads /\ HsPay(Hello(o)).msg.m = "hello"
    BY MessagesOK, PayloadsOK DEF HsPay, Hello
  <2>2. WireOK(wire) /\ WireMade(ses, wire)
    BY DEF IInv, KeyInv
  <2> QED BY <1>1, <1>2, <2>1, <2>2, SendMade
<1>4. a \in Sessions /\ SameKeys(ses[o], a)
  BY <1>2, SameKeysOf
<1>5. /\ t.hs = "waitHello" /\ t.master = Nil /\ t.complete = ses[o].complete /\ t.in = ses[o].in
      /\ t.inNext = ses[o].inNext /\ t.chan = ses[o].chan
  <2> HIDE DEF a
  <2> QED BY <1>2, <1>4 DEF Sessions, SameKeys
<1> HIDE DEF t, a
<1>6. Derived(o, ses[o], t)
  BY <1>2, <1>5, EarlyKeys
<1>7. Created(gen, o, o[1], o[2]) \/ (Fresh(ses[o]) => Fresh(t))
  BY DEF Fresh
<1> QED BY <1>1, <1>3, <1>6, <1>7, GoroutineKeys

\* A handshake that ends without success leaves its keys behind.
LEMMA FailedKeys ==
    ASSUME IInv, KeyInv, NEW o \in Objects, ses[o].hs \notin {"new", "ok"},
           UNCHANGED <<gen, rl, wire>>, NEW t, ses' = [ses EXCEPT ![o] = t],
           t.hs = "failed", t.rem = ses[o].rem, t.master = ses[o].master, t.log = ses[o].log,
           t.in = ses[o].in, t.inNext = ses[o].inNext, t.complete = ses[o].complete,
           \A i \in DOMAIN t.chan : \E j \in DOMAIN ses[o].chan : t.chan[i] = ses[o].chan[j]
    PROVE  KeyInv'
<1>1. SessionOK(ses[o]) /\ ses[o] \in Sessions /\ KeysOK(o, ses[o]) /\ ChanMade(ses, ses[o].chan)
  BY KeyFacts
<1>2. ~ses[o].complete
  BY <1>1 DEF KeysOK
<1>3. \A i \in DOMAIN t.chan : t.chan[i].m = "fin" => t.in # Nil
  BY <1>1 DEF KeysOK
<1>4. KeysOK(o, t)
  BY <1>1, <1>2, <1>3 DEF KeysOK
<1>5. ChanMade(ses, t.chan)
  BY <1>1 DEF ChanMade
<1>6. Derived(o, ses[o], t)
  BY <1>4, <1>5 DEF Derived, Stable
<1>7. WireMade(ses, wire')
  BY DEF KeyInv
<1>8. Fresh(ses[o]) => Fresh(t)
  BY DEF Fresh
<1> QED BY <1>6, <1>7, <1>8, GoroutineKeys

LEMMA FailHandshakeKeys ==
    ASSUME IInv, KeyInv, NEW o \in Objects, ses[o].hs \notin {"new", "ok"}, ses[o].chan # <<>>,
           FailHandshake(o), UNCHANGED <<gen, rl>>
    PROVE  KeyInv'
<1> DEFINE c == Tail(ses[o].chan)
<1> DEFINE t == [ses[o] EXCEPT !.hs = "failed", !.chan = c]
<1>1. ses[o] \in Sessions /\ ses \in [Objects -> Sessions]
  BY Types
<1>2. ses' = [ses EXCEPT ![o] = t] /\ wire' = wire
  BY <1>1 DEF FailHandshake, Sessions
<1>3. \A i \in DOMAIN c : \E j \in DOMAIN ses[o].chan : c[i] = ses[o].chan[j]
  BY <1>1, TailOf
<1> HIDE DEF c
<1>4. /\ t.hs = "failed" /\ t.rem = ses[o].rem /\ t.master = ses[o].master /\ t.log = ses[o].log
      /\ t.in = ses[o].in /\ t.inNext = ses[o].inNext /\ t.complete = ses[o].complete
      /\ t.chan = c
  BY <1>1 DEF Sessions
<1> HIDE DEF t
<1> QED BY <1>2, <1>3, <1>4, FailedKeys

LEMMA HandshakeClosedKeys ==
    ASSUME IInv, KeyInv, NEW o \in Objects, HandshakeClosed(o) PROVE KeyInv'
<1> DEFINE t == [ses[o] EXCEPT !.hs = "failed"]
<1>1. ses[o] \in Sessions
  BY Types
<1>2. /\ ses' = [ses EXCEPT ![o] = t] /\ UNCHANGED <<gen, rl, wire>>
      /\ ses[o].hs \notin {"new", "ok"}
  BY DEF HandshakeClosed
<1>3. /\ t.hs = "failed" /\ t.rem = ses[o].rem /\ t.master = ses[o].master /\ t.log = ses[o].log
      /\ t.in = ses[o].in /\ t.inNext = ses[o].inNext /\ t.complete = ses[o].complete
      /\ t.chan = ses[o].chan
  BY <1>1 DEF Sessions
<1> HIDE DEF t
<1> QED BY <1>2, <1>3, FailedKeys

LEMMA ReadHelloKeys ==
    ASSUME IInv, KeyInv, NEW o \in Objects, ReadHello(o) PROVE KeyInv'
<1> DEFINE msg == Head(ses[o].chan)
<1> DEFINE a == AfterSeal(ses[o])
<1> DEFINE c == Tail(ses[o].chan)
<1> DEFINE t == [a EXCEPT !.hs = "waitKxm", !.chan = c, !.rem = msg.from]
<1>1. UNCHANGED <<gen, rl>> /\ ses[o].hs = "waitHello" /\ ses[o].chan # <<>>
  BY DEF ReadHello
<1>2. SessionOK(ses[o]) /\ ses[o] \in Sessions /\ KeysOK(o, ses[o]) /\ ChanMade(ses, ses[o].chan)
      /\ ses[o].master = Nil
  BY <1>1, KeyFacts DEF KeysOK
<1>3. CASE msg.m = "hello"
  <2>1. ses' = [ses EXCEPT ![o] = t]
        /\ wire' = Put(wire, o, Sealed(ses[o], HsPay(Kxm(o, msg.from))))
    BY <1>3 DEF ReadHello
  <2>2. WireMade(ses, wire')
    <3>1. msg.from \in Objects
      BY <1>1, <1>2, <1>3, ChanOK
    <3>2. HsPay(Kxm(o, msg.from)) \in Payloads /\ HsPay(Kxm(o, msg.from)).msg.m = "kxm"
      BY <3>1, MessagesOK, PayloadsOK DEF HsPay, Kxm
    <3>3. WireOK(wire) /\ WireMade(ses, wire)
      BY DEF IInv, KeyInv
    <3> QED BY <1>2, <2>1, <3>2, <3>3, SendMade
  <2>3. a \in Sessions /\ SameKeys(ses[o], a)
    BY <1>2, SameKeysOf
  <2>4. \A i \in DOMAIN c : \E j \in DOMAIN ses[o].chan : c[i] = ses[o].chan[j]
    BY <1>1, <1>2, TailOf
  <2> HIDE DEF a, c, msg
  <2>5. /\ t.hs = "waitKxm" /\ t.master = Nil /\ t.complete = ses[o].complete /\ t.in = ses[o].in
        /\ t.inNext = ses[o].inNext /\ t.chan = c
    BY <1>2, <2>3 DEF Sessions, SameKeys
  <2> HIDE DEF t
  <2>6. Derived(o, ses[o], t)
    BY <1>2, <2>4, <2>5, EarlyKeys
  <2>7. Fresh(ses[o]) => Fresh(t)
    BY <1>1 DEF Fresh
  <2> QED BY <1>1, <2>1, <2>2, <2>6, <2>7, GoroutineKeys
<1>4. CASE msg.m # "hello"
  BY <1>1, <1>4, FailHandshakeKeys DEF ReadHello
<1> QED BY <1>3, <1>4

\* Here the master secret is derived: from the two randoms, and recorded with
\* the transcript it goes with.
LEMMA ReadKxmKeys ==
    ASSUME IInv, KeyInv, NEW o \in Objects, ReadKxm(o) PROVE KeyInv'
<1> DEFINE msg == Head(ses[o].chan)
<1> DEFINE isKxm == msg.m = "kxm"
<1> DEFINE master == Master(o, ses[o].rem, isKxm)
<1> DEFINE log == Transcript(o, ses[o].rem, isKxm)
<1> DEFINE a == AfterSeal(ses[o])
<1> DEFINE c == Tail(ses[o].chan)
<1> DEFINE b == Prepared(o, a, master)
<1> DEFINE t == [b EXCEPT !.hs = "switchOut", !.chan = c, !.log = log]
<1>1. UNCHANGED <<gen, rl>> /\ ses[o].hs = "waitKxm" /\ ses[o].chan # <<>>
  BY DEF ReadKxm
<1>2. SessionOK(ses[o]) /\ ses[o] \in Sessions /\ KeysOK(o, ses[o]) /\ ChanMade(ses, ses[o].chan)
      /\ ses[o].master = Nil
  BY <1>1, KeyFacts DEF KeysOK
<1>3. CASE isKxm => KxmAccepted(o, msg)
  <2>1. ses' = [ses EXCEPT ![o] = t] /\ wire' = Put(wire, o, Sealed(ses[o], CcsPay))
    BY <1>3 DEF ReadKxm
  <2>2. WireMade(ses, wire')
    <3>1. WireOK(wire) /\ WireMade(ses, wire)
      BY DEF IInv, KeyInv
    <3> QED BY <1>2, <2>1, <3>1, PayloadsOK, SendMade
  <2>3. a \in Sessions /\ SameKeys(ses[o], a)
    BY <1>2, SameKeysOf
  <2>4. \A i \in DOMAIN c : \E j \in DOMAIN ses[o].chan : c[i] = ses[o].chan[j]
    BY <1>1, <1>2, TailOf
  <2>5. ses[o].rem \in Objects
    BY <1>1, <1>2 DEF SessionOK
  <2>6. master \in Masters /\ master # Nil /\ log \in Transcripts /\ InKey(o, master) \in Keys
    <3>1. master \in Masters /\ log \in Transcripts
      BY <2>5, MessagesOK
    <3> QED BY <3>1, NilAssumption DEF InKey, Keys
  <2>7. master = Master(o, ses[o].rem, master.pre) /\ log = Transcript(o, ses[o].rem, master.pre)
    <3>1. master.pre = isKxm
      BY MasterFields
    <3> QED BY <3>1
  <2> HIDE DEF a, c, msg, isKxm, master, log
  <2>8. b \in Sessions /\ b.master = master /\ b.inNext = InKey(o, master) /\ b.rem = a.rem
        /\ b.in = a.in /\ b.complete = a.complete
    BY <2>3, <2>6 DEF Prepared, Sessions
  <2> HIDE DEF b
  <2>9. /\ t.hs = "switchOut" /\ t.chan = c /\ t.log = log /\ t.rem = ses[o].rem
        /\ t.master = master /\ t.inNext = InKey(o, master)
        /\ t.in = ses[o].in /\ t.complete = ses[o].complete
    BY <2>3, <2>8 DEF Sessions, SameKeys
  <2> HIDE DEF t
  <2>10. ses[o].in = Nil /\ ~ses[o].complete
    BY <1>2 DEF KeysOK
  <2>11. \A i \in DOMAIN t.chan : t.chan[i].m # "fin"
    BY <1>2, <2>4, <2>9, <2>10 DEF KeysOK
  <2>12. KeysOK(o, t) /\ ChanMade(ses, t.chan)
    BY <2>5, <2>6, <2>7, <2>9, <2>10, <2>11 DEF KeysOK, ChanMade
  <2>13. Derived(o, ses[o], t)
    BY <1>2, <2>9, <2>10, <2>12 DEF Derived, Stable
  <2>14. Fresh(ses[o]) => Fresh(t)
    BY <1>1 DEF Fresh
  <2> QED BY <1>1, <2>1, <2>2, <2>13, <2>14, GoroutineKeys
<1>4. CASE ~(isKxm => KxmAccepted(o, msg))
  BY <1>1, <1>4, FailHandshakeKeys DEF ReadKxm
<1> QED BY <1>3, <1>4

\* The Finished that goes out is made from the session's master secret and
\* transcript, under the cipher of its side.
LEMMA SwitchOutKeys ==
    ASSUME IInv, KeyInv, NEW o \in Objects, SwitchOut(o) PROVE KeyInv'
<1> DEFINE b == [ses[o] EXCEPT !.out = OutKey(o, ses[o].master), !.outSeq = 0]
<1> DEFINE a == AfterSeal(b)
<1> DEFINE t == [a EXCEPT !.hs = "waitFin"]
<1> DEFINE pay == HsPay(Finished(o[1], b.master, b.log))
<1>1. /\ ses[o].hs = "switchOut" /\ UNCHANGED <<gen, rl>>
      /\ ses' = [ses EXCEPT ![o] = t] /\ wire' = Put(wire, o, Sealed(b, pay))
  BY DEF SwitchOut
<1>2. SessionOK(ses[o]) /\ ses[o] \in Sessions /\ KeysOK(o, ses[o]) /\ ChanMade(ses, ses[o].chan)
      /\ ses[o].master \in Masters /\ ses[o].master # Nil /\ ses[o].log \in Transcripts
  BY <1>1, KeyFacts DEF KeysOK, SessionOK, Sessions
<1>3. OutKey(o, ses[o].master) \in Keys /\ OutKey(o, ses[o].master) # Nil
  BY <1>2, NilAssumption DEF OutKey, Keys
<1>4. /\ SessionOK(b) /\ b \in Sessions /\ b.out = OutKey(o, ses[o].master)
      /\ b.hs = "switchOut" /\ b.chan = ses[o].chan /\ b.rem = ses[o].rem
      /\ b.master = ses[o].master /\ b.log = ses[o].log /\ b.in = ses[o].in
      /\ b.inNext = ses[o].inNext /\ b.complete = ses[o].complete
  BY <1>1, <1>2, <1>3 DEF SessionOK, Sessions
<1> HIDE DEF b
<1>5. pay \in Payloads /\ pay.msg = Finished(o[1], ses[o].master, ses[o].log)
  <2>1. Finished(o[1], ses[o].master, ses[o].log) \in HsMsgs
    BY <1>2, ObjectFields DEF Finished, HsMsgs
  <2> QED BY <1>4, <2>1, PayloadsOK DEF HsPay
<1>6. Made(ses, pay.msg)
  BY <1>2, <1>5 DEF Made, Finished
<1> HIDE DEF pay
<1>7. WireMade(ses, wire')
  <2>1. WireOK(wire) /\ WireMade(ses, wire)
    BY DEF IInv, KeyInv
  <2> QED BY <1>1, <1>3, <1>4, <1>5, <1>6, <2>1, SendMade
<1>8. a \in Sessions /\ SameKeys(b, a)
  BY <1>4, SameKeysOf
<1> HIDE DEF a
<1>9. /\ t.hs = "waitFin" /\ t.chan = ses[o].chan /\ t.rem = ses[o].rem
      /\ t.master = ses[o].master /\ t.log = ses[o].log /\ t.in = ses[o].in
      /\ t.inNext = ses[o].inNext /\ t.complete = ses[o].complete
      /\ t.out = OutKey(o, ses[o].master)
  BY <1>4, <1>8 DEF Sessions, SameKeys
<1> HIDE DEF t
<1>10. ~ses[o].complete
  BY <1>1, <1>2 DEF KeysOK
<1>11. KeysOK(o, t)
  BY <1>1, <1>2, <1>9, <1>10 DEF KeysOK
<1>12. Derived(o, ses[o], t)
  BY <1>2, <1>9, <1>11 DEF Derived, Stable
<1>13. Fresh(ses[o]) => Fresh(t)
  BY <1>1 DEF Fresh
<1> QED BY <1>1, <1>7, <1>12, <1>13, GoroutineKeys

\* readFinished: the Finished it accepts was made by the session whose Hello
\* this one read, and that session read this one's.
LEMMA ReadFinishedKeys ==
    ASSUME IInv, KeyInv, NEW o \in Objects, ReadFinished(o) PROVE KeyInv'
<1> DEFINE msg == Head(ses[o].chan)
<1> DEFINE c == Tail(ses[o].chan)
<1> DEFINE t == [Completed(ses[o]) EXCEPT !.chan = c]
<1>1. UNCHANGED <<gen, rl>> /\ ses[o].hs = "waitFin" /\ ses[o].chan # <<>>
  BY DEF ReadFinished
<1>2. SessionOK(ses[o]) /\ ses[o] \in Sessions /\ KeysOK(o, ses[o]) /\ ChanMade(ses, ses[o].chan)
      /\ ses[o].master # Nil
  BY <1>1, KeyFacts DEF KeysOK
<1>3. CASE FinishedAccepted(o, msg)
  <2>1. ses' = [ses EXCEPT ![o] = t] /\ wire' = wire
    BY <1>3 DEF ReadFinished
  <2>2. msg.m = "fin" /\ msg.by = o[2] /\ msg.master = ses[o].master /\ msg.log = ses[o].log
    BY <1>3 DEF FinishedAccepted, Finished
  <2>3. /\ \A i \in DOMAIN c : \E j \in DOMAIN ses[o].chan : c[i] = ses[o].chan[j]
        /\ 1 \in DOMAIN ses[o].chan /\ msg = ses[o].chan[1]
    BY <1>1, <1>2, TailOf
  <2>4. ses[o].in # Nil /\ Made(ses, msg)
    BY <1>2, <2>2, <2>3 DEF KeysOK, ChanMade
  <2>5. PICK x \in Objects : /\ x[1] = o[2] /\ ses[x].master # Nil
                             /\ ses[x].master = ses[o].master /\ ses[x].log = ses[o].log
    BY <2>2, <2>4 DEF Made
  <2>6. ses[x] \in Sessions /\ KeysOK(x, ses[x])
    BY KeyFacts
  <2>7. ses[o].rem = x /\ ses[x].rem = o /\ ses[o].master.pre
    BY <1>2, <2>5, <2>6, SameMasterAgrees
  <2>8. o # x
    BY <2>5, ObjectFields
  <2> HIDE DEF c, msg
  <2>9. /\ t.hs = "ok" /\ t.complete /\ t.chan = c /\ t.rem = ses[o].rem
        /\ t.master = ses[o].master /\ t.log = ses[o].log /\ t.in = ses[o].in
        /\ t.inNext = ses[o].inNext /\ t.out = ses[o].out
    BY <1>2 DEF Completed, Sessions
  <2> HIDE DEF t
  <2>10. ses'[o] = t /\ \A y \in Objects : y # o => ses'[y] = ses[y]
    BY <2>1, Types
  <2>11. Agreed(ses', o)
    BY <2>5, <2>7, <2>8, <2>9, <2>10 DEF Agreed
  <2>12. KeysOK(o, t)
    BY <1>1, <1>2, <2>4, <2>9 DEF KeysOK
  <2>13. ChanMade(ses, t.chan)
    BY <1>2, <2>3, <2>9 DEF ChanMade
  <2>14. \A y \in Objects : /\ KeysOK(y, ses'[y])
                            /\ Stable(ses[y], ses'[y])
                            /\ ChanMade(ses, ses'[y].chan)
                            /\ ses'[y].complete => ses[y].complete \/ Agreed(ses', y)
    <3> SUFFICES ASSUME NEW y \in Objects
                 PROVE  /\ KeysOK(y, ses'[y])
                        /\ Stable(ses[y], ses'[y])
                        /\ ChanMade(ses, ses'[y].chan)
                        /\ ses'[y].complete => ses[y].complete \/ Agreed(ses', y)
      OBVIOUS
    <3>1. CASE y = o
      BY <3>1, <2>9, <2>10, <2>11, <2>12, <2>13 DEF Stable
    <3>2. CASE y # o
      BY <3>2, <2>10, KeyFacts DEF Stable
    <3> QED BY <3>1, <3>2
  <2>15. WireMade(ses, wire') /\ StoresHello'
    BY <1>1, <2>1, SameStore DEF KeyInv
  <2>16. UncreatedFresh'
    <3> SUFFICES ASSUME NEW y \in Objects PROVE Created(gen', y, y[1], y[2]) \/ Fresh(ses'[y])
      BY DEF UncreatedFresh
    <3>1. Created(gen, y, y[1], y[2]) \/ Fresh(ses[y])
      BY DEF KeyInv, UncreatedFresh
    <3>2. ~Fresh(ses[o])
      BY <1>1 DEF Fresh
    <3> QED BY <1>1, <2>10, <3>1, <3>2
  <2> QED BY <2>14, <2>15, <2>16, KeyStep
<1>4. CASE ~FinishedAccepted(o, msg)
  BY <1>1, <1>4, FailHandshakeKeys DEF ReadFinished
<1> QED BY <1>3, <1>4

\* Every step of a handshake goroutine.
LEMMA HandshakeKeys ==
    ASSUME IInv, KeyInv, NEW o \in Objects, HandshakeStep(o) PROVE KeyInv'
<1>1. CASE PassiveHandshake(o)
  BY <1>1, StartHandshakeKeys DEF PassiveHandshake
<1> QED BY <1>1, HandshakeClosedKeys, ReadHelloKeys, ReadKxmKeys, SwitchOutKeys, ReadFinishedKeys
        DEF HandshakeStep

-----------------------------------------------------------------------------
(* The other steps *)

\* A session changes in nothing that bears on the keys, and may send data.
LEMMA QuietKeys ==
    ASSUME IInv, KeyInv, NEW o \in Objects, NEW t, ses' = [ses EXCEPT ![o] = t],
           SameKeys(ses[o], t), UNCHANGED <<gen, rl>>, WireMade(ses, wire')
    PROVE  KeyInv'
<1>1. Derived(o, ses[o], t) /\ (Fresh(ses[o]) => Fresh(t))
  BY KeyFacts, SameKeysDerived
<1> QED BY <1>1, GoroutineKeys

\* Nothing happens to the sessions.
LEMMA SameSessions ==
    ASSUME IInv, KeyInv, ses' = ses, StillCreated, StoresHello', WireMade(ses, wire')
    PROVE  KeyInv'
<1>1. \A x \in Objects : /\ KeysOK(x, ses'[x])
                         /\ Stable(ses[x], ses'[x])
                         /\ ChanMade(ses, ses'[x].chan)
                         /\ ses'[x].complete => ses[x].complete \/ Agreed(ses', x)
  BY KeyFacts DEF Stable
<1>2. UncreatedFresh'
  <2> SUFFICES ASSUME NEW x \in Objects PROVE Created(gen', x, x[1], x[2]) \/ Fresh(ses'[x])
    BY DEF UncreatedFresh
  <2>1. x[1] \in Hosts /\ x[2] \in Hosts
    BY ObjectFields
  <2>2. Created(gen, x, x[1], x[2]) => Created(gen', x, x[1], x[2])
    BY <2>1, Zenon DEF StillCreated
  <2>3. Created(gen, x, x[1], x[2]) \/ Fresh(ses[x])
    BY DEF KeyInv, UncreatedFresh
  <2> QED BY <2>2, <2>3
<1> QED BY <1>1, <1>2, KeyStep

LEMMA WriteKeys ==
    ASSUME IInv, KeyInv, NEW h \in Hosts, NEW p \in Hosts, WriteStart(h, p) \/ WriteStep(h, p)
    PROVE  KeyInv'
<1> DEFINE o == wm[h][p].o
<1>0. WireOK(wire) /\ WireMade(ses, wire) /\ (gen' = gen => StillCreated)
  BY DEF IInv, KeyInv, StillCreated
<1>1. CASE WriteStart(h, p)
  <2>1. gen' = GenAfter(h, p) /\ CanCreate(h, p) /\ ses' = ses /\ rl' = rl /\ wire' = wire
    BY <1>1 DEF WriteStart
  <2> QED BY <1>0, <2>1, GenStillCreated, SameStore, SameSessions
<1>2. CASE WriteReady(h, p) \/ WriteDelete(h, p)
  <2>1. UNCHANGED <<gen, ses, rl, wire>>
    BY <1>2 DEF WriteReady, WriteDelete
  <2> QED BY <1>0, <2>1, SameStore, SameSessions
<1>3. CASE WriteHandshake(h, p)
  <2>1. Created(gen, o, h, p) /\ StartHandshake(o)
    BY <1>3 DEF WriteHandshake, IInv, WritersOK
  <2>2. o \in Objects /\ Created(gen, o, o[1], o[2])
    BY <2>1 DEF Created
  <2> QED BY <2>1, <2>2, StartHandshakeKeys
<1>4. CASE WriteSend(h, p)
  <2> DEFINE pay == AppPay(sent[h][p])
  <2>1. /\ UNCHANGED <<gen, rl>> /\ wm[h][p].pc = "send"
        /\ ses' = [ses EXCEPT ![o] = AfterSeal(ses[o])]
        /\ wire' = Put(wire, o, Sealed(ses[o], pay))
    BY <1>4 DEF WriteSend
  <2>2. o \in Objects
    BY <2>1 DEF IInv, WritersOK, Created
  <2>3. pay \in Payloads /\ pay.typ = "app"
    <3>1. sent[h][p] \in Nat
      BY BoundsAssumption DEF IInv, TypeOK
    <3> QED BY <3>1, PayloadsOK DEF AppPay
  <2> HIDE DEF pay, o
  <2>4. SessionOK(ses[o]) /\ SameKeys(ses[o], AfterSeal(ses[o]))
    BY <2>2, KeyFacts, SameKeysOf
  <2>5. WireMade(ses, wire')
    BY <1>0, <2>1, <2>2, <2>3, <2>4, SendMade
  <2> QED BY <2>1, <2>2, <2>4, <2>5, QuietKeys
<1>5. CASE WriteTerminate(h, p)
  <2>1. /\ UNCHANGED <<gen, rl>> /\ wm[h][p].pc = "handshake"
        /\ ses' = [ses EXCEPT ![o] = Closed(AfterSeal(ses[o]))]
        /\ wire' = Put(wire, o, Sealed(ses[o], AlertPay))
    BY <1>5 DEF WriteTerminate
  <2>2. o \in Objects
    BY <2>1 DEF IInv, WritersOK, Created
  <2> HIDE DEF o
  <2>3. SessionOK(ses[o]) /\ SameKeys(ses[o], Closed(AfterSeal(ses[o])))
    BY <2>2, KeyFacts, SameKeysOf
  <2>4. WireMade(ses, wire')
    BY <1>0, <2>1, <2>2, <2>3, PayloadsOK, SendMade
  <2> QED BY <2>1, <2>2, <2>3, <2>4, QuietKeys
<1> QED BY <1>1, <1>2, <1>3, <1>4, <1>5 DEF WriteStep

LEMMA RequestKeys ==
    ASSUME IInv, KeyInv, NEW o \in Objects, RequestStep(o) PROVE KeyInv'
<1>1. SessionOK(ses[o]) /\ ses[o] \in Sessions /\ WireOK(wire) /\ WireMade(ses, wire)
  BY KeyFacts DEF IInv, KeyInv
<1>2. ses[o].asking \subseteq Refs /\ ses[o].waiting \subseteq Refs
  BY <1>1 DEF Sessions
<1>3. ASSUME NEW s, SessionOK(s), SameKeys(ses[o], s), NEW ref \in Refs, AskFor(o, s, ref),
             UNCHANGED <<gen, rl>>
      PROVE  KeyInv'
  <2> DEFINE pay == CtlPay("lost_request", ref)
  <2>1. pay \in Payloads /\ pay.typ = "ctl"
    BY PayloadsOK DEF CtlPay
  <2>2. ses' = [ses EXCEPT ![o] = AfterSeal(s)] /\ wire' = Put(wire, o, Sealed(s, pay))
    BY <1>3 DEF AskFor
  <2> HIDE DEF pay
  <2>3. WireMade(ses, wire')
    BY <1>1, <1>3, <2>1, <2>2, SendMade
  <2>4. SameKeys(s, AfterSeal(s))
    BY <1>3, SameKeysOf DEF SessionOK
  <2>5. SameKeys(ses[o], AfterSeal(s))
    BY <1>3, <2>4 DEF SameKeys
  <2> QED BY <1>3, <2>2, <2>3, <2>5, QuietKeys
<1>4. ASSUME NEW ref \in ses[o].asking, RequestLost(o, ref) PROVE KeyInv'
  <2> DEFINE s == [ses[o] EXCEPT !.asking = @ \ {ref}]
  <2> DEFINE t == [s EXCEPT !.waiting = @ \union {ref}]
  <2>1. SessionOK(s) /\ SameKeys(ses[o], s) /\ SameKeys(ses[o], t)
    <3>1. s \in Sessions /\ SessionOK(s) /\ SameKeys(ses[o], s)
      BY <1>1 DEF SessionOK, Sessions, SameKeys
    <3>2. SameKeys(s, t)
      <4> HIDE DEF s
      <4> QED BY <3>1 DEF Sessions, SameKeys
    <3> HIDE DEF s, t
    <3> QED BY <3>1, <3>2 DEF SameKeys
  <2>2. /\ UNCHANGED <<gen, rl>>
        /\ AskFor(o, s, ref) \/ (ses' = [ses EXCEPT ![o] = t] /\ wire' = wire)
    BY <1>4 DEF RequestLost
  <2> HIDE DEF s, t
  <2>3. ref \in Refs
    BY <1>2, <1>4
  <2> QED BY <1>1, <1>3, <2>1, <2>2, <2>3, QuietKeys
<1>5. ASSUME NEW ref \in ses[o].waiting, RequestLostToken(o, ref) PROVE KeyInv'
  <2> DEFINE s == [ses[o] EXCEPT !.waiting = @ \ {ref}, !.token = FALSE]
  <2>1. SessionOK(s) /\ SameKeys(ses[o], s)
    BY <1>1 DEF SessionOK, Sessions, SameKeys
  <2>2. UNCHANGED <<gen, rl>> /\ AskFor(o, s, ref)
    BY <1>5 DEF RequestLostToken
  <2> HIDE DEF s
  <2>3. ref \in Refs
    BY <1>2, <1>5
  <2> QED BY <1>3, <2>1, <2>2, <2>3
<1>6. ASSUME NEW ref \in ses[o].waiting, RequestLostGiveUp(o, ref) PROVE KeyInv'
  <2> DEFINE s == [ses[o] EXCEPT !.waiting = @ \ {ref}]
  <2>1. SameKeys(ses[o], s)
    BY <1>1 DEF Sessions, SameKeys
  <2>2. ses' = [ses EXCEPT ![o] = s] /\ UNCHANGED <<gen, rl, wire>>
    BY <1>6 DEF RequestLostGiveUp
  <2> HIDE DEF s
  <2> QED BY <1>1, <2>1, <2>2, QuietKeys
<1> QED BY <1>4, <1>5, <1>6 DEF RequestStep

\* Restart: what the abandoned sessions had derived is not undone.
LEMMA RestartKeys ==
    ASSUME IInv, KeyInv, NEW h \in Hosts, Restart(h) PROVE KeyInv'
<1>1. /\ \A x \in Objects : \/ ses'[x] = ses[x]
                            \/ x[3] <= gen[x[1]][x[2]] /\ ses'[x] = Abandoned(ses[x])
      /\ gen' = gen /\ wire' = wire /\ rl' = [rl EXCEPT ![h] = RlIdle]
  BY DEF Restart
<1>2. ASSUME NEW x \in Objects, ses'[x] = Abandoned(ses[x])
      PROVE  /\ KeysOK(x, ses'[x]) /\ Stable(ses[x], ses'[x])
             /\ ChanMade(ses, ses'[x].chan) /\ (ses'[x].complete => ses[x].complete)
  <2> DEFINE s == ses[x]
  <2> DEFINE t == ses'[x]
  <2>1. s \in Sessions /\ KeysOK(x, s)
    BY KeyFacts
  <2>2. t = Abandoned(s)
    BY <1>2
  <2> HIDE DEF s, t
  <2>3. /\ t.hs = (IF s.hs = "ok" THEN "ok" ELSE "failed") /\ t.chan = <<>>
        /\ t.rem = s.rem /\ t.master = s.master /\ t.log = s.log
        /\ t.out = s.out /\ t.in = s.in /\ t.inNext = s.inNext /\ t.complete = s.complete
    BY <2>1, <2>2 DEF Abandoned, Sessions
  <2>4. \A i \in DOMAIN t.chan : FALSE
    BY <2>3
  <2>5. KeysOK(x, t) /\ ChanMade(ses, t.chan)
    BY <2>1, <2>3, <2>4 DEF KeysOK, ChanMade
  <2>6. Stable(s, t) /\ (t.complete => s.complete)
    BY <2>3 DEF Stable
  <2> QED BY <2>5, <2>6 DEF s, t
<1>3. \A x \in Objects : /\ KeysOK(x, ses'[x])
                         /\ Stable(ses[x], ses'[x])
                         /\ ChanMade(ses, ses'[x].chan)
                         /\ ses'[x].complete => ses[x].complete
  BY <1>1, <1>2, KeyFacts DEF Stable
<1>4. UncreatedFresh'
  <2> SUFFICES ASSUME NEW x \in Objects PROVE Created(gen', x, x[1], x[2]) \/ Fresh(ses'[x])
    BY DEF UncreatedFresh
  <2>1. Created(gen, x, x[1], x[2]) \/ Fresh(ses[x])
    BY DEF KeyInv, UncreatedFresh
  <2>2. x[3] <= gen[x[1]][x[2]] => Created(gen, x, x[1], x[2])
    BY DEF Created
  <2> QED BY <1>1, <2>1, <2>2
<1>5. StoresHello'
  <2>1. RlIdle.pc = "idle"
    BY DEF RlIdle, RlAt
  <2> QED BY <1>1, <2>1, ReadLoopHello
<1>6. WireMade(ses, wire')
  BY <1>1 DEF KeyInv
<1> QED BY <1>3, <1>4, <1>5, <1>6, KeyStep

-----------------------------------------------------------------------------
(* The theorem *)

\* No session has keys at the start.
LEMMA InitKeys == ASSUME Init PROVE KeyInv
<1>1. ASSUME NEW x \in Objects PROVE KeysOK(x, ses[x]) /\ ChanMade(ses, ses[x].chan) /\ Fresh(ses[x])
  <2> DEFINE s == ses[x]
  <2>1. s = NewSession(FALSE)
    BY DEF Init, Unused
  <2>2. s \in Sessions
    BY <2>1, NewSessionOK DEF SessionOK
  <2>3. s.hs = "new" /\ ~s.passive /\ s.master = Nil /\ ~s.complete /\ s.in = Nil /\ s.inNext = Nil
        /\ s.chan = <<>>
    BY <2>1 DEF NewSession
  <2> HIDE DEF s
  <2>4. \A i \in DOMAIN s.chan : s.chan[i].m # "fin"
    BY <2>3
  <2>5. KeysOK(x, s) /\ ChanMade(ses, s.chan) /\ Fresh(s)
    BY <2>2, <2>3, <2>4, NewKeys DEF Fresh
  <2> QED BY <2>5 DEF s
<1>2. WireMade(ses, wire)
  BY DEF Init, WireMade
<1>3. StoresHello
  BY DEF Init, StoresHello, RlIdle, RlAt
<1>4. \A x \in Objects : ~ses[x].complete
  BY <1>1 DEF KeysOK, Fresh
<1> QED BY <1>1, <1>2, <1>3, <1>4 DEF KeyInv, UncreatedFresh, AgreedKeys

\* Every step keeps the invariant.
LEMMA NextKeys == ASSUME IInv, KeyInv, [Next]_vars PROVE KeyInv'
<1>0. WireOK(wire) /\ WireMade(ses, wire) /\ (gen' = gen => StillCreated)
  BY DEF IInv, KeyInv, StillCreated
<1>1. CASE UNCHANGED vars
  <2>1. UNCHANGED <<gen, ses, rl, wire>>
    BY <1>1 DEF vars
  <2> QED BY <1>0, <2>1, SameStore, SameSessions
<1>2. ASSUME NEW h \in Hosts, NEW p \in Hosts, NEW ref, ExpireLost(h, p, ref) PROVE KeyInv'
  <2>1. UNCHANGED <<gen, ses, rl, wire>>
    BY <1>2 DEF ExpireLost
  <2> QED BY <1>0, <2>1, SameStore, SameSessions
<1>3. ASSUME NEW h \in Hosts, NEW p \in Hosts, RelayDrop(h, p) PROVE KeyInv'
  <2>1. UNCHANGED <<gen, ses, rl>> /\ wire[h][p] # <<>> /\ wire' = [wire EXCEPT ![h][p] = Tail(wire[h][p])]
    BY <1>3 DEF RelayDrop
  <2>2. WireMade(ses, wire')
    BY <1>0, <2>1, TailMade
  <2> QED BY <1>0, <2>1, <2>2, SameStore, SameSessions
<1>4. ASSUME NEW h \in Hosts, RlDelete(h) PROVE KeyInv'
  <2>1. UNCHANGED <<gen, ses, wire>> /\ rl' = [rl EXCEPT ![h] = RlIdle] /\ RlIdle.pc = "idle"
    BY <1>4 DEF RlDelete, RlIdle, RlAt
  <2>2. StoresHello'
    BY <2>1, ReadLoopHello
  <2> QED BY <1>0, <2>1, <2>2, SameSessions
<1>5. ASSUME NEW h \in Hosts, ReadLoopStep(h) PROVE KeyInv'
  BY <1>4, <1>5, ReceiveKeys, RlStoreKeys, RlChangeCipherSpecKeys, RlAwaitKeys DEF ReadLoopStep
<1> QED BY <1>1, <1>2, <1>3, <1>5, WriteKeys, HandshakeKeys, RequestKeys, RlAwaitKeys, RestartKeys
        DEF Next

\* A session that readFinished accepted has derived, from a real pre-master
\* secret, the same master secret as the one peer session whose Hello it read,
\* and that peer session took this one's Hello; its two ciphers are the ones
\* of the peer's, swapped.  This is so for every set of hosts and every bound,
\* whatever restarts, resets on a plaintext Hello and crossing handshakes of
\* earlier sessions left on the wire.
THEOREM KeyAgreement == Spec => []AgreedKeys
<1>1. Init => IInv /\ KeyInv
  BY InitIInv, InitKeys
<1>2. IInv /\ KeyInv /\ [Next]_vars => IInv' /\ KeyInv'
  BY NextIInv, NextKeys
<1>3. KeyInv => AgreedKeys
  BY DEF KeyInv
<1> QED BY <1>1, <1>2, <1>3, PTL DEF Spec

-----------------------------------------------------------------------------
(* Without faults *)

\* No process died, no record was dropped and no timer fired so far.
NoFaults == faults = [restarts |-> 0, drops |-> 0, timeouts |-> 0]

\* The sessions that are ever made then, and the other end of one.
First == {o \in Objects : o[3] = 1}
Twin(o) == <<o[2], o[1], o[3]>>

\* What both ends derive.
SharedMaster(o) == Master(o, Twin(o), TRUE)
SharedLog(o) == Transcript(o, Twin(o), TRUE)

\* The j-th handshake message that o sends.
MsgNo(o, j) ==
    IF j = 1 THEN Hello(o)
    ELSE IF j = 2 THEN Kxm(o, Twin(o))
    ELSE Finished(o[1], SharedMaster(o), SharedLog(o))

\* rec is the j-th record that o sends: Hello, key exchange and CCS in the clear,
\* Finished and application messages sealed.
RecordNo(o, j, rec) ==
    /\ j \in {1, 2} => rec.key = Nil /\ rec.pay = HsPay(MsgNo(o, j))
    /\ j = 3 => rec.key = Nil /\ rec.pay = CcsPay
    /\ j >= 4 => rec.key = OutKey(o, SharedMaster(o)) /\ rec.seq = j - 4
    /\ j = 4 => rec.pay = HsPay(MsgNo(o, 3))
    /\ j > 4 => rec.pay.typ = "app"

\* The records that a session has sent ...
SentNo(s) ==
    IF s.hs = "new" THEN 0
    ELSE IF s.hs = "waitHello" THEN 1
    ELSE IF s.hs = "waitKxm" THEN 2
    ELSE IF s.hs = "switchOut" THEN 3
    ELSE 3 + s.outSeq

\* ... and those that its readLoop has opened, ...
GotNo(s) == IF s.in = Nil THEN s.inSeq ELSE 3 + s.inSeq

\* ... with so many handshake messages among the first g.
HsNo(g) == IF g <= 2 THEN g ELSE IF g = 3 THEN 2 ELSE 3

\* The handshake messages that the handshake goroutine has taken.
ReadNo(s) ==
    IF s.hs \in {"new", "waitHello"} THEN 0
    ELSE IF s.hs = "waitKxm" THEN 1
    ELSE IF s.hs \in {"switchOut", "waitFin"} THEN 2
    ELSE 3

\* handshakeChan holds those that were received and not taken.
ChanFlow(o, s) ==
    /\ Len(s.chan) + ReadNo(s) = HsNo(GotNo(s))
    /\ \A i \in DOMAIN s.chan : s.chan[i] = MsgNo(Twin(o), ReadNo(s) + i)

\* The keys of a session at each stage of its handshake.
KeyFlow(o, s) ==
    /\ s.hs \notin {"new", "waitHello"} => s.rem = Twin(o)
    /\ s.hs \in {"new", "waitHello", "waitKxm"} =>
          s.in = Nil /\ s.inNext = Nil /\ ~s.inReady
    /\ s.hs \in {"switchOut", "waitFin", "ok"} =>
          /\ s.master = SharedMaster(o) /\ s.log = SharedLog(o)
          /\ \/ s.in = Nil /\ s.inNext = InKey(o, SharedMaster(o))
             \/ s.in = InKey(o, SharedMaster(o))
    /\ s.hs \in {"new", "waitHello", "waitKxm", "switchOut"} => s.out = Nil
    /\ s.hs \in {"waitFin", "ok"} => s.out = OutKey(o, SharedMaster(o)) /\ s.outSeq >= 1
    /\ s.in = Nil => s.inSeq <= 3

\* A session of which nothing went wrong.
SessionFlow(o, s) ==
    /\ s.hs # "failed" /\ ~s.done
    /\ s.asking = {} /\ s.waiting = {}
    /\ s.complete <=> s.hs = "ok"
    /\ KeyFlow(o, s)
    /\ ChanFlow(o, s)

\* The queue from o to its twin: what was sent and not received.
QueueFlow(o, q, sentNo, got) ==
    /\ got + Len(q) = sentNo
    /\ \A i \in DOMAIN q : RecordNo(o, got + i, q[i])

WireFlow == \A o \in First :
    QueueFlow(o, wire[o[1]][o[2]], SentNo(ses[o]), GotNo(ses[Twin(o)]))

\* A readLoop that has read a CCS waits until its session has the cipher.
CcsPending(s) == s.in = Nil /\ s.inSeq = 3
ReadLoopFlow ==
    /\ \A h \in Hosts : /\ rl[h].pc \in {"idle", "await", "ccs"}
                        /\ rl[h].pc = "await" => rl[h].rec.pay.typ = "app"
                        /\ rl[h].pc = "ccs" => CcsPending(ses[rl[h].o])
    /\ \A o \in First : CcsPending(ses[o]) => rl[o[1]].pc = "ccs" /\ rl[o[1]].o = o

\* One session per host and peer, which stays in the map.
MapFlow ==
    /\ \A h, p \in Hosts : gen[h][p] = 0 \/ (gen[h][p] = 1 /\ cur[h][p] = <<h, p, 1>>)
    /\ \A h, p \in Hosts : gen[h][p] = 0 => cur[h][p] = Nil
    /\ \A o \in Objects : o[3] # 1 \/ gen[o[1]][o[2]] = 0 => ses[o] = Unused
    /\ \A h, p \in Hosts : wm[h][p].pc # "delete"

Flow ==
    /\ \A o \in First : SessionFlow(o, ses[o])
    /\ WireFlow /\ ReadLoopFlow /\ MapFlow

FlowInv == NoFaults => Flow

-----------------------------------------------------------------------------
(* The two ends, and what lies between them *)

\* The twin of a session is that of the peer, and they derive the same.
LEMMA TwinFacts ==
    ASSUME NEW o \in First
    PROVE  /\ o \in Objects /\ o = <<o[1], o[2], 1>> /\ o[1] \in Hosts /\ o[2] \in Hosts /\ o[1] # o[2]
           /\ Twin(o) \in First /\ Twin(Twin(o)) = o /\ Twin(o) # o
           /\ Twin(o)[1] = o[2] /\ Twin(o)[2] = o[1]
<1>1. o \in Objects /\ o[3] = 1
  BY DEF First
<1>2. o \in Hosts \X Hosts \X (1..MaxGen) /\ o[1] # o[2] /\ o = <<o[1], o[2], o[3]>>
  BY <1>1 DEF Objects
<1>3. Twin(o) \in Objects /\ Twin(o)[3] = 1 /\ Twin(o)[1] = o[2] /\ Twin(o)[2] = o[1]
  BY <1>1, <1>2 DEF Objects, Twin
<1> QED BY <1>1, <1>2, <1>3 DEF First, Twin

\* The transcript of a key exchange between x and y, of which x is the initiator,
\* as x puts it together ...
InitiatorLog(x, y) == <<HelloEntry(x), HelloEntry(y), KxmEntry(x)>> \o <<KxmEntry(y)>>
\* ... and as y does.
ResponderLog(x, y) == <<HelloEntry(x), HelloEntry(y)>> \o <<KxmEntry(x), KxmEntry(y)>>

\* They are the same.
LEMMA SameLogs ==
    ASSUME NEW x, NEW y PROVE InitiatorLog(x, y) = ResponderLog(x, y)
<1> DEFINE a == HelloEntry(x)
<1> DEFINE b == HelloEntry(y)
<1> DEFINE c == KxmEntry(x)
<1> DEFINE d == KxmEntry(y)
<1> DEFINE S == {a, b, c, d}
<1> DEFINE u == <<a, b, c>> \o <<d>>
<1> DEFINE v == <<a, b>> \o <<c, d>>
<1> HIDE DEF a, b, c, d
<1>1. u \in Seq(S) /\ v \in Seq(S)
  OBVIOUS
<1>2. Len(u) = 4 /\ Len(v) = 4
  OBVIOUS
<1>3. u[1] = v[1] /\ u[2] = v[2] /\ u[3] = v[3] /\ u[4] = v[4]
  OBVIOUS
<1> HIDE DEF u, v, S
<1>4. \A i \in 1..4 : u[i] = v[i]
  BY <1>3
<1>5. u = v
  BY <1>1, <1>2, <1>4
<1> QED BY <1>5 DEF u, v, a, b, c, d, InitiatorLog, ResponderLog

\* Both ends derive the same master secret and the same transcript, and each
\* one's cipher for sending is the other's for receiving.
LEMMA TwinKeys ==
    ASSUME NEW o \in First
    PROVE  /\ SharedMaster(Twin(o)) = SharedMaster(o)
           /\ SharedLog(Twin(o)) = SharedLog(o)
           /\ InKey(Twin(o), SharedMaster(o)) = OutKey(o, SharedMaster(o))
           /\ OutKey(o, SharedMaster(o)) # Nil /\ InKey(o, SharedMaster(o)) # Nil
<1>1. IsInitiator(Twin(o)) = ~IsInitiator(o)
  BY TwinFacts, HostsAssumption DEF IsInitiator
<1>2. Twin(Twin(o)) = o /\ o \in Objects /\ Twin(o) \in Objects
  BY TwinFacts DEF First
<1>3. SharedMaster(Twin(o)) = SharedMaster(o)
  BY <1>1, <1>2 DEF SharedMaster, Master
<1>4. SharedLog(Twin(o)) = SharedLog(o)
  <2> DEFINE x == Twin(o)
  <2>1. CASE IsInitiator(o)
    <3>1. SharedLog(o) = InitiatorLog(o, x) /\ SharedLog(x) = ResponderLog(o, x)
      BY <1>1, <1>2, <2>1 DEF SharedLog, Transcript, InitiatorLog, ResponderLog
    <3> QED BY <3>1, SameLogs
  <2>2. CASE ~IsInitiator(o)
    <3>1. SharedLog(o) = ResponderLog(x, o) /\ SharedLog(x) = InitiatorLog(x, o)
      BY <1>1, <1>2, <2>2 DEF SharedLog, Transcript, InitiatorLog, ResponderLog
    <3> QED BY <3>1, SameLogs
  <2> QED BY <2>1, <2>2
<1>5. SharedMaster(o) \in Masters
  BY <1>2 DEF SharedMaster, Master, Masters
<1>6. OutKey(o, SharedMaster(o)) \in Keys /\ InKey(o, SharedMaster(o)) \in Keys
  BY <1>5 DEF OutKey, InKey, Keys
<1>7. InKey(Twin(o), SharedMaster(o)) = OutKey(o, SharedMaster(o))
  BY <1>1 DEF InKey, OutKey
<1> QED BY <1>3, <1>4, <1>6, <1>7, NilAssumption

\* The messages of a handshake.
LEMMA MsgNos ==
    ASSUME NEW o \in First
    PROVE  /\ MsgNo(Twin(o), 1) = Hello(Twin(o))
           /\ MsgNo(Twin(o), 2) = Kxm(Twin(o), o)
           /\ MsgNo(Twin(o), 3) = Finished(o[2], SharedMaster(o), SharedLog(o))
BY TwinFacts, TwinKeys DEF MsgNo

\* A record joins the queue.
LEMMA QueueAppend ==
    ASSUME NEW o, NEW q \in Seq(Records), NEW n \in Nat, NEW g \in Nat,
           QueueFlow(o, q, n, g), NEW rec, RecordNo(o, n + 1, rec)
    PROVE  QueueFlow(o, Append(q, rec), n + 1, g)
<1>1. Len(Append(q, rec)) = Len(q) + 1 /\ Len(q) \in Nat /\ DOMAIN Append(q, rec) = 1..Len(q) + 1
  OBVIOUS
<1>2. \A i \in 1..Len(q) : Append(q, rec)[i] = q[i]
  OBVIOUS
<1>3. Append(q, rec)[Len(q) + 1] = rec
  OBVIOUS
<1>4. DOMAIN q = 1..Len(q) /\ g + (Len(q) + 1) = n + 1 /\ g + Len(q) = n
  BY DEF QueueFlow
<1>5. ASSUME NEW i \in DOMAIN Append(q, rec) PROVE RecordNo(o, g + i, Append(q, rec)[i])
  <2>1. CASE i \in 1..Len(q)
    BY <1>2, <1>4, <2>1 DEF QueueFlow
  <2>2. CASE i = Len(q) + 1
    BY <1>3, <1>4, <2>2
  <2> QED BY <1>1, <2>1, <2>2
<1> QED BY <1>1, <1>4, <1>5 DEF QueueFlow

\* The first record of a queue is the one that is due, and leaves it.
LEMMA QueueTail ==
    ASSUME NEW o, NEW q \in Seq(Records), NEW n \in Nat, NEW g \in Nat,
           QueueFlow(o, q, n, g), q # <<>>
    PROVE  /\ RecordNo(o, g + 1, Head(q)) /\ g + 1 <= n
           /\ QueueFlow(o, Tail(q), n, g + 1)
<1>1. Len(q) \in Nat /\ Len(q) > 0 /\ DOMAIN q = 1..Len(q) /\ Head(q) = q[1]
  OBVIOUS
<1>2. Len(Tail(q)) = Len(q) - 1 /\ DOMAIN Tail(q) = 1..Len(q) - 1
  BY <1>1
<1>3. \A i \in 1..Len(q) - 1 : Tail(q)[i] = q[i + 1]
  BY <1>1
<1>4. RecordNo(o, g + 1, Head(q)) /\ g + Len(q) = n
  BY <1>1 DEF QueueFlow
<1>5. ASSUME NEW i \in DOMAIN Tail(q) PROVE RecordNo(o, (g + 1) + i, Tail(q)[i])
  <2>1. i + 1 \in DOMAIN q /\ g + (i + 1) = (g + 1) + i
    BY <1>1, <1>2
  <2> QED BY <1>2, <1>3, <2>1 DEF QueueFlow
<1> QED BY <1>1, <1>2, <1>4, <1>5 DEF QueueFlow

\* The counters of a session.
LEMMA Counts ==
    ASSUME NEW s \in Sessions
    PROVE  SentNo(s) \in Nat /\ GotNo(s) \in Nat /\ ReadNo(s) \in 0..3
BY DEF Sessions, SentNo, GotNo, ReadNo

\* A handshake message joins handshakeChan ...
LEMMA ChanAppend ==
    ASSUME NEW o, NEW s \in Sessions, NEW t \in Sessions, ChanFlow(o, s), ReadNo(t) = ReadNo(s),
           HsNo(GotNo(t)) = HsNo(GotNo(s)) + 1,
           t.chan = Append(s.chan, MsgNo(Twin(o), HsNo(GotNo(t))))
    PROVE  ChanFlow(o, t)
<1> DEFINE c == s.chan
<1> DEFINE m == MsgNo(Twin(o), HsNo(GotNo(t)))
<1> DEFINE k == HsNo(GotNo(s))
<1> DEFINE r == ReadNo(s)
<1>1. c \in Seq(HsMsgs) /\ r \in Nat
  BY Counts DEF Sessions
<1>2. Len(c) + r = k /\ \A i \in DOMAIN c : c[i] = MsgNo(Twin(o), r + i)
  BY DEF ChanFlow
<1>3. t.chan = Append(c, m) /\ HsNo(GotNo(t)) = k + 1 /\ ReadNo(t) = r /\ m = MsgNo(Twin(o), k + 1)
  OBVIOUS
<1> HIDE DEF c, m, k, r
<1>4. DOMAIN Append(c, m) = 1..Len(c) + 1 /\ Len(Append(c, m)) = Len(c) + 1 /\ Len(c) \in Nat
      /\ DOMAIN c = 1..Len(c) /\ Append(c, m)[Len(c) + 1] = m
      /\ \A i \in 1..Len(c) : Append(c, m)[i] = c[i]
  BY <1>1
<1>5. ASSUME NEW i \in DOMAIN Append(c, m) PROVE Append(c, m)[i] = MsgNo(Twin(o), r + i)
  <2>1. CASE i \in 1..Len(c)
    BY <1>2, <1>4, <2>1
  <2>2. CASE i = Len(c) + 1
    <3>1. r + i = k + 1
      BY <1>1, <1>2, <1>4, <2>2
    <3> QED BY <1>3, <1>4, <2>2, <3>1
  <2> QED BY <1>4, <2>1, <2>2
<1>6. Len(Append(c, m)) + r = k + 1
  BY <1>1, <1>2, <1>4
<1> QED BY <1>3, <1>5, <1>6 DEF ChanFlow

\* ... and the handshake goroutine takes it from there.
LEMMA ChanTail ==
    ASSUME NEW o, NEW s \in Sessions, ChanFlow(o, s), s.chan # <<>>
    PROVE  /\ Head(s.chan) = MsgNo(Twin(o), ReadNo(s) + 1)
           /\ \A t \in Sessions : /\ t.chan = Tail(s.chan)
                                  /\ ReadNo(t) = ReadNo(s) + 1
                                  /\ GotNo(t) = GotNo(s)
                                  => ChanFlow(o, t)
<1> DEFINE c == s.chan
<1> DEFINE k == HsNo(GotNo(s))
<1> DEFINE r == ReadNo(s)
<1>1. c \in Seq(HsMsgs) /\ r \in Nat /\ c # <<>>
  BY Counts DEF Sessions
<1>2. Len(c) + r = k /\ \A i \in DOMAIN c : c[i] = MsgNo(Twin(o), r + i)
  BY DEF ChanFlow
<1> SUFFICES ASSUME NEW t \in Sessions, t.chan = Tail(c), ReadNo(t) = r + 1, HsNo(GotNo(t)) = k
             PROVE  Head(c) = MsgNo(Twin(o), r + 1) /\ ChanFlow(o, t)
  <2>1. ASSUME NEW q \in Seq(HsMsgs), q # <<>> PROVE Head(q) = q[1] /\ 1 \in DOMAIN q
    BY <2>1
  <2>2. Head(c) = c[1] /\ 1 \in DOMAIN c
    <3> HIDE DEF c
    <3> QED BY <1>1, <2>1
  <2> QED BY <1>2, <2>2
<1> HIDE DEF c, k, r
<1>3. Len(c) \in Nat /\ Len(c) > 0 /\ DOMAIN c = 1..Len(c) /\ Head(c) = c[1]
  BY <1>1
<1>4. Len(Tail(c)) = Len(c) - 1 /\ DOMAIN Tail(c) = 1..Len(c) - 1
      /\ \A i \in 1..Len(c) - 1 : Tail(c)[i] = c[i + 1]
  BY <1>1, <1>3
<1>5. ASSUME NEW i \in DOMAIN Tail(c) PROVE Tail(c)[i] = MsgNo(Twin(o), (r + 1) + i)
  <2>a. i \in 1..Len(c) - 1 /\ Tail(c)[i] = c[i + 1]
    BY <1>4
  <2> DEFINE n == Len(c)
  <2>0. n \in Nat /\ r \in Nat /\ i \in 1..n - 1
    BY <1>1, <1>3, <2>a
  <2> HIDE DEF n
  <2>c. i + 1 \in 1..n /\ r + (i + 1) = (r + 1) + i
    BY <2>0
  <2>b. i + 1 \in 1..Len(c) /\ r + (i + 1) = (r + 1) + i
    BY <2>c DEF n
  <2>1. i + 1 \in DOMAIN c /\ r + (i + 1) = (r + 1) + i /\ Tail(c)[i] = c[i + 1]
    BY <1>3, <2>a, <2>b
  <2> QED BY <1>2, <2>1
<1>6. Len(Tail(c)) + (r + 1) = k
  BY <1>1, <1>2, <1>3, <1>4
<1>7. ChanFlow(o, t)
  BY <1>5, <1>6 DEF ChanFlow
<1> QED BY <1>2, <1>3, <1>7

-----------------------------------------------------------------------------
(* Steps that change one session *)

\* What the invariant says of the sessions.
LEMMA FlowFacts ==
    ASSUME IInv, Flow, NEW o \in First
    PROVE  /\ ses \in [Objects -> Sessions] /\ ses[o] \in Sessions /\ SessionFlow(o, ses[o])
           /\ wire \in [Hosts -> [Hosts -> Seq(Records)]] /\ wire[o[1]][o[2]] \in Seq(Records)
           /\ QueueFlow(o, wire[o[1]][o[2]], SentNo(ses[o]), GotNo(ses[Twin(o)]))
           /\ ses[Twin(o)] \in Sessions
<1>1. o \in Objects /\ Twin(o) \in Objects /\ o[1] \in Hosts /\ o[2] \in Hosts
  BY TwinFacts DEF First
<1> QED BY <1>1 DEF IInv, TypeOK, Flow, WireFlow

\* A session that has done anything was made, as the first of its host and peer.
LEMMA MadeFirst ==
    ASSUME Flow, NEW o \in Objects, ses[o] # Unused
    PROVE  o \in First /\ gen[o[1]][o[2]] # 0
BY DEF Flow, MapFlow, First

\* A step that changes session o to t and the two queues of its conversation.
LEMMA FlowStep ==
    ASSUME IInv, Flow, NEW o \in First, NEW t, ses' = [ses EXCEPT ![o] = t], SessionFlow(o, t),
           QueueFlow(o, wire'[o[1]][o[2]], SentNo(t), GotNo(ses[Twin(o)])),
           QueueFlow(Twin(o), wire'[o[2]][o[1]], SentNo(ses[Twin(o)]), GotNo(t)),
           \A x \in First : x # o /\ x # Twin(o) => wire'[x[1]][x[2]] = wire[x[1]][x[2]],
           ReadLoopFlow', MapFlow'
    PROVE  Flow'
<1>1. ses'[o] = t /\ \A x \in First : x # o => ses'[x] = ses[x]
  BY FlowFacts, TwinFacts DEF First
<1>2. ASSUME NEW x \in First PROVE SessionFlow(x, ses'[x])
  BY <1>1, FlowFacts
<1>3. ASSUME NEW x \in First
      PROVE  QueueFlow(x, wire'[x[1]][x[2]], SentNo(ses'[x]), GotNo(ses'[Twin(x)]))
  <2>1. CASE x = o
    <3>1. ses'[Twin(x)] = ses[Twin(x)]
      BY <1>1, <2>1, TwinFacts
    <3> QED BY <1>1, <2>1, <3>1
  <2>2. CASE x = Twin(o)
    <3>1. x # o /\ Twin(x) = o /\ x[1] = o[2] /\ x[2] = o[1]
      BY <2>2, TwinFacts
    <3>2. ses'[x] = ses[x] /\ ses'[Twin(x)] = t
      BY <1>1, <3>1
    <3> QED BY <2>2, <3>1, <3>2
  <2>3. CASE x # o /\ x # Twin(o)
    <3>1. Twin(x) # o /\ Twin(x) \in First
      BY <2>3, TwinFacts
    <3>2. ses'[x] = ses[x] /\ ses'[Twin(x)] = ses[Twin(x)]
      BY <1>1, <2>3, <3>1
    <3>3. QueueFlow(x, wire[x[1]][x[2]], SentNo(ses[x]), GotNo(ses[Twin(x)]))
      BY FlowFacts
    <3> QED BY <2>3, <3>2, <3>3
  <2> QED BY <2>1, <2>2, <2>3
<1>4. WireFlow'
  BY <1>3 DEF WireFlow
<1> QED BY <1>2, <1>4 DEF Flow

\* The map stays as it is while a session that is in it moves.
LEMMA MapSame ==
    ASSUME IInv, Flow, NEW o \in First, NEW t, ses' = [ses EXCEPT ![o] = t],
           gen[o[1]][o[2]] # 0, UNCHANGED <<cur, gen>>, \A h, p \in Hosts : wm'[h][p].pc # "delete"
    PROVE  MapFlow'
<1>1. o \in Objects /\ o[3] = 1 /\ ses \in [Objects -> Sessions]
  BY FlowFacts DEF First
<1>2. \A x \in Objects : x[3] # 1 \/ gen[x[1]][x[2]] = 0 => ses'[x] = Unused
  BY <1>1 DEF Flow, MapFlow
<1> QED BY <1>2 DEF Flow, MapFlow

\* The readLoops stay where they are.
LEMMA ReadLoopSame ==
    ASSUME IInv, Flow, NEW o \in First, NEW t, ses' = [ses EXCEPT ![o] = t], rl' = rl,
           t.in = ses[o].in, t.inSeq = ses[o].inSeq
    PROVE  ReadLoopFlow'
<1>1. o \in Objects /\ ses \in [Objects -> Sessions]
  BY FlowFacts DEF First
<1>2. \A x \in Objects : CcsPending(ses'[x]) <=> CcsPending(ses[x])
  BY <1>1 DEF CcsPending
<1>3. \A h \in Hosts : rl[h].pc = "ccs" => rl[h].o \in Objects
  BY DEF IInv, ReadLoopsOK, RlOK
<1> QED BY <1>2, <1>3 DEF Flow, ReadLoopFlow, First

\* The readLoop of session o moves on.
LEMMA ReadLoopMoves ==
    ASSUME IInv, Flow, NEW o \in First, NEW t, ses' = [ses EXCEPT ![o] = t],
           NEW r, rl' = [rl EXCEPT ![o[1]] = r],
           rl[o[1]].pc # "ccs" \/ rl[o[1]].o = o,
           r.pc \in {"idle", "await", "ccs"}, r.pc = "await" => r.rec.pay.typ = "app",
           r.pc = "ccs" => r.o = o, CcsPending(t) <=> r.pc = "ccs"
    PROVE  ReadLoopFlow'
<1> DEFINE h == o[1]
<1>1. o \in Objects /\ ses \in [Objects -> Sessions] /\ h \in Hosts /\ rl \in [Hosts -> RlStates]
  BY FlowFacts, TwinFacts DEF First, IInv, TypeOK
<1>2. ses'[o] = t /\ \A x \in Objects : x # o => ses'[x] = ses[x]
  BY <1>1
<1>3. rl'[h] = r /\ \A a \in Hosts : a # h => rl'[a] = rl[a]
  BY <1>1
<1>4. ASSUME NEW a \in Hosts
      PROVE  /\ rl'[a].pc \in {"idle", "await", "ccs"}
             /\ rl'[a].pc = "await" => rl'[a].rec.pay.typ = "app"
             /\ rl'[a].pc = "ccs" => CcsPending(ses'[rl'[a].o])
  <2>1. CASE a = h
    BY <1>2, <1>3, <2>1
  <2>2. CASE a # h
    <3>1. rl[a].pc = "ccs" => rl[a].o \in Objects /\ rl[a].o # o
      BY <2>2 DEF IInv, ReadLoopsOK, RlOK
    <3> QED BY <1>2, <1>3, <2>2, <3>1 DEF Flow, ReadLoopFlow
  <2> QED BY <2>1, <2>2
<1>5. ASSUME NEW x \in First, CcsPending(ses'[x])
      PROVE  rl'[x[1]].pc = "ccs" /\ rl'[x[1]].o = x
  <2>1. CASE x = o
    BY <1>2, <1>3, <1>5, <2>1
  <2>2. CASE x # o
    <3>1. CcsPending(ses[x]) /\ x[1] \in Hosts
      BY <1>2, <1>5, <2>2, TwinFacts
    <3>2. rl[x[1]].pc = "ccs" /\ rl[x[1]].o = x
      BY <3>1 DEF Flow, ReadLoopFlow
    <3>3. x[1] # h
      BY <2>2, <3>2
    <3> QED BY <1>3, <3>1, <3>2, <3>3
  <2> QED BY <2>1, <2>2
<1> QED BY <1>4, <1>5 DEF ReadLoopFlow

\* A record joins one queue.
LEMMA PutQueue ==
    ASSUME NEW w \in [Hosts -> [Hosts -> Seq(Records)]], NEW o \in First, NEW rec
    PROVE  /\ Put(w, o, rec)[o[1]][o[2]] = Append(w[o[1]][o[2]], rec)
           /\ Put(w, o, rec)[o[2]][o[1]] = w[o[2]][o[1]]
           /\ \A x \in First : x # o => Put(w, o, rec)[x[1]][x[2]] = w[x[1]][x[2]]
<1>1. o[1] \in Hosts /\ o[2] \in Hosts /\ o[1] # o[2] /\ o = <<o[1], o[2], 1>>
  BY TwinFacts
<1>2. \A a, b \in Hosts : ~(a = o[1] /\ b = o[2]) => Put(w, o, rec)[a][b] = w[a][b]
  BY <1>1 DEF Put
<1>3. ASSUME NEW x \in First, x # o PROVE Put(w, o, rec)[x[1]][x[2]] = w[x[1]][x[2]]
  <2>1. x[1] \in Hosts /\ x[2] \in Hosts /\ x = <<x[1], x[2], 1>>
    BY TwinFacts
  <2>2. ~(x[1] = o[1] /\ x[2] = o[2])
    BY <1>1, <1>3, <2>1
  <2> QED BY <1>2, <2>1, <2>2
<1>4. Put(w, o, rec)[o[1]][o[2]] = Append(w[o[1]][o[2]], rec)
  BY <1>1 DEF Put
<1> QED BY <1>1, <1>2, <1>3, <1>4

\* A record leaves one queue.
LEMMA PopQueue ==
    ASSUME NEW w \in [Hosts -> [Hosts -> Seq(Records)]], NEW o \in First
    PROVE  /\ Pop(w, o[1], o[2])[o[2]][o[1]] = Tail(w[o[2]][o[1]])
           /\ Pop(w, o[1], o[2])[o[1]][o[2]] = w[o[1]][o[2]]
           /\ \A x \in First : x # Twin(o) => Pop(w, o[1], o[2])[x[1]][x[2]] = w[x[1]][x[2]]
<1>1. o[1] \in Hosts /\ o[2] \in Hosts /\ o[1] # o[2] /\ Twin(o) = <<o[2], o[1], 1>>
  BY TwinFacts
<1>2. \A a, b \in Hosts : ~(a = o[2] /\ b = o[1]) => Pop(w, o[1], o[2])[a][b] = w[a][b]
  BY <1>1 DEF Pop
<1>3. ASSUME NEW x \in First, x # Twin(o) PROVE Pop(w, o[1], o[2])[x[1]][x[2]] = w[x[1]][x[2]]
  <2>1. x[1] \in Hosts /\ x[2] \in Hosts /\ x = <<x[1], x[2], 1>>
    BY TwinFacts
  <2>2. ~(x[1] = o[2] /\ x[2] = o[1])
    BY <1>1, <1>3, <2>1
  <2> QED BY <1>2, <2>1, <2>2
<1>4. Pop(w, o[1], o[2])[o[2]][o[1]] = Tail(w[o[2]][o[1]])
  BY <1>1 DEF Pop
<1> QED BY <1>1, <1>2, <1>3, <1>4

\* Session o sends its next record.
LEMMA SendFlow ==
    ASSUME IInv, Flow, NEW o \in First, gen[o[1]][o[2]] # 0, NEW t \in Sessions, NEW rec,
           ses' = [ses EXCEPT ![o] = t], wire' = Put(wire, o, rec), SessionFlow(o, t),
           SentNo(t) = SentNo(ses[o]) + 1, RecordNo(o, SentNo(t), rec),
           t.in = ses[o].in, t.inSeq = ses[o].inSeq,
           UNCHANGED <<cur, gen, rl>>, \A h, p \in Hosts : wm'[h][p].pc # "delete"
    PROVE  Flow'
<1> DEFINE n == SentNo(ses[o])
<1> DEFINE q == wire[o[1]][o[2]]
<1> DEFINE g == GotNo(ses[Twin(o)])
<1>1. n \in Nat /\ g \in Nat /\ q \in Seq(Records) /\ QueueFlow(o, q, n, g)
  BY FlowFacts, Counts
<1>2. GotNo(t) = GotNo(ses[o]) /\ SentNo(t) = n + 1 /\ RecordNo(o, n + 1, rec)
  BY DEF GotNo
<1>3. QueueFlow(Twin(o), wire[o[2]][o[1]], SentNo(ses[Twin(o)]), GotNo(ses[o]))
  BY TwinFacts, FlowFacts
<1>4. /\ wire'[o[1]][o[2]] = Append(q, rec) /\ wire'[o[2]][o[1]] = wire[o[2]][o[1]]
      /\ \A x \in First : x # o => wire'[x[1]][x[2]] = wire[x[1]][x[2]]
  <2>1. wire \in [Hosts -> [Hosts -> Seq(Records)]] /\ wire' = Put(wire, o, rec)
    BY FlowFacts
  <2> DEFINE v == Put(wire, o, rec)
  <2>2. /\ v[o[1]][o[2]] = Append(q, rec) /\ v[o[2]][o[1]] = wire[o[2]][o[1]]
        /\ \A x \in First : x # o => v[x[1]][x[2]] = wire[x[1]][x[2]]
    BY <2>1, PutQueue, ZenonT(60)
  <2>3. wire' = v
    BY <2>1
  <2> HIDE DEF v
  <2> QED BY <2>2, <2>3
<1> HIDE DEF n, q, g
<1>5. QueueFlow(o, Append(q, rec), n + 1, g)
  BY <1>1, <1>2, QueueAppend
<1>6. MapFlow' /\ ReadLoopFlow'
  BY MapSame, ReadLoopSame
<1>7. QueueFlow(o, wire'[o[1]][o[2]], SentNo(t), GotNo(ses[Twin(o)]))
  BY <1>2, <1>4, <1>5 DEF g
<1>8. QueueFlow(Twin(o), wire'[o[2]][o[1]], SentNo(ses[Twin(o)]), GotNo(t))
  BY <1>2, <1>3, <1>4
<1> QED BY <1>4, <1>6, <1>7, <1>8, FlowStep

\* Session o moves, and no record does.
LEMMA LocalFlow ==
    ASSUME IInv, Flow, NEW o \in First, NEW t,
           ses' = [ses EXCEPT ![o] = t], wire' = wire, SessionFlow(o, t),
           SentNo(t) = SentNo(ses[o]), GotNo(t) = GotNo(ses[o]), MapFlow', ReadLoopFlow'
    PROVE  Flow'
<1>1. QueueFlow(o, wire[o[1]][o[2]], SentNo(ses[o]), GotNo(ses[Twin(o)]))
  BY FlowFacts
<1>2. QueueFlow(Twin(o), wire[o[2]][o[1]], SentNo(ses[Twin(o)]), GotNo(ses[o]))
  BY TwinFacts, FlowFacts
<1> QED BY <1>1, <1>2, FlowStep

-----------------------------------------------------------------------------
(* The handshake *)

\* encrypt changes nothing but the sequence number.
LEMMA SealFields ==
    ASSUME NEW s \in Sessions, NEW a, a = AfterSeal(s)
    PROVE  /\ a \in Sessions
           /\ a.hs = s.hs /\ a.chan = s.chan /\ a.rem = s.rem /\ a.master = s.master /\ a.log = s.log
           /\ a.complete = s.complete /\ a.done = s.done
           /\ a.in = s.in /\ a.inSeq = s.inSeq /\ a.inNext = s.inNext /\ a.inReady = s.inReady
           /\ a.out = s.out /\ a.outSeq = IF s.out = Nil THEN s.outSeq ELSE s.outSeq + 1
           /\ a.asking = s.asking /\ a.waiting = s.waiting
BY DEF AfterSeal, Sessions

\* A record sealed in the clear, and one sealed with a cipher.
LEMMA SealedFields ==
    ASSUME NEW s, NEW pay
    PROVE  /\ Sealed(s, pay).pay = pay /\ Sealed(s, pay).key = s.out
           /\ s.out # Nil => Sealed(s, pay).seq = s.outSeq
BY DEF Sealed

\* Nobody is on the way to a Delete, whether writers move or not.
LEMMA NoDelete ==
    ASSUME Flow, wm' = wm PROVE \A h, p \in Hosts : wm'[h][p].pc # "delete"
BY DEF Flow, MapFlow

\* The session that a step left behind.
LEMMA AfterFlow ==
    ASSUME IInv, IInv', NEW o \in Objects, NEW t, ses' = [ses EXCEPT ![o] = t]
    PROVE  t \in Sessions
<1>1. ses'[o] = t
  BY Types
<1> QED BY <1>1 DEF IInv, TypeOK

\* symHandshake sends the Hello.
LEMMA StartFlow ==
    ASSUME IInv, IInv', Flow, NEW o \in First, gen[o[1]][o[2]] # 0, StartHandshake(o) PROVE Flow'
<1> DEFINE s == ses[o]
<1> DEFINE a == AfterSeal(s)
<1> DEFINE t == [a EXCEPT !.hs = "waitHello"]
<1> DEFINE rec == Sealed(s, HsPay(Hello(o)))
<1>1. /\ ses' = [ses EXCEPT ![o] = t] /\ s.hs = "new" /\ wire' = Put(wire, o, rec)
      /\ UNCHANGED <<cur, gen, rl, wm>>
  BY DEF StartHandshake
<1>2. s \in Sessions /\ SessionFlow(o, s) /\ o \in Objects
  BY FlowFacts, TwinFacts
<1>3. t \in Sessions
  BY <1>1, <1>2, AfterFlow
<1>4. /\ a \in Sessions
      /\ a.hs = s.hs /\ a.chan = s.chan /\ a.rem = s.rem /\ a.master = s.master /\ a.log = s.log
      /\ a.complete = s.complete /\ a.done = s.done
      /\ a.in = s.in /\ a.inSeq = s.inSeq /\ a.inNext = s.inNext /\ a.inReady = s.inReady
      /\ a.out = s.out /\ a.asking = s.asking /\ a.waiting = s.waiting
  BY <1>2, SealFields
<1>5. rec.pay = HsPay(MsgNo(o, 1)) /\ rec.key = s.out
  BY SealedFields DEF MsgNo
<1> HIDE DEF rec, a, s
<1>6. /\ t.hs = "waitHello" /\ t.chan = s.chan /\ t.rem = s.rem /\ t.master = s.master /\ t.log = s.log
      /\ t.complete = s.complete /\ t.done = s.done
      /\ t.in = s.in /\ t.inSeq = s.inSeq /\ t.inNext = s.inNext /\ t.inReady = s.inReady
      /\ t.out = s.out /\ t.asking = s.asking /\ t.waiting = s.waiting
  BY <1>4 DEF Sessions
<1> HIDE DEF t
<1>7. KeyFlow(o, t) /\ s.out = Nil
  BY <1>1, <1>2, <1>6 DEF SessionFlow, KeyFlow
<1>8. ReadNo(t) = ReadNo(s) /\ GotNo(t) = GotNo(s) /\ SentNo(s) = 0 /\ SentNo(t) = 1
  BY <1>1, <1>6 DEF ReadNo, GotNo, SentNo
<1>9. ChanFlow(o, t)
  BY <1>2, <1>6, <1>8 DEF SessionFlow, ChanFlow
<1>10. SessionFlow(o, t)
  BY <1>1, <1>2, <1>6, <1>7, <1>9 DEF SessionFlow
<1>11. RecordNo(o, 1, rec)
  BY <1>5, <1>7 DEF RecordNo
<1>12. t.in = ses[o].in /\ t.inSeq = ses[o].inSeq /\ SentNo(t) = SentNo(ses[o]) + 1
  BY <1>6, <1>8 DEF s
<1> QED BY <1>1, <1>3, <1>8, <1>10, <1>11, <1>12, SendFlow, NoDelete

\* The handshake goroutine finds the message that is due.
LEMMA HeadFlow ==
    ASSUME NEW o \in First, NEW s \in Sessions, SessionFlow(o, s), s.chan # <<>>
    PROVE  /\ s.hs = "waitHello" => Head(s.chan) = Hello(Twin(o))
           /\ s.hs = "waitKxm" => Head(s.chan) = Kxm(Twin(o), o)
           /\ s.hs = "waitFin" => Head(s.chan) = Finished(o[2], SharedMaster(o), SharedLog(o))
<1>1. Head(s.chan) = MsgNo(Twin(o), ReadNo(s) + 1)
  BY ChanTail DEF SessionFlow
<1> QED BY <1>1, MsgNos DEF ReadNo

\* symHandshake takes the Hello and doFullHandshake sends the key exchange.
LEMMA ReadHelloFlow ==
    ASSUME IInv, IInv', Flow, NEW o \in First, gen[o[1]][o[2]] # 0, ReadHello(o) PROVE Flow'
<1> DEFINE s == ses[o]
<1> DEFINE msg == Head(s.chan)
<1> DEFINE c == Tail(s.chan)
<1> DEFINE a == AfterSeal(s)
<1> DEFINE t == [a EXCEPT !.hs = "waitKxm", !.chan = c, !.rem = msg.from]
<1> DEFINE rec == Sealed(s, HsPay(Kxm(o, msg.from)))
<1>1. s \in Sessions /\ SessionFlow(o, s) /\ o \in Objects
  BY FlowFacts, TwinFacts
<1>2. s.hs = "waitHello" /\ s.chan # <<>> /\ UNCHANGED <<cur, gen, rl, wm>>
  BY DEF ReadHello
<1>3. msg = Hello(Twin(o))
  BY <1>1, <1>2, HeadFlow
<1>4. msg.m = "hello" /\ msg.from = Twin(o)
  BY <1>3 DEF Hello
<1>5. ses' = [ses EXCEPT ![o] = t] /\ wire' = Put(wire, o, rec)
  BY <1>4 DEF ReadHello
<1>6. t \in Sessions
  BY <1>1, <1>5, AfterFlow
<1>7. /\ a \in Sessions
      /\ a.hs = s.hs /\ a.chan = s.chan /\ a.rem = s.rem /\ a.master = s.master /\ a.log = s.log
      /\ a.complete = s.complete /\ a.done = s.done
      /\ a.in = s.in /\ a.inSeq = s.inSeq /\ a.inNext = s.inNext /\ a.inReady = s.inReady
      /\ a.out = s.out /\ a.asking = s.asking /\ a.waiting = s.waiting
  BY <1>1, SealFields
<1>8. rec.pay = HsPay(MsgNo(o, 2)) /\ rec.key = s.out
  BY <1>4, SealedFields DEF MsgNo
<1> HIDE DEF rec, a, c, msg, s
<1>9. /\ t.hs = "waitKxm" /\ t.chan = c /\ t.rem = Twin(o) /\ t.master = s.master /\ t.log = s.log
      /\ t.complete = s.complete /\ t.done = s.done
      /\ t.in = s.in /\ t.inSeq = s.inSeq /\ t.inNext = s.inNext /\ t.inReady = s.inReady
      /\ t.out = s.out /\ t.asking = s.asking /\ t.waiting = s.waiting
  BY <1>4, <1>7 DEF Sessions
<1> HIDE DEF t
<1>10. KeyFlow(o, t) /\ s.out = Nil
  BY <1>1, <1>2, <1>9 DEF SessionFlow, KeyFlow
<1>11. ReadNo(t) = ReadNo(s) + 1 /\ GotNo(t) = GotNo(s) /\ SentNo(s) = 1 /\ SentNo(t) = 2
  BY <1>2, <1>9 DEF ReadNo, GotNo, SentNo
<1>12. ChanFlow(o, t)
  BY <1>1, <1>2, <1>6, <1>9, <1>11, ChanTail DEF SessionFlow, c
<1>13. SessionFlow(o, t)
  BY <1>1, <1>2, <1>9, <1>10, <1>12 DEF SessionFlow
<1>14. RecordNo(o, 2, rec)
  BY <1>8, <1>10 DEF RecordNo
<1>15. t.in = ses[o].in /\ t.inSeq = ses[o].inSeq /\ SentNo(t) = SentNo(ses[o]) + 1
  BY <1>9, <1>11 DEF s
<1> QED BY <1>2, <1>5, <1>6, <1>11, <1>13, <1>14, <1>15, SendFlow, NoDelete

\* doFullHandshake takes the key exchange, establishKeys prepares the ciphers
\* and sendFinished sends its CCS.
LEMMA ReadKxmFlow ==
    ASSUME IInv, IInv', Flow, NEW o \in First, gen[o[1]][o[2]] # 0, ReadKxm(o) PROVE Flow'
<1> DEFINE s == ses[o]
<1> DEFINE msg == Head(s.chan)
<1> DEFINE c == Tail(s.chan)
<1> DEFINE a == AfterSeal(s)
<1> DEFINE M == SharedMaster(o)
<1> DEFINE L == SharedLog(o)
<1> DEFINE b == Prepared(o, a, M)
<1> DEFINE t == [b EXCEPT !.hs = "switchOut", !.chan = c, !.log = L]
<1> DEFINE rec == Sealed(s, CcsPay)
<1>1. s \in Sessions /\ SessionFlow(o, s) /\ o \in Objects
  BY FlowFacts, TwinFacts
<1>2. s.hs = "waitKxm" /\ s.chan # <<>> /\ UNCHANGED <<cur, gen, rl, wm>>
  BY DEF ReadKxm
<1>3. msg = Kxm(Twin(o), o) /\ s.rem = Twin(o)
  BY <1>1, <1>2, HeadFlow DEF SessionFlow, KeyFlow
<1>4. (msg.m = "kxm") = TRUE /\ KxmAccepted(o, msg)
  BY <1>3 DEF Kxm, KxmAccepted
<1>5. ses' = [ses EXCEPT ![o] = t] /\ wire' = Put(wire, o, rec)
  BY <1>3, <1>4 DEF ReadKxm, SharedMaster, SharedLog
<1>6. t \in Sessions
  BY <1>1, <1>5, AfterFlow
<1>7. /\ a \in Sessions
      /\ a.hs = s.hs /\ a.chan = s.chan /\ a.rem = s.rem /\ a.master = s.master /\ a.log = s.log
      /\ a.complete = s.complete /\ a.done = s.done
      /\ a.in = s.in /\ a.inSeq = s.inSeq /\ a.inNext = s.inNext /\ a.inReady = s.inReady
      /\ a.out = s.out /\ a.asking = s.asking /\ a.waiting = s.waiting
  BY <1>1, SealFields
<1>8. rec.pay = CcsPay /\ rec.key = s.out
  BY SealedFields
<1> HIDE DEF rec, a, c, msg, s, M, L
<1>9. /\ t.hs = "switchOut" /\ t.chan = c /\ t.rem = s.rem /\ t.master = M /\ t.log = L
      /\ t.complete = s.complete /\ t.done = s.done
      /\ t.in = s.in /\ t.inSeq = s.inSeq /\ t.inNext = InKey(o, M)
      /\ t.out = s.out /\ t.asking = s.asking /\ t.waiting = s.waiting
  BY <1>7 DEF Prepared, Sessions
<1> HIDE DEF t, b
<1>10. KeyFlow(o, t) /\ s.out = Nil
  BY <1>1, <1>2, <1>3, <1>9 DEF SessionFlow, KeyFlow, M, L
<1>11. ReadNo(t) = ReadNo(s) + 1 /\ GotNo(t) = GotNo(s) /\ SentNo(s) = 2 /\ SentNo(t) = 3
  BY <1>2, <1>9 DEF ReadNo, GotNo, SentNo
<1>12. ChanFlow(o, t)
  BY <1>1, <1>2, <1>6, <1>9, <1>11, ChanTail DEF SessionFlow, c
<1>13. SessionFlow(o, t)
  BY <1>1, <1>2, <1>9, <1>10, <1>12 DEF SessionFlow
<1>14. RecordNo(o, 3, rec)
  BY <1>8, <1>10 DEF RecordNo
<1>15. t.in = ses[o].in /\ t.inSeq = ses[o].inSeq /\ SentNo(t) = SentNo(ses[o]) + 1
  BY <1>9, <1>11 DEF s
<1> QED BY <1>2, <1>5, <1>6, <1>11, <1>13, <1>14, <1>15, SendFlow, NoDelete

\* sendFinished switches the cipher and sends Finished.
LEMMA SwitchOutFlow ==
    ASSUME IInv, IInv', Flow, NEW o \in First, gen[o[1]][o[2]] # 0, SwitchOut(o) PROVE Flow'
<1> DEFINE s == ses[o]
<1> DEFINE M == SharedMaster(o)
<1> DEFINE b == [s EXCEPT !.out = OutKey(o, s.master), !.outSeq = 0]
<1> DEFINE a == AfterSeal(b)
<1> DEFINE t == [a EXCEPT !.hs = "waitFin"]
<1> DEFINE rec == Sealed(b, HsPay(Finished(o[1], b.master, b.log)))
<1>1. s \in Sessions /\ SessionFlow(o, s) /\ o \in Objects
  BY FlowFacts, TwinFacts
<1>2. /\ s.hs = "switchOut" /\ UNCHANGED <<cur, gen, rl, wm>>
      /\ ses' = [ses EXCEPT ![o] = t] /\ wire' = Put(wire, o, rec)
  BY DEF SwitchOut
<1>3. s.master = M /\ s.log = SharedLog(o) /\ OutKey(o, M) # Nil
  BY <1>1, <1>2, TwinKeys DEF SessionFlow, KeyFlow
<1>4. t \in Sessions
  BY <1>1, <1>2, AfterFlow
<1>5. SessionOK(s)
  BY <1>1 DEF IInv
<1> HIDE DEF s, M
<1>6. b \in Sessions
  BY <1>1, <1>2, <1>5 DEF SessionOK, Sessions, OutKey, Keys
<1>7. /\ b.hs = s.hs /\ b.chan = s.chan /\ b.rem = s.rem /\ b.master = s.master /\ b.log = s.log
      /\ b.complete = s.complete /\ b.done = s.done
      /\ b.in = s.in /\ b.inSeq = s.inSeq /\ b.inNext = s.inNext /\ b.inReady = s.inReady
      /\ b.out = OutKey(o, M) /\ b.outSeq = 0 /\ b.asking = s.asking /\ b.waiting = s.waiting
  BY <1>1, <1>3 DEF Sessions
<1> HIDE DEF b
<1>8. /\ a \in Sessions
      /\ a.hs = s.hs /\ a.chan = s.chan /\ a.rem = s.rem /\ a.master = s.master /\ a.log = s.log
      /\ a.complete = s.complete /\ a.done = s.done
      /\ a.in = s.in /\ a.inSeq = s.inSeq /\ a.inNext = s.inNext /\ a.inReady = s.inReady
      /\ a.out = OutKey(o, M) /\ a.outSeq = 1 /\ a.asking = s.asking /\ a.waiting = s.waiting
  BY <1>3, <1>6, <1>7, SealFields
<1>9. rec.pay = HsPay(MsgNo(o, 3)) /\ rec.key = OutKey(o, M) /\ rec.seq = 0
  BY <1>3, <1>7, SealedFields DEF MsgNo, M
<1> HIDE DEF rec, a
<1>10. /\ t.hs = "waitFin" /\ t.chan = s.chan /\ t.rem = s.rem /\ t.master = s.master /\ t.log = s.log
       /\ t.complete = s.complete /\ t.done = s.done
       /\ t.in = s.in /\ t.inSeq = s.inSeq /\ t.inNext = s.inNext /\ t.inReady = s.inReady
       /\ t.out = OutKey(o, M) /\ t.outSeq = 1 /\ t.asking = s.asking /\ t.waiting = s.waiting
  BY <1>8 DEF Sessions
<1> HIDE DEF t
<1>11. KeyFlow(o, t)
  BY <1>1, <1>2, <1>10 DEF SessionFlow, KeyFlow, M
<1>12. ReadNo(t) = ReadNo(s) /\ GotNo(t) = GotNo(s) /\ SentNo(s) = 3 /\ SentNo(t) = 4
  BY <1>2, <1>10 DEF ReadNo, GotNo, SentNo
<1>13. ChanFlow(o, t)
  BY <1>1, <1>10, <1>12 DEF SessionFlow, ChanFlow
<1>14. SessionFlow(o, t)
  BY <1>1, <1>2, <1>10, <1>11, <1>13 DEF SessionFlow
<1>15. RecordNo(o, 4, rec)
  BY <1>9 DEF RecordNo, M
<1>16. t.in = ses[o].in /\ t.inSeq = ses[o].inSeq /\ SentNo(t) = SentNo(ses[o]) + 1
  BY <1>10, <1>12 DEF s
<1> QED BY <1>2, <1>4, <1>12, <1>14, <1>15, <1>16, SendFlow, NoDelete

\* readFinished accepts, and the handshake is complete.
LEMMA ReadFinishedFlow ==
    ASSUME IInv, IInv', Flow, NEW o \in First, gen[o[1]][o[2]] # 0, ReadFinished(o) PROVE Flow'
<1> DEFINE s == ses[o]
<1> DEFINE c == Tail(s.chan)
<1> DEFINE t == [Completed(s) EXCEPT !.chan = c]
<1>1. s \in Sessions /\ SessionFlow(o, s) /\ o \in Objects
  BY FlowFacts, TwinFacts
<1>2. s.hs = "waitFin" /\ s.chan # <<>> /\ UNCHANGED <<cur, gen, rl, wm>>
  BY DEF ReadFinished
<1>3. FinishedAccepted(o, Head(s.chan))
  BY <1>1, <1>2, HeadFlow DEF FinishedAccepted, SessionFlow, KeyFlow
<1>4. ses' = [ses EXCEPT ![o] = t] /\ wire' = wire
  BY <1>3 DEF ReadFinished
<1>5. t \in Sessions
  BY <1>1, <1>4, AfterFlow
<1> HIDE DEF c, s
<1>6. /\ t.hs = "ok" /\ t.chan = c /\ t.rem = s.rem /\ t.master = s.master /\ t.log = s.log
      /\ t.complete = TRUE /\ t.done = s.done
      /\ t.in = s.in /\ t.inSeq = s.inSeq /\ t.inNext = s.inNext /\ t.inReady = s.inReady
      /\ t.out = s.out /\ t.outSeq = s.outSeq /\ t.asking = s.asking /\ t.waiting = s.waiting
  BY <1>1 DEF Completed, Sessions
<1> HIDE DEF t
<1>7. KeyFlow(o, t)
  BY <1>1, <1>2, <1>6 DEF SessionFlow, KeyFlow
<1>8. ReadNo(t) = ReadNo(s) + 1 /\ GotNo(t) = GotNo(s) /\ SentNo(t) = SentNo(s)
  BY <1>2, <1>6 DEF ReadNo, GotNo, SentNo
<1>9. ChanFlow(o, t)
  BY <1>1, <1>2, <1>5, <1>6, <1>8, ChanTail DEF SessionFlow, c
<1>10. SessionFlow(o, t)
  BY <1>1, <1>6, <1>7, <1>9 DEF SessionFlow
<1>11. MapFlow' /\ ReadLoopFlow'
  BY <1>2, <1>4, <1>6, MapSame, ReadLoopSame, NoDelete DEF s
<1> QED BY <1>4, <1>8, <1>10, <1>11, LocalFlow DEF s

\* Every step of a handshake goroutine.
LEMMA HandshakeFlow ==
    ASSUME IInv, IInv', Flow, NEW o \in Objects, HandshakeStep(o) PROVE Flow'
<1>1. Unused.hs = "new" /\ Unused.passive = FALSE
  BY DEF Unused, NewSession
<1>2. ses[o] # Unused
  BY <1>1 DEF HandshakeStep, PassiveHandshake, HandshakeClosed, ReadHello, ReadKxm, SwitchOut, ReadFinished
<1>3. o \in First /\ gen[o[1]][o[2]] # 0
  BY <1>2, MadeFirst
<1>4. ~HandshakeClosed(o)
  BY <1>3, FlowFacts DEF HandshakeClosed, SessionFlow
<1> QED BY <1>3, <1>4, StartFlow, ReadHelloFlow, ReadKxmFlow, SwitchOutFlow, ReadFinishedFlow
        DEF HandshakeStep, PassiveHandshake

-----------------------------------------------------------------------------
(* WriteMessage *)

\* The session of a writer is the one in the map.
LEMMA WriterSession ==
    ASSUME IInv, Flow, NEW h \in Hosts, NEW p \in Hosts, wm[h][p].pc # "idle"
    PROVE  wm[h][p].o \in First /\ wm[h][p].o = <<h, p, 1>> /\ gen[h][p] # 0
<1> DEFINE o == wm[h][p].o
<1>1. o \in Objects /\ o[1] = h /\ o[2] = p /\ o[3] <= gen[h][p]
  BY DEF IInv, WritersOK, Created
<1>2. gen[h][p] = 0 \/ gen[h][p] = 1
  BY DEF Flow, MapFlow
<1>3. o[3] \in 1..MaxGen /\ MaxGen \in Nat /\ o = <<o[1], o[2], o[3]>>
  BY <1>1, BoundsAssumption DEF Objects
<1>4. o[3] = 1 /\ gen[h][p] = 1
  BY <1>1, <1>2, <1>3
<1> QED BY <1>1, <1>3, <1>4 DEF First

\* The writer sends application data.
LEMMA WriteSendFlow ==
    ASSUME IInv, IInv', Flow, NEW h \in Hosts, NEW p \in Hosts, WriteSend(h, p) PROVE Flow'
<1> DEFINE o == wm[h][p].o
<1> DEFINE s == ses[o]
<1> DEFINE M == SharedMaster(o)
<1> DEFINE t == AfterSeal(s)
<1> DEFINE rec == Sealed(s, AppPay(sent[h][p]))
<1>1. /\ wm[h][p].pc = "send" /\ UNCHANGED <<cur, gen, rl>>
      /\ ses' = [ses EXCEPT ![o] = t] /\ wire' = Put(wire, o, rec)
      /\ wm' = [wm EXCEPT ![h][p] = WmIdle]
  BY DEF WriteSend
<1>2. o \in First /\ gen[o[1]][o[2]] # 0
  BY <1>1, WriterSession
<1>3. s \in Sessions /\ SessionFlow(o, s) /\ o \in Objects /\ s.complete
  BY <1>1, <1>2, FlowFacts, TwinFacts DEF IInv, WritersOK
<1>4. s.hs = "ok" /\ s.out = OutKey(o, M) /\ s.out # Nil /\ s.outSeq \in Nat /\ s.outSeq >= 1
  BY <1>2, <1>3, TwinKeys DEF SessionFlow, KeyFlow, Sessions
<1>5. t \in Sessions
  BY <1>1, <1>3, AfterFlow
<1>6. \A a, b \in Hosts : wm'[a][b].pc # "delete"
  <2>1. \A a, b \in Hosts : wm'[a][b] = IF a = h /\ b = p THEN WmIdle ELSE wm[a][b]
    BY <1>1, Types
  <2> QED BY <2>1, WmIdleOK DEF Flow, MapFlow
<1>7. /\ t.hs = s.hs /\ t.chan = s.chan /\ t.rem = s.rem /\ t.master = s.master /\ t.log = s.log
      /\ t.complete = s.complete /\ t.done = s.done
      /\ t.in = s.in /\ t.inSeq = s.inSeq /\ t.inNext = s.inNext /\ t.inReady = s.inReady
      /\ t.out = s.out /\ t.outSeq = s.outSeq + 1 /\ t.asking = s.asking /\ t.waiting = s.waiting
  <2>1. t = AfterSeal(s) /\ s \in Sessions /\ s.out # Nil
    BY <1>3, <1>4
  <2> HIDE DEF t, s
  <2>2. t.outSeq = IF s.out = Nil THEN s.outSeq ELSE s.outSeq + 1
    BY <2>1, SealFields
  <2>3. t.outSeq = s.outSeq + 1
    BY <2>1, <2>2
  <2> QED BY <2>1, <2>3, SealFields
<1>8. rec.pay.typ = "app" /\ rec.key = s.out /\ rec.seq = s.outSeq
  <2>1. AppPay(sent[h][p]).typ = "app"
    BY DEF AppPay
  <2> QED BY <1>4, <2>1, SealedFields
<1> HIDE DEF rec, t, s, M, o
<1>9. KeyFlow(o, t)
  BY <1>3, <1>4, <1>7 DEF SessionFlow, KeyFlow, M
<1>10. ReadNo(t) = ReadNo(s) /\ GotNo(t) = GotNo(s) /\ SentNo(s) = 3 + s.outSeq /\ SentNo(t) = 4 + s.outSeq
  BY <1>4, <1>7 DEF ReadNo, GotNo, SentNo
<1>11. ChanFlow(o, t)
  BY <1>3, <1>7, <1>10 DEF SessionFlow, ChanFlow
<1>12. SessionFlow(o, t)
  BY <1>3, <1>7, <1>9, <1>11 DEF SessionFlow
<1>13. RecordNo(o, SentNo(t), rec)
  BY <1>4, <1>8, <1>10 DEF RecordNo, M
<1>14. t.in = ses[o].in /\ t.inSeq = ses[o].inSeq /\ SentNo(t) = SentNo(ses[o]) + 1
  BY <1>4, <1>7, <1>10 DEF s
<1> QED BY <1>1, <1>2, <1>5, <1>6, <1>12, <1>13, <1>14, SendFlow

\* LoadOrStore finds the session or makes it.
LEMMA MapEntry ==
    ASSUME IInv, Flow, NEW h \in Hosts, NEW p \in Hosts, h # p
    PROVE  /\ Entry(h, p) = <<h, p, 1>>
           /\ (IF cur[h][p] = Nil THEN gen[h][p] + 1 ELSE gen[h][p]) = 1
           /\ cur[h][p] = Nil <=> gen[h][p] = 0
<1>1. gen[h][p] = 0 => cur[h][p] = Nil
  BY DEF Flow, MapFlow
<1>2. gen[h][p] # 0 => gen[h][p] = 1 /\ cur[h][p] = <<h, p, 1>>
  BY DEF Flow, MapFlow
<1>3. gen[h][p] # 0 => cur[h][p] # Nil
  <2>1. CASE gen[h][p] = 0
    BY <1>1, <2>1
  <2>2. CASE gen[h][p] # 0
    <3>1. 1 \in 1..MaxGen
      BY <1>2, <2>2, Types
    <3>2. <<h, p, 1>> \in Objects
      BY <3>1 DEF Objects
    <3> QED BY <1>2, <2>2, <3>2, NilAssumption
  <2> QED BY <2>1, <2>2
<1> QED BY <1>1, <1>2, <1>3, Types DEF Entry

\* LoadOrStore, and a handshake that is complete already.
LEMMA WriteOtherFlow ==
    ASSUME IInv, IInv', Flow, NEW h \in Hosts, NEW p \in Hosts, WriteStart(h, p) \/ WriteReady(h, p)
    PROVE  Flow'
<1>1. UNCHANGED <<ses, wire, rl>>
  BY DEF WriteStart, WriteReady
<1>2. (\A o \in First : SessionFlow(o, ses'[o])) /\ WireFlow' /\ ReadLoopFlow'
  BY <1>1 DEF Flow, WireFlow, ReadLoopFlow
<1>3. CASE WriteReady(h, p)
  <2>1. \A a, b \in Hosts : wm'[a][b] = IF a = h /\ b = p THEN WmAt("send", wm[h][p].o) ELSE wm[a][b]
    BY <1>3, Types DEF WriteReady
  <2>2. UNCHANGED <<cur, gen>>
    BY <1>3 DEF WriteReady
  <2>3. MapFlow'
    BY <1>1, <2>1, <2>2 DEF Flow, MapFlow, WmAt
  <2> QED BY <1>2, <2>3 DEF Flow
<1>4. CASE WriteStart(h, p)
  <2> DEFINE o == Entry(h, p)
  <2>1. \A a, b \in Hosts : wm'[a][b] = IF a = h /\ b = p THEN WmAt("handshake", o) ELSE wm[a][b]
    BY <1>4, Types DEF WriteStart
  <2>2. \A a, b \in Hosts : cur'[a][b] = IF a = h /\ b = p THEN o ELSE cur[a][b]
    BY <1>4, Types DEF WriteStart
  <2>3. \A a, b \in Hosts : gen'[a][b] =
          IF a = h /\ b = p THEN (IF cur[h][p] = Nil THEN gen[h][p] + 1 ELSE gen[h][p])
                                         ELSE gen[a][b]
    BY <1>4, Types DEF WriteStart, GenAfter
  <2>4. o = <<h, p, 1>> /\ gen'[h][p] = 1
    BY <1>4, <2>3, MapEntry DEF WriteStart
  <2>5. ASSUME NEW x \in Objects, x[3] # 1 \/ gen'[x[1]][x[2]] = 0 PROVE ses'[x] = Unused
    <3>1. x[3] # 1 \/ gen[x[1]][x[2]] = 0
      BY <2>3, <2>4, <2>5, ObjectFields
    <3> QED BY <1>1, <3>1 DEF Flow, MapFlow
  <2> HIDE DEF o
  <2>6. MapFlow'
    BY <2>1, <2>2, <2>3, <2>4, <2>5 DEF Flow, MapFlow, WmAt
  <2> QED BY <1>2, <2>6 DEF Flow
<1> QED BY <1>3, <1>4

-----------------------------------------------------------------------------
(* The readLoop *)

\* LoadOrStore of the readLoop, for a session that is then t.
LEMMA MapTake ==
    ASSUME IInv, Flow, NEW o \in First, NEW t, ses' = [ses EXCEPT ![o] = t],
           cur' = [cur EXCEPT ![o[1]][o[2]] = o], gen' = GenAfter(o[1], o[2]), wm' = wm
    PROVE  MapFlow'
<1> DEFINE h == o[1]
<1> DEFINE p == o[2]
<1>1. h \in Hosts /\ p \in Hosts /\ h # p /\ o = <<h, p, 1>> /\ o \in Objects
  BY TwinFacts
<1>2. \A a, b \in Hosts : cur'[a][b] = IF a = h /\ b = p THEN o ELSE cur[a][b]
  BY <1>1, Types
<1>3. \A a, b \in Hosts : gen'[a][b] =
          IF a = h /\ b = p THEN (IF cur[h][p] = Nil THEN gen[h][p] + 1 ELSE gen[h][p])
                                       ELSE gen[a][b]
  BY <1>1, Types DEF GenAfter
<1>4. gen'[h][p] = 1 /\ cur'[h][p] = <<h, p, 1>>
  BY <1>1, <1>2, <1>3, MapEntry
<1>5. ASSUME NEW x \in Objects, x[3] # 1 \/ gen'[x[1]][x[2]] = 0 PROVE ses'[x] = Unused
  <2>1. x[3] # 1 \/ gen[x[1]][x[2]] = 0
    BY <1>3, <1>4, <1>5, ObjectFields
  <2>2. x # o
    BY <1>1, <1>4, <1>5
  <2>3. ses'[x] = ses[x]
    BY <1>1, <2>2, Types
  <2> QED BY <2>1, <2>3 DEF Flow, MapFlow
<1> HIDE DEF h, p
<1>6. \A a, b \in Hosts : gen'[a][b] = 0 \/ (gen'[a][b] = 1 /\ cur'[a][b] = <<a, b, 1>>)
  BY <1>2, <1>3, <1>4 DEF Flow, MapFlow
<1>7. \A a, b \in Hosts : gen'[a][b] = 0 => cur'[a][b] = Nil
  BY <1>2, <1>3, <1>4 DEF Flow, MapFlow
<1> QED BY <1>5, <1>6, <1>7, NoDelete DEF MapFlow

\* The readLoop takes the record that is due.
LEMMA TakeFlow ==
    ASSUME IInv, Flow, NEW o \in First, wire[o[2]][o[1]] # <<>>, NEW t,
           ses' = [ses EXCEPT ![o] = t], wire' = Pop(wire, o[1], o[2]), SessionFlow(o, t),
           SentNo(t) = SentNo(ses[o]), GotNo(t) = GotNo(ses[o]) + 1, MapFlow', ReadLoopFlow'
    PROVE  Flow'
<1> DEFINE x == Twin(o)
<1> DEFINE q == wire[o[2]][o[1]]
<1> DEFINE n == SentNo(ses[x])
<1> DEFINE g == GotNo(ses[o])
<1>1. x \in First /\ x[1] = o[2] /\ x[2] = o[1] /\ Twin(x) = o
  BY TwinFacts
<1>2. q \in Seq(Records) /\ QueueFlow(x, q, n, g) /\ n \in Nat /\ g \in Nat /\ q # <<>>
  BY <1>1, FlowFacts, Counts
<1>3. /\ wire'[o[2]][o[1]] = Tail(q) /\ wire'[o[1]][o[2]] = wire[o[1]][o[2]]
      /\ \A y \in First : y # x => wire'[y[1]][y[2]] = wire[y[1]][y[2]]
  BY FlowFacts, PopQueue
<1>4. QueueFlow(o, wire[o[1]][o[2]], SentNo(ses[o]), GotNo(ses[x]))
  BY FlowFacts
<1>5. GotNo(t) = g + 1
  OBVIOUS
<1> HIDE DEF q, n, g, x
<1>6. QueueFlow(x, Tail(q), n, g + 1)
  BY <1>2, QueueTail
<1>7. QueueFlow(Twin(o), wire'[o[2]][o[1]], SentNo(ses[Twin(o)]), GotNo(t))
  BY <1>3, <1>5, <1>6 DEF x, n
<1>8. QueueFlow(o, wire'[o[1]][o[2]], SentNo(t), GotNo(ses[Twin(o)]))
  BY <1>3, <1>4 DEF x
<1>9. \A y \in First : y # o /\ y # Twin(o) => wire'[y[1]][y[2]] = wire[y[1]][y[2]]
  BY <1>3 DEF x
<1> QED BY <1>7, <1>8, <1>9, FlowStep

\* What the record that is due can be, and that the session can open it.
LEMMA DueRecord ==
    ASSUME NEW o \in First, NEW s \in Sessions, SessionFlow(o, s), ~CcsPending(s),
           NEW rec, RecordNo(Twin(o), GotNo(s) + 1, rec)
    PROVE  /\ Decrypts(s, rec) /\ ~Unreadable(s, rec)
           /\ \/ /\ rec.pay.typ = "hs" /\ rec.pay.msg = MsgNo(Twin(o), HsNo(GotNo(s) + 1))
                 /\ HsNo(GotNo(s) + 1) = HsNo(GotNo(s)) + 1
                 /\ Len(s.chan) < 2
                 /\ s.in = Nil => s.inSeq <= 1
              \/ rec.pay.typ = "ccs" /\ s.in = Nil /\ s.inSeq = 2
              \/ rec.pay.typ = "app" /\ s.in # Nil /\ s.inSeq >= 1
<1> DEFINE M == SharedMaster(o)
<1> DEFINE g == GotNo(s)
<1>1. /\ g \in Nat /\ s.inSeq \in Nat /\ s.hs \in HsStates
      /\ s.in = Nil => s.inSeq <= 2
  BY Counts DEF Sessions, SessionFlow, KeyFlow, CcsPending
<1>2. /\ OutKey(Twin(o), SharedMaster(Twin(o))) = InKey(o, M) /\ InKey(o, M) # Nil
  BY TwinFacts, TwinKeys
<1>3. ReadNo(s) \in 0..3 /\ Len(s.chan) + ReadNo(s) = HsNo(g) /\ Len(s.chan) \in Nat
  BY Counts DEF SessionFlow, ChanFlow, Sessions
<1>4. CASE s.in = Nil
  <2>1. g = s.inSeq
    BY <1>4 DEF GotNo
  <2>2. rec.key = Nil
    BY <1>1, <1>4, <2>1 DEF RecordNo
  <2>3. CASE g = 2
    <3>1. rec.pay.typ = "ccs"
      BY <2>3 DEF RecordNo, CcsPay
    <3> QED BY <1>4, <2>1, <2>2, <2>3, <3>1 DEF Decrypts, Unreadable
  <2>4. CASE g \in {0, 1}
    <3>1. rec.pay = HsPay(MsgNo(Twin(o), g + 1))
      BY <2>4 DEF RecordNo
    <3>2. rec.pay.typ = "hs" /\ rec.pay.msg = MsgNo(Twin(o), g + 1)
      BY <3>1 DEF HsPay
    <3>3. HsNo(g + 1) = g + 1 /\ HsNo(g) = g
      BY <2>4 DEF HsNo
    <3>4. Len(s.chan) < 2
      BY <1>3, <2>4, <3>3
    <3> QED BY <1>4, <2>1, <2>2, <2>4, <3>2, <3>3, <3>4 DEF Decrypts, Unreadable
  <2> QED BY <1>1, <1>4, <2>1, <2>3, <2>4
<1>5. CASE s.in # Nil
  <2>1. g = 3 + s.inSeq
    BY <1>5 DEF GotNo
  <2>2. s.hs \in {"switchOut", "waitFin", "ok"} /\ s.in = InKey(o, M)
    BY <1>1, <1>5 DEF SessionFlow, KeyFlow, HsStates
  <2>3. rec.key = s.in /\ rec.seq = s.inSeq
    BY <1>1, <1>2, <2>1, <2>2 DEF RecordNo
  <2>4. Decrypts(s, rec) /\ ~Unreadable(s, rec)
    BY <1>5, <2>3 DEF Decrypts, Unreadable
  <2>5. CASE s.inSeq = 0
    <3>1. g = 3 /\ HsNo(g) = 2 /\ HsNo(g + 1) = 3
      BY <2>1, <2>5 DEF HsNo
    <3>2. rec.pay = HsPay(MsgNo(Twin(o), 3))
      BY <3>1 DEF RecordNo
    <3>3. rec.pay.typ = "hs" /\ rec.pay.msg = MsgNo(Twin(o), 3)
      BY <3>2 DEF HsPay
    <3>4. ReadNo(s) >= 2
      BY <2>2 DEF ReadNo
    <3> QED BY <1>3, <1>5, <2>4, <3>1, <3>3, <3>4
  <2>6. CASE s.inSeq >= 1
    <3>1. rec.pay.typ = "app"
      BY <1>1, <2>1, <2>6 DEF RecordNo
    <3> QED BY <1>5, <2>4, <2>6, <3>1
  <2> QED BY <1>1, <2>5, <2>6
<1> QED BY <1>4, <1>5

\* A session that the readLoop makes.
LEMMA NewFlow ==
    ASSUME NEW o, NEW b \in BOOLEAN
    PROVE  /\ SessionFlow(o, NewSession(b)) /\ NewSession(b) \in Sessions
           /\ SentNo(NewSession(b)) = 0 /\ GotNo(NewSession(b)) = 0
<1> DEFINE s == NewSession(b)
<1>1. /\ s.hs = "new" /\ s.chan = <<>> /\ ~s.complete /\ ~s.done /\ s.in = Nil /\ s.inSeq = 0
      /\ s.inNext = Nil /\ ~s.inReady /\ s.out = Nil /\ s.asking = {} /\ s.waiting = {}
  BY DEF NewSession
<1>2. s \in Sessions
  BY NewSessionOK DEF SessionOK
<1> HIDE DEF s
<1>3. SentNo(s) = 0 /\ GotNo(s) = 0 /\ ReadNo(s) = 0
  BY <1>1 DEF SentNo, GotNo, ReadNo
<1>4. KeyFlow(o, s)
  BY <1>1 DEF KeyFlow
<1>5. ChanFlow(o, s)
  BY <1>1, <1>3 DEF ChanFlow, HsNo
<1>6. SessionFlow(o, s)
  BY <1>1, <1>4, <1>5 DEF SessionFlow
<1> QED BY <1>2, <1>3, <1>6 DEF s

\* What becomes of session s of object o when its next record was opened.
Opened(o, s, t) ==
    /\ SessionFlow(o, t)
    /\ SentNo(t) = SentNo(s)
    /\ GotNo(t) = GotNo(s) + 1

\* The handshake and the sending side are left alone.
SameSending(s, t) ==
    /\ t.hs = s.hs /\ t.rem = s.rem /\ t.master = s.master /\ t.log = s.log
    /\ t.complete = s.complete /\ t.done = s.done
    /\ t.out = s.out /\ t.outSeq = s.outSeq /\ t.asking = s.asking /\ t.waiting = s.waiting

\* The fields of an opened session.
LEMMA OpenedFields ==
    ASSUME NEW s \in Sessions, NEW a, a = [s EXCEPT !.inSeq = @ + 1]
    PROVE  /\ SameSending(s, a) /\ a.chan = s.chan /\ a.in = s.in /\ a.inNext = s.inNext
           /\ a.inReady = s.inReady /\ a.inSeq = s.inSeq + 1 /\ a \in Sessions
           /\ ReadNo(a) = ReadNo(s) /\ SentNo(a) = SentNo(s) /\ GotNo(a) = GotNo(s) + 1
           /\ s.inSeq \in Nat
<1>1. /\ SameSending(s, a) /\ a.chan = s.chan /\ a.in = s.in /\ a.inNext = s.inNext
      /\ a.inReady = s.inReady /\ a.inSeq = s.inSeq + 1 /\ a \in Sessions /\ s.inSeq \in Nat
  BY DEF Sessions, SameSending
<1> QED BY <1>1 DEF SameSending, ReadNo, SentNo, GotNo

\* A handshake message goes into the channel.
LEMMA OpenHandshake ==
    ASSUME NEW o \in First, NEW s \in Sessions, SessionFlow(o, s),
           NEW a, a = [s EXCEPT !.inSeq = @ + 1], NEW msg,
           NEW t \in Sessions, t = [a EXCEPT !.chan = Append(@, msg)],
           msg = MsgNo(Twin(o), HsNo(GotNo(s) + 1)), HsNo(GotNo(s) + 1) = HsNo(GotNo(s)) + 1,
           s.in = Nil => s.inSeq <= 1
    PROVE  Opened(o, s, t) /\ ~CcsPending(t)
<1>1. /\ SameSending(s, a) /\ a.chan = s.chan /\ a.in = s.in /\ a.inNext = s.inNext
      /\ a.inReady = s.inReady /\ a.inSeq = s.inSeq + 1 /\ a \in Sessions /\ s.inSeq \in Nat
  BY OpenedFields
<1>2. /\ SameSending(a, t) /\ t.chan = Append(s.chan, msg) /\ t.in = a.in /\ t.inNext = a.inNext
      /\ t.inReady = a.inReady /\ t.inSeq = a.inSeq
  BY <1>1 DEF Sessions, SameSending
<1>3. ReadNo(t) = ReadNo(s) /\ SentNo(t) = SentNo(s) /\ GotNo(t) = GotNo(s) + 1
  BY <1>1, <1>2 DEF SameSending, ReadNo, SentNo, GotNo
<1>4. HsNo(GotNo(t)) = HsNo(GotNo(s)) + 1 /\ msg = MsgNo(Twin(o), HsNo(GotNo(t)))
  BY <1>3
<1>5. ChanFlow(o, t)
  BY <1>2, <1>3, <1>4, ChanAppend DEF SessionFlow
<1>6. KeyFlow(o, t)
  BY <1>1, <1>2 DEF SessionFlow, KeyFlow, SameSending
<1>7. SessionFlow(o, t)
  BY <1>1, <1>2, <1>5, <1>6 DEF SessionFlow, SameSending
<1> QED BY <1>1, <1>2, <1>3, <1>7 DEF Opened, CcsPending

\* A CCS finds no cipher prepared, or application data comes.
LEMMA OpenKept ==
    ASSUME NEW o \in First, NEW s \in Sessions, SessionFlow(o, s),
           NEW t, t = [s EXCEPT !.inSeq = @ + 1],
           (s.in = Nil /\ s.inSeq = 2) \/ (s.in # Nil /\ s.inSeq >= 1)
    PROVE  Opened(o, s, t) /\ (CcsPending(t) <=> s.in = Nil)
<1>1. /\ SameSending(s, t) /\ t.chan = s.chan /\ t.in = s.in /\ t.inNext = s.inNext
      /\ t.inReady = s.inReady /\ t.inSeq = s.inSeq + 1 /\ s.inSeq \in Nat
      /\ ReadNo(t) = ReadNo(s) /\ SentNo(t) = SentNo(s) /\ GotNo(t) = GotNo(s) + 1
  BY OpenedFields
<1>2. HsNo(GotNo(s) + 1) = HsNo(GotNo(s))
  BY <1>1 DEF GotNo, HsNo
<1>3. ChanFlow(o, t)
  BY <1>1, <1>2 DEF SessionFlow, ChanFlow
<1>4. KeyFlow(o, t)
  BY <1>1 DEF SessionFlow, KeyFlow, SameSending
<1>5. SessionFlow(o, t)
  BY <1>1, <1>3, <1>4 DEF SessionFlow, SameSending
<1> QED BY <1>1, <1>5 DEF Opened, CcsPending

\* changeCipherSpec with the cipher at hand.
LEMMA SwitchInFlow ==
    ASSUME NEW o \in First, NEW s \in Sessions, SessionFlow(o, s), s.in = Nil, s.inNext # Nil,
           HsNo(GotNo(s)) = 2, NEW a \in Sessions, SameSending(s, a), a.chan = s.chan,
           a.in = s.in, a.inNext = s.inNext, NEW t, t = SwitchIn(a)
    PROVE  SessionFlow(o, t) /\ SentNo(t) = SentNo(s) /\ GotNo(t) = 3 /\ ~CcsPending(t)
<1>1. /\ a.hs = s.hs /\ a.rem = s.rem /\ a.master = s.master /\ a.log = s.log
      /\ a.complete = s.complete /\ a.done = s.done
      /\ a.out = s.out /\ a.outSeq = s.outSeq /\ a.asking = s.asking /\ a.waiting = s.waiting
  BY DEF Sessions, SameSending
<1>2. /\ t.hs = a.hs /\ t.rem = a.rem /\ t.master = a.master /\ t.log = a.log
      /\ t.complete = a.complete /\ t.done = a.done
      /\ t.out = a.out /\ t.outSeq = a.outSeq /\ t.asking = a.asking /\ t.waiting = a.waiting
      /\ t.chan = a.chan /\ t.in = a.inNext /\ t.inSeq = 0
  BY DEF SwitchIn, Sessions
<1>3. s.hs \in {"switchOut", "waitFin", "ok"} /\ s.inNext = InKey(o, SharedMaster(o))
  BY TwinKeys DEF SessionFlow, KeyFlow, Sessions, HsStates
<1>4. ReadNo(t) = ReadNo(s) /\ SentNo(t) = SentNo(s) /\ GotNo(t) = 3
  BY <1>1, <1>2 DEF ReadNo, SentNo, GotNo
<1>5. ChanFlow(o, t)
  BY <1>1, <1>2, <1>4 DEF SessionFlow, ChanFlow, HsNo
<1>6. KeyFlow(o, t)
  BY <1>1, <1>2, <1>3 DEF SessionFlow, KeyFlow
<1>7. SessionFlow(o, t)
  BY <1>1, <1>2, <1>5, <1>6 DEF SessionFlow
<1> QED BY <1>2, <1>4, <1>7 DEF CcsPending

\* The session that handleReadBoundMsg finds or makes for a record.
LEMMA FoundSession ==
    ASSUME IInv, Flow, NEW o \in First, NEW s,
           s = IF cur[o[1]][o[2]] = Nil THEN NewSession(TRUE) ELSE ses[o]
    PROVE  /\ s \in Sessions /\ SessionFlow(o, s)
           /\ SentNo(s) = SentNo(ses[o]) /\ GotNo(s) = GotNo(ses[o])
           /\ CcsPending(s) => CcsPending(ses[o])
<1>1. CASE cur[o[1]][o[2]] # Nil
  BY <1>1, FlowFacts
<1>2. CASE cur[o[1]][o[2]] = Nil
  <2>1. gen[o[1]][o[2]] = 0 /\ o \in Objects
    BY <1>2, TwinFacts, MapEntry
  <2>2. ses[o] = NewSession(FALSE)
    BY <2>1 DEF Flow, MapFlow, Unused
  <2>3. s = NewSession(TRUE)
    BY <1>2
  <2>4. ~CcsPending(NewSession(TRUE))
    BY DEF CcsPending, NewSession
  <2> QED BY <2>2, <2>3, <2>4, NewFlow
<1> QED BY <1>1, <1>2

\* readRecord and handleReadBoundMsg.
LEMMA ReceiveFlow ==
    ASSUME ChanCap >= 2, IInv, IInv', Flow, NEW h \in Hosts, NEW p \in Hosts, Receive(h, p)
    PROVE  Flow'
<1> DEFINE o == Entry(h, p)
<1> DEFINE s == IF cur[h][p] = Nil THEN NewSession(TRUE) ELSE ses[o]
<1> DEFINE rec == Head(wire[p][h])
<1> DEFINE w == Pop(wire, h, p)
<1> DEFINE a == [s EXCEPT !.inSeq = @ + 1]
<1>1. /\ h # p /\ rl[h].pc = "idle" /\ wire[p][h] # <<>> /\ CanCreate(h, p)
      /\ gen' = GenAfter(h, p) /\ wm' = wm
  BY DEF Receive
<1>2. o = <<h, p, 1>> /\ o \in First
  <2>1. o = <<h, p, 1>>
    BY <1>1, MapEntry
  <2>2. 1 \in 1..MaxGen
    BY <1>1, MapEntry, Types DEF CanCreate
  <2>3. <<h, p, 1>> \in Objects
    BY <1>1, <2>2 DEF Objects
  <2> QED BY <2>1, <2>3 DEF First
<1>3. o[1] = h /\ o[2] = p
  BY <1>2
<1>4. s = IF cur[o[1]][o[2]] = Nil THEN NewSession(TRUE) ELSE ses[o]
  BY <1>3
<1>5. Decrypts(s, rec) /\ ~Unreadable(s, rec) =>
        /\ cur' = [cur EXCEPT ![h][p] = o]
        /\ Dispatch(h, p, o, a, rec, w)
  BY DEF Receive
<1>6. a = [s EXCEPT !.inSeq = @ + 1] /\ w = Pop(wire, o[1], o[2]) /\ rec = Head(wire[o[2]][o[1]])
  BY <1>3
<1>7. wire[o[2]][o[1]] # <<>> /\ rl[o[1]].pc = "idle"
  BY <1>1, <1>3
<1> HIDE DEF o, s, rec, w, a
<1>8. /\ s \in Sessions /\ SessionFlow(o, s)
      /\ SentNo(s) = SentNo(ses[o]) /\ GotNo(s) = GotNo(ses[o])
      /\ CcsPending(s) => CcsPending(ses[o])
  BY <1>2, <1>4, FoundSession
<1>9. ~CcsPending(s)
  BY <1>2, <1>7, <1>8 DEF Flow, ReadLoopFlow
<1>10. RecordNo(Twin(o), GotNo(s) + 1, rec)
  <2>1. Twin(o) \in First /\ Twin(o)[1] = o[2] /\ Twin(o)[2] = o[1] /\ Twin(Twin(o)) = o
    BY <1>2, TwinFacts
  <2> DEFINE q == wire[o[2]][o[1]]
  <2> DEFINE n == SentNo(ses[Twin(o)])
  <2> DEFINE g == GotNo(ses[o])
  <2>2. q \in Seq(Records) /\ QueueFlow(Twin(o), q, n, g) /\ n \in Nat /\ g \in Nat
    BY <1>2, <2>1, FlowFacts, Counts
  <2>3. q # <<>> /\ rec = Head(q) /\ GotNo(s) = g
    BY <1>6, <1>7, <1>8
  <2> HIDE DEF q, n, g
  <2>4. RecordNo(Twin(o), g + 1, Head(q))
    BY <2>2, <2>3, QueueTail
  <2> QED BY <2>3, <2>4
<1>11. /\ Decrypts(s, rec) /\ ~Unreadable(s, rec)
       /\ \/ /\ rec.pay.typ = "hs" /\ rec.pay.msg = MsgNo(Twin(o), HsNo(GotNo(s) + 1))
             /\ HsNo(GotNo(s) + 1) = HsNo(GotNo(s)) + 1
             /\ Len(s.chan) < 2
             /\ s.in = Nil => s.inSeq <= 1
          \/ rec.pay.typ = "ccs" /\ s.in = Nil /\ s.inSeq = 2
          \/ rec.pay.typ = "app" /\ s.in # Nil /\ s.inSeq >= 1
  BY <1>2, <1>8, <1>9, <1>10, DueRecord
<1>12. cur' = [cur EXCEPT ![o[1]][o[2]] = o] /\ gen' = GenAfter(o[1], o[2])
  BY <1>1, <1>3, <1>5, <1>11
<1>13. Dispatch(h, p, o, a, rec, w)
  BY <1>5, <1>11
<1>14. ASSUME NEW t, ses' = [ses EXCEPT ![o] = t], wire' = w, Opened(o, s, t), ReadLoopFlow'
       PROVE  Flow'
  <2>1. MapFlow'
    BY <1>1, <1>2, <1>12, <1>14, MapTake
  <2>2. SessionFlow(o, t) /\ SentNo(t) = SentNo(ses[o]) /\ GotNo(t) = GotNo(ses[o]) + 1
    BY <1>8, <1>14 DEF Opened
  <2> QED BY <1>2, <1>6, <1>7, <1>14, <2>1, <2>2, TakeFlow
<1>15. ASSUME NEW t, ses' = [ses EXCEPT ![o] = t], rl' = rl, ~CcsPending(t)
       PROVE  ReadLoopFlow'
  <2>1. rl' = [rl EXCEPT ![o[1]] = rl[o[1]]]
    BY <1>15 DEF IInv, TypeOK
  <2> QED BY <1>2, <1>7, <1>15, <2>1, ReadLoopMoves
<1>16. a.chan = s.chan /\ a.inNext = s.inNext /\ a \in Sessions /\ SameSending(s, a) /\ a.in = s.in
  BY <1>6, <1>8, OpenedFields
<1>17. CASE rec.pay.typ = "hs"
  <2> DEFINE t == [a EXCEPT !.chan = Append(@, rec.pay.msg)]
  <2>1. ses' = [ses EXCEPT ![o] = t] /\ wire' = w /\ rl' = rl
    BY <1>11, <1>13, <1>16, <1>17, BoundsAssumption DEF Dispatch, Sessions
  <2>2. t \in Sessions
    BY <1>2, <2>1, AfterFlow, TwinFacts
  <2> DEFINE msg == rec.pay.msg
  <2>3. /\ t = [a EXCEPT !.chan = Append(@, msg)] /\ msg = MsgNo(Twin(o), HsNo(GotNo(s) + 1))
        /\ HsNo(GotNo(s) + 1) = HsNo(GotNo(s)) + 1 /\ (s.in = Nil => s.inSeq <= 1)
    BY <1>11, <1>17
  <2> HIDE DEF t, msg
  <2>4. Opened(o, s, t) /\ ~CcsPending(t)
    BY <1>2, <1>6, <1>8, <2>2, <2>3, OpenHandshake
  <2> QED BY <1>14, <1>15, <2>1, <2>4
<1>18. CASE rec.pay.typ = "ccs"
  <2>1. s.in = Nil /\ s.inSeq = 2
    BY <1>11, <1>18
  <2>2. Opened(o, s, a) /\ CcsPending(a)
    BY <1>2, <1>6, <1>8, <2>1, OpenKept
  <2>3. CASE a.inNext # Nil
    <3> DEFINE t == SwitchIn(a)
    <3>1. ses' = [ses EXCEPT ![o] = t] /\ wire' = w /\ rl' = rl
      BY <1>13, <1>18, <2>3 DEF Dispatch
    <3>2. GotNo(s) = 2 /\ HsNo(GotNo(s)) = 2
      BY <2>1 DEF GotNo, HsNo
    <3>3. t = SwitchIn(a)
      OBVIOUS
    <3> HIDE DEF t
    <3>4. SessionFlow(o, t) /\ SentNo(t) = SentNo(s) /\ GotNo(t) = 3 /\ ~CcsPending(t)
      BY <1>2, <1>8, <1>16, <2>1, <2>3, <3>2, <3>3, SwitchInFlow
    <3>5. Opened(o, s, t)
      BY <3>2, <3>4 DEF Opened
    <3>6. ReadLoopFlow'
      BY <1>15, <3>1, <3>4
    <3> QED BY <1>14, <3>1, <3>5, <3>6
  <2>4. CASE a.inNext = Nil
    <3> DEFINE r == RlAt("ccs", o, Nil)
    <3>1. ses' = [ses EXCEPT ![o] = a] /\ wire' = w /\ rl' = [rl EXCEPT ![o[1]] = r]
      BY <1>3, <1>13, <1>18, <2>4 DEF Dispatch
    <3>2. r.pc = "ccs" /\ r.o = o
      BY DEF RlAt
    <3> HIDE DEF r
    <3>3. ReadLoopFlow'
      BY <1>2, <1>7, <2>2, <3>1, <3>2, ReadLoopMoves
    <3> QED BY <1>14, <2>2, <3>1, <3>3
  <2> QED BY <2>3, <2>4
<1>19. CASE rec.pay.typ = "app"
  <2>1. s.in # Nil /\ s.inSeq >= 1
    BY <1>11, <1>19
  <2>2. Opened(o, s, a) /\ ~CcsPending(a)
    BY <1>2, <1>6, <1>8, <2>1, OpenKept
  <2>3. CASE a.complete
    <3>1. ses' = [ses EXCEPT ![o] = a] /\ wire' = w /\ rl' = rl
      BY <1>13, <1>19, <2>3 DEF Dispatch
    <3> QED BY <1>14, <1>15, <2>2, <3>1
  <2>4. CASE ~a.complete
    <3> DEFINE r == RlAt("await", o, rec)
    <3>1. ses' = [ses EXCEPT ![o] = a] /\ wire' = w /\ rl' = [rl EXCEPT ![o[1]] = r]
      BY <1>3, <1>13, <1>19, <2>4 DEF Dispatch
    <3>2. r.pc = "await" /\ r.rec = rec
      BY DEF RlAt
    <3> HIDE DEF r
    <3>3. ReadLoopFlow'
      BY <1>2, <1>7, <1>19, <2>2, <3>1, <3>2, ReadLoopMoves
    <3> QED BY <1>14, <2>2, <3>1, <3>3
  <2> QED BY <2>3, <2>4
<1> QED BY <1>11, <1>17, <1>18, <1>19

\* changeCipherSpec gets the cipher it waited for.
LEMMA ChangeCipherSpecFlow ==
    ASSUME IInv, IInv', Flow, NEW h \in Hosts, RlChangeCipherSpec(h) PROVE Flow'
<1> DEFINE o == rl[h].o
<1> DEFINE s == ses[o]
<1> DEFINE a == [s EXCEPT !.inReady = FALSE]
<1> DEFINE t == SwitchIn(a)
<1>1. rl[h].pc = "ccs" /\ CcsPending(s) /\ o \in Objects /\ o[1] = h
  BY DEF RlChangeCipherSpec, Flow, ReadLoopFlow, IInv, ReadLoopsOK, RlOK
<1>2. o \in First /\ gen[o[1]][o[2]] # 0
  <2>1. Unused.inSeq = 0
    BY DEF Unused, NewSession
  <2>2. s # Unused
    BY <1>1, <2>1 DEF CcsPending
  <2> QED BY <1>1, <2>2, MadeFirst
<1>3. s \in Sessions /\ SessionFlow(o, s)
  BY <1>2, FlowFacts
<1>4. ~s.done /\ s.in = Nil /\ s.inSeq = 3
  BY <1>1, <1>3 DEF SessionFlow, CcsPending
<1>5. s.inReady
  BY <1>4 DEF RlChangeCipherSpec
<1>6. s.inNext # Nil
  <2>1. s.hs \in {"switchOut", "waitFin", "ok"}
    BY <1>3, <1>5 DEF SessionFlow, KeyFlow, Sessions, HsStates
  <2> QED BY <1>2, <1>3, <1>4, <2>1, TwinKeys DEF SessionFlow, KeyFlow
<1>7. a.inNext = s.inNext /\ a \in Sessions /\ SameSending(s, a) /\ a.chan = s.chan /\ a.in = s.in
  BY <1>3 DEF Sessions, SameSending
<1>8. /\ ses' = [ses EXCEPT ![o] = t] /\ wire' = wire /\ UNCHANGED <<cur, gen, wm>>
      /\ rl' = [rl EXCEPT ![o[1]] = RlIdle]
  BY <1>1, <1>4, <1>5, <1>6 DEF RlChangeCipherSpec
<1>9. GotNo(s) = 3 /\ HsNo(GotNo(s)) = 2 /\ t = SwitchIn(a) /\ rl[o[1]].o = o /\ s = ses[o]
  BY <1>1, <1>4 DEF GotNo, HsNo
<1> HIDE DEF t, a, s, o
<1>10. SessionFlow(o, t) /\ SentNo(t) = SentNo(s) /\ GotNo(t) = 3 /\ ~CcsPending(t)
  BY <1>2, <1>3, <1>4, <1>6, <1>7, <1>9, SwitchInFlow
<1>11. RlIdle.pc = "idle"
  BY DEF RlIdle, RlAt
<1>12. ReadLoopFlow'
  BY <1>2, <1>8, <1>9, <1>10, <1>11, ReadLoopMoves
<1>13. MapFlow'
  BY <1>2, <1>8, MapSame, NoDelete
<1> QED BY <1>2, <1>8, <1>9, <1>10, <1>12, <1>13, LocalFlow

\* The wait for the completion of the handshake ends.
LEMMA AwaitFlow ==
    ASSUME IInv, IInv', Flow, NEW h \in Hosts, RlAwait(h) PROVE Flow'
<1> DEFINE o == rl[h].o
<1> DEFINE s == ses[o]
<1> DEFINE t == [s EXCEPT !.token = FALSE]
<1>1. rl[h].pc = "await" /\ rl[h].rec.pay.typ = "app" /\ o \in Objects /\ o[1] = h
  BY DEF RlAwait, Flow, ReadLoopFlow, IInv, ReadLoopsOK, RlOK
<1>2. o \in First /\ gen[o[1]][o[2]] # 0
  <2>1. Unused.token = FALSE /\ Unused.done = FALSE
    BY DEF Unused, NewSession
  <2>2. s.token \/ s.done
    BY DEF RlAwait
  <2>3. s # Unused
    BY <2>1, <2>2
  <2> QED BY <1>1, <2>3, MadeFirst
<1>3. s \in Sessions /\ SessionFlow(o, s)
  BY <1>2, FlowFacts
<1>4. ~s.done
  BY <1>3 DEF SessionFlow
<1>5. /\ ses' = [ses EXCEPT ![o] = t] /\ wire' = wire /\ UNCHANGED <<cur, gen, wm>>
      /\ rl' = [rl EXCEPT ![o[1]] = RlIdle]
  BY <1>1, <1>4 DEF RlAwait
<1>6. /\ SameSending(s, t) /\ t.chan = s.chan /\ t.in = s.in /\ t.inNext = s.inNext
      /\ t.inReady = s.inReady /\ t.inSeq = s.inSeq
  BY <1>3 DEF SameSending, Sessions
<1>7. rl[o[1]].pc = "await" /\ s = ses[o]
  BY <1>1
<1> HIDE DEF t, s, o
<1>8. ReadNo(t) = ReadNo(s) /\ SentNo(t) = SentNo(s) /\ GotNo(t) = GotNo(s)
  BY <1>6 DEF SameSending, ReadNo, SentNo, GotNo
<1>9. KeyFlow(o, t) /\ ChanFlow(o, t)
  BY <1>3, <1>6, <1>8 DEF SessionFlow, KeyFlow, ChanFlow, SameSending
<1>10. SessionFlow(o, t)
  BY <1>3, <1>6, <1>9 DEF SessionFlow, SameSending
<1>11. ~CcsPending(t)
  <2>1. ~CcsPending(s)
    BY <1>2, <1>7 DEF Flow, ReadLoopFlow
  <2> QED BY <1>6, <2>1 DEF CcsPending
<1>12. RlIdle.pc = "idle"
  BY DEF RlIdle, RlAt
<1>13. ReadLoopFlow'
  BY <1>2, <1>5, <1>7, <1>11, <1>12, ReadLoopMoves
<1>14. MapFlow'
  BY <1>2, <1>5, MapSame, NoDelete
<1> QED BY <1>2, <1>5, <1>7, <1>8, <1>10, <1>13, <1>14, LocalFlow

-----------------------------------------------------------------------------
(* Every step *)

\* Before anything happened.
LEMMA InitFlow ==
    ASSUME Init PROVE Flow
<1>1. \A o \in Objects : ses[o] = NewSession(FALSE)
  BY DEF Init, Unused
<1>2. \A h \in Hosts : rl[h] = RlIdle /\ RlIdle.pc = "idle"
  BY DEF Init, RlIdle, RlAt
<1>3. \A h, p \in Hosts : wire[h][p] = <<>> /\ gen[h][p] = 0 /\ cur[h][p] = Nil /\ wm[h][p].pc = "idle"
  BY WmIdleOK DEF Init
<1>4. ASSUME NEW o \in First
      PROVE  /\ SessionFlow(o, ses[o]) /\ ~CcsPending(ses[o])
             /\ QueueFlow(o, wire[o[1]][o[2]], SentNo(ses[o]), GotNo(ses[Twin(o)]))
  <2>1. o \in Objects /\ Twin(o) \in Objects /\ o[1] \in Hosts /\ o[2] \in Hosts
    BY TwinFacts DEF First
  <2>2. ses[o] = NewSession(FALSE) /\ ses[Twin(o)] = NewSession(FALSE) /\ wire[o[1]][o[2]] = <<>>
    BY <1>1, <1>3, <2>1
  <2>3. ~CcsPending(NewSession(FALSE))
    BY DEF CcsPending, NewSession
  <2>4. SentNo(ses[o]) = 0 /\ GotNo(ses[Twin(o)]) = 0 /\ SessionFlow(o, ses[o])
    BY <2>2, NewFlow
  <2>5. QueueFlow(o, <<>>, 0, 0)
    BY DEF QueueFlow
  <2> QED BY <2>2, <2>3, <2>4, <2>5
<1>5. WireFlow
  BY <1>4 DEF WireFlow
<1>6. ReadLoopFlow
  BY <1>2, <1>4 DEF ReadLoopFlow
<1>7. MapFlow
  BY <1>1, <1>3 DEF MapFlow, Unused
<1> QED BY <1>4, <1>5, <1>6, <1>7 DEF Flow

\* A fault is counted.
LEMMA FaultCounted ==
    ASSUME faults \in FaultCounts,
           \/ Timeout
           \/ \E h \in Hosts : Restart(h)
           \/ \E h, p \in Hosts : RelayDrop(h, p)
    PROVE  ~NoFaults'
<1>1. /\ faults.restarts \in Nat /\ faults.drops \in Nat /\ faults.timeouts \in Nat
      /\ faults = [restarts |-> faults.restarts, drops |-> faults.drops, timeouts |-> faults.timeouts]
  BY DEF FaultCounts
<1>2. \/ faults'.timeouts = faults.timeouts + 1
      \/ faults'.restarts = faults.restarts + 1
      \/ faults'.drops = faults.drops + 1
  BY <1>1 DEF Timeout, Restart, RelayDrop
<1> QED BY <1>1, <1>2 DEF NoFaults

\* The goroutine of a session counts no fault, ...
LEMMA HandshakeNoFault ==
    ASSUME NEW o \in Objects, HandshakeStep(o) PROVE faults' = faults
<1>1. StartHandshake(o) \/ HandshakeClosed(o) => faults' = faults
  BY DEF StartHandshake, HandshakeClosed
<1>2. ReadHello(o) \/ ReadKxm(o) => faults' = faults
  BY DEF ReadHello, ReadKxm
<1>3. SwitchOut(o) \/ ReadFinished(o) => faults' = faults
  BY DEF SwitchOut, ReadFinished
<1> QED BY <1>1, <1>2, <1>3 DEF HandshakeStep, PassiveHandshake

\* ... nor does WriteMessage ...
LEMMA WriteNoFault ==
    ASSUME NEW h \in Hosts, NEW p \in Hosts, WriteStart(h, p) \/ WriteStep(h, p) PROVE faults' = faults
BY DEF WriteStart, WriteStep, WriteReady, WriteHandshake, StartHandshake, WriteSend, WriteTerminate,
       WriteDelete

\* ... nor a readLoop.
LEMMA ReadLoopNoFault ==
    ASSUME NEW h \in Hosts, ReadLoopStep(h) PROVE faults' = faults
<1>1. (\E p \in Hosts : Receive(h, p)) => faults' = faults
  BY DEF Receive
<1>2. RlStore(h) \/ RlDelete(h) \/ RlChangeCipherSpec(h) \/ RlAwait(h) => faults' = faults
  BY DEF RlStore, RlDelete, RlChangeCipherSpec, RlAwait
<1> QED BY <1>1, <1>2 DEF ReadLoopStep

\* WriteMessage finds its session sound.
LEMMA WriteFlow ==
    ASSUME IInv, IInv', Flow, NEW h \in Hosts, NEW p \in Hosts, WriteStart(h, p) \/ WriteStep(h, p)
    PROVE  Flow'
<1>1. ASSUME WriteHandshake(h, p) PROVE Flow'
  <2>1. wm[h][p].pc # "idle" /\ StartHandshake(wm[h][p].o)
    BY <1>1 DEF WriteHandshake
  <2> DEFINE o == wm[h][p].o
  <2>2. o \in First /\ o[1] = h /\ o[2] = p /\ gen[h][p] # 0
    BY <2>1, WriterSession
  <2>3. gen[o[1]][o[2]] # 0 /\ StartHandshake(o)
    BY <2>1, <2>2
  <2> HIDE DEF o
  <2> QED BY <2>2, <2>3, StartFlow
<1>2. ~WriteTerminate(h, p)
  <2>1. SUFFICES ASSUME WriteTerminate(h, p) PROVE FALSE
    OBVIOUS
  <2>2. wm[h][p].pc # "idle" /\ ses[wm[h][p].o].hs = "failed"
    BY <2>1 DEF WriteTerminate
  <2> QED BY <2>2, WriterSession, FlowFacts DEF SessionFlow
<1>3. ~WriteDelete(h, p)
  BY DEF WriteDelete, Flow, MapFlow
<1> QED BY <1>1, <1>2, <1>3, WriteOtherFlow, WriteSendFlow DEF WriteStep

\* Nothing was lost: nobody asks for anything.
LEMMA NoRequest ==
    ASSUME IInv, Flow, NEW o \in Objects PROVE ~RequestStep(o)
<1>1. ses[o].asking = {} /\ ses[o].waiting = {}
  <2>1. CASE ses[o] = Unused
    BY <2>1 DEF Unused, NewSession
  <2>2. CASE ses[o] # Unused
    BY <2>2, MadeFirst, FlowFacts DEF SessionFlow
  <2> QED BY <2>1, <2>2
<1> QED BY <1>1 DEF RequestStep

\* A readLoop ends no session.
LEMMA ReadLoopStepFlow ==
    ASSUME ChanCap >= 2, IInv, IInv', Flow, NEW h \in Hosts, ReadLoopStep(h) PROVE Flow'
<1>1. ~RlStore(h) /\ ~RlDelete(h)
  BY DEF RlStore, RlDelete, Flow, ReadLoopFlow
<1> QED BY <1>1, ReceiveFlow, ChangeCipherSpecFlow, AwaitFlow DEF ReadLoopStep

\* A step without a fault keeps the invariant.
LEMMA NextFlow ==
    ASSUME ChanCap >= 2, IInv, IInv', FlowInv, [Next]_vars PROVE FlowInv'
<1> SUFFICES ASSUME NoFaults' PROVE Flow'
  BY DEF FlowInv
<1>1. faults' = faults => Flow
  BY DEF FlowInv, NoFaults
<1>2. CASE UNCHANGED vars
  BY <1>1, <1>2 DEF vars, Flow, WireFlow, ReadLoopFlow, MapFlow
<1>3. ASSUME NEW h \in Hosts, NEW p \in Hosts, WriteStart(h, p) \/ WriteStep(h, p) PROVE Flow'
  BY <1>1, <1>3, WriteNoFault, WriteFlow
<1>4. ASSUME NEW o \in Objects, HandshakeStep(o) PROVE Flow'
  BY <1>1, <1>4, HandshakeNoFault, HandshakeFlow
<1>5. faults \in FaultCounts
  BY DEF IInv, TypeOK
<1>6. ASSUME NEW o \in Objects, RequestStep(o) PROVE Flow'
  <2>1. Timeout \/ faults' = faults
    BY <1>6 DEF RequestStep, RequestLost, RequestLostToken, RequestLostGiveUp
  <2> QED BY <1>1, <1>5, <1>6, <2>1, FaultCounted, NoRequest
<1>7. ASSUME NEW h \in Hosts, ReadLoopStep(h) PROVE Flow'
  BY <1>1, <1>7, ReadLoopNoFault, ReadLoopStepFlow
<1>8. /\ \A h \in Hosts : ~RlAwaitTimeout(h) /\ ~Restart(h)
      /\ \A h, p \in Hosts : ~RelayDrop(h, p) /\ \A ref \in lost[h][p] : ~ExpireLost(h, p, ref)
  BY <1>5, FaultCounted DEF RlAwaitTimeout, ExpireLost
<1> QED BY <1>2, <1>3, <1>4, <1>6, <1>7, <1>8 DEF Next

\* As long as no process restarts, no record is lost and no timer fires, no
\* session is closed and no handshake fails: whoever opened the conversation,
\* or both at once, and however the goroutines interleave. It takes a
\* handshakeChan of at least two slots; the code has sixteen.
THEOREM Undisturbed ==
    ASSUME ChanCap >= 2 PROVE Spec => [](NoFaults => NeverTornDown)
<1>1. Init => FlowInv
  BY InitFlow DEF FlowInv
<1>2. IInv /\ IInv' /\ FlowInv /\ [Next]_vars => FlowInv'
  BY NextFlow
<1>3. FlowInv /\ IInv => (NoFaults => NeverTornDown)
  <2> SUFFICES ASSUME Flow, IInv, NEW o \in Objects PROVE ~ses[o].done /\ ses[o].hs # "failed"
    BY DEF FlowInv, NeverTornDown
  <2>1. CASE ses[o] = Unused
    BY <2>1 DEF Unused, NewSession
  <2>2. CASE ses[o] # Unused
    BY <2>2, MadeFirst, FlowFacts DEF SessionFlow
  <2> QED BY <2>1, <2>2
<1> QED BY <1>1, <1>2, <1>3, Invariance, PTL DEF Spec

=============================================================================
