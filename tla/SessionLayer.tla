---------------------------- MODULE SessionLayer ----------------------------
(***************************************************************************)
(* The session layer of e2ewebsocket: the sessions map of a Conn, the      *)
(* symmetric handshake of a Session (run by a WriteMessage caller or by    *)
(* the goroutine the readLoop spawns), the readLoop's dispatch of inbound  *)
(* records, termination by Alert, the reset on a plaintext Hello, and the  *)
(* recovery of messages that arrive before their key exists.               *)
(*                                                                         *)
(* A session object is a triple <<host, peer, generation>>: the generation *)
(* tells apart the Session structs that one map entry holds over time, and *)
(* the object stands for the fresh random and ephemeral key its single     *)
(* handshake draws.  The relay keeps the order of each sender's records.   *)
(***************************************************************************)
EXTENDS Reorder

CONSTANTS
    Hosts,        \* user ids; the larger id of two is the initiator
    Writers,      \* the hosts whose application calls WriteMessage
    Nil,          \* no session in the map, no cipher, no remote hello, no record
    ChanCap,      \* capacity of Session.handshakeChan
    CacheCap,     \* maxSendCacheEntries
    MaxGen,       \* bound: session objects per host and peer
    MaxWrites,    \* bound: WriteMessage calls per host and peer
    MaxRestarts,  \* bound: process restarts
    MaxDrops,     \* bound: records the relay drops
    MaxTimeouts   \* bound: timers that fire

Objects == {o \in Hosts \X Hosts \X (1..MaxGen) : o[1] # o[2]}

\* What masterFromPreMasterSecret derives: pre says whether a pre-master
\* secret went in (it is nil when no key exchange message was read).
Masters == [pre : BOOLEAN, init : Objects, resp : Objects]

\* The cipher that keysFromMasterSecret gives each side for sending.
Keys == [master : Masters, side : {"init", "resp"}]

Transcripts == Seq([m : {"hello", "kxm"}, from : Objects])

HsMsgs == [m : {"hello"}, from : Objects]
            \union [m : {"kxm"}, from : Objects, to : Objects]
            \union [m : {"fin"}, by : Hosts, master : Masters, log : Transcripts]

Payloads == [typ : {"hs"}, msg : HsMsgs]
              \union [typ : {"ccs", "alert"}]
              \union [typ : {"app"}, n : Nat]
              \union [typ : {"ctl"}, c : {"lost_request", "retransmit"}, ref : Refs]

Records == [pay : Payloads, key : Keys \union {Nil}, seq : Nat]

HsStates == {"new", "waitHello", "waitKxm", "switchOut", "waitFin", "ok", "failed"}

Sessions ==
    [hs : HsStates,                      \* progress of handshakeFn
     passive : BOOLEAN,                  \* the readLoop spawned Handshake()
     chan : Seq(HsMsgs),                 \* handshakeChan
     rem : Objects \union {Nil},   \* random of the remote hello
     master : Masters \union {Nil},
     log : Transcripts,                  \* finishedHash
     complete : BOOLEAN,                 \* isHandshakeComplete
     token : BOOLEAN,                    \* handshakeComplete holds a token
     done : BOOLEAN,                     \* Close() was called
     in : Keys \union {Nil}, inSeq : Nat,
     inNext : Keys \union {Nil},       \* in.nextCipher
     inReady : BOOLEAN,                  \* in.nextCipherReady holds a token
     out : Keys \union {Nil}, outSeq : Nat,
     asking : SUBSET Refs,               \* requestLostAfterHandshake: spawned
     waiting : SUBSET Refs]              \* ... and blocked in its select

ASSUME HostsAssumption == Hosts \subseteq Nat /\ Writers \subseteq Hosts
ASSUME BoundsAssumption ==
    {ChanCap, CacheCap, MaxGen, MaxWrites, MaxRestarts, MaxDrops, MaxTimeouts} \subseteq Nat
ASSUME ChanCapAssumption == ChanCap > 0
ASSUME NilAssumption ==
    Nil \notin Objects /\ Nil \notin Keys /\ Nil \notin Masters /\ Nil \notin Records

VARIABLES
    ses,        \* every session object, those no longer in a map included
    cur,        \* Conn.sessions: host -> peer -> object
    gen,        \* host -> peer -> number of objects created
    wire,       \* sender -> receiver -> records in flight, in order
    rl,         \* host -> what its readLoop is doing
    wm,         \* host -> peer -> the WriteMessage caller
    cache,      \* host -> recovery.sendCacheOrder
    lost,       \* host -> peer -> reorderState.lost
    pending,    \* host -> peer -> reorderState.pending
    delivered,  \* host -> peer -> what ReadMessage returned (history)
    sent,       \* host -> peer -> WriteMessage calls so far
    faults      \* restarts, drops and timeouts so far

recovery == <<lost, pending, delivered>>
vars == <<ses, cur, gen, wire, rl, wm, cache, lost, pending, delivered, sent, faults>>

-----------------------------------------------------------------------------
(* Sessions, keys and records *)

NewSession(isPassive) ==
    [hs |-> "new", passive |-> isPassive, chan |-> <<>>, rem |-> Nil,
     master |-> Nil, log |-> <<>>, complete |-> FALSE, token |-> FALSE,
     done |-> FALSE, in |-> Nil, inSeq |-> 0, inNext |-> Nil,
     inReady |-> FALSE, out |-> Nil, outSeq |-> 0, asking |-> {}, waiting |-> {}]

Unused == NewSession(FALSE)

IsInitiator(o) == o[1] > o[2]

Master(o, rem, hasPre) ==
    IF IsInitiator(o) THEN [pre |-> hasPre, init |-> o, resp |-> rem]
                      ELSE [pre |-> hasPre, init |-> rem, resp |-> o]

OutKey(o, master) == [master |-> master, side |-> IF IsInitiator(o) THEN "init" ELSE "resp"]
\* Mutation: one cipher for both directions.
InKeyUnswapped(o, master) == OutKey(o, master)

InKey(o, master) == [master |-> master, side |-> IF IsInitiator(o) THEN "resp" ELSE "init"]

Hello(o) == [m |-> "hello", from |-> o]
\* The signature of a key exchange message covers both hello randoms.
Kxm(o, rem) == [m |-> "kxm", from |-> o, to |-> rem]
\* verify_data: a PRF of the master secret, the sender's id and the transcript.
Finished(host, master, log) == [m |-> "fin", by |-> host, master |-> master, log |-> log]

\* Mutation: each end writes its own messages first.
TranscriptOwnFirst(o, rem, hasPre) ==
    <<[m |-> "hello", from |-> o], [m |-> "hello", from |-> rem]>>

\* Hellos and key exchanges enter the transcript initiator first.  Without a
\* remote key exchange the initiator has still written its own when it sent
\* it, the responder has written none.
HelloEntry(o) == [m |-> "hello", from |-> o]
KxmEntry(o) == [m |-> "kxm", from |-> o]
Transcript(o, rem, hasPre) ==
    IF IsInitiator(o)
    THEN <<HelloEntry(o), HelloEntry(rem), KxmEntry(o)>>
            \o (IF hasPre THEN <<KxmEntry(rem)>> ELSE <<>>)
    ELSE <<HelloEntry(rem), HelloEntry(o)>>
            \o (IF hasPre THEN <<KxmEntry(rem), KxmEntry(o)>> ELSE <<>>)

\* halfConn.encrypt: without a cipher the payload goes out as it is and the
\* sequence number stays.
Sealed(s, pay) == [pay |-> pay, key |-> s.out, seq |-> IF s.out = Nil THEN 0 ELSE s.outSeq]
AfterSeal(s) == [s EXCEPT !.outSeq = IF s.out = Nil THEN @ ELSE @ + 1]

\* writeRecordLocked on a connected Conn: the record joins the sender's queue.
Put(w, o, rec) == [w EXCEPT ![o[1]][o[2]] = Append(@, rec)]

HsPay(msg) == [typ |-> "hs", msg |-> msg]
AlertPay == [typ |-> "alert"]
CcsPay == [typ |-> "ccs"]
AppPay(n) == [typ |-> "app", n |-> n]
CtlPay(c, ref) == [typ |-> "ctl", c |-> c, ref |-> ref]

IsHelloRecord(rec) == rec.key = Nil /\ rec.pay.typ = "hs" /\ rec.pay.msg.m = "hello"

\* messageRef: the server's metadata of a record.
RefOf(rec) == IF rec.pay.typ = "app" THEN Ref(TRUE, rec.pay.n) ELSE Ref(FALSE, rec.seq)

Closed(s) == [s EXCEPT !.done = TRUE]

\* halfConn.changeCipherSpec on the reading side.
SwitchIn(s) == [s EXCEPT !.in = s.inNext, !.inNext = Nil, !.inSeq = 0]

\* Where a readLoop is, with the session and the record it has in hand.
RlStates == [pc : {"idle", "await", "ccs", "delete", "store"},
             o : Objects \union {Nil}, rec : Records \union {Nil}]
RlAt(pc, o, rec) == [pc |-> pc, o |-> o, rec |-> rec]
RlIdle == RlAt("idle", Nil, Nil)

\* Where a WriteMessage caller is, with its session.
WmStates == [pc : {"idle", "handshake", "send", "delete"}, o : Objects \union {Nil}]
WmAt(pc, o) == [pc |-> pc, o |-> o]
WmIdle == WmAt("idle", Nil)

FaultCounts == [restarts : 0..MaxRestarts, drops : 0..MaxDrops, timeouts : 0..MaxTimeouts]

Init ==
    /\ ses = [o \in Objects |-> Unused]
    /\ cur = [h \in Hosts |-> [p \in Hosts |-> Nil]]
    /\ gen = [h \in Hosts |-> [p \in Hosts |-> 0]]
    /\ wire = [h \in Hosts |-> [p \in Hosts |-> <<>>]]
    /\ rl = [h \in Hosts |-> RlIdle]
    /\ wm = [h \in Hosts |-> [p \in Hosts |-> WmIdle]]
    /\ cache = [h \in Hosts |-> <<>>]
    /\ lost = [h \in Hosts |-> [p \in Hosts |-> {}]]
    /\ pending = [h \in Hosts |-> [p \in Hosts |-> {}]]
    /\ delivered = [h \in Hosts |-> [p \in Hosts |-> <<>>]]
    /\ sent = [h \in Hosts |-> [p \in Hosts |-> 0]]
    /\ faults = [restarts |-> 0, drops |-> 0, timeouts |-> 0]


-----------------------------------------------------------------------------
(* WriteMessage *)

\* The map entry, or the object a LoadOrStore on an empty entry creates.
Entry(h, p) == IF cur[h][p] # Nil THEN cur[h][p] ELSE <<h, p, gen[h][p] + 1>>

\* LoadOrStore creates an object only when the entry is empty.
CanCreate(h, p) == cur[h][p] = Nil => gen[h][p] < MaxGen
\* Mutation: a new session whether or not the entry is empty.
GenAfterAlways(h, p) == [gen EXCEPT ![h][p] = @ + 1]

GenAfter(h, p) == [gen EXCEPT ![h][p] = IF cur[h][p] = Nil THEN @ + 1 ELSE @]

\* WriteMessage up to the call of session.Handshake().
WriteStart(h, p) ==
    /\ h \in Writers /\ h # p
    /\ wm[h][p].pc = "idle"
    /\ sent[h][p] < MaxWrites
    /\ CanCreate(h, p)
    /\ LET o == Entry(h, p) IN
         /\ wm' = [wm EXCEPT ![h][p] = WmAt("handshake", o)]
         /\ cur' = [cur EXCEPT ![h][p] = o]
    /\ gen' = GenAfter(h, p)
    /\ sent' = [sent EXCEPT ![h][p] = @ + 1]
    /\ UNCHANGED <<ses, wire, rl, cache, recovery, faults>>

\* Mutation: a handshake under way counts as done.
WriteReadyEarly(h, p) ==
    /\ wm[h][p].pc = "handshake"
    /\ ses[wm[h][p].o].hs \notin {"new", "failed"}
    /\ wm' = [wm EXCEPT ![h][p] = WmAt("send", wm[h][p].o)]
    /\ UNCHANGED <<ses, cur, gen, wire, rl, cache, recovery, sent, faults>>

\* handshakeContext returns nil: the fast path and the check under the mutex.
WriteReady(h, p) ==
    /\ wm[h][p].pc = "handshake"
    /\ ses[wm[h][p].o].complete
    /\ wm' = [wm EXCEPT ![h][p] = WmAt("send", wm[h][p].o)]
    /\ UNCHANGED <<ses, cur, gen, wire, rl, cache, recovery, sent, faults>>

\* handshakeContext returns the sticky handshakeErr, set by this caller's own
\* run or by the passive goroutine's; terminateSession sends the Alert and
\* closes the session, and is yet to delete the map entry.
WriteTerminate(h, p) ==
    LET o == wm[h][p].o IN
    /\ wm[h][p].pc = "handshake"
    /\ ses[o].hs = "failed"
    /\ wire' = Put(wire, o, Sealed(ses[o], AlertPay))
    /\ ses' = [ses EXCEPT ![o] = Closed(AfterSeal(@))]
    /\ wm' = [wm EXCEPT ![h][p] = WmAt("delete", o)]
    /\ UNCHANGED <<cur, gen, rl, cache, recovery, sent, faults>>

\* sessions.Delete(session.id): by id, whatever object the entry holds now.
WriteDelete(h, p) ==
    /\ wm[h][p].pc = "delete"
    /\ cur' = [cur EXCEPT ![h][p] = Nil]
    /\ wm' = [wm EXCEPT ![h][p] = WmIdle]
    /\ UNCHANGED <<ses, gen, wire, rl, cache, recovery, sent, faults>>

\* cacheOutboundMessage: a bounded FIFO of the messages sent.
CacheOutbound(c, entry) ==
    LET longer == Append(c, entry)
    IN  IF Len(longer) > CacheCap THEN Tail(longer) ELSE longer

\* cacheOutboundMessage and writeRecordLocked of the application data.
WriteSend(h, p) ==
    LET o == wm[h][p].o IN
    /\ wm[h][p].pc = "send"
    /\ cache' = [cache EXCEPT ![h] = CacheOutbound(@, <<p, sent[h][p]>>)]
    /\ wire' = Put(wire, o, Sealed(ses[o], AppPay(sent[h][p])))
    /\ ses' = [ses EXCEPT ![o] = AfterSeal(@)]
    /\ wm' = [wm EXCEPT ![h][p] = WmIdle]
    /\ UNCHANGED <<cur, gen, rl, recovery, sent, faults>>

-----------------------------------------------------------------------------
(* The handshake of one session, run by whoever took handshakeMutex *)

\* symHandshake sends the local Hello.
StartHandshake(o) ==
    /\ ses[o].hs = "new"
    /\ wire' = Put(wire, o, Sealed(ses[o], HsPay(Hello(o))))
    /\ ses' = [ses EXCEPT ![o] = [AfterSeal(@) EXCEPT !.hs = "waitHello"]]
    /\ UNCHANGED <<cur, gen, rl, wm, cache, recovery, sent, faults>>

WriteHandshake(h, p) ==
    /\ wm[h][p].pc = "handshake"
    /\ StartHandshake(wm[h][p].o)

PassiveHandshake(o) ==
    /\ ses[o].passive
    /\ StartHandshake(o)

\* The message that was read is refused: handshakeErr is set.
FailHandshake(o) ==
    /\ ses' = [ses EXCEPT ![o].hs = "failed", ![o].chan = Tail(@)]
    /\ UNCHANGED wire

\* readHandshake's select sees the session closed.
HandshakeClosed(o) ==
    /\ ses[o].hs \in {"waitHello", "waitKxm", "waitFin"}
    /\ ses[o].done
    /\ ses' = [ses EXCEPT ![o].hs = "failed"]
    /\ UNCHANGED <<cur, gen, wire, rl, wm, cache, recovery, sent, faults>>

\* symHandshake after the remote Hello: the choices of version, suite and
\* signature scheme succeed (both ends run the default configuration), then
\* doFullHandshake sends the local key exchange message.
ReadHello(o) ==
    LET msg == Head(ses[o].chan) IN
    /\ ses[o].hs = "waitHello"
    /\ ses[o].chan # <<>>
    /\ IF msg.m = "hello"
       THEN /\ wire' = Put(wire, o, Sealed(ses[o], HsPay(Kxm(o, msg.from))))
            /\ ses' = [ses EXCEPT ![o] = [AfterSeal(@) EXCEPT
                         !.hs = "waitKxm", !.chan = Tail(ses[o].chan), !.rem = msg.from]]
       ELSE FailHandshake(o)
    /\ UNCHANGED <<cur, gen, rl, wm, cache, recovery, sent, faults>>

\* processRemoteKeyExchange verifies the signature over the two randoms.
KxmAccepted(o, msg) == msg.from = ses[o].rem /\ msg.to = o

\* Mutation: the waiting readLoop is not signalled.
PreparedSilently(o, s, master) ==
    [s EXCEPT !.master = master, !.inNext = InKey(o, master)]

\* establishKeys: in.prepareCipherSpec stores the cipher and signals it.
Prepared(o, s, master) ==
    [s EXCEPT !.master = master, !.inNext = InKey(o, master), !.inReady = TRUE]

\* The rest of doFullHandshake, establishKeys and the CCS record of
\* sendFinished.  A message of another type leaves the pre-master secret nil
\* and the handshake goes on.
ReadKxm(o) ==
    LET msg == Head(ses[o].chan)
        isKxm == msg.m = "kxm"
        master == Master(o, ses[o].rem, isKxm)
    IN
    /\ ses[o].hs = "waitKxm"
    /\ ses[o].chan # <<>>
    /\ IF isKxm => KxmAccepted(o, msg)
       THEN /\ wire' = Put(wire, o, Sealed(ses[o], CcsPay))
            /\ ses' = [ses EXCEPT ![o] = [Prepared(o, AfterSeal(@), master) EXCEPT
                         !.hs = "switchOut", !.chan = Tail(ses[o].chan),
                         !.log = Transcript(o, ses[o].rem, isKxm)]]
       ELSE FailHandshake(o)
    /\ UNCHANGED <<cur, gen, rl, wm, cache, recovery, sent, faults>>

\* out.changeCipherSpec() and the Finished record of sendFinished.
SwitchOut(o) ==
    LET s == [ses[o] EXCEPT !.out = OutKey(o, ses[o].master), !.outSeq = 0] IN
    /\ ses[o].hs = "switchOut"
    /\ wire' = Put(wire, o, Sealed(s, HsPay(Finished(o[1], s.master, s.log))))
    /\ ses' = [ses EXCEPT ![o] = [AfterSeal(s) EXCEPT !.hs = "waitFin"]]
    /\ UNCHANGED <<cur, gen, rl, wm, cache, recovery, sent, faults>>

\* Mutation: the message read is not compared.
FinishedUnchecked(o, msg) == TRUE

\* readFinished compares the verify data with remoteSum.
FinishedAccepted(o, msg) == msg = Finished(o[2], ses[o].master, ses[o].log)

\* Mutation: nobody is told.
CompletedSilently(s) == [s EXCEPT !.hs = "ok", !.complete = TRUE]

\* The end of handshake(): complete, and a token offered on handshakeComplete.
Completed(s) == [s EXCEPT !.hs = "ok", !.complete = TRUE, !.token = TRUE]

ReadFinished(o) ==
    /\ ses[o].hs = "waitFin"
    /\ ses[o].chan # <<>>
    /\ IF FinishedAccepted(o, Head(ses[o].chan))
       THEN /\ ses' = [ses EXCEPT ![o] = [Completed(@) EXCEPT !.chan = Tail(ses[o].chan)]]
            /\ UNCHANGED wire
       ELSE FailHandshake(o)
    /\ UNCHANGED <<cur, gen, rl, wm, cache, recovery, sent, faults>>


-----------------------------------------------------------------------------
(* The readLoop *)

\* halfConn.decrypt: without a cipher anything passes; AEAD Open needs the key
\* and, as associated data, the sequence number.
Decrypts(s, rec) == s.in = Nil \/ (rec.key = s.in /\ rec.seq = s.inSeq)

\* A sealed record read without a cipher starts with a zero nonce byte, which
\* is no record type.
Unreadable(s, rec) == s.in = Nil /\ (rec.key # Nil \/ rec.pay.typ = "app")

Pop(w, h, p) == [w EXCEPT ![p][h] = Tail(@)]

\* First part of terminateSession, called with the session s of object o.
RlTerminate(h, o, s, w) ==
    /\ wire' = Put(w, o, Sealed(s, AlertPay))
    /\ ses' = [ses EXCEPT ![o] = Closed(AfterSeal(s))]
    /\ rl' = [rl EXCEPT ![h] = RlAt("delete", o, Nil)]

\* deliverApplication; emission and flush are one step here (module DataPath
\* takes them apart).
DeliverApplication(h, p, n) ==
    /\ IF HasBlockingGap(lost[h][p], n)
       THEN /\ pending' = [pending EXCEPT ![h][p] = @ \union {n}]
            /\ UNCHANGED delivered
       ELSE /\ pending' = [pending EXCEPT ![h][p] = @ \ Releasable(lost[h][p], @)]
            /\ delivered' = [delivered EXCEPT ![h][p] =
                   Append(@, n) \o FlushReady(lost[h][p], pending[h][p])]
    /\ UNCHANGED lost

\* Mutation: a message that is no longer lost is delivered when it comes.
HandleRetransmitLate(h, p, ref) ==
    LET still == lost[h][p] \ {ref} IN
    /\ lost' = [lost EXCEPT ![h][p] = still]
    /\ pending' = [pending EXCEPT ![h][p] = @ \ Releasable(still, @)]
    /\ delivered' = [delivered EXCEPT ![h][p] = Append(@, ref.n) \o FlushReady(still, pending[h][p])]

\* handleRetransmit of one message; refs that are no longer lost are ignored.
HandleRetransmit(h, p, ref) ==
    IF ref \notin lost[h][p]
    THEN UNCHANGED recovery
    ELSE LET still == lost[h][p] \ {ref}
             gap == HasBlockingGap(still, ref.n)
             held == IF gap THEN pending[h][p] \union {ref.n} ELSE pending[h][p]
         IN  /\ lost' = [lost EXCEPT ![h][p] = still]
             /\ pending' = [pending EXCEPT ![h][p] = held \ Releasable(still, held)]
             /\ delivered' = [delivered EXCEPT ![h][p] =
                    (IF gap THEN @ ELSE Append(@, ref.n)) \o FlushReady(still, held)]

\* handleSecureControl on session s of object o.
HandleControl(h, p, o, s, pay, w) ==
    \/ /\ pay.c = "lost_request"
       /\ LET hit == pay.ref.app /\ \E i \in 1..Len(cache[h]) : cache[h][i] = <<p, pay.ref.n>>
          IN IF hit
             THEN /\ wire' = Put(w, o, Sealed(s, CtlPay("retransmit", pay.ref)))
                  /\ ses' = [ses EXCEPT ![o] = AfterSeal(s)]
             ELSE /\ wire' = w
                  /\ ses' = [ses EXCEPT ![o] = s]
       /\ UNCHANGED recovery
    \/ /\ pay.c = "retransmit"
       /\ HandleRetransmit(h, p, pay.ref)
       /\ wire' = w
       /\ ses' = [ses EXCEPT ![o] = s]

\* markLostInbound: remember the shell of the message and spawn the goroutines
\* that ask for it and that give it up.
MarkLost(h, p, o, s, ref) ==
    /\ lost' = [lost EXCEPT ![h][p] = @ \union {ref}]
    /\ ses' = [ses EXCEPT ![o] = [s EXCEPT !.asking = @ \union {ref}]]
    /\ UNCHANGED <<pending, delivered>>

\* handleReadBoundMsg, once the session is found and the record decrypted
\* into s: the switch over the record type.
Dispatch(h, p, o, s, rec, w) ==
    \/ /\ rec.pay.typ = "alert"
       /\ ses' = [ses EXCEPT ![o] = Closed(s)]     \* closeSessionLocally
       /\ rl' = [rl EXCEPT ![h] = RlAt("delete", o, Nil)]
       /\ wire' = w
       /\ UNCHANGED recovery
    \/ /\ rec.pay.typ = "app" /\ s.complete
       /\ DeliverApplication(h, p, rec.pay.n)
       /\ ses' = [ses EXCEPT ![o] = s]
       /\ wire' = w
       /\ UNCHANGED rl
    \/ /\ rec.pay.typ = "ctl" /\ s.complete
       /\ HandleControl(h, p, o, s, rec.pay, w)
       /\ UNCHANGED rl
    \/ /\ rec.pay.typ \in {"app", "ctl"} /\ ~s.complete
       /\ ses' = [ses EXCEPT ![o] = s]
       /\ rl' = [rl EXCEPT ![h] = RlAt("await", o, rec)]
       /\ wire' = w
       /\ UNCHANGED recovery
    \/ /\ rec.pay.typ = "hs" /\ Len(s.chan) < ChanCap
       /\ ses' = [ses EXCEPT ![o] = [s EXCEPT !.chan = Append(@, rec.pay.msg)]]
       /\ wire' = w
       /\ UNCHANGED <<rl, recovery>>
    \/ /\ rec.pay.typ = "hs" /\ Len(s.chan) >= ChanCap
       /\ RlTerminate(h, o, s, w)
       /\ UNCHANGED recovery
    \/ /\ rec.pay.typ = "ccs" /\ s.inNext # Nil
       /\ ses' = [ses EXCEPT ![o] = SwitchIn(s)]
       /\ wire' = w
       /\ UNCHANGED <<rl, recovery>>
    \/ /\ rec.pay.typ = "ccs" /\ s.inNext = Nil
       /\ ses' = [ses EXCEPT ![o] = s]
       /\ rl' = [rl EXCEPT ![h] = RlAt("ccs", o, Nil)]
       /\ wire' = w
       /\ UNCHANGED recovery

\* readRecord takes the next record of p; handleReadBoundMsg looks up or
\* creates the session (spawning the passive handshake) and decrypts.
Receive(h, p) ==
    LET o == Entry(h, p)
        s == IF cur[h][p] = Nil THEN NewSession(TRUE) ELSE ses[o]
        rec == Head(wire[p][h])
        w == Pop(wire, h, p)
        opened == [s EXCEPT !.inSeq = @ + 1]
    IN
    /\ h # p                      \* shouldDropSecureSelfEcho
    /\ rl[h].pc = "idle"
    /\ wire[p][h] # <<>>
    /\ CanCreate(h, p)
    /\ gen' = GenAfter(h, p)
    /\ \/ /\ ~Decrypts(s, rec) /\ IsHelloRecord(rec)
          \* tryResetSessionFromPlaintextHello: close and delete the old session
          /\ ses' = [ses EXCEPT ![o] = Closed(s)]
          /\ cur' = [cur EXCEPT ![h][p] = Nil]
          /\ rl' = [rl EXCEPT ![h] = RlAt("store", o, rec)]
          /\ wire' = w
          /\ UNCHANGED recovery
       \/ /\ ~Decrypts(s, rec) /\ ~IsHelloRecord(rec)
          /\ cur' = [cur EXCEPT ![h][p] = o]
          /\ RlTerminate(h, o, s, w)
          /\ UNCHANGED recovery
       \/ /\ Decrypts(s, rec) /\ Unreadable(s, rec)
          /\ cur' = [cur EXCEPT ![h][p] = o]
          /\ IF s.complete
             THEN RlTerminate(h, o, opened, w) /\ UNCHANGED recovery
             ELSE MarkLost(h, p, o, opened, RefOf(rec)) /\ wire' = w /\ UNCHANGED rl
       \/ /\ Decrypts(s, rec) /\ ~Unreadable(s, rec)
          /\ cur' = [cur EXCEPT ![h][p] = o]
          /\ Dispatch(h, p, o, opened, rec, w)
    /\ UNCHANGED <<wm, cache, sent, faults>>

\* The rest of tryResetSessionFromPlaintextHello: Store a fresh session over
\* whatever the entry holds now, hand it the Hello, spawn its handshake.
RlStore(h) ==
    LET p == rl[h].o[2]
        o == <<h, p, gen[h][p] + 1>>
    IN
    /\ rl[h].pc = "store"
    /\ gen[h][p] < MaxGen
    /\ gen' = [gen EXCEPT ![h][p] = @ + 1]
    /\ cur' = [cur EXCEPT ![h][p] = o]
    /\ ses' = [ses EXCEPT ![o] = [NewSession(TRUE) EXCEPT !.chan = <<rl[h].rec.pay.msg>>]]
    /\ rl' = [rl EXCEPT ![h] = RlIdle]
    /\ UNCHANGED <<wire, wm, cache, recovery, sent, faults>>

\* Mutation: the closed session stays in the map.
RlDeleteForgotten(h) ==
    /\ rl[h].pc = "delete"
    /\ rl' = [rl EXCEPT ![h] = RlIdle]
    /\ UNCHANGED <<ses, cur, gen, wire, wm, cache, recovery, sent, faults>>

\* The sessions.Delete of terminateSession and closeSessionLocally.
RlDelete(h) ==
    /\ rl[h].pc = "delete"
    /\ cur' = [cur EXCEPT ![h][rl[h].o[2]] = Nil]
    /\ rl' = [rl EXCEPT ![h] = RlIdle]
    /\ UNCHANGED <<ses, gen, wire, wm, cache, recovery, sent, faults>>

\* in.changeCipherSpec() waiting for nextCipherReady or for Close().
RlChangeCipherSpec(h) ==
    LET o == rl[h].o
        taken == [ses[o] EXCEPT !.inReady = FALSE]
    IN
    /\ rl[h].pc = "ccs"
    /\ \/ /\ ses[o].inReady
          /\ IF ses[o].inNext = Nil
             THEN RlTerminate(h, o, taken, wire)
             ELSE /\ ses' = [ses EXCEPT ![o] = SwitchIn(taken)]
                  /\ rl' = [rl EXCEPT ![h] = RlIdle]
                  /\ UNCHANGED wire
       \/ /\ ses[o].done
          /\ RlTerminate(h, o, ses[o], wire)
    /\ UNCHANGED <<cur, gen, wm, cache, recovery, sent, faults>>

\* The wait for the handshake to complete ends with the token, which this
\* reader takes (the held application data or control frame is handled), or
\* with the session closed (it is dropped).
RlAwait(h) ==
    LET o == rl[h].o
        s == [ses[o] EXCEPT !.token = FALSE]
    IN
    /\ rl[h].pc = "await"
    /\ rl' = [rl EXCEPT ![h] = RlIdle]
    /\ \/ /\ ses[o].token /\ rl[h].rec.pay.typ = "app"
          /\ DeliverApplication(h, o[2], rl[h].rec.pay.n)
          /\ ses' = [ses EXCEPT ![o] = s]
          /\ UNCHANGED wire
       \/ /\ ses[o].token /\ rl[h].rec.pay.typ = "ctl"
          /\ HandleControl(h, o[2], o, s, rl[h].rec.pay, wire)
       \/ /\ ses[o].done
          /\ UNCHANGED <<ses, wire, recovery>>
    /\ UNCHANGED <<cur, gen, wm, cache, sent, faults>>

Timeout == /\ faults.timeouts < MaxTimeouts
           /\ faults' = [faults EXCEPT !.timeouts = @ + 1]

\* After two seconds it gives up: application data ends the session, a control
\* frame is dropped.
RlAwaitTimeout(h) ==
    /\ rl[h].pc = "await"
    /\ Timeout
    /\ \/ /\ rl[h].rec.pay.typ = "app"
          /\ RlTerminate(h, rl[h].o, ses[rl[h].o], wire)
       \/ /\ rl[h].rec.pay.typ = "ctl"
          /\ rl' = [rl EXCEPT ![h] = RlIdle]
          /\ UNCHANGED <<ses, wire>>
    /\ UNCHANGED <<cur, gen, wm, cache, recovery, sent>>


-----------------------------------------------------------------------------
(* Recovery goroutines *)

\* requestLostAfterHandshake sends its lost_request through session o.
AskFor(o, s, ref) ==
    /\ wire' = Put(wire, o, Sealed(s, CtlPay("lost_request", ref)))
    /\ ses' = [ses EXCEPT ![o] = AfterSeal(s)]

\* Its first look at isHandshakeComplete.
RequestLost(o, ref) ==
    LET s == [ses[o] EXCEPT !.asking = @ \ {ref}] IN
    /\ ref \in ses[o].asking
    /\ IF ses[o].complete
       THEN AskFor(o, s, ref)
       ELSE /\ ses' = [ses EXCEPT ![o] = [s EXCEPT !.waiting = @ \union {ref}]]
            /\ UNCHANGED wire
    /\ UNCHANGED <<cur, gen, rl, wm, cache, recovery, sent, faults>>

\* Its select: the token, of which there is one, ...
RequestLostToken(o, ref) ==
    LET s == [ses[o] EXCEPT !.waiting = @ \ {ref}, !.token = FALSE] IN
    /\ ref \in ses[o].waiting
    /\ ses[o].token
    /\ AskFor(o, s, ref)
    /\ UNCHANGED <<cur, gen, rl, wm, cache, recovery, sent, faults>>

\* ... the end of the session, or the retransmit timeout.
RequestLostGiveUp(o, ref) ==
    /\ ref \in ses[o].waiting
    /\ \/ ses[o].done /\ UNCHANGED faults
       \/ Timeout
    /\ ses' = [ses EXCEPT ![o].waiting = @ \ {ref}]
    /\ UNCHANGED <<cur, gen, wire, rl, wm, cache, recovery, sent>>

\* Mutation: the expired message is forgotten and nothing released.
ExpireLostOnly(h, p, ref) ==
    /\ ref \in lost[h][p]
    /\ Timeout
    /\ lost' = [lost EXCEPT ![h][p] = @ \ {ref}]
    /\ UNCHANGED <<ses, cur, gen, wire, rl, wm, cache, pending, delivered, sent>>

\* expireLostInbound: give a lost message up and release what it held back.
ExpireLost(h, p, ref) ==
    LET still == lost[h][p] \ {ref} IN
    /\ ref \in lost[h][p]
    /\ Timeout
    /\ lost' = [lost EXCEPT ![h][p] = still]
    /\ pending' = [pending EXCEPT ![h][p] = @ \ Releasable(still, @)]
    /\ delivered' = [delivered EXCEPT ![h][p] = @ \o FlushReady(still, pending[h][p])]
    /\ UNCHANGED <<ses, cur, gen, wire, rl, wm, cache, sent>>

-----------------------------------------------------------------------------
(* The environment *)

\* A session object whose process is gone: it keeps what the properties look
\* back at, and nothing of it runs any more.
Abandoned(s) ==
    [s EXCEPT !.hs = IF @ = "ok" THEN "ok" ELSE "failed", !.passive = FALSE,
              !.chan = <<>>, !.token = FALSE, !.done = TRUE, !.inReady = FALSE,
              !.asking = {}, !.waiting = {}]

\* The client process of h dies and comes back with a new Conn; the relay
\* still holds what is in flight.
Restart(h) ==
    /\ faults.restarts < MaxRestarts
    /\ faults' = [faults EXCEPT !.restarts = @ + 1]
    /\ ses' = [o \in Objects |->
                 IF o[1] = h /\ o[3] <= gen[h][o[2]] THEN Abandoned(ses[o]) ELSE ses[o]]
    /\ cur' = [cur EXCEPT ![h] = [p \in Hosts |-> Nil]]
    /\ rl' = [rl EXCEPT ![h] = RlIdle]
    /\ wm' = [wm EXCEPT ![h] = [p \in Hosts |-> WmIdle]]
    /\ cache' = [cache EXCEPT ![h] = <<>>]
    /\ lost' = [lost EXCEPT ![h] = [p \in Hosts |-> {}]]
    /\ pending' = [pending EXCEPT ![h] = [p \in Hosts |-> {}]]
    /\ UNCHANGED <<gen, wire, delivered, sent>>

\* The relay drops a record for a receiver that is not online.
RelayDrop(h, p) ==
    /\ wire[h][p] # <<>>
    /\ faults.drops < MaxDrops
    /\ faults' = [faults EXCEPT !.drops = @ + 1]
    /\ wire' = [wire EXCEPT ![h][p] = Tail(@)]
    /\ UNCHANGED <<ses, cur, gen, rl, wm, cache, recovery, sent>>

-----------------------------------------------------------------------------

WriteStep(h, p) ==
    \/ WriteReady(h, p) \/ WriteHandshake(h, p) \/ WriteSend(h, p)
    \/ WriteTerminate(h, p) \/ WriteDelete(h, p)

HandshakeStep(o) ==
    \/ PassiveHandshake(o) \/ HandshakeClosed(o)
    \/ ReadHello(o) \/ ReadKxm(o) \/ SwitchOut(o) \/ ReadFinished(o)

ReadLoopStep(h) ==
    \/ \E p \in Hosts : Receive(h, p)
    \/ RlStore(h) \/ RlDelete(h) \/ RlChangeCipherSpec(h)
    \/ RlAwait(h)

RequestStep(o) ==
    \/ \E ref \in ses[o].asking : RequestLost(o, ref)
    \/ \E ref \in ses[o].waiting : RequestLostToken(o, ref) \/ RequestLostGiveUp(o, ref)

Next ==
    \/ \E h, p \in Hosts : WriteStart(h, p) \/ WriteStep(h, p)
    \/ \E o \in Objects : HandshakeStep(o) \/ RequestStep(o)
    \/ \E h \in Hosts : ReadLoopStep(h) \/ RlAwaitTimeout(h) \/ Restart(h)
    \/ \E h, p \in Hosts : \E ref \in lost[h][p] : ExpireLost(h, p, ref)
    \/ \E h, p \in Hosts : RelayDrop(h, p)

Spec == Init /\ [][Next]_vars

\* The Go scheduler runs every goroutine that can run and the relay forwards
\* what it holds; applications need not write, timers need not fire first,
\* processes need not restart and the relay need not drop.
FairSpec ==
    /\ Spec
    /\ \A h, p \in Hosts : WF_vars(WriteStep(h, p))
    /\ \A o \in Objects : WF_vars(HandshakeStep(o)) /\ WF_vars(RequestStep(o))
    /\ \A h \in Hosts : WF_vars(ReadLoopStep(h))


-----------------------------------------------------------------------------
(* Properties *)

\* The state keeps its shape, and the bounds hold.
TypeOK ==
    /\ ses \in [Objects -> Sessions]
    /\ cur \in [Hosts -> [Hosts -> Objects \union {Nil}]]
    /\ gen \in [Hosts -> [Hosts -> 0..MaxGen]]
    /\ wire \in [Hosts -> [Hosts -> Seq(Records)]]
    /\ rl \in [Hosts -> RlStates]
    /\ wm \in [Hosts -> [Hosts -> WmStates]]
    /\ cache \in [Hosts -> Seq(Hosts \X Nat)]
    /\ lost \in [Hosts -> [Hosts -> SUBSET Refs]]
    /\ pending \in [Hosts -> [Hosts -> SUBSET Nat]]
    /\ sent \in [Hosts -> [Hosts -> 0..MaxWrites]]
    /\ faults \in FaultCounts

\* writeRecordLocked never lets application data or a recovery control frame
\* out in the clear, whoever writes it and whatever happened to the session in
\* between: encrypt passes a payload through unsealed while the cipher is nil.
NoPlaintextData ==
    \A h, p \in Hosts : \A i \in DOMAIN wire[h][p] :
        wire[h][p][i].pay.typ \in {"app", "ctl"} => wire[h][p][i].key # Nil

\* A session that readFinished accepted has derived, from a real pre-master
\* secret, the same master secret as the one peer session whose Hello it read,
\* and that peer session took this one's Hello.
AgreedKeys ==
    \A o \in Objects : ses[o].complete =>
        LET r == ses[o].rem IN
        /\ ses[o].master.pre
        /\ ses[r].master = ses[o].master
        /\ ses[r].rem = o
        /\ ses[o].out = OutKey(o, ses[o].master)
        /\ ses[o].in = InKey(o, ses[o].master)

\* ReadMessage returns the messages of a peer in the order they were written,
\* each at most once, through resets, retransmissions and expiries.
OrderedDelivery ==
    \A h, p \in Hosts : \A i, j \in DOMAIN delivered[h][p] :
        i < j => delivered[h][p][i] < delivered[h][p][j]

\* The session layer implements an ordered channel between its applications:
\* WriteMessage writes; deliverApplication, handleRetransmit and
\* expireLostInbound read, each a run of messages after all that was read.
Channel == INSTANCE OrderedChannel WITH written <- sent, read <- delivered

ImplementsOrderedChannel == Channel!Spec

\* A message that was decrypted and buffered always has a lost message before
\* it, whose retransmission or expiry will release it: none is stranded.
NoStrandedMessage ==
    \A h, p \in Hosts : \A n \in pending[h][p] : HasBlockingGap(lost[h][p], n)

\* A closed session is in the sessions map only while the goroutine that closed
\* it is on its way to the Delete.
ClosedSessionLeavesMap ==
    \A h, p \in Hosts :
        cur[h][p] # Nil /\ ses[cur[h][p]].done =>
            \/ wm[h][p].pc = "delete"
            \/ rl[h].pc = "delete" /\ rl[h].o[2] = p

\* Without restarts, losses and timeouts no session is torn down, however the
\* two ends' first messages cross.
NeverTornDown == \A o \in Objects : ~ses[o].done /\ ses[o].hs # "failed"

\* Every message given to WriteMessage is eventually returned by the peer's
\* ReadMessage.
EventuallyDelivered ==
    \A h, p \in Hosts : \A n \in 1..MaxWrites :
        (sent[h][p] >= n) ~> (\E i \in DOMAIN delivered[p][h] : delivered[p][h][i] = n)

\* terminateSession deletes the session it closed from the map.
DeletesOnlyClosed ==
    [][\A h, p \in Hosts :
          cur[h][p] # Nil /\ cur'[h][p] # cur[h][p] => ses'[cur[h][p]].done]_vars

\* The readLoop of h waits for a cipher that no goroutine will prepare: the
\* handshake of that session has failed and nobody has closed it.
Wedged(h) ==
    /\ rl[h].pc = "ccs"
    /\ LET s == ses[rl[h].o] IN s.hs = "failed" /\ ~s.done /\ ~s.inReady

\* Sessions that share one Conn do not interfere: what one peer sends is never
\* left unread because of another peer's session.
SessionsDoNotInterfere ==
    \A h, p \in Hosts : Wedged(h) /\ wire[p][h] # <<>> => rl[h].o[2] = p

\* The completed handshake wakes the readLoop that waits for it: the token is
\* there for it to take, or the session is over.
CompletionWakesReadLoop ==
    \A h \in Hosts : rl[h].pc = "await" =>
        LET s == ses[rl[h].o] IN s.complete => s.token \/ s.done

=============================================================================
