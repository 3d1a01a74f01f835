------------------------------ MODULE DataPath ------------------------------
(***************************************************************************)
(* One conversation, from WriteMessage at one end to ReadMessage at the    *)
(* other, with the steps apart that SessionLayer takes together: a record  *)
(* is sealed under the halfConn's mutex and written under writeMu; the     *)
(* reorder buffer is changed under recovery.mu and what it releases is     *)
(* sent on the bounded msgChan after the unlock.  The application may have *)
(* several goroutines in WriteMessage, and the sender's readLoop writes    *)
(* retransmissions of its own.                                             *)
(*                                                                         *)
(* The handshake is SessionLayer's: here a session is its key, a natural   *)
(* number, and Rekey is a completed handshake, whose records the receiver  *)
(* reads in their place; sequence numbers count from the one after         *)
(* Finished.  Key 0 is a session that has no cipher yet.                   *)
(*                                                                         *)
(* A message has the id of its WriteMessage call (the client's message id) *)
(* and the number the server gives it on arrival, which travels in the     *)
(* clear and is what the reorder buffer goes by.                           *)
(***************************************************************************)
EXTENDS Reorder, Sm4Gcm

CONSTANTS
    Writers,    \* goroutines of the application inside WriteMessage
    ReadLoop,   \* the sender's readLoop, which writes retransmissions
    Nil,        \* no record, no tag
    ChanCap,    \* capacity of msgChan
    CacheCap,   \* maxSendCacheEntries
    MaxWrites,  \* bound: WriteMessage calls
    MaxGen,     \* bound: completed handshakes
    MaxFaults   \* bound: lost records and lost sessions

ASSUME SendersAssumption == ReadLoop \notin Writers
ASSUME BoundsAssumption ==
    {ChanCap, CacheCap, MaxWrites, MaxGen, MaxFaults} \subseteq Nat

Senders == Writers \union {ReadLoop}

\* What is sealed: application data by its id, a retransmission by the number
\* of the message it repeats; a handshake is not sealed.
Bodies == [typ : {"app", "retransmit", "handshake"}, of : Nat]

Tags == [key : Nat, aad : Nat, body : Bodies]

Records == [body : Bodies, tag : Tags \union {Nil}, n : Nat]

Contexts == [key : Nat, aad : Nat \union {Nil}, tag : Tags \union {Nil}]

HalfConns == [ctx : Contexts, seq : Nat]

VARIABLES
    gen,        \* handshakes completed by the sender
    connected,  \* the sender's c.conn is not nil
    out,        \* the writing halfConn of each session the sender has had
    wr,         \* each sender: where it is, its session, the record in hand
    written,    \* WriteMessage calls that have cached their message
    cache,      \* recovery.sendCacheOrder: ids
    store,      \* the server: the id of message number n
    wire,       \* records between the server and the receiver
    in,         \* the reading halfConn of the receiver's session
    lost,       \* reorderState.lost: numbers
    pending,    \* reorderState.pending: numbers
    asking,     \* lost messages whose request waits for the handshake
    requests,   \* lost_request frames on their way: number and session
    rl,         \* the receiver's readLoop, with what it has still to send
    expiries,   \* expiry goroutines that have unlocked and not yet sent all
    emitted,    \* what was sent on msgChan, by number (history)
    nread,      \* how much of it ReadMessage has returned
    byExpiry,   \* the messages that expiry goroutines sent (history)
    opened,     \* ids of the application records opened, in order (history)
    faults

senderVars == <<gen, connected, out, wr, written, cache>>
reorderVars == <<lost, pending>>
requestVars == <<asking, requests>>
chanVars == <<emitted, nread, byExpiry>>
vars == <<gen, connected, out, wr, written, cache, store, wire, in, lost, pending,
          asking, requests, rl, expiries, emitted, nread, byExpiry, opened, faults>>

-----------------------------------------------------------------------------
(* halfConn *)

NewHalfConn(key) == [ctx |-> NewContext(key, Nil), seq |-> 0]

NoCipher == NewHalfConn(0)

\* halfConn.encrypt: the associated data is the sequence number.
Encrypted(hc, body) == [ctx |-> Seal(hc.ctx, hc.seq, body), seq |-> hc.seq + 1]

\* A sender outside writeRecordLocked.
NoRecord == [pc |-> "idle", key |-> 0, rec |-> Nil]

Record(body, tag) == [body |-> body, tag |-> tag, n |-> 0]

\* Mutation: the sequence number is not authenticated.
DecryptsAnySeq(hc, rec) == rec.tag # Nil /\ rec.tag.key = hc.ctx.key /\ rec.tag.body = rec.body

\* halfConn.decrypt with a cipher.
Decrypts(hc, rec) == DecryptAll(OpenWith(hc.ctx, hc.seq, rec.tag), rec.body)

Decrypted(hc, rec) == [ctx |-> OpenWith(hc.ctx, hc.seq, rec.tag), seq |-> hc.seq + 1]

-----------------------------------------------------------------------------
(* The reorder buffer, by number *)

LostRefs(l) == {Ref(TRUE, n) : n \in l}

Blocked(l, n) == HasBlockingGap(LostRefs(l), n)

Released(l, p) == Releasable(LostRefs(l), p)

Idle == [pc |-> "idle", batch |-> {}]

\* A goroutine with a batch of released messages sends them in order.
Sending(batch) == IF batch = {} THEN Idle ELSE [pc |-> "emit", batch |-> batch]

Least(n, batch) == n \in batch /\ \A m \in batch : n <= m

-----------------------------------------------------------------------------

Init ==
    /\ gen = 0
    /\ connected = TRUE
    /\ out = [k \in 1 .. MaxGen |-> NewHalfConn(k)]
    /\ wr = [s \in Senders |-> NoRecord]
    /\ written = 0
    /\ cache = <<>>
    /\ store = <<>>
    /\ wire = <<>>
    /\ in = NoCipher
    /\ lost = {}
    /\ pending = {}
    /\ asking = {}
    /\ requests = {}
    /\ rl = Idle
    /\ expiries = {}
    /\ emitted = <<>>
    /\ nread = 0
    /\ byExpiry = {}
    /\ opened = <<>>
    /\ faults = 0

-----------------------------------------------------------------------------
(* The sender *)

\* A handshake completes: a new session in the map, its records on the wire.
Rekey ==
    /\ gen < MaxGen
    /\ connected
    /\ gen' = gen + 1
    /\ wire' = Append(wire, Record([typ |-> "handshake", of |-> gen + 1], Nil))
    /\ UNCHANGED <<connected, out, wr, written, cache, store, in, reorderVars, requestVars,
                   rl, expiries, chanVars, opened, faults>>

\* WriteMessage up to where Handshake returns: the caller holds a session,
\* which another may replace from now on.
WriteStart(w) ==
    /\ wr[w].pc = "idle"
    /\ gen > 0
    /\ written < MaxWrites
    /\ wr' = [wr EXCEPT ![w] = [pc |-> "ready", key |-> gen, rec |-> Nil]]
    /\ UNCHANGED <<gen, connected, out, written, cache, store, wire, in, reorderVars,
                   requestVars, rl, expiries, chanVars, opened, faults>>

\* cacheOutboundMessage: a bounded FIFO.
CacheOutbound(id) ==
    LET longer == Append(cache, id)
    IN  IF Len(longer) > CacheCap THEN Tail(longer) ELSE longer

\* The first half of writeRecordLocked, under the halfConn's mutex.
SealInHand(s, key, body) ==
    LET hc == Encrypted(out[key], body) IN
    /\ out' = [out EXCEPT ![key] = hc]
    /\ wr' = [wr EXCEPT ![s] = [pc |-> "sealed", key |-> key, rec |-> Record(body, hc.ctx.tag)]]

WriteSeal(w) ==
    /\ wr[w].pc = "ready"
    /\ written < MaxWrites
    /\ written' = written + 1
    /\ cache' = CacheOutbound(written + 1)
    /\ SealInHand(w, wr[w].key, [typ |-> "app", of |-> written + 1])
    /\ UNCHANGED <<gen, connected, store, wire, in, reorderVars, requestVars, rl, expiries,
                   chanVars, opened, faults>>

\* The second half, under writeMu: the record reaches the server, which numbers
\* application messages in the order of their arrival.
WritePut(s) ==
    LET rec == wr[s].rec
        numbered == rec.body.typ = "app"
    IN
    /\ wr[s].pc = "sealed"
    /\ connected
    /\ wr' = [wr EXCEPT ![s] = NoRecord]
    /\ store' = IF numbered THEN Append(store, rec.body.of) ELSE store
    /\ wire' = Append(wire, [rec EXCEPT !.n = IF numbered THEN Len(store) + 1 ELSE 0])
    /\ UNCHANGED <<gen, connected, out, written, cache, in, reorderVars, requestVars, rl,
                   expiries, chanVars, opened, faults>>

Fault ==
    /\ faults < MaxFaults
    /\ faults' = faults + 1

\* The write fails, or there is no connection: the record's sequence number is
\* used up. WriteMessage then closes the connection; the readLoop only logs.
WriteFails(s) ==
    /\ wr[s].pc = "sealed"
    /\ IF connected THEN Fault ELSE UNCHANGED faults
    /\ wr' = [wr EXCEPT ![s] = NoRecord]
    /\ connected' = (connected /\ s = ReadLoop)
    /\ UNCHANGED <<gen, out, written, cache, store, wire, in, reorderVars, requestVars, rl,
                   expiries, chanVars, opened>>

\* The sessions, with their keys and sequence numbers, outlive the connection.
Dial ==
    /\ ~connected
    /\ connected' = TRUE
    /\ UNCHANGED <<gen, out, wr, written, cache, store, wire, in, reorderVars, requestVars,
                   rl, expiries, chanVars, opened, faults>>

\* handleLostRequest: the readLoop, if its session opens the request, looks the
\* message up in the send cache and seals it again.
AnswerLost(r) ==
    /\ wr[ReadLoop].pc = "idle"
    /\ requests' = requests \ {r}
    /\ IF r.key = gen /\ \E i \in DOMAIN cache : cache[i] = store[r.n]
       THEN SealInHand(ReadLoop, gen, [typ |-> "retransmit", of |-> r.n])
       ELSE UNCHANGED <<out, wr>>
    /\ UNCHANGED <<gen, connected, written, cache, store, wire, in, reorderVars, asking, rl,
                   expiries, chanVars, opened, faults>>

-----------------------------------------------------------------------------
(* The relay *)

RelayDrop ==
    /\ wire # <<>>
    /\ Fault
    /\ wire' = Tail(wire)
    /\ UNCHANGED <<senderVars, store, in, reorderVars, requestVars, rl, expiries, chanVars,
                   opened>>

-----------------------------------------------------------------------------
(* The receiver's readLoop *)

\* terminateSession and closeSessionLocally: the next record finds or makes a
\* session without a cipher, and the requests that waited for this one return.
CloseSession ==
    /\ in' = NoCipher
    /\ asking' = {}

\* An Alert, a reset by a plaintext Hello, a failure of the other direction.
SessionEnds ==
    /\ in.ctx.key # 0
    /\ rl.pc = "idle"
    /\ Fault
    /\ CloseSession
    /\ UNCHANGED <<senderVars, store, wire, reorderVars, requests, rl, expiries, chanVars,
                   opened>>

\* deliverApplication up to the unlock.
DeliverApplication(n) ==
    /\ IF Blocked(lost, n)
       THEN /\ pending' = pending \union {n}
            /\ UNCHANGED rl
       ELSE /\ rl' = [pc |-> "send", batch |-> {n}]
            /\ UNCHANGED pending
    /\ UNCHANGED lost

\* Mutation: a retransmission that comes after its message was given up is taken.
HandleRetransmitLate(n) ==
    /\ lost' = lost \ {n}
    /\ rl' = Sending({n} \union Released(lost \ {n}, pending))
    /\ pending' = pending \ Released(lost \ {n}, pending)

\* handleRetransmit up to the unlock; the message itself, if it is not blocked,
\* comes before all that the flush releases.
HandleRetransmit(n) ==
    IF n \notin lost
    THEN UNCHANGED <<lost, pending, rl>>
    ELSE LET still == lost \ {n}
             blocked == Blocked(still, n)
             held == IF blocked THEN pending \union {n} ELSE pending
             first == IF blocked THEN {} ELSE {n}
         IN  /\ lost' = still
             /\ pending' = held \ Released(still, held)
             /\ rl' = Sending(first \union Released(still, held))

\* markLostInbound.
MarkLost(n) ==
    /\ lost' = lost \union {n}
    /\ asking' = asking \union {n}
    /\ UNCHANGED <<pending, rl>>

\* readRecord and handleReadBoundMsg of the next record. A handshake brings a
\* new session with its cipher. A session without a cipher can read nothing: an
\* application message is marked lost, and the request for a lost control frame
\* finds nothing. A record that does not decrypt ends the session.
Receive ==
    LET rec == Head(wire) IN
    /\ rl.pc = "idle"
    /\ wire # <<>>
    /\ wire' = Tail(wire)
    /\ \/ /\ rec.body.typ = "handshake"
          /\ in' = NewHalfConn(rec.body.of)
          /\ UNCHANGED <<reorderVars, rl, asking, opened>>
       \/ /\ rec.body.typ = "app" /\ in.ctx.key = 0
          /\ MarkLost(rec.n)
          /\ UNCHANGED <<in, opened>>
       \/ /\ rec.body.typ = "retransmit" /\ in.ctx.key = 0
          /\ UNCHANGED <<in, reorderVars, rl, asking, opened>>
       \/ /\ rec.body.typ = "app" /\ in.ctx.key # 0 /\ Decrypts(in, rec)
          /\ in' = Decrypted(in, rec)
          /\ opened' = Append(opened, rec.body.of)
          /\ DeliverApplication(rec.n)
          /\ UNCHANGED asking
       \/ /\ rec.body.typ = "retransmit" /\ in.ctx.key # 0 /\ Decrypts(in, rec)
          /\ in' = Decrypted(in, rec)
          /\ HandleRetransmit(rec.body.of)
          /\ UNCHANGED <<asking, opened>>
       \/ /\ rec.body.typ # "handshake" /\ in.ctx.key # 0 /\ ~Decrypts(in, rec)
          /\ CloseSession
          /\ UNCHANGED <<reorderVars, rl, opened>>
    /\ UNCHANGED <<senderVars, store, requests, expiries, chanVars, faults>>

\* Mutation: the send does not wait for room.
EmitOverfull(n) ==
    /\ emitted' = Append(emitted, n)
    /\ UNCHANGED nread

\* The send on msgChan, which blocks while the channel is full.
Emit(n) ==
    /\ Len(emitted) - nread < ChanCap
    /\ emitted' = Append(emitted, n)
    /\ UNCHANGED nread

\* c.msgChan <- item in deliverApplication ...
RlSend(n) ==
    /\ rl.pc = "send"
    /\ n \in rl.batch
    /\ Emit(n)
    /\ rl' = [pc |-> "flush", batch |-> {}]
    /\ UNCHANGED <<senderVars, store, wire, in, reorderVars, requestVars, expiries, byExpiry,
                   opened, faults>>

\* ... and its flushReadyPending, under the lock again.
RlFlush ==
    /\ rl.pc = "flush"
    /\ pending' = pending \ Released(lost, pending)
    /\ rl' = Sending(Released(lost, pending))
    /\ UNCHANGED <<senderVars, store, wire, in, lost, requestVars, expiries, chanVars, opened,
                   faults>>

\* emitReadItems in the readLoop.
RlEmit(n) ==
    /\ rl.pc = "emit"
    /\ Least(n, rl.batch)
    /\ Emit(n)
    /\ rl' = Sending(rl.batch \ {n})
    /\ UNCHANGED <<senderVars, store, wire, in, reorderVars, requestVars, expiries, byExpiry,
                   opened, faults>>

-----------------------------------------------------------------------------
(* The receiver's other goroutines *)

\* requestLostAfterHandshake, once the session it was started for is complete.
RequestLost(n) ==
    /\ n \in asking
    /\ in.ctx.key # 0
    /\ asking' = asking \ {n}
    /\ requests' = requests \union {[n |-> n, key |-> in.ctx.key]}
    /\ UNCHANGED <<senderVars, store, wire, in, reorderVars, rl, expiries, chanVars, opened,
                   faults>>

\* The request times out, or its record is lost on the way.
RequestFails(n) ==
    /\ Fault
    /\ \/ asking' = asking \ {n} /\ UNCHANGED requests
       \/ requests' = {r \in requests : r.n # n} /\ UNCHANGED asking
    /\ UNCHANGED <<senderVars, store, wire, in, reorderVars, rl, expiries, chanVars, opened>>

\* Mutation: what was released is not sent.
ExpireForgets(n) ==
    /\ n \in lost
    /\ lost' = lost \ {n}
    /\ pending' = pending \ Released(lost \ {n}, pending)
    /\ UNCHANGED <<senderVars, store, wire, in, requestVars, rl, expiries, chanVars, opened, faults>>

\* expireLostInbound up to the unlock. The message was still lost after six
\* seconds; the goroutine of one that is not finds nothing to do.
Expire(n) ==
    LET still == lost \ {n}
        ready == Released(still, pending)
    IN
    /\ n \in lost
    /\ lost' = still
    /\ pending' = pending \ ready
    /\ expiries' = IF ready = {} THEN expiries ELSE expiries \union {[of |-> n, batch |-> ready]}
    /\ UNCHANGED <<senderVars, store, wire, in, requestVars, rl, chanVars, opened, faults>>

\* Mutation: the goroutine does not move on to its next item.
ExpiryEmitAgain(g, n) ==
    /\ g \in expiries
    /\ Least(n, g.batch)
    /\ Emit(n)
    /\ byExpiry' = byExpiry \union {n}
    /\ UNCHANGED <<senderVars, store, wire, in, reorderVars, requestVars, rl, expiries, opened,
                   faults>>

\* emitReadItems in the expiry goroutine g.
ExpiryEmit(g, n) ==
    /\ g \in expiries
    /\ Least(n, g.batch)
    /\ Emit(n)
    /\ byExpiry' = byExpiry \union {n}
    /\ expiries' = (expiries \ {g})
                      \union (IF g.batch = {n} THEN {} ELSE {[g EXCEPT !.batch = @ \ {n}]})
    /\ UNCHANGED <<senderVars, store, wire, in, reorderVars, requestVars, rl, opened, faults>>

ReadMessage ==
    /\ nread < Len(emitted)
    /\ nread' = nread + 1
    /\ UNCHANGED <<senderVars, store, wire, in, reorderVars, requestVars, rl, expiries, emitted,
                   byExpiry, opened, faults>>

-----------------------------------------------------------------------------

ReadLoopStep ==
    \/ Receive
    \/ RlFlush
    \/ \E n \in rl.batch : RlSend(n) \/ RlEmit(n)

ExpiryStep(g) == \E n \in g.batch : ExpiryEmit(g, n)

Next ==
    \/ Rekey
    \/ \E w \in Writers : WriteStart(w) \/ WriteSeal(w)
    \/ \E s \in Senders : WritePut(s) \/ WriteFails(s)
    \/ Dial
    \/ \E r \in requests : AnswerLost(r)
    \/ RelayDrop \/ SessionEnds
    \/ ReadLoopStep
    \/ \E n \in asking : RequestLost(n)
    \/ \E n \in asking \union {r.n : r \in requests} : RequestFails(n)
    \/ \E n \in lost : Expire(n)
    \/ \E g \in expiries : ExpiryStep(g)
    \/ ReadMessage

\* The goroutines of the receiver run, the sleep of an expiry goroutine ends, and
\* the application keeps calling ReadMessage. A goroutine that waits to send on
\* msgChan gets its turn: the waiters of a Go channel are served in order (SF).
Fairness ==
    /\ WF_vars(ReadMessage)
    /\ SF_vars(ReadLoopStep)
    /\ WF_vars(\E n \in lost : Expire(n))
    /\ SF_vars(\E g \in expiries : ExpiryStep(g))

Spec == Init /\ [][Next]_vars /\ Fairness

-----------------------------------------------------------------------------
(* Properties *)

\* The state keeps its shape, and msgChan its capacity.
TypeOK ==
    /\ gen \in 0 .. MaxGen
    /\ connected \in BOOLEAN
    /\ out \in [1 .. MaxGen -> HalfConns]
    /\ wr \in [Senders -> [pc : {"idle", "ready", "sealed"}, key : 0 .. MaxGen,
                           rec : Records \union {Nil}]]
    /\ written \in 0 .. MaxWrites
    /\ cache \in Seq(Nat)
    /\ store \in Seq(Nat)
    /\ wire \in Seq(Records)
    /\ in \in HalfConns
    /\ lost \subseteq Nat /\ pending \subseteq Nat /\ asking \subseteq Nat
    /\ requests \subseteq [n : Nat, key : Nat]
    /\ rl \in [pc : {"idle", "send", "flush", "emit"}, batch : SUBSET Nat]
    /\ expiries \subseteq [of : Nat, batch : SUBSET Nat]
    /\ emitted \in Seq(Nat)
    /\ nread \in Nat
    /\ Len(emitted) <= nread + ChanCap
    /\ byExpiry \subseteq Nat
    /\ opened \in Seq(Nat)
    /\ faults \in 0 .. MaxFaults

\* Whatever is lost, late, overtaken, retransmitted or given up, the application
\* is handed each message at most once, and only what the server has numbered.
Service == INSTANCE AtMostOnce WITH accepted <- Len(store), returned <- emitted

ImplementsAtMostOnce == Service!Spec

\* What the readLoop itself sends on msgChan is in the order of the server's
\* numbers, whatever it delivers, buffers, restores and flushes, and however it
\* interleaves with expiries: only a message that an expiry goroutine sends, after
\* it has unlocked, can change places with another.
ReadLoopInOrder ==
    \A i, j \in DOMAIN emitted :
        i < j /\ emitted[i] \notin byExpiry /\ emitted[j] \notin byExpiry
            => emitted[i] < emitted[j]

\* The receiver opens application records in the order in which their writers
\* sealed them, though several writers, a retransmitting readLoop and a replaced
\* session may put them on the wire in another: the sequence number is part of
\* what the record authenticates.
OpenedInSealOrder ==
    \A i, j \in DOMAIN opened : i < j => opened[i] < opened[j]

\* Every message that was decrypted and buffered behind a gap is sent to the
\* application in the end: the gap is closed by a retransmission or expires.
BufferedIsEmitted ==
    \A n \in 1 .. MaxWrites :
        (n \in pending) ~> (\E i \in DOMAIN emitted : emitted[i] = n)

=============================================================================
