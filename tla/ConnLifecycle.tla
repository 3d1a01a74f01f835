---------------------------- MODULE ConnLifecycle ----------------------------
(***************************************************************************)
(* One Conn of conn.go as its application sees it: the websocket it holds  *)
(* (Dial, Close, ShutDown), the readLoop goroutine that waits for a        *)
(* websocket on connCond, reads it and reports its failure, the bounded    *)
(* msgChan between the readLoop and ReadMessage, the writers that close    *)
(* the Conn when a write fails, and the expiry goroutines of recovery.go   *)
(* that also send on msgChan.                                              *)
(*                                                                         *)
(* connMu: every critical section of the code is one action, save the one  *)
(* in which the readLoop sends its error on msgChan with the lock held     *)
(* (pc "report"); that is the only state in which the lock is not free.    *)
(* What a record means to a session is the subject of SessionLayer: here a *)
(* record is passed on, makes the readLoop wait on the session, ends the   *)
(* session, or is marked lost.                                             *)
(***************************************************************************)
EXTENDS Naturals, Sequences

CONSTANTS
    Sockets,     \* the websocket connections that Dial may obtain
    Writers,     \* goroutines of the application inside WriteMessage
    None,        \* the nil *websocket.Conn
    ChanCap,     \* capacity of msgChan (128 in the code)
    MaxFrames    \* bound: frames the server sends on one websocket

ASSUME SocketsAssumption == None \notin Sockets
ASSUME ChanCapAssumption == ChanCap \in Nat \ {0}
ASSUME MaxFramesAssumption == MaxFrames \in Nat

VARIABLES
    conn,      \* c.conn
    closed,    \* c.closed
    ranged,    \* ShutDown: "no", "ranging" (unlocked, sessions not yet closed), "done"
    ws,        \* state of each websocket
    frames,    \* frames each websocket has still to bring
    rl,        \* the readLoop: where it is, and lastConn
    sess,      \* the session in c.sessions of the one peer that matters here
    late,      \* history: a session was stored after ShutDown had ranged over them
    msgChan,   \* items in c.msgChan
    chanOpen,  \* c.msgChan has not been closed
    told,      \* history: ReadMessage has returned "connection closed"
    reported,  \* history: how often the failure of a websocket was put in msgChan
    timers,    \* expireLostInbound goroutines with a message to release
    wr,        \* each writer: where it is, and the *websocket.Conn it loaded
    crashed    \* a goroutine other than the readLoop panicked: the process is gone

vars == <<conn, closed, ranged, ws, frames, rl, sess, late, msgChan, chanOpen,
          told, reported, timers, wr, crashed>>

sessVars == <<sess, late>>
chanVars == <<msgChan, chanOpen>>
connVars == <<conn, closed, ranged>>

RlPcs == {"lock", "asleep", "read", "handle", "emit", "wait", "failed", "report", "done"}
WrPcs == {"idle", "raw", "secure", "closing"}
Items == [err : BOOLEAN]

TypeOK ==
    /\ conn \in Sockets \cup {None}
    /\ closed \in BOOLEAN
    /\ ranged \in {"no", "ranging", "done"}
    /\ ws \in [Sockets -> {"undialled", "open", "dead"}]
    /\ frames \in [Sockets -> 0 .. MaxFrames]
    /\ rl \in [pc : RlPcs, last : Sockets \cup {None}]
    /\ sess \in {"none", "open", "closed"}
    /\ late \in BOOLEAN
    /\ msgChan \in Seq(Items)
    /\ Len(msgChan) <= ChanCap
    /\ chanOpen \in BOOLEAN
    /\ told \in BOOLEAN
    /\ reported \in [Sockets -> Nat]
    /\ timers \in Nat
    /\ wr \in [Writers -> [pc : WrPcs, sock : Sockets \cup {None}]]
    /\ crashed \in BOOLEAN

Init ==
    /\ conn = None
    /\ closed = FALSE
    /\ ranged = "no"
    /\ ws = [s \in Sockets |-> "undialled"]
    /\ frames = [s \in Sockets |-> MaxFrames]
    /\ rl = [pc |-> "lock", last |-> None]
    /\ sess = "none"
    /\ late = FALSE
    /\ msgChan = <<>>
    /\ chanOpen = TRUE
    /\ told = FALSE
    /\ reported = [s \in Sockets |-> 0]
    /\ timers = 0
    /\ wr = [w \in Writers |-> [pc |-> "idle", sock |-> None]]
    /\ crashed = FALSE

-----------------------------------------------------------------------------
(* Helpers *)

ConnMuFree == rl.pc # "report"

HasRoom == Len(msgChan) < ChanCap

Item(err) == [err |-> err]

At(pc) == [rl EXCEPT !.pc = pc]

\* connCond.Signal: the readLoop is the only goroutine that ever waits on it.
Signalled == IF rl.pc = "asleep" THEN At("lock") ELSE rl

\* session.Close: a readLoop in changeCipherSpec, or in its wait for the
\* handshake, sees session.done and goes back to reading.
WokenByDone == IF rl.pc = "wait" THEN At("read") ELSE rl

\* What Close and ShutDown do to the websocket under connMu.
DropConn ==
    /\ ws' = [s \in Sockets |-> IF s = conn THEN "dead" ELSE ws[s]]
    /\ conn' = None

\* LoadOrStore of the peer's session.
StoreSession ==
    /\ sess' = IF sess = "none" THEN "open" ELSE sess
    /\ late' = (late \/ (sess = "none" /\ ranged = "done"))

-----------------------------------------------------------------------------
(* The application: Dial, Close, ShutDown, ReadMessage *)

\* Mutant: Dial without connMu.
DialUnlocked(s) ==
    /\ ws[s] = "undialled"
    /\ ws' = [ws EXCEPT ![s] = "open"]
    /\ conn' = s
    /\ rl' = Signalled
    /\ UNCHANGED <<closed, ranged, frames, sessVars, chanVars, told, reported, timers, wr, crashed>>

\* Mutant: Dial without the Signal.
DialSilent(s) ==
    /\ ConnMuFree
    /\ ws[s] = "undialled"
    /\ ws' = [ws EXCEPT ![s] = "open"]
    /\ conn' = s
    /\ UNCHANGED <<closed, ranged, frames, rl, sessVars, chanVars, told, reported, timers, wr, crashed>>

\* The dialled websocket replaces c.conn, whether or not there was one, and
\* whether or not the Conn was shut down; the old one is not closed.
Dial(s) ==
    /\ ConnMuFree
    /\ ws[s] = "undialled"
    /\ ws' = [ws EXCEPT ![s] = "open"]
    /\ conn' = s
    /\ rl' = Signalled
    /\ UNCHANGED <<closed, ranged, frames, sessVars, chanVars, told, reported, timers, wr, crashed>>

Close ==
    /\ ConnMuFree
    /\ conn # None
    /\ DropConn
    /\ UNCHANGED <<closed, ranged, frames, rl, sessVars, chanVars, told, reported, timers, wr, crashed>>

\* The part of ShutDown under connMu.
ShutDown ==
    /\ ConnMuFree
    /\ ranged # "ranging"
    /\ closed' = TRUE
    /\ ranged' = "ranging"
    /\ DropConn
    /\ rl' = Signalled
    /\ UNCHANGED <<frames, sessVars, chanVars, told, reported, timers, wr, crashed>>

\* Mutant: the sessions are left alone.
ShutDownRangeNothing ==
    /\ ranged = "ranging"
    /\ ranged' = "done"
    /\ UNCHANGED <<conn, closed, ws, frames, rl, sess, late, chanVars, told, reported, timers, wr, crashed>>

\* The rest of it: c.sessions.Range closes the sessions that are in the map.
ShutDownRange ==
    /\ ranged = "ranging"
    /\ ranged' = "done"
    /\ sess' = IF sess = "open" THEN "closed" ELSE sess
    /\ rl' = WokenByDone
    /\ UNCHANGED <<conn, closed, ws, frames, late, chanVars, told, reported, timers, wr, crashed>>

ReadMessage ==
    /\ IF msgChan # <<>>
       THEN msgChan' = Tail(msgChan) /\ UNCHANGED told
       ELSE ~chanOpen /\ ~told /\ told' = TRUE /\ UNCHANGED msgChan
    /\ UNCHANGED <<connVars, ws, frames, rl, sessVars, chanOpen, reported, timers, wr, crashed>>

-----------------------------------------------------------------------------
(* The readLoop *)

\* Mutant: lastConn is not compared.
AwaitConnAgain ==
    /\ rl.pc = "lock"
    /\ \/ closed /\ rl' = At("done") /\ chanOpen' = FALSE
       \/ ~closed /\ conn = None /\ rl' = At("asleep") /\ UNCHANGED chanOpen
       \/ ~closed /\ conn # None /\ rl' = [pc |-> "read", last |-> conn] /\ UNCHANGED chanOpen
    /\ UNCHANGED <<connVars, ws, frames, sessVars, msgChan, told, reported, timers, wr, crashed>>

\* The top of the loop: leave, wait on connCond, or take the new websocket.
AwaitConn ==
    /\ rl.pc = "lock"
    /\ \/ /\ closed
          /\ rl' = At("done")
          /\ chanOpen' = FALSE
       \/ /\ ~closed
          /\ conn \in {None, rl.last}
          /\ rl' = At("asleep")
          /\ UNCHANGED chanOpen
       \/ /\ ~closed
          /\ conn \notin {None, rl.last}
          /\ rl' = [pc |-> "read", last |-> conn]
          /\ UNCHANGED chanOpen
    /\ UNCHANGED <<connVars, ws, frames, sessVars, msgChan, told, reported, timers, wr, crashed>>

\* conn.ReadMessage returns a frame ...
ReadFrame ==
    /\ rl.pc = "read"
    /\ ws[rl.last] = "open"
    /\ frames[rl.last] > 0
    /\ frames' = [frames EXCEPT ![rl.last] = @ - 1]
    /\ rl' = At("handle")
    /\ UNCHANGED <<connVars, ws, sessVars, chanVars, told, reported, timers, wr, crashed>>

\* ... or an error.
ReadFails ==
    /\ rl.pc = "read"
    /\ ws[rl.last] = "dead"
    /\ rl' = At("failed")
    /\ UNCHANGED <<connVars, ws, frames, sessVars, chanVars, told, reported, timers, wr, crashed>>

\* A frame that is not for the overlay is passed on as it is, or dropped.
HandlePlain ==
    /\ rl.pc = "handle"
    /\ rl' \in {At("emit"), At("read")}
    /\ UNCHANGED <<connVars, ws, frames, sessVars, chanVars, told, reported, timers, wr, crashed>>

\* A record of the overlay finds or makes the session. It is handled at once,
\* delivered, marked lost, or makes the readLoop wait on the session.
HandleSecure ==
    /\ rl.pc = "handle"
    /\ StoreSession
    /\ \/ rl' = At("read") /\ timers' \in {timers, timers + 1}
       \/ rl' = At("emit") /\ UNCHANGED timers
       \/ sess' = "open" /\ rl' = At("wait") /\ UNCHANGED timers
    /\ UNCHANGED <<connVars, ws, frames, chanVars, told, reported, wr, crashed>>

\* An Alert, or a record that does not decrypt: the session is closed and deleted.
HandleTerminate ==
    /\ rl.pc = "handle"
    /\ sess' = "none"
    /\ rl' = At("read")
    /\ UNCHANGED <<connVars, ws, frames, late, chanVars, told, reported, timers, wr, crashed>>

\* The handshake got as far as the readLoop waited for, or its timer fired.
WaitEnds ==
    /\ rl.pc = "wait"
    /\ rl' \in {At("read"), At("emit")}
    /\ UNCHANGED <<connVars, ws, frames, sessVars, chanVars, told, reported, timers, wr, crashed>>

\* Mutant: the send does not wait for room.
EmitOverfull ==
    /\ rl.pc = "emit"
    /\ msgChan' = Append(msgChan, Item(FALSE))
    /\ rl' = At("read")
    /\ UNCHANGED <<connVars, ws, frames, sessVars, chanOpen, told, reported, timers, wr, crashed>>

\* emitReadItems: the send on msgChan.
Emit ==
    /\ rl.pc = "emit"
    /\ HasRoom
    /\ msgChan' = Append(msgChan, Item(FALSE))
    /\ rl' = At("read")
    /\ UNCHANGED <<connVars, ws, frames, sessVars, chanOpen, told, reported, timers, wr, crashed>>

\* Mutant: any error ends the readLoop, and its deferred close runs.
HandleFailureReturns ==
    /\ rl.pc = "failed"
    /\ rl' = At(IF closed \/ conn # rl.last THEN "done" ELSE "report")
    /\ chanOpen' = (chanOpen /\ ~closed /\ conn = rl.last)
    /\ UNCHANGED <<connVars, ws, frames, sessVars, msgChan, told, reported, timers, wr, crashed>>

\* Mutant: continue for break: the readLoop stays with a websocket that was replaced.
HandleFailureStays ==
    /\ rl.pc = "failed"
    /\ rl' = At(IF closed THEN "done" ELSE IF conn # rl.last THEN "read" ELSE "report")
    /\ chanOpen' = (chanOpen /\ ~closed)
    /\ UNCHANGED <<connVars, ws, frames, sessVars, msgChan, told, reported, timers, wr, crashed>>

\* After an error the readLoop takes connMu. It ends if the Conn was shut down,
\* keeps silent about a websocket that was replaced or closed from this side,
\* and otherwise goes on to send the error.
HandleFailure ==
    /\ rl.pc = "failed"
    /\ rl' = At(IF closed THEN "done" ELSE IF conn # rl.last THEN "lock" ELSE "report")
    /\ chanOpen' = (chanOpen /\ ~closed)
    /\ UNCHANGED <<connVars, ws, frames, sessVars, msgChan, told, reported, timers, wr, crashed>>

\* Mutant: the error is sent and connMu is not released on that path.
ReportKeepsLock ==
    /\ rl.pc = "report"
    /\ HasRoom
    /\ reported[rl.last] = 0
    /\ msgChan' = Append(msgChan, Item(TRUE))
    /\ reported' = [reported EXCEPT ![rl.last] = @ + 1]
    /\ UNCHANGED <<connVars, ws, frames, rl, sessVars, chanOpen, told, timers, wr, crashed>>

\* c.msgChan <- readMsgItem{err: err}, with connMu held.
Report ==
    /\ rl.pc = "report"
    /\ HasRoom
    /\ msgChan' = Append(msgChan, Item(TRUE))
    /\ reported' = [reported EXCEPT ![rl.last] = @ + 1]
    /\ rl' = At("lock")
    /\ UNCHANGED <<connVars, ws, frames, sessVars, chanOpen, told, timers, wr, crashed>>

-----------------------------------------------------------------------------
(* Expiry goroutines *)

\* emitReadItems of expireLostInbound. A send on a closed channel panics, and
\* nothing in that goroutine recovers.
ExpireSend ==
    /\ timers > 0
    /\ timers' = timers - 1
    /\ \/ chanOpen /\ HasRoom /\ msgChan' = Append(msgChan, Item(FALSE)) /\ UNCHANGED crashed
       \/ ~chanOpen /\ crashed' = TRUE /\ UNCHANGED msgChan
    /\ UNCHANGED <<connVars, ws, frames, rl, sessVars, chanOpen, told, reported, wr>>

\* The lost message was retransmitted, or nothing waited behind it.
ExpireNothing ==
    /\ timers > 0
    /\ timers' = timers - 1
    /\ UNCHANGED <<connVars, ws, frames, rl, sessVars, chanVars, told, reported, wr, crashed>>

-----------------------------------------------------------------------------
(* Writers *)

\* WriteMessage up to where the connection is loaded under connMu. Without one
\* a raw write returns errNotConnected; a secure one goes on to Close.
WriteLoad(w, kind) ==
    /\ ConnMuFree
    /\ wr[w].pc = "idle"
    /\ kind = "secure" => sess # "none"
    /\ wr' = [wr EXCEPT ![w] =
                IF conn # None THEN [pc |-> kind, sock |-> conn]
                ELSE [pc |-> IF kind = "raw" THEN "idle" ELSE "closing", sock |-> None]]
    /\ UNCHANGED <<connVars, ws, frames, rl, sessVars, chanVars, told, reported, timers, crashed>>

\* WriteMessage finds no session for its peer and makes one.
WriteStoreSession(w) ==
    /\ wr[w].pc = "idle"
    /\ sess = "none"
    /\ StoreSession
    /\ UNCHANGED <<connVars, ws, frames, rl, chanVars, told, reported, timers, wr, crashed>>

\* The handshake of a writer failed: terminateSession.
WriteTerminate(w) ==
    /\ wr[w].pc = "idle"
    /\ sess # "none"
    /\ sess' = "none"
    /\ rl' = WokenByDone
    /\ UNCHANGED <<connVars, ws, frames, late, chanVars, told, reported, timers, wr, crashed>>

\* writeWebSocketMessage on the loaded websocket, whatever c.conn is by now.
WriteOk(w) ==
    /\ wr[w].pc \in {"raw", "secure"}
    /\ ws[wr[w].sock] = "open"
    /\ wr' = [wr EXCEPT ![w] = [pc |-> "idle", sock |-> None]]
    /\ UNCHANGED <<connVars, ws, frames, rl, sessVars, chanVars, told, reported, timers, crashed>>

\* It fails on a dead websocket, and may on an open one (the write deadline). A
\* raw write returns the error, a secure one goes on to Close.
WriteFails(w) ==
    /\ wr[w].pc \in {"raw", "secure"}
    /\ wr' = [wr EXCEPT ![w] = [pc |-> IF wr[w].pc = "raw" THEN "idle" ELSE "closing", sock |-> None]]
    /\ UNCHANGED <<connVars, ws, frames, rl, sessVars, chanVars, told, reported, timers, crashed>>

\* return c.Close(): the websocket that is current now is closed.
WriteClose(w) ==
    /\ ConnMuFree
    /\ wr[w].pc = "closing"
    /\ DropConn
    /\ wr' = [wr EXCEPT ![w] = [pc |-> "idle", sock |-> None]]
    /\ UNCHANGED <<closed, ranged, frames, rl, sessVars, chanVars, told, reported, timers, crashed>>

-----------------------------------------------------------------------------
(* The server and the network close a websocket at any moment. *)
PeerCloses(s) ==
    /\ ws[s] = "open"
    /\ ws' = [ws EXCEPT ![s] = "dead"]
    /\ UNCHANGED <<connVars, frames, rl, sessVars, chanVars, told, reported, timers, wr, crashed>>

ReadLoop ==
    \/ AwaitConn \/ ReadFrame \/ ReadFails \/ HandlePlain \/ HandleSecure \/ HandleTerminate
    \/ WaitEnds \/ Emit \/ HandleFailure \/ Report

Writer(w) ==
    \/ \E kind \in {"raw", "secure"} : WriteLoad(w, kind)
    \/ WriteStoreSession(w) \/ WriteTerminate(w) \/ WriteOk(w) \/ WriteFails(w) \/ WriteClose(w)

Next ==
    /\ ~crashed
    /\ \/ \E s \in Sockets : Dial(s) \/ PeerCloses(s)
       \/ Close \/ ShutDown \/ ShutDownRange \/ ReadMessage
       \/ ReadLoop
       \/ ExpireSend \/ ExpireNothing
       \/ \E w \in Writers : Writer(w)

\* The goroutines run: the readLoop, but not its wait on a session, which only
\* the peer or a timer of the session can end; an application that keeps calling
\* ReadMessage; a ShutDown and a WriteMessage that were begun. connMu is a
\* sync.Mutex, which does not starve a goroutine that waits for it: SF.
RlStep == ~crashed /\ (AwaitConn \/ ReadFrame \/ ReadFails \/ HandlePlain \/ HandleSecure
                       \/ HandleTerminate \/ Emit \/ HandleFailure \/ Report)

Fairness ==
    /\ WF_vars(RlStep)
    /\ WF_vars(~crashed /\ ReadMessage)
    /\ WF_vars(~crashed /\ ShutDownRange)
    /\ \A w \in Writers :
          /\ WF_vars(~crashed /\ (WriteOk(w) \/ WriteFails(w)))
          /\ SF_vars(~crashed /\ WriteClose(w))

Spec == Init /\ [][Next]_vars /\ Fairness

-----------------------------------------------------------------------------
(* Safety *)

\* The readLoop never sleeps on connCond while there is something for it to do:
\* whoever dials or shuts down, in any order with the readLoop's own test of the
\* condition, wakes it (readLoop and the Signals of Dial and ShutDown).
NoMissedSignal ==
    rl.pc = "asleep" => ~closed /\ conn \in {None, rl.last}

\* The application hears of the failure of one websocket at most once, however
\* Close, Dial and failing writes interleave with the readLoop (lastConn, and the
\* "replaced" test, of readLoop).
ReportedOnce ==
    \A s \in Sockets : reported[s] <= 1

\* While the readLoop is blocked on a full msgChan with an error in hand, the Conn
\* still holds the websocket the error is about: an error item never concerns a
\* websocket that was replaced or closed before the item was queued.
ReportsCurrent ==
    rl.pc = "report" => conn = rl.last /\ ~closed

\* A goroutine that releases messages after an expiry can only find msgChan closed,
\* and take the process down, once ShutDown was called: Close, a reconnect and a
\* failed write leave the channel open (the deferred close of readLoop).
PanicOnlyAfterShutDown ==
    crashed \/ ~chanOpen => closed

-----------------------------------------------------------------------------
(* Liveness *)

\* Once a websocket was dialled and no older one is open, the readLoop gets to
\* read it, unless it is replaced, closed or shut down first, or the readLoop is
\* held up by a session.
FollowsDial ==
    \A s \in Sockets :
        (conn = s /\ \A t \in Sockets \ {s} : ws[t] # "open")
            ~> (rl.last = s \/ conn # s \/ closed \/ rl.pc = "wait" \/ crashed)

\* ShutDown makes ReadMessage return "connection closed", also when the readLoop
\* was waiting on a session, unless a session was stored after ShutDown had
\* closed those it found, or an expiry goroutine brought the process down, or the
\* readLoop still reads an older websocket that nobody closed.
ShutDownEndsReading ==
    closed ~> (told \/ late \/ crashed \/ (rl.last # None /\ ws[rl.last] = "open"))

\* WriteMessage returns: a writer whose write failed gets connMu for its Close,
\* though the readLoop may be blocked on msgChan with the lock held.
WriteReturns ==
    \A w \in Writers : wr[w].pc # "idle" ~> (wr[w].pc = "idle" \/ crashed)

=============================================================================
