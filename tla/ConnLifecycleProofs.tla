------------------------- MODULE ConnLifecycleProofs -------------------------
(***************************************************************************)
(* The safety properties of ConnLifecycle, proved for every set of         *)
(* websockets and writers, every capacity of msgChan and every number of   *)
(* frames.                                                                 *)
(***************************************************************************)
EXTENDS ConnLifecycle, TLAPS

\* Past the top of its loop the readLoop has a websocket, and it was dialled.
Reading == {"read", "handle", "emit", "wait", "failed", "report"}

HasSocket ==
    /\ rl.pc \in Reading => rl.last \in Sockets /\ ws[rl.last] # "undialled"
    /\ conn # None => ws[conn] # "undialled"

\* A websocket whose failure was reported is never read again: it was dialled, so
\* no Dial brings it back, and if it is still c.conn then lastConn says so.
ReportedIsOver ==
    \A s \in Sockets : reported[s] > 0 =>
        /\ ws[s] # "undialled"
        /\ conn = s => rl.last = s
        /\ rl.last = s => rl.pc \notin Reading

IInv ==
    /\ TypeOK
    /\ HasSocket
    /\ ReportedIsOver
    /\ NoMissedSignal
    /\ ReportedOnce
    /\ ReportsCurrent
    /\ PanicOnlyAfterShutDown

Rest == HasSocket /\ ReportedIsOver /\ NoMissedSignal /\ ReportedOnce /\ ReportsCurrent
        /\ PanicOnlyAfterShutDown

-----------------------------------------------------------------------------
\* The initial state: NewSecureConn leaves the readLoop at the top of its loop.
LEMMA InitIInv == Init => IInv
<1> SUFFICES ASSUME Init PROVE IInv
    OBVIOUS
<1>a. msgChan \in Seq(Items) /\ Len(msgChan) <= ChanCap
    BY ChanCapAssumption DEF Init
<1>b. rl \in [pc : RlPcs, last : Sockets \cup {None}]
    BY DEF Init, RlPcs
<1>c. wr \in [Writers -> [pc : WrPcs, sock : Sockets \cup {None}]]
    BY DEF Init, WrPcs
<1>d. /\ conn \in Sockets \cup {None} /\ ranged \in {"no", "ranging", "done"}
      /\ ws \in [Sockets -> {"undialled", "open", "dead"}]
      /\ frames \in [Sockets -> 0 .. MaxFrames] /\ sess \in {"none", "open", "closed"}
      /\ reported \in [Sockets -> Nat] /\ timers \in Nat
    BY MaxFramesAssumption DEF Init
<1>e. /\ closed \in BOOLEAN /\ late \in BOOLEAN /\ chanOpen \in BOOLEAN
      /\ told \in BOOLEAN /\ crashed \in BOOLEAN
    BY DEF Init
<1>1. TypeOK
    BY <1>a, <1>b, <1>c, <1>d, <1>e DEF TypeOK
<1>2. Rest
    BY SocketsAssumption
    DEF Init, Rest, HasSocket, Reading, ReportedIsOver, NoMissedSignal, ReportedOnce,
        ReportsCurrent, PanicOnlyAfterShutDown
<1> QED
    BY <1>1, <1>2 DEF IInv, Rest

\* A step that leaves everything but the readLoop's place alone keeps its record type.
LEMMA AtType ==
    ASSUME TypeOK, NEW pc \in RlPcs
    PROVE  /\ At(pc) \in [pc : RlPcs, last : Sockets \cup {None}]
           /\ At(pc).pc = pc
           /\ At(pc).last = rl.last
    BY DEF TypeOK, At

\* A Signal wakes a sleeping readLoop and does nothing else to it.
LEMMA SignalledType ==
    ASSUME TypeOK
    PROVE  /\ Signalled \in [pc : RlPcs, last : Sockets \cup {None}]
           /\ Signalled.last = rl.last
           /\ Signalled.pc = IF rl.pc = "asleep" THEN "lock" ELSE rl.pc
    BY AtType DEF TypeOK, Signalled, RlPcs

\* Closing a session takes the readLoop out of its wait and does nothing else to it.
LEMMA WokenType ==
    ASSUME TypeOK
    PROVE  /\ WokenByDone \in [pc : RlPcs, last : Sockets \cup {None}]
           /\ WokenByDone.last = rl.last
           /\ WokenByDone.pc = IF rl.pc = "wait" THEN "read" ELSE rl.pc
    BY AtType DEF TypeOK, WokenByDone, RlPcs

\* Sending on msgChan when there is room, and receiving from it, keep it a
\* channel of that capacity.
LEMMA ChanType ==
    ASSUME TypeOK
    PROVE  /\ \A b \in BOOLEAN : HasRoom =>
                 /\ Append(msgChan, Item(b)) \in Seq(Items)
                 /\ Len(Append(msgChan, Item(b))) <= ChanCap
           /\ msgChan # <<>> => Tail(msgChan) \in Seq(Items) /\ Len(Tail(msgChan)) <= ChanCap
<1>1. \A b \in BOOLEAN : Item(b) \in Items
    BY DEF Item, Items
<1>2. msgChan \in Seq(Items) /\ Len(msgChan) <= ChanCap /\ Len(msgChan) \in Nat
    BY DEF TypeOK
<1>3. \A b \in BOOLEAN : HasRoom =>
          /\ Append(msgChan, Item(b)) \in Seq(Items)
          /\ Len(Append(msgChan, Item(b))) <= ChanCap
    <2> SUFFICES ASSUME NEW b \in BOOLEAN, HasRoom
                 PROVE  /\ Append(msgChan, Item(b)) \in Seq(Items)
                        /\ Len(Append(msgChan, Item(b))) <= ChanCap
        OBVIOUS
    <2> DEFINE i == Item(b)
    <2>1. i \in Items
        BY <1>1
    <2> HIDE DEF i
    <2>2. Append(msgChan, i) \in Seq(Items) /\ Len(Append(msgChan, i)) <= ChanCap
        BY <1>2, <2>1, ChanCapAssumption DEF HasRoom
    <2> QED
        BY <2>2 DEF i
<1>4. msgChan # <<>> => Tail(msgChan) \in Seq(Items) /\ Len(Tail(msgChan)) <= ChanCap
    BY <1>2, ChanCapAssumption
<1> QED
    BY <1>3, <1>4

\* Every step of the application keeps the invariant.
LEMMA AppKeeps ==
    ASSUME IInv, (\E s \in Sockets : Dial(s) \/ PeerCloses(s)) \/ Close \/ ShutDown
                 \/ ShutDownRange \/ ReadMessage
    PROVE  IInv'
<1> USE SocketsAssumption, ChanCapAssumption, MaxFramesAssumption
<1> USE DEF IInv, HasSocket, Reading, ReportedIsOver, NoMissedSignal, ReportedOnce,
            ReportsCurrent, PanicOnlyAfterShutDown, connVars, sessVars, chanVars
<1>1. ASSUME NEW s \in Sockets, Dial(s) PROVE IInv'
    <2>1. TypeOK'
        BY <1>1, SignalledType DEF Dial, TypeOK
    <2>2. QED
        BY <1>1, <2>1, SignalledType DEF Dial, ConnMuFree, TypeOK
<1>2. ASSUME NEW s \in Sockets, PeerCloses(s) PROVE IInv'
    <2>1. TypeOK'
        BY <1>2 DEF PeerCloses, TypeOK
    <2>2. QED
        BY <1>2, <2>1 DEF PeerCloses, TypeOK
<1>3. CASE Close
    <2>1. TypeOK'
        BY <1>3 DEF Close, DropConn, TypeOK
    <2>2. QED
        BY <1>3, <2>1 DEF Close, DropConn, ConnMuFree, TypeOK
<1>4. CASE ShutDown
    <2>1. TypeOK'
        BY <1>4, SignalledType DEF ShutDown, DropConn, TypeOK
    <2>2. QED
        BY <1>4, <2>1, SignalledType DEF ShutDown, DropConn, ConnMuFree, TypeOK
<1>5. CASE ShutDownRange
    <2>1. TypeOK'
        BY <1>5, WokenType DEF ShutDownRange, TypeOK
    <2>2. QED
        BY <1>5, <2>1, WokenType DEF ShutDownRange, TypeOK
<1>6. CASE ReadMessage
    <2>1. TypeOK'
        <3>1. /\ msgChan' = msgChan \/ (msgChan # <<>> /\ msgChan' = Tail(msgChan))
              /\ told' \in BOOLEAN
              /\ UNCHANGED <<connVars, ws, frames, rl, sessVars, chanOpen, reported, timers, wr, crashed>>
            BY <1>6 DEF ReadMessage, TypeOK
        <3>2. msgChan' \in Seq(Items) /\ Len(msgChan') <= ChanCap
            <4>1. CASE msgChan' = msgChan
                BY <4>1 DEF TypeOK
            <4>2. CASE msgChan # <<>> /\ msgChan' = Tail(msgChan)
                BY <4>2, ChanType
            <4>3. QED
                BY <3>1, <4>1, <4>2
        <3>3. QED
            BY <3>1, <3>2 DEF TypeOK
    <2>2. QED
        BY <1>6, <2>1 DEF ReadMessage, TypeOK
<1> QED
    BY <1>1, <1>2, <1>3, <1>4, <1>5, <1>6

\* Every step of the readLoop keeps the invariant.
LEMMA ReadLoopKeeps ==
    ASSUME IInv, ReadLoop
    PROVE  IInv'
<1> USE SocketsAssumption, ChanCapAssumption, MaxFramesAssumption
<1> USE DEF IInv, HasSocket, Reading, ReportedIsOver, NoMissedSignal, ReportedOnce,
            ReportsCurrent, PanicOnlyAfterShutDown, connVars, sessVars, chanVars
<1>at. \A pc \in RlPcs : /\ At(pc) \in [pc : RlPcs, last : Sockets \cup {None}]
                         /\ At(pc).pc = pc
                         /\ At(pc).last = rl.last
    BY AtType
<1>1. CASE AwaitConn
    <2>a. chanOpen' \in BOOLEAN
        BY <1>1, Zenon DEF AwaitConn, TypeOK
    <2>b. rl' \in [pc : RlPcs, last : Sockets \cup {None}]
        BY <1>1, <1>at DEF AwaitConn, TypeOK, RlPcs
    <2>1. TypeOK'
        BY <1>1, <2>a, <2>b, Zenon DEF AwaitConn, TypeOK
    <2>2. QED
        BY <1>1, <1>at, <2>1, SMTT(60) DEF AwaitConn, TypeOK, RlPcs
<1>2. CASE ReadFrame
    <2>1. TypeOK'
        BY <1>2, <1>at, SMTT(60) DEF ReadFrame, TypeOK, RlPcs
    <2>2. QED
        BY <1>2, <1>at, <2>1, SMTT(60) DEF ReadFrame, TypeOK, RlPcs
<1>3. CASE ReadFails
    <2>1. TypeOK'
        BY <1>3, <1>at, SMTT(60) DEF ReadFails, TypeOK, RlPcs
    <2>2. QED
        BY <1>3, <1>at, <2>1, SMTT(60) DEF ReadFails, TypeOK, RlPcs
<1>4. CASE HandlePlain
    <2>1. TypeOK'
        BY <1>4, <1>at, SMTT(60) DEF HandlePlain, TypeOK, RlPcs
    <2>2. QED
        BY <1>4, <1>at, <2>1, SMTT(60) DEF HandlePlain, TypeOK, RlPcs
<1>5. CASE HandleSecure
    <2>1. TypeOK'
        BY <1>5, <1>at, SMTT(60) DEF HandleSecure, StoreSession, TypeOK, RlPcs
    <2>2. QED
        BY <1>5, <1>at, <2>1, SMTT(60) DEF HandleSecure, TypeOK, RlPcs
<1>6. CASE HandleTerminate
    <2>1. TypeOK'
        BY <1>6, <1>at, SMTT(60) DEF HandleTerminate, TypeOK, RlPcs
    <2>2. QED
        BY <1>6, <1>at, <2>1, SMTT(60) DEF HandleTerminate, TypeOK, RlPcs
<1>7. CASE WaitEnds
    <2>1. TypeOK'
        BY <1>7, <1>at, SMTT(60) DEF WaitEnds, TypeOK, RlPcs
    <2>2. QED
        BY <1>7, <1>at, <2>1, SMTT(60) DEF WaitEnds, TypeOK, RlPcs
<1>8. CASE Emit
    <2>a. /\ rl.pc = "emit" /\ HasRoom /\ rl' = At("read")
          /\ msgChan' = Append(msgChan, Item(FALSE))
          /\ UNCHANGED <<conn, closed, ranged, ws, frames, sess, late, chanOpen, told, reported,
                         timers, wr, crashed>>
        BY <1>8 DEF Emit
    <2>b. msgChan' \in Seq(Items) /\ Len(msgChan') <= ChanCap
        BY <2>a, ChanType
    <2>c. /\ rl' \in [pc : RlPcs, last : Sockets \cup {None}]
          /\ rl.pc = "emit" /\ rl'.pc = "read" /\ rl'.last = rl.last
        BY <2>a, <1>at DEF RlPcs
    <2>1. TypeOK'
        BY <2>a, <2>b, <2>c DEF TypeOK
    <2>d. UNCHANGED <<conn, closed, ranged, ws, sess, late, chanOpen, reported, timers, crashed, wr>>
        BY <2>a
    <2>2. QED
        BY <2>1, <2>c, <2>d
<1>9. CASE HandleFailure
    <2>1. TypeOK'
        BY <1>9, <1>at, SMTT(60) DEF HandleFailure, TypeOK, RlPcs
    <2>2. QED
        BY <1>9, <1>at, <2>1, SMTT(60) DEF HandleFailure, TypeOK, RlPcs
<1>10. CASE Report
    <2>a. msgChan' \in Seq(Items) /\ Len(msgChan') <= ChanCap
        BY <1>10, ChanType DEF Report
    <2>b. reported' \in [Sockets -> Nat]
        BY <1>10 DEF Report, TypeOK
    <2>c. rl' = At("lock") /\ rl' \in [pc : RlPcs, last : Sockets \cup {None}]
        BY <1>10, <1>at DEF Report, RlPcs
    <2>1. TypeOK'
        BY <1>10, <2>a, <2>b, <2>c, Zenon DEF Report, TypeOK
    <2>2. rl.last \in Sockets /\ reported[rl.last] = 0
        BY <1>10 DEF Report, TypeOK
    <2>3. rl'.pc = "lock" /\ rl'.last = rl.last
        BY <1>at, <2>c DEF RlPcs
    <2>4. \A s \in Sockets : reported'[s] = IF s = rl.last THEN 1 ELSE reported[s]
        BY <1>10, <2>2 DEF Report, TypeOK
    <2>5. ReportedIsOver' /\ ReportedOnce'
        BY <1>10, <2>2, <2>3, <2>4 DEF Report, TypeOK
    <2>6. HasSocket' /\ NoMissedSignal' /\ ReportsCurrent'
        BY <1>10, <2>3 DEF Report
    <2>7. PanicOnlyAfterShutDown'
        BY <1>10 DEF Report
    <2>8. QED
        BY <2>1, <2>5, <2>6, <2>7
<1> QED
    BY <1>1, <1>2, <1>3, <1>4, <1>5, <1>6, <1>7, <1>8, <1>9, <1>10 DEF ReadLoop

\* Every step of an expiry goroutine or of a writer keeps the invariant.
LEMMA OthersKeep ==
    ASSUME IInv, ExpireSend \/ ExpireNothing \/ (\E w \in Writers : Writer(w))
    PROVE  IInv'
<1> USE SocketsAssumption, ChanCapAssumption, MaxFramesAssumption
<1> USE DEF IInv, HasSocket, Reading, ReportedIsOver, NoMissedSignal, ReportedOnce,
            ReportsCurrent, PanicOnlyAfterShutDown, connVars, sessVars, chanVars
<1>1. CASE ExpireSend
    <2>a. msgChan' \in Seq(Items) /\ Len(msgChan') <= ChanCap
        BY <1>1, ChanType DEF ExpireSend, TypeOK
    <2>b. timers' \in Nat
        BY <1>1 DEF ExpireSend, TypeOK
    <2>c. crashed' \in BOOLEAN
        BY <1>1, Zenon DEF ExpireSend, TypeOK
    <2>1. TypeOK'
        BY <1>1, <2>a, <2>b, <2>c, Zenon DEF ExpireSend, TypeOK
    <2>2. QED
        BY <1>1, <2>1 DEF ExpireSend, TypeOK
<1>2. CASE ExpireNothing
    BY <1>2 DEF ExpireNothing, TypeOK
<1>3. ASSUME NEW w \in Writers, Writer(w) PROVE IInv'
    <2>1. ASSUME NEW kind \in {"raw", "secure"}, WriteLoad(w, kind) PROVE IInv'
        BY <2>1 DEF WriteLoad, TypeOK, WrPcs
    <2>2. CASE WriteStoreSession(w)
        BY <2>2 DEF WriteStoreSession, StoreSession, TypeOK
    <2>3. CASE WriteTerminate(w)
        <3>1. TypeOK'
            BY <2>3, WokenType DEF WriteTerminate, TypeOK
        <3>2. QED
            BY <2>3, <3>1, WokenType DEF WriteTerminate, TypeOK
    <2>4. CASE WriteOk(w)
        BY <2>4 DEF WriteOk, TypeOK, WrPcs
    <2>5. CASE WriteFails(w)
        BY <2>5 DEF WriteFails, TypeOK, WrPcs
    <2>6. CASE WriteClose(w)
        <3>1. TypeOK'
            BY <2>6 DEF WriteClose, DropConn, TypeOK, WrPcs
        <3>2. QED
            BY <2>6, <3>1 DEF WriteClose, DropConn, ConnMuFree, TypeOK
    <2> QED
        BY <1>3, <2>1, <2>2, <2>3, <2>4, <2>5, <2>6 DEF Writer
<1> QED
    BY <1>1, <1>2, <1>3

\* IInv is an invariant of the specification.
THEOREM LifecycleInvariance == Spec => []IInv
<1>1. IInv /\ [Next]_vars => IInv'
    <2> SUFFICES ASSUME IInv, [Next]_vars PROVE IInv'
        OBVIOUS
    <2>1. CASE Next
        BY <2>1, AppKeeps, ReadLoopKeeps, OthersKeep DEF Next
    <2>2. CASE UNCHANGED vars
        BY <2>2
        DEF vars, IInv, TypeOK, HasSocket, ReportedIsOver, NoMissedSignal, ReportedOnce,
            ReportsCurrent, PanicOnlyAfterShutDown
    <2> QED
        BY <2>1, <2>2
<1> QED
    BY InitIInv, <1>1, PTL DEF Spec

\* The state of the connection keeps its shape.
THEOREM TypeCorrect == Spec => []TypeOK
<1>1. IInv => TypeOK
    BY DEF IInv
<1> QED
    BY <1>1, LifecycleInvariance, PTL

\* No Signal of Dial or ShutDown is ever missed by the readLoop.
THEOREM NeverAsleepOnWork == Spec => []NoMissedSignal
BY LifecycleInvariance, PTL DEF IInv

\* The failure of a websocket reaches the application at most once.
THEOREM FailureReportedOnce == Spec => []ReportedOnce
<1>1. IInv => ReportedOnce
    BY DEF IInv
<1> QED
    BY <1>1, LifecycleInvariance, PTL

\* A failure is reported only while its websocket is that of the Conn.
THEOREM FailureIsCurrent == Spec => []ReportsCurrent
<1>1. IInv => ReportsCurrent
    BY DEF IInv
<1> QED
    BY <1>1, LifecycleInvariance, PTL

\* msgChan is closed, and a late expiry panics, only after ShutDown.
THEOREM ChannelOpenUntilShutDown == Spec => []PanicOnlyAfterShutDown
BY LifecycleInvariance, PTL DEF IInv

=============================================================================
