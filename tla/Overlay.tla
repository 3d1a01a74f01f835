------------------------------- MODULE Overlay -------------------------------
(***************************************************************************)
(* The OpenIM overlay of im_parser/openim_marshal as one client meets it:  *)
(* which outbound messages are sealed, and what the application gets to    *)
(* see of the server's responses. The server stores the sealed text, hands *)
(* it out once in a realtime push and again in every history sync; only    *)
(* the realtime copy can be decrypted, so the parser remembers what it     *)
(* showed (realtimeMsgMap) and puts it in place of the sealed copy when a  *)
(* sync brings that. Sessions, keys and lost requests are SessionLayer's:  *)
(* here a sealed text either decrypts or is marked lost, and a lost one is *)
(* retransmitted or expires.                                               *)
(***************************************************************************)
EXTENDS Naturals

CONSTANTS
    Text,      \* single-chat text messages of the peer
    Anonymous, \* those of them that carry no seq, server id or client id
    Internal,  \* records the peer's overlay makes itself (handshake, alert, control)
    Plain,     \* everything else the peer or a group sends
    Own,       \* this client's single-chat text messages
    OwnPlain   \* this client's other requests

Msgs == Text \cup Internal \cup Plain \cup Own \cup OwnPlain

ASSUME KindsAssumption ==
    /\ Anonymous \subseteq Text
    /\ Text \cap (Internal \cup Plain \cup Own \cup OwnPlain) = {}
    /\ Internal \cap (Plain \cup Own \cup OwnPlain) = {}
    /\ Plain \cap (Own \cup OwnPlain) = {}
    /\ Own \cap OwnPlain = {}

VARIABLES
    stored,    \* how the server has each message: "none", "clear" or "sealed"
    pushed,    \* messages it has sent in a realtime push
    lost,      \* texts whose shell waits in reorderState.lost
    cache,     \* texts in realtimeMsgMap
    shown,     \* what reached the application, and in which form
    delivered, \* history: texts that were decrypted and delivered
    synced     \* history: delivered texts that a sync brought again afterwards

vars == <<stored, pushed, lost, cache, shown, delivered, synced>>

TypeOK ==
    /\ stored \in [Msgs -> {"none", "clear", "sealed"}]
    /\ pushed \subseteq Msgs
    /\ lost \subseteq Text
    /\ cache \subseteq Text
    /\ shown \subseteq Msgs \X {"clear", "sealed"}
    /\ delivered \subseteq Text
    /\ synced \subseteq delivered

Init ==
    /\ stored = [m \in Msgs |-> "none"]
    /\ pushed = {}
    /\ lost = {}
    /\ cache = {}
    /\ shown = {}
    /\ delivered = {}
    /\ synced = {}

-----------------------------------------------------------------------------

\* shouldSecureOutbound, on either side: single-chat text with both ids.
ShouldSecureOutbound(m) == m \in Text \cup Own

\* In which form a message leaves its sender: records of the overlay itself
\* carry the marker too.
WireForm(m) == IF ShouldSecureOutbound(m) \/ m \in Internal THEN "sealed" ELSE "clear"

\* Sealed messages carry SecureWSMarker in Ex.
Marked(B) == {m \in B : stored[m] = "sealed"}

\* MsgDataToBytesReadBound: messages in the form in which they are handed on.
As(form, B) == {<<m, form>> : m \in B}

\* realtimeMsgKey: without any id there is no key.
Keyed(B) == B \ Anonymous

\* BytesToMsgDataReadBoundBatch: what becomes of a response with messages B.
\* internal: it answers a request that the overlay made itself.
Verdict(realtime, internal, B) ==
    CASE Marked(B) = {} -> IF internal THEN "drop" ELSE "bypass"
      [] Marked(B) # {} /\ realtime -> "items"
      [] Marked(B) # {} /\ ~realtime -> IF internal THEN "drop" ELSE "sanitize"

\* Mutant: a synced message that is not remembered is passed on as it is.
SanitizedKeepsUnknown(B) ==
    As("clear", (B \ Marked(B)) \cup (B \cap cache)) \cup As("sealed", Marked(B) \ cache)

\* sanitizeSyncedPushMessages: a sealed copy gives way to the remembered one, or
\* goes.
Sanitized(B) == As("clear", (B \ Marked(B)) \cup (B \cap cache))

-----------------------------------------------------------------------------
(* Messages on their way to the server *)

\* BytesToMsgDataWriteBound and MsgDataToBytesWriteBound on the sender's side.
Send(m) ==
    /\ stored[m] = "none"
    /\ stored' = [stored EXCEPT ![m] = WireForm(m)]
    /\ UNCHANGED <<pushed, lost, cache, shown, delivered, synced>>

-----------------------------------------------------------------------------
(* Responses of the server, handled by the readLoop *)

\* No message of the overlay in it: the frame is passed on whole, or dropped if
\* it only answers the overlay.
Bypass(realtime, internal, B) ==
    /\ Verdict(realtime, internal, B) \in {"bypass", "drop"}
    /\ shown' = IF Verdict(realtime, internal, B) = "bypass"
                THEN shown \cup As(IF Marked(B) = {} THEN "clear" ELSE "sealed", B) ELSE shown
    /\ pushed' = IF realtime THEN pushed \cup B ELSE pushed
    /\ UNCHANGED <<stored, lost, cache, delivered, synced>>

\* Mutant: what was restored or delivered is not remembered.
RememberNothing(D) == UNCHANGED cache

\* MsgDataToBytesReadBound: rememberRealtimePushMessages.
Remember(D) == cache' = cache \cup Keyed(D)

\* shouldDropSecureSelfEcho drops own echoes, the session consumes the records of
\* the overlay: texts remain.
Readable(B) == Marked(B) \cap Text

\* A realtime push, item by item: plain messages are passed on, texts are decrypted and delivered, or (L)
\* marked lost; one without identity cannot be asked for again.
Realtime(internal, B, L) ==
    LET D == Readable(B) \ L IN
    /\ Verdict(TRUE, internal, B) = "items"
    /\ L \subseteq Readable(B)
    /\ shown' = shown \cup As("clear", (B \ Marked(B)) \cup D)
    /\ lost' = lost \cup Keyed(L)
    /\ delivered' = delivered \cup D
    /\ pushed' = pushed \cup B
    /\ Remember(D)
    /\ UNCHANGED <<stored, synced>>

\* Mutant: Load where the code has LoadAndDelete.
TakeLoads(B) == UNCHANGED cache

\* takeRealtimeMsgData: LoadAndDelete.
Take(B) == cache' = cache \ Marked(B)

\* A history sync with messages of the overlay in it.
Sync(B) ==
    /\ Verdict(FALSE, FALSE, B) = "sanitize"
    /\ shown' = shown \cup Sanitized(B)
    /\ Take(B)
    /\ synced' = synced \cup (B \cap delivered)
    /\ UNCHANGED <<stored, pushed, lost, delivered>>

\* Mutant: a retransmission is taken without a shell that waits for it.
RetransmitUnasked(m) ==
    /\ stored[m] # "none"
    /\ lost' = lost \ {m}
    /\ shown' = shown \cup As("clear", {m})
    /\ delivered' = delivered \cup {m}
    /\ Remember({m})
    /\ UNCHANGED <<stored, pushed, synced>>

\* handleRetransmit rebuilds the lost message from its shell.
Retransmit(m) ==
    /\ m \in lost
    /\ lost' = lost \ {m}
    /\ shown' = shown \cup As("clear", {m})
    /\ delivered' = delivered \cup {m}
    /\ Remember({m})
    /\ UNCHANGED <<stored, pushed, synced>>

\* Mutant: the shell itself is released when it expires.
ExpireShows(m) ==
    /\ m \in lost
    /\ lost' = lost \ {m}
    /\ shown' = shown \cup As("clear", {m})
    /\ UNCHANGED <<stored, pushed, cache, delivered, synced>>

\* expireLostInbound gives it up.
Expire(m) ==
    /\ m \in lost
    /\ lost' = lost \ {m}
    /\ UNCHANGED <<stored, pushed, cache, shown, delivered, synced>>

OnServer == {m \in Msgs : stored[m] # "none"}

Next ==
    \/ \E m \in Msgs : Send(m) \/ Retransmit(m) \/ Expire(m)
    \/ \E B \in SUBSET (OnServer \ pushed), internal \in BOOLEAN :
          \/ Bypass(TRUE, internal, B)
          \/ \E L \in SUBSET B : Realtime(internal, B, L)
    \/ \E B \in SUBSET OnServer :
          \/ Sync(B)
          \/ \E internal \in BOOLEAN : Bypass(FALSE, internal, B)

Spec == Init /\ [][Next]_vars

-----------------------------------------------------------------------------
(* Safety *)

\* The application never gets to see a sealed message, on whatever path and in
\* whatever order pushes, syncs, retransmissions and expiries come
\* (BytesToMsgDataReadBoundBatch, sanitizeSyncedPushMessages).
NoSealedShown == \A m \in Msgs : <<m, "sealed">> \notin shown

\* The parser remembers exactly the texts it delivered and no sync has brought
\* since: the first sync after a delivery shows each of them, and nothing is
\* remembered that was never decrypted (rememberRealtimePushMessages,
\* takeRealtimeMsgData).
CacheExact == cache = Keyed(delivered \ synced)

\* A text is shown only if its realtime copy was decrypted or retransmitted: a
\* sync alone, before or without the delivery, never shows it (takeRealtimeMsgData).
ShownWasDelivered == \A m \in Text : <<m, "clear">> \in shown => m \in delivered

=============================================================================
