----------------------------- MODULE VenueStream -----------------------------
(***************************************************************************)
(* The user data streams of the two adapters: what the venue sends about   *)
(* the take-profit orders of a position, how BinanceAdapter and            *)
(* BybitAdapter translate it, which of it WebSocketManager counts as the   *)
(* fill of a level, and how the end of a stream comes to be noticed.       *)
(***************************************************************************)
EXTENDS Naturals, Sequences, FiniteSets

CONSTANTS
    VsLevels,    \* take-profit levels, named by the order id stored for them
    VsStreams    \* bound: subscriptions

VARIABLES
    vsVenue,     \* "binance" or "bybit"; never changes
    vsOrders,    \* state of each level's order at the venue
    vsWire,      \* raw messages on their way
    vsConn,      \* off, connecting, up, half_open (silently dead)
    vsKeeper,    \* is the helper task (listen-key keepalive, ping) alive?
    vsNoticed,   \* has the manager been told that the latest stream is gone?
    vsStreams,   \* subscriptions so far
    vsLost,      \* history: were messages lost with a stream?
    vsFilled     \* levels the manager has counted as filled

vsVars == <<vsVenue, vsOrders, vsWire, vsConn, vsKeeper, vsNoticed, vsStreams, vsLost, vsFilled>>

VsInit ==
    /\ vsVenue \in {"binance", "bybit"}
    /\ vsOrders = [l \in VsLevels |-> "live"] /\ vsWire = <<>>
    /\ vsConn = "off" /\ vsKeeper = FALSE /\ vsNoticed = FALSE
    /\ vsStreams = 0 /\ vsLost = FALSE /\ vsFilled = {}

-----------------------------------------------------------------------------
\* Raw messages.  The market order a Binance algo order turns into has an id of
\* its own and the type MARKET.
VsMsg(topic, id, status, qty) == [topic |-> topic, id |-> id, status |-> status, qty |-> qty]
OtherOrder == "another order"

\* The venue gives no two orders one id.
ASSUME LevelsAssumption == OtherOrder \notin VsLevels

OnTrigger(l) ==
    IF vsVenue = "binance" THEN <<VsMsg("ALGO_UPDATE", l, "TRIGGERED", 0)>>
    ELSE <<VsMsg("order", l, "TRIGGERED", 0)>>

OnFill(l) ==
    IF vsVenue = "binance"
    THEN <<VsMsg("ALGO_UPDATE", l, "FINISHED", 1), VsMsg("ORDER_TRADE_UPDATE", OtherOrder, "FILLED", 1)>>
    ELSE <<VsMsg("execution", l, "Trade", 1), VsMsg("order", l, "FILLED", 1)>>

OnCancel(l) == <<VsMsg(IF vsVenue = "binance" THEN "ALGO_UPDATE" ELSE "order", l, "CANCELED", 0)>>

\* A connected stream carries the message; without one it is lost.
VsEmit(msgs) ==
    IF vsConn = "up" THEN vsWire' = vsWire \o msgs /\ UNCHANGED vsLost
    ELSE vsLost' = TRUE /\ UNCHANGED vsWire

VsTriggers(l) ==
    /\ vsOrders[l] = "live"
    /\ vsOrders' = [vsOrders EXCEPT ![l] = "triggered"] /\ VsEmit(OnTrigger(l))
    /\ UNCHANGED <<vsConn, vsKeeper, vsNoticed, vsStreams, vsFilled>>

VsFills(l) ==
    /\ vsOrders[l] = "triggered"
    /\ vsOrders' = [vsOrders EXCEPT ![l] = "filled"] /\ VsEmit(OnFill(l))
    /\ UNCHANGED <<vsConn, vsKeeper, vsNoticed, vsStreams, vsFilled>>

VsCancels(l) ==
    /\ vsOrders[l] = "live"
    /\ vsOrders' = [vsOrders EXCEPT ![l] = "cancelled"] /\ VsEmit(OnCancel(l))
    /\ UNCHANGED <<vsConn, vsKeeper, vsNoticed, vsStreams, vsFilled>>

-----------------------------------------------------------------------------
\* _normalize_status of the two adapters; a status they do not know is kept.
BinanceStatus(raw) ==
    CASE raw \in {"NEW", "TRIGGERING"} -> "new"
      [] raw = "TRIGGERED" -> "triggered"
      [] raw = "FINISHED" -> "finished"
      [] raw \in {"CANCELED", "EXPIRED"} -> "cancelled"
      [] raw = "REJECTED" -> "rejected"
      [] OTHER -> "filled"

BybitStatus(raw) ==
    CASE raw \in {"NEW", "UNTRIGGERED", "PARTIALLYFILLED"} -> "new"
      [] raw \in {"TRIGGERED", "FILLED"} -> "triggered"
      [] raw \in {"CANCELED", "DEACTIVATED"} -> "cancelled"
      [] OTHER -> "rejected"

\* An event as the adapters hand it on; a triggered algo order is reported
\* under its algo id, a plain order under its own.
VsEvent(id, status, qty) == [id |-> id, status |-> status, qty |-> qty]

NormalizeOrderTradeUpdate(m) == VsEvent(m.id, BinanceStatus(m.status), m.qty)

\* Mutant: read with the field names of order updates, which leaves no id.
NormalizeIdless(m) == VsEvent(OtherOrder, BinanceStatus(m.status), m.qty)

NormalizeAlgoUpdate(m) == VsEvent(m.id, BinanceStatus(m.status), m.qty)

NormalizeOrderEvents(m) == VsEvent(m.id, BybitStatus(m.status), m.qty)

\* The status is derived from the quantities.
NormalizeExecutionEvents(m) == VsEvent(m.id, IF m.qty > 0 THEN "triggered" ELSE "new", m.qty)

\* The payload's type, or topic, chooses the translation.
NormalizePayload(m) ==
    CASE m.topic = "ALGO_UPDATE" -> NormalizeAlgoUpdate(m)
      [] m.topic = "order" -> NormalizeOrderEvents(m)
      [] m.topic = "execution" -> NormalizeExecutionEvents(m)
      [] OTHER -> NormalizeOrderTradeUpdate(m)

\* _is_fill_event.
CountsAsFill(ev) == ev.status \in {"filled", "triggered"} \/ ev.qty > 0

\* _match_tp_level by order id; an event with a foreign id matches nothing, and
\* one of a level already triggered is a duplicate.
MatchTpLevel(ev) == {l \in VsLevels \ vsFilled : l = ev.id}

\* _dispatch_user_data_payload, _dispatch_private_payload.
DispatchPayload ==
    /\ vsConn = "up" /\ vsWire # <<>>
    /\ vsWire' = Tail(vsWire)
    /\ LET m == Head(vsWire)
           ev == NormalizePayload(m)
       IN  IF m.topic = "listenKeyExpired"
           THEN /\ vsConn' = "off" /\ vsNoticed' = TRUE /\ vsKeeper' = FALSE
                /\ UNCHANGED vsFilled
           ELSE /\ vsFilled' = IF CountsAsFill(ev) THEN vsFilled \cup MatchTpLevel(ev) ELSE vsFilled
                /\ UNCHANGED <<vsConn, vsNoticed, vsKeeper>>
    /\ UNCHANGED <<vsOrders, vsStreams, vsLost>>

-----------------------------------------------------------------------------
\* What is still on the wire is lost with the stream.
VsCut == vsWire' = <<>> /\ vsLost' = (vsLost \/ vsWire # <<>>)

\* subscribe_user_data: the old task is cancelled (no notification), then the
\* new one is started; creating the Binance listen key may fail before that,
\* with an exception for the caller.
SubscribeUserData(ok) ==
    /\ vsStreams < VsStreams /\ (~ok => vsVenue = "binance")
    /\ vsStreams' = vsStreams + 1 /\ VsCut
    /\ vsConn' = IF ok THEN "connecting" ELSE "off"
    /\ vsNoticed' = ~ok /\ vsKeeper' = FALSE
    /\ UNCHANGED <<vsOrders, vsFilled>>

\* _run_user_data_stream: connected, the helper task is started; or an exception,
\* whose finally block calls on_disconnect.
StreamConnects ==
    /\ vsConn = "connecting"
    /\ vsConn' = "up" /\ vsKeeper' = TRUE
    /\ UNCHANGED <<vsOrders, vsWire, vsNoticed, vsStreams, vsLost, vsFilled>>

StreamFails ==
    /\ vsConn # "off"
    /\ vsConn' = "off" /\ vsNoticed' = TRUE /\ vsKeeper' = FALSE /\ VsCut
    /\ UNCHANGED <<vsOrders, vsStreams, vsFilled>>

\* The connection dies without a word.
GoesSilent ==
    /\ vsConn = "up"
    /\ vsConn' = "half_open" /\ VsCut
    /\ UNCHANGED <<vsOrders, vsKeeper, vsNoticed, vsStreams, vsFilled>>

\* Mutant: ping_interval=None, nobody misses the pong.
NoPing == FALSE /\ UNCHANGED <<vsConn, vsNoticed, vsKeeper, vsOrders, vsWire, vsStreams, vsLost,
                              vsFilled>>

\* The pong of the websocket library's keepalive does not come; for Bybit the
\* library's pings are switched off and the adapter's own expect no answer.
PongMissed ==
    /\ vsVenue = "binance" /\ vsConn = "half_open"
    /\ vsConn' = "off" /\ vsNoticed' = TRUE /\ vsKeeper' = FALSE
    /\ UNCHANGED <<vsOrders, vsWire, vsStreams, vsLost, vsFilled>>

\* _keepalive_listen_key gives up after its first failed request; an hour later
\* the venue ends the key.
KeepaliveFails ==
    /\ vsVenue = "binance" /\ vsKeeper
    /\ vsKeeper' = FALSE
    /\ UNCHANGED <<vsOrders, vsWire, vsConn, vsNoticed, vsStreams, vsLost, vsFilled>>

KeyExpires ==
    /\ vsVenue = "binance" /\ vsConn = "up" /\ ~vsKeeper
    /\ \A i \in DOMAIN vsWire : vsWire[i].topic # "listenKeyExpired"
    /\ vsWire' = Append(vsWire, VsMsg("listenKeyExpired", OtherOrder, "", 0))
    /\ UNCHANGED <<vsOrders, vsConn, vsKeeper, vsNoticed, vsStreams, vsLost, vsFilled>>

VsStep ==
    \/ \E l \in VsLevels : VsTriggers(l) \/ VsFills(l) \/ VsCancels(l)
    \/ DispatchPayload
    \/ \E ok \in BOOLEAN : SubscribeUserData(ok)
    \/ StreamConnects \/ StreamFails \/ GoesSilent \/ PongMissed
    \/ KeepaliveFails \/ KeyExpires

VsNext == VsStep /\ UNCHANGED vsVenue

\* Messages are delivered, pings run out, an expired key ends its stream.
VsFairness ==
    /\ WF_vsVars(DispatchPayload /\ UNCHANGED vsVenue)
    /\ WF_vsVars(PongMissed /\ UNCHANGED vsVenue)
    /\ WF_vsVars(KeyExpires /\ UNCHANGED vsVenue)

VsSpec == VsInit /\ [][VsNext]_vsVars /\ VsFairness

-----------------------------------------------------------------------------
\* Three messages about one fill, in the venue's own words and partly under
\* another order's id, count as one fill of the right level: no level is
\* counted whose order was not triggered, and once the messages of an unbroken
\* stream are dispatched none that was filled is missing.
FillsReachTheirLevel ==
    /\ \A l \in vsFilled : vsOrders[l] \in {"triggered", "filled"}
    /\ vsConn = "up" /\ vsWire = <<>> /\ ~vsLost =>
         \A l \in VsLevels : vsOrders[l] = "filled" => l \in vsFilled

\* A Binance stream that can deliver nothing any more, because the connection
\* died silently or because the keepalive gave up and the key expired, is
\* noticed: on_disconnect is called, unless a new stream was subscribed.
SilenceIsNoticed ==
    [](vsVenue = "binance" /\ (vsConn = "half_open" \/ (vsConn = "up" /\ ~vsKeeper))
       => <>(vsNoticed \/ vsConn = "connecting"))
=============================================================================
