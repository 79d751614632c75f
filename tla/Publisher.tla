------------------------------ MODULE Publisher ------------------------------
(***************************************************************************)
(* The publishing half of the firmware: what the main loop does with a     *)
(* finished meter cycle (publish_cycle in app_main.cpp), while the MQTT    *)
(* client's event handler and the WiFi event handler (on_mqtt and on_wifi  *)
(* in net.cpp) change the flags it reads.  The esp-mqtt client, the TCP    *)
(* connection and the broker are external: they are modelled by what       *)
(* net.cpp relies on, namely a FIFO byte stream that can die at any point, *)
(* an outbox of unacknowledged QoS 1 messages that is sent again on the    *)
(* next connection, a last will, and retained messages.                    *)
(*                                                                         *)
(* Task structure.  The processor has one core.  The main loop runs at     *)
(* priority 1, the MQTT client's task at 5 and the event task that runs    *)
(* on_wifi above both, so a handler is interrupted only where it blocks:   *)
(* on_mqtt sets the flag and counts the session in one step and then       *)
(* blocks writing "online".  The client holds its lock while it runs a     *)
(* handler; a publish call of the main loop waits for that lock, a read of *)
(* connected or session_id does not.                                       *)
(***************************************************************************)
EXTENDS Naturals, Sequences

CONSTANTS
    Entities,       \* registers announced by discovery (eight in the code)
    Serials,        \* values the meter's IDENTITY objects may carry
    NoSerial,       \* meter_serial is still empty
    MaxCycles,      \* bound: cycle numbers stop counting here, cycles do not
    MaxFaults,      \* bound: faults the environment may inject
    WireCap,        \* bound: messages in flight before a write blocks
    ReconnectDuringPass,   \* may a pass outlast the client's reconnect delay?
    SessionSurvivesLinkLoss  \* may a TCP session outlive a WiFi loss?

ASSUME PublisherAssumption ==
    /\ NoSerial \notin Serials
    /\ MaxCycles \in Nat /\ MaxFaults \in Nat /\ WireCap \in Nat
    /\ ReconnectDuringPass \in BOOLEAN
    /\ SessionSurvivesLinkLoss \in BOOLEAN

VARIABLES
    \* ---- the main loop, app_main.cpp
    pc,                 \* where publish_cycle is
    meter_serial,       \* the identity entities are keyed by
    loaded,             \* cycle_set holds at least one value
    todo,               \* entities this pass has still to announce
    discovery_session,  \* the session discovery was last published on
    \* ---- the network layer, net.cpp
    connected,          \* what mqtt_connected() answers
    session_id,         \* what mqtt_session() answers
    handler,            \* the client event being handled
    wifi,               \* the station and on_wifi
    \* ---- the esp-mqtt client and the connection
    tcp,                \* the number of the client's open connection, or 0
    wire,               \* messages in flight on it
    outbox,             \* QoS 1 messages not yet acknowledged
    \* ---- the broker
    peer,               \* the connection the broker serves, or 0
    retained,           \* discovery configurations it retains
    status,             \* the retained availability
    seen,               \* the newest cycle whose state it forwarded
    \* ---- bookkeeping of the model
    cycle,              \* number of the cycle in cycle_set
    conns,              \* connections made so far
    faults              \* faults the environment has left

device  == <<pc, meter_serial, loaded, todo, discovery_session, cycle>>
network == <<connected, session_id, handler>>
client  == <<tcp, wire, outbox, conns>>
broker  == <<peer, retained, status, seen>>
vars    == <<device, network, wifi, client, broker, faults>>

-----------------------------------------------------------------------------
(* Messages.  A discovery configuration and "online" are QoS 1 and          *)
(* retained; a state message is QoS 0 and not retained.                     *)

Config(e, s) == [kind |-> "config", entity |-> e, serial |-> s]
Online       == [kind |-> "online"]
State(c)     == [kind |-> "state", cycle |-> c]

Configs == [kind : {"config"}, entity : Entities, serial : Serials]
States  == [kind : {"state"}, cycle : Nat]
Message == Configs \cup {Online} \cup States

Announced == {Config(e, meter_serial) : e \in Entities}

\* The broker still serves the connection the client believes it has.
Live == tcp # 0 /\ peer = tcp

\* The client is not inside an event handler, so its lock can be taken.
LockFree == handler = "idle"

\* esp_mqtt_client_publish at QoS 1: stored first, then written if there is
\* a connection to write to.  A full socket buffer blocks the caller.
PublishQoS1(m) ==
    /\ tcp # 0 => Len(wire) < WireCap
    /\ outbox' = outbox \cup {m}
    /\ wire' = IF tcp # 0 THEN Append(wire, m) ELSE wire
    /\ UNCHANGED <<tcp, conns>>

Mut_PublishQoS0_NeverBlocks(m) ==
    /\ wire' = IF tcp # 0 THEN Append(wire, m) ELSE wire
    /\ UNCHANGED <<tcp, conns, outbox>>

\* At QoS 0 a message without a connection is dropped, and nothing says so.
PublishQoS0(m) ==
    /\ tcp # 0 => Len(wire) < WireCap
    /\ wire' = IF tcp # 0 THEN Append(wire, m) ELSE wire
    /\ UNCHANGED <<tcp, conns, outbox>>

Fault == faults > 0 /\ faults' = faults - 1

-----------------------------------------------------------------------------
Init ==
    /\ pc = "boot" /\ meter_serial = NoSerial /\ loaded = FALSE /\ todo = {}
    /\ discovery_session = 0 /\ cycle = 0
    /\ connected = FALSE /\ session_id = 0 /\ handler = "idle"
    /\ wifi = "up"
    /\ tcp = 0 /\ wire = <<>> /\ outbox = {} /\ conns = 0
    /\ peer = 0 /\ retained = {} /\ status = "none" /\ seen = 0
    /\ faults = MaxFaults

-----------------------------------------------------------------------------
(* The main loop.                                                           *)

\* app_main: the station has its address, the client has been started and
\* the loop begins.
Boot ==
    /\ pc = "boot" /\ wifi = "up"
    /\ pc' = "idle"
    /\ UNCHANGED <<meter_serial, loaded, todo, discovery_session, cycle,
                   network, wifi, client, broker, faults>>

\* The line fell silent and the burst was decoded.  It may carry no value, no
\* identity, or one of the identity objects; the first identity decoded since
\* the device started is the one it keeps.
CycleEnds(id, any) ==
    /\ pc = "idle"
    /\ cycle' = IF cycle < MaxCycles THEN cycle + 1 ELSE cycle
    /\ loaded' = any
    /\ meter_serial' = IF meter_serial = NoSerial THEN id ELSE meter_serial
    /\ pc' = "check"
    /\ UNCHANGED <<todo, discovery_session, network, wifi, client, broker, faults>>

CycleEnd == \E id \in Serials \cup {NoSerial}, any \in BOOLEAN : CycleEnds(id, any)

Mut_CheckConnected_NoSerialCheck ==
    /\ pc = "check"
    /\ pc' = IF connected THEN "session" ELSE "idle"
    /\ UNCHANGED <<meter_serial, loaded, todo, discovery_session, cycle,
                   network, wifi, client, broker, faults>>

\* A set that cannot be delivered now is stale later, so it is dropped; and
\* nothing is published before the meter is known.
CheckConnected ==
    /\ pc = "check"
    /\ pc' = IF connected /\ meter_serial # NoSerial THEN "session" ELSE "idle"
    /\ UNCHANGED <<meter_serial, loaded, todo, discovery_session, cycle,
                   network, wifi, client, broker, faults>>

Mut_CheckSession_OncePerBoot ==
    /\ pc = "session"
    /\ IF discovery_session = 0
         THEN pc' = "announce" /\ todo' = Entities
         ELSE pc' = "state" /\ todo' = todo
    /\ UNCHANGED <<meter_serial, loaded, discovery_session, cycle,
                   network, wifi, client, broker, faults>>

CheckSession ==
    /\ pc = "session"
    /\ IF discovery_session # session_id
         THEN pc' = "announce" /\ todo' = Entities
         ELSE pc' = "state" /\ todo' = todo
    /\ UNCHANGED <<meter_serial, loaded, discovery_session, cycle,
                   network, wifi, client, broker, faults>>

Mut_PublishDiscovery_QoS0 ==
    /\ pc = "announce" /\ LockFree
    /\ \E e \in todo :
         /\ todo' = todo \ {e}
         /\ PublishQoS0(Config(e, meter_serial))
    /\ UNCHANGED <<pc, meter_serial, loaded, discovery_session, cycle,
                   network, wifi, broker, faults>>

PublishDiscovery ==
    /\ pc = "announce" /\ LockFree
    /\ \E e \in todo :
         /\ todo' = todo \ {e}
         /\ PublishQoS1(Config(e, meter_serial))
    /\ UNCHANGED <<pc, meter_serial, loaded, discovery_session, cycle,
                   network, wifi, broker, faults>>

Mut_MarkDiscovered_OneShort ==
    /\ pc = "announce" /\ \A d, e \in todo : d = e
    /\ discovery_session' = session_id
    /\ pc' = "state" /\ todo' = {}
    /\ UNCHANGED <<meter_serial, loaded, cycle, network, wifi, client, broker, faults>>

\* The session is read again here, not carried over from CheckSession.
MarkDiscovered ==
    /\ pc = "announce" /\ todo = {}
    /\ discovery_session' = session_id
    /\ pc' = "state"
    /\ UNCHANGED <<meter_serial, loaded, todo, cycle,
                   network, wifi, client, broker, faults>>

Mut_PublishState_QoS1 ==
    /\ pc = "state"
    /\ pc' = "idle"
    /\ IF loaded THEN LockFree /\ PublishQoS1(State(cycle))
                 ELSE UNCHANGED client
    /\ UNCHANGED <<meter_serial, loaded, todo, discovery_session, cycle,
                   network, wifi, broker, faults>>

Mut_PublishState_UntilConnected ==
    /\ pc = "state"
    /\ pc' = IF connected THEN "idle" ELSE "state"
    /\ IF loaded THEN LockFree /\ PublishQoS0(State(cycle))
                 ELSE UNCHANGED client
    /\ UNCHANGED <<meter_serial, loaded, todo, discovery_session, cycle,
                   network, wifi, broker, faults>>

\* The set goes out and the green LED pulses; publishing returns nothing, so
\* the pulse does not depend on it.  An empty set ends the pass instead.
PublishState ==
    /\ pc = "state"
    /\ pc' = "idle"
    /\ IF loaded THEN LockFree /\ PublishQoS0(State(cycle))
                 ELSE UNCHANGED client
    /\ UNCHANGED <<meter_serial, loaded, todo, discovery_session, cycle,
                   network, wifi, broker, faults>>

-----------------------------------------------------------------------------
(* The event handlers of net.cpp.                                           *)

Mut_OnConnected_FlagOnce ==
    /\ handler = "connected"
    /\ connected' = (connected \/ session_id = 0)
    /\ session_id' = session_id + 1
    /\ handler' = "online"
    /\ UNCHANGED <<device, wifi, client, broker, faults>>

OnConnected ==
    /\ handler = "connected"
    /\ connected' = TRUE
    /\ session_id' = session_id + 1
    /\ handler' = "online"
    /\ UNCHANGED <<device, wifi, client, broker, faults>>

Mut_PublishOnline_FirstSessionOnly ==
    /\ handler = "online"
    /\ IF session_id = 1 THEN PublishQoS1(Online) ELSE UNCHANGED client
    /\ handler' = "idle"
    /\ UNCHANGED <<connected, session_id, device, wifi, broker, faults>>

PublishOnline ==
    /\ handler = "online"
    /\ PublishQoS1(Online)
    /\ handler' = "idle"
    /\ UNCHANGED <<connected, session_id, device, wifi, broker, faults>>

OnDisconnected ==
    /\ handler = "lost"
    /\ connected' = FALSE
    /\ handler' = "idle"
    /\ UNCHANGED <<session_id, device, wifi, client, broker, faults>>

\* The flag is cleared and, after two seconds, the station tries again.
OnWifiDisconnected ==
    /\ wifi = "lost"
    /\ connected' = FALSE
    /\ wifi' = "retry"
    /\ UNCHANGED <<session_id, handler, device, client, broker, faults>>

-----------------------------------------------------------------------------
(* The client, the network and the broker.                                  *)

\* A connection is accepted.  A broker that still serves an older connection
\* of the same client identifier closes that one first, which publishes its
\* will.  Messages kept in the outbox are sent again by Resend.
Connect ==
    /\ pc # "boot" /\ tcp = 0 /\ LockFree /\ wifi = "up"
    /\ ReconnectDuringPass \/ pc = "idle"
    /\ conns' = conns + 1
    /\ tcp' = conns + 1 /\ peer' = conns + 1
    /\ status' = IF peer # 0 THEN "offline" ELSE status
    /\ wire' = <<>>
    /\ handler' = "connected"
    /\ UNCHANGED <<device, connected, session_id, wifi, outbox, retained, seen, faults>>

\* The client finds the connection dead: a failed write, a missed ping, a
\* reset.  What was in flight is gone; QoS 1 messages are still in the outbox.
SessionLost ==
    /\ tcp # 0 /\ LockFree
    /\ IF wifi = "up" /\ Live THEN Fault ELSE UNCHANGED faults
    /\ tcp' = 0 /\ wire' = <<>>
    /\ handler' = "lost"
    /\ UNCHANGED <<device, connected, session_id, wifi, outbox, conns, broker>>

Resend ==
    /\ tcp # 0 /\ LockFree /\ Len(wire) < WireCap
    /\ \E m \in outbox :
         /\ \A i \in 1..Len(wire) : wire[i] # m
         /\ wire' = Append(wire, m)
    /\ UNCHANGED <<device, network, wifi, tcp, outbox, conns, broker, faults>>

\* Messages the client could not deliver for thirty seconds are forgotten.
OutboxExpire ==
    /\ tcp = 0
    /\ \E m \in outbox : outbox' = outbox \ {m}
    /\ UNCHANGED <<device, network, wifi, tcp, wire, conns, broker, faults>>

\* The broker takes the next message and acknowledges it if it is QoS 1; an
\* acknowledgement lost with the connection is modelled by acked = FALSE.
Deliver(acked) ==
    /\ Live /\ wifi = "up" /\ wire # <<>>
    /\ LET m == Head(wire) IN
         /\ wire' = Tail(wire)
         /\ outbox' = IF acked THEN outbox \ {m} ELSE outbox
         /\ retained' = IF m.kind = "config" THEN retained \cup {m} ELSE retained
         /\ status' = IF m = Online THEN "online" ELSE status
         /\ seen' = IF m.kind = "state" THEN m.cycle ELSE seen
    /\ UNCHANGED <<device, network, wifi, tcp, conns, peer>>

Acknowledge    == Deliver(TRUE) /\ UNCHANGED faults
AcknowledgeLost == Deliver(FALSE) /\ Fault

Mut_BrokerDropsSession_NoLastWill ==
    /\ peer # 0
    /\ IF wifi = "up" /\ Live THEN Fault ELSE UNCHANGED faults
    /\ peer' = 0 /\ status' = status
    /\ UNCHANGED <<device, network, wifi, client, retained, seen>>

\* The broker gives a client up (keepalive, reset): its will is published.
BrokerDropsSession ==
    /\ peer # 0
    /\ IF wifi = "up" /\ Live THEN Fault ELSE UNCHANGED faults
    /\ peer' = 0 /\ status' = "offline"
    /\ UNCHANGED <<device, network, wifi, client, retained, seen>>

\* A broker without persistence restarts and has forgotten everything.
BrokerRestart ==
    /\ Fault
    /\ peer' = 0 /\ retained' = {} /\ status' = "none"
    /\ UNCHANGED <<device, network, wifi, client, seen>>

WifiDrop ==
    /\ wifi = "up" /\ Fault
    /\ wifi' = "lost"
    /\ UNCHANGED <<device, network, client, broker>>

WifiRetryFails ==
    /\ wifi = "retry" /\ Fault
    /\ wifi' = "lost"
    /\ UNCHANGED <<device, network, client, broker>>

\* The station has an address again.  Whether the TCP connection outlived the
\* gap is the network stack's business: a constant.
WifiRestored ==
    /\ wifi = "retry"
    /\ SessionSurvivesLinkLoss \/ tcp = 0
    /\ wifi' = "up"
    /\ UNCHANGED <<device, network, client, broker, faults>>

\* Power cut or reset at any moment.  Nothing of this state is persistent; the
\* broker learns of it only by giving the connection up.
Reboot ==
    /\ Fault
    /\ pc' = "boot" /\ meter_serial' = NoSerial /\ loaded' = FALSE /\ todo' = {}
    /\ discovery_session' = 0 /\ cycle' = cycle
    /\ connected' = FALSE /\ session_id' = 0 /\ handler' = "idle"
    /\ wifi' = "up"
    /\ tcp' = 0 /\ wire' = <<>> /\ outbox' = {} /\ conns' = conns
    /\ UNCHANGED broker

-----------------------------------------------------------------------------
Pass == CheckConnected \/ CheckSession \/ PublishDiscovery \/ MarkDiscovered \/ PublishState

Handlers == OnConnected \/ PublishOnline \/ OnDisconnected \/ OnWifiDisconnected

Environment ==
    \/ Connect \/ SessionLost \/ Resend \/ OutboxExpire
    \/ Acknowledge \/ AcknowledgeLost
    \/ BrokerDropsSession \/ BrokerRestart
    \/ WifiDrop \/ WifiRetryFails \/ WifiRestored \/ Reboot

Next == Boot \/ CycleEnd \/ Pass \/ Handlers \/ Environment

Spec == Init /\ [][Next]_vars

-----------------------------------------------------------------------------
(* Fairness.  The tasks of the device run (the scheduler is preemptive and  *)
(* every wait in these steps ends), the client reconnects and resends for   *)
(* as long as it takes, dead connections are eventually noticed at both     *)
(* ends (keepalive), a restored access point is eventually rejoined, and    *)
(* the meter keeps sending telegrams that carry its identity and a value.   *)

StaleSessionLost == (wifi # "up" \/ ~Live) /\ SessionLost
StalePeerDropped == (wifi # "up" \/ ~Live) /\ BrokerDropsSession

Fairness ==
    /\ WF_vars(Boot) /\ WF_vars(Pass) /\ WF_vars(Handlers)
    /\ SF_vars(\E id \in Serials : CycleEnds(id, TRUE))
    /\ SF_vars(Connect) /\ SF_vars(Resend) /\ WF_vars(Acknowledge)
    /\ SF_vars(StaleSessionLost) /\ WF_vars(StalePeerDropped)
    /\ WF_vars(WifiRestored)

FairSpec == Spec /\ Fairness

-----------------------------------------------------------------------------
(* Properties.                                                              *)

\* The values the state of the loop, the network layer, the client and the
\* broker can take; in particular nothing is left to announce outside
\* "announce", and the socket never holds more than it can.
TypeOK ==
    /\ pc \in {"boot", "idle", "check", "session", "announce", "state"}
    /\ meter_serial \in Serials \cup {NoSerial}
    /\ loaded \in BOOLEAN
    /\ todo \subseteq Entities
    /\ discovery_session \in Nat /\ session_id \in Nat /\ cycle \in Nat
    /\ connected \in BOOLEAN
    /\ handler \in {"idle", "connected", "online", "lost"}
    /\ wifi \in {"up", "lost", "retry"}
    /\ tcp \in Nat /\ conns \in Nat /\ peer \in Nat
    /\ wire \in Seq(Message) /\ Len(wire) <= WireCap
    /\ outbox \subseteq Message
    /\ retained \subseteq Configs
    /\ status \in {"none", "online", "offline"}
    /\ seen \in Nat
    /\ faults \in Nat

\* The claim discovery_session makes.  When it equals session_id the loop will
\* announce nothing more on this session; so if the session is a real one
\* (the client's connection is the one the broker serves, and it has been
\* counted), every entity of the meter is retained at the broker or still in
\* the outbox that will deliver it.  publish_cycle, app_main.cpp.
DiscoveryClaim ==
    Live /\ handler # "connected" /\ pc # "announce"
         /\ discovery_session = session_id /\ session_id # 0
      => Announced \subseteq retained \cup outbox

\* Why the claim holds: a pass that is announcing has put on this session what
\* it no longer owes it, and starts from scratch if the session has not been
\* counted; no claim is ahead of the sessions counted, and none is made before
\* the meter is known.  This is the invariant the proof of the claim rests on.
DiscoveryInv ==
    /\ DiscoveryClaim
    /\ pc = "announce" =>
         /\ handler = "connected" => todo = Entities
         /\ Live /\ handler # "connected" =>
              \A e \in Entities \ todo : Config(e, meter_serial) \in retained \cup outbox
    /\ discovery_session <= session_id
    /\ meter_serial = NoSerial => discovery_session = 0

\* No identity, no discovery and no state: until the serial has been decoded
\* this boot has put no configuration in the outbox and no measurement on the
\* wire (FR-HA-03), whatever the passes, sessions and retries did.
NothingBeforeIdentity ==
    meter_serial = NoSerial =>
        /\ outbox \subseteq {Online}
        /\ \A i \in 1..Len(wire) : wire[i] = Online

StatesOnWire == {i \in 1..Len(wire) : wire[i].kind = "state"}

Newer(d, c) == d > c \/ (d = c /\ c = MaxCycles)

\* A measurement never arrives late or twice: along the wire, and after what
\* the broker has already forwarded, cycle numbers only rise.  (The counter
\* of the model stops at MaxCycles, where equal numbers are allowed.)
StatesFresh ==
    /\ \A i, j \in StatesOnWire : i < j => Newer(wire[j].cycle, wire[i].cycle)
    /\ \A i \in StatesOnWire : Newer(wire[i].cycle, seen)

\* The set in cycle_set may still go out in this pass.
Pending == loaded /\ pc \in {"check", "session", "announce", "state"}

\* The sets on the wire, by their cycles.
CyclesIn(w) ==
    LET sets[i \in 0..Len(w)] ==
          IF i = 0 THEN <<>>
          ELSE IF w[i].kind = "state" THEN Append(sets[i - 1], w[i].cycle) ELSE sets[i - 1]
    IN  sets[Len(w)]

InFlight == CyclesIn(wire)

Feed == INSTANCE MeasurementFeed WITH
            latest <- cycle, pending <- Pending, inflight <- InFlight, seen <- seen

\* Whatever the client drops, resends or expires, and whichever sessions come and
\* go inside a pass, a set is offered at most once, as long as it is the newest,
\* and arrives in order or not at all (FR-MTR-12; publish_cycle, app_main.cpp).
FeedKeepsPromise == Feed!Spec

\* Availability is truthful in the direction that matters: the broker shows
\* the device online only while it serves a connection of it; a power cut, a
\* dead link or a takeover leaves "offline" behind (FR-HA-06).
OnlineHasSession == status = "online" => peer # 0

\* Once the faults are over the device is, and stays, connected in its own
\* eyes and online in the broker's, however the handlers interleaved.
AvailabilitySettles == <>[](connected /\ status = "online")

\* Once the faults are over every entity of the meter is retained at the
\* broker for good, even when a broker without persistence forgot them.
DiscoveryHeals ==
    <>[](meter_serial # NoSerial /\ Announced \subseteq retained)

\* Measurements keep reaching the connection: no sequence of faults leaves a
\* device that is up, associated and fed by its meter silent for good
\* (NFR-SUP-01, "shall re-establish", and goal 1 of the specification).
MeasurementsResume ==
    []<>(\E i \in 1..Len(wire) : wire[i].kind = "state")

\* One meter, one identity: the broker never retains entities of two serials.
OneIdentity == \A c, d \in retained : c.serial = d.serial
=============================================================================
