--------------------------- MODULE PublisherProofs ---------------------------
(***************************************************************************)
(* Proofs about Publisher, for any set of entities and serials, any number *)
(* of faults and any capacity of the socket.                               *)
(***************************************************************************)
EXTENDS Publisher, SetInduction, TLAPS

\* The kinds of messages keep configurations apart from everything else.
LEMMA MessageKinds ==
    ASSUME NEW m \in Message
    PROVE  /\ m.kind = "config" => m \in Configs
           /\ m.kind = "state" => m.cycle \in Nat
           /\ m = Online => m.kind = "online"
  BY DEF Message, Configs, Online, States

LEMMA ConfigType ==
    ASSUME NEW e \in Entities, NEW s \in Serials
    PROVE  Config(e, s) \in Configs /\ Config(e, s) \in Message
  BY DEF Config, Configs, Message

-----------------------------------------------------------------------------
(* What the two publishing calls do to the client's state.                  *)

ClientTyped ==
    /\ tcp \in Nat /\ conns \in Nat
    /\ wire \in Seq(Message) /\ Len(wire) <= WireCap
    /\ outbox \subseteq Message

LEMMA QoS1Typed ==
    ASSUME NEW m \in Message, ClientTyped, PublishQoS1(m)
    PROVE  ClientTyped'
  <1>1. CASE tcp # 0
    BY <1>1, PublisherAssumption DEF ClientTyped, PublishQoS1
  <1>2. CASE tcp = 0
    BY <1>2 DEF ClientTyped, PublishQoS1
  <1>3. QED BY <1>1, <1>2

LEMMA QoS0Typed ==
    ASSUME NEW m \in Message, ClientTyped, PublishQoS0(m)
    PROVE  ClientTyped'
  <1>1. CASE tcp # 0
    BY <1>1, PublisherAssumption DEF ClientTyped, PublishQoS0
  <1>2. CASE tcp = 0
    BY <1>2 DEF ClientTyped, PublishQoS0
  <1>3. QED BY <1>1, <1>2

-----------------------------------------------------------------------------
(* Type correctness.                                                        *)

\* A pass that has got past the checks knows the meter's identity.
IdentityKnown ==
    pc \in {"session", "announce", "state"} => meter_serial \in Serials

TypeInv == TypeOK /\ IdentityKnown

LEMMA TypeInit == Init => TypeInv
  <1> SUFFICES ASSUME Init PROVE TypeInv
    OBVIOUS
  <1>1. wire \in Seq(Message) /\ Len(wire) <= WireCap
    BY PublisherAssumption DEF Init
  <1>2. /\ discovery_session \in Nat /\ session_id \in Nat /\ cycle \in Nat
        /\ tcp \in Nat /\ conns \in Nat /\ peer \in Nat /\ seen \in Nat /\ faults \in Nat
    BY PublisherAssumption DEF Init
  <1>3. QED
    BY <1>1, <1>2, Zenon DEF Init, TypeInv, TypeOK, IdentityKnown

\* The invariant survives each pass of the main loop.
LEMMA TypeLoop ==
    ASSUME TypeInv, Boot \/ CycleEnd \/ Pass
    PROVE  TypeInv'
  <1>1. ClientTyped
    BY DEF TypeInv, TypeOK, ClientTyped
  <1>2. CASE Boot
    BY <1>2 DEF TypeInv, TypeOK, IdentityKnown, Boot, network, client, broker
  <1>3. CASE CycleEnd
    BY <1>3 DEF TypeInv, TypeOK, IdentityKnown, CycleEnd, CycleEnds, network, client, broker
  <1>4. CASE CheckConnected
    BY <1>4 DEF TypeInv, TypeOK, IdentityKnown, CheckConnected, network, client, broker
  <1>5. CASE CheckSession
    BY <1>5 DEF TypeInv, TypeOK, IdentityKnown, CheckSession, network, client, broker
  <1>6. CASE PublishDiscovery
    <2>1. PICK e \in todo : todo' = todo \ {e} /\ PublishQoS1(Config(e, meter_serial))
      BY <1>6 DEF PublishDiscovery
    <2>2. Config(e, meter_serial) \in Message
      BY <1>6, ConfigType DEF TypeInv, TypeOK, IdentityKnown, PublishDiscovery
    <2>3. ClientTyped'
      BY <1>1, <2>1, <2>2, QoS1Typed
    <2>4. QED
      BY <1>6, <2>1, <2>3
         DEF TypeInv, TypeOK, IdentityKnown, ClientTyped, PublishDiscovery, network, broker
  <1>7. CASE MarkDiscovered
    BY <1>7 DEF TypeInv, TypeOK, IdentityKnown, MarkDiscovered, network, client, broker
  <1>8. CASE PublishState
    <2>1. State(cycle) \in Message
      BY DEF TypeInv, TypeOK, State, Message, States
    <2>2. ClientTyped'
      <3>1. CASE loaded
        BY <1>1, <1>8, <2>1, <3>1, QoS0Typed DEF PublishState
      <3>2. CASE ~loaded
        BY <1>1, <1>8, <3>2 DEF PublishState, client, ClientTyped
      <3>3. QED BY <3>1, <3>2
    <2>3. QED
      BY <1>8, <2>2 DEF TypeInv, TypeOK, IdentityKnown, ClientTyped, PublishState, network, broker
  <1>9. QED
    BY <1>2, <1>3, <1>4, <1>5, <1>6, <1>7, <1>8 DEF Pass

LEMMA TypeHandlers ==
    ASSUME TypeInv, Handlers
    PROVE  TypeInv'
  <1>1. ClientTyped
    BY DEF TypeInv, TypeOK, ClientTyped
  <1>2. CASE OnConnected
    BY <1>2 DEF TypeInv, TypeOK, IdentityKnown, OnConnected, device, client, broker
  <1>3. CASE PublishOnline
    <2>1. Online \in Message
      BY DEF Message
    <2>2. ClientTyped'
      BY <1>1, <1>3, <2>1, QoS1Typed DEF PublishOnline
    <2>3. QED
      BY <1>3, <2>2
         DEF TypeInv, TypeOK, IdentityKnown, ClientTyped, PublishOnline, device, broker
  <1>4. CASE OnDisconnected
    BY <1>4 DEF TypeInv, TypeOK, IdentityKnown, OnDisconnected, device, client, broker
  <1>5. CASE OnWifiDisconnected
    BY <1>5 DEF TypeInv, TypeOK, IdentityKnown, OnWifiDisconnected, device, client, broker
  <1>6. QED
    BY <1>2, <1>3, <1>4, <1>5 DEF Handlers

\* Taking a message off the wire leaves a well-formed client and broker.
LEMMA TypeDeliver ==
    ASSUME TypeInv, NEW acked \in BOOLEAN, Deliver(acked), faults' \in Nat
    PROVE  TypeInv'
  <1> DEFINE m == Head(wire)
  <1>1. m \in Message /\ wire' \in Seq(Message) /\ Len(wire') = Len(wire) - 1
    BY DEF TypeInv, TypeOK, Deliver
  <1>2. retained' \subseteq Configs
    BY <1>1, MessageKinds DEF TypeInv, TypeOK, Deliver
  <1>3. seen' \in Nat
    BY <1>1, MessageKinds DEF TypeInv, TypeOK, Deliver
  <1>4. outbox' \subseteq Message /\ status' \in {"none", "online", "offline"}
    BY DEF TypeInv, TypeOK, Deliver
  <1>5. Len(wire') <= WireCap
    BY <1>1, PublisherAssumption DEF TypeInv, TypeOK
  <1>6. QED
    BY <1>1, <1>2, <1>3, <1>4, <1>5
       DEF TypeInv, TypeOK, IdentityKnown, Deliver, device, network

LEMMA TypeEnvironment ==
    ASSUME TypeInv, Environment
    PROVE  TypeInv'
  <1> USE DEF TypeInv, TypeOK, IdentityKnown
  <1>1. CASE Connect
    <2>1. <<>> \in Seq(Message) /\ Len(<<>>) <= WireCap
      BY PublisherAssumption
    <2>2. QED
      BY <1>1, <2>1 DEF Connect, device
  <1>2. CASE SessionLost
    <2>1. <<>> \in Seq(Message) /\ Len(<<>>) <= WireCap
      BY PublisherAssumption
    <2>2. faults' \in Nat
      BY <1>2 DEF SessionLost, Fault
    <2>3. QED
      BY <1>2, <2>1, <2>2 DEF SessionLost, device, broker
  <1>3. CASE Resend
    <2>1. PICK m \in outbox : wire' = Append(wire, m)
      BY <1>3 DEF Resend
    <2>2. wire' \in Seq(Message) /\ Len(wire') <= WireCap
      BY <1>3, <2>1, PublisherAssumption DEF Resend
    <2>3. QED
      BY <1>3, <2>2 DEF Resend, device, network, broker
  <1>4. CASE OutboxExpire
    BY <1>4 DEF OutboxExpire, device, network, broker
  <1>5. CASE Acknowledge
    BY <1>5, TypeDeliver DEF Acknowledge
  <1>6. CASE AcknowledgeLost
    <2>1. faults' \in Nat
      BY <1>6 DEF AcknowledgeLost, Fault
    <2>2. Deliver(FALSE)
      BY <1>6 DEF AcknowledgeLost
    <2>3. QED
      BY <2>1, <2>2, TypeDeliver
  <1>7. CASE BrokerDropsSession
    <2>1. faults' \in Nat
      BY <1>7 DEF BrokerDropsSession, Fault
    <2>2. QED
      BY <1>7, <2>1 DEF BrokerDropsSession, device, network, client
  <1>8. CASE BrokerRestart
    BY <1>8 DEF BrokerRestart, Fault, device, network, client
  <1>9. CASE WifiDrop \/ WifiRetryFails \/ WifiRestored
    BY <1>9 DEF WifiDrop, WifiRetryFails, WifiRestored, Fault, device, network, client, broker
  <1>10. CASE Reboot
    <2>1. <<>> \in Seq(Message) /\ Len(<<>>) <= WireCap
      BY PublisherAssumption
    <2>2. faults' \in Nat /\ 0 \in Nat
      BY <1>10 DEF Reboot, Fault
    <2>3. wire' \in Seq(Message) /\ Len(wire') <= WireCap
      BY <1>10, <2>1 DEF Reboot
    <2>4. /\ UNCHANGED <<cycle, conns, peer, retained, status, seen>>
          /\ discovery_session' = 0 /\ session_id' = 0 /\ tcp' = 0
      BY <1>10 DEF Reboot, broker
    <2>5. QED
      BY <1>10, <2>2, <2>3, <2>4, Zenon DEF Reboot
  <1>11. QED
    BY <1>1, <1>2, <1>3, <1>4, <1>5, <1>6, <1>7, <1>8, <1>9, <1>10 DEF Environment

LEMMA TypeStep == TypeInv /\ [Next]_vars => TypeInv'
  <1> SUFFICES ASSUME TypeInv, [Next]_vars PROVE TypeInv'
    OBVIOUS
  <1>1. CASE Boot \/ CycleEnd \/ Pass
    BY <1>1, TypeLoop
  <1>2. CASE Handlers
    BY <1>2, TypeHandlers
  <1>3. CASE Environment
    BY <1>3, TypeEnvironment
  <1>4. CASE UNCHANGED vars
    BY <1>4 DEF vars, device, network, client, broker, TypeInv, TypeOK, IdentityKnown
  <1>5. QED
    BY <1>1, <1>2, <1>3, <1>4 DEF Next

LEMMA TypeInvariant == Spec => []TypeInv
  BY TypeInit, TypeStep, PTL DEF Spec

\* Every reachable state is well-formed, whatever the passes, the handlers and
\* the faults did; in particular the socket is never overfilled.
THEOREM TypeCorrect == Spec => []TypeOK
  <1>1. TypeInv => TypeOK
    BY DEF TypeInv
  <1>2. QED
    BY <1>1, TypeInvariant, PTL

-----------------------------------------------------------------------------
(* The claim of discovery_session.  The loop, the handlers and the          *)
(* environment are taken in turn; DiscoveryInv is inductive relative to     *)
(* TypeInv as long as the client does not reconnect in the middle of a      *)
(* pass.                                                                    *)

\* What the broker holds or will be sent never shrinks while a connection is
\* alive, and a step that leaves the pass and the sessions alone keeps the
\* invariant.
LEMMA DiscoveryMonotone ==
    ASSUME DiscoveryInv,
           UNCHANGED <<pc, meter_serial, todo, discovery_session, session_id>>,
           Live' => Live /\ retained \cup outbox \subseteq retained' \cup outbox',
           handler' = "connected" <=> handler = "connected"
    PROVE  DiscoveryInv'
  BY DEF DiscoveryInv, DiscoveryClaim, Announced, Config

LEMMA DiscoveryLoop ==
    ASSUME TypeInv, DiscoveryInv, Boot \/ CycleEnd \/ Pass
    PROVE  DiscoveryInv'
  <1> USE DEF DiscoveryInv, DiscoveryClaim, Announced, Live
  <1>1. CASE Boot
    BY <1>1 DEF Boot, network, client, broker
  <1>2. CASE CycleEnd
    BY <1>2, PublisherAssumption DEF CycleEnd, CycleEnds, network, client, broker
  <1>3. CASE CheckConnected
    BY <1>3 DEF CheckConnected, network, client, broker
  <1>4. CASE CheckSession
    BY <1>4 DEF CheckSession, network, client, broker
  <1>5. CASE PublishDiscovery
    <2>1. PICK e \in todo : todo' = todo \ {e} /\ PublishQoS1(Config(e, meter_serial))
      BY <1>5 DEF PublishDiscovery
    <2>2. /\ outbox' = outbox \cup {Config(e, meter_serial)}
          /\ UNCHANGED <<tcp, peer, retained, handler, session_id, discovery_session,
                         pc, meter_serial>>
          /\ pc = "announce" /\ handler = "idle"
      BY <1>5, <2>1 DEF PublishDiscovery, PublishQoS1, LockFree, network, broker
    <2>3. QED
      BY <2>1, <2>2
  <1>6. CASE MarkDiscovered
    <2>1. pc = "announce" /\ pc' = "state" /\ todo = {} /\ meter_serial # NoSerial
      BY <1>6, PublisherAssumption DEF MarkDiscovered, TypeInv, IdentityKnown
    <2>2. /\ discovery_session' = session_id
          /\ UNCHANGED <<session_id, handler, tcp, peer, retained, outbox, meter_serial>>
      BY <1>6 DEF MarkDiscovered, network, client, broker
    <2>3. DiscoveryClaim'
      BY <2>1, <2>2
    <2>4. discovery_session' <= session_id'
      BY <2>2 DEF TypeInv, TypeOK
    <2>5. QED
      BY <2>1, <2>2, <2>3, <2>4
  <1>7. CASE PublishState
    <2>1. /\ pc = "state" /\ pc' = "idle"
          /\ UNCHANGED <<session_id, discovery_session, handler, tcp, peer, retained,
                         outbox, meter_serial>>
      BY <1>7 DEF PublishState, PublishQoS0, network, client, broker
    <2>2. QED
      BY <2>1
  <1>8. QED
    BY <1>1, <1>2, <1>3, <1>4, <1>5, <1>6, <1>7 DEF Pass

LEMMA DiscoveryHandlers ==
    ASSUME TypeInv, DiscoveryInv, Handlers
    PROVE  DiscoveryInv'
  <1>1. CASE OnConnected
    <2>1. /\ handler = "connected" /\ session_id' = session_id + 1
          /\ UNCHANGED <<pc, meter_serial, todo, discovery_session, tcp, peer,
                         retained, outbox>>
      BY <1>1 DEF OnConnected, device, client, broker
    <2>2. discovery_session' # session_id' /\ discovery_session' <= session_id'
      BY <2>1 DEF DiscoveryInv, TypeInv, TypeOK
    <2>3. DiscoveryClaim'
      BY <2>2 DEF DiscoveryClaim
    <2>4. QED
      BY <2>1, <2>2, <2>3 DEF DiscoveryInv, TypeInv, TypeOK
  <1>2. CASE PublishOnline
    BY <1>2, DiscoveryMonotone DEF PublishOnline, PublishQoS1, Live, device, broker
  <1>3. CASE OnDisconnected
    BY <1>3, DiscoveryMonotone DEF OnDisconnected, Live, device, client, broker
  <1>4. CASE OnWifiDisconnected
    BY <1>4, DiscoveryMonotone DEF OnWifiDisconnected, Live, device, client, broker
  <1>5. QED
    BY <1>1, <1>2, <1>3, <1>4 DEF Handlers

\* A message taken off the wire moves from the outbox into what is retained.
LEMMA DiscoveryDeliver ==
    ASSUME TypeInv, DiscoveryInv, NEW acked \in BOOLEAN, Deliver(acked)
    PROVE  DiscoveryInv'
  <1> DEFINE m == Head(wire)
  <1>1. /\ UNCHANGED <<pc, meter_serial, todo, discovery_session, session_id, handler, tcp, peer>>
        /\ retained' = IF m.kind = "config" THEN retained \cup {m} ELSE retained
        /\ outbox \subseteq outbox' \cup {m}
    BY DEF Deliver, device, network
  <1> HIDE DEF m
  <1>2. \A e \in Entities : Config(e, meter_serial) \in retained \cup outbox
          => Config(e, meter_serial) \in retained' \cup outbox'
    <2> TAKE e \in Entities
    <2>1. Config(e, meter_serial).kind = "config"
      BY DEF Config
    <2>2. QED
      BY <1>1, <2>1
  <1>3. QED
    BY <1>1, <1>2 DEF DiscoveryInv, DiscoveryClaim, Announced, Live, Config

LEMMA DiscoveryEnvironment ==
    ASSUME ~ReconnectDuringPass, TypeInv, DiscoveryInv, Environment
    PROVE  DiscoveryInv'
  <1>1. CASE Connect
    <2>1. /\ pc = "idle" /\ handler' = "connected"
          /\ UNCHANGED <<pc, meter_serial, discovery_session, session_id>>
      BY <1>1 DEF Connect, device
    <2>2. QED
      BY <2>1 DEF DiscoveryInv, DiscoveryClaim
  <1>2. CASE SessionLost
    BY <1>2, DiscoveryMonotone DEF SessionLost, LockFree, Live, device
  <1>3. CASE Resend
    BY <1>3, DiscoveryMonotone DEF Resend, Live, device, network, broker
  <1>4. CASE OutboxExpire
    BY <1>4, DiscoveryMonotone DEF OutboxExpire, Live, device, network, broker
  <1>5. CASE Acknowledge
    BY <1>5, DiscoveryDeliver DEF Acknowledge
  <1>6. CASE AcknowledgeLost
    BY <1>6, DiscoveryDeliver DEF AcknowledgeLost
  <1>7. CASE BrokerDropsSession
    BY <1>7, DiscoveryMonotone DEF BrokerDropsSession, Live, device, network, client
  <1>8. CASE BrokerRestart
    BY <1>8, DiscoveryMonotone DEF BrokerRestart, Live, device, network, client
  <1>9. CASE WifiDrop \/ WifiRetryFails \/ WifiRestored
    BY <1>9, DiscoveryMonotone
       DEF WifiDrop, WifiRetryFails, WifiRestored, Live, device, network, client, broker
  <1>10. CASE Reboot
    BY <1>10 DEF Reboot, DiscoveryInv, DiscoveryClaim, Live
  <1>11. QED
    BY <1>1, <1>2, <1>3, <1>4, <1>5, <1>6, <1>7, <1>8, <1>9, <1>10 DEF Environment

LEMMA DiscoveryStep ==
    ASSUME ~ReconnectDuringPass
    PROVE  TypeInv /\ DiscoveryInv /\ [Next]_vars => DiscoveryInv'
  <1> SUFFICES ASSUME TypeInv, DiscoveryInv, [Next]_vars PROVE DiscoveryInv'
    OBVIOUS
  <1>1. CASE Boot \/ CycleEnd \/ Pass
    BY <1>1, DiscoveryLoop
  <1>2. CASE Handlers
    BY <1>2, DiscoveryHandlers
  <1>3. CASE Environment
    BY <1>3, DiscoveryEnvironment
  <1>4. CASE UNCHANGED vars
    BY <1>4, DiscoveryMonotone DEF vars, Live, device, network, client, broker
  <1>5. QED
    BY <1>1, <1>2, <1>3, <1>4 DEF Next

\* The claim the loop makes when it records a session as announced is true of
\* the broker for as long as that session lives, for any number of entities
\* and any faults, provided a pass is over before the client reconnects.
THEOREM DiscoveryClaimed ==
    ASSUME ~ReconnectDuringPass
    PROVE  Spec => []DiscoveryClaim
  <1>1. Init => DiscoveryInv
    BY DEF Init, DiscoveryInv, DiscoveryClaim, Live
  <1>2. DiscoveryInv => DiscoveryClaim
    BY DEF DiscoveryInv
  <1>3. TypeInv /\ DiscoveryInv /\ [Next]_vars => DiscoveryInv'
    BY DiscoveryStep
  <1>4. QED
    BY <1>1, <1>2, <1>3, TypeInvariant, PTL DEF Spec

-----------------------------------------------------------------------------
(* Availability.                                                            *)

\* The broker never shows the device online without serving a connection of
\* it: whatever ended the last one also published the will.
THEOREM Availability == Spec => []OnlineHasSession
  <1>1. Init => OnlineHasSession
    BY DEF Init, OnlineHasSession
  <1>2. TypeInv /\ OnlineHasSession /\ [Next]_vars => OnlineHasSession'
    <2> SUFFICES ASSUME TypeInv, OnlineHasSession, [Next]_vars
                 PROVE  OnlineHasSession'
      OBVIOUS
    <2> USE DEF OnlineHasSession
    <2>1. CASE Boot \/ CycleEnd \/ Pass
      BY <2>1 DEF Boot, CycleEnd, CycleEnds, Pass, CheckConnected, CheckSession,
                  PublishDiscovery, MarkDiscovered, PublishState, broker
    <2>2. CASE Handlers
      BY <2>2 DEF Handlers, OnConnected, PublishOnline, OnDisconnected,
                  OnWifiDisconnected, broker
    <2>3. CASE Connect
      BY <2>3 DEF Connect, TypeInv, TypeOK
    <2>4. CASE Acknowledge \/ AcknowledgeLost
      BY <2>4 DEF Acknowledge, AcknowledgeLost, Deliver, Live
    <2>5. CASE BrokerDropsSession \/ BrokerRestart
      BY <2>5 DEF BrokerDropsSession, BrokerRestart
    <2>6. CASE SessionLost \/ Resend \/ OutboxExpire \/ WifiDrop \/ WifiRetryFails
               \/ WifiRestored \/ Reboot
      BY <2>6 DEF SessionLost, Resend, OutboxExpire, WifiDrop, WifiRetryFails,
                  WifiRestored, Reboot, broker
    <2>7. CASE UNCHANGED vars
      BY <2>7 DEF vars, broker
    <2>8. QED
      BY <2>1, <2>2, <2>3, <2>4, <2>5, <2>6, <2>7 DEF Next, Environment
  <1>3. QED
    BY <1>1, <1>2, TypeInvariant, PTL DEF Spec

-----------------------------------------------------------------------------
(* Nothing before the meter is known.                                       *)

\* Until the serial has been decoded only "online" is ever sent, through any
\* number of sessions, retries, restarts and cycles without an identity.
THEOREM AnonymousSilence == Spec => []NothingBeforeIdentity
  <1>1. Init => NothingBeforeIdentity
    BY DEF Init, NothingBeforeIdentity
  <1>2. TypeInv /\ NothingBeforeIdentity /\ [Next]_vars => NothingBeforeIdentity'
    <2> SUFFICES ASSUME TypeInv, NothingBeforeIdentity, [Next]_vars, meter_serial' = NoSerial
                 PROVE  NothingBeforeIdentity'
      BY DEF NothingBeforeIdentity
    <2> USE PublisherAssumption DEF NothingBeforeIdentity
    <2>1. CASE Boot \/ CycleEnd
      BY <2>1 DEF Boot, CycleEnd, CycleEnds, client
    <2>2. CASE Pass
      <3>1. pc \notin {"announce", "state"}
        BY <2>2 DEF Pass, CheckConnected, CheckSession, PublishDiscovery, MarkDiscovered,
                    PublishState, TypeInv, IdentityKnown
      <3>2. QED
        BY <2>2, <3>1 DEF Pass, CheckConnected, CheckSession, PublishDiscovery,
                          MarkDiscovered, PublishState, client
    <2>3. CASE PublishOnline
      BY <2>3 DEF PublishOnline, PublishQoS1, device, TypeInv, TypeOK
    <2>4. CASE OnConnected \/ OnDisconnected \/ OnWifiDisconnected
      BY <2>4 DEF OnConnected, OnDisconnected, OnWifiDisconnected, device, client
    <2>5. CASE Resend
      BY <2>5 DEF Resend, device, TypeInv, TypeOK
    <2>6. CASE Acknowledge \/ AcknowledgeLost
      <3>1. /\ wire \in Seq(Message) /\ wire # <<>> /\ wire' = Tail(wire)
            /\ outbox' \subseteq outbox /\ meter_serial' = meter_serial
        BY <2>6 DEF Acknowledge, AcknowledgeLost, Deliver, device, TypeInv, TypeOK
      <3>2. \A i \in 1..Len(wire') : i + 1 \in 1..Len(wire) /\ wire'[i] = wire[i + 1]
        BY <3>1
      <3>3. QED
        BY <3>1, <3>2
    <2>7. CASE Connect \/ SessionLost \/ Reboot
      BY <2>7 DEF Connect, SessionLost, Reboot, device
    <2>8. CASE OutboxExpire
      BY <2>8 DEF OutboxExpire, device
    <2>9. CASE BrokerDropsSession \/ BrokerRestart \/ WifiDrop \/ WifiRetryFails \/ WifiRestored
      BY <2>9 DEF BrokerDropsSession, BrokerRestart, WifiDrop, WifiRetryFails, WifiRestored,
                  device, client
    <2>10. CASE UNCHANGED vars
      BY <2>10 DEF vars, device, client
    <2>11. QED
      BY <2>1, <2>2, <2>3, <2>4, <2>5, <2>6, <2>7, <2>8, <2>9, <2>10
         DEF Next, Handlers, Environment
  <1>3. QED
    BY <1>1, <1>2, TypeInvariant, PTL DEF Spec

-----------------------------------------------------------------------------
(* Freshness.  Why it is inductive: a set is newer than everything the      *)
(* device has sent as long as it may still be sent, and the outbox, which   *)
(* is where messages come from a second time, holds no set.                 *)

FreshInv ==
    /\ StatesFresh
    /\ outbox \subseteq Configs \cup {Online}
    /\ cycle <= MaxCycles /\ seen <= cycle
    /\ \A i \in StatesOnWire : wire[i].cycle <= cycle
    /\ Pending => Newer(cycle, seen) /\ \A i \in StatesOnWire : Newer(cycle, wire[i].cycle)

LEMMA FreshInit == Init => FreshInv
  BY PublisherAssumption DEF Init, FreshInv, StatesFresh, StatesOnWire, Pending

\* A step that neither takes a cycle nor sends or delivers a set keeps it.
LEMMA FreshQuiet ==
    ASSUME TypeInv, FreshInv,
           outbox' \subseteq Configs \cup {Online},
           UNCHANGED <<cycle, seen>>, Pending' => Pending,
           \/ wire' = wire \/ wire' = <<>>
           \/ \E m \in Configs \cup {Online} : wire' = Append(wire, m)
    PROVE  FreshInv'
  <1> USE PublisherAssumption
  <1>1. CASE wire' = wire
    BY <1>1 DEF FreshInv, StatesFresh, StatesOnWire, Newer
  <1>2. CASE wire' = <<>>
    BY <1>2 DEF FreshInv, StatesFresh, StatesOnWire, Newer
  <1>3. ASSUME NEW m \in Configs \cup {Online}, wire' = Append(wire, m) PROVE FreshInv'
    <2>1. m.kind # "state"
      BY DEF Configs, Online
    <2>2. wire \in Seq(Message)
      BY DEF TypeInv, TypeOK
    <2>3. /\ StatesOnWire' = StatesOnWire
          /\ \A i \in StatesOnWire : wire'[i] = wire[i]
      BY <1>3, <2>1, <2>2 DEF StatesOnWire
    <2>4. QED
      BY <2>3 DEF FreshInv, StatesFresh, Newer
  <1>4. QED
    BY <1>1, <1>2, <1>3

\* The end of a cycle numbers a set newer than all that were sent.
LEMMA FreshCycle ==
    ASSUME TypeInv, FreshInv, CycleEnd
    PROVE  FreshInv'
  <1> USE PublisherAssumption
  <1>1. cycle' = (IF cycle < MaxCycles THEN cycle + 1 ELSE cycle) /\ UNCHANGED <<client, broker>>
    BY DEF CycleEnd, CycleEnds
  <1>2. cycle \in Nat /\ seen \in Nat /\ \A i \in StatesOnWire : wire[i].cycle \in Nat
    BY MessageKinds DEF TypeInv, TypeOK, StatesOnWire
  <1>3. \A c \in Nat : c <= cycle => c <= cycle' /\ Newer(cycle', c)
    BY <1>1, <1>2 DEF FreshInv, Newer
  <1>4. cycle' <= MaxCycles
    BY <1>1, <1>2 DEF FreshInv
  <1>5. StatesOnWire' = StatesOnWire /\ UNCHANGED <<wire, seen, outbox>>
    BY <1>1 DEF client, broker, StatesOnWire
  <1>6. StatesFresh'
    BY <1>5 DEF FreshInv, StatesFresh, Newer
  <1>7. \A i \in StatesOnWire' : wire'[i].cycle <= cycle' /\ Newer(cycle, wire[i].cycle)'
    BY <1>2, <1>3, <1>5 DEF FreshInv, Newer
  <1>8. seen' <= cycle' /\ Newer(cycle, seen)'
    BY <1>2, <1>3, <1>5 DEF FreshInv, Newer
  <1>9. QED
    BY <1>4, <1>5, <1>6, <1>7, <1>8 DEF FreshInv

\* The set is sent once: it is not pending any more.
LEMMA FreshSend ==
    ASSUME TypeInv, FreshInv, PublishState
    PROVE  FreshInv'
  <1> USE PublisherAssumption
  <1>1. ~Pending' /\ UNCHANGED <<cycle, seen, outbox>>
    BY DEF PublishState, PublishQoS0, Pending, client, broker
  <1>2. CASE wire' = wire \/ wire' = <<>>
    BY <1>1, <1>2, FreshQuiet DEF FreshInv
  <1>3. CASE loaded /\ wire' = Append(wire, State(cycle))
    <2>1. wire \in Seq(Message) /\ Pending
      BY <1>3 DEF TypeInv, TypeOK, PublishState, Pending
    <2>2. Len(wire') = Len(wire) + 1 /\ wire'[Len(wire) + 1] = State(cycle)
      BY <1>3, <2>1
    <2>3. \A i \in 1..Len(wire) : wire'[i] = wire[i]
      BY <1>3, <2>1
    <2>4. StatesOnWire' = StatesOnWire \cup {Len(wire) + 1}
      BY <2>1, <2>2, <2>3 DEF StatesOnWire, State
    <2>5. State(cycle).cycle = cycle /\ cycle <= cycle
      BY DEF State, TypeInv, TypeOK
    <2>6. \A i \in StatesOnWire : i < Len(wire) + 1 /\ i \in 1..Len(wire)
      BY <2>1 DEF StatesOnWire
    <2>7. StatesFresh'
      BY <1>1, <2>1, <2>2, <2>3, <2>4, <2>5, <2>6 DEF FreshInv, StatesFresh, Newer
    <2>8. \A i \in StatesOnWire' : wire'[i].cycle <= cycle'
      BY <1>1, <2>2, <2>3, <2>4, <2>5, <2>6 DEF FreshInv
    <2>9. QED
      BY <1>1, <2>7, <2>8 DEF FreshInv
  <1>4. QED
    BY <1>2, <1>3 DEF PublishState, PublishQoS0, client

\* What the broker takes was the oldest set under way.
LEMMA FreshDeliver ==
    ASSUME TypeInv, FreshInv, NEW acked \in BOOLEAN, Deliver(acked)
    PROVE  FreshInv'
  <1>1. wire \in Seq(Message) /\ wire # <<>> /\ wire' = Tail(wire) /\ UNCHANGED <<cycle, pc, loaded>>
    BY DEF TypeInv, TypeOK, Deliver, device
  <1>2. seen' = IF wire[1].kind = "state" THEN wire[1].cycle ELSE seen
    BY <1>1 DEF Deliver
  <1>3. \A i \in StatesOnWire' : i + 1 \in StatesOnWire /\ wire'[i] = wire[i + 1] /\ 1 < i + 1
    BY <1>1 DEF StatesOnWire
  <1>4. wire[1].kind = "state" => 1 \in StatesOnWire
    BY <1>1 DEF StatesOnWire
  <1>5. \A i, j \in StatesOnWire' : i < j => i + 1 < j + 1
    BY <1>1 DEF StatesOnWire
  <1>6. StatesFresh'
    BY <1>2, <1>3, <1>4, <1>5 DEF FreshInv, StatesFresh, Newer
  <1>7. /\ cycle' <= MaxCycles /\ seen' <= cycle'
        /\ \A i \in StatesOnWire' : wire'[i].cycle <= cycle'
        /\ outbox' \subseteq Configs \cup {Online}
    BY <1>1, <1>2, <1>3, <1>4 DEF FreshInv, Deliver
  <1>8. Pending' => Newer(cycle, seen)' /\ \A i \in StatesOnWire' : Newer(cycle, wire[i].cycle)'
    BY <1>1, <1>2, <1>3, <1>4 DEF FreshInv, Pending, Newer
  <1>9. QED
    BY <1>6, <1>7, <1>8 DEF FreshInv

LEMMA FreshStep == TypeInv /\ FreshInv /\ [Next]_vars => FreshInv'
  <1> SUFFICES ASSUME TypeInv, FreshInv, [Next]_vars PROVE FreshInv'
    OBVIOUS
  <1>0. outbox \subseteq Configs \cup {Online}
    BY DEF FreshInv
  <1>1. CASE Boot \/ CheckConnected \/ CheckSession \/ MarkDiscovered
    BY <1>0, <1>1, FreshQuiet DEF Boot, CheckConnected, CheckSession, MarkDiscovered, Pending,
                                  client, broker
  <1>2. CASE CycleEnd
    BY <1>2, FreshCycle
  <1>3. CASE PublishDiscovery
    <2>1. PICK e \in todo : PublishQoS1(Config(e, meter_serial))
      BY <1>3 DEF PublishDiscovery
    <2>2. Config(e, meter_serial) \in Configs
      BY <1>3, ConfigType DEF TypeInv, TypeOK, IdentityKnown, PublishDiscovery
    <2>3. QED
      BY <1>0, <1>3, <2>1, <2>2, FreshQuiet DEF PublishDiscovery, PublishQoS1, Pending, broker
  <1>4. CASE PublishState
    BY <1>4, FreshSend
  <1>5. CASE Handlers
    BY <1>0, <1>5, FreshQuiet DEF Handlers, OnConnected, PublishOnline, OnDisconnected,
                                  OnWifiDisconnected, PublishQoS1, Pending, device, client, broker
  <1>6. CASE Acknowledge \/ AcknowledgeLost
    BY <1>6, FreshDeliver DEF Acknowledge, AcknowledgeLost
  <1>7. CASE Resend
    BY <1>0, <1>7, FreshQuiet DEF Resend, Pending, device, broker
  <1>8. CASE Connect \/ SessionLost \/ OutboxExpire \/ Reboot
    BY <1>0, <1>8, FreshQuiet DEF Connect, SessionLost, OutboxExpire, Reboot, Pending, device, broker
  <1>9. CASE BrokerDropsSession \/ BrokerRestart \/ WifiDrop \/ WifiRetryFails \/ WifiRestored
    BY <1>0, <1>9, FreshQuiet DEF BrokerDropsSession, BrokerRestart, WifiDrop, WifiRetryFails,
                                  WifiRestored, Pending, device, client, broker
  <1>10. CASE UNCHANGED vars
    BY <1>0, <1>10, FreshQuiet DEF vars, Pending, device, client, broker
  <1>11. QED
    BY <1>1, <1>2, <1>3, <1>4, <1>5, <1>6, <1>7, <1>8, <1>9, <1>10 DEF Next, Pass, Environment

\* Whatever is lost, resent or expires, measurements reach the broker in order,
\* none twice, and none behind a newer one.
THEOREM Freshness == Spec => []StatesFresh
  <1>1. FreshInv => StatesFresh
    BY DEF FreshInv
  <1>2. QED
    BY <1>1, FreshInit, FreshStep, TypeInvariant, PTL DEF Spec
-----------------------------------------------------------------------------
(* The sets among the messages.  Step reads one message; prefix by prefix   *)
(* it yields the cycle numbers of the sets.                                 *)

Step(w) == [p \in Nat \X Seq(Nat) |->
              IF p[1] \in 1..Len(w) /\ w[p[1]].kind = "state"
                THEN Append(p[2], w[p[1]].cycle) ELSE p[2]]

Prefixes(w) ==
    CHOOSE sets : sets =
      [i \in 0..Len(w) |->
         IF i = 0 THEN <<>>
         ELSE IF w[i].kind = "state" THEN Append(sets[i - 1], w[i].cycle) ELSE sets[i - 1]]

LEMMA CyclesInPrefixes == \A w : CyclesIn(w) = Prefixes(w)[Len(w)]
  BY DEF CyclesIn, Prefixes

LEMMA StepType ==
    ASSUME NEW w \in Seq(Message)
    PROVE  Step(w) \in [Nat \X Seq(Nat) -> Seq(Nat)]
  <1>1. \A p \in Nat \X Seq(Nat) : p[1] \in 1..Len(w) /\ w[p[1]].kind = "state"
           => w[p[1]].cycle \in Nat
    BY MessageKinds
  <1>2. \A p \in Nat \X Seq(Nat) :
           (IF p[1] \in 1..Len(w) /\ w[p[1]].kind = "state"
              THEN Append(p[2], w[p[1]].cycle) ELSE p[2]) \in Seq(Nat)
    BY <1>1
  <1>3. QED
    BY <1>2 DEF Step

LEMMA StepReads ==
    ASSUME NEW w \in Seq(Message), NEW i \in 1..Len(w), NEW c \in Seq(Nat)
    PROVE  Step(w)[<<i, c>>] = IF w[i].kind = "state" THEN Append(c, w[i].cycle) ELSE c
  <1>1. <<i, c>> \in Nat \X Seq(Nat) /\ <<i, c>>[1] = i /\ <<i, c>>[2] = c
    OBVIOUS
  <1>2. QED
    BY <1>1 DEF Step

\* The recursion has a solution, so the chosen one satisfies it.
LEMMA PrefixesSolve ==
    ASSUME NEW w \in Seq(Message)
    PROVE  Prefixes(w) =
             [i \in 0..Len(w) |->
                IF i = 0 THEN <<>>
                ELSE IF w[i].kind = "state" THEN Append(Prefixes(w)[i - 1], w[i].cycle)
                ELSE Prefixes(w)[i - 1]]
  <1> DEFINE Read(g) == [i \in 0..Len(w) |->
                           IF i = 0 THEN <<>>
                           ELSE IF w[i].kind = "state" THEN Append(g[i - 1], w[i].cycle)
                           ELSE g[i - 1]]
  <1>1. Len(w) \in Nat /\ <<>> \in Seq(Nat) /\ Step(w) \in [Nat \X Seq(Nat) -> Seq(Nat)]
    BY StepType
  <1>2. \E g : Solves(g, Seq(Nat), <<>>, Step(w), Len(w))
    BY <1>1, Recursion, Zenon
  <1>3. PICK g \in [0..Len(w) -> Seq(Nat)] :
          g[0] = <<>> /\ \A i \in 1..Len(w) : g[i] = Step(w)[<<i, g[i - 1]>>]
    BY <1>2 DEF Solves
  <1>4. ASSUME NEW i \in 1..Len(w)
        PROVE  g[i] = IF w[i].kind = "state" THEN Append(g[i - 1], w[i].cycle) ELSE g[i - 1]
    <2>1. i - 1 \in 0..Len(w)
      BY <1>1
    <2>2. g[i - 1] \in Seq(Nat)
      BY <2>1
    <2>3. g[i] = Step(w)[<<i, g[i - 1]>>]
      BY <1>3
    <2>4. QED
      BY <2>2, <2>3, StepReads
  <1>5. \A i \in 0..Len(w) : i = 0 \/ i \in 1..Len(w)
    BY <1>1
  <1>6. g = Read(g)
    BY <1>3, <1>4, <1>5
  <1>7. QED
    BY <1>6 DEF Prefixes

LEMMA PrefixesStart ==
    ASSUME NEW w \in Seq(Message)
    PROVE  Prefixes(w)[0] = <<>>
  <1>1. 0 \in 0..Len(w)
    OBVIOUS
  <1>2. QED
    BY <1>1, PrefixesSolve

LEMMA PrefixesGrow ==
    ASSUME NEW w \in Seq(Message), NEW i \in 1..Len(w)
    PROVE  Prefixes(w)[i] = IF w[i].kind = "state" THEN Append(Prefixes(w)[i - 1], w[i].cycle)
                            ELSE Prefixes(w)[i - 1]
  <1>1. i \in 0..Len(w) /\ i # 0
    OBVIOUS
  <1>2. QED
    BY <1>1, PrefixesSolve

LEMMA PrefixesType ==
    ASSUME NEW w \in Seq(Message)
    PROVE  \A n \in 0..Len(w) : Prefixes(w)[n] \in Seq(Nat)
  <1> DEFINE S == {n \in Nat : n <= Len(w) => Prefixes(w)[n] \in Seq(Nat)}
  <1>1. 0 \in S
    <2>1. Prefixes(w)[0] = <<>> /\ <<>> \in Seq(Nat)
      BY PrefixesStart
    <2>2. QED
      BY <2>1
  <1>2. ASSUME NEW n \in Nat, n \in S PROVE n + 1 \in S
    <2> SUFFICES ASSUME n + 1 <= Len(w) PROVE Prefixes(w)[n + 1] \in Seq(Nat)
      OBVIOUS
    <2>1. n + 1 \in 1..Len(w) /\ (n + 1) - 1 = n /\ Prefixes(w)[n] \in Seq(Nat)
      BY <1>2
    <2>2. w[n + 1].kind = "state" => w[n + 1].cycle \in Nat
      BY <2>1, MessageKinds
    <2>3. Prefixes(w)[n + 1] = IF w[n + 1].kind = "state"
                               THEN Append(Prefixes(w)[n], w[n + 1].cycle) ELSE Prefixes(w)[n]
      <3> DEFINE m == n + 1
      <3>1. m \in 1..Len(w) /\ m - 1 = n
        BY <2>1
      <3> HIDE DEF m
      <3>2. Prefixes(w)[m] = IF w[m].kind = "state"
                             THEN Append(Prefixes(w)[m - 1], w[m].cycle) ELSE Prefixes(w)[m - 1]
        BY <3>1, PrefixesGrow
      <3>3. QED
        BY <3>1, <3>2 DEF m
    <2>4. QED
      BY <2>1, <2>2, <2>3
  <1>3. Nat \subseteq S
    <2> HIDE DEF S
    <2>1. QED
      BY <1>1, <1>2, Induction
  <1>4. QED
    BY <1>3

LEMMA CyclesType ==
    ASSUME NEW w \in Seq(Message)
    PROVE  CyclesIn(w) \in Seq(Nat)
  <1>1. Len(w) \in 0..Len(w)
    OBVIOUS
  <1>2. QED
    BY <1>1, PrefixesType, CyclesInPrefixes

LEMMA CyclesEmpty == CyclesIn(<<>>) = <<>>
  <1>1. <<>> \in Seq(Message) /\ Len(<<>>) = 0
    OBVIOUS
  <1>2. Prefixes(<<>>)[0] = <<>>
    BY <1>1, PrefixesStart
  <1>3. CyclesIn(<<>>) = Prefixes(<<>>)[Len(<<>>)]
    BY CyclesInPrefixes, Zenon
  <1>4. QED
    BY <1>1, <1>2, <1>3

\* A message that is sent last comes last.
LEMMA CyclesAppend ==
    ASSUME NEW w \in Seq(Message), NEW m \in Message
    PROVE  CyclesIn(Append(w, m)) =
             IF m.kind = "state" THEN Append(CyclesIn(w), m.cycle) ELSE CyclesIn(w)
  <1> DEFINE u == Append(w, m)
             S == {n \in Nat : n <= Len(w) => Prefixes(u)[n] = Prefixes(w)[n]}
  <1>1. /\ u \in Seq(Message) /\ Len(u) = Len(w) + 1 /\ u[Len(w) + 1] = m /\ Len(w) \in Nat
        /\ \A i \in 1..Len(w) : u[i] = w[i]
    OBVIOUS
  <1> HIDE DEF u
  <1>2. 0 \in S
    <2>1. Prefixes(u)[0] = <<>> /\ Prefixes(w)[0] = <<>>
      BY <1>1, PrefixesStart
    <2>2. QED
      BY <2>1
  <1>3. ASSUME NEW n \in Nat, n \in S PROVE n + 1 \in S
    <2> SUFFICES ASSUME n + 1 <= Len(w) PROVE Prefixes(u)[n + 1] = Prefixes(w)[n + 1]
      OBVIOUS
    <2> DEFINE k == n + 1
    <2>1. k \in 1..Len(w) /\ k \in 1..Len(u) /\ k - 1 = n /\ Prefixes(u)[n] = Prefixes(w)[n]
      BY <1>1, <1>3
    <2> HIDE DEF k
    <2>2. Prefixes(u)[k] = IF u[k].kind = "state" THEN Append(Prefixes(u)[k - 1], u[k].cycle)
                           ELSE Prefixes(u)[k - 1]
      BY <1>1, <2>1, PrefixesGrow
    <2>3. Prefixes(w)[k] = IF w[k].kind = "state" THEN Append(Prefixes(w)[k - 1], w[k].cycle)
                           ELSE Prefixes(w)[k - 1]
      BY <1>1, <2>1, PrefixesGrow
    <2>4. Prefixes(u)[k] = Prefixes(w)[k]
      BY <1>1, <2>1, <2>2, <2>3
    <2>5. QED
      BY <2>4 DEF k
  <1>4. Nat \subseteq S
    <2> HIDE DEF S
    <2>1. QED
      BY <1>2, <1>3, Induction
  <1>5. Prefixes(u)[Len(w)] = Prefixes(w)[Len(w)]
    BY <1>1, <1>4
  <1>6. Prefixes(u)[Len(u)] = IF m.kind = "state" THEN Append(Prefixes(u)[Len(w)], m.cycle)
                              ELSE Prefixes(u)[Len(w)]
    <2> DEFINE k == Len(u)
    <2>1. k \in 1..Len(u) /\ k - 1 = Len(w) /\ u[k] = m
      BY <1>1
    <2> HIDE DEF k
    <2>2. Prefixes(u)[k] = IF u[k].kind = "state" THEN Append(Prefixes(u)[k - 1], u[k].cycle)
                           ELSE Prefixes(u)[k - 1]
      BY <1>1, <2>1, PrefixesGrow
    <2>3. QED
      BY <2>1, <2>2 DEF k
  <1>7. QED
    BY <1>5, <1>6, CyclesInPrefixes DEF u

LEMMA Appended ==
    ASSUME NEW s \in Seq(Nat), NEW r \in Seq(Nat), NEW c \in Nat
    PROVE  s \o Append(r, c) = Append(s \o r, c)
  OBVIOUS

\* A message that is delivered came first.
LEMMA CyclesTail ==
    ASSUME NEW w \in Seq(Message), w # <<>>
    PROVE  CyclesIn(w) = (IF w[1].kind = "state" THEN <<w[1].cycle>> ELSE <<>>) \o CyclesIn(Tail(w))
  <1> DEFINE t == Tail(w)
             first == IF w[1].kind = "state" THEN <<w[1].cycle>> ELSE <<>>
             S == {n \in Nat : n <= Len(t) => Prefixes(w)[n + 1] = first \o Prefixes(t)[n]}
  <1>1. /\ t \in Seq(Message) /\ Len(w) = Len(t) + 1 /\ Len(t) \in Nat
        /\ \A i \in 1..Len(t) : t[i] = w[i + 1]
    OBVIOUS
  <1>2. w[1] \in Message /\ 1 \in 1..Len(w) /\ first \in Seq(Nat)
    <2>1. w[1] \in Message /\ 1 \in 1..Len(w)
      BY <1>1
    <2>2. w[1].kind = "state" => w[1].cycle \in Nat
      BY <2>1, MessageKinds
    <2>3. QED
      BY <2>1, <2>2
  <1> HIDE DEF t, first
  <1>3. 0 \in S
    <2>1. Prefixes(w)[0] = <<>> /\ Prefixes(t)[0] = <<>>
      BY <1>1, PrefixesStart
    <2>2. Prefixes(w)[1] = IF w[1].kind = "state" THEN Append(Prefixes(w)[1 - 1], w[1].cycle)
                           ELSE Prefixes(w)[1 - 1]
      BY <1>2, PrefixesGrow
    <2>3. Prefixes(w)[1] = first
      <3>1. 1 - 1 = 0 /\ \A c : Append(<<>>, c) = <<c>>
        OBVIOUS
      <3>2. QED
        BY <2>1, <2>2, <3>1, Zenon DEF first
    <2>4. first \o <<>> = first
      BY <1>2
    <2>5. 0 + 1 = 1
      OBVIOUS
    <2>6. QED
      BY <2>1, <2>3, <2>4, <2>5
  <1>4. ASSUME NEW n \in Nat, n \in S PROVE n + 1 \in S
    <2> SUFFICES ASSUME n + 1 <= Len(t)
                 PROVE  Prefixes(w)[(n + 1) + 1] = first \o Prefixes(t)[n + 1]
      OBVIOUS
    <2> DEFINE k == n + 1
    <2>1. /\ k \in 1..Len(t) /\ k + 1 \in 1..Len(w) /\ k - 1 = n /\ (k + 1) - 1 = k /\ n \in 0..Len(t)
          /\ t[k] = w[k + 1]
      BY <1>1
    <2>2. Prefixes(w)[k] = first \o Prefixes(t)[n]
      BY <1>4, <2>1
    <2> HIDE DEF k
    <2>3. Prefixes(w)[k + 1] = IF w[k + 1].kind = "state"
                               THEN Append(Prefixes(w)[k], w[k + 1].cycle) ELSE Prefixes(w)[k]
      <3> DEFINE j == k + 1
      <3>1. j \in 1..Len(w) /\ j - 1 = k
        BY <2>1
      <3> HIDE DEF j
      <3>2. Prefixes(w)[j] = IF w[j].kind = "state"
                             THEN Append(Prefixes(w)[j - 1], w[j].cycle) ELSE Prefixes(w)[j - 1]
        BY <1>1, <3>1, PrefixesGrow
      <3>3. QED
        BY <3>1, <3>2 DEF j
    <2>4. Prefixes(t)[k] = IF t[k].kind = "state"
                           THEN Append(Prefixes(t)[k - 1], t[k].cycle) ELSE Prefixes(t)[k - 1]
      BY <1>1, <2>1, PrefixesGrow
    <2>5. Prefixes(t)[n] \in Seq(Nat) /\ (t[k].kind = "state" => t[k].cycle \in Nat)
      <3>1. t[k] \in Message
        BY <1>1, <2>1
      <3>2. Prefixes(t)[n] \in Seq(Nat)
        BY <1>1, <2>1, PrefixesType
      <3>3. QED
        BY <3>1, <3>2, MessageKinds
    <2>6. Prefixes(w)[k + 1] = first \o Prefixes(t)[k]
      <3>1. CASE t[k].kind = "state"
        <4>1. first \o Append(Prefixes(t)[n], t[k].cycle)
                = Append(first \o Prefixes(t)[n], t[k].cycle)
          BY <1>2, <2>5, <3>1, Appended, Zenon
        <4>2. QED
          BY <2>1, <2>2, <2>3, <2>4, <3>1, <4>1
      <3>2. CASE t[k].kind # "state"
        BY <2>1, <2>2, <2>3, <2>4, <3>2
      <3>3. QED
        BY <3>1, <3>2
    <2>7. QED
      BY <2>6 DEF k
  <1>5. Nat \subseteq S
    <2> HIDE DEF S
    <2>1. QED
      BY <1>3, <1>4, Induction
  <1>6. Prefixes(w)[Len(w)] = first \o Prefixes(t)[Len(t)]
    <2>1. Len(t) \in S /\ Len(t) + 1 = Len(w)
      BY <1>1, <1>5
    <2>2. QED
      BY <1>1, <2>1
  <1>7. CyclesIn(w) = first \o CyclesIn(t)
    BY <1>6, CyclesInPrefixes, Zenon
  <1>8. QED
    BY <1>7 DEF t, first

-----------------------------------------------------------------------------
(* The promise of the feed.  Every step of the publisher is a step of       *)
(* MeasurementFeed, or none.                                                *)

LEMMA InFlightIs == InFlight = CyclesIn(wire) /\ InFlight' = CyclesIn(wire')
  BY DEF InFlight, CyclesIn

\* Sending or resending anything but a set leaves the sets on their way alone.
LEMMA FeedUntouched ==
    ASSUME TypeInv, UNCHANGED <<cycle, seen>>, Pending' = Pending,
           \/ wire' = wire
           \/ \E m \in Configs \cup {Online} : wire' = Append(wire, m)
    PROVE  UNCHANGED Feed!vars
  <1>1. InFlight' = InFlight
    <2>1. CASE wire' = wire
      BY <2>1, InFlightIs
    <2>2. ASSUME NEW m \in Configs \cup {Online}, wire' = Append(wire, m)
          PROVE  InFlight' = InFlight
      <3>1. m \in Message /\ m.kind # "state" /\ wire \in Seq(Message)
        BY DEF TypeInv, TypeOK, Message, Configs, Online
      <3>2. CyclesIn(Append(wire, m)) = CyclesIn(wire)
        BY <3>1, CyclesAppend
      <3>3. QED
        BY <2>2, <3>2, InFlightIs
    <2>3. QED
      BY <2>1, <2>2
  <1>2. QED
    BY <1>1 DEF Feed!vars

\* A connection that ends takes the sets on it along.
LEMMA FeedLost ==
    ASSUME UNCHANGED <<cycle, seen>>, wire' = <<>>, Pending' \in {Pending, FALSE}
    PROVE  Feed!Lose
  BY CyclesEmpty, InFlightIs DEF Feed!Lose

LEMMA FeedPublishes ==
    ASSUME TypeInv, PublishState
    PROVE  [Feed!Next]_(Feed!vars)
  <1>1. pc = "state" /\ ~Pending' /\ UNCHANGED <<cycle, seen>>
    BY DEF PublishState, Pending, broker
  <1>2. CASE loaded /\ tcp # 0
    <2>1. wire' = Append(wire, State(cycle)) /\ Pending
      BY <1>1, <1>2 DEF PublishState, PublishQoS0, Pending
    <2>2. State(cycle) \in Message /\ State(cycle).kind = "state" /\ State(cycle).cycle = cycle
      BY DEF State, Message, States, TypeInv, TypeOK
    <2>3. wire \in Seq(Message)
      BY DEF TypeInv, TypeOK
    <2>4. CyclesIn(Append(wire, State(cycle))) = Append(CyclesIn(wire), cycle)
      BY <2>2, <2>3, CyclesAppend
    <2>5. InFlight' = Append(InFlight, cycle)
      BY <2>1, <2>4, InFlightIs
    <2>6. Feed!Send
      BY <1>1, <2>1, <2>5 DEF Feed!Send
    <2>7. QED
      BY <2>6 DEF Feed!Next
  <1>3. CASE loaded /\ tcp = 0
    <2>1. wire' = wire /\ Pending
      BY <1>1, <1>3 DEF PublishState, PublishQoS0, Pending
    <2>2. Feed!Drop
      BY <1>1, <2>1, InFlightIs DEF Feed!Drop
    <2>3. QED
      BY <2>2 DEF Feed!Next
  <1>4. CASE ~loaded
    <2>1. wire' = wire /\ Pending' = Pending
      BY <1>1, <1>4 DEF PublishState, client, Pending
    <2>2. QED
      BY <1>1, <2>1, FeedUntouched
  <1>5. QED
    BY <1>2, <1>3, <1>4

LEMMA FeedDelivers ==
    ASSUME TypeInv, NEW acked \in BOOLEAN, Deliver(acked)
    PROVE  [Feed!Next]_(Feed!vars)
  <1>1. /\ wire \in Seq(Message) /\ wire # <<>> /\ wire' = Tail(wire) /\ wire[1] \in Message
        /\ seen' = (IF wire[1].kind = "state" THEN wire[1].cycle ELSE seen)
        /\ UNCHANGED <<cycle, pc, loaded>>
    BY DEF TypeInv, TypeOK, Deliver, device
  <1>2. Pending' = Pending
    BY <1>1 DEF Pending
  <1>3. CyclesIn(wire) = (IF wire[1].kind = "state" THEN <<wire[1].cycle>> ELSE <<>>) \o CyclesIn(wire')
    BY <1>1, CyclesTail
  <1>4. CyclesIn(wire') \in Seq(Nat)
    <2>1. wire' \in Seq(Message)
      BY <1>1
    <2>2. QED
      BY <2>1, CyclesType
  <1>5. CASE wire[1].kind = "state"
    <2> DEFINE c == wire[1].cycle
               rest == CyclesIn(wire')
    <2>1. c \in Nat /\ rest \in Seq(Nat)
      BY <1>1, <1>4, <1>5, MessageKinds
    <2>2. InFlight = <<c>> \o rest /\ InFlight' = rest /\ seen' = c
      BY <1>1, <1>3, <1>5, InFlightIs
    <2> HIDE DEF c, rest
    <2>3. <<c>> \o rest # <<>> /\ Head(<<c>> \o rest) = c /\ Tail(<<c>> \o rest) = rest
      BY <2>1
    <2>4. Feed!Arrive
      BY <1>1, <1>2, <2>2, <2>3 DEF Feed!Arrive
    <2>5. QED
      BY <2>4 DEF Feed!Next
  <1>6. CASE wire[1].kind # "state"
    <2>1. InFlight' = InFlight
      BY <1>3, <1>4, <1>6, InFlightIs
    <2>2. QED
      BY <1>1, <1>2, <1>6, <2>1 DEF Feed!vars
  <1>7. QED
    BY <1>5, <1>6

LEMMA FeedStep ==
    ASSUME TypeInv, FreshInv, [Next]_vars
    PROVE  [Feed!Next]_(Feed!vars)
  <1>1. CASE Boot \/ CheckSession \/ MarkDiscovered
    BY <1>1, FeedUntouched DEF Boot, CheckSession, MarkDiscovered, Pending, client, broker
  <1>2. CASE CycleEnd
    <2>1. /\ ~Pending /\ Pending' \in BOOLEAN /\ UNCHANGED <<wire, seen>>
          /\ cycle' = IF cycle < MaxCycles THEN cycle + 1 ELSE cycle
      BY <1>2 DEF CycleEnd, CycleEnds, Pending, client, broker
    <2>2. Feed!Decode
      BY <2>1, InFlightIs DEF Feed!Decode
    <2>3. QED
      BY <2>2 DEF Feed!Next
  <1>3. CASE CheckConnected
    <2>1. UNCHANGED <<cycle, seen, wire>> /\ Pending' \in {Pending, FALSE}
      BY <1>3 DEF CheckConnected, Pending, client, broker
    <2>2. CASE Pending' = Pending
      BY <2>1, <2>2, FeedUntouched
    <2>3. CASE Pending' # Pending
      <3>1. Pending /\ Pending' = FALSE
        BY <2>1, <2>3 DEF Pending
      <3>2. Feed!Drop
        BY <2>1, <3>1, InFlightIs DEF Feed!Drop
      <3>3. QED
        BY <3>2 DEF Feed!Next
    <2>4. QED
      BY <2>2, <2>3
  <1>4. CASE PublishDiscovery
    <2>1. PICK e \in todo : PublishQoS1(Config(e, meter_serial))
      BY <1>4 DEF PublishDiscovery
    <2>2. Config(e, meter_serial) \in Configs
      BY <1>4, ConfigType DEF TypeInv, TypeOK, IdentityKnown, PublishDiscovery
    <2>3. QED
      BY <1>4, <2>1, <2>2, FeedUntouched DEF PublishDiscovery, PublishQoS1, Pending, broker
  <1>5. CASE PublishState
    BY <1>5, FeedPublishes
  <1>6. CASE Handlers
    BY <1>6, FeedUntouched DEF Handlers, OnConnected, PublishOnline, OnDisconnected,
                               OnWifiDisconnected, PublishQoS1, Pending, device, client, broker
  <1>7. CASE Acknowledge \/ AcknowledgeLost
    BY <1>7, FeedDelivers DEF Acknowledge, AcknowledgeLost
  <1>8. CASE Resend
    BY <1>8, FeedUntouched DEF Resend, FreshInv, Pending, device, broker
  <1>9. CASE Connect \/ SessionLost \/ Reboot
    <2>1. UNCHANGED <<cycle, seen>> /\ wire' = <<>>
      BY <1>9 DEF Connect, SessionLost, Reboot, device, broker
    <2>2. UNCHANGED <<pc, loaded>> \/ (loaded' = FALSE /\ pc' = "boot")
      BY <1>9 DEF Connect, SessionLost, Reboot, device
    <2>3. Pending' = Pending \/ Pending' = FALSE
      BY <2>2 DEF Pending
    <2>4. QED
      BY <2>1, <2>3, FeedLost DEF Feed!Next
  <1>10. CASE OutboxExpire \/ BrokerDropsSession \/ BrokerRestart \/ WifiDrop \/ WifiRetryFails
              \/ WifiRestored
    BY <1>10, FeedUntouched DEF OutboxExpire, BrokerDropsSession, BrokerRestart, WifiDrop,
                                WifiRetryFails, WifiRestored, Pending, device, client, broker
  <1>11. CASE UNCHANGED vars
    BY <1>11, FeedUntouched DEF vars, Pending, device, client, broker
  <1>12. QED
    BY <1>1, <1>2, <1>3, <1>4, <1>5, <1>6, <1>7, <1>8, <1>9, <1>10, <1>11
       DEF Next, Pass, Environment

LEMMA FeedInit == Init => Feed!Init
  <1> SUFFICES ASSUME Init PROVE Feed!Init
    OBVIOUS
  <1>1. wire = <<>> /\ InFlight = <<>>
    BY CyclesEmpty, InFlightIs DEF Init
  <1>2. QED
    BY <1>1 DEF Init, Pending, Feed!Init

\* The device with its passes, sessions, outbox and faults implements the feed:
\* a set is offered at most once, while it is the newest, and arrives in order
\* or is lost with the connection, whatever else is on the wire.
THEOREM FeedKept == Spec => FeedKeepsPromise
  <1>1. TypeInv /\ FreshInv /\ [Next]_vars => [Feed!Next]_(Feed!vars)
    BY FeedStep
  <1>2. QED
    BY <1>1, FeedInit, FreshInit, FreshStep, TypeInvariant, PTL
       DEF Spec, FeedKeepsPromise, Feed!Spec
=============================================================================
