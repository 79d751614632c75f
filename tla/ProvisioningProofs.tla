--------------------------- MODULE ProvisioningProofs ---------------------------
(***************************************************************************)
(* Proofs about Provisioning, for any set of forms and any number of       *)
(* faults.  Everything rests on one inductive invariant, TypeOK together   *)
(* with ProvisioningInv.                                                   *)
(***************************************************************************)
EXTENDS Provisioning, TLAPS

Inv == TypeOK /\ ProvisioningInv

(* The order of the keys, one by one: the provers need it spelled out.      *)
LEMMA KeyOrder ==
    /\ Len(Order) = 4
    /\ Order[1] = "ssid" /\ Order[2] = "pass" /\ Order[3] = "broker" /\ Order[4] = "host"
  BY DEF Order

\* What people enter is four texts, and "no form" is none of them.
LEMMA FormTypes == Forms \subseteq [Keys -> Text] /\ Absent \notin Forms
  BY ProvisioningAssumption DEF Forms

(* Nothing is cut off a form that is accepted: the fields that arrived whole  *)
(* are within their limits, one after the other, and the body has room for    *)
(* four fields at their limits.                                               *)
LEMMA AcceptedWhole ==
  ASSUME NEW f \in [Keys -> Text], Accepted(f), NEW k \in Keys
  PROVE  Value(f, k) = f[k]
<1> DEFINE n(j) == Sent(f[j])
<1>1. \A j \in Keys : n(j) \in Nat
  BY DEF Sent, Text
<1>2. \A j \in Keys : ~(Got(f, j) > Cap[j])
  BY DEF Accepted, TooLong
<1>3. Cap["ssid"] = 32 /\ Cap["pass"] = 63 /\ Cap["broker"] = 127 /\ Cap["host"] = 32
  BY DEF Cap
<1>4. /\ Start(f)["ssid"] = 5
      /\ Start(f)["pass"] = n("ssid") + 11
      /\ Start(f)["broker"] = n("ssid") + n("pass") + 19
      /\ Start(f)["host"] = n("ssid") + n("pass") + n("broker") + 25
  BY <1>1 DEF Start, Keys
<1> HIDE DEF n
<1>5. \A j \in Keys : Got(f, j) = IF Start(f)[j] > 511 THEN 0
                                ELSE IF n(j) < 511 - Start(f)[j] THEN n(j) ELSE 511 - Start(f)[j]
  BY DEF Got, Smaller, BodyMax, n
<1>6. n("ssid") <= 32 /\ Got(f, "ssid") = n("ssid")
  BY <1>1, <1>2, <1>3, <1>4, <1>5 DEF Keys
<1>7. n("pass") <= 63 /\ Got(f, "pass") = n("pass")
  BY <1>1, <1>2, <1>3, <1>4, <1>5, <1>6 DEF Keys
<1>8. n("broker") <= 127 /\ Got(f, "broker") = n("broker")
  BY <1>1, <1>2, <1>3, <1>4, <1>5, <1>6, <1>7 DEF Keys
<1>9. n("host") <= 32 /\ Got(f, "host") = n("host")
  BY <1>1, <1>2, <1>3, <1>4, <1>5, <1>6, <1>7, <1>8 DEF Keys
<1>10. Got(f, k) = n(k) /\ n(k) <= Cap[k]
  BY <1>3, <1>6, <1>7, <1>8, <1>9 DEF Keys
<1>11. Smaller(Got(f, k), Cap[k]) = Sent(f[k])
  BY <1>1, <1>3, <1>10 DEF Smaller, n, Keys
<1> QED
  BY <1>11 DEF Value

LEMMA InitInv == Init => Inv
<1> SUFFICES ASSUME Init PROVE Inv
  OBVIOUS
<1> USE ProvisioningAssumption, FormTypes DEF Init
<1>1. TypeOK
  <2>1. stored \in Record
    BY DEF Record, Empty
  <2>2. written \in 0..Len(Order) /\ faults \in Nat
    BY KeyOrder
  <2> QED
    BY <2>1, <2>2, Zenon DEF TypeOK
<1>2. ~Usable(stored) /\ stored["broker"] = Absent /\ pc # "raising"
  BY DEF Usable, Empty, Keys
<1>3. CutSafe /\ AnsweredIsStored
  BY <1>2 DEF CutSafe, AnsweredIsStored
<1>4. \A i \in 1..written : stored[Order[i]] = saving
  OBVIOUS
<1> QED
  BY <1>1, <1>2, <1>3, <1>4 DEF Inv, ProvisioningInv

LEMMA StepInv == Inv /\ [Next]_vars => Inv'
<1> SUFFICES ASSUME Inv, [Next]_vars PROVE Inv'
  OBVIOUS
<1> USE ProvisioningAssumption, FormTypes, KeyOrder
<1> USE DEF Inv, TypeOK, ProvisioningInv, CutSafe, AnsweredIsStored, ServerUp, past
<1>1. CASE Boot
  BY <1>1 DEF Boot, Configured, Usable, Keys
<1>2. CASE PortalEnds
  BY <1>2 DEF PortalEnds
<1>3. CASE StopAndRestart
  <2>1. written' = 0 /\ written' \in 0..Len(Order) /\ \A i \in 1..written' : FALSE
    BY <1>3 DEF StopAndRestart, Reset
  <2>2. TypeOK'
    BY <1>3, <2>1, Zenon DEF StopAndRestart, Reset
  <2>3. ProvisioningInv'
    BY <1>3, <2>1, Zenon DEF StopAndRestart, Reset
  <2> QED
    BY <2>2, <2>3 DEF Inv
<1>4. CASE PowerCut
  <2>1. written' = 0 /\ written' \in 0..Len(Order) /\ (\A i \in 1..written' : FALSE) /\ faults' \in Nat
    BY <1>4 DEF PowerCut, Reset, Fault
  <2>2. TypeOK'
    BY <1>4, <2>1, Zenon DEF PowerCut, Reset
  <2>3. ProvisioningInv'
    BY <1>4, <2>1, Zenon DEF PowerCut, Reset
  <2> QED
    BY <2>2, <2>3 DEF Inv
<1>5. CASE StorageErased
  <2>1. ~Usable(stored') /\ stored'["broker"] = Absent
    BY <1>5 DEF StorageErased, Usable, Empty, Keys
  <2>2. stored' \in Record /\ faults' \in Nat
    BY <1>5 DEF StorageErased, Fault, Record, Empty
  <2>3. ~ServerUp /\ pc' = pc /\ saving = Absent /\ ~submitted
    BY <1>5 DEF StorageErased
  <2>4. \A i \in 1..written : FALSE
    BY <2>3
  <2> QED
    BY <1>5, <2>1, <2>2, <2>3, <2>4 DEF StorageErased
<1>6. ASSUME NEW f \in Forms, Submit(f) PROVE Inv'
  BY <1>6 DEF Submit
<1>7. CASE WriteKey
  <2>1. written' = written + 1 /\ written' \in 1..4 /\ saving \in Forms
    BY <1>7 DEF WriteKey
  <2>2. stored' = [stored EXCEPT ![Order[written']] = saving] /\ Order[written'] \in Keys
    BY <1>7, <2>1 DEF WriteKey, Keys
  <2>3. stored' \in Record
    BY <2>1, <2>2 DEF Record
  <2>4. UNCHANGED <<pc, submitted, saving, past, faults>>
    BY <1>7 DEF WriteKey
  <2>5. \A i \in 1..written' : stored'[Order[i]] = saving
    BY <2>1, <2>2 DEF Record, Keys
  <2>6. CutSafe'
    <3>1. CASE written' <= 2
      <4> SUFFICES ASSUME ~failed, ~resubmitted, Usable(stored') PROVE FALSE
        BY <2>4
      <4>1. stored["broker"] # Absent
        BY <2>1, <2>2, <3>1 DEF Usable, Record, Keys
      <4>2. ~submitted /\ ServerUp /\ written <= 2
        BY <2>1, <3>1
      <4> QED
        BY <4>1, <4>2, <2>1
    <3>2. CASE written' >= 3
      BY <2>1, <2>5, <3>2 DEF Coherent
    <3> QED
      BY <2>1, <3>1, <3>2
  <2>7. stored'["broker"] # Absent => stored["broker"] # Absent \/ written' = 3
    BY <2>1, <2>2 DEF Record, Keys
  <2>8. stored'["broker"] # Absent => Usable(stored')
    <3>1. CASE written' >= 3
      BY <2>1, <2>5, <3>1 DEF Usable
    <3>2. CASE written' < 3
      <4>1. stored["ssid"] # Absent => stored'["ssid"] # Absent
        BY <2>1, <2>2 DEF Record, Keys
      <4> QED
        BY <2>7, <3>2, <4>1 DEF Usable
    <3> QED
      BY <2>1, <3>1, <3>2
  <2>9. ~failed /\ ServerUp /\ ~submitted /\ Usable(stored') => written' >= 3
    BY <2>1, <2>7 DEF Usable
  <2> QED
    BY <2>1, <2>3, <2>4, <2>5, <2>6, <2>8, <2>9
<1>8. CASE SaveFails
  BY <1>8 DEF SaveFails, Fault
<1>9. CASE SaveDone
  BY <1>9 DEF SaveDone, Keys
<1>10. CASE UNCHANGED vars
  BY <1>10 DEF vars
<1>11. CASE RaisePortal
  <2>1. ~Usable(stored) /\ saving = Absent /\ ~submitted
    BY <1>11 DEF RaisePortal
  <2>2. answered # Absent => resubmitted
    BY <2>1 DEF Usable, Keys
  <2> QED
    BY <1>11, <2>1, <2>2 DEF RaisePortal
<1>12. CASE RaiseFails
  <2>1. written' = 0 /\ written' \in 0..Len(Order) /\ (\A i \in 1..written' : FALSE) /\ faults' \in Nat
    BY <1>12 DEF RaiseFails, Reset, Fault
  <2>2. TypeOK'
    BY <1>12, <2>1, Zenon DEF RaiseFails, Reset
  <2>3. ProvisioningInv'
    BY <1>12, <2>1, Zenon DEF RaiseFails, Reset
  <2> QED
    BY <2>2, <2>3 DEF Inv
<1> QED
  BY <1>1, <1>2, <1>3, <1>4, <1>5, <1>6, <1>7, <1>8, <1>9, <1>10, <1>11, <1>12
     DEF Next, Main, Operates, Save, Faulty, People, Refuse

\* Every reachable state is well typed; in particular a save is under way only
\* while the server is up, and no key after the last one is written.
THEOREM TypeCorrect == Spec => []TypeOK
<1>1. Inv => TypeOK
  BY DEF Inv
<1> QED
  BY InitInv, StepInv, <1>1, PTL DEF Spec

\* However many power cuts there are, a usable record has the network settings
\* of one submission, until a write fails half way or a second form is accepted
\* after the first was answered.
THEOREM RecordsCoherent == Spec => []CutSafe
<1>1. Inv => CutSafe
  BY DEF Inv, ProvisioningInv
<1> QED
  BY InitInv, StepInv, <1>1, PTL DEF Spec

\* What was answered "Saved" stays stored, through failing writes, timeouts and
\* power cuts, until a start erases the partition, or a second form is accepted.
THEOREM AnswersKept == Spec => []AnsweredIsStored
<1>1. Inv => AnsweredIsStored
  BY DEF Inv, ProvisioningInv
<1> QED
  BY InitInv, StepInv, <1>1, PTL DEF Spec

\* The four values written are the ones entered, octet for octet: a form of any
\* length is refused before one of its values is shortened.
THEOREM FormsKept == Spec => []FormKept
<1>1. Inv => FormKept
  BY AcceptedWhole, ProvisioningAssumption DEF Inv, TypeOK, FormKept, Forms
<1> QED
  BY InitInv, StepInv, <1>1, PTL DEF Spec
=============================================================================
