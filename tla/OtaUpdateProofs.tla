---------------------------- MODULE OtaUpdateProofs ----------------------------
(***************************************************************************)
(* Proofs about OtaUpdate, for any images and any number of download       *)
(* tasks, with or without rollback.  Everything rests on one inductive     *)
(* invariant, TypeOK together with OtaInv.                                 *)
(***************************************************************************)
EXTENDS OtaUpdate, TLAPS

Inv == TypeOK /\ OtaInv

LEMMA TwoSlots ==
    \A s \in Slots : Other(s) \in Slots /\ Other(s) # s
                     /\ (\A u \in Slots : u = s \/ u = Other(s))
  BY DEF Slots, Other

LEMMA InitInv == Init => Inv
<1> SUFFICES ASSUME Init PROVE Inv
  OBVIOUS
<1> USE OtaAssumption DEF Init
<1>1. TypeOK
  <2>1. proven \in [Slots -> BOOLEAN] /\ starts \in [Slots -> 0..2]
    <3>1. \A s \in Slots : (s = 0) \in BOOLEAN
      OBVIOUS
    <3>2. proven \in [Slots -> BOOLEAN]
      BY <3>1, Zenon
    <3> QED
      BY <3>2
  <2>2. /\ content \in [Slots -> Images \cup {Partial}] /\ selected \in Slots
        /\ state \in [Slots -> {"undefined", "new", "pending", "valid", "aborted"}]
        /\ pending_url \in Images /\ url \in [Tasks -> Images]
    BY DEF Slots, Images
  <2>3. task \in [Tasks -> TaskStates] /\ clash \in [Tasks -> SUBSET Tasks]
        /\ \A t \in Tasks : t \notin clash[t]
    BY DEF Idle, TaskStates
  <2> QED
    BY <2>1, <2>2, <2>3, Zenon DEF TypeOK
<1>2. \A s \in Slots : (proven[s] <=> s = 0) /\ starts[s] = 0 /\ state[s] = "undefined"
  BY Zenon
<1>3. SlotInv
  BY <1>2 DEF SlotInv, Idle, Slots, Other
<1>4. TrialInv
  BY <1>2 DEF TrialInv, UnprovenStartsOnce, Slots
<1>5. AloneInv
  BY DEF AloneInv, UpdatingShownAlone, UpdatingShown, Idle, Slots, Images
<1> QED
  BY <1>1, <1>3, <1>4, <1>5 DEF Inv, OtaInv

-----------------------------------------------------------------------------
(* Types.                                                                   *)

(* The bootloader starts one of the two slots.                              *)
LEMMA BootTypes ==
    TypeOK => /\ Chosen \in Slots /\ BootSlot \in Slots
              /\ BootState \in [Slots -> {"undefined", "new", "pending", "valid", "aborted"}]
  BY TwoSlots DEF TypeOK, Chosen, BootSlot, BootState

LEMMA ResetTypes == TypeOK /\ Reset => TypeOK'
<1> SUFFICES ASSUME TypeOK, Reset PROVE TypeOK'
  OBVIOUS
<1> USE DEF Reset, TypeOK
<1>1. running' \in Slots /\ selected' \in Slots
       /\ state' \in [Slots -> {"undefined", "new", "pending", "valid", "aborted"}]
  BY BootTypes
<1>2. task' \in [Tasks -> TaskStates] /\ clash' \in [Tasks -> SUBSET Tasks]
       /\ (\A t \in Tasks : t \notin clash'[t]) /\ pending_url' \in Images
  BY OtaAssumption DEF Idle, TaskStates, Images
<1>3. starts' \in [Slots -> 0..2]
  BY DEF CountStart
<1> QED
  BY <1>1, <1>2, <1>3, Zenon

LEMMA SessionTypes ==
    TypeOK /\ (\/ Joined \/ BootEnds \/ SessionUp \/ MarkValidOnSession \/ SessionDown
               \/ \E i \in Images : Command(i))
      => TypeOK'
<1> SUFFICES ASSUME TypeOK PROVE (Joined \/ BootEnds => TypeOK')
                                 /\ (SessionUp => TypeOK') /\ (SessionDown => TypeOK')
                                 /\ (MarkValidOnSession => TypeOK')
                                 /\ \A i \in Images : Command(i) => TypeOK'
  OBVIOUS
<1> USE DEF TypeOK, flash, firmware, tasks, history
<1>1. ASSUME SessionUp PROVE TypeOK'
  BY <1>1 DEF SessionUp
<1>2. ASSUME SessionDown PROVE TypeOK'
  BY <1>2 DEF SessionDown
<1>3. ASSUME NEW i \in Images, Command(i) PROVE TypeOK'
  BY <1>3 DEF Command, TaskStates
<1>4. ASSUME Joined \/ BootEnds PROVE TypeOK'
  BY <1>4 DEF Joined, BootEnds
<1>5. ASSUME MarkValidOnSession PROVE TypeOK'
  <2>1. /\ state' \in [Slots -> {"undefined", "new", "pending", "valid", "aborted"}]
        /\ validated' \in BOOLEAN /\ marking' = FALSE
    BY <1>5 DEF MarkValidOnSession
  <2> QED
    BY <1>5, <2>1 DEF MarkValidOnSession
<1> QED
  BY <1>1, <1>2, <1>3, <1>4, <1>5

LEMMA TaskTypes == ASSUME TypeOK, NEW t \in Tasks, DownloadTask(t) PROVE TypeOK'
<1> USE DEF TypeOK, flash, firmware, tasks, history
<1>1. CASE TaskStarts(t)
  BY <1>1 DEF TaskStarts, TaskStates
<1>2. CASE BeginWrite(t)
  BY <1>2, TwoSlots DEF BeginWrite, TaskStates, Writers
<1>3. CASE FinishWrite(t)
  BY <1>3, TwoSlots DEF FinishWrite, TaskStates, Selected
<1>4. CASE TaskFails(t)
  BY <1>4 DEF TaskFails, TaskStates
<1>5. CASE TaskEnds(t)
  BY <1>5 DEF TaskEnds, TaskStates
<1>6. CASE TaskRestarts(t)
  BY <1>6, ResetTypes DEF TaskRestarts
<1> QED
  BY <1>1, <1>2, <1>3, <1>4, <1>5, <1>6 DEF DownloadTask

LEMMA StepTypes == TypeOK /\ [Next]_vars => TypeOK'
<1> SUFFICES ASSUME TypeOK, [Next]_vars PROVE TypeOK'
  OBVIOUS
<1>1. CASE UNCHANGED vars
  BY <1>1 DEF TypeOK, vars, flash, firmware, tasks, history
<1> QED
  BY <1>1, ResetTypes, SessionTypes, TaskTypes DEF Next, PowerCut

-----------------------------------------------------------------------------
(* The slots.                                                               *)

LEMMA SlotInvImpliesGoodImage == TypeOK /\ SlotInv => GoodImageKept
  BY TwoSlots DEF TypeOK, SlotInv, GoodImageKept

(* The bootloader passes over the slot it chose only if that one is not     *)
(* whole, hence unproven; then the one it starts is the proven one.         *)
LEMMA ResetSlots == TypeOK /\ SlotInv /\ Reset => SlotInv'
<1> SUFFICES ASSUME TypeOK, SlotInv, Reset PROVE SlotInv'
  OBVIOUS
<1>1. /\ UNCHANGED <<content, proven>> /\ task' = Idle
      /\ session' = FALSE /\ marking' = FALSE /\ validated' = FALSE
  BY DEF Reset
<1>2. running' = BootSlot /\ selected' = Chosen /\ Chosen \in Slots /\ BootSlot \in Slots
  BY BootTypes DEF Reset
<1>3. \A s \in Slots : proven[s] \/ proven[Other(s)]
  BY TwoSlots DEF TypeOK, SlotInv
<1>4. BootSlot # Chosen => ~proven[Chosen]
  BY <1>2, OtaAssumption DEF BootSlot, SlotInv, Images
<1>5. \A t \in Tasks : task'[t] # "writing"
  BY <1>1 DEF Idle
<1> QED
  <2>1. ~proven[BootSlot] => proven[Other(BootSlot)] /\ Chosen = BootSlot
    BY <1>2, <1>3, <1>4, TwoSlots
  <2>2. Chosen # BootSlot => ~proven[Chosen]
    BY <1>4
  <2> QED
    BY <1>1, <1>2, <1>5, <2>1, <2>2, Zenon DEF SlotInv

LEMMA SessionSlots ==
    ASSUME TypeOK, SlotInv
    PROVE  /\ Joined \/ BootEnds => SlotInv'
           /\ SessionUp => SlotInv'
           /\ MarkValidOnSession => SlotInv'
           /\ SessionDown => SlotInv'
           /\ \A i \in Images : Command(i) => SlotInv'
<1> USE DEF SlotInv, flash, firmware, tasks, history
<1>1. ASSUME SessionUp PROVE SlotInv'
  BY <1>1, TwoSlots DEF SessionUp, TypeOK
<1>2. ASSUME SessionDown PROVE SlotInv'
  BY <1>2 DEF SessionDown
<1>3. ASSUME NEW i \in Images, Command(i) PROVE SlotInv'
  BY <1>3 DEF Command, TypeOK
<1>4. ASSUME Joined \/ BootEnds PROVE SlotInv'
  BY <1>4 DEF Joined, BootEnds
<1>5. ASSUME MarkValidOnSession PROVE SlotInv'
  <2>1. proven[running] /\ UNCHANGED <<content, selected, running, proven, starts, task>>
    BY <1>5 DEF MarkValidOnSession
  <2> QED
    BY <2>1, Zenon
<1> QED
  BY <1>1, <1>2, <1>3, <1>4, <1>5

LEMMA TaskSlots == ASSUME TypeOK, SlotInv, NEW t \in Tasks, DownloadTask(t) PROVE SlotInv'
<1> USE DEF SlotInv, flash, firmware, tasks, history
<1>0. task[t] # "none" => proven[running]
  BY DEF Idle
<1>1. CASE TaskStarts(t)
  BY <1>0, <1>1 DEF TaskStarts, TypeOK
<1>2. CASE BeginWrite(t)
  BY <1>0, <1>2, TwoSlots DEF BeginWrite, TypeOK
<1>3. CASE FinishWrite(t)
  BY <1>0, <1>3, TwoSlots DEF FinishWrite, TypeOK
<1>4. CASE TaskFails(t)
  BY <1>0, <1>4 DEF TaskFails, TypeOK
<1>5. CASE TaskEnds(t)
  BY <1>0, <1>5 DEF TaskEnds, TypeOK
<1>6. CASE TaskRestarts(t)
  BY <1>6, ResetSlots DEF TaskRestarts
<1> QED
  BY <1>1, <1>2, <1>3, <1>4, <1>5, <1>6 DEF DownloadTask

LEMMA StepSlots == TypeOK /\ SlotInv /\ [Next]_vars => SlotInv'
<1> SUFFICES ASSUME TypeOK, SlotInv, [Next]_vars PROVE SlotInv'
  OBVIOUS
<1>1. CASE UNCHANGED vars
  BY <1>1 DEF SlotInv, vars, flash, firmware, tasks, history
<1> QED
  BY <1>1, ResetSlots, SessionSlots, TaskSlots DEF Next, PowerCut

-----------------------------------------------------------------------------
(* The trial of an unproven image.                                          *)

(* A reset starts an unproven image only if it was new; if the image it     *)
(* gives up was pending, the other slot is the proven one.                  *)
LEMMA ResetTrial == TypeOK /\ SlotInv /\ Rollback /\ TrialInv /\ Reset => TrialInv'
<1> SUFFICES ASSUME TypeOK, SlotInv, Rollback, TrialInv, Reset PROVE TrialInv'
  OBVIOUS
<1>1. /\ UNCHANGED proven /\ running' = BootSlot /\ selected' = Chosen
      /\ state' = BootState /\ task' = Idle /\ CountStart
  BY DEF Reset
<1>2. selected \in Slots /\ Chosen \in Slots /\ BootSlot \in Slots /\ running \in Slots
  BY BootTypes DEF TypeOK
<1>3. \A s \in Slots : proven[s] \/ proven[Other(s)]
  BY TwoSlots DEF TypeOK, SlotInv
<1>4. ~proven[BootSlot] => BootSlot = Chosen
  <2>1. BootSlot # Chosen => BootSlot = Other(Chosen) /\ content[Chosen] = Partial
    BY DEF BootSlot
  <2>2. content[Chosen] = Partial => ~proven[Chosen]
    BY <1>2, OtaAssumption DEF SlotInv, Images
  <2> QED
    BY <2>1, <2>2, <1>2, <1>3
<1>5. GivenUp => Chosen = Other(selected) /\ proven[Chosen]
  <2>1. selected = running /\ GivenUp => proven[Other(selected)]
    BY DEF GivenUp, TrialInv
  <2>2. selected # running => ~proven[selected]
    BY DEF SlotInv
  <2> QED
    BY <1>2, <1>3, <2>1, <2>2 DEF Chosen
<1>6. ~GivenUp => Chosen = selected
  BY DEF Chosen
<1>7. ~proven[Chosen] => state[Chosen] = "new" /\ starts[Chosen] = 0
  BY <1>2, <1>5, <1>6 DEF GivenUp, TrialInv
<1>8. \A s \in Slots : state'[s] = IF GivenUp /\ s = selected THEN "aborted"
                                   ELSE IF s = Chosen /\ state[s] = "new" THEN "pending"
                                   ELSE state[s]
  BY <1>1 DEF BootState
<1>9. \A s \in Slots : starts'[s] = IF s = BootSlot /\ ~proven[s] /\ starts[s] < 2
                                     THEN starts[s] + 1 ELSE starts[s]
  BY <1>1 DEF CountStart
<1>10. UnprovenStartsOnce'
  BY <1>1, <1>2, <1>4, <1>7, <1>9 DEF UnprovenStartsOnce, TrialInv
<1>11. \A s \in Slots : state'[s] = "new" => s # Chosen /\ state[s] = "new" /\ ~proven[s]
  BY <1>8 DEF TrialInv
<1>12. \A s \in Slots : state'[s] = "new" => s # BootSlot /\ ~proven[s] /\ starts'[s] = 0
  BY <1>4, <1>9, <1>11 DEF TrialInv
<1>13. \A s \in Slots : state'[s] = "pending" => s = Chosen
  BY <1>2, <1>6, <1>8 DEF TrialInv, GivenUp
<1>14. ~proven[Chosen] => state'[Chosen] \in {"new", "pending"}
  BY <1>2, <1>5, <1>7, <1>8
<1>15. state'[BootSlot] = "pending" => proven[Other(BootSlot)]
  <2>1. ASSUME state'[BootSlot] = "pending" PROVE ~proven[BootSlot]
    <3>1. BootSlot = Chosen /\ ~(GivenUp /\ BootSlot = selected)
      BY <1>2, <1>8, <1>13, <2>1
    <3>2. state[Chosen] = "new" \/ state[Chosen] = "pending"
      BY <1>2, <1>8, <2>1, <3>1
    <3>3. state[Chosen] = "pending" => Chosen = selected /\ GivenUp
      BY <1>2 DEF TrialInv, GivenUp
    <3> QED
      BY <1>2, <3>1, <3>2, <3>3 DEF TrialInv
  <2> QED
    BY <1>2, <1>3, <2>1
<1>16. \A t \in Tasks : task'[t] # "writing"
  BY <1>1 DEF Idle
<1> QED
  BY <1>1, <1>10, <1>12, <1>13, <1>14, <1>15, <1>16, Zenon DEF TrialInv

LEMMA SessionTrial ==
    ASSUME TypeOK, SlotInv, Rollback, TrialInv
    PROVE  /\ Joined \/ BootEnds => TrialInv'
           /\ SessionUp => TrialInv'
           /\ MarkValidOnSession => TrialInv'
           /\ SessionDown => TrialInv'
           /\ \A i \in Images : Command(i) => TrialInv'
<1> USE DEF TrialInv, UnprovenStartsOnce, flash, firmware, tasks, history
<1>1. ASSUME SessionUp PROVE TrialInv'
  <2>1. /\ \A s \in Slots : s # running => proven'[s] = proven[s]
        /\ proven'[running] /\ UNCHANGED <<selected, running, starts, state, task>>
    BY <1>1 DEF SessionUp, TypeOK
  <2>2. running \in Slots /\ selected \in Slots /\ Other(running) \in Slots /\ Other(running) # running
    BY TwoSlots DEF TypeOK
  <2> QED
    BY <2>1, <2>2
<1>2. ASSUME SessionDown PROVE TrialInv'
  BY <1>2 DEF SessionDown
<1>3. ASSUME NEW i \in Images, Command(i) PROVE TrialInv'
  <2>1. UNCHANGED <<selected, state, running, proven, starts>>
    BY <1>3 DEF Command
  <2>2. \A t \in Tasks : task'[t] = "writing" => task[t] = "writing"
    BY <1>3 DEF Command, TypeOK
  <2> QED
    BY <2>1, <2>2, Zenon
<1>4. ASSUME Joined \/ BootEnds PROVE TrialInv'
  BY <1>4 DEF Joined, BootEnds
<1>5. ASSUME MarkValidOnSession PROVE TrialInv'
  <2>1. UNCHANGED <<selected, running, proven, starts, task>> /\ proven[running]
    BY <1>5 DEF MarkValidOnSession, SlotInv
  <2>2. /\ \A s \in Slots : s # running => state'[s] = state[s]
        /\ state'[running] = state[running] \/ state'[running] = "valid"
    BY <1>5 DEF MarkValidOnSession, TypeOK
  <2>3. running \in Slots /\ selected \in Slots
    BY DEF TypeOK
  <2> QED
    BY <2>1, <2>2, <2>3
<1> QED
  BY <1>1, <1>2, <1>3, <1>4, <1>5

LEMMA TaskTrial ==
    ASSUME TypeOK, SlotInv, Rollback, TrialInv, NEW t \in Tasks, DownloadTask(t)
    PROVE  TrialInv'
<1> USE DEF TrialInv, UnprovenStartsOnce, flash, firmware, tasks, history
<1>0. task[t] # "none" => proven[running]
  BY DEF Idle, SlotInv
<1>1. CASE TaskStarts(t) \/ TaskFails(t) \/ TaskEnds(t)
  <2>1. UNCHANGED <<selected, state, running, proven, starts>>
    BY <1>1 DEF TaskStarts, TaskFails, TaskEnds
  <2>2. \A u \in Tasks : task'[u] = "writing" => task[u] = "writing"
    BY <1>1 DEF TaskStarts, TaskFails, TaskEnds, TypeOK
  <2> QED
    BY <2>1, <2>2, Zenon
<1>2. CASE BeginWrite(t)
  <2>1. UNCHANGED <<selected, state, running>> /\ proven[running] /\ state[running] # "pending"
    BY <1>0, <1>2 DEF BeginWrite
  <2>2. ~proven'[Other(running)] /\ starts'[Other(running)] = 0
    BY <1>2, TwoSlots DEF BeginWrite, TypeOK
  <2>3. \A s \in Slots : s # Other(running) => proven'[s] = proven[s] /\ starts'[s] = starts[s]
    BY <1>2 DEF BeginWrite, TypeOK
  <2>4. selected = Other(running) => ~proven[selected]
    BY TwoSlots DEF SlotInv, TypeOK
  <2> QED
    BY <2>1, <2>2, <2>3, <2>4, TwoSlots DEF TypeOK
<1>3. CASE FinishWrite(t)
  <2>1. /\ selected' = Other(running) /\ UNCHANGED <<running, proven, starts>>
        /\ proven[running] /\ ~proven[Other(running)] /\ starts[Other(running)] = 0
        /\ state[running] # "pending"
    BY <1>0, <1>3 DEF FinishWrite, SlotInv
  <2>2. \A s \in Slots : state'[s] = IF s = Other(running) THEN "new" ELSE state[s]
    BY <1>3, TwoSlots DEF FinishWrite, Selected, TypeOK
  <2> QED
    BY <2>1, <2>2, TwoSlots DEF TypeOK
<1>4. CASE TaskRestarts(t)
  BY <1>4, ResetTrial DEF TaskRestarts
<1> QED
  BY <1>1, <1>2, <1>3, <1>4 DEF DownloadTask

LEMMA StepTrial == TypeOK /\ SlotInv /\ Rollback /\ TrialInv /\ [Next]_vars => TrialInv'
<1> SUFFICES ASSUME TypeOK, SlotInv, Rollback, TrialInv, [Next]_vars PROVE TrialInv'
  OBVIOUS
<1>1. CASE UNCHANGED vars
  BY <1>1 DEF TrialInv, UnprovenStartsOnce, vars, flash, firmware, tasks, history
<1> QED
  BY <1>1, ResetTrial, SessionTrial, TaskTrial DEF Next, PowerCut

-----------------------------------------------------------------------------
(* One task at a time.                                                      *)

LEMMA ResetAlone == Inv /\ Reset => AloneInv'
<1> SUFFICES ASSUME Inv, Reset PROVE AloneInv'
  OBVIOUS
<1> USE DEF Inv, OtaInv
<1>1. /\ UNCHANGED <<content, overlapped>> /\ task' = Idle
      /\ running' = BootSlot /\ selected' = Chosen
  BY DEF Reset
<1>2. BootSlot \in Slots /\ Chosen \in Slots /\ selected \in Slots /\ running \in Slots
  BY BootTypes DEF TypeOK
<1>3. \A s \in Slots : content[s] # Partial \/ content[Other(s)] # Partial
  BY <1>2, TwoSlots DEF AloneInv
<1>4. content[BootSlot] # Partial
  BY <1>2, <1>3 DEF BootSlot
<1>5. ASSUME ~overlapped PROVE content[Chosen] # Partial
  <2>1. content[selected] # Partial
    BY <1>5 DEF AloneInv
  <2>2. ASSUME GivenUp PROVE content[Other(selected)] # Partial
    <3>1. CASE selected = running
      <4>1. proven[Other(running)]
        BY <2>2, <3>1 DEF GivenUp, TrialInv
      <4>2. content[Other(running)] \in Good
        BY <4>1, <1>2, TwoSlots DEF SlotInv
      <4> QED
        BY <3>1, <4>2, OtaAssumption DEF Images
    <3>2. CASE selected # running
      BY <1>2, <3>2, TwoSlots DEF AloneInv
    <3> QED
      BY <3>1, <3>2
  <2> QED
    BY <2>1, <2>2 DEF Chosen
<1>6. ~overlapped => BootSlot = Chosen
  BY <1>5 DEF BootSlot
<1>7. \A t \in Tasks : task'[t] = "none"
  BY <1>1 DEF Idle
<1> QED
  BY <1>1, <1>4, <1>6, <1>7 DEF AloneInv, UpdatingShownAlone, UpdatingShown

LEMMA SessionAlone ==
    ASSUME TypeOK, AloneInv
    PROVE  /\ Joined \/ BootEnds => AloneInv'
           /\ SessionUp \/ MarkValidOnSession \/ SessionDown => AloneInv'
           /\ \A i \in Images : Command(i) => AloneInv'
<1> USE DEF AloneInv, UpdatingShownAlone, UpdatingShown, flash, firmware, tasks, history
<1>1. ASSUME Joined \/ SessionUp \/ MarkValidOnSession \/ SessionDown PROVE AloneInv'
  <2>1. UNCHANGED <<content, selected, running, indication, task, overlapped, early>>
    BY <1>1 DEF Joined, SessionUp, MarkValidOnSession, SessionDown
  <2> QED
    BY <2>1, Zenon
<1>2. ASSUME BootEnds PROVE AloneInv'
  <2>1. ~early' => \A t \in Tasks : task[t] = "none"
    BY <1>2 DEF BootEnds, Idle
  <2> QED
    BY <1>2, <2>1 DEF BootEnds
<1>3. ASSUME NEW i \in Images, Command(i) PROVE AloneInv'
  <2>1. ~overlapped' => ~overlapped /\ \A t \in Tasks : task[t] = "none"
    BY <1>3 DEF Command, Idle
  <2>2. task' = task \/ \E t \in Tasks : task[t] = "none" /\ task' = [task EXCEPT ![t] = "created"]
    BY <1>3 DEF Command
  <2>3. UNCHANGED <<content, selected, running, indication, early>>
    BY <1>3 DEF Command
  <2> QED
    BY <2>1, <2>2, <2>3 DEF TypeOK
<1> QED
  BY <1>1, <1>2, <1>3

LEMMA TaskAlone == ASSUME Inv, NEW t \in Tasks, DownloadTask(t) PROVE AloneInv'
<1> USE DEF AloneInv, UpdatingShownAlone, UpdatingShown, flash, firmware, tasks, history
<1>0. AloneInv /\ TypeOK /\ SlotInv
  BY Zenon DEF Inv, OtaInv
<1>1. CASE TaskStarts(t)
  BY <1>0, <1>1 DEF TaskStarts, TypeOK
<1>2. CASE BeginWrite(t)
  <2>1. ~overlapped => selected = running
    BY <1>0, <1>2 DEF BeginWrite
  <2>2. content'[running] = content[running]
    BY <1>0, <1>2, TwoSlots DEF BeginWrite, TypeOK
  <2>3. \A u \in Tasks : task'[u] = IF u = t THEN "writing" ELSE task[u]
    BY <1>0, <1>2 DEF BeginWrite, TypeOK
  <2>4. task[t] = "fetching" /\ UNCHANGED <<selected, running, indication, overlapped, early>>
    BY <1>2 DEF BeginWrite
  <2> QED
    BY <1>0, <2>1, <2>2, <2>3, <2>4
<1>3. CASE FinishWrite(t)
  <2>1. content'[running] # Partial /\ content'[Other(running)] # Partial
    BY <1>0, <1>3, TwoSlots, OtaAssumption DEF FinishWrite, TypeOK
  <2>2. \A u \in Tasks : task'[u] = IF u = t THEN "restarting" ELSE task[u]
    BY <1>0, <1>3 DEF FinishWrite, TypeOK
  <2>3. /\ task[t] = "writing" /\ selected' = Other(running)
        /\ UNCHANGED <<running, indication, overlapped, early>>
    BY <1>3 DEF FinishWrite
  <2> QED
    BY <1>0, <2>1, <2>2, <2>3
<1>4. CASE TaskFails(t)
  <2>1. \A u \in Tasks : task'[u] = IF u = t THEN "failed" ELSE task[u]
    BY <1>0, <1>4 DEF TaskFails, TypeOK
  <2>2. /\ task[t] \in {"fetching", "writing"}
        /\ UNCHANGED <<content, selected, running, indication, overlapped, early>>
    BY <1>4 DEF TaskFails
  <2> QED
    BY <1>0, <2>1, <2>2
<1>5. CASE TaskEnds(t)
  <2>1. \A u \in Tasks : task'[u] = IF u = t THEN "none" ELSE task[u]
    BY <1>0, <1>5 DEF TaskEnds, TypeOK
  <2>2. task[t] = "failed" /\ UNCHANGED <<content, selected, running, overlapped, early>>
    BY <1>5 DEF TaskEnds
  <2> QED
    BY <1>0, <2>1, <2>2
<1>6. CASE TaskRestarts(t)
  BY <1>6, ResetAlone DEF TaskRestarts
<1> QED
  BY <1>1, <1>2, <1>3, <1>4, <1>5, <1>6 DEF DownloadTask

LEMMA StepAlone == Inv /\ [Next]_vars => AloneInv'
<1> SUFFICES ASSUME Inv, [Next]_vars PROVE AloneInv'
  OBVIOUS
<1>0. TypeOK /\ AloneInv
  BY Zenon DEF Inv, OtaInv
<1>1. CASE UNCHANGED vars
  BY <1>0, <1>1 DEF AloneInv, UpdatingShownAlone, UpdatingShown,
                    vars, flash, firmware, tasks, history
<1> QED
  BY <1>0, <1>1, ResetAlone, SessionAlone, TaskAlone DEF Next, PowerCut

-----------------------------------------------------------------------------
LEMMA StepInv == Inv /\ [Next]_vars => Inv'
<1>1. Inv <=> TypeOK /\ SlotInv /\ (Rollback => TrialInv) /\ AloneInv
  BY DEF Inv, OtaInv
<1>2. Inv /\ [Next]_vars => TypeOK' /\ SlotInv' /\ (Rollback => TrialInv') /\ AloneInv'
  BY <1>1, StepTypes, StepSlots, StepTrial, StepAlone
<1> QED
  BY <1>2 DEF Inv, OtaInv

LEMMA Invariance == Spec => []Inv
  BY InitInv, StepInv, PTL DEF Spec

\* Every reachable state of the update is well typed; in particular no task is
\* recorded as having disturbed itself, and each slot has a known image state.
THEOREM TypeCorrect == Spec => []TypeOK
<1>1. Inv => TypeOK
  BY DEF Inv
<1> QED
  BY Invariance, <1>1, PTL

\* However commands overlap and wherever power is cut, one slot holds a complete
\* image that has reached the broker, with rollback or without.
THEOREM GoodImageAlways == Spec => []GoodImageKept
<1>1. Inv => GoodImageKept
  BY SlotInvImpliesGoodImage DEF Inv, OtaInv
<1> QED
  BY Invariance, <1>1, PTL

\* With a bootloader that supports rollback, an image that never reached the
\* broker is started at most once, whatever resets it.
THEOREM TrialStartsOnce == Spec => [](Rollback => UnprovenStartsOnce)
<1>1. Inv => (Rollback => UnprovenStartsOnce)
  BY DEF Inv, OtaInv, TrialInv
<1> QED
  BY Invariance, <1>1, PTL

\* As long as no command overtakes a download, the slot selected for the next
\* start holds a complete image.
THEOREM SelectedWhole == Spec => []SelectedIsWhole
<1>1. Inv => SelectedIsWhole
  BY DEF Inv, OtaInv, AloneInv, SelectedIsWhole
<1> QED
  BY Invariance, <1>1, PTL

\* As long as no command overtakes a download or the end of the boot, the update
\* pattern is shown while an image is fetched and written.
THEOREM PatternShown == Spec => []UpdatingShownAlone
<1>1. Inv => UpdatingShownAlone
  BY DEF Inv, OtaInv, AloneInv, UpdatingShownAlone
<1> QED
  BY Invariance, <1>1, PTL

-----------------------------------------------------------------------------
(* OtaUpdate implements ABUpdate.                                           *)

LEMMA AbstractInit == Init => AB!Init
  BY OtaAssumption DEF Init, AB!Init, OnTrial, Installed, Candidate, Slots, Images

(* An image on trial is the selected one, with a proven one beside it.      *)
LEMMA TrialHasFallback ==
    Inv /\ OnTrial => selected = running /\ proven[Other(running)] /\ content[Other(running)] # Partial
<1> SUFFICES ASSUME Inv, OnTrial
             PROVE  selected = running /\ proven[Other(running)] /\ content[Other(running)] # Partial
  OBVIOUS
<1>1. running \in Slots /\ Other(running) \in Slots
  BY TwoSlots DEF Inv, TypeOK
<1>2. selected = running /\ proven[Other(running)]
  BY <1>1 DEF Inv, OtaInv, SlotInv, TrialInv, OnTrial
<1> QED
  BY <1>1, <1>2, OtaAssumption DEF Inv, OtaInv, SlotInv, Images

(* A reset keeps the image to fall back on.  It starts a trial if another   *)
(* whole image is selected, and ends one if the bootloader gives it up.     *)
LEMMA AbstractReset == Inv /\ Reset => [AB!Next]_(AB!vars)
<1> SUFFICES ASSUME Inv, Reset PROVE [AB!Next]_(AB!vars)
  OBVIOUS
<1> USE DEF Inv, OtaInv
<1>1. UNCHANGED <<content, proven>> /\ running' = BootSlot /\ selected' = Chosen
  BY DEF Reset
<1>2. BootSlot \in Slots /\ Chosen \in Slots /\ selected \in Slots /\ running \in Slots
  BY BootTypes DEF TypeOK
<1>3. content[running] # Partial
  BY DEF AloneInv
<1>4. \A s \in Slots : state'[s] = IF GivenUp /\ s = selected THEN "aborted"
                                   ELSE IF s = Chosen /\ state[s] = "new" THEN "pending"
                                   ELSE state[s]
  BY DEF Reset, BootState
<1>5. CASE ~OnTrial
  <2>1. CASE running' = running
    <3>1. ~OnTrial'
      BY <1>1, <1>2, <1>4, <1>5, <2>1 DEF OnTrial, TrialInv
    <3>2. Installed' = Installed
      BY <1>1, <1>5, <2>1, <3>1 DEF Installed
    <3>3. Candidate' = Candidate \/ Candidate' = Partial
      <4>1. selected' # running => content[selected'] = Partial
        BY <1>1, <1>2, <2>1, TwoSlots DEF BootSlot
      <4> QED
        BY <1>1, <1>5, <2>1, <3>1, <4>1 DEF Candidate
    <3>4. OnTrial' = OnTrial
      BY <1>5, <3>1 DEF OnTrial
    <3>5. CASE Candidate' = Candidate
      BY <3>2, <3>4, <3>5 DEF AB!vars
    <3>6. CASE Candidate' = Partial
      BY <1>5, <3>2, <3>4, <3>6 DEF AB!Next, AB!Withdraw
    <3> QED
      BY <3>3, <3>5, <3>6
  <2>2. CASE running' # running
    <3>1. running' = Other(running) /\ content[running'] # Partial
      BY <1>1, <1>2, <1>3, <2>2, TwoSlots DEF BootSlot
    <3>2. Chosen = running'
      BY <1>1, <1>2, <1>3, <2>2, TwoSlots DEF BootSlot
    <3>3. selected = running'
      BY <1>1, <1>2, <1>5, <2>2, <3>2, TwoSlots DEF Chosen, GivenUp, OnTrial
    <3>4. ~proven[selected] /\ OnTrial'
      BY <1>1, <2>2, <3>3 DEF SlotInv, OnTrial
    <3>5. Candidate = content[selected] /\ Candidate' = content[selected]
      BY <1>1, <1>5, <2>2, <3>3, <3>4 DEF Candidate
    <3>6. Installed' = Installed
      BY <1>1, <1>2, <1>5, <3>1, <3>4, TwoSlots DEF Installed
    <3> QED
      BY <1>1, <1>5, <3>1, <3>3, <3>4, <3>5, <3>6 DEF AB!Next, AB!Try
  <2> QED
    BY <2>1, <2>2
<1>6. CASE OnTrial
  <2>1. selected = running /\ proven[Other(running)] /\ content[Other(running)] # Partial
    BY <1>6, TrialHasFallback
  <2>2. CASE GivenUp
    <3>1. running' = Other(running) /\ selected' = running' /\ Other(running) \in Slots
          /\ Other(running) # running
      BY <1>1, <1>2, <2>1, <2>2, TwoSlots DEF BootSlot, Chosen
    <3>2. ~OnTrial'
      BY <1>1, <1>2, <1>4, <2>1, <2>2, <3>1 DEF OnTrial, GivenUp, TrialInv
    <3>3. Installed' = Installed /\ Candidate' = Partial
      BY <1>1, <1>6, <3>1, <3>2 DEF Installed, Candidate
    <3> QED
      BY <1>6, <3>2, <3>3 DEF AB!Next, AB!Reject
  <2>3. CASE ~GivenUp
    <3>1. running' = running /\ selected' = selected
      BY <1>1, <1>3, <2>1, <2>3 DEF BootSlot, Chosen
    <3>2. OnTrial'
      <4>1. ~proven[running]
        BY <1>6, <2>1, <2>3 DEF OnTrial, GivenUp
      <4> QED
        BY <1>1, <3>1, <4>1 DEF OnTrial
    <3> QED
      BY <1>1, <1>6, <3>1, <3>2 DEF Installed, Candidate, AB!vars
  <2> QED
    BY <2>2, <2>3
<1> QED
  BY <1>5, <1>6

(* What accepts the image on trial is its mark or, if the bootloader keeps  *)
(* no state, its session; nothing else in these steps touches the slots.    *)
LEMMA AbstractSession ==
    ASSUME Inv, \/ Joined \/ BootEnds \/ SessionUp \/ MarkValidOnSession \/ SessionDown
                \/ \E i \in Images : Command(i)
    PROVE  [AB!Next]_(AB!vars)
<1> USE DEF Inv, OtaInv
<1>1. CASE SessionUp
  <2>1. /\ UNCHANGED <<content, selected, running, state>>
        /\ content[running] \in Good /\ proven' = [proven EXCEPT ![running] = TRUE]
    BY <1>1 DEF SessionUp, flash
  <2>2. proven'[running] /\ running \in Slots
    BY <2>1 DEF TypeOK
  <2>3. CASE OnTrial' = OnTrial
    BY <2>1, <2>3 DEF Installed, Candidate, AB!vars
  <2>4. CASE OnTrial' # OnTrial
    <3>1. OnTrial /\ ~OnTrial'
      BY <2>1, <2>2, <2>4 DEF OnTrial
    <3>2. selected = running
      BY <3>1, TrialHasFallback
    <3>3. Installed' = Candidate /\ Candidate' = Partial /\ Candidate \in Good
      BY <2>1, <3>1, <3>2 DEF Installed, Candidate
    <3> QED
      BY <3>1, <3>3 DEF AB!Next, AB!Accept
  <2> QED
    BY <2>3, <2>4
<1>2. CASE MarkValidOnSession
  <2>1. UNCHANGED <<content, selected, running, proven>> /\ proven[running] /\ running \in Slots
    BY <1>2 DEF MarkValidOnSession, history, SlotInv, TypeOK
  <2>2. state'[running] = state[running] \/ state'[running] = "valid"
    BY <1>2 DEF MarkValidOnSession, TypeOK
  <2>3. CASE OnTrial' = OnTrial
    BY <2>1, <2>3 DEF Installed, Candidate, AB!vars
  <2>4. CASE OnTrial' # OnTrial
    <3>1. OnTrial /\ ~OnTrial'
      BY <2>1, <2>2, <2>4 DEF OnTrial
    <3>2. selected = running /\ content[running] \in Good
      BY <2>1, <3>1, TrialHasFallback DEF SlotInv
    <3>3. Installed' = Candidate /\ Candidate' = Partial /\ Candidate \in Good
      BY <2>1, <3>1, <3>2 DEF Installed, Candidate
    <3> QED
      BY <3>1, <3>3 DEF AB!Next, AB!Accept
  <2> QED
    BY <2>3, <2>4
<1>3. CASE Joined \/ BootEnds \/ SessionDown \/ \E i \in Images : Command(i)
  <2>1. UNCHANGED <<content, selected, running, proven, state>>
    BY <1>3 DEF Joined, BootEnds, SessionDown, Command, flash, history
  <2> QED
    BY <2>1 DEF OnTrial, Installed, Candidate, AB!vars
<1> QED
  BY <1>1, <1>2, <1>3

LEMMA AbstractTask == ASSUME Inv, NEW t \in Tasks, DownloadTask(t) PROVE [AB!Next]_(AB!vars)
<1> USE DEF Inv, OtaInv, flash, firmware, tasks, history
<1>0. running \in Slots /\ (task[t] # "none" => proven[running])
  BY DEF Idle, SlotInv, TypeOK
<1>1. CASE TaskStarts(t) \/ TaskFails(t) \/ TaskEnds(t)
  <2>1. UNCHANGED <<content, selected, running, proven, state>>
    BY <1>1 DEF TaskStarts, TaskFails, TaskEnds
  <2> QED
    BY <2>1 DEF OnTrial, Installed, Candidate, AB!vars
<1>2. CASE BeginWrite(t)
  <2>1. proven[running] /\ proven'[running] = proven[running]
    BY <1>0, <1>2, TwoSlots DEF BeginWrite, TypeOK
  <2>2. content'[running] = content[running] /\ content'[Other(running)] = Partial
    BY <1>0, <1>2, TwoSlots DEF BeginWrite, TypeOK
  <2>3. UNCHANGED <<selected, running, state>> /\ ~(Rollback /\ state[running] = "pending")
    BY <1>2 DEF BeginWrite
  <2>4. ~OnTrial /\ ~OnTrial'
    BY <2>1, <2>3 DEF OnTrial
  <2>5. Installed' = Installed /\ Candidate' = Partial
    BY <1>0, <2>2, <2>3, <2>4, TwoSlots DEF Installed, Candidate, TypeOK
  <2>6. OnTrial' = OnTrial
    BY <2>4 DEF OnTrial
  <2> QED
    BY <2>4, <2>5, <2>6 DEF AB!Next, AB!Withdraw
<1>3. CASE FinishWrite(t)
  <2>1. proven[running] /\ UNCHANGED <<running, proven>>
    BY <1>0, <1>3 DEF FinishWrite
  <2>2. /\ content'[running] = content[running] /\ content'[Other(running)] = url[t]
        /\ selected' = Other(running) /\ url[t] \in Images /\ state'[running] = state[running]
    BY <1>0, <1>3, TwoSlots DEF FinishWrite, TypeOK
  <2>3. Rollback => state[running] # "pending"
    BY <1>3 DEF FinishWrite, TrialInv
  <2>4. ~OnTrial /\ ~OnTrial'
    BY <2>1, <2>2, <2>3 DEF OnTrial
  <2>5. Installed' = Installed /\ Candidate' = url[t]
    BY <1>0, <2>1, <2>2, <2>4, TwoSlots DEF Installed, Candidate
  <2>6. OnTrial' = OnTrial
    BY <2>4 DEF OnTrial
  <2> QED
    BY <2>2, <2>4, <2>5, <2>6 DEF AB!Next, AB!Offer, Images
<1>4. CASE TaskRestarts(t)
  BY <1>4, AbstractReset DEF TaskRestarts
<1> QED
  BY <1>1, <1>2, <1>3, <1>4 DEF DownloadTask

LEMMA AbstractStep == Inv /\ [Next]_vars => [AB!Next]_(AB!vars)
<1> SUFFICES ASSUME Inv, [Next]_vars PROVE [AB!Next]_(AB!vars)
  OBVIOUS
<1>1. CASE UNCHANGED vars
  BY <1>1 DEF vars, flash, firmware, history, OnTrial, Installed, Candidate, AB!vars
<1> QED
  BY <1>1, AbstractReset, AbstractSession, AbstractTask DEF Next, PowerCut

\* Whatever commands, power cuts and failed marks do to the slots, they keep the
\* promise of an update over two slots: the image to fall back on is replaced only
\* by one that was offered whole, started, reached the broker and, where the
\* bootloader keeps a state, was marked.
THEOREM PromiseKept == Spec => UpdateKeepsPromise
  BY AbstractInit, AbstractStep, Invariance, PTL DEF Spec, UpdateKeepsPromise, AB!Spec
=============================================================================
