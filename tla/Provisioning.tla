----------------------------- MODULE Provisioning -----------------------------
(***************************************************************************)
(* How the device gets its configuration and keeps it: the start of        *)
(* app_main, the provisioning portal (provisioning.cpp) and the record in  *)
(* NVS (config_nvs.cpp, config.h).  Two tasks meet here: the main task,    *)
(* which polls "submitted" until the portal times out and then stops the   *)
(* HTTP server, and the server's task, which checks a submission, writes   *)
(* it key by key and only then reports it.                                 *)
(*                                                                         *)
(* NVS is external: each nvs_set_str is durable when it returns and is     *)
(* atomic by itself, nvs_commit has nothing left to write (this is how     *)
(* ESP-IDF implements it, not what its interface promises), and a          *)
(* partition found unusable at boot is erased.  httpd_stop, also external, *)
(* lets the request being handled finish.                                  *)
(*                                                                         *)
(* What a submission is made of, and which ones are accepted, is in        *)
(* PortalForm; a key holds the form its value came from.                   *)
(***************************************************************************)
EXTENDS PortalForm

CONSTANTS
    Entries,        \* what people enter into the form
    Absent,         \* a key that is not stored; also "no form"
    BuildDefaults,  \* the build carries credentials (bench builds)
    MaxFaults       \* bound: power cuts, failed writes, erased partitions

ASSUME ProvisioningAssumption ==
    /\ Absent \notin Entries
    /\ Entries \subseteq [Keys -> Text]
    /\ BuildDefaults \in BOOLEAN
    /\ MaxFaults \in Nat

VARIABLES
    stored,     \* NVS: the form each key's value came from
    pc,         \* where app_main is
    submitted,  \* provisioning.cpp
    saving,     \* the form config_save is writing, in the server's task
    written,    \* keys it has written
    \* ---- bookkeeping of the model
    answered,   \* the form last answered "Saved"
    failed,     \* a save has failed half way
    resubmitted,   \* a form was accepted after another was answered "Saved"
    faults      \* faults the environment has left

past == <<answered, failed, resubmitted>>
vars == <<stored, pc, submitted, saving, written, past, faults>>

Forms  == {f \in Entries : Accepted(f)}
Record == [Keys -> Forms \cup {Absent}]
Empty  == [k \in Keys |-> Absent]

\* config_fault of what config_load reads: an absent key reads as an empty
\* string, which only the SSID and the broker may not be.
Usable(r) == r["ssid"] # Absent /\ r["broker"] # Absent

\* config_effective: the stored record if it is usable, else the build's defaults.
Configured == Usable(stored) \/ BuildDefaults

Fault == faults > 0 /\ faults' = faults - 1

Init ==
    /\ stored = Empty /\ pc = "boot" /\ submitted = FALSE
    /\ saving = Absent /\ written = 0
    /\ answered = Absent /\ failed = FALSE /\ resubmitted = FALSE
    /\ faults = MaxFaults

-----------------------------------------------------------------------------
(* app_main and the portal's loop.                                          *)

\* The portal only if there is nothing to try.  What happens to the connection
\* later plays no part.
Boot ==
    /\ pc = "boot"
    /\ pc' = IF Configured THEN "operational" ELSE "raising"
    /\ UNCHANGED <<stored, submitted, saving, written, past, faults>>

\* The access point, the DNS responder and the HTTP server are up.
RaisePortal ==
    /\ pc = "raising" /\ pc' = "portal"
    /\ UNCHANGED <<stored, submitted, saving, written, past, faults>>

\* nvs_flash_init finds no free page or a newer version: everything is erased.
StorageErased ==
    /\ pc = "boot" /\ Fault
    /\ stored' = Empty /\ answered' = Absent
    /\ UNCHANGED <<pc, submitted, saving, written, failed, resubmitted>>

\* The polling loop ends: something was submitted, or the window has passed.
PortalEnds ==
    /\ pc = "portal"
    /\ pc' = "stopping"
    /\ UNCHANGED <<stored, submitted, saving, written, past, faults>>

Reset ==
    /\ pc' = "boot" /\ submitted' = FALSE
    /\ saving' = Absent /\ written' = 0

Mut_StopAndRestart_ProceedsOnTimeout ==
    /\ pc = "stopping" /\ saving = Absent
    /\ IF submitted THEN Reset
       ELSE pc' = "operational" /\ UNCHANGED <<submitted, saving, written>>
    /\ UNCHANGED <<stored, past, faults>>

\* httpd_stop has returned; the device restarts whatever the outcome.
StopAndRestart ==
    /\ pc = "stopping" /\ saving = Absent
    /\ Reset
    /\ UNCHANGED <<stored, past, faults>>

\* Operation itself is the business of Publisher and MeterLoop.
Operates == pc = "operational" /\ UNCHANGED vars

\* Any reset nobody asked for: nothing in memory survives, every key does.
PowerCut ==
    /\ Fault /\ Reset
    /\ UNCHANGED <<stored, past>>

\* The HTTP server does not start: the device boots again.
RaiseFails ==
    /\ pc = "raising" /\ Fault /\ Reset
    /\ UNCHANGED <<stored, past>>

-----------------------------------------------------------------------------
(* save_post and config_save.                                               *)

ServerUp == pc \in {"portal", "stopping"}

Submit(f) ==
    /\ ServerUp /\ saving = Absent
    /\ saving' = f /\ written' = 0
    /\ resubmitted' = (resubmitted \/ submitted)
    /\ UNCHANGED <<stored, pc, submitted, answered, failed, faults>>

\* An unreadable body or one with a fault: nothing is stored.
Refuse(f) == ServerUp /\ saving = Absent /\ ~Accepted(f) /\ UNCHANGED vars

Mut_WriteKey_BrokerFirst ==
    /\ saving # Absent /\ written < Len(Order)
    /\ written' = written + 1
    /\ stored' = [stored EXCEPT ![<<"broker", "ssid", "pass", "host">>[written']] = saving]
    /\ UNCHANGED <<pc, submitted, saving, past, faults>>

Mut_WriteKey_PastTheEnd ==
    /\ saving # Absent /\ written <= Len(Order)
    /\ written' = written + 1
    /\ stored' = IF written < Len(Order)
                   THEN [stored EXCEPT ![Order[written']] = saving] ELSE stored
    /\ UNCHANGED <<pc, submitted, saving, past, faults>>

WriteKey ==
    /\ saving # Absent /\ written < Len(Order)
    /\ written' = written + 1
    /\ stored' = [stored EXCEPT ![Order[written']] = saving]
    /\ UNCHANGED <<pc, submitted, saving, past, faults>>

\* A write or the commit fails: the keys before it stay, the answer is 500.
SaveFails ==
    /\ saving # Absent /\ Fault
    /\ saving' = Absent /\ written' = 0 /\ failed' = TRUE
    /\ UNCHANGED <<stored, pc, submitted, answered, resubmitted>>

Mut_SaveDone_AnswersFirst ==
    /\ saving # Absent /\ ~submitted
    /\ submitted' = TRUE /\ answered' = saving
    /\ UNCHANGED <<stored, saving, written, pc, failed, resubmitted, faults>>

SaveDone ==
    /\ saving # Absent /\ written = Len(Order)
    /\ submitted' = TRUE /\ answered' = saving
    /\ saving' = Absent /\ written' = 0
    /\ UNCHANGED <<stored, pc, failed, resubmitted, faults>>

-----------------------------------------------------------------------------
Main   == Boot \/ RaisePortal \/ PortalEnds \/ StopAndRestart
Save   == WriteKey \/ SaveDone
Faulty == StorageErased \/ RaiseFails \/ PowerCut \/ SaveFails
People == (\E f \in Forms : Submit(f)) \/ (\E f \in Entries : Refuse(f))

Next == Main \/ Operates \/ Save \/ Faulty \/ People

Spec == Init /\ [][Next]_vars

(* Both tasks run: the portal's window ends by itself, and httpd_stop       *)
(* returns between two requests however fast they come.  And somebody keeps *)
(* submitting an acceptable form while the device offers it.                *)
Fairness == SF_vars(Main) /\ WF_vars(Save) /\ SF_vars(\E f \in Forms : Submit(f))

FairSpec == Spec /\ Fairness

-----------------------------------------------------------------------------
(* Properties.                                                              *)

\* The values the record and the two tasks' variables can take; the server
\* saves only while it is up, and never writes past the last key.
TypeOK ==
    /\ stored \in Record
    /\ pc \in {"boot", "raising", "portal", "stopping", "operational"}
    /\ submitted \in BOOLEAN /\ failed \in BOOLEAN /\ resubmitted \in BOOLEAN
    /\ saving \in Forms \cup {Absent} /\ answered \in Forms \cup {Absent}
    /\ written \in 0..Len(Order)
    /\ saving # Absent => ServerUp
    /\ faults \in Nat

\* The network settings of a record are those of one submission.
Coherent(r) == r["ssid"] = r["pass"] /\ r["pass"] = r["broker"]

\* A usable record has the SSID, the passphrase and the broker of one submission
\* (the comment on config_save), wherever power is cut and however many
\* half-written records came before, until a write fails half way or a second
\* form is accepted after the first was answered: it is the order in which
\* config_save writes the keys that gives it.
CutSafe == ~failed /\ ~resubmitted => (Usable(stored) => Coherent(stored))

\* "Saved" is a promise: through power cuts, failed saves, timeouts and further
\* starts the four keys are the ones submitted (FR-PRV-05, FR-NVS-03).  Two things
\* end it, and the property says nothing about either: a start that erases the
\* partition (StorageErased takes the answer back with the keys), and a second
\* form accepted before the portal ends (resubmitted).
AnsweredIsStored ==
    ~resubmitted /\ answered # Absent => \A k \in Keys : stored[k] = answered

\* What is written is what was entered, to the last octet: no fixed size on the
\* way from the body to the record shortens a value that is accepted ("too long
\* is a refusal, never a truncation").
FormKept == saving # Absent => \A k \in Keys : Value(saving, k) = saving[k]

\* Why the records are as CutSafe and AnsweredIsStored say.  A save has written
\* a prefix of the keys; the broker is third, so while a portal is up the record
\* is unusable, or the save under way has written all three, or a save has been
\* answered.  An answer ends the submissions of this start, and no later start
\* raises a portal.
ProvisioningInv ==
    /\ CutSafe /\ AnsweredIsStored
    /\ saving = Absent => written = 0
    /\ \A i \in 1..written : stored[Order[i]] = saving
    /\ stored["broker"] # Absent => Usable(stored)
    /\ pc = "raising" => ~Usable(stored)
    /\ ~failed /\ ServerUp /\ ~submitted /\ Usable(stored) => saving # Absent /\ written >= 3
    /\ submitted => ServerUp /\ answered # Absent
    /\ submitted /\ ~resubmitted => saving = Absent
    /\ answered # Absent /\ ~resubmitted /\ ServerUp => submitted

\* However often it timed out, failed or lost power, the device ends up
\* operating on a usable record, and stays out of the portal (FR-SUP-04).
OperatesInTheEnd == <>[](pc = "operational" /\ Usable(stored))
=============================================================================
