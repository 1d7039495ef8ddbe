-------------------------------- MODULE Ota --------------------------------
(***************************************************************************)
(* The update life cycle of the firmware: app_main (main/can_collector.c)  *)
(* runs OTA_init, SIM_init, collector_init and OTA_download_latest_version *)
(* in this order on every boot, and restarts.  What survives a reset is in *)
(* flash: the application partitions, the boot selection (otadata) and the *)
(* OTA state (an NVS entry).  Power may be lost between any two steps.     *)
(*                                                                         *)
(* A partition's content is what the properties tell apart: "erased",      *)
(* "part"(ly written), or a whole image, which is "untried" from download  *)
(* until OTA_init records it as pending, then "tried", and "rejected" once *)
(* a rollback turned away from it.                                         *)
(***************************************************************************)
EXTENDS Integers

CONSTANT LastOta    \* the OTA partitions are 1..LastOta, 0 is the factory one

ASSUME PartitionsAssumption == LastOta \in Nat /\ LastOta >= 2

VARIABLES
    slot,       \* the content of each application partition
    boot,       \* the partition otadata selects
    state,      \* OTA_app_state in NVS
    running,    \* esp_ota_get_running_partition()
    pc          \* where the main task is

vars == <<slot, boot, state, running, pc>>

Slots == 0..LastOta
Whole == {"untried", "tried", "rejected"}
Content == {"erased", "part"} \cup Whole

\* OTA_state_t, the zero OTA_get_state writes when the key is missing, and
\* the missing key.
State == {"ABSENT", "ZERO", "VALID", "NEW", "PENDING_VERIFY"}

Place == {"off", "getState", "setValid", "rollback", "endRollback",
          "markPending", "SIM_init", "collector_init", "open", "begin",
          "write", "end", "setBoot", "setNew", "restart", "halted", "gone"}

\* Every variable stays in its range: OTA_app_state never leaves the states
\* that OTA_init knows what to do with (OTA_utils.h:20-35).
TypeOK ==
    /\ slot \in [Slots -> Content]
    /\ boot \in Slots
    /\ state \in State
    /\ running \in Slots
    /\ pc \in Place

\* A device as it leaves the flasher: the factory image and nothing else.
Init ==
    /\ slot = [s \in Slots |-> IF s = 0 THEN "tried" ELSE "erased"]
    /\ boot = 0
    /\ state = "ABSENT"
    /\ running = 0
    /\ pc = "off"

-----------------------------------------------------------------------------
\* The ESP-IDF calls.

\* A plausible slip: the rotation includes the factory partition.
NextUpdateWithFactory(s) == IF s = LastOta THEN 0 ELSE s + 1

\* esp_ota_get_next_update_partition: round robin over the OTA partitions.
NextUpdate(s) == IF s = LastOta THEN 1 ELSE s + 1

\* A plausible slip: any partition is accepted.
MayBootUnchecked(s) == TRUE

\* esp_ota_set_boot_partition refuses a partition without a whole image.
MayBoot(s) == slot[s] \in Whole

target == NextUpdate(running)

\* A reset, by power loss or from the bootloader's watchdog, at any moment.
Reset ==
    /\ pc # "off"
    /\ pc' = "off"
    /\ UNCHANGED <<slot, boot, state, running>>

\* The bootloader starts the selected image; the factory image if it cannot.
Boot ==
    /\ pc = "off"
    /\ running' = IF slot[boot] \in Whole THEN boot ELSE 0
    /\ pc' = "getState"
    /\ UNCHANGED <<slot, boot, state>>

-----------------------------------------------------------------------------
\* OTA_init.

\* OTA_get_state: a missing key is created with value 0.
CreateState ==
    /\ pc = "getState"
    /\ state = "ABSENT"
    /\ state' = "ZERO"
    /\ UNCHANGED <<slot, boot, running, pc>>

\* A plausible slip: a new image is never recorded as pending.
BranchNewIgnored ==
    /\ pc = "getState"
    /\ state # "ABSENT"
    /\ pc' = CASE state = "ZERO" -> "setValid"
               [] state = "PENDING_VERIFY" -> "rollback"
               [] OTHER -> "SIM_init"
    /\ UNCHANGED <<slot, boot, state, running>>

\* The conditionals of OTA_init on the state read.
BranchOnState ==
    /\ pc = "getState"
    /\ state # "ABSENT"
    /\ pc' = CASE state = "ZERO" -> "setValid"
               [] state = "PENDING_VERIFY" -> "rollback"
               [] state = "NEW" -> "markPending"
               [] OTHER -> "SIM_init"
    /\ UNCHANGED <<slot, boot, state, running>>

SetValid ==
    /\ pc = "setValid"
    /\ state' = "VALID"
    /\ pc' = "SIM_init"
    /\ UNCHANGED <<slot, boot, running>>

\* Lines 151-157: select the next partition, or end the main task.
Rollback ==
    /\ pc = "rollback"
    /\ \/ /\ MayBoot(target)
          /\ boot' = target
          /\ slot' = [slot EXCEPT ![running] = "rejected"]
          /\ pc' = "endRollback"
       \/ /\ ~ MayBoot(target)
          /\ pc' = "halted"
          /\ UNCHANGED <<slot, boot>>
    /\ UNCHANGED <<state, running>>

\* A plausible slip: the failed update is what gets recorded.
EndRollbackInvalid ==
    /\ pc = "endRollback"
    /\ state' = "INVALID"
    /\ pc' = "restart"
    /\ UNCHANGED <<slot, boot, running>>

\* Lines 159-161: the image the device goes back to counts as verified.
EndRollback ==
    /\ pc = "endRollback"
    /\ state' = "VALID"
    /\ pc' = "restart"
    /\ UNCHANGED <<slot, boot, running>>

MarkPending ==
    /\ pc = "markPending"
    /\ state' = "PENDING_VERIFY"
    /\ slot' = [slot EXCEPT ![running] = "tried"]
    /\ pc' = "SIM_init"
    /\ UNCHANGED <<boot, running>>

-----------------------------------------------------------------------------
\* The rest of app_main.  SIM_init returns only once PPP is up, so nothing
\* obliges this step to happen.
SIM_init ==
    /\ pc = "SIM_init"
    /\ pc' = "collector_init"
    /\ UNCHANGED <<slot, boot, state, running>>

collector_init ==
    /\ pc = "collector_init"
    /\ pc' = "open"
    /\ UNCHANGED <<slot, boot, state, running>>

\* OTA_download_latest_version: every error ends the main task and leaves the
\* tasks of collector_init running.
OpenConnection ==
    /\ pc = "open"
    /\ pc' \in {"begin", "gone"}
    /\ UNCHANGED <<slot, boot, state, running>>

\* esp_ota_begin with OTA_SIZE_UNKNOWN erases the whole partition.
BeginUpdate ==
    /\ pc = "begin"
    /\ slot' = [slot EXCEPT ![target] = "erased"]
    /\ pc' \in {"write", "gone"}
    /\ UNCHANGED <<boot, state, running>>

\* One turn of the read loop with data: a chunk in the middle, or the last.
WriteChunk ==
    /\ pc = "write"
    /\ slot[target] # "untried"
    /\ \E c \in {"part", "untried"} : slot' = [slot EXCEPT ![target] = c]
    /\ UNCHANGED <<boot, state, running, pc>>

\* A read or write error, or the end of the data, early or not.
EndData ==
    /\ pc = "write"
    /\ pc' \in {"end", "gone"}
    /\ UNCHANGED <<slot, boot, state, running>>

\* A plausible slip: the state is recorded as soon as the image has arrived.
EndUpdateSetsNew ==
    /\ pc = "end"
    /\ pc' = IF slot[target] \in Whole THEN "setBoot" ELSE "gone"
    /\ state' = IF slot[target] \in Whole THEN "NEW" ELSE state
    /\ UNCHANGED <<slot, boot, running>>

\* esp_ota_end verifies what was written.
EndUpdate ==
    /\ pc = "end"
    /\ pc' = IF slot[target] \in Whole THEN "setBoot" ELSE "gone"
    /\ UNCHANGED <<slot, boot, state, running>>

SetBoot ==
    /\ pc = "setBoot"
    /\ \/ /\ MayBoot(target)
          /\ boot' = target
          /\ pc' = "setNew"
       \/ /\ ~ MayBoot(target)
          /\ pc' = "gone"
          /\ UNCHANGED boot
    /\ UNCHANGED <<slot, state, running>>

SetNew ==
    /\ pc = "setNew"
    /\ state' = "NEW"
    /\ pc' = "restart"
    /\ UNCHANGED <<slot, boot, running>>

Restart ==
    /\ pc = "restart"
    /\ pc' = "off"
    /\ UNCHANGED <<slot, boot, state, running>>

OTA_init == CreateState \/ BranchOnState \/ SetValid \/ Rollback
            \/ EndRollback \/ MarkPending

OTA_download_latest_version ==
    OpenConnection \/ BeginUpdate \/ WriteChunk \/ EndData \/ EndUpdate
    \/ SetBoot \/ SetNew

Next == Reset \/ Boot \/ OTA_init \/ SIM_init \/ collector_init
        \/ OTA_download_latest_version \/ Restart

Spec == Init /\ [][Next]_vars

\* The bootloader and OTA_init call nothing that blocks, and esp_restart
\* restarts.  Nothing is assumed of the network.
FairSpec == Spec /\ WF_vars(Boot) /\ WF_vars(OTA_init) /\ WF_vars(Restart)

-----------------------------------------------------------------------------
\* Whatever the moment power is lost, the partition the bootloader will start
\* holds a whole image, and so does the partition the code is running from:
\* neither the erase of esp_ota_begin (OTA_utils.c:223) nor a rollback
\* (OTA_utils.c:151-153) leaves the device without firmware.
BootIntact ==
    /\ slot[boot] \in Whole
    /\ pc # "off" => slot[running] \in Whole

\* Nothing an update or a rollback does changes the factory image, the one the
\* bootloader falls back to: the round robin of OTA_utils.c:218 never reaches
\* it, and it is never the image a rollback turns away from.
FactoryKept == [][slot'[0] = slot[0]]_vars

\* The state NEW is only ever seen with an image selected for boot that has
\* not been tried yet: an interrupted download (OTA_utils.c:256-267) never
\* makes OTA_init take the old firmware for the new one.
NewIsUntried == state = "NEW" => slot[boot] = "untried"

\* If power is at last lost no more, while the restarts the program asks for go
\* on, an image recorded as NEW is started and recorded as pending
\* (OTA_utils.c:178-182): no update is forgotten, however many follow.
NewIsTried ==
    <>[][Reset => Restart]_vars => (state = "NEW" ~> state = "PENDING_VERIFY")

-----------------------------------------------------------------------------
\* What OTA_utils.h says of a state.

\* "ESP_OTA_IMG_PENDING_VERIFY: ... If rebooted in this state, rollback is
\* initiated" (OTA_utils.h:27): a boot in this state finds an image to roll
\* back to, rather than ending the main task in OTA_init for ever.
RollbackFindsImage == pc # "halted"
=============================================================================
