----------------------------- MODULE OtaProofs -----------------------------
(***************************************************************************)
(* Proofs about Ota: for any number of OTA partitions above one, no        *)
(* interruption leaves the device without firmware.                        *)
(*                                                                         *)
(* BootIntact is not inductive: that the erase of a download misses the    *)
(* selected image depends on the device running that image, which holds    *)
(* between the moments a partition is selected, and that a rollback spares *)
(* the factory image on the states in which a device may run it.  IInv     *)
(* adds these facts.                                                       *)
(***************************************************************************)
EXTENDS Ota, TLAPS

Updating == {"write", "end", "setBoot"}

\* Where the selection may already name another partition than the running one.
Switching == {"off", "endRollback", "setNew", "restart"}

Selected == pc \notin Switching => running = boot

\* Only an image that came over the network is ever new or pending.
PendingIsUpdate == state \in {"NEW", "PENDING_VERIFY"} => boot # 0

MarksNew == pc = "markPending" => state = "NEW"

RollsPending == pc = "rollback" => state = "PENDING_VERIFY"

NewAtBoot ==
    state = "NEW" => pc \in {"off", "getState", "markPending", "restart"}

\* What a download has written so far, and what it selects.
Downloaded ==
    /\ pc \in Updating => slot[target] \notin {"tried", "rejected"}
    /\ pc = "setNew" => slot[boot] = "untried"

IInv ==
    /\ TypeOK
    /\ BootIntact
    /\ NewIsUntried
    /\ slot[0] = "tried"
    /\ Selected
    /\ PendingIsUpdate
    /\ MarksNew
    /\ RollsPending
    /\ NewAtBoot
    /\ Downloaded

\* The partition written is an OTA partition and never the running one.
LEMMA TargetIsOther ==
    ASSUME NEW s \in Slots
    PROVE  NextUpdate(s) \in Slots /\ NextUpdate(s) # 0 /\ NextUpdate(s) # s
BY PartitionsAssumption DEF NextUpdate, Slots

LEMMA InitHolds == Init => IInv
BY PartitionsAssumption DEF Init, IInv, TypeOK, BootIntact, NewIsUntried,
   Selected, PendingIsUpdate, MarksNew, RollsPending, NewAtBoot, Downloaded,
   Updating, Switching, Slots, Whole, Content, State, Place

\* Every step keeps the strengthened invariant, whenever power is lost.
LEMMA StepKeeps == IInv /\ [Next]_vars => IInv'
<1> SUFFICES ASSUME IInv, [Next]_vars PROVE IInv'
  OBVIOUS
<1>0. target \in Slots /\ target # 0 /\ target # running
  BY TargetIsOther DEF IInv, TypeOK, target
<1> USE DEF IInv, TypeOK, BootIntact, NewIsUntried, Selected,
       PendingIsUpdate, MarksNew, RollsPending, NewAtBoot, Downloaded,
       Updating, Switching, Whole, Content, State, Place
<1>1. 0 \in Slots
  BY PartitionsAssumption DEF Slots
<1>2. CASE Reset
  BY <1>0, <1>1, <1>2 DEF Reset, target
<1>3. CASE Boot
  BY <1>0, <1>1, <1>3 DEF Boot, target
<1>4. CASE CreateState
  BY <1>0, <1>1, <1>4 DEF CreateState, target
<1>5. CASE BranchOnState
  BY <1>0, <1>1, <1>5 DEF BranchOnState, target
<1>6. CASE SetValid
  BY <1>0, <1>1, <1>6 DEF SetValid, target
<1>7. CASE Rollback
  BY <1>0, <1>1, <1>7 DEF Rollback, MayBoot, target
<1>8. CASE EndRollback
  BY <1>0, <1>1, <1>8 DEF EndRollback, target
<1>9. CASE MarkPending
  BY <1>0, <1>1, <1>9 DEF MarkPending, target
<1>10. CASE SIM_init \/ collector_init \/ OpenConnection
  BY <1>0, <1>1, <1>10 DEF SIM_init, collector_init, OpenConnection, target
<1>11. CASE BeginUpdate
  BY <1>0, <1>1, <1>11 DEF BeginUpdate, target
<1>12. CASE WriteChunk
  BY <1>0, <1>1, <1>12 DEF WriteChunk, target
<1>13. CASE EndData \/ EndUpdate
  BY <1>0, <1>1, <1>13 DEF EndData, EndUpdate, target
<1>14. CASE SetBoot
  BY <1>0, <1>1, <1>14 DEF SetBoot, MayBoot, target
<1>15. CASE SetNew
  BY <1>0, <1>1, <1>15 DEF SetNew, target
<1>16. CASE Restart
  BY <1>0, <1>1, <1>16 DEF Restart, target
<1>17. CASE UNCHANGED vars
  BY <1>0, <1>1, <1>17 DEF vars, target
<1> QED
  BY <1>2, <1>3, <1>4, <1>5, <1>6, <1>7, <1>8, <1>9, <1>10, <1>11, <1>12,
     <1>13, <1>14, <1>15, <1>16, <1>17
  DEF Next, OTA_init, OTA_download_latest_version

\* The strengthened invariant holds for every number of OTA partitions.
THEOREM Inductive == Spec => []IInv
BY InitHolds, StepKeeps, PTL DEF Spec

\* Every state keeps its variables in range: no OTA state is ever recorded
\* other than the four OTA_utils.c writes.
THEOREM TypeCorrect == Spec => []TypeOK
<1>1. IInv => TypeOK
  BY DEF IInv
<1> QED
  BY <1>1, Inductive, PTL

\* The device always has firmware to start, and runs from a whole partition.
THEOREM AlwaysBootable == Spec => []BootIntact
<1>1. IInv => BootIntact
  BY DEF IInv
<1> QED
  BY <1>1, Inductive, PTL

\* NEW is only recorded for a selected image nobody has tried.
THEOREM NewMeansNew == Spec => []NewIsUntried
<1>1. IInv => NewIsUntried
  BY DEF IInv
<1> QED
  BY <1>1, Inductive, PTL

\* No step of any run changes the factory image.
THEOREM FactorySafe == Spec => FactoryKept
<1>1. IInv /\ IInv' => slot'[0] = slot[0]
  BY DEF IInv
<1> QED
  BY <1>1, Inductive, PTL DEF FactoryKept
=============================================================================
