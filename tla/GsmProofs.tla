----------------------------- MODULE GsmProofs -----------------------------
(***************************************************************************)
(* Proofs about Gsm, for any number of AT commands and of failures.        *)
(*                                                                         *)
(* The properties speak of the session and of one place of the task or the *)
(* caller; each holds because of where the task has been, so IInv says     *)
(* what is true at each place: where a session may be alive, which         *)
(* commands have been answered, when the control block exists, and what    *)
(* the two sides of the do_pppos_connect handshake know of each other.     *)
(***************************************************************************)
EXTENDS Gsm, TLAPS

\* Where a session may be alive.
SessionPlace == session # "dead" => pc \in {"serve", "close"}

\* The flag agrees with the task's life, and only a caller starts a task.
StartedPlace ==
    /\ pppos_task_started <=> pc \notin {"none", "start"}
    /\ pc = "start" => caller = "awaitStart"

\* The commands before gsmCmdIter have been answered, and once cmd_Connect
\* has been, the modem is in data mode.
Answered ==
    /\ pc = "at" => \A j \in 1..Commands : j < iter => j \in skip
    /\ pc = "at" /\ Commands \in skip => carrier
    /\ pc \in {"create", "dial"} => carrier
    /\ pc = "rest" => skip = {}

\* After the first dial the control block stays allocated until the exit.
Allocated ==
    /\ pc \in {"dial", "serve", "close", "hangup", "rest"} => ppp = "live"
    /\ pc = "at" /\ gsm_status # "FIRSTINIT" => ppp = "live"

\* Once its request was taken, do_pppos_connect = 0 tells the caller that the
\* task has finished with it.
Handshake ==
    /\ caller \in {"awaitDone", "off"} /\ do_pppos_connect = 0
         => pc \in {"rest", "exit", "none"}
    /\ caller = "off" => do_pppos_connect = 0

IInv ==
    /\ TypeOK
    /\ AtModeQuiet
    /\ DialsInDataMode
    /\ SessionHasPpp
    /\ ClosedOnReturn
    /\ SessionPlace
    /\ StartedPlace
    /\ Answered
    /\ Allocated
    /\ Handshake

\* What the start of an initialization needs of the constants.
LEMMA Fresh == /\ Commands \in Nat /\ Commands >= 1 /\ MaxFail \in Nat
               /\ {} \subseteq 1..Commands
               /\ 1 \in 1..Commands + 1
               /\ 0 \in 0..MaxFail
BY CommandsAssumption

LEMMA InitHolds == Init => IInv
<1> SUFFICES ASSUME Init PROVE IInv
  OBVIOUS
<1>1. TypeOK
  <2>1. do_pppos_connect \in -1..1
    BY DEF Init
  <2>2. /\ iter \in 1..Commands + 1
        /\ nfail \in 0..MaxFail
        /\ skip \subseteq 1..Commands
    BY Fresh, Zenon DEF Init
  <2>3. /\ pppos_task_started \in BOOLEAN
        /\ uart \in BOOLEAN
        /\ carrier \in BOOLEAN
        /\ end_task \in BOOLEAN
    BY DEF Init
  <2> QED
    BY <2>1, <2>2, <2>3 DEF Init, TypeOK
<1>2. /\ AtModeQuiet /\ DialsInDataMode /\ SessionHasPpp
      /\ ClosedOnReturn /\ SessionPlace
  BY DEF Init, AtModeQuiet, DialsInDataMode, SessionHasPpp, ClosedOnReturn,
     SessionPlace
<1>3. StartedPlace /\ Answered /\ Allocated /\ Handshake
  BY DEF Init, StartedPlace, Answered, Allocated, Handshake
<1> QED
  BY <1>1, <1>2, <1>3 DEF IInv

\* Every step of the task keeps the strengthened invariant.
LEMMA TaskKeeps == IInv /\ (TaskRuns \/ TaskWaitsForModem) => IInv'
<1> SUFFICES ASSUME IInv, TaskRuns \/ TaskWaitsForModem PROVE IInv'
  OBVIOUS
<1> USE CommandsAssumption DEF IInv, TypeOK, AtModeQuiet, DialsInDataMode,
       SessionHasPpp, ClosedOnReturn, SessionPlace, StartedPlace, Answered,
       Allocated, Handshake
<1>1. CASE TaskStarts
  <2>1. TypeOK'
    BY <1>1 DEF TaskStarts
  <2>2. AtModeQuiet'
    BY <1>1 DEF TaskStarts
  <2>3. DialsInDataMode'
    BY <1>1 DEF TaskStarts
  <2>4. SessionHasPpp'
    BY <1>1 DEF TaskStarts
  <2>5. ClosedOnReturn'
    BY <1>1 DEF TaskStarts
  <2>6. SessionPlace'
    BY <1>1 DEF TaskStarts
  <2>7. StartedPlace'
    BY <1>1 DEF TaskStarts
  <2>8. Answered'
    BY <1>1 DEF TaskStarts
  <2>9. Allocated'
    BY <1>1 DEF TaskStarts
  <2>10. Handshake'
    BY <1>1 DEF TaskStarts
  <2> QED
    BY <2>1, <2>2, <2>3, <2>4, <2>5, <2>6, <2>7, <2>8, <2>9, <2>10
<1>2. CASE Setup
  <2>1. TypeOK'
    BY <1>2 DEF Setup
  <2>2. AtModeQuiet'
    BY <1>2 DEF Setup
  <2>3. DialsInDataMode'
    BY <1>2 DEF Setup
  <2>4. SessionHasPpp'
    BY <1>2 DEF Setup
  <2>5. ClosedOnReturn'
    BY <1>2 DEF Setup
  <2>6. SessionPlace'
    BY <1>2 DEF Setup
  <2>7. StartedPlace'
    BY <1>2 DEF Setup
  <2>8. Answered'
    BY <1>2 DEF Setup
  <2>9. Allocated'
    BY <1>2 DEF Setup
  <2>10. Handshake'
    BY <1>2 DEF Setup
  <2> QED
    BY <2>1, <2>2, <2>3, <2>4, <2>5, <2>6, <2>7, <2>8, <2>9, <2>10
<1>3. CASE SkipCommand
  <2>1. TypeOK'
    BY <1>3 DEF SkipCommand
  <2>2. AtModeQuiet'
    BY <1>3 DEF SkipCommand
  <2>3. DialsInDataMode'
    BY <1>3 DEF SkipCommand
  <2>4. SessionHasPpp'
    BY <1>3 DEF SkipCommand
  <2>5. ClosedOnReturn'
    BY <1>3 DEF SkipCommand
  <2>6. SessionPlace'
    BY <1>3 DEF SkipCommand
  <2>7. StartedPlace'
    BY <1>3 DEF SkipCommand
  <2>8. Answered'
    BY <1>3 DEF SkipCommand
  <2>9. Allocated'
    BY <1>3 DEF SkipCommand
  <2>10. Handshake'
    BY <1>3 DEF SkipCommand
  <2> QED
    BY <2>1, <2>2, <2>3, <2>4, <2>5, <2>6, <2>7, <2>8, <2>9, <2>10
<1>4. CASE CommandAnswered
  <2>1. TypeOK'
    BY <1>4 DEF CommandAnswered
  <2>2. AtModeQuiet'
    BY <1>4 DEF CommandAnswered
  <2>3. DialsInDataMode'
    BY <1>4 DEF CommandAnswered
  <2>4. SessionHasPpp'
    BY <1>4 DEF CommandAnswered
  <2>5. ClosedOnReturn'
    BY <1>4 DEF CommandAnswered
  <2>6. SessionPlace'
    BY <1>4 DEF CommandAnswered
  <2>7. StartedPlace'
    BY <1>4 DEF CommandAnswered
  <2>8. Answered'
    <3>1. pc' = "at" /\ iter \in 1..Commands /\ iter' = iter + 1
          /\ skip' = skip \cup {iter}
      BY <1>4 DEF CommandAnswered
    <3>2. \A j \in 1..Commands : j < iter' => j \in skip'
      BY <1>4, <3>1 DEF CommandAnswered
    <3>3. Commands \in skip' => carrier'
      <4>1. CASE iter = Commands
        BY <1>4, <4>1 DEF CommandAnswered
      <4>2. CASE iter # Commands
        BY <1>4, <3>1, <4>2 DEF CommandAnswered
      <4> QED
        BY <4>1, <4>2
    <3> QED
      BY <3>1, <3>2, <3>3
  <2>9. Allocated'
    BY <1>4 DEF CommandAnswered
  <2>10. Handshake'
    BY <1>4 DEF CommandAnswered
  <2> QED
    BY <2>1, <2>2, <2>3, <2>4, <2>5, <2>6, <2>7, <2>8, <2>9, <2>10
<1>5. CASE CommandFails
  BY <1>5 DEF CommandFails
<1>6. CASE Initialized
  BY <1>6 DEF Initialized
<1>7. CASE CreatePpp
  BY <1>7 DEF CreatePpp
<1>8. CASE Dial
  BY <1>8 DEF Dial
<1>9. CASE TakeDisconnect
  BY <1>9 DEF TakeDisconnect, PppClose
<1>10. CASE AwaitClosed
  BY <1>10 DEF AwaitClosed
<1>11. CASE Reconnect
  BY <1>11 DEF Reconnect, EnterLoop
<1>12. CASE Retry
  BY <1>12 DEF Retry, EnterLoop
<1>13. CASE Exit
  <2>1. TypeOK'
    BY <1>13 DEF Exit
  <2>2. AtModeQuiet'
    BY <1>13 DEF Exit
  <2>3. DialsInDataMode'
    BY <1>13 DEF Exit
  <2>4. SessionHasPpp'
    BY <1>13 DEF Exit
  <2>5. ClosedOnReturn'
    BY <1>13 DEF Exit
  <2>6. SessionPlace'
    BY <1>13 DEF Exit
  <2>7. StartedPlace'
    BY <1>13 DEF Exit
  <2>8. Answered'
    BY <1>13 DEF Exit
  <2>9. Allocated'
    BY <1>13 DEF Exit
  <2>10. Handshake'
    BY <1>13 DEF Exit
  <2> QED
    BY <2>1, <2>2, <2>3, <2>4, <2>5, <2>6, <2>7, <2>8, <2>9, <2>10
<1>14. CASE BootDisconnect
  <2>1. TypeOK'
    BY <1>14, Fresh DEF BootDisconnect, EnterLoop
  <2>2. AtModeQuiet'
    BY <1>14 DEF BootDisconnect, EnterLoop
  <2>3. DialsInDataMode'
    BY <1>14 DEF BootDisconnect, EnterLoop
  <2>4. SessionHasPpp'
    BY <1>14 DEF BootDisconnect, EnterLoop
  <2>5. ClosedOnReturn'
    BY <1>14 DEF BootDisconnect, EnterLoop
  <2>6. SessionPlace'
    BY <1>14 DEF BootDisconnect, EnterLoop
  <2>7. StartedPlace'
    BY <1>14 DEF BootDisconnect, EnterLoop
  <2>8. Answered'
    BY <1>14 DEF BootDisconnect, EnterLoop
  <2>9. Allocated'
    BY <1>14 DEF BootDisconnect, EnterLoop
  <2>10. Handshake'
    BY <1>14 DEF BootDisconnect, EnterLoop
  <2> QED
    BY <2>1, <2>2, <2>3, <2>4, <2>5, <2>6, <2>7, <2>8, <2>9, <2>10
<1>15. CASE Hangup
  <2>1. TypeOK'
    <3>1. pc' \in {"exit", "rest"} /\ do_pppos_connect' \in -1..1
      BY <1>15 DEF Hangup
    <3>2. skip' \subseteq 1..Commands
      BY <1>15 DEF Hangup
    <3> QED
      BY <1>15, <3>1, <3>2 DEF Hangup
  <2>2. AtModeQuiet'
    BY <1>15 DEF Hangup
  <2>3. DialsInDataMode'
    BY <1>15 DEF Hangup
  <2>4. SessionHasPpp'
    BY <1>15 DEF Hangup
  <2>5. ClosedOnReturn'
    BY <1>15 DEF Hangup
  <2>6. SessionPlace'
    BY <1>15 DEF Hangup
  <2>7. StartedPlace'
    BY <1>15 DEF Hangup
  <2>8. Answered'
    BY <1>15 DEF Hangup
  <2>9. Allocated'
    BY <1>15 DEF Hangup
  <2>10. Handshake'
    BY <1>15 DEF Hangup
  <2> QED
    BY <2>1, <2>2, <2>3, <2>4, <2>5, <2>6, <2>7, <2>8, <2>9, <2>10
<1> QED
  BY <1>1, <1>2, <1>3, <1>4, <1>5, <1>6, <1>7, <1>8, <1>9, <1>10, <1>11,
     <1>12, <1>13, <1>14, <1>15
  DEF TaskRuns, TaskWaitsForModem

\* So does every step of lwIP and of the caller.
LEMMA OthersKeep == IInv /\ (Ppp \/ Caller) => IInv'
<1> SUFFICES ASSUME IInv, Ppp \/ Caller PROVE IInv'
  OBVIOUS
<1> USE CommandsAssumption DEF IInv, TypeOK, AtModeQuiet, DialsInDataMode,
       SessionHasPpp, ClosedOnReturn, SessionPlace, StartedPlace, Answered,
       Allocated, Handshake, SessionUnchanged, LinkUnchanged, TaskUnchanged,
       taskVars
<1>1. CASE PppUp
  BY <1>1 DEF PppUp
<1>2. CASE PppLost
  BY <1>2 DEF PppLost
<1>3. CASE PppFails
  BY <1>3 DEF PppFails
<1>4. CASE PppClosed
  BY <1>4 DEF PppClosed
<1>5. CASE CallInit
  BY <1>5 DEF CallInit
<1>6. CASE SeesTask
  BY <1>6 DEF SeesTask
<1>7. CASE InitReturns
  BY <1>7 DEF InitReturns
<1>8. CASE CallDisconnect
  BY <1>8 DEF CallDisconnect
<1>9. CASE RequestDisconnect
  BY <1>9 DEF RequestDisconnect
<1>10. CASE SeesTaken
  BY <1>10 DEF SeesTaken
<1>11. CASE DisconnectReturns
  BY <1>11 DEF DisconnectReturns
<1> QED
  BY <1>1, <1>2, <1>3, <1>4, <1>5, <1>6, <1>7, <1>8, <1>9, <1>10, <1>11
  DEF Ppp, Caller, CallerPolls

\* The strengthened invariant holds for every initialization sequence.
THEOREM Inductive == Spec => []IInv
<1>1. IInv /\ UNCHANGED vars => IInv'
  BY DEF IInv, TypeOK, AtModeQuiet, DialsInDataMode, SessionHasPpp,
     ClosedOnReturn, SessionPlace, StartedPlace, Answered, Allocated,
     Handshake, vars, taskVars
<1>2. IInv /\ [Next]_vars => IInv'
  BY <1>1, TaskKeeps, OthersKeep DEF Next
<1> QED
  BY <1>2, InitHolds, PTL DEF Spec

\* Every variable of the link stays in range; nfail stays below the limit.
THEOREM TypeCorrect == Spec => []TypeOK
<1>1. IInv => TypeOK
  BY DEF IInv
<1> QED
  BY <1>1, Inductive, PTL

\* The task and lwIP never use the UART at the same time.
THEOREM UartIsShared == Spec => []AtModeQuiet
<1>1. IInv => AtModeQuiet
  BY DEF IInv
<1> QED
  BY <1>1, Inductive, PTL

\* No dial without a modem in data mode, however often the link was lost.
THEOREM DialsSafely == Spec => []DialsInDataMode
<1>1. IInv => DialsInDataMode
  BY DEF IInv
<1> QED
  BY <1>1, Inductive, PTL

\* A control block with a live session is never freed.
THEOREM NoSessionIsFreed == Spec => []SessionHasPpp
<1>1. IInv => SessionHasPpp
  BY DEF IInv
<1> QED
  BY <1>1, Inductive, PTL

\* The handshake of ppposDisconnect tells the caller the truth.
THEOREM DisconnectMeansClosed == Spec => []ClosedOnReturn
<1>1. IInv => ClosedOnReturn
  BY DEF IInv
<1> QED
  BY <1>1, Inductive, PTL

\* After the task has given up there is never a link again.
THEOREM NoLinkAfterGivingUp == Spec => GivenUpIsFinal
<1> DEFINE Ended == pc \in {"none", "start", "setup", "exit"}
           StaysEnded == pc' \in {"none", "start", "setup", "exit"} /\ session' = "dead"
<1>1. ASSUME IInv, uart, Ended, UNCHANGED vars PROVE StaysEnded
  BY <1>1 DEF IInv, SessionPlace, vars, taskVars
<1>2. ASSUME IInv, uart, Ended, TaskRuns \/ TaskWaitsForModem PROVE StaysEnded
  <2>1. session = "dead"
    BY <1>2 DEF IInv, SessionPlace
  <2> QED
    BY <1>2, <2>1 DEF TaskRuns, TaskWaitsForModem, TaskStarts, Setup, SkipCommand,
       CommandAnswered, CommandFails, Initialized, CreatePpp, Dial, TakeDisconnect,
       AwaitClosed, Reconnect, Retry, Exit, BootDisconnect, Hangup
<1>3. ASSUME IInv, uart, Ended, Ppp \/ Caller PROVE StaysEnded
  <2>1. session = "dead"
    BY <1>3 DEF IInv, SessionPlace
  <2> QED
    BY <1>3, <2>1 DEF Ppp, Caller, PppUp, PppLost, PppFails, PppClosed, CallInit,
       SeesTask, InitReturns, CallDisconnect, RequestDisconnect, CallerPolls,
       SeesTaken, DisconnectReturns, SessionUnchanged, LinkUnchanged, TaskUnchanged,
       taskVars
<1>4. IInv /\ [Next]_vars =>
        [uart /\ pc \in {"none", "start", "setup", "exit"} =>
           pc' \in {"none", "start", "setup", "exit"} /\ session' = "dead"]_vars
  BY <1>1, <1>2, <1>3 DEF Next
<1> QED
  BY <1>4, Inductive, PTL DEF Spec, GivenUpIsFinal
=============================================================================
