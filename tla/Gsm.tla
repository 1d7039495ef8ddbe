-------------------------------- MODULE Gsm --------------------------------
(***************************************************************************)
(* The GSM/PPPoS link of components/libGSM.c: the task pppos_client_task,  *)
(* the PPP status callback, which lwIP runs in its own thread, and the     *)
(* program that calls ppposInit and ppposDisconnect (SIM_init until the    *)
(* collector exists, then the MQTT task: one caller at a time).  They meet *)
(* in gsm_status, do_pppos_connect and pppos_task_started.                 *)
(*                                                                         *)
(* The modem's answers are free: every AT command may be answered as       *)
(* expected or not, and a PPP session may come up, fail or drop whenever   *)
(* it exists.                                                              *)
(***************************************************************************)
EXTENDS Integers

CONSTANTS
    Commands,   \* GSM_InitCmdsSize; the last command is cmd_Connect
    MaxFail     \* failures of one initialization before the task gives up

ASSUME CommandsAssumption == Commands \in Nat \ {0} /\ MaxFail \in Nat

VARIABLES
    gsm_status, do_pppos_connect, pppos_task_started,
    pc,         \* where pppos_client_task is; "none" when there is no task
    iter,       \* gsmCmdIter, counted from 1
    nfail,
    skip,       \* the commands whose skip flag is set
    uart,       \* the UART driver is installed
    ppp,        \* the PPP control block: "null", "live" or "freed"
    session,    \* the PPP session of the control block
    carrier,    \* cmd_Connect was answered and no session has ended since
    end_task,   \* the local of the disconnect branch: the task is to end
    caller      \* where the calling program is

taskVars == <<pc, iter, nfail, skip, uart, ppp, end_task>>
vars == <<gsm_status, do_pppos_connect, pppos_task_started, taskVars,
          session, carrier, caller>>

\* Every variable stays in its range; nfail never exceeds its limit
\* (libGSM.c:607) and gsmCmdIter never leaves GSM_Init (libGSM.c:587).
TypeOK ==
    /\ gsm_status \in {"DISCONNECTED", "CONNECTED", "IDLE", "FIRSTINIT"}
    /\ do_pppos_connect \in -1..1
    /\ pppos_task_started \in BOOLEAN
    /\ pc \in {"none", "start", "setup", "boot", "at", "create", "dial",
               "serve", "close", "hangup", "rest", "exit"}
    /\ iter \in 1..Commands + 1
    /\ nfail \in 0..MaxFail
    /\ skip \subseteq 1..Commands
    /\ uart \in BOOLEAN
    /\ ppp \in {"null", "live", "freed"}
    /\ session \in {"dead", "dialing", "up", "closing"}
    /\ carrier \in BOOLEAN
    /\ end_task \in BOOLEAN
    /\ caller \in {"down", "awaitStart", "awaitStatus", "using",
                   "disconnect", "awaitTaken", "awaitDone", "off"}

Init ==
    /\ gsm_status = "FIRSTINIT"
    /\ do_pppos_connect = 1
    /\ pppos_task_started = FALSE
    /\ pc = "none"
    /\ iter = 1
    /\ nfail = 0
    /\ skip = {}
    /\ uart = FALSE
    /\ ppp = "null"
    /\ session = "dead"
    /\ carrier = FALSE
    /\ end_task = FALSE
    /\ caller = "down"

-----------------------------------------------------------------------------
\* pppos_client_task.

\* Entering the main loop: the locals gsmCmdIter and nfail start afresh.
EnterLoop == pc' = "at" /\ iter' = 1 /\ nfail' = 0

TaskStarts ==
    /\ pc = "start"
    /\ pppos_task_started' = TRUE
    /\ pc' = "setup"
    /\ UNCHANGED <<gsm_status, do_pppos_connect, iter, nfail, skip, uart, ppp,
                   end_task, session, carrier, caller>>

\* A plausible slip: the result of uart_driver_install is not looked at.
SetupUnchecked ==
    /\ pc = "setup"
    /\ caller # "awaitStart"
    /\ uart' = TRUE
    /\ pc' = "boot"
    /\ UNCHANGED <<gsm_status, do_pppos_connect, pppos_task_started, iter,
                   nfail, skip, ppp, end_task, session, carrier, caller>>

\* Buffer, pins and UART.  uart_driver_install fails when the driver is
\* already there.  Success takes far longer than one poll of ppposInit (the
\* AT commands of _disconnect), so the poll sees the flag first; failure need
\* not.
Setup ==
    /\ pc = "setup"
    /\ \/ /\ ~ uart
          /\ caller # "awaitStart"
          /\ uart' = TRUE
          /\ pc' = "boot"
       \/ /\ pc' = "exit"
          /\ UNCHANGED uart
    /\ UNCHANGED <<gsm_status, do_pppos_connect, pppos_task_started, iter,
                   nfail, skip, ppp, end_task, session, carrier, caller>>

\* _disconnect(1) returns once the modem has answered (it may never), then the
\* shared state and the commands are reset.
BootDisconnect ==
    /\ pc = "boot"
    /\ gsm_status' = "FIRSTINIT"
    /\ skip' = {}
    /\ carrier' = FALSE
    /\ EnterLoop
    /\ UNCHANGED <<do_pppos_connect, pppos_task_started, uart, ppp, end_task,
                   session, caller>>

SkipCommand ==
    /\ pc = "at"
    /\ iter \in skip
    /\ iter' = iter + 1
    /\ UNCHANGED <<gsm_status, do_pppos_connect, pppos_task_started, pc, nfail,
                   skip, uart, ppp, end_task, session, carrier, caller>>

\* atCmd_waitResponse found the expected answer.
CommandAnswered ==
    /\ pc = "at"
    /\ iter \in 1..Commands \ skip
    /\ skip' = skip \cup {iter}
    /\ carrier' = (carrier \/ iter = Commands)
    /\ iter' = iter + 1
    /\ UNCHANGED <<gsm_status, do_pppos_connect, pppos_task_started, pc, nfail,
                   uart, ppp, end_task, session, caller>>

\* A plausible slip: one failure too many is counted.
CommandFailsOnceMore ==
    /\ pc = "at"
    /\ iter \in 1..Commands \ skip
    /\ \/ /\ nfail <= MaxFail
          /\ nfail' = nfail + 1
          /\ iter' = 1
          /\ UNCHANGED pc
       \/ /\ nfail > MaxFail
          /\ pc' = "exit"
          /\ UNCHANGED <<nfail, iter>>
    /\ UNCHANGED <<gsm_status, do_pppos_connect, pppos_task_started, skip,
                   uart, ppp, end_task, session, carrier, caller>>

\* A plausible slip: the failures are not counted.
CommandFailsUncounted ==
    /\ pc = "at"
    /\ iter \in 1..Commands \ skip
    /\ iter' = 1
    /\ UNCHANGED <<gsm_status, do_pppos_connect, pppos_task_started, pc, nfail,
                   skip, uart, ppp, end_task, session, carrier, caller>>

\* A wrong answer or none: from the first command again, or give up.
CommandFails ==
    /\ pc = "at"
    /\ iter \in 1..Commands \ skip
    /\ \/ /\ nfail < MaxFail
          /\ nfail' = nfail + 1
          /\ iter' = 1
          /\ UNCHANGED pc
       \/ /\ nfail = MaxFail
          /\ pc' = "exit"
          /\ UNCHANGED <<nfail, iter>>
    /\ UNCHANGED <<gsm_status, do_pppos_connect, pppos_task_started, skip,
                   uart, ppp, end_task, session, carrier, caller>>

Initialized ==
    /\ pc = "at"
    /\ iter = Commands + 1
    /\ pc' = IF gsm_status = "FIRSTINIT" THEN "create" ELSE "dial"
    /\ UNCHANGED <<gsm_status, do_pppos_connect, pppos_task_started, iter,
                   nfail, skip, uart, ppp, end_task, session, carrier, caller>>

\* A plausible slip: the result is not checked.
CreatePppUnchecked ==
    /\ pc = "create"
    /\ ppp' \in {"live", "null"}
    /\ pc' = "dial"
    /\ UNCHANGED <<gsm_status, do_pppos_connect, pppos_task_started, iter,
                   nfail, skip, uart, end_task, session, carrier, caller>>

\* pppapi_pppos_create, which may find no memory: ppp is NULL then.
CreatePpp ==
    /\ pc = "create"
    /\ \/ ppp' = "live" /\ pc' = "dial"
       \/ ppp' = "null" /\ pc' = "exit"
    /\ UNCHANGED <<gsm_status, do_pppos_connect, pppos_task_started, iter,
                   nfail, skip, uart, end_task, session, carrier, caller>>

\* The status is IDLE before pppapi_connect, so that the callback comes after.
Dial ==
    /\ pc = "dial"
    /\ gsm_status' = "IDLE"
    /\ session' = "dialing"
    /\ pc' = "serve"
    /\ UNCHANGED <<do_pppos_connect, pppos_task_started, iter, nfail, skip,
                   uart, ppp, end_task, carrier, caller>>

\* What pppapi_close does: a dead session calls back at once (PPPERR_USER), a
\* live one when the peer has agreed or the attempts are used up.
PppClose ==
    IF session = "dead"
    THEN gsm_status' = "DISCONNECTED" /\ UNCHANGED session
    ELSE session' = "closing" /\ UNCHANGED gsm_status

\* A plausible slip: the close is not waited for.
TakeDisconnectUnawaited ==
    /\ pc = "serve"
    /\ do_pppos_connect <= 0
    /\ end_task' = (do_pppos_connect < 0)
    /\ do_pppos_connect' = 1
    /\ PppClose
    /\ pc' = "hangup"
    /\ UNCHANGED <<pppos_task_started, iter, nfail, skip, uart, ppp, carrier,
                   caller>>

\* A plausible slip: the request is acknowledged when it is taken.
TakeDisconnectEarlyAck ==
    /\ pc = "serve"
    /\ do_pppos_connect <= 0
    /\ end_task' = (do_pppos_connect < 0)
    /\ do_pppos_connect' = 0
    /\ PppClose
    /\ pc' = "close"
    /\ UNCHANGED <<pppos_task_started, iter, nfail, skip, uart, ppp, carrier,
                   caller>>

\* The inner loop finds a disconnect request.
TakeDisconnect ==
    /\ pc = "serve"
    /\ do_pppos_connect <= 0
    /\ end_task' = (do_pppos_connect < 0)
    /\ do_pppos_connect' = 1
    /\ PppClose
    /\ pc' = "close"
    /\ UNCHANGED <<pppos_task_started, iter, nfail, skip, uart, ppp, carrier,
                   caller>>

\* while (gsm_status != GSM_STATE_DISCONNECTED)
AwaitClosed ==
    /\ pc = "close"
    /\ gsm_status = "DISCONNECTED"
    /\ pc' = "hangup"
    /\ UNCHANGED <<gsm_status, do_pppos_connect, pppos_task_started, iter,
                   nfail, skip, uart, ppp, end_task, session, carrier, caller>>

\* A plausible slip: the end of the disconnection is not told.
HangupUntold ==
    /\ pc = "hangup"
    /\ caller # "awaitTaken"
    /\ skip' = {}
    /\ carrier' = FALSE
    /\ gsm_status' = "IDLE"
    /\ pc' = IF end_task THEN "exit" ELSE "rest"
    /\ UNCHANGED <<do_pppos_connect, pppos_task_started, iter, nfail, uart,
                   ppp, end_task, session, caller>>

\* _disconnect(gsm_rfOff) and what follows.  The task spent more than a second
\* here, so the caller, polling every 10 ms, has seen its request taken.
Hangup ==
    /\ pc = "hangup"
    /\ caller # "awaitTaken"
    /\ skip' = {}
    /\ carrier' = FALSE
    /\ gsm_status' = "IDLE"
    /\ do_pppos_connect' = 0
    /\ pc' = IF end_task THEN "exit" ELSE "rest"
    /\ UNCHANGED <<pppos_task_started, iter, nfail, uart, ppp, end_task,
                   session, caller>>

\* Waiting for the reconnect request.
Reconnect ==
    /\ pc = "rest"
    /\ do_pppos_connect # 0
    /\ EnterLoop
    /\ UNCHANGED <<gsm_status, do_pppos_connect, pppos_task_started, skip,
                   uart, ppp, end_task, session, carrier, caller>>

\* A plausible slip: the commands keep their skip flags on a lost link.
RetryWithoutReset ==
    /\ pc = "serve"
    /\ do_pppos_connect > 0
    /\ gsm_status = "DISCONNECTED"
    /\ gsm_status' = "IDLE"
    /\ session' = IF session = "dead" THEN "dead" ELSE "closing"
    /\ EnterLoop
    /\ UNCHANGED <<do_pppos_connect, pppos_task_started, skip, uart, ppp,
                   end_task, carrier, caller>>

\* The inner loop finds the link lost: close, reset the commands, try again.  The
\* code lets go of the mutex before these; they are one step here, since the
\* session is dead and its callback has nothing more to report.
Retry ==
    /\ pc = "serve"
    /\ do_pppos_connect > 0
    /\ gsm_status = "DISCONNECTED"
    /\ gsm_status' = "IDLE"
    /\ session' = IF session = "dead" THEN "dead" ELSE "closing"
    /\ skip' = {}
    /\ EnterLoop
    /\ UNCHANGED <<do_pppos_connect, pppos_task_started, uart, ppp, end_task,
                   carrier, caller>>

\* The label exit: ppp keeps its value, so that a second exit frees it again.
Exit ==
    /\ pc = "exit"
    /\ ppp' = IF ppp = "null" THEN "null" ELSE "freed"
    /\ pppos_task_started' = FALSE
    /\ gsm_status' = "FIRSTINIT"
    /\ pc' = "none"
    /\ UNCHANGED <<do_pppos_connect, iter, nfail, skip, uart, end_task,
                   session, carrier, caller>>

-----------------------------------------------------------------------------
\* lwIP's thread: the session and ppp_status_cb.

SessionUnchanged ==
    UNCHANGED <<do_pppos_connect, pppos_task_started, taskVars, caller>>

PppUp ==
    /\ session = "dialing"
    /\ session' = "up"
    /\ gsm_status' = "CONNECTED"
    /\ UNCHANGED carrier
    /\ SessionUnchanged

\* PPPERR_CONNECT.
PppLost ==
    /\ session \in {"dialing", "up"}
    /\ session' = "dead"
    /\ gsm_status' = "DISCONNECTED"
    /\ carrier' = FALSE
    /\ SessionUnchanged

\* The errors the callback only logs: authentication, protocol, dead peer...
PppFails ==
    /\ session \in {"dialing", "up"}
    /\ session' = "dead"
    /\ carrier' = FALSE
    /\ UNCHANGED gsm_status
    /\ SessionUnchanged

\* PPPERR_USER, the end of a close.
PppClosed ==
    /\ session = "closing"
    /\ session' = "dead"
    /\ gsm_status' = "DISCONNECTED"
    /\ carrier' = FALSE
    /\ SessionUnchanged

-----------------------------------------------------------------------------
\* The calling program.

LinkUnchanged == UNCHANGED <<gsm_status, session, carrier>>

TaskUnchanged == UNCHANGED <<taskVars, pppos_task_started>>

\* ppposInit: lines 763-772, one critical section; then the task is created
\* when the flag was down.
CallInit ==
    /\ caller \in {"down", "using", "off"}
    /\ do_pppos_connect' = 1
    /\ IF pppos_task_started
       THEN caller' = "awaitStatus" /\ UNCHANGED pc
       ELSE caller' = "awaitStart" /\ pc' = "start"
    /\ UNCHANGED <<pppos_task_started, iter, nfail, skip, uart, ppp, end_task>>
    /\ LinkUnchanged

SeesTask ==
    /\ caller = "awaitStart"
    /\ pppos_task_started
    /\ caller' = "awaitStatus"
    /\ UNCHANGED do_pppos_connect
    /\ TaskUnchanged /\ LinkUnchanged

\* One poll of gsm_status and pppos_task_started that ends the loop.
InitReturns ==
    /\ caller = "awaitStatus"
    /\ \/ ~ pppos_task_started /\ caller' = "down"
       \/ /\ pppos_task_started
          /\ gsm_status = "CONNECTED"
          /\ caller' = "using"
    /\ UNCHANGED do_pppos_connect
    /\ TaskUnchanged /\ LinkUnchanged

\* ppposDisconnect reads the status first and does nothing when it is IDLE.
CallDisconnect ==
    /\ caller = "using"
    /\ gsm_status # "IDLE"
    /\ caller' = "disconnect"
    /\ UNCHANGED do_pppos_connect
    /\ TaskUnchanged /\ LinkUnchanged

\* Two seconds later it files the request.
RequestDisconnect ==
    /\ caller = "disconnect"
    /\ do_pppos_connect' \in {-1, 0}
    /\ caller' = "awaitTaken"
    /\ TaskUnchanged /\ LinkUnchanged

SeesTaken ==
    /\ caller = "awaitTaken"
    /\ do_pppos_connect # 0
    /\ caller' = "awaitDone"
    /\ UNCHANGED do_pppos_connect
    /\ TaskUnchanged /\ LinkUnchanged

DisconnectReturns ==
    /\ caller = "awaitDone"
    /\ do_pppos_connect = 0
    /\ caller' = "off"
    /\ UNCHANGED do_pppos_connect
    /\ TaskUnchanged /\ LinkUnchanged

-----------------------------------------------------------------------------
\* The steps of the task that depend on nothing but the processor, the AT
\* commands included: atCmd_waitResponse always ends, by its timeout at last.
TaskRuns ==
    \/ TaskStarts \/ Setup \/ SkipCommand \/ CommandAnswered \/ CommandFails
    \/ Initialized \/ CreatePpp \/ Dial \/ TakeDisconnect \/ AwaitClosed
    \/ Reconnect \/ Retry \/ Exit

\* The steps that wait for the modem to answer ATH, however long it takes.
TaskWaitsForModem == BootDisconnect \/ Hangup

Ppp == PppUp \/ PppLost \/ PppFails \/ PppClosed

CallerPolls == SeesTask \/ InitReturns \/ SeesTaken \/ DisconnectReturns

Caller == CallInit \/ CallDisconnect \/ RequestDisconnect \/ CallerPolls

Next == TaskRuns \/ TaskWaitsForModem \/ Ppp \/ Caller

Spec == Init /\ [][Next]_vars

\* The scheduler runs the task.
FairSpec == Spec /\ WF_vars(TaskRuns)

\* What a disconnection takes besides: the modem answers ATH at last, lwIP ends
\* every close (its terminate requests time out), and the caller polls on.
ModemAnswers ==
    /\ WF_vars(TaskWaitsForModem)
    /\ WF_vars(PppClosed)
    /\ WF_vars(RequestDisconnect) /\ WF_vars(CallerPolls)

-----------------------------------------------------------------------------
\* The task and lwIP's thread share one UART: while the task talks AT commands
\* to the modem (libGSM.c:573-650, 434-486) no PPP session writes frames.  It
\* rests on the status being DISCONNECTED only once the session is dead.
AtModeQuiet ==
    /\ pc \in {"boot", "at", "create", "dial", "hangup", "rest"}
         => session = "dead"
    /\ gsm_status = "DISCONNECTED" => session = "dead"

\* PPP is only dialled over a modem that cmd_Connect has put in data mode since
\* the last session ended: the skip flags (libGSM.c:489-495, 640) never make
\* the task skip cmd_Connect on a reconnect.
DialsInDataMode == session # "dead" => carrier

\* A session exists only while the task runs and its control block is
\* allocated: ppp_free (libGSM.c:748) never finds a session alive, whichever
\* way the task ends, and nothing is dialled on a NULL or freed block.
SessionHasPpp == session # "dead" => ppp = "live" /\ pppos_task_started

\* When ppposDisconnect returns after its handshake through do_pppos_connect,
\* the session is dead, and it stays so until the program calls ppposInit.
ClosedOnReturn ==
    caller = "off" => session = "dead" /\ pc \in {"rest", "exit", "none"}

\* A lost link is dialled again, unless the modem fails too often and the task
\* ends, or the program asked for the disconnection.
LostLinkIsRedialled ==
    gsm_status = "DISCONNECTED"
      ~> session = "dialing" \/ pc \in {"exit", "hangup"}

\* ppposDisconnect returns if the modem answers, or its task has ended or ends
\* before it takes the request: then the caller waits for ever (libGSM.c:837-848).
DisconnectIsAnswered ==
    ModemAnswers =>
      (caller \in {"disconnect", "awaitTaken", "awaitDone"}
         ~> caller = "off" \/ pc \in {"exit", "none", "start", "setup"})

\* Once the task has given up, no later task gets as far as the modem: the exit
\* leaves the UART driver installed, and installing it again fails
\* (libGSM.c:553, 745-757).  Every later ppposInit returns 0.
GivenUpIsFinal ==
    [][uart /\ pc \in {"none", "start", "setup", "exit"} =>
         pc' \in {"none", "start", "setup", "exit"} /\ session' = "dead"]_vars
=============================================================================
