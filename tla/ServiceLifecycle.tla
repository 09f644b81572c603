---------------------------- MODULE ServiceLifecycle ----------------------------
(***************************************************************************)
(* The Windows service around the manager: CSystemService of               *)
(* zib_manager/SystemService.cpp and the main loop of CZiBManager::Run.    *)
(*                                                                         *)
(* Three threads: the service's main thread, which builds a manager, runs  *)
(* it, and deletes it to start again or to stop; the control dispatcher,   *)
(* which runs Handler on a STOP; and the manager's message thread, whose   *)
(* ResetInd asks for a reset.  m_status, m_pManager and the manager itself *)
(* are shared without a lock, and SetServiceStatus writes m_status before  *)
(* it reports what m_status then holds.                                    *)
(*                                                                         *)
(* A job is one step here: Discovery and ManagerJobs show that jobs end.   *)
(***************************************************************************)
EXTENDS Naturals

CONSTANT MaxReset   \* bound: the RESET_INDs of the gateway

ASSUME MaxResetAssumption == MaxReset \in Nat

VARIABLES
    status,       \* m_status.dwCurrentState
    scm,          \* the state last reported to the service control manager
    main,         \* where the main thread is
    m_pManager,   \* the number of the manager it points to, or 0
    built,        \* managers constructed
    stage,        \* the last of them: "none", "alive", "destroying", "freed"
    stopEvent, resetEvent,   \* its auto-reset events
    action,       \* what its Run returned, or is about to
    receiving,    \* its message thread runs
    control,      \* where Handler is in a STOP, or "idle"
    seen,         \* m_pManager as Handler tested it
    crashed,      \* undefined behaviour: "no", or the thread that ran into it
    resets,       \* RESET_INDs handled
    asked,        \* history: a STOP was handled to its end
    heard         \* history: Stop reached a manager that had not begun to leave

statusVars == <<status, scm>>
managerVars == <<m_pManager, built, stage, stopEvent, resetEvent, action, receiving, resets>>
controlVars == <<control, seen, asked, heard>>
vars == <<statusVars, managerVars, controlVars, main, crashed>>

Init ==
    /\ status = "STOPPED" /\ scm = "START_PENDING"
    /\ main = "serviceMain"
    /\ m_pManager = 0 /\ built = 0 /\ stage = "none"
    /\ stopEvent = FALSE /\ resetEvent = FALSE
    /\ action = "None" /\ receiving = FALSE /\ resets = 0
    /\ control = "idle" /\ seen = 0
    /\ asked = FALSE /\ heard = FALSE
    /\ crashed = "no"

--------------------------------------------------------------------------------
(* The main thread: ServiceMain and CSystemService::Run. *)

Step(from, to) == main = from /\ main' = to

(* SetServiceStatus on the main thread: m_status, then the report.         *)
SetStatus(from, state, to) ==
    /\ Step(from, to) /\ status' = state
    /\ UNCHANGED <<scm, managerVars, controlVars, crashed>>

Report(from, to) ==
    /\ Step(from, to) /\ scm' = status
    /\ UNCHANGED <<status, managerVars, controlVars, crashed>>

ServiceMain ==
    \/ SetStatus("serviceMain", "START_PENDING", "reportStart")
    \/ SetStatus("serviceMain", "START_PENDING", "over")   \* no control handler
    \/ Report("reportStart", "run")
    \/ SetStatus("run", "RUNNING", "reportRunning")
    \/ Report("reportRunning", "loop")
    \/ SetStatus("left", "STOPPED", "reportStopped")
    \/ Report("reportStopped", "over")

NewManager ==
    /\ Step("loop", "setup")
    /\ built' = built + 1 /\ m_pManager' = built + 1 /\ stage' = "alive"
    /\ stopEvent' = FALSE /\ resetEvent' = FALSE /\ action' = "None"
    /\ UNCHANGED <<statusVars, receiving, resets, controlVars, crashed>>

(* Run's setup up to the message thread: registry, database, serial port.  *)
SetUp ==
    /\ \/ Step("setup", "startTimer") /\ receiving' = TRUE /\ UNCHANGED action
       \/ Step("setup", "leaving") /\ action' = "Error" /\ UNCHANGED receiving
    /\ UNCHANGED <<statusVars, m_pManager, built, stage, stopEvent, resetEvent, resets,
                   controlVars, crashed>>

(* StartJobsTimer, which runs the first jobs itself. *)
StartTimer ==
    /\ \/ Step("startTimer", "job") /\ UNCHANGED action
       \/ Step("startTimer", "leaving") /\ action' = "Error"
    /\ UNCHANGED <<statusVars, m_pManager, built, stage, stopEvent, resetEvent, receiving,
                   resets, controlVars, crashed>>

EndJobs ==
    /\ Step("job", "waiting")
    /\ UNCHANGED <<statusVars, managerVars, controlVars, crashed>>

(* WaitForMultipleObjects returns the first of the signalled handles. *)
WakeForStop ==
    /\ Step("waiting", "leaving") /\ stopEvent
    /\ stopEvent' = FALSE /\ action' = "Exit"
    /\ UNCHANGED <<statusVars, m_pManager, built, stage, resetEvent, receiving, resets,
                   controlVars, crashed>>

(* Seeded fault: the reset event comes first in the handles waited for. *)
WakeForResetFirst ==
    /\ Step("waiting", "leaving") /\ resetEvent
    /\ resetEvent' = FALSE /\ action' = "Reset"
    /\ UNCHANGED <<statusVars, m_pManager, built, stage, stopEvent, receiving, resets,
                   controlVars, crashed>>

(* Seeded fault: a reset ends Run as a stop does. *)
WakeForResetExits ==
    /\ Step("waiting", "leaving") /\ ~stopEvent /\ resetEvent
    /\ resetEvent' = FALSE /\ action' = "Exit"
    /\ UNCHANGED <<statusVars, m_pManager, built, stage, stopEvent, receiving, resets,
                   controlVars, crashed>>

WakeForReset ==
    /\ Step("waiting", "leaving") /\ ~stopEvent /\ resetEvent
    /\ resetEvent' = FALSE /\ action' = "Reset"
    /\ UNCHANGED <<statusVars, m_pManager, built, stage, stopEvent, receiving, resets,
                   controlVars, crashed>>

WakeForTimer ==
    /\ Step("waiting", "job") /\ ~stopEvent /\ ~resetEvent
    /\ UNCHANGED <<statusVars, managerVars, controlVars, crashed>>

(* delete m_pManager: ~CZiBManager closes the events and destroys the      *)
(* maps, then ~IZiBGatewayComm stops the threads.                          *)
BeginDelete ==
    /\ Step("leaving", "deleting")
    /\ stage' = "destroying"
    /\ UNCHANGED <<statusVars, m_pManager, built, stopEvent, resetEvent, action, receiving,
                   resets, controlVars, crashed>>

(* Seeded fault: the destructor does not stop the message thread. *)
EndDeleteKeepsThread ==
    /\ Step("deleting", "forgetting")
    /\ stage' = "freed"
    /\ UNCHANGED <<statusVars, m_pManager, built, stopEvent, resetEvent, action, receiving,
                   resets, controlVars, crashed>>

EndDelete ==
    /\ Step("deleting", "forgetting")
    /\ stage' = "freed" /\ receiving' = FALSE
    /\ UNCHANGED <<statusVars, m_pManager, built, stopEvent, resetEvent, action, resets,
                   controlVars, crashed>>

Forget ==
    /\ Step("forgetting", IF action = "Reset" THEN "loop" ELSE "left")
    /\ m_pManager' = 0
    /\ UNCHANGED <<statusVars, built, stage, stopEvent, resetEvent, action, receiving,
                   resets, controlVars, crashed>>

--------------------------------------------------------------------------------
(* The control dispatcher: Handler. *)

(* The control manager sends STOP to a service that reported RUNNING. *)
SendStop ==
    /\ control = "idle" /\ scm = "RUNNING"
    /\ control' = "setStatus"
    /\ UNCHANGED <<statusVars, managerVars, seen, asked, heard, main, crashed>>

HandlerSetsStatus ==
    /\ control = "setStatus"
    /\ control' = "report" /\ status' = "STOP_PENDING"
    /\ UNCHANGED <<scm, managerVars, seen, asked, heard, main, crashed>>

HandlerReports ==
    /\ control = "report"
    /\ control' = "test" /\ scm' = status
    /\ UNCHANGED <<status, managerVars, seen, asked, heard, main, crashed>>

(* Seeded fault: m_pManager is not tested. *)
HandlerTestsNothing ==
    /\ control = "test"
    /\ seen' = m_pManager /\ control' = "stop"
    /\ UNCHANGED <<statusVars, managerVars, asked, heard, main, crashed>>

HandlerTests ==
    /\ control = "test"
    /\ seen' = m_pManager
    /\ IF m_pManager # 0
       THEN control' = "stop" /\ UNCHANGED asked
       ELSE control' = "idle" /\ asked' = TRUE
    /\ UNCHANGED <<statusVars, managerVars, heard, main, crashed>>

(* Seeded fault: Stop only looks at a manager that is waiting for its events. *)
StopIfWaiting ==
    /\ control = "stop"
    /\ control' = "idle" /\ asked' = TRUE
    /\ IF m_pManager # 0 /\ stage = "alive"
       THEN /\ stopEvent' = (stopEvent \/ main = "waiting")
            /\ heard' = (heard \/ main # "leaving")
            /\ UNCHANGED crashed
       ELSE crashed' = "control" /\ UNCHANGED <<stopEvent, heard>>
    /\ UNCHANGED <<statusVars, m_pManager, built, stage, resetEvent, action, receiving,
                   resets, seen, main>>

(* Seeded fault: the pending stop is reported by a call after Stop. *)
StopThenReport ==
    /\ control = "stop"
    /\ IF heard
       THEN /\ control' = "idle" /\ asked' = TRUE /\ scm' = "STOP_PENDING"
            /\ UNCHANGED <<stopEvent, heard, crashed>>
       ELSE /\ UNCHANGED <<control, asked, scm>>
            /\ IF m_pManager # 0 /\ stage = "alive"
               THEN stopEvent' = TRUE /\ heard' = TRUE /\ UNCHANGED crashed
               ELSE crashed' = "control" /\ UNCHANGED <<stopEvent, heard>>
    /\ UNCHANGED <<status, m_pManager, built, stage, resetEvent, action, receiving,
                   resets, seen, main>>

(* Stop on the manager tested, or on the one m_pManager now points to: the *)
(* compiler may read it again.  Only a living manager has an event to set. *)
Stop ==
    /\ control = "stop"
    /\ control' = "idle" /\ asked' = TRUE
    /\ \E target \in {seen, m_pManager} :
          IF target = built /\ stage = "alive"
          THEN /\ stopEvent' = TRUE
               /\ heard' = (heard \/ main # "leaving")
               /\ UNCHANGED crashed
          ELSE crashed' = "control" /\ UNCHANGED <<stopEvent, heard>>
    /\ UNCHANGED <<statusVars, m_pManager, built, stage, resetEvent, action, receiving,
                   resets, seen, main>>

--------------------------------------------------------------------------------
(* The manager's message thread. *)

ResetInd ==
    /\ receiving /\ stage = "alive" /\ resets < MaxReset
    /\ resetEvent' = TRUE /\ resets' = resets + 1
    /\ UNCHANGED <<statusVars, m_pManager, built, stage, stopEvent, action, receiving,
                   controlVars, main, crashed>>

(* Any message: its handler is a virtual function of the derived class. *)
MessageDuringDelete ==
    /\ receiving /\ stage = "destroying"
    /\ crashed' = "message"
    /\ UNCHANGED <<statusVars, managerVars, controlVars, main>>

--------------------------------------------------------------------------------

MainStep == \/ ServiceMain \/ NewManager \/ SetUp \/ StartTimer \/ EndJobs
            \/ WakeForStop \/ WakeForReset \/ WakeForTimer
            \/ BeginDelete \/ EndDelete \/ Forget

ControlStep == HandlerSetsStatus \/ HandlerReports \/ HandlerTests \/ Stop

MessageStep == ResetInd \/ MessageDuringDelete

(* The service is over, or its behaviour is undefined. *)
Finished == (crashed # "no" \/ main = "over") /\ UNCHANGED vars

Next == \/ crashed = "no" /\ (MainStep \/ SendStop \/ ControlStep \/ MessageStep)
        \/ Finished

Spec == Init /\ [][Next]_vars

(* Both are threads of the process that run; nothing is assumed of who     *)
(* stops the service, nor of the gateway.                                  *)
FairSpec == Spec /\ WF_vars(crashed = "no" /\ MainStep)
                 /\ WF_vars(crashed = "no" /\ ControlStep)

--------------------------------------------------------------------------------
(* Properties. *)

(* Types; the message thread never outlives its manager, and a new manager *)
(* is built only when the last one is forgotten.                           *)
TypeOK ==
    /\ {status, scm} \subseteq {"START_PENDING", "RUNNING", "STOP_PENDING", "STOPPED"}
    /\ built \in 0 .. MaxReset + 1 /\ m_pManager \in {0, built} /\ seen \in 0 .. built
    /\ stage \in {"none", "alive", "destroying", "freed"}
    /\ {stopEvent, resetEvent, receiving, asked, heard} \subseteq BOOLEAN
    /\ action \in {"None", "Exit", "Reset", "Error"}
    /\ crashed \in {"no", "control", "message"} /\ resets \in 0 .. MaxReset
    /\ receiving => stage \in {"alive", "destroying"}
    /\ main = "loop" => m_pManager = 0

(* Once Stop has reached a manager that had not begun to leave, no other   *)
(* manager is built, whatever resets arrive: m_hStopEvent is the first of  *)
(* the handles Run waits for.                                              *)
LoopEndsWhenHeard == [][heard => built' = built]_vars

(* "Run in a loop until Exit is signaled" (SystemService.cpp): after a     *)
(* STOP was handled the loop builds no other manager.                      *)
LoopEndsOnExit == [][asked => built' = built]_vars

(* The states reported go START_PENDING, RUNNING, STOP_PENDING, STOPPED,   *)
(* in this order, unless the manager left with an error while Handler was  *)
(* at work: the two threads share m_status.                                *)
Rank == [START_PENDING |-> 1, RUNNING |-> 2, STOP_PENDING |-> 3, STOPPED |-> 4]
StatusOrder == [][action # "Error" => Rank[scm] <= Rank[scm']]_vars

(* Handler calls a manager that is gone, or none, only if the manager left *)
(* for a reset or an error while Handler was at work.                      *)
ControlMeetsManager == crashed = "control" => resets > 0 \/ action = "Error"

(* A Stop that reached its manager in time ends the service: STOPPED is    *)
(* reported, and nothing is reported over it.                              *)
StopEndsService == heard ~> ([](scm = "STOPPED") \/ crashed # "no")

(* A RESET_IND leads to a new manager, unless it cannot start, is told to  *)
(* stop, or a late message meets its destructor.                           *)
ResetRebuilds ==
    \A k \in 1 .. MaxReset :
        built = k /\ resetEvent ~>
            (built > k \/ action = "Error" \/ heard \/ crashed # "no")

================================================================================
