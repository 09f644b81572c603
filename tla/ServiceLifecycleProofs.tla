------------------------- MODULE ServiceLifecycleProofs -------------------------
(***************************************************************************)
(* Proofs about ServiceLifecycle, for any number of resets.                *)
(*                                                                         *)
(* The safety properties follow from one inductive invariant, Inv: where   *)
(* the main thread is determines the manager's stage and what may have     *)
(* been reported; a STOP handled to its end keeps Handler away for good;   *)
(* and a Stop that was heard is still in the stop event, or is the reason  *)
(* the manager leaves.                                                     *)
(***************************************************************************)
EXTENDS ServiceLifecycle, TLAPS

Early == {"serviceMain", "reportStart", "run", "reportRunning"}
Running == {"setup", "startTimer", "job", "waiting"}
Leaving == {"leaving", "deleting", "forgetting"}
Left == {"left", "reportStopped", "over"}

Types ==
    /\ status \in {"START_PENDING", "RUNNING", "STOP_PENDING", "STOPPED"}
    /\ scm \in {"START_PENDING", "RUNNING", "STOP_PENDING", "STOPPED"}
    /\ main \in Early \cup {"loop"} \cup Running \cup Leaving \cup Left
    /\ built \in Nat /\ m_pManager \in {0, built} /\ seen \in 0 .. built
    /\ stage \in {"none", "alive", "destroying", "freed"}
    /\ action \in {"None", "Exit", "Reset", "Error"}
    /\ control \in {"idle", "setStatus", "report", "test", "stop"}
    /\ crashed \in {"no", "control", "message"} /\ resets \in 0 .. MaxReset

(* Where the main thread is, and what that says of the manager. *)
MainInv ==
    /\ main \in Early => built = 0 /\ action = "None" /\ scm = "START_PENDING"
                         /\ control = "idle" /\ ~asked
    /\ main = "reportStart" => status = "START_PENDING"
    /\ main = "reportRunning" => status = "RUNNING"
    /\ main = "loop" => m_pManager = 0 /\ (built = 0 \/ action = "Reset")
    /\ main \in Running => action = "None"
    /\ main \in Leaving => action # "None"
    /\ main \in Left => (built = 0 \/ action \in {"Exit", "Error"})
    /\ main \in Running \cup Leaving => built > 0 /\ m_pManager = built
    /\ stage = "alive" => main \in Running \cup {"leaving"}
    /\ main \in Running \cup {"leaving"} => stage = "alive"
    /\ receiving => stage \in {"alive", "destroying"}
    /\ receiving => main \in Running \cup {"leaving", "deleting"}

(* Every manager but the first answers a reset. *)
ResetInv ==
    /\ built <= resets + 1
    /\ resetEvent \/ action = "Reset" => built <= resets

(* What the control dispatcher has done and reported. *)
ControlInv ==
    /\ built = 0 => seen = 0 /\ ~heard
    /\ built = 0 /\ main \in Left => scm = "START_PENDING" /\ control = "idle"
    /\ main = "reportStopped" => status \in {"STOP_PENDING", "STOPPED"} /\ built > 0
    /\ main = "left" => built > 0
    /\ main = "reportStopped" /\ action = "Exit" => status = "STOPPED"
    /\ status = "STOPPED" => main \in {"serviceMain", "reportStopped", "over"}
    /\ control = "report" => status \in {"STOP_PENDING", "STOPPED"}
    /\ control \in {"test", "stop"} => scm # "RUNNING"
    /\ control = "stop" => seen > 0
    /\ asked => scm # "RUNNING" /\ control = "idle"
    /\ scm = "STOPPED" => main \in {"reportStopped", "over"}

(* A Stop heard is not forgotten. *)
HeardInv ==
    /\ stopEvent \/ action = "Exit" \/ heard => asked
    /\ heard => main \notin Early \cup {"loop"}
    /\ heard /\ main \in Running => stopEvent
    /\ heard /\ main \in Leaving => action \in {"Exit", "Error"}

Inv == Types /\ MainInv /\ ResetInv /\ ControlInv /\ HeardInv /\ ControlMeetsManager

--------------------------------------------------------------------------------

(* The service begins with no manager, no control and nothing reported.    *)
LEMMA InitInv == Init => Inv
BY MaxResetAssumption DEF Init, Inv, Types, MainInv, ResetInv, ControlInv, HeardInv,
   ControlMeetsManager, Early, Running, Leaving, Left

(* ServiceMain and Run report START_PENDING, RUNNING and STOPPED in turn,   *)
(* the last only after the loop.                                           *)
LEMMA ServiceMainInv == Inv /\ crashed = "no" /\ ServiceMain => Inv'
<1> SUFFICES ASSUME Inv, crashed = "no", ServiceMain PROVE Inv'
  OBVIOUS
<1> USE MaxResetAssumption DEF Inv, Types, ServiceMain, Early, Running, Leaving, Left, statusVars, managerVars, controlVars, SetStatus, Report, Step
<1>1. Types'
  BY DEF MainInv, ResetInv
<1>2. MainInv'
  BY DEF MainInv, ResetInv, ControlInv, HeardInv
<1>3. ResetInv'
  BY DEF MainInv, ResetInv
<1>4. ControlInv'
  BY DEF MainInv, ControlInv, HeardInv
<1>5. HeardInv'
  BY DEF MainInv, ControlInv, HeardInv
<1>6. ControlMeetsManager'
  BY DEF MainInv, ResetInv, ControlInv, HeardInv, ControlMeetsManager
<1> QED
  BY <1>1, <1>2, <1>3, <1>4, <1>5, <1>6

(* A manager is built only when no Stop was heard: each but the first       *)
(* answers a reset.                                                        *)
LEMMA NewManagerInv == Inv /\ crashed = "no" /\ NewManager => Inv'
<1> SUFFICES ASSUME Inv, crashed = "no", NewManager PROVE Inv'
  OBVIOUS
<1> USE MaxResetAssumption DEF Inv, Types, NewManager, Early, Running, Leaving, Left, statusVars, managerVars, controlVars, Step
<1>1. Types'
  BY DEF MainInv, ResetInv
<1>2. MainInv'
  BY DEF MainInv, ResetInv, ControlInv, HeardInv
<1>3. ResetInv'
  BY DEF MainInv, ResetInv
<1>4. ControlInv'
  BY DEF MainInv, ControlInv, HeardInv
<1>5. HeardInv'
  BY DEF MainInv, ControlInv, HeardInv
<1>6. ControlMeetsManager'
  BY DEF MainInv, ResetInv, ControlInv, HeardInv, ControlMeetsManager
<1> QED
  BY <1>1, <1>2, <1>3, <1>4, <1>5, <1>6

(* Setting a manager up starts its message thread or ends in an error.     *)
LEMMA SetUpInv == Inv /\ crashed = "no" /\ SetUp => Inv'
<1> SUFFICES ASSUME Inv, crashed = "no", SetUp PROVE Inv'
  OBVIOUS
<1> USE MaxResetAssumption DEF Inv, Types, SetUp, Early, Running, Leaving, Left, statusVars, managerVars, controlVars, Step
<1>1. Types'
  BY DEF MainInv, ResetInv
<1>2. MainInv'
  BY DEF MainInv, ResetInv, ControlInv, HeardInv
<1>3. ResetInv'
  BY DEF MainInv, ResetInv
<1>4. ControlInv'
  BY DEF MainInv, ControlInv, HeardInv
<1>5. HeardInv'
  BY DEF MainInv, ControlInv, HeardInv
<1>6. ControlMeetsManager'
  BY DEF MainInv, ResetInv, ControlInv, HeardInv, ControlMeetsManager
<1> QED
  BY <1>1, <1>2, <1>3, <1>4, <1>5, <1>6

(* A manager whose timer cannot be set leaves with an error.               *)
LEMMA StartTimerInv == Inv /\ crashed = "no" /\ StartTimer => Inv'
<1> SUFFICES ASSUME Inv, crashed = "no", StartTimer PROVE Inv'
  OBVIOUS
<1> USE MaxResetAssumption DEF Inv, Types, StartTimer, Early, Running, Leaving, Left, statusVars, managerVars, controlVars, Step
<1>1. Types'
  BY DEF MainInv, ResetInv
<1>2. MainInv'
  BY DEF MainInv, ResetInv, ControlInv, HeardInv
<1>3. ResetInv'
  BY DEF MainInv, ResetInv
<1>4. ControlInv'
  BY DEF MainInv, ControlInv, HeardInv
<1>5. HeardInv'
  BY DEF MainInv, ControlInv, HeardInv
<1>6. ControlMeetsManager'
  BY DEF MainInv, ResetInv, ControlInv, HeardInv, ControlMeetsManager
<1> QED
  BY <1>1, <1>2, <1>3, <1>4, <1>5, <1>6

(* The jobs change nothing the service looks at.                           *)
LEMMA EndJobsInv == Inv /\ crashed = "no" /\ EndJobs => Inv'
<1> SUFFICES ASSUME Inv, crashed = "no", EndJobs PROVE Inv'
  OBVIOUS
<1> USE MaxResetAssumption DEF Inv, Types, EndJobs, Early, Running, Leaving, Left, statusVars, managerVars, controlVars, Step
<1>1. Types'
  BY DEF MainInv, ResetInv
<1>2. MainInv'
  BY DEF MainInv, ResetInv, ControlInv, HeardInv
<1>3. ResetInv'
  BY DEF MainInv, ResetInv
<1>4. ControlInv'
  BY DEF MainInv, ControlInv, HeardInv
<1>5. HeardInv'
  BY DEF MainInv, ControlInv, HeardInv
<1>6. ControlMeetsManager'
  BY DEF MainInv, ResetInv, ControlInv, HeardInv, ControlMeetsManager
<1> QED
  BY <1>1, <1>2, <1>3, <1>4, <1>5, <1>6

(* Consuming the stop event makes Run return Exit.                         *)
LEMMA WakeForStopInv == Inv /\ crashed = "no" /\ WakeForStop => Inv'
<1> SUFFICES ASSUME Inv, crashed = "no", WakeForStop PROVE Inv'
  OBVIOUS
<1> USE MaxResetAssumption DEF Inv, Types, WakeForStop, Early, Running, Leaving, Left, statusVars, managerVars, controlVars, Step
<1>1. Types'
  BY DEF MainInv, ResetInv
<1>2. MainInv'
  BY DEF MainInv, ResetInv, ControlInv, HeardInv
<1>3. ResetInv'
  BY DEF MainInv, ResetInv
<1>4. ControlInv'
  BY DEF MainInv, ControlInv, HeardInv
<1>5. HeardInv'
  BY DEF MainInv, ControlInv, HeardInv
<1>6. ControlMeetsManager'
  BY DEF MainInv, ResetInv, ControlInv, HeardInv, ControlMeetsManager
<1> QED
  BY <1>1, <1>2, <1>3, <1>4, <1>5, <1>6

(* A reset is taken only while no stop is set, so it forgets none.         *)
LEMMA WakeForResetInv == Inv /\ crashed = "no" /\ WakeForReset => Inv'
<1> SUFFICES ASSUME Inv, crashed = "no", WakeForReset PROVE Inv'
  OBVIOUS
<1> USE MaxResetAssumption DEF Inv, Types, WakeForReset, Early, Running, Leaving, Left, statusVars, managerVars, controlVars, Step
<1>1. Types'
  BY DEF MainInv, ResetInv
<1>2. MainInv'
  BY DEF MainInv, ResetInv, ControlInv, HeardInv
<1>3. ResetInv'
  BY DEF MainInv, ResetInv
<1>4. ControlInv'
  BY DEF MainInv, ControlInv, HeardInv
<1>5. HeardInv'
  BY DEF MainInv, ControlInv, HeardInv
<1>6. ControlMeetsManager'
  BY DEF MainInv, ResetInv, ControlInv, HeardInv, ControlMeetsManager
<1> QED
  BY <1>1, <1>2, <1>3, <1>4, <1>5, <1>6

(* A timer wake-up goes back to the jobs.                                  *)
LEMMA WakeForTimerInv == Inv /\ crashed = "no" /\ WakeForTimer => Inv'
<1> SUFFICES ASSUME Inv, crashed = "no", WakeForTimer PROVE Inv'
  OBVIOUS
<1> USE MaxResetAssumption DEF Inv, Types, WakeForTimer, Early, Running, Leaving, Left, statusVars, managerVars, controlVars, Step
<1>1. Types'
  BY DEF MainInv, ResetInv
<1>2. MainInv'
  BY DEF MainInv, ResetInv, ControlInv, HeardInv
<1>3. ResetInv'
  BY DEF MainInv, ResetInv
<1>4. ControlInv'
  BY DEF MainInv, ControlInv, HeardInv
<1>5. HeardInv'
  BY DEF MainInv, ControlInv, HeardInv
<1>6. ControlMeetsManager'
  BY DEF MainInv, ResetInv, ControlInv, HeardInv, ControlMeetsManager
<1> QED
  BY <1>1, <1>2, <1>3, <1>4, <1>5, <1>6

(* A manager is destroyed only after its Run returned.                     *)
LEMMA BeginDeleteInv == Inv /\ crashed = "no" /\ BeginDelete => Inv'
<1> SUFFICES ASSUME Inv, crashed = "no", BeginDelete PROVE Inv'
  OBVIOUS
<1> USE MaxResetAssumption DEF Inv, Types, BeginDelete, Early, Running, Leaving, Left, statusVars, managerVars, controlVars, Step
<1>1. Types'
  BY DEF MainInv, ResetInv
<1>2. MainInv'
  BY DEF MainInv, ResetInv, ControlInv, HeardInv
<1>3. ResetInv'
  BY DEF MainInv, ResetInv
<1>4. ControlInv'
  BY DEF MainInv, ControlInv, HeardInv
<1>5. HeardInv'
  BY DEF MainInv, ControlInv, HeardInv
<1>6. ControlMeetsManager'
  BY DEF MainInv, ResetInv, ControlInv, HeardInv, ControlMeetsManager
<1> QED
  BY <1>1, <1>2, <1>3, <1>4, <1>5, <1>6

(* The destructor ends with the message thread stopped.                    *)
LEMMA EndDeleteInv == Inv /\ crashed = "no" /\ EndDelete => Inv'
<1> SUFFICES ASSUME Inv, crashed = "no", EndDelete PROVE Inv'
  OBVIOUS
<1> USE MaxResetAssumption DEF Inv, Types, EndDelete, Early, Running, Leaving, Left, statusVars, managerVars, controlVars, Step
<1>1. Types'
  BY DEF MainInv, ResetInv
<1>2. MainInv'
  BY DEF MainInv, ResetInv, ControlInv, HeardInv
<1>3. ResetInv'
  BY DEF MainInv, ResetInv
<1>4. ControlInv'
  BY DEF MainInv, ControlInv, HeardInv
<1>5. HeardInv'
  BY DEF MainInv, ControlInv, HeardInv
<1>6. ControlMeetsManager'
  BY DEF MainInv, ResetInv, ControlInv, HeardInv, ControlMeetsManager
<1> QED
  BY <1>1, <1>2, <1>3, <1>4, <1>5, <1>6

(* The loop goes on only after a reset: a Stop heard made Run return Exit,  *)
(* or an error did.                                                        *)
LEMMA ForgetInv == Inv /\ crashed = "no" /\ Forget => Inv'
<1> SUFFICES ASSUME Inv, crashed = "no", Forget PROVE Inv'
  OBVIOUS
<1> USE MaxResetAssumption DEF Inv, Types, Forget, Early, Running, Leaving, Left, statusVars, managerVars, controlVars, Step
<1>1. Types'
  BY DEF MainInv, ResetInv
<1>2. MainInv'
  BY DEF MainInv, ResetInv, ControlInv, HeardInv
<1>3. ResetInv'
  BY DEF MainInv, ResetInv
<1>4. ControlInv'
  BY DEF MainInv, ControlInv, HeardInv
<1>5. HeardInv'
  BY DEF MainInv, ControlInv, HeardInv
<1>6. ControlMeetsManager'
  BY DEF MainInv, ResetInv, ControlInv, HeardInv, ControlMeetsManager
<1> QED
  BY <1>1, <1>2, <1>3, <1>4, <1>5, <1>6

(* A STOP is sent only to a service that last reported RUNNING, so never   *)
(* after one was handled.                                                  *)
LEMMA SendStopInv == Inv /\ crashed = "no" /\ SendStop => Inv'
<1> SUFFICES ASSUME Inv, crashed = "no", SendStop PROVE Inv'
  OBVIOUS
<1> USE MaxResetAssumption DEF Inv, Types, SendStop, Early, Running, Leaving, Left, statusVars, managerVars, controlVars
<1>1. Types'
  BY DEF MainInv, ResetInv
<1>2. MainInv'
  BY DEF MainInv, ResetInv, ControlInv, HeardInv
<1>3. ResetInv'
  BY DEF MainInv, ResetInv
<1>4. ControlInv'
  BY DEF MainInv, ControlInv, HeardInv
<1>5. HeardInv'
  BY DEF MainInv, ControlInv, HeardInv
<1>6. ControlMeetsManager'
  BY DEF MainInv, ResetInv, ControlInv, HeardInv, ControlMeetsManager
<1> QED
  BY <1>1, <1>2, <1>3, <1>4, <1>5, <1>6

(* Handler writes STOP_PENDING whatever the main thread is doing.          *)
LEMMA HandlerSetsStatusInv == Inv /\ crashed = "no" /\ HandlerSetsStatus => Inv'
<1> SUFFICES ASSUME Inv, crashed = "no", HandlerSetsStatus PROVE Inv'
  OBVIOUS
<1> USE MaxResetAssumption DEF Inv, Types, HandlerSetsStatus, Early, Running, Leaving, Left, statusVars, managerVars, controlVars
<1>1. Types'
  BY DEF MainInv, ResetInv
<1>2. MainInv'
  BY DEF MainInv, ResetInv, ControlInv, HeardInv
<1>3. ResetInv'
  BY DEF MainInv, ResetInv
<1>4. ControlInv'
  BY DEF MainInv, ControlInv, HeardInv
<1>5. HeardInv'
  BY DEF MainInv, ControlInv, HeardInv
<1>6. ControlMeetsManager'
  BY DEF MainInv, ResetInv, ControlInv, HeardInv, ControlMeetsManager
<1> QED
  BY <1>1, <1>2, <1>3, <1>4, <1>5, <1>6

(* Handler reports m_status as it then is: STOP_PENDING, or the STOPPED    *)
(* that the main thread has written meanwhile.                             *)
LEMMA HandlerReportsInv == Inv /\ crashed = "no" /\ HandlerReports => Inv'
<1> SUFFICES ASSUME Inv, crashed = "no", HandlerReports PROVE Inv'
  OBVIOUS
<1> USE MaxResetAssumption DEF Inv, Types, HandlerReports, Early, Running, Leaving, Left, statusVars, managerVars, controlVars
<1>1. Types'
  BY DEF MainInv, ResetInv
<1>2. MainInv'
  BY DEF MainInv, ResetInv, ControlInv, HeardInv
<1>3. ResetInv'
  BY DEF MainInv, ResetInv
<1>4. ControlInv'
  BY DEF MainInv, ControlInv, HeardInv
<1>5. HeardInv'
  BY DEF MainInv, ControlInv, HeardInv
<1>6. ControlMeetsManager'
  BY DEF MainInv, ResetInv, ControlInv, HeardInv, ControlMeetsManager
<1> QED
  BY <1>1, <1>2, <1>3, <1>4, <1>5, <1>6

(* Handler goes on with the manager it saw, or ends.                       *)
LEMMA HandlerTestsInv == Inv /\ crashed = "no" /\ HandlerTests => Inv'
<1> SUFFICES ASSUME Inv, crashed = "no", HandlerTests PROVE Inv'
  OBVIOUS
<1> USE MaxResetAssumption DEF Inv, Types, HandlerTests, Early, Running, Leaving, Left, statusVars, managerVars, controlVars
<1>1. Types'
  BY DEF MainInv, ResetInv
<1>2. MainInv'
  BY DEF MainInv, ResetInv, ControlInv, HeardInv
<1>3. ResetInv'
  BY DEF MainInv, ResetInv
<1>4. ControlInv'
  BY DEF MainInv, ControlInv, HeardInv
<1>5. HeardInv'
  BY DEF MainInv, ControlInv, HeardInv
<1>6. ControlMeetsManager'
  BY DEF MainInv, ResetInv, ControlInv, HeardInv, ControlMeetsManager
<1> QED
  BY <1>1, <1>2, <1>3, <1>4, <1>5, <1>6

(* Stop on a manager that is not the living one means that the one Handler  *)
(* saw has left, for a reset or an error.                                  *)
LEMMA StopInv == Inv /\ crashed = "no" /\ Stop => Inv'
<1> SUFFICES ASSUME Inv, crashed = "no", Stop PROVE Inv'
  OBVIOUS
<1> USE MaxResetAssumption DEF Inv, Types, Stop, Early, Running, Leaving, Left, statusVars, managerVars, controlVars
<1>1. Types'
  BY DEF MainInv, ResetInv
<1>2. MainInv'
  BY DEF MainInv, ResetInv, ControlInv, HeardInv
<1>3. ResetInv'
  BY DEF MainInv, ResetInv
<1>4. ControlInv'
  BY DEF MainInv, ControlInv, HeardInv
<1>5. HeardInv'
  BY DEF MainInv, ControlInv, HeardInv
<1>6. ControlMeetsManager'
  BY DEF MainInv, ResetInv, ControlInv, HeardInv, ControlMeetsManager
<1> QED
  BY <1>1, <1>2, <1>3, <1>4, <1>5, <1>6

(* A RESET_IND sets the event of a living manager.                         *)
LEMMA ResetIndInv == Inv /\ crashed = "no" /\ ResetInd => Inv'
<1> SUFFICES ASSUME Inv, crashed = "no", ResetInd PROVE Inv'
  OBVIOUS
<1> USE MaxResetAssumption DEF Inv, Types, ResetInd, Early, Running, Leaving, Left, statusVars, managerVars, controlVars
<1>1. Types'
  BY DEF MainInv, ResetInv
<1>2. MainInv'
  BY DEF MainInv, ResetInv, ControlInv, HeardInv
<1>3. ResetInv'
  BY DEF MainInv, ResetInv
<1>4. ControlInv'
  BY DEF MainInv, ControlInv, HeardInv
<1>5. HeardInv'
  BY DEF MainInv, ControlInv, HeardInv
<1>6. ControlMeetsManager'
  BY DEF MainInv, ResetInv, ControlInv, HeardInv, ControlMeetsManager
<1> QED
  BY <1>1, <1>2, <1>3, <1>4, <1>5, <1>6

(* A message that meets the destructor ends the model's behaviour.         *)
LEMMA MessageDuringDeleteInv == Inv /\ crashed = "no" /\ MessageDuringDelete => Inv'
<1> SUFFICES ASSUME Inv, crashed = "no", MessageDuringDelete PROVE Inv'
  OBVIOUS
<1> USE MaxResetAssumption DEF Inv, Types, MessageDuringDelete, Early, Running, Leaving, Left, statusVars, managerVars, controlVars
<1>1. Types'
  BY DEF MainInv, ResetInv
<1>2. MainInv'
  BY DEF MainInv, ResetInv, ControlInv, HeardInv
<1>3. ResetInv'
  BY DEF MainInv, ResetInv
<1>4. ControlInv'
  BY DEF MainInv, ControlInv, HeardInv
<1>5. HeardInv'
  BY DEF MainInv, ControlInv, HeardInv
<1>6. ControlMeetsManager'
  BY DEF MainInv, ResetInv, ControlInv, HeardInv, ControlMeetsManager
<1> QED
  BY <1>1, <1>2, <1>3, <1>4, <1>5, <1>6

--------------------------------------------------------------------------------

(* Steps that change nothing keep the invariant.                           *)
LEMMA StutterInv == Inv /\ UNCHANGED vars => Inv'
BY DEF vars, statusVars, managerVars, controlVars, Inv, Types, MainInv, ResetInv, ControlInv,
   HeardInv, ControlMeetsManager

(* Inv is inductive: one lemma for each action.                            *)
LEMMA NextInv == Inv /\ [Next]_vars => Inv'
BY ServiceMainInv, NewManagerInv, SetUpInv, StartTimerInv, EndJobsInv, WakeForStopInv,
   WakeForResetInv, WakeForTimerInv, BeginDeleteInv, EndDeleteInv, ForgetInv, SendStopInv,
   HandlerSetsStatusInv, HandlerReportsInv, HandlerTestsInv, StopInv, ResetIndInv,
   MessageDuringDeleteInv, StutterInv
   DEF Next, MainStep, ControlStep, MessageStep, Finished

(* The service is always in a state Inv describes. *)
THEOREM LifecycleInvariant == Spec => []Inv
BY InitInv, NextInv, PTL DEF Spec

(* Handler calls a manager that is gone, or none, only if the manager left *)
(* for a reset or an error, for any number of resets.                      *)
THEOREM ControlMeetsManagerHolds == Spec => []ControlMeetsManager
<1>1. Inv => ControlMeetsManager
  BY DEF Inv
<1> QED
  BY <1>1, LifecycleInvariant, PTL

(* Once Stop has reached a manager that had not begun to leave, no other   *)
(* manager is built: a new one is built where heard is known to be false.  *)
THEOREM LoopEndsWhenHeardHolds == Spec => LoopEndsWhenHeard
<1>1. Inv /\ [Next]_vars => [heard => built' = built]_vars
  <2> SUFFICES ASSUME Inv, Next, heard PROVE built' = built
    BY DEF vars
  <2>1. CASE NewManager
    BY <2>1 DEF NewManager, Step, Inv, HeardInv
  <2>2. CASE ~NewManager
    BY <2>2 DEF Next, MainStep, ControlStep, MessageStep, Finished, vars, statusVars,
       managerVars, controlVars, Step, SetStatus, Report, ServiceMain, SetUp, StartTimer,
       EndJobs, WakeForStop, WakeForReset, WakeForTimer, BeginDelete, EndDelete, Forget,
       SendStop, HandlerSetsStatus, HandlerReports, HandlerTests, Stop, ResetInd,
       MessageDuringDelete
  <2> QED
    BY <2>1, <2>2
<1> QED
  BY <1>1, LifecycleInvariant, PTL DEF Spec, LoopEndsWhenHeard

(* The states reported go START_PENDING, RUNNING, STOP_PENDING, STOPPED,   *)
(* unless the manager left with an error.                                  *)
THEOREM StatusOrderHolds == Spec => StatusOrder
<1>1. Inv /\ [Next]_vars => [action # "Error" => Rank[scm] <= Rank[scm']]_vars
  <2> SUFFICES ASSUME Inv, Next, action # "Error" PROVE Rank[scm] <= Rank[scm']
    BY DEF vars
  <2>1. scm \in {"START_PENDING", "RUNNING", "STOP_PENDING", "STOPPED"}
    BY DEF Inv, Types
  <2>2. CASE scm' = scm
    BY <2>1, <2>2 DEF Rank
  <2>3. CASE Report("reportStart", "run") \/ Report("reportRunning", "loop")
    BY <2>3 DEF Report, Step, Inv, MainInv, Early, Rank
  <2>4. CASE Report("reportStopped", "over")
    <3>1. status = "STOPPED"
      BY <2>4 DEF Report, Step, Inv, MainInv, ControlInv, Left
    <3> QED
      BY <2>1, <2>4, <3>1 DEF Report, Rank
  <2>5. CASE HandlerReports
    <3>1. scm # "STOPPED"
      BY <2>5 DEF HandlerReports, Inv, MainInv, ControlInv, HeardInv, Left
    <3>2. status \in {"STOP_PENDING", "STOPPED"}
      BY <2>5 DEF HandlerReports, Inv, ControlInv
    <3> QED
      BY <2>1, <2>5, <3>1, <3>2 DEF HandlerReports, Rank
  <2> QED
    BY <2>2, <2>3, <2>4, <2>5 DEF Next, MainStep, ControlStep, MessageStep, Finished, vars,
       statusVars, managerVars, controlVars, Step, SetStatus, Report, ServiceMain, NewManager,
       SetUp, StartTimer, EndJobs, WakeForStop, WakeForReset, WakeForTimer, BeginDelete,
       EndDelete, Forget, SendStop, HandlerSetsStatus, HandlerTests, Stop, ResetInd,
       MessageDuringDelete
<1> QED
  BY <1>1, LifecycleInvariant, PTL DEF Spec, StatusOrder

(* The flags are Boolean: each step sets one, or leaves it alone.          *)
Flags == /\ stopEvent \in BOOLEAN /\ resetEvent \in BOOLEAN /\ receiving \in BOOLEAN
         /\ asked \in BOOLEAN /\ heard \in BOOLEAN

(* No step gives a flag another value.                                     *)
LEMMA NextFlags == Flags /\ [Next]_vars => Flags'
<1> SUFFICES ASSUME Flags, [Next]_vars PROVE Flags'
  OBVIOUS
<1>1. stopEvent' \in BOOLEAN
  BY ZenonT(30) DEF Flags, Next, MainStep, ControlStep, MessageStep, Finished, vars, statusVars, managerVars,
   controlVars, Step, SetStatus, Report, ServiceMain, NewManager, SetUp, StartTimer, EndJobs,
   WakeForStop, WakeForReset, WakeForTimer, BeginDelete, EndDelete, Forget, SendStop,
   HandlerSetsStatus, HandlerReports, HandlerTests, Stop, ResetInd, MessageDuringDelete
<1>2. resetEvent' \in BOOLEAN
  BY ZenonT(30) DEF Flags, Next, MainStep, ControlStep, MessageStep, Finished, vars, statusVars, managerVars,
   controlVars, Step, SetStatus, Report, ServiceMain, NewManager, SetUp, StartTimer, EndJobs,
   WakeForStop, WakeForReset, WakeForTimer, BeginDelete, EndDelete, Forget, SendStop,
   HandlerSetsStatus, HandlerReports, HandlerTests, Stop, ResetInd, MessageDuringDelete
<1>3. receiving' \in BOOLEAN
  BY ZenonT(30) DEF Flags, Next, MainStep, ControlStep, MessageStep, Finished, vars, statusVars, managerVars,
   controlVars, Step, SetStatus, Report, ServiceMain, NewManager, SetUp, StartTimer, EndJobs,
   WakeForStop, WakeForReset, WakeForTimer, BeginDelete, EndDelete, Forget, SendStop,
   HandlerSetsStatus, HandlerReports, HandlerTests, Stop, ResetInd, MessageDuringDelete
<1>4. asked' \in BOOLEAN
  BY ZenonT(30) DEF Flags, Next, MainStep, ControlStep, MessageStep, Finished, vars, statusVars, managerVars,
   controlVars, Step, SetStatus, Report, ServiceMain, NewManager, SetUp, StartTimer, EndJobs,
   WakeForStop, WakeForReset, WakeForTimer, BeginDelete, EndDelete, Forget, SendStop,
   HandlerSetsStatus, HandlerReports, HandlerTests, Stop, ResetInd, MessageDuringDelete
<1>5. heard' \in BOOLEAN
  BY ZenonT(30) DEF Flags, Next, MainStep, ControlStep, MessageStep, Finished, vars, statusVars, managerVars,
   controlVars, Step, SetStatus, Report, ServiceMain, NewManager, SetUp, StartTimer, EndJobs,
   WakeForStop, WakeForReset, WakeForTimer, BeginDelete, EndDelete, Forget, SendStop,
   HandlerSetsStatus, HandlerReports, HandlerTests, Stop, ResetInd, MessageDuringDelete
<1> QED
  BY <1>1, <1>2, <1>3, <1>4, <1>5 DEF Flags

(* Types, for any number of resets: managers are never more than the       *)
(* resets and one, m_pManager is 0 or the last of them, and the message    *)
(* thread does not outlive its manager.                                    *)
THEOREM TypeOKHolds == Spec => []TypeOK
<1>1. Init => Flags
  BY DEF Init, Flags
<1>2. Inv /\ Flags => TypeOK
  <2> SUFFICES ASSUME Inv, Flags PROVE TypeOK
    OBVIOUS
  <2>1. built \in 0 .. MaxReset + 1
    BY MaxResetAssumption DEF Inv, Types, ResetInv
  <2>2. {stopEvent, resetEvent, receiving, asked, heard} \subseteq BOOLEAN
    BY DEF Flags
  <2>3. /\ receiving => stage \in {"alive", "destroying"}
        /\ main = "loop" => m_pManager = 0
    BY DEF Inv, MainInv
  <2> QED
    BY <2>1, <2>2, <2>3 DEF Inv, Types, TypeOK
<1> QED
  BY <1>1, <1>2, NextFlags, LifecycleInvariant, PTL DEF Spec

================================================================================
