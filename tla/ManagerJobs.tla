------------------------------ MODULE ManagerJobs ------------------------------
(***************************************************************************)
(* The manager's jobs: StartJobsTimer, the timer branch of Run and          *)
(* ProcessJobsTimer of zib_manager/ZiBManager.cpp, with the attribute job   *)
(* feeding CAlarms and the alarm job draining it.                           *)
(*                                                                         *)
(* One unit of time is one period of the waitable timer (time base).  The  *)
(* timer resets itself, so periods that end while a job runs count once.   *)
(* Each job compares one tick, read when the pass began, with a deadline   *)
(* that was computed modulo TickWrap.                                      *)
(***************************************************************************)
EXTENDS Alarms

CONSTANTS Latency,      \* [Jobs -> Nat]: the registry's latencies, in time bases
          Horizon       \* bound: how long the manager is observed

Jobs == {"discovery", "attributes", "alarms"}

ASSUME JobsAssumption == Latency \in [Jobs -> 1 .. TickWrap - 1] /\ Horizon \in Nat

VARIABLES pc,         \* where the main thread is
          timer,      \* m_hJobsTimerEvent
          sample,     \* dwCurrentTick, and the time it was read at
          deadline,   \* m_mapJobs
          toMeasure,  \* attributes AttributeHandleStart has still to read
          started,    \* when StartJobsTimer ran
          dueAt       \* history: the time each deadline stands for

jobVars == <<pc, timer, sample, deadline, toMeasure, started, dueAt>>
vars == <<now, alarmVars, jobVars>>

(* The service may be started at any tick of the first epoch. *)
Init ==
    /\ InitAlarms
    /\ now \in 0 .. TickWrap - 1
    /\ pc = "starting" /\ timer = FALSE
    /\ sample = now
    /\ deadline = [j \in Jobs |-> 0]
    /\ toMeasure = {}
    /\ started = now
    /\ dueAt = [j \in Jobs |-> now]

--------------------------------------------------------------------------------

(* Discovery is due at once; ProcessJobsTimer is called directly. *)
StartJobsTimer ==
    /\ pc = "starting"
    /\ LET first(j) == IF j = "discovery" THEN now ELSE now + Latency[j]
       IN  /\ deadline' = [j \in Jobs |-> Tick(first(j))]
           /\ dueAt' = [j \in Jobs |-> first(j)]
    /\ pc' = "sample"
    /\ UNCHANGED <<now, alarmVars, timer, sample, toMeasure, started>>

(* Run: WaitForMultipleObjects returns for the timer. *)
WakeForTimer ==
    /\ pc = "waiting" /\ timer
    /\ timer' = FALSE
    /\ pc' = "sample"
    /\ UNCHANGED <<now, alarmVars, sample, deadline, toMeasure, started, dueAt>>

ReadTick ==
    /\ pc = "sample"
    /\ sample' = now
    /\ pc' = "discovery"
    /\ UNCHANGED <<now, alarmVars, timer, deadline, toMeasure, started, dueAt>>

(* Seeded faults: one tick too late, one tick too early. *)
ReachedLate(j) == Tick(sample) > deadline[j]
ReachedEarly(j) == Tick(sample) + 1 >= deadline[j]

Reached(j) == Tick(sample) >= deadline[j]

(* Seeded fault: the deadline is wider than a DWORD. *)
RescheduleUnwrapped(j) ==
    /\ deadline' = [deadline EXCEPT ![j] = Tick(sample) + Latency[j]]
    /\ dueAt' = [dueAt EXCEPT ![j] = sample + Latency[j]]

Reschedule(j) ==
    /\ deadline' = [deadline EXCEPT ![j] = Tick(sample + Latency[j])]
    /\ dueAt' = [dueAt EXCEPT ![j] = sample + Latency[j]]

Skip(j) == ~Reached(j) /\ UNCHANGED <<deadline, dueAt>>

(* Discovery's own work is module Discovery; here it only takes time. *)
JobDiscovery ==
    /\ pc = "discovery"
    /\ (Reached("discovery") /\ Reschedule("discovery")) \/ Skip("discovery")
    /\ pc' = "attributes"
    /\ UNCHANGED <<now, alarmVars, timer, sample, toMeasure, started>>

JobAttributes ==
    /\ pc = "attributes"
    /\ \/ Reached("attributes") /\ Reschedule("attributes") /\ toMeasure' = Attributes
       \/ Skip("attributes") /\ toMeasure' = {}
    /\ pc' = "measuring"
    /\ UNCHANGED <<now, alarmVars, timer, sample, started>>

(* AttributeHandleStart: a value within its limits, outside them, or none  *)
(* to judge: no answer, an empty value, limits missing or reversed.        *)
Measure(a) ==
    /\ pc = "measuring" /\ a \in toMeasure
    /\ SetAlarm(a) \/ ClearAlarm(a) \/ UNCHANGED alarmVars
    /\ toMeasure' = toMeasure \ {a}
    /\ UNCHANGED <<now, pc, timer, sample, deadline, started, dueAt>>

JobAlarms ==
    /\ pc = "measuring" /\ toMeasure = {}
    /\ \/ Reached("alarms") /\ Reschedule("alarms") /\ ProcessAlarms
       \/ Skip("alarms") /\ UNCHANGED alarmVars
    /\ pc' = "alarms"
    /\ UNCHANGED <<now, timer, sample, toMeasure, started>>

CheckOrSend(a) ==
    /\ pc = "alarms"
    /\ CheckAlarm(a) \/ AlarmSent(a)
    /\ UNCHANGED <<now, jobVars>>

EndOfPass ==
    /\ pc = "alarms" /\ toCheck = {} /\ sending = {}
    /\ pc' = "waiting"
    /\ UNCHANGED <<now, alarmVars, timer, sample, deadline, toMeasure, started, dueAt>>

(* Requests, SMS and email take time; the timer keeps its period. *)
TimePasses ==
    /\ pc # "starting" /\ now < started + Horizon
    /\ now' = now + 1 /\ timer' = TRUE
    /\ UNCHANGED <<alarmVars, pc, sample, deadline, toMeasure, started, dueAt>>

Finished == now = started + Horizon /\ pc = "waiting" /\ UNCHANGED vars

Next ==
    \/ StartJobsTimer \/ WakeForTimer \/ ReadTick
    \/ JobDiscovery \/ JobAttributes \/ JobAlarms \/ EndOfPass
    \/ \E a \in Attributes : Measure(a) \/ CheckOrSend(a)
    \/ TimePasses \/ Finished

Spec == Init /\ [][Next]_vars

--------------------------------------------------------------------------------
(* Properties. *)

TypeOK ==
    /\ AlarmsTypeOK
    /\ pc \in {"starting", "sample", "waiting", "measuring"} \cup Jobs
    /\ timer \in BOOLEAN /\ sample \in Nat /\ started \in Nat
    /\ deadline \in [Jobs -> 0 .. TickWrap - 1]
    /\ dueAt \in [Jobs -> Nat]
    /\ toMeasure \subseteq Attributes

Sent(a) == a \in sending /\ sending' = {}
LastSent(a) == IF sentAt[a] = Never THEN 0 ELSE sentAt[a]

(* An alarm is sent at most m_uMaxSendCount times while its value stays    *)
(* out of range, however often SetAlarm is called meanwhile.               *)
SendLimit == \A a \in Attributes : sends[a] <= MaxSendCount

(* No message goes out for a value that was normal when last judged, and   *)
(* only stored alarms are sent.                                            *)
OnlyOutOfRangeIsSent == sending \subseteq outside \cap stored

(* Alarms.cpp, line 11: the repeat timer is respected, also by an alarm    *)
(* that was cleared and set again.                                         *)
RepeatRespected ==
    [][\A a \in Attributes : Sent(a) /\ sentAt[a] # Never =>
          now - sentAt[a] >= RepeatLatency]_vars

(* It is, as long as the tick does not roll over between the two sends.    *)
RepeatRespectedInEpoch ==
    [][\A a \in Attributes :
          Sent(a) /\ sentAt[a] # Never /\ Epoch(sentAt[a]) = Epoch(now) =>
              now - sentAt[a] > RepeatLatency]_vars

(* An alarm whose value is out of range and below its limit is held back   *)
(* when it is checked exactly if, within the latency and since the tick    *)
(* last was zero, the tick showed what it showed when the alarm was last   *)
(* sent, or zero if it never was.  So a first alarm waits for the latency  *)
(* after the machine's start and after every rollover, although Alarms.cpp *)
(* line 112 means to send it at once; one sent whole turns of the tick ago *)
(* waits again; and a rollover ends the wait of all others.                *)
HeldBackOnlyByLatency ==
    [][\A a \in toCheck \ toCheck' :
          a \in outside /\ sends[a] < MaxSendCount =>
              (a \notin sending' <=>
                  \E t \in 0 .. RepeatLatency :
                      Epoch(now - t) = Epoch(now) /\ Tick(now - t) = Tick(LastSent(a)))]_vars

(* A job runs before its deadline only if the deadline lies beyond the     *)
(* rollover of the tick.                                                   *)
JobsOnTime ==
    [][\A j \in Jobs :
          pc \in Jobs \cup {"measuring"} /\ dueAt[j] # dueAt'[j]
              => sample >= dueAt[j] \/ Epoch(dueAt[j]) > Epoch(sample)]_vars

(* A pass that begins at or after a deadline runs the job, unless the tick *)
(* rolled over between the two.                                            *)
NotSkipped ==
    [][\A j \in Jobs :
          /\ \/ j \in {"discovery", "attributes"} /\ pc = j
             \/ j = "alarms" /\ pc = "measuring"
          /\ pc' # pc
          /\ sample >= dueAt[j] /\ Epoch(sample) = Epoch(dueAt[j])
          => dueAt'[j] = sample + Latency[j]]_vars

================================================================================
