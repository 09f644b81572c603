--------------------------- MODULE ManagerJobsProofs ---------------------------
(***************************************************************************)
(* Proofs about ManagerJobs and Alarms, for any attributes, latencies,      *)
(* limit and width of the tick.                                             *)
(*                                                                         *)
(* The first lemmas are about GetTickCount(): a time is its epoch and its   *)
(* tick, and what the unsigned difference of two ticks means.  The          *)
(* invariant Inv then ties the entries of m_vecAlarms and the deadlines,    *)
(* which only know ticks, to the times and counts they stand for.           *)
(***************************************************************************)
EXTENDS ManagerJobs, TLAPS

(* A time is its epoch and its tick. *)
LEMMA TimeSplit == ASSUME NEW t \in Nat
                   PROVE  /\ Tick(t) \in 0 .. TickWrap - 1 /\ Epoch(t) \in Nat
                          /\ t = TickWrap * Epoch(t) + Tick(t)
BY AlarmsAssumption DEF Tick, Epoch

(* An earlier epoch is an earlier time. *)
LEMMA EpochOrder == ASSUME NEW s \in Nat, NEW t \in Nat, Epoch(s) < Epoch(t)
                    PROVE  s < t
<1>1. /\ TickWrap \in Nat \ {0} /\ Epoch(s) \in Nat /\ Epoch(t) \in Nat
      /\ Tick(s) \in 0 .. TickWrap - 1 /\ Tick(t) \in 0 .. TickWrap - 1
      /\ s = TickWrap * Epoch(s) + Tick(s) /\ t = TickWrap * Epoch(t) + Tick(t)
  BY AlarmsAssumption, TimeSplit
<1>2. TickWrap * (Epoch(s) + 1) <= TickWrap * Epoch(t)
  BY <1>1
<1> QED
  BY <1>1, <1>2

(* Within an epoch, ticks are ordered as the times are. *)
LEMMA TickOrder == ASSUME NEW s \in Nat, NEW t \in Nat, Epoch(s) = Epoch(t)
                   PROVE  /\ Tick(s) <= Tick(t) <=> s <= t
                          /\ Tick(t) - Tick(s) = t - s
BY AlarmsAssumption, TimeSplit

(* Less than a turn of the counter passes into the next epoch at most. *)
LEMMA EpochStep == ASSUME NEW s \in Nat, NEW t \in Nat, s <= t, t - s < TickWrap
                   PROVE  Epoch(t) \in {Epoch(s), Epoch(s) + 1}
BY AlarmsAssumption, TimeSplit DEF Epoch

(* Taking the remainder leaves a tick alone. *)
LEMMA ModWrap == ASSUME NEW x \in Int, x >= 0, x < TickWrap
                 PROVE  x % TickWrap = x /\ (x - TickWrap) % TickWrap = x
BY AlarmsAssumption

(* The unsigned difference of two ticks is the time between them, if that   *)
(* is less than a turn of the counter.                                      *)
LEMMA Elapsed == ASSUME NEW s \in Nat, NEW t \in Nat, s <= t, t - s < TickWrap
                 PROVE  Minus(Tick(t), Tick(s)) = t - s
<1>1. /\ TickWrap \in Nat \ {0} /\ Epoch(s) \in Nat /\ Epoch(t) \in {Epoch(s), Epoch(s) + 1}
      /\ Tick(s) \in 0 .. TickWrap - 1 /\ Tick(t) \in 0 .. TickWrap - 1
      /\ s = TickWrap * Epoch(s) + Tick(s) /\ t = TickWrap * Epoch(t) + Tick(t)
  BY AlarmsAssumption, TimeSplit, EpochStep
<1>2. (t - s) % TickWrap = t - s /\ ((t - s) - TickWrap) % TickWrap = t - s
  BY <1>1, ModWrap
<1>3. CASE Epoch(t) = Epoch(s)
  <2>1. Tick(t) - Tick(s) = t - s
    BY <1>3, TickOrder
  <2> QED
    BY <1>2, <2>1 DEF Minus
<1>4. CASE Epoch(t) = Epoch(s) + 1
  <2>1. TickWrap * Epoch(t) = TickWrap * Epoch(s) + TickWrap
    BY <1>1, <1>4
  <2>2. \A p, q, u, v, w \in Int : q = p + w => v - u = ((q + v) - (p + u)) - w
    OBVIOUS
  <2>3. /\ TickWrap * Epoch(s) \in Int /\ TickWrap * Epoch(t) \in Int
        /\ Tick(s) \in Int /\ Tick(t) \in Int /\ TickWrap \in Int
    BY <1>1
  <2>4. Tick(t) - Tick(s)
          = ((TickWrap * Epoch(t) + Tick(t)) - (TickWrap * Epoch(s) + Tick(s))) - TickWrap
    BY <2>1, <2>2, <2>3
  <2>5. Tick(t) - Tick(s) = (t - s) - TickWrap
    BY <1>1, <2>4
  <2> QED
    BY <1>2, <2>5 DEF Minus
<1> QED
  BY <1>1, <1>3, <1>4

--------------------------------------------------------------------------------

Types ==
    /\ now \in Nat /\ sample \in Nat /\ started \in Nat
    /\ stored \subseteq Attributes /\ outside \subseteq Attributes
    /\ toCheck \subseteq Attributes /\ sending \subseteq Attributes
    /\ toMeasure \subseteq Attributes
    /\ alarms \in [Attributes -> Entry]
    /\ sentAt \in [Attributes -> Nat \cup {Never}]
    /\ sends \in [Attributes -> Nat]
    /\ pc \in {"starting", "sample", "waiting", "measuring"} \cup Jobs
    /\ deadline \in [Jobs -> 0 .. TickWrap - 1]
    /\ dueAt \in [Jobs -> Nat]

(* The ticks kept by the program stand for times that have been. *)
TimeInv ==
    /\ pc # "starting" => \A j \in Jobs : deadline[j] = Tick(dueAt[j])
    /\ \A a \in stored :
          /\ sentAt[a] = Never => alarms[a].last = 0
          /\ sentAt[a] # Never => alarms[a].last = Tick(sentAt[a]) /\ sentAt[a] <= now

(* The entries say what was last judged and how often it was sent. *)
EntryInv ==
    /\ outside \subseteq stored
    /\ \A a \in Attributes \ stored : sends[a] = 0 /\ sentAt[a] = Never
    /\ \A a \in stored : /\ sends[a] = alarms[a].count
                         /\ a \in outside => alarms[a].on
                         /\ alarms[a].on => a \in outside

(* An alarm is being sent only while the alarm job runs, one at a time, for *)
(* an entry that was on, below the limit and, in its epoch, due.            *)
SendingInv ==
    /\ toCheck \subseteq stored
    /\ pc # "alarms" => toCheck = {} /\ sending = {}
    /\ \A a, b \in sending : a = b
    /\ \A a \in sending :
          /\ a \in stored /\ a \in outside /\ sends[a] < MaxSendCount
          /\ sentAt[a] # Never /\ Epoch(sentAt[a]) = Epoch(now) =>
                now - sentAt[a] > RepeatLatency

Inv == Types /\ TimeInv /\ EntryInv /\ SendingInv /\ SendLimit

--------------------------------------------------------------------------------

(* The program starts with no entry and no deadline. *)
LEMMA InitInv == Init => Inv
<1> SUFFICES ASSUME Init PROVE Inv
  OBVIOUS
<1> USE AlarmsAssumption, JobsAssumption DEF Init, InitAlarms
<1>1. Types
  BY DEF Types, NewEntry, Entry, Jobs, Never
<1>2. TimeInv /\ EntryInv /\ SendingInv /\ SendLimit
  BY DEF TimeInv, EntryInv, SendingInv, SendLimit, NewEntry
<1> QED
  BY <1>1, <1>2 DEF Inv

(* The steps that only move the main thread. *)
LEMMA WaitInv == Inv /\ (WakeForTimer \/ ReadTick \/ EndOfPass \/ Finished) => Inv'
BY DEF Inv, Types, TimeInv, EntryInv, SendingInv, SendLimit, WakeForTimer, ReadTick, EndOfPass,
   Finished, Jobs, vars, alarmVars, jobVars

(* The deadlines are set when the timer is. *)
LEMMA StartInv == Inv /\ StartJobsTimer => Inv'
<1> SUFFICES ASSUME Inv, StartJobsTimer PROVE Inv'
  OBVIOUS
<1>1. now \in Nat /\ \A j \in Jobs : now + Latency[j] \in Nat
  BY JobsAssumption, AlarmsAssumption DEF Inv, Types
<1>2. deadline' \in [Jobs -> 0 .. TickWrap - 1] /\ dueAt' \in [Jobs -> Nat]
      /\ \A j \in Jobs : deadline'[j] = Tick(dueAt'[j])
  BY <1>1, TimeSplit DEF StartJobsTimer
<1> QED
  BY <1>2 DEF Inv, Types, TimeInv, EntryInv, SendingInv, SendLimit, StartJobsTimer, alarmVars

(* A job that runs moves its deadline, as a tick and as a time. *)
LEMMA RescheduleKeeps ==
    ASSUME Inv, NEW j \in Jobs, Reschedule(j) \/ Skip(j)
    PROVE  /\ deadline' \in [Jobs -> 0 .. TickWrap - 1] /\ dueAt' \in [Jobs -> Nat]
           /\ pc # "starting" => \A k \in Jobs : deadline'[k] = Tick(dueAt'[k])
<1>1. sample + Latency[j] \in Nat
  BY JobsAssumption, AlarmsAssumption DEF Inv, Types
<1>2. Tick(sample + Latency[j]) \in 0 .. TickWrap - 1
  BY <1>1, TimeSplit
<1> QED
  BY <1>1, <1>2 DEF Inv, Types, TimeInv, Reschedule, Skip

(* Each job moves its deadline; the last one begins the check of the alarms. *)
LEMMA JobsInv == Inv /\ (JobDiscovery \/ JobAttributes \/ JobAlarms) => Inv'
<1> SUFFICES ASSUME Inv, JobDiscovery \/ JobAttributes \/ JobAlarms PROVE Inv'
  OBVIOUS
<1>1. PICK j \in Jobs : Reschedule(j) \/ Skip(j)
  BY DEF JobDiscovery, JobAttributes, JobAlarms, Jobs
<1>2. /\ deadline' \in [Jobs -> 0 .. TickWrap - 1] /\ dueAt' \in [Jobs -> Nat]
      /\ pc # "starting" => \A k \in Jobs : deadline'[k] = Tick(dueAt'[k])
  BY <1>1, RescheduleKeeps
<1>3. /\ pc' \in Jobs \cup {"measuring"} /\ pc # "starting" /\ toMeasure' \subseteq Attributes
      /\ UNCHANGED <<now, sample, started, stored, alarms, sending, sentAt, sends, outside>>
      /\ pc # "alarms"
      /\ toCheck' = toCheck \/ (toCheck' = stored /\ pc' = "alarms")
  BY DEF JobDiscovery, JobAttributes, JobAlarms, ProcessAlarms, alarmVars, Inv, Types, Jobs
<1> QED
  BY <1>2, <1>3 DEF Inv, Types, TimeInv, EntryInv, SendingInv, SendLimit

(* Judging a value switches its entry on or off, and begins its count again *)
(* in the second case.                                                      *)
LEMMA MeasureInv == ASSUME Inv, NEW a \in Attributes, Measure(a) PROVE Inv'
<1> USE DEF Inv, Measure
<1>0. sending = {} /\ toCheck = {} /\ pc # "alarms" /\ pc # "starting"
  BY DEF SendingInv
<1>1. CASE SetAlarm(a)
  <2>1. Types'
    <3>1. NewEntry \in Entry
      BY AlarmsAssumption DEF NewEntry, Entry
    <3>2. [alarms[a] EXCEPT !.on = TRUE] \in Entry
      BY DEF Types, Entry
    <3>3. alarms' \in [Attributes -> Entry]
      BY <1>1, <3>1, <3>2 DEF Types, SetAlarm
    <3> QED
      BY <1>1, <3>3 DEF Types, SetAlarm
  <2>2. TimeInv' /\ EntryInv'
    BY <1>1 DEF Types, TimeInv, EntryInv, SetAlarm, Entry, NewEntry
  <2> QED
    BY <1>0, <1>1, <2>1, <2>2 DEF SendingInv, SendLimit, SetAlarm
<1>2. CASE ClearAlarm(a)
  <2>1. Types'
    <3>1. alarms' \in [Attributes -> Entry]
      BY <1>2 DEF Types, ClearAlarm, Entry
    <3>2. sends' \in [Attributes -> Nat] /\ outside' \subseteq Attributes
          /\ toMeasure' \subseteq Attributes
      BY <1>2 DEF Types, ClearAlarm
    <3> QED
      BY <1>2, <3>1, <3>2 DEF Types, ClearAlarm
  <2>2. TimeInv' /\ EntryInv'
    BY <1>2 DEF Types, TimeInv, EntryInv, ClearAlarm, Entry, NewEntry
  <2> QED
    BY <1>0, <1>2, <2>1, <2>2, AlarmsAssumption DEF SendingInv, SendLimit, ClearAlarm, Types
<1>3. CASE UNCHANGED alarmVars
  BY <1>3 DEF Types, TimeInv, EntryInv, SendingInv, SendLimit, alarmVars
<1> QED
  BY <1>1, <1>2, <1>3

(* What it means that an entry is due. *)
LEMMA DueMeans ==
    ASSUME Inv, NEW a \in stored, sentAt[a] # Never, Epoch(sentAt[a]) = Epoch(now)
    PROVE  Due(a) => now - sentAt[a] > RepeatLatency
<1>1. sentAt[a] \in Nat /\ now \in Nat /\ sentAt[a] <= now /\ alarms[a].last = Tick(sentAt[a])
  BY DEF Inv, Types, TimeInv
<1>2. Tick(sentAt[a]) <= Tick(now) /\ Tick(now) - Tick(sentAt[a]) = now - sentAt[a]
  BY <1>1, TickOrder
<1>3. now - sentAt[a] < TickWrap /\ now - sentAt[a] >= 0
  <2>1. Tick(now) \in 0 .. TickWrap - 1 /\ Tick(sentAt[a]) \in 0 .. TickWrap - 1
    BY <1>1, TimeSplit
  <2> QED
    BY <1>1, <1>2, <2>1, AlarmsAssumption
<1>4. Minus(Tick(now), Tick(sentAt[a])) = now - sentAt[a]
  BY <1>1, <1>3, Elapsed
<1>5. ~(Tick(now) < Tick(sentAt[a]))
  BY <1>1, <1>2, TimeSplit
<1> QED
  BY <1>1, <1>4, <1>5 DEF Due

(* An alarm that is due is taken up, and one that was sent is counted. *)
LEMMA CheckInv == ASSUME Inv, NEW a \in Attributes, CheckOrSend(a) PROVE Inv'
<1> USE DEF Inv, CheckOrSend
<1>1. CASE CheckAlarm(a)
  <2>1. a \in stored /\ sending = {} /\ sending' \subseteq {a}
    BY <1>1 DEF SendingInv, CheckAlarm
  <2>2. ASSUME a \in sending'
        PROVE  /\ a \in outside /\ sends[a] < MaxSendCount
               /\ sentAt[a] # Never /\ Epoch(sentAt[a]) = Epoch(now) =>
                     now - sentAt[a] > RepeatLatency
    <3>1. ToSend(a)
      BY <1>1, <2>2 DEF CheckAlarm
    <3>2. a \in outside /\ sends[a] < MaxSendCount
      BY <3>1, <2>1, AlarmsAssumption DEF ToSend, Exhausted, EntryInv, Types
    <3> QED
      BY <3>1, <3>2, <2>1, DueMeans DEF ToSend
  <2>3. Types' /\ TimeInv' /\ EntryInv' /\ SendLimit'
    BY <1>1, <2>1 DEF Types, TimeInv, EntryInv, SendLimit, CheckAlarm, jobVars
  <2>4. UNCHANGED <<now, stored, sentAt, sends, outside, pc>> /\ toCheck' = toCheck \ {a}
    BY <1>1 DEF CheckAlarm, jobVars
  <2>5. SendingInv'
    BY <2>1, <2>2, <2>4 DEF SendingInv
  <2> QED
    BY <2>3, <2>5
<1>2. CASE AlarmSent(a)
  <2>1. a \in stored /\ a \in outside /\ sends[a] < MaxSendCount /\ sends[a] \in Nat
        /\ now \in Nat /\ Tick(now) \in 0 .. TickWrap - 1
    BY <1>2, TimeSplit DEF SendingInv, AlarmSent, Types
  <2>2. Types'
    BY <1>2, <2>1 DEF Types, AlarmSent, jobVars, Entry
  <2>3. TimeInv'
    BY <1>2, <2>1 DEF Types, TimeInv, AlarmSent, jobVars, Entry, Never
  <2>4. EntryInv' /\ SendLimit' /\ SendingInv'
    BY <1>2, <2>1, AlarmsAssumption DEF Types, EntryInv, SendLimit, SendingInv, AlarmSent, jobVars, Entry
  <2> QED
    BY <2>2, <2>3, <2>4
<1> QED
  BY <1>1, <1>2

(* Time that passes within an epoch only adds to the latency.               *)
LEMMA TimeInvariant == Inv /\ TimePasses => Inv'
<1> SUFFICES ASSUME Inv, TimePasses PROVE Inv'
  OBVIOUS
<1> USE DEF Inv
<1>1. now \in Nat /\ now' = now + 1 /\ UNCHANGED <<alarmVars, pc, sample, deadline, toMeasure, started, dueAt>>
  BY DEF TimePasses, Types
<1>2. Types' /\ TimeInv' /\ EntryInv' /\ SendLimit'
  BY <1>1 DEF Types, TimeInv, EntryInv, SendLimit, alarmVars, Never
<1>3. ASSUME NEW a \in sending, sentAt[a] # Never, Epoch(sentAt[a]) = Epoch(now + 1)
      PROVE  (now + 1) - sentAt[a] > RepeatLatency
  <2>1. sentAt[a] \in Nat /\ sentAt[a] <= now
    BY <1>3 DEF SendingInv, TimeInv, Types
  <2>2. Epoch(sentAt[a]) <= Epoch(now) /\ Epoch(now) <= Epoch(now + 1)
    <3>1. now + 1 \in Nat /\ Epoch(sentAt[a]) \in Nat /\ Epoch(now) \in Nat
          /\ Epoch(now + 1) \in Nat
      BY <1>1, <2>1, TimeSplit
    <3>2. ~(Epoch(now) < Epoch(sentAt[a]))
      BY <1>1, <2>1, EpochOrder
    <3>3. ~(Epoch(now + 1) < Epoch(now))
      BY <1>1, <3>1, EpochOrder
    <3> QED
      BY <3>1, <3>2, <3>3
  <2>3. Epoch(sentAt[a]) = Epoch(now)
    BY <1>1, <1>3, <2>1, <2>2, TimeSplit
  <2> QED
    BY <1>1, <1>3, <2>1, <2>3, AlarmsAssumption DEF SendingInv
<1>4. SendingInv'
  BY <1>1, <1>3 DEF SendingInv, alarmVars
<1> QED
  BY <1>2, <1>4

(* Inv is inductive. *)
LEMMA NextInv == Inv /\ [Next]_vars => Inv'
<1>1. Inv /\ UNCHANGED vars => Inv'
  BY DEF Inv, Types, TimeInv, EntryInv, SendingInv, SendLimit, vars, alarmVars, jobVars
<1> QED
  BY <1>1, WaitInv, StartInv, JobsInv, MeasureInv, CheckInv, TimeInvariant DEF Next

(* What the entries and deadlines of the program mean. *)
THEOREM JobsInvariant == Spec => []Inv
<1> QED
  BY InitInv, NextInv, PTL DEF Spec

(* SendLimit, Alarms.cpp line 106: the count kept in an entry is the number *)
(* of sends since its value was last normal.                                *)
THEOREM SendLimitHolds == Spec => []SendLimit
BY JobsInvariant, PTL DEF Inv

(* Alarms.cpp, ClearAlarm: an entry being sent is one whose value was last  *)
(* judged out of range.                                                     *)
THEOREM OnlyOutOfRangeIsSentHolds == Spec => []OnlyOutOfRangeIsSent
<1>1. Inv => OnlyOutOfRangeIsSent
  BY DEF Inv, SendingInv, OnlyOutOfRangeIsSent
<1> QED
  BY <1>1, JobsInvariant, PTL

(* The repeat latency of Alarms.cpp lines 111-114 is respected between two  *)
(* sends of an epoch.                                                       *)
THEOREM RepeatRespectedInEpochHolds == Spec => RepeatRespectedInEpoch
<1>1. Inv => [\A a \in Attributes :
          Sent(a) /\ sentAt[a] # Never /\ Epoch(sentAt[a]) = Epoch(now) =>
              now - sentAt[a] > RepeatLatency]_vars
  BY DEF Inv, SendingInv, Sent
<1> QED
  BY <1>1, JobsInvariant, PTL DEF RepeatRespectedInEpoch

(* An entry that the loop of ProcessAlarms passes over.                     *)
LEMMA Passed == ASSUME Inv, [Next]_vars, NEW a \in toCheck \ toCheck'
                PROVE  CheckAlarm(a) /\ now' = now
<1>1. CASE UNCHANGED vars
  BY <1>1 DEF vars, alarmVars
<1>2. CASE StartJobsTimer \/ WakeForTimer \/ ReadTick \/ JobDiscovery \/ JobAttributes
           \/ EndOfPass \/ TimePasses \/ Finished
  BY <1>2 DEF StartJobsTimer, WakeForTimer, ReadTick, JobDiscovery, JobAttributes, EndOfPass,
     TimePasses, Finished, vars, alarmVars
<1>3. CASE JobAlarms
  BY <1>3 DEF JobAlarms, ProcessAlarms, alarmVars, Inv, SendingInv
<1>4. ASSUME NEW b \in Attributes, Measure(b) PROVE FALSE
  BY <1>4 DEF Measure, SetAlarm, ClearAlarm, alarmVars
<1>5. ASSUME NEW b \in Attributes, CheckOrSend(b) PROVE CheckAlarm(a) /\ now' = now
  BY <1>5 DEF CheckOrSend, CheckAlarm, AlarmSent
<1> QED
  BY <1>1, <1>2, <1>3, <1>4, <1>5 DEF Next

(* A time is the only one of its epoch with its tick. *)
LEMMA TickAgo ==
    ASSUME NEW n \in Nat, NEW u \in 0 .. TickWrap - 1
    PROVE  u <= Tick(n) => Epoch(n - (Tick(n) - u)) = Epoch(n) /\ Tick(n - (Tick(n) - u)) = u
<1> SUFFICES ASSUME u <= Tick(n)
             PROVE Epoch(n - (Tick(n) - u)) = Epoch(n) /\ Tick(n - (Tick(n) - u)) = u
  OBVIOUS
<1> DEFINE m == n - (Tick(n) - u)
<1>1. /\ TickWrap \in Nat \ {0} /\ Tick(n) \in 0 .. TickWrap - 1 /\ Epoch(n) \in Nat
      /\ n = TickWrap * Epoch(n) + Tick(n)
  BY AlarmsAssumption, TimeSplit
<1>2. TickWrap * Epoch(n) \in Nat
  BY <1>1
<1>3. m \in Nat /\ m = TickWrap * Epoch(n) + u
  BY <1>1, <1>2
<1> HIDE DEF m
<1>4. Tick(m) \in 0 .. TickWrap - 1 /\ Epoch(m) \in Nat /\ m = TickWrap * Epoch(m) + Tick(m)
  BY <1>3, TimeSplit
<1>5. Epoch(m) = Epoch(n)
  <2>0. /\ TickWrap * Epoch(m) \in Nat /\ Epoch(m) \in Nat /\ Epoch(n) \in Nat
        /\ TickWrap * (Epoch(m) + 1) = TickWrap * Epoch(m) + TickWrap
        /\ TickWrap * (Epoch(n) + 1) = TickWrap * Epoch(n) + TickWrap
    BY <1>1, <1>4
  <2>00. \A p, q, w, v, x \in Int : 0 <= v /\ v < w /\ 0 <= x /\ p + w <= q => p + v # q + x
    OBVIOUS
  <2>1. CASE Epoch(m) < Epoch(n)
    <3>1. TickWrap * (Epoch(m) + 1) <= TickWrap * Epoch(n)
      BY <1>1, <1>4, <2>1
    <3>2. TickWrap * Epoch(m) + TickWrap <= TickWrap * Epoch(n)
      BY <2>0, <3>1
    <3> QED
      BY <1>1, <1>2, <1>3, <1>4, <2>0, <2>00, <3>2
  <2>2. CASE Epoch(n) < Epoch(m)
    <3>1. TickWrap * (Epoch(n) + 1) <= TickWrap * Epoch(m)
      BY <1>1, <1>4, <2>2
    <3>2. TickWrap * Epoch(n) + TickWrap <= TickWrap * Epoch(m)
      BY <2>0, <3>1
    <3> QED
      BY <1>1, <1>2, <1>3, <1>4, <2>0, <2>00, <3>2
  <2> QED
    BY <2>0, <2>1, <2>2
<1>6. Tick(m) = u
  BY <1>2, <1>3, <1>4, <1>5
<1> QED
  BY <1>5, <1>6 DEF m

(* Alarms.cpp, lines 106-114, in ticks: what is due, and what is not.       *)
LEMMA HeldInTicks ==
    ASSUME Inv, NEW a \in stored
    PROVE  ~Due(a) <=> Tick(now) - alarms[a].last \in 0 .. RepeatLatency
<1>1. /\ Tick(now) \in 0 .. TickWrap - 1 /\ alarms[a].last \in 0 .. TickWrap - 1
      /\ TickWrap \in Nat \ {0} /\ RepeatLatency \in 0 .. TickWrap - 1
  BY AlarmsAssumption, TimeSplit DEF Inv, Types, Entry
<1>2. CASE Tick(now) < alarms[a].last
  BY <1>1, <1>2 DEF Due
<1>3. CASE alarms[a].last <= Tick(now)
  <2>1. Minus(Tick(now), alarms[a].last) = Tick(now) - alarms[a].last
    BY <1>1, <1>3, ModWrap DEF Minus
  <2> QED
    BY <1>1, <1>3, <2>1 DEF Due
<1> QED
  BY <1>1, <1>2, <1>3

(* The same in times: what alone holds back the alarm of a value out of     *)
(* range.                                                                   *)
THEOREM HeldBackOnlyByLatencyHolds == Spec => HeldBackOnlyByLatency
<1> DEFINE Ago(a) == \E t \in 0 .. RepeatLatency :
                        Epoch(now - t) = Epoch(now) /\ Tick(now - t) = Tick(LastSent(a))
<1>1. ASSUME Inv, [Next]_vars, NEW a \in toCheck \ toCheck',
             a \in outside, sends[a] < MaxSendCount
      PROVE  a \notin sending' <=> Ago(a)
  <2>1. CheckAlarm(a)
    BY <1>1, Passed
  <2>2. a \in stored /\ alarms[a].on /\ ~Exhausted(a) /\ now \in Nat
    BY <1>1, AlarmsAssumption DEF Inv, Types, EntryInv, Exhausted
  <2>3. a \notin sending' <=> ~Due(a)
    BY <2>1, <2>2 DEF CheckAlarm, ToSend
  <2>4. alarms[a].last = Tick(LastSent(a))
    BY <1>1, <2>2, AlarmsAssumption, ModWrap DEF Inv, TimeInv, LastSent, Tick
  <2>5. /\ Tick(now) \in 0 .. TickWrap - 1 /\ alarms[a].last \in 0 .. TickWrap - 1
        /\ RepeatLatency \in Nat /\ TickWrap \in Nat
    BY <1>1, <2>2, AlarmsAssumption, TimeSplit DEF Inv, Types, Entry
  <2>6. ASSUME ~Due(a) PROVE Ago(a)
    <3> DEFINE t == Tick(now) - alarms[a].last
    <3>1. t \in 0 .. RepeatLatency
      BY <1>1, <2>2, <2>6, HeldInTicks
    <3>2. Epoch(now - t) = Epoch(now) /\ Tick(now - t) = alarms[a].last
      BY <2>2, <2>5, <3>1, TickAgo
    <3> QED
      BY <2>4, <3>1, <3>2
  <2>7. ASSUME Ago(a) PROVE ~Due(a)
    <3>1. PICK t \in 0 .. RepeatLatency :
             Epoch(now - t) = Epoch(now) /\ Tick(now - t) = alarms[a].last
      BY <2>4, <2>7
    <3>2. now - t \in Nat
      <4>1. Epoch(now) \in Nat
        BY <2>2, TimeSplit
      <4>2. now - t \in Int /\ Epoch(now - t) >= 0
        BY <2>2, <3>1, <4>1
      <4> QED
        BY <4>2, AlarmsAssumption DEF Epoch
    <3>3. Tick(now) - Tick(now - t) = now - (now - t)
      BY <2>2, <3>1, <3>2, TickOrder
    <3>4. Tick(now) - alarms[a].last = t
      BY <2>2, <2>5, <3>1, <3>3
    <3> QED
      BY <1>1, <2>2, <3>1, <3>4, HeldInTicks
  <2> QED
    BY <2>3, <2>6, <2>7
<1>2. Inv /\ [Next]_vars => [\A a \in toCheck \ toCheck' :
          a \in outside /\ sends[a] < MaxSendCount =>
              (a \notin sending' <=>
                  \E t \in 0 .. RepeatLatency :
                      Epoch(now - t) = Epoch(now) /\ Tick(now - t) = Tick(LastSent(a)))]_vars
  BY <1>1, Zenon
<1> QED
  BY <1>2, JobsInvariant, PTL DEF HeldBackOnlyByLatency, Spec

(* A job that is run has reached its deadline in ticks, which is its time   *)
(* unless the counter turns over in between (ZiBManager.cpp, 373-393).      *)
LEMMA ReachedMeans == ASSUME Inv, pc # "starting", NEW j \in Jobs
                      PROVE  /\ Reached(j) => sample >= dueAt[j] \/ Epoch(dueAt[j]) > Epoch(sample)
                             /\ sample >= dueAt[j] /\ Epoch(sample) = Epoch(dueAt[j]) => Reached(j)
<1>1. /\ sample \in Nat /\ dueAt[j] \in Nat /\ deadline[j] = Tick(dueAt[j])
      /\ Tick(sample) \in Nat /\ Tick(dueAt[j]) \in Nat
      /\ Epoch(sample) \in Nat /\ Epoch(dueAt[j]) \in Nat
  BY TimeSplit DEF Inv, Types, TimeInv
<1>2. CASE Epoch(dueAt[j]) = Epoch(sample)
  BY <1>1, <1>2, TickOrder DEF Reached
<1>3. CASE Epoch(dueAt[j]) < Epoch(sample)
  BY <1>1, <1>3, EpochOrder
<1> QED
  BY <1>1, <1>2, <1>3

(* ZiBManager.cpp, 373-393: a job runs no earlier than one turn of its      *)
(* latency after its last, within an epoch of the tick.                     *)
THEOREM JobsOnTimeHolds == Spec => JobsOnTime
<1>1. ASSUME Inv, [Next]_vars, NEW j \in Jobs, pc \in Jobs \cup {"measuring"}, dueAt[j] # dueAt'[j]
      PROVE  sample >= dueAt[j] \/ Epoch(dueAt[j]) > Epoch(sample)
  <2>1. pc # "starting"
    BY <1>1 DEF Jobs
  <2>2. Reached(j)
    BY <1>1, <2>1 DEF Inv, Types, Next, StartJobsTimer, WakeForTimer, ReadTick, JobDiscovery,
       JobAttributes, JobAlarms, Reschedule, Skip, EndOfPass, Measure, CheckOrSend, TimePasses,
       Finished, vars, jobVars
  <2> QED
    BY <1>1, <2>1, <2>2, ReachedMeans
<1>2. Inv /\ [Next]_vars => [\A j \in Jobs :
          pc \in Jobs \cup {"measuring"} /\ dueAt[j] # dueAt'[j]
              => sample >= dueAt[j] \/ Epoch(dueAt[j]) > Epoch(sample)]_vars
  BY <1>1
<1> QED
  BY <1>2, JobsInvariant, PTL DEF JobsOnTime, Spec

(* A job whose deadline has been reached within the epoch is run.           *)
THEOREM NotSkippedHolds == Spec => NotSkipped
<1>1. ASSUME Inv, Next, NEW j \in Jobs,
             \/ j \in {"discovery", "attributes"} /\ pc = j
             \/ j = "alarms" /\ pc = "measuring",
             pc' # pc,
             sample >= dueAt[j], Epoch(sample) = Epoch(dueAt[j])
      PROVE  dueAt'[j] = sample + Latency[j]
  <2>1. Reached(j)
    BY <1>1, ReachedMeans DEF Jobs
  <2>2. Reschedule(j) \/ Skip(j)
    BY <1>1 DEF Next, StartJobsTimer, WakeForTimer, ReadTick, JobDiscovery, JobAttributes,
       JobAlarms, EndOfPass, Measure, CheckOrSend, TimePasses, Finished, vars, jobVars
  <2> QED
    BY <1>1, <2>1, <2>2 DEF Reschedule, Skip, Inv, Types
<1>2. Inv /\ [Next]_vars => [\A j \in Jobs :
          /\ \/ j \in {"discovery", "attributes"} /\ pc = j
             \/ j = "alarms" /\ pc = "measuring"
          /\ pc' # pc
          /\ sample >= dueAt[j] /\ Epoch(sample) = Epoch(dueAt[j])
          => dueAt'[j] = sample + Latency[j]]_vars
  BY <1>1
<1> QED
  BY <1>2, JobsInvariant, PTL DEF NotSkipped, Spec

(* Every variable of the jobs and alarms keeps its type; in particular a    *)
(* deadline is never wider than the tick it is compared with.               *)
THEOREM TypeOKHolds == Spec => []TypeOK
<1> DEFINE Flag == timer \in BOOLEAN
<1>1. Init => Flag
  BY DEF Init
<1>2. Flag /\ [Next]_vars => Flag'
  BY ZenonT(60) DEF Next, StartJobsTimer, WakeForTimer, ReadTick, JobDiscovery, JobAttributes,
     JobAlarms, EndOfPass, Measure, CheckOrSend, TimePasses, Finished, vars, jobVars
<1>3. Inv /\ Flag => TypeOK
  BY ZenonT(30) DEF Inv, Types, TypeOK, AlarmsTypeOK
<1> HIDE DEF Flag
<1> QED
  BY <1>1, <1>2, <1>3, JobsInvariant, PTL DEF Spec
================================================================================
