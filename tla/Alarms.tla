-------------------------------- MODULE Alarms --------------------------------
(***************************************************************************)
(* zib_manager/Alarms.cpp: class CAlarms, the alarms of measured attributes *)
(* and the rule that decides when one is sent by SMS or email.             *)
(*                                                                         *)
(* An entry exists once its attribute has been out of range; it is kept    *)
(* when the value returns to normal, so that its last time sent survives.  *)
(* Times are GetTickCount(): a counter that wraps.  "now" is the time      *)
(* since the machine booted, which does not.                               *)
(***************************************************************************)
EXTENDS Integers, FiniteSets

CONSTANTS Attributes,      \* the measured attributes (mac, ep, cluster, attribute)
          TickWrap,        \* GetTickCount() counts modulo this: 2^32
          RepeatLatency,   \* m_dwRepeatLatencyMs
          MaxSendCount     \* m_uMaxSendCount

ASSUME AlarmsAssumption == /\ TickWrap \in Nat \ {0}
                           /\ RepeatLatency \in 0 .. TickWrap - 1
                           /\ MaxSendCount \in Nat

VARIABLES now,       \* time since boot
          stored,    \* the attributes with an entry in m_vecAlarms
          alarms,    \* their m_bAlarmOn, m_uSendCount and m_tickLastTimeSent
          toCheck,   \* entries ProcessAlarms has still to look at
          sending,   \* the entry whose SMS or email is being sent, as a set
          sentAt,    \* history: when each alarm was last sent, or Never
          sends,     \* history: how often, since its value was last normal
          outside    \* history: attributes whose last judged value was out of range

alarmVars == <<stored, alarms, toCheck, sending, sentAt, sends, outside>>

Never == -1

Tick(t) == t % TickWrap
Minus(t, u) == (t - u) % TickWrap     \* DWORD subtraction
Epoch(t) == t \div TickWrap

Entry == [on : BOOLEAN, count : Nat, last : 0 .. TickWrap - 1]
NewEntry == [on |-> TRUE, count |-> 0, last |-> 0]

InitAlarms ==
    /\ stored = {} /\ toCheck = {} /\ sending = {}
    /\ alarms = [a \in Attributes |-> NewEntry]
    /\ sentAt = [a \in Attributes |-> Never]
    /\ sends = [a \in Attributes |-> 0]
    /\ outside = {}

--------------------------------------------------------------------------------

(* An entry that is already stored keeps its count and last time sent.     *)
SetAlarm(a) ==
    /\ stored' = stored \cup {a}
    /\ alarms' = [alarms EXCEPT ![a] = IF a \in stored THEN [@ EXCEPT !.on = TRUE]
                                                        ELSE NewEntry]
    /\ outside' = outside \cup {a}
    /\ UNCHANGED <<toCheck, sending, sentAt, sends>>

(* Seeded fault: the alarm stays on. *)
ClearAlarmCountOnly(a) ==
    /\ alarms' = IF a \in stored THEN [alarms EXCEPT ![a].count = 0] ELSE alarms
    /\ outside' = outside \ {a}
    /\ sends' = [sends EXCEPT ![a] = 0]
    /\ UNCHANGED <<stored, toCheck, sending, sentAt>>

(* Seeded fault: the count of sends survives. *)
ClearAlarmKeepsCount(a) ==
    /\ alarms' = IF a \in stored THEN [alarms EXCEPT ![a].on = FALSE] ELSE alarms
    /\ outside' = outside \ {a}
    /\ sends' = [sends EXCEPT ![a] = 0]
    /\ UNCHANGED <<stored, toCheck, sending, sentAt>>

(* The entry is kept, but off. *)
ClearAlarm(a) ==
    /\ alarms' = IF a \in stored THEN [alarms EXCEPT ![a].on = FALSE, ![a].count = 0]
                                 ELSE alarms
    /\ outside' = outside \ {a}
    /\ sends' = [sends EXCEPT ![a] = 0]
    /\ UNCHANGED <<stored, toCheck, sending, sentAt>>

(* ProcessAlarms: a loop over the entries. *)
ProcessAlarms ==
    /\ toCheck' = stored
    /\ UNCHANGED <<stored, alarms, sending, sentAt, sends, outside>>

(* Seeded fault: off by one in the number of sends. *)
ExhaustedLate(a) == alarms[a].count > MaxSendCount

Exhausted(a) == alarms[a].count >= MaxSendCount

(* Seeded fault: the latency is not compared. *)
DueAlways(a) == TRUE

(* The disjunct "has never been sent" of the source compares the address   *)
(* of GetSendCount with 0 and is never true.                               *)
Due(a) ==
    \/ Tick(now) < alarms[a].last
    \/ Minus(Tick(now), alarms[a].last) > RepeatLatency

ToSend(a) == alarms[a].on /\ ~Exhausted(a) /\ Due(a)

CheckAlarm(a) ==
    /\ sending = {} /\ a \in toCheck
    /\ toCheck' = toCheck \ {a}
    /\ sending' = IF ToSend(a) THEN {a} ELSE {}
    /\ UNCHANGED <<stored, alarms, sentAt, sends, outside>>

(* The modem and the mail server may or may not have taken the message.    *)
AlarmSent(a) ==
    /\ a \in sending
    /\ sending' = {}
    /\ alarms' = [alarms EXCEPT ![a].last = Tick(now), ![a].count = @ + 1]
    /\ sentAt' = [sentAt EXCEPT ![a] = now]
    /\ sends' = [sends EXCEPT ![a] = @ + 1]
    /\ UNCHANGED <<stored, toCheck, outside>>

--------------------------------------------------------------------------------

AlarmsTypeOK ==
    /\ now \in Nat
    /\ stored \subseteq Attributes /\ outside \subseteq Attributes
    /\ toCheck \subseteq Attributes /\ sending \subseteq Attributes
    /\ alarms \in [Attributes -> Entry]
    /\ sentAt \in [Attributes -> Nat \cup {Never}]
    /\ sends \in [Attributes -> Nat]

================================================================================
