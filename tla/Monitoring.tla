----------------------------- MODULE Monitoring -----------------------------
(***************************************************************************)
(* What the operators see of the worker: a heartbeat it writes to Redis    *)
(* every 15 seconds, from whose age the backend's /health judges it, and   *)
(* lists of the latest failures and requests.  A tick is 15 seconds.       *)
(***************************************************************************)
EXTENDS Naturals, Sequences

CONSTANTS
    MaxLate,        \* ticks the worker's timer may come late
    RetainCount,    \* DEAD_LETTER_RETAIN_COUNT (500 in the code)
    MaxFailures     \* jobs that fail                                     (bound)

BeatPeriod == 1
HealthyAge == 4
TimeToLive == 8

ASSUME MonitoringAssumption ==
    /\ MaxLate \in Nat /\ BeatPeriod + MaxLate < HealthyAge
    /\ RetainCount \in Nat /\ MaxFailures \in Nat

VARIABLES
    up,             \* the worker runs
    due, late,      \* ticks until its timer fires; since it should have
    age,            \* of the heartbeat in Redis; TimeToLive: there is none
    down,           \* ticks since the worker died, as far as they matter
    letters,        \* queue:dead-letter, the newest first
    failures        \* failed_total

monitoringVars == <<up, due, late, age, down, letters, failures>>

MonitoringInit ==
    /\ up = FALSE /\ due = 0 /\ late = 0 /\ age = TimeToLive /\ down = TimeToLive
    /\ letters = <<>> /\ failures = 0

\* reportMetrics, when the module starts and when the timer fires.
Beat ==
    /\ age' = 0 /\ due' = BeatPeriod /\ late' = 0
    /\ UNCHANGED <<letters, failures>>

StartWorker == ~up /\ up' = TRUE /\ down' = 0 /\ Beat
TimerBeats  == up /\ due = 0 /\ UNCHANGED <<up, down>> /\ Beat

\* The process ends, also because Redis rejects a heartbeat: nothing catches that.
StopWorker ==
    /\ up /\ up' = FALSE /\ due' = 0 /\ late' = 0
    /\ UNCHANGED <<age, down, letters, failures>>

AtMost(n, limit) == IF n < limit THEN n ELSE limit

TickWorker ==
    /\ up /\ due = 0 => late < MaxLate
    /\ due' = IF due = 0 THEN 0 ELSE due - 1
    /\ late' = IF up /\ due = 0 THEN late + 1 ELSE late
    /\ age' = AtMost(age + 1, TimeToLive)
    /\ down' = IF up THEN 0 ELSE AtMost(down + 1, TimeToLive)
    /\ UNCHANGED <<up, letters, failures>>

\* Mutant: the time to live alone decides.
HealthyWhileKept == age < TimeToLive
\* getWorkerStatus.
IsHealthy == age < TimeToLive /\ age < HealthyAge

\* Mutant: RPUSH for LPUSH: the oldest are kept.
PushLast(item, list, last) == SubSeq(Append(list, item), 1, AtMost(Len(list) + 1, last + 1))
\* LPUSH and LTRIM 0 last, in one MULTI.
Push(item, list, last) == SubSeq(<<item>> \o list, 1, AtMost(Len(list) + 1, last + 1))

\* recordDeadLetter; the alert that follows changes nothing here.
RecordFailure ==
    /\ up /\ failures < MaxFailures
    /\ failures' = failures + 1
    /\ letters' = Push(failures', letters, RetainCount)
    /\ UNCHANGED <<up, due, late, age, down>>

MonitoringNext ==
    StartWorker \/ TimerBeats \/ StopWorker \/ TickWorker \/ RecordFailure
MonitoringSpec == MonitoringInit /\ [][MonitoringNext]_monitoringVars
=============================================================================
