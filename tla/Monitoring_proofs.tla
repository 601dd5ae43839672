-------------------------- MODULE Monitoring_proofs --------------------------
(***************************************************************************)
(* What the operators are told is true for any delay of the worker's timer *)
(* that the health check allows, and any number of failures.               *)
(***************************************************************************)
EXTENDS MonitoringProperties, TLAPS

\* The age of a running worker's heartbeat is what its timer makes of it; that of a dead
\* worker's has grown since.
HeartbeatInv ==
    /\ up \in BOOLEAN /\ due \in 0..BeatPeriod /\ late \in 0..MaxLate
    /\ age \in 0..TimeToLive /\ down \in 0..TimeToLive
    /\ up => down = 0 /\ age + due = BeatPeriod + late /\ (due > 0 => late = 0)
    /\ ~up => age >= down /\ due = 0 /\ late = 0

LettersInv ==
    /\ failures \in Nat /\ letters \in Seq(Nat)
    /\ DeadLettersAreLatest

MonitoringInv == HeartbeatInv /\ LettersInv

LEMMA InitInv ==
  ASSUME MonitoringInit
  PROVE  MonitoringInv
<1>1. HeartbeatInv
  <2>1. ~up /\ due = 0 /\ late = 0 /\ age = 8 /\ down = 8
    BY DEF MonitoringInit, TimeToLive
  <2>2. due \in 0..1 /\ late \in 0..MaxLate /\ age \in 0..8 /\ down \in 0..8 /\ age >= down
    BY <2>1, MonitoringAssumption
  <2>3. up \in BOOLEAN
    BY DEF MonitoringInit
  <2> QED BY <2>1, <2>2, <2>3 DEF HeartbeatInv, BeatPeriod, TimeToLive
<1>2. LettersInv
  BY MonitoringAssumption DEF MonitoringInit, LettersInv, DeadLettersAreLatest, AtMost
<1> QED BY <1>1, <1>2 DEF MonitoringInv

LEMMA HeartbeatStep ==
  ASSUME HeartbeatInv, [MonitoringNext]_monitoringVars
  PROVE  HeartbeatInv'
<1>1. CASE StartWorker \/ TimerBeats
  <2>1. up' /\ up' \in BOOLEAN /\ age' = 0 /\ due' = 1 /\ late' = 0 /\ down' = 0
    BY <1>1 DEF StartWorker, TimerBeats, Beat, HeartbeatInv, BeatPeriod
  <2>2. /\ due' \in 0..1 /\ late' \in 0..MaxLate /\ age' \in 0..8 /\ down' \in 0..8
        /\ age' + due' = 1 + late' /\ (due' > 0 => late' = 0)
    BY <2>1, MonitoringAssumption DEF HeartbeatInv, TimeToLive
  <2> QED BY <2>1, <2>2 DEF HeartbeatInv, BeatPeriod, TimeToLive
<1>2. CASE StopWorker
  <2>1. /\ ~up' /\ up' \in BOOLEAN /\ due' = 0 /\ late' = 0
        /\ age' = age /\ down' = down /\ age \in 0..8 /\ down = 0
    BY <1>2 DEF StopWorker, HeartbeatInv, TimeToLive
  <2>2. /\ due' \in 0..1 /\ late' \in 0..MaxLate /\ age' \in 0..8 /\ down' \in 0..8
        /\ age' >= down'
    BY <2>1, MonitoringAssumption
  <2> QED BY <2>1, <2>2 DEF HeartbeatInv, BeatPeriod, TimeToLive
<1>3. CASE TickWorker
  <2>1. CASE up
    <3>1. /\ late' = IF due = 0 THEN late + 1 ELSE late
          /\ due' = IF due = 0 THEN 0 ELSE due - 1
          /\ due = 0 => late < MaxLate
          /\ age' = AtMost(age + 1, TimeToLive) /\ down' = 0 /\ up' = up
      BY <1>3, <2>1 DEF TickWorker
    <3>2. due \in 0..1 /\ late \in 0..MaxLate /\ age + due = 1 + late /\ (due > 0 => late = 0)
      BY <2>1 DEF HeartbeatInv, BeatPeriod
    <3>3. MaxLate \in Nat /\ MaxLate < 3
      BY MonitoringAssumption DEF BeatPeriod, HealthyAge
    <3>4. age \in 0..8 /\ down \in 0..8
      BY DEF HeartbeatInv, TimeToLive
    <3>5. /\ due' \in 0..1 /\ late' \in 0..MaxLate /\ age' \in 0..8 /\ down' \in 0..8
          /\ age' + due' = 1 + late' /\ (due' > 0 => late' = 0)
      BY <3>1, <3>2, <3>3, <3>4 DEF AtMost, TimeToLive
    <3> QED BY <2>1, <3>1, <3>5 DEF HeartbeatInv, BeatPeriod, TimeToLive
  <2>2. CASE ~up
    <3>1. /\ late' = late /\ due' = IF due = 0 THEN 0 ELSE due - 1
          /\ age' = AtMost(age + 1, 8) /\ down' = AtMost(down + 1, 8) /\ up' = up
      BY <1>3, <2>2 DEF TickWorker, TimeToLive
    <3>2. due = 0 /\ late = 0 /\ age \in 0..8 /\ down \in 0..8 /\ age >= down
      BY <2>2 DEF HeartbeatInv, TimeToLive
    <3>3. due' = 0 /\ late' = 0 /\ age' \in 0..8 /\ down' \in 0..8 /\ age' >= down'
      BY <3>1, <3>2 DEF AtMost
    <3>4. MaxLate \in Nat
      BY MonitoringAssumption
    <3> QED BY <2>2, <3>1, <3>3, <3>4 DEF HeartbeatInv, BeatPeriod, TimeToLive
  <2> QED BY <2>1, <2>2
<1>4. CASE RecordFailure \/ UNCHANGED monitoringVars
  BY <1>4 DEF RecordFailure, monitoringVars, HeartbeatInv
<1> QED BY <1>1, <1>2, <1>3, <1>4 DEF MonitoringNext

\* Pushing onto the latest failures leaves the latest failures.
LEMMA LettersStep ==
  ASSUME LettersInv, [MonitoringNext]_monitoringVars
  PROVE  LettersInv'
<1>1. CASE UNCHANGED <<letters, failures>>
  BY <1>1 DEF LettersInv, DeadLettersAreLatest
<1>2. CASE RecordFailure
  <2> DEFINE pushed == <<failures + 1>> \o letters
             n      == AtMost(Len(letters) + 1, RetainCount + 1)
  <2>1. /\ failures' = failures + 1 /\ failures' \in Nat
        /\ letters' = SubSeq(pushed, 1, n)
    BY <1>2 DEF RecordFailure, Push, LettersInv
  <2>2. pushed \in Seq(Nat) /\ Len(pushed) = Len(letters) + 1
    BY DEF LettersInv
  <2>3. n \in Nat /\ n <= Len(pushed) /\ n = AtMost(failures + 1, RetainCount + 1)
    BY <2>2, MonitoringAssumption DEF LettersInv, DeadLettersAreLatest, AtMost
  <2>4. \A i \in 1..Len(pushed) : pushed[i] = failures + 2 - i
    BY <2>2 DEF LettersInv, DeadLettersAreLatest
  <2>5. /\ letters' \in Seq(Nat) /\ Len(letters') = n
        /\ \A i \in 1..n : letters'[i] = pushed[i]
    <3> HIDE DEF pushed, n
    <3> QED BY <2>1, <2>2, <2>3
  <2>6. DeadLettersAreLatest'
    <3>1. \A i \in 1..n : letters'[i] = failures' + 1 - i
      BY <2>1, <2>2, <2>3, <2>4, <2>5 DEF LettersInv
    <3> HIDE DEF n
    <3> QED BY <2>1, <2>3, <2>5, <3>1 DEF DeadLettersAreLatest
  <2> QED BY <2>1, <2>5, <2>6 DEF LettersInv
<1>3. CASE StartWorker \/ TimerBeats \/ StopWorker \/ TickWorker \/ UNCHANGED monitoringVars
  BY <1>1, <1>3 DEF StartWorker, TimerBeats, StopWorker, TickWorker, Beat, monitoringVars
<1> QED BY <1>2, <1>3 DEF MonitoringNext

\* The inductive invariant of the monitoring.
THEOREM MonitoringInvariance == MonitoringSpec => []MonitoringInv
<1>1. MonitoringInv /\ [MonitoringNext]_monitoringVars => MonitoringInv'
  BY HeartbeatStep, LettersStep DEF MonitoringInv
<1> QED BY <1>1, InitInv, PTL DEF MonitoringSpec

\* A worker that runs is reported healthy, and one that died no longer than a minute.
THEOREM HealthIsTold == MonitoringSpec => []HealthIsTrue
<1>1. MonitoringInv => HealthIsTrue
  BY MonitoringAssumption
  DEF MonitoringInv, HeartbeatInv, HealthIsTrue, IsHealthy, BeatPeriod, HealthyAge, TimeToLive
<1> QED BY <1>1, MonitoringInvariance, PTL

\* The list holds the latest failures, whatever the number to retain.
THEOREM LatestAreKept == MonitoringSpec => []DeadLettersAreLatest
<1>1. MonitoringInv => DeadLettersAreLatest
  BY DEF MonitoringInv, LettersInv
<1> QED BY <1>1, MonitoringInvariance, PTL
=============================================================================
