------------------------ MODULE MonitoringProperties ------------------------
(* What the operators are told.                                              *)
EXTENDS Monitoring

\* /health tells a worker that runs, its timer no later than it may be, as healthy, and
\* within a minute of its death no longer.
HealthIsTrue ==
    /\ up => IsHealthy
    /\ IsHealthy => up \/ down < HealthyAge

\* The dead letters are the latest failures, the newest first; of all there were, one more
\* than DEAD_LETTER_RETAIN_COUNT is kept.
DeadLettersAreLatest ==
    /\ Len(letters) = AtMost(failures, RetainCount + 1)
    /\ \A i \in 1..Len(letters) : letters[i] = failures + 1 - i
=============================================================================
