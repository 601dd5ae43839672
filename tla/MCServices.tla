---------------------------- MODULE MCServices ----------------------------
(***************************************************************************)
(* The backups, the rate limit and the monitoring share no state, so a run *)
(* of one of them is a run of the three in which the others stand still:   *)
(* `scene' says which goes on, and their state spaces add up.              *)
(***************************************************************************)
EXTENDS BackupProperties, RateLimitProperties, MonitoringProperties

VARIABLE scene

OneLimit == [p \in Policies |-> 2]

servicesVars == <<scene, watchedVars, rateVars, monitoringVars>>

ServicesInit == /\ scene \in {"backups", "rate", "monitoring"}
                /\ WatchedInit /\ RateInit /\ MonitoringInit

InBackups(A)    == scene = "backups" /\ A /\ UNCHANGED <<scene, rateVars, monitoringVars>>
InRate(A)       == scene = "rate" /\ A /\ UNCHANGED <<scene, watchedVars, monitoringVars>>
InMonitoring(A) == scene = "monitoring" /\ A /\ UNCHANGED <<scene, watchedVars, rateVars>>

ServicesNext == InBackups(WatchedNext) \/ InRate(RateNext) \/ InMonitoring(MonitoringNext)

\* The backend goes on with its requests, and time passes.
ServicesSpec ==
    /\ ServicesInit /\ [][ServicesNext]_servicesVars
    /\ \A r \in Slots : WF_servicesVars(InBackups(RequestStep(r) /\ Watch))
    /\ WF_servicesVars(InRate(TickRate))
===========================================================================
