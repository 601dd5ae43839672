------------------------------ MODULE Frontend ------------------------------
(***************************************************************************)
(* The frontend in one browser, one page at a time, against the backend.   *)
(* Pages share nothing but what the backend shows them.                    *)
(***************************************************************************)
EXTENDS Dashboard, UserManage, ClientPortal

frontendVars == <<net, call, page, busy, dashboardVars, userVars, portalVars>>

FrontendInit == RequestsInit /\ DashboardInit /\ UserInit /\ PortalInit

Idly(A, others) == A /\ UNCHANGED others

DashboardStep == Idly(Redirect \/ LeaveDashboard \/ (\E c \in Calls : DashboardClick(c)),
                      <<userVars, portalVars>>)
UserStep      == Idly(LeaveUser \/ (\E c \in Calls : UserClick(c)), <<dashboardVars, portalVars>>)
PortalStep    == Idly(OpenPortal \/ LeavePortal \/ (\E c \in Calls : PortalClick(c)),
                      <<dashboardVars, userVars>>)

\* An answer arrives and its page goes on.
Arrives(c) == \/ Idly(DashboardAnswer(c), <<userVars, portalVars>>)
              \/ Idly(UserAnswer(c), <<dashboardVars, portalVars>>)
              \/ Idly(PortalAnswer(c), <<dashboardVars, userVars>>)

MessagesTimer == \E c \in Calls : Idly(PollMessages(c), <<dashboardVars, portalVars>>)
LiveTimer     == \E c \in Calls : Idly(PollLive(c), <<dashboardVars, portalVars>>)
PortalTimer   == \E c \in Calls : Idly(PollPortal(c), <<dashboardVars, userVars>>)

Serves(c) == Idly(Serve(c), <<dashboardVars, userVars, portalVars>>)

FrontendNext ==
    \/ DashboardStep \/ UserStep \/ PortalStep
    \/ MessagesTimer \/ LiveTimer \/ PortalTimer
    \/ \E c \in Calls : Serves(c) \/ Arrives(c)
    \/ Idly(Change, <<dashboardVars, userVars, portalVars>>)

\* The backend serves what it gets, answers arrive, and the browser's timers fire: they do
\* not wait for a request, so the bound on those in flight must not silence them.
FrontendSpec == FrontendInit /\ [][FrontendNext]_frontendVars
FairFrontendSpec ==
    /\ FrontendSpec
    /\ \A c \in Calls : WF_frontendVars(Serves(c)) /\ WF_frontendVars(Arrives(c))
    /\ SF_frontendVars(MessagesTimer) /\ SF_frontendVars(LiveTimer)
    /\ SF_frontendVars(PortalTimer)
=============================================================================
