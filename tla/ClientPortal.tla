---------------------------- MODULE ClientPortal ----------------------------
(***************************************************************************)
(* The page behind a portal link, polled every five seconds, with a button *)
(* for a new QR code and one for a test message.  The backend's answers    *)
(* carry no token but the link's.                                          *)
(***************************************************************************)
EXTENDS Requests

VARIABLES
    portal,             \* what the page shows of the session
    portalState         \* "loading", "shown", "failed", or the page no longer renders

portalVars == <<portal, portalState>>

PortalInit == portal = 0 /\ portalState = "loading"
LeavePortal ==
    /\ page = "portal" /\ Close
    /\ portal' = 0 /\ portalState' = "loading"
    /\ UNCHANGED net

OpenPortal ==
    /\ page = "login" /\ page' = "portal"
    /\ UNCHANGED <<net, call, busy, portalVars>>

\* Mutant: an error ends the polling.
PollPortalUntilError(c) ==
    /\ page = "portal" /\ portalState \notin {"broken", "failed"} /\ IsFree(c)
    /\ Send(c, "portal", 0)
    /\ UNCHANGED <<net, page, busy, portalVars>>
PollPortal(c) ==
    /\ page = "portal" /\ portalState # "broken" /\ IsFree(c)
    /\ Send(c, "portal", 0)
    /\ UNCHANGED <<net, page, busy, portalVars>>

\* An error is shown beside what the page has.
PortalPolled(c) ==
    /\ Answer(c, "portal") /\ Free(c)
    /\ IF Ok(c) THEN portal' = call[c].seen /\ portalState' = "shown"
       ELSE /\ portalState' = IF portalState = "loading" THEN "failed" ELSE portalState
            /\ UNCHANGED portal
    /\ UNCHANGED <<net, page, busy>>

RefreshQr(c) ==
    /\ page = "portal" /\ portalState = "shown" /\ "refreshing" \notin busy /\ IsFree(c)
    /\ Send(c, "portalQr", 0) /\ Wait("refreshing")
    /\ UNCHANGED <<net, page, portalVars>>

PortalQrAsked(c) ==
    /\ Answer(c, "portalQr")
    /\ IF Ok(c) THEN Send(c, "portalAfter", call[c].seen) /\ UNCHANGED busy
                ELSE Free(c) /\ Done("refreshing")
    /\ UNCHANGED <<net, page, portalVars>>

\* What this answer holds is shown unseen: one that reports an error in JSON is no portal,
\* and the page stops rendering; its timer stops with it.
PortalRefreshed(c) ==
    /\ Answer(c, "portalAfter")
    /\ \/ /\ Ok(c) /\ portal' = call[c].seen
          /\ Free(c) /\ Done("refreshing") /\ UNCHANGED portalState
       \/ /\ ~Ok(c) /\ Free(c) /\ Done("refreshing") /\ UNCHANGED portalVars
       \/ /\ ~Ok(c) /\ portalState' = "broken" /\ portal' = 0
          /\ call' = [k \in Calls |-> Idle] /\ busy' = {}
    /\ UNCHANGED <<net, page>>

SendTest(c) ==
    /\ page = "portal" /\ portalState = "shown" /\ "sending" \notin busy /\ IsFree(c)
    /\ Send(c, "portalSend", 0) /\ Wait("sending")
    /\ UNCHANGED <<net, page, portalVars>>

TestSent(c) ==
    /\ Answer(c, "portalSend") /\ Free(c) /\ Done("sending")
    /\ UNCHANGED <<net, page, portalVars>>

PortalClick(c)  == RefreshQr(c) \/ SendTest(c)
PortalAnswer(c) == PortalPolled(c) \/ PortalQrAsked(c) \/ PortalRefreshed(c) \/ TestSent(c)
=============================================================================
