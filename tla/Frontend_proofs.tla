--------------------------- MODULE Frontend_proofs ---------------------------
(***************************************************************************)
(* What a page loads after an action of its own shows that action, and a   *)
(* disabled button waits for a request, for any number of requests in      *)
(* flight, changes and losses.                                             *)
(***************************************************************************)
EXTENDS FrontendProperties, TLAPS

USE RequestsAssumption

\* A call in flight, as the backend's data are `version'.
CallOK(k, version) ==
    /\ k \in [what : Purposes, stage : {"free", "sent", "ok", "error"},
              seen : 0..MaxRev, after : 0..MaxRev]
    /\ k.seen <= version /\ k.after <= version
    /\ k.stage = "ok" => k.after <= k.seen

CallsInv ==
    /\ rev \in 0..MaxRev
    /\ DOMAIN call = Calls /\ call = [c \in Calls |-> call[c]]
    /\ \A c \in Calls : CallOK(call[c], rev)

-----------------------------------------------------------------------------
(* What one step does to the calls.                                        *)

LEMMA IdleOK == \A v \in 0..MaxRev : CallOK(Idle, v)
BY DEF CallOK, Idle, Purposes

LEMMA LaterOK ==
  ASSUME NEW k, NEW v \in 0..MaxRev, NEW w \in 0..MaxRev, CallOK(k, v), v <= w
  PROVE  CallOK(k, w)
BY DEF CallOK

LEMMA SentOK ==
  ASSUME NEW v \in 0..MaxRev, NEW what \in Purposes, NEW after \in 0..v
  PROVE  CallOK([what |-> what, stage |-> "sent", seen |-> 0, after |-> after], v)
BY DEF CallOK

\* Answers only grow older than what they were sent after.
LEMMA ServedOK ==
  ASSUME NEW k, NEW v \in 0..MaxRev, NEW w \in 0..MaxRev, CallOK(k, v), v <= w
  PROVE  /\ CallOK([[k EXCEPT !.stage = "ok"] EXCEPT !.seen = w], w)
         /\ CallOK([k EXCEPT !.stage = "error"], w)
<1> DEFINE a == [k EXCEPT !.stage = "ok"]
           b == [a EXCEPT !.seen = w]
<1>1. /\ a \in [what : Purposes, stage : {"free", "sent", "ok", "error"},
                seen : 0..MaxRev, after : 0..MaxRev]
      /\ a.after = k.after
  BY DEF CallOK
<1>2. /\ b \in [what : Purposes, stage : {"free", "sent", "ok", "error"},
                seen : 0..MaxRev, after : 0..MaxRev]
      /\ b.after = k.after /\ b.seen = w
  <2> HIDE DEF a
  <2> QED BY <1>1
<1>3. CallOK(b, w)
  <2> HIDE DEF b
  <2> QED BY <1>2 DEF CallOK
<1>4. CallOK([k EXCEPT !.stage = "error"], w)
  BY DEF CallOK
<1> QED BY <1>3, <1>4

\* Only call c changes, to k.
LEMMA OneCall ==
  ASSUME CallsInv, NEW c \in Calls, NEW k, rev' \in 0..MaxRev, rev <= rev',
         CallOK(k, rev'), call' = [call EXCEPT ![c] = k]
  PROVE  CallsInv'
<1>1. \A d \in Calls : call'[d] = IF d = c THEN k ELSE call[d]
  BY DEF CallsInv
<1>2. \A d \in Calls : CallOK(call'[d], rev')
  BY <1>1, LaterOK DEF CallsInv
<1> QED BY <1>2 DEF CallsInv

LEMMA SendInv ==
  ASSUME CallsInv, NEW c \in Calls, NEW what \in Purposes, NEW after \in 0..rev,
         Send(c, what, after), rev' = rev
  PROVE  CallsInv'
<1>1. CallOK([what |-> what, stage |-> "sent", seen |-> 0, after |-> after], rev')
  BY SentOK DEF CallsInv
<1>2. rev' \in 0..MaxRev /\ rev <= rev'
  BY DEF CallsInv
<1> QED BY <1>1, <1>2, OneCall DEF Send

LEMMA FreeInv ==
  ASSUME CallsInv, NEW c \in Calls, Free(c), rev' = rev
  PROVE  CallsInv'
<1>1. rev' \in 0..MaxRev /\ rev <= rev'
  BY DEF CallsInv
<1> QED BY <1>1, IdleOK, OneCall DEF Free

LEMMA AllIdleInv ==
  ASSUME CallsInv, call' = [c \in Calls |-> Idle], rev' = rev
  PROVE  CallsInv'
<1>1. \A d \in Calls : call'[d] = Idle
  OBVIOUS
<1> QED BY <1>1, IdleOK DEF CallsInv

LEMMA SeenInRange ==
  ASSUME CallsInv, NEW c \in Calls
  PROVE  0 \in 0..rev /\ call[c].seen \in 0..rev /\ call[c].after \in 0..rev
BY DEF CallsInv, CallOK

LEMMA ServeInv ==
  ASSUME CallsInv, NEW c \in Calls, Serve(c)
  PROVE  CallsInv' /\ rev <= rev'
<1>1. CASE rev' \in ({rev, rev + 1} \cap 0..MaxRev) \cup {rev}
           /\ call' = [call EXCEPT ![c].stage = "ok", ![c].seen = rev']
  <2>1. rev' \in 0..MaxRev /\ rev <= rev'
    BY <1>1 DEF CallsInv
  <2>2. CallOK([[call[c] EXCEPT !.stage = "ok"] EXCEPT !.seen = rev'], rev')
    BY <2>1, ServedOK DEF CallsInv
  <2>3. call' = [call EXCEPT ![c] = [[call[c] EXCEPT !.stage = "ok"] EXCEPT !.seen = rev']]
    BY <1>1 DEF CallsInv
  <2> QED BY <2>1, <2>2, <2>3, OneCall
<1>2. CASE rev' = rev /\ call' = [call EXCEPT ![c].stage = "error"]
  <2>1. rev' \in 0..MaxRev /\ rev <= rev'
    BY <1>2 DEF CallsInv
  <2>2. CallOK([call[c] EXCEPT !.stage = "error"], rev')
    BY <2>1, ServedOK DEF CallsInv
  <2>3. call' = [call EXCEPT ![c] = [call[c] EXCEPT !.stage = "error"]]
    BY <1>2 DEF CallsInv
  <2> QED BY <2>1, <2>2, <2>3, OneCall
<1> QED BY <1>1, <1>2 DEF Serve

-----------------------------------------------------------------------------
(* Arrivals.                                                               *)

\* What ActionShown asks of a step.
KeepsAction ==
    \A c \in Calls, what \in Purposes :
        /\ call[c].what = what /\ Ok(c) /\ call'[c] # call[c]
        /\ page' = page /\ portalState' # "broken"
        => Shown(what)' >= call[c].after

StepOK == CallsInv' /\ KeepsAction

\* The purposes whose answers are asked for after an action.
Refreshes == {"users", "restored", "backups", "backupList", "keyRefresh", "qrLive", "portalAfter"}

OnlyCall(d) == \A c \in Calls : c # d => call'[c] = call[c]

LEMMA ChangesOne ==
  ASSUME CallsInv, NEW d \in Calls, Free(d) \/ \E what, after : Send(d, what, after)
  PROVE  OnlyCall(d)
BY DEF CallsInv, OnlyCall, Free, Send

\* An answer that refreshes nothing.
LEMMA OtherAnswer ==
  ASSUME CallsInv, CallsInv', rev <= rev', NEW d \in Calls, OnlyCall(d),
         ~Ok(d) \/ call[d].what \notin Refreshes
  PROVE  KeepsAction
<1> SUFFICES ASSUME NEW what \in Purposes, call[d].what = what, Ok(d)
             PROVE  Shown(what)' >= call[d].after
  BY DEF KeepsAction, OnlyCall
<1>1. Shown(what)' = rev'
  BY DEF Shown, Refreshes
<1>2. call[d].after \in Nat /\ call[d].after <= rev /\ rev \in Nat /\ rev' \in Nat
  BY DEF CallsInv, CallOK
<1> QED BY <1>1, <1>2

\* An answer that refreshes what the page shows.
LEMMA Refresh ==
  ASSUME CallsInv, NEW d \in Calls, OnlyCall(d), NEW purpose, call[d].what = purpose, Ok(d) => Shown(purpose)' = call[d].seen
  PROVE  KeepsAction
<1> SUFFICES ASSUME NEW what \in Purposes, call[d].what = what, Ok(d)
             PROVE  Shown(what)' >= call[d].after
  BY DEF KeepsAction, OnlyCall
<1>1. Shown(what)' = call[d].seen
  OBVIOUS
<1>2. call[d].after \in Nat /\ call[d].seen \in Nat /\ call[d].after <= call[d].seen
  BY DEF CallsInv, CallOK, Ok
<1> QED BY <1>1, <1>2

-----------------------------------------------------------------------------
(* The kinds of steps.                                                     *)

LEMMA StartSends ==
  ASSUME CallsInv, NEW d \in Calls, IsFree(d), NEW what \in Purposes, Send(d, what, 0), rev' = rev
  PROVE  StepOK
<1>1. CallsInv'
  BY SeenInRange, SendInv
<1>2. ~Ok(d)
  BY DEF IsFree, Ok, Idle
<1>3. OnlyCall(d) /\ rev <= rev'
  BY ChangesOne DEF CallsInv
<1> QED BY <1>1, <1>2, <1>3, OtherAnswer DEF StepOK

\* An answer that is freed, or followed by a request after what was seen or before.
LEMMA FollowUp ==
  ASSUME CallsInv, NEW d \in Calls, rev' = rev,
         \/ Free(d)
         \/ \E what \in Purposes, after \in {0, call[d].seen, call[d].after} : Send(d, what, after)
  PROVE  CallsInv' /\ OnlyCall(d) /\ rev <= rev'
<1>1. CallsInv'
  BY SeenInRange, SendInv, FreeInv
<1>2. OnlyCall(d)
  BY ChangesOne
<1> QED BY <1>1, <1>2 DEF CallsInv

LEMMA CloseStep ==
  ASSUME CallsInv, Close, rev' = rev, page # "login"
  PROVE  StepOK
<1>1. page' # page /\ CallsInv'
  BY AllIdleInv DEF Close
<1> QED BY <1>1 DEF StepOK, KeepsAction

LEMMA SameCalls ==
  ASSUME CallsInv, call' = call, rev' \in 0..MaxRev, rev <= rev'
  PROVE  StepOK
<1>1. CallsInv'
  BY LaterOK DEF CallsInv
<1> QED BY <1>1 DEF StepOK, KeepsAction

LEMMA PurposeNames ==
  /\ Writes \subseteq Purposes
  /\ {"me", "load", "users", "lookup", "backups", "backupList", "restored", "userMe", "bundle",
      "messages", "live", "keyRefresh", "qrLive", "portal", "portalAfter"} \subseteq Purposes
BY DEF Purposes

-----------------------------------------------------------------------------
(* The dashboard.                                                          *)

LEMMA DashboardClickStep ==
  ASSUME CallsInv, NEW d \in Calls, DashboardClick(d)
  PROVE  StepOK
<1>1. \E what \in Purposes : IsFree(d) /\ Send(d, what, 0) /\ rev' = rev
  BY PurposeNames
  DEF DashboardClick, OpenDashboard, Lookup, ChangePassword, BackupAct, LoadBackups, Logout,
      Realtime, Act, net, Writes
<1> QED BY <1>1, StartSends

LEMMA LeaveDashboardStep ==
  ASSUME CallsInv, LeaveDashboard
  PROVE  StepOK
BY CloseStep DEF LeaveDashboard, net

LEMMA DashboardAnswerStep ==
  ASSUME CallsInv, NEW d \in Calls, DashboardAnswer(d)
  PROVE  StepOK
<1>1. CASE Me(d)
  <2>1. CASE Send(d, "load", 0) /\ rev' = rev
    BY <1>1, <2>1, FollowUp, PurposeNames, OtherAnswer DEF Me, Answer, Refreshes, StepOK
  <2> QED BY <1>1, <2>1, LeaveDashboardStep DEF Me, net
<1>2. CASE Acted(d) \/ BackupActed(d) \/ ButtonDone(d)
  <2>1. /\ rev' = rev /\ call[d].what \notin Refreshes
        /\ Free(d) \/ Send(d, "users", call[d].seen) \/ Send(d, "backupList", call[d].seen)
    BY <1>2 DEF Acted, BackupActed, ButtonDone, Answer, Refreshes, net
  <2> QED BY <2>1, FollowUp, PurposeNames, OtherAnswer DEF StepOK
<1>3. CASE UsersLoaded(d)
  <2>1. Free(d) /\ rev' = rev /\ (Ok(d) => users' = call[d].seen)
    BY <1>3 DEF UsersLoaded, net
  <2>2. CallsInv' /\ OnlyCall(d) /\ rev <= rev'
    BY <2>1, FollowUp
  <2>3. CASE call[d].what = "load"
    BY <2>2, <2>3, OtherAnswer DEF Refreshes, StepOK
  <2>4. CASE call[d].what = "users"
    <3>1. Ok(d) => Shown("users")' = call[d].seen
      BY <2>1 DEF Shown
    <3> QED BY <2>2, <2>4, <3>1, Refresh DEF StepOK
  <2> QED BY <1>3, <2>3, <2>4 DEF UsersLoaded, Answer
<1>4. CASE BackupsLoaded(d)
  <2>1. /\ rev' = rev /\ (Ok(d) => backups' = call[d].seen)
        /\ Free(d) \/ Send(d, "restored", call[d].after)
    BY <1>4 DEF BackupsLoaded, net
  <2>2. CallsInv' /\ OnlyCall(d)
    BY <2>1, FollowUp, PurposeNames
  <2>3. call[d].what \in {"backups", "backupList"}
    BY <1>4 DEF BackupsLoaded, Answer
  <2>4. \A what \in {"backups", "backupList"} : Ok(d) => Shown(what)' = call[d].seen
    BY <2>1 DEF Shown
  <2> QED BY <2>2, <2>3, <2>4, Refresh DEF StepOK
<1>5. CASE Restored(d)
  <2>1. Free(d) /\ rev' = rev /\ call[d].what = "restored" /\ (Ok(d) => users' = call[d].seen)
    BY <1>5 DEF Restored, Answer, net
  <2>2. CallsInv' /\ OnlyCall(d)
    BY <2>1, FollowUp
  <2>3. Ok(d) => Shown("restored")' = call[d].seen
    BY <2>1 DEF Shown
  <2> QED BY <2>1, <2>2, <2>3, Refresh DEF StepOK
<1>6. CASE LoggedOut(d)
  BY <1>6, LeaveDashboardStep DEF LoggedOut
<1> QED BY <1>1, <1>2, <1>3, <1>4, <1>5, <1>6 DEF DashboardAnswer

-----------------------------------------------------------------------------
(* The page of a user.                                                     *)

LEMMA UserClickStep ==
  ASSUME CallsInv, NEW d \in Calls, UserClick(d) \/ PollMessages(d) \/ PollLive(d)
  PROVE  StepOK
<1>1. \E what \in Purposes : IsFree(d) /\ Send(d, what, 0) /\ rev' = rev
  BY PurposeNames
  DEF UserClick, OpenUser, KeyAct, RequestQr, SavePassword, PollMessages, PollLive, net, Writes
<1> QED BY <1>1, StartSends

LEMMA LeaveUserStep ==
  ASSUME CallsInv, LeaveUser
  PROVE  StepOK
BY CloseStep DEF LeaveUser, net

LEMMA UserAnswerStep ==
  ASSUME CallsInv, NEW d \in Calls, UserAnswer(d)
  PROVE  StepOK
<1>1. CASE UserMe(d)
  <2>1. CASE Send(d, "bundle", 0) /\ rev' = rev
    BY <1>1, <2>1, FollowUp, PurposeNames, OtherAnswer DEF UserMe, Answer, Refreshes, StepOK
  <2> QED BY <1>1, <2>1, LeaveUserStep DEF UserMe, net
<1>2. CASE BundleLoaded(d) \/ Polled(d) \/ KeyActed(d) \/ QrRequested(d) \/ PasswordSaved(d)
  <2>1. /\ rev' = rev /\ call[d].what \notin Refreshes
        /\ Free(d) \/ Send(d, "keyRefresh", call[d].seen) \/ Send(d, "qrLive", call[d].seen)
    BY <1>2
    DEF BundleLoaded, Polled, KeyActed, QrRequested, PasswordSaved, Answer, Refreshes, net
  <2> QED BY <2>1, FollowUp, PurposeNames, OtherAnswer DEF StepOK
<1>3. CASE KeysRefreshed(d)
  <2>1. Free(d) /\ rev' = rev /\ call[d].what = "keyRefresh" /\ (Ok(d) => messages' = call[d].seen)
    BY <1>3 DEF KeysRefreshed, Answer, net
  <2>2. CallsInv' /\ OnlyCall(d)
    BY <2>1, FollowUp
  <2>3. Ok(d) => Shown("keyRefresh")' = call[d].seen
    BY <2>1 DEF Shown
  <2> QED BY <2>1, <2>2, <2>3, Refresh DEF StepOK
<1>4. CASE QrLive(d)
  <2>1. Free(d) /\ rev' = rev /\ call[d].what = "qrLive" /\ (Ok(d) => live' = call[d].seen)
    BY <1>4 DEF QrLive, Answer, net
  <2>2. CallsInv' /\ OnlyCall(d)
    BY <2>1, FollowUp
  <2>3. Ok(d) => Shown("qrLive")' = call[d].seen
    BY <2>1 DEF Shown
  <2> QED BY <2>1, <2>2, <2>3, Refresh DEF StepOK
<1> QED BY <1>1, <1>2, <1>3, <1>4 DEF UserAnswer

-----------------------------------------------------------------------------
(* The portal.                                                             *)

LEMMA PortalClickStep ==
  ASSUME CallsInv, NEW d \in Calls, PortalClick(d) \/ PollPortal(d)
  PROVE  StepOK
<1>1. \E what \in Purposes : IsFree(d) /\ Send(d, what, 0) /\ rev' = rev
  BY PurposeNames DEF PortalClick, RefreshQr, SendTest, PollPortal, net, Writes
<1> QED BY <1>1, StartSends

LEMMA LeavePortalStep ==
  ASSUME CallsInv, LeavePortal
  PROVE  StepOK
BY CloseStep DEF LeavePortal, net

LEMMA PortalAnswerStep ==
  ASSUME CallsInv, NEW d \in Calls, PortalAnswer(d)
  PROVE  StepOK
<1>1. CASE PortalPolled(d) \/ PortalQrAsked(d) \/ TestSent(d)
  <2>1. /\ rev' = rev /\ call[d].what \notin Refreshes
        /\ Free(d) \/ Send(d, "portalAfter", call[d].seen)
    BY <1>1 DEF PortalPolled, PortalQrAsked, TestSent, Answer, Refreshes, net
  <2> QED BY <2>1, FollowUp, PurposeNames, OtherAnswer DEF StepOK
<1>2. CASE PortalRefreshed(d)
  <2>1. rev' = rev /\ call[d].what = "portalAfter"
    BY <1>2 DEF PortalRefreshed, Answer, net
  <2>2. CASE Free(d) /\ (Ok(d) => portal' = call[d].seen)
    <3>1. CallsInv' /\ OnlyCall(d)
      BY <2>1, <2>2, FollowUp
    <3>2. Ok(d) => Shown("portalAfter")' = call[d].seen
      BY <2>2 DEF Shown
    <3> QED BY <2>1, <3>1, <3>2, Refresh DEF StepOK
  <2>3. CASE portalState' = "broken" /\ call' = [k \in Calls |-> Idle]
    BY <2>1, <2>3, AllIdleInv DEF StepOK, KeepsAction
  <2> QED BY <1>2, <2>2, <2>3 DEF PortalRefreshed
<1> QED BY <1>1, <1>2 DEF PortalAnswer

-----------------------------------------------------------------------------
(* The theorem.                                                            *)

LEMMA FrontendStep ==
  ASSUME CallsInv, FrontendNext
  PROVE  StepOK
<1>1. CASE DashboardStep
  <2>1. CASE Redirect
    BY <2>1, SameCalls DEF Redirect, net, CallsInv
  <2> QED BY <1>1, <2>1, LeaveDashboardStep, DashboardClickStep DEF DashboardStep, Idly
<1>2. CASE UserStep
  BY <1>2, LeaveUserStep, UserClickStep DEF UserStep, Idly
<1>3. CASE PortalStep
  <2>1. CASE OpenPortal
    BY <2>1, SameCalls DEF OpenPortal, net, CallsInv
  <2> QED BY <1>3, <2>1, LeavePortalStep, PortalClickStep DEF PortalStep, Idly
<1>4. CASE MessagesTimer \/ LiveTimer
  BY <1>4, UserClickStep DEF MessagesTimer, LiveTimer, Idly
<1>5. CASE PortalTimer
  BY <1>5, PortalClickStep DEF PortalTimer, Idly
<1>6. ASSUME NEW c \in Calls, Serves(c)
      PROVE  StepOK
  <2>1. Serve(c)
    BY <1>6 DEF Serves, Idly
  <2>2. CallsInv' /\ rev <= rev'
    BY <2>1, ServeInv
  <2>3. OnlyCall(c) /\ ~Ok(c)
    BY <2>1 DEF Serve, OnlyCall, Ok, CallsInv
  <2> QED BY <2>2, <2>3, OtherAnswer DEF StepOK
<1>7. ASSUME NEW c \in Calls, Arrives(c)
      PROVE  StepOK
  BY <1>7, DashboardAnswerStep, UserAnswerStep, PortalAnswerStep DEF Arrives, Idly
<1>8. CASE Change
  <2>1. rev' \in 0..MaxRev /\ rev <= rev' /\ call' = call
    BY <1>8 DEF Change, CallsInv
  <2> QED BY <2>1, SameCalls
<1> QED BY <1>1, <1>2, <1>3, <1>4, <1>5, <1>6, <1>7, <1>8 DEF FrontendNext, Idly

\* What a page loads after an action of its own shows it, for any number of requests in
\* flight, in whatever order they are served and answered.
THEOREM ActionsAreShown == FrontendSpec => ActionShown
<1>1. FrontendInit => CallsInv
  BY IdleOK DEF FrontendInit, RequestsInit, CallsInv
<1>2. CallsInv /\ [FrontendNext]_frontendVars => CallsInv'
  <2>1. CASE UNCHANGED frontendVars
    BY <2>1 DEF frontendVars, net, CallsInv
  <2> QED BY <2>1, FrontendStep DEF StepOK
<1>3. CallsInv /\ [FrontendNext]_frontendVars =>
        [\A c \in Calls, what \in Purposes :
            /\ call[c].what = what /\ Ok(c) /\ call'[c] # call[c]
            /\ page' = page /\ portalState' # "broken"
            => Shown(what)' >= call[c].after]_frontendVars
  BY FrontendStep DEF StepOK, KeepsAction
<1> QED BY <1>1, <1>2, <1>3, PTL DEF FrontendSpec, ActionShown

-----------------------------------------------------------------------------
(* Types and buttons.                                                      *)

\* The variables besides the calls.
PageTypes ==
    /\ denied \in BOOLEAN /\ losses \in Nat
    /\ page \in {"login", "dashboard", "user", "portal"} /\ busy \subseteq Buttons
DashboardTypes ==
    /\ person \in {"none", "SUPERADMIN", "ADMIN"} /\ role \in {"none", person}
    /\ view \in {"overview", "backups"} /\ users \in 0..MaxRev /\ backups \in 0..MaxRev
UserTypes ==
    known \in BOOLEAN /\ bundle \in BOOLEAN /\ messages \in 0..MaxRev /\ live \in 0..MaxRev
PortalTypes ==
    portal \in 0..MaxRev /\ portalState \in {"loading", "shown", "failed", "broken"}

\* Nothing is in flight or waited for between two pages, and only the dashboard has a role.
BetweenPages ==
    /\ page = "login" => busy = {} /\ \A c \in Calls : call[c].what = "none"
    /\ role # "none" => page = "dashboard"
    /\ \A c \in Calls : call[c].what = "me" => page = "dashboard"

FrontendInv ==
    /\ CallsInv
    /\ PageTypes /\ DashboardTypes /\ UserTypes /\ PortalTypes
    /\ BetweenPages /\ ButtonsAwaited


\* The purposes some button waits for; no purpose is waited for by two.
Awaited == UNION {Awaits(b) : b \in Buttons}

LEMMA AwaitsNames ==
  /\ Awaits("lookup") = {"lookup"} /\ Awaits("password") = {"password"}
  /\ Awaits("backup") = {"backupAct", "backupList", "restored"}
  /\ Awaits("qr") = {"qr", "qrLive"} /\ Awaits("saving") = {"userPassword"}
  /\ Awaits("refreshing") = {"portalQr", "portalAfter"} /\ Awaits("sending") = {"portalSend"}
BY DEF Awaits

LEMMA AwaitedNames ==
  Awaited = {"lookup", "password", "backupAct", "backupList", "restored", "qr", "qrLive",
             "userPassword", "portalQr", "portalAfter", "portalSend"}
BY AwaitsNames DEF Awaited, Buttons

LEMMA AwaitsApart ==
  ASSUME NEW b \in Buttons, NEW d \in Buttons, NEW what, what \in Awaits(b), what \in Awaits(d)
  PROVE  b = d
BY AwaitsNames DEF Buttons

\* Call c goes on with purpose `what', the others as before.
GoesOn(c, what) == \A d \in Calls : call'[d].what = IF d = c THEN what ELSE call[d].what

LEMMA SendGoesOn ==
  ASSUME CallsInv, NEW c \in Calls, NEW what, NEW after, Send(c, what, after)
  PROVE  GoesOn(c, what)
BY DEF CallsInv, Send, GoesOn

LEMMA FreeGoesOn ==
  ASSUME CallsInv, NEW c \in Calls, Free(c)
  PROVE  GoesOn(c, "none")
BY DEF CallsInv, Free, Idle, GoesOn

\* Call c becomes another one that the same buttons wait for.
LEMMA SameButton ==
  ASSUME ButtonsAwaited, busy \subseteq Buttons, NEW c \in Calls, NEW what,
         GoesOn(c, what), busy' = busy,
         \A b \in Buttons : what \in Awaits(b) <=> call[c].what \in Awaits(b)
  PROVE  ButtonsAwaited'
<1>1. \A d \in Calls, b \in Buttons : call'[d].what \in Awaits(b) <=> call[d].what \in Awaits(b)
  BY DEF GoesOn
<1> QED BY <1>1 DEF ButtonsAwaited

\* Call c becomes one that a button waits for from now on.
LEMMA ButtonPressed ==
  ASSUME ButtonsAwaited, NEW c \in Calls, NEW what, NEW b \in Buttons, busy \subseteq Buttons,
         GoesOn(c, what), Wait(b), b \notin busy \/ b = "lookup",
         IsFree(c), what \in Awaits(b)
  PROVE  ButtonsAwaited'
<1>1. \A d \in Calls : d # c => call'[d].what = call[d].what
  BY DEF GoesOn
<1>2. call'[c].what = what /\ \A a \in Buttons : call[c].what \notin Awaits(a)
  BY AwaitsNames DEF GoesOn, IsFree, Idle, Buttons
<1>3. \A a \in Buttons : what \in Awaits(a) => a = b
  BY AwaitsApart
<1>4. \A a \in busy' : \E d \in Calls : call'[d].what \in Awaits(a)
  BY <1>1, <1>2 DEF ButtonsAwaited, Wait
<1>5. ASSUME NEW a \in Buttons \ {"lookup"}, NEW d \in Calls, NEW e \in Calls,
             call'[d].what \in Awaits(a), call'[e].what \in Awaits(a)
      PROVE  d = e /\ a \in busy'
  <2>1. CASE a = b
    <3>1. \A f \in Calls : call[f].what \notin Awaits(a)
      BY <2>1, <1>5 DEF ButtonsAwaited
    <3> QED BY <2>1, <1>1, <1>5, <3>1 DEF Wait
  <2>2. CASE a # b
    <3>1. d # c /\ e # c
      BY <2>2, <1>2, <1>3, <1>5
    <3> QED BY <3>1, <1>1, <1>5 DEF ButtonsAwaited, Wait
  <2> QED BY <2>1, <2>2
<1> QED BY <1>4, <1>5 DEF ButtonsAwaited

\* Call c ends, and a button that waits for it is enabled.
LEMMA ButtonEnabled ==
  ASSUME ButtonsAwaited, busy \subseteq Buttons, NEW c \in Calls, NEW b \in Buttons,
         GoesOn(c, "none"), Done(b), call[c].what \in Awaits(b)
  PROVE  ButtonsAwaited'
<1>1. \A d \in Calls : d # c => call'[d].what = call[d].what
  BY DEF GoesOn
<1>2. \A a \in Buttons : call'[c].what \notin Awaits(a)
  BY AwaitsNames DEF GoesOn, Buttons
<1>3. \A a \in Buttons : call[c].what \in Awaits(a) => a = b
  BY AwaitsApart
<1>4. ASSUME NEW a \in busy'
      PROVE  \E d \in Calls : call'[d].what \in Awaits(a)
  <2>1. a \in busy /\ a # b
    BY <1>4 DEF Done
  <2>2. PICK d \in Calls : call[d].what \in Awaits(a)
    BY <2>1 DEF ButtonsAwaited
  <2> QED BY <2>1, <2>2, <1>1, <1>3
<1>5. ASSUME NEW a \in Buttons \ {"lookup"}, NEW d \in Calls, NEW e \in Calls,
             call'[d].what \in Awaits(a), call'[e].what \in Awaits(a)
      PROVE  d = e /\ a \in busy'
  <2>1. d # c /\ e # c
    BY <1>2, <1>5
  <2>2. d = e /\ a \in busy /\ call[d].what \in Awaits(a)
    BY <2>1, <1>1, <1>5 DEF ButtonsAwaited
  <2>3. a # b
    BY <2>1, <2>2 DEF ButtonsAwaited
  <2> QED BY <2>2, <2>3 DEF Done
<1> QED BY <1>4, <1>5 DEF ButtonsAwaited

LEMMA AllEnabled ==
  ASSUME call' = [c \in Calls |-> Idle], busy' = {}
  PROVE  ButtonsAwaited' /\ \A c \in Calls : call'[c].what = "none"
<1>1. \A c \in Calls : call'[c].what = "none"
  BY DEF Idle
<1>2. \A b \in Buttons : "none" \notin Awaits(b)
  BY AwaitsNames DEF Buttons
<1> QED BY <1>1, <1>2 DEF ButtonsAwaited


\* A page that stays goes on with a request of its own.
LEMMA StaysOnPage ==
  ASSUME BetweenPages, NEW c \in Calls, NEW what, GoesOn(c, what),
         what # "me", page # "login", page' = page, role' = role
  PROVE  BetweenPages'
<1>1. \A d \in Calls : call'[d].what = "me" => call[d].what = "me"
  BY DEF GoesOn
<1> QED BY <1>1 DEF BetweenPages

LEMMA SeenIsRevision ==
  ASSUME CallsInv, NEW c \in Calls
  PROVE  call[c].seen \in 0..MaxRev
BY DEF CallsInv, CallOK

\* What a step is to keep besides the calls.
PagesKept ==
    /\ PageTypes' /\ DashboardTypes' /\ UserTypes' /\ PortalTypes'
    /\ BetweenPages' /\ ButtonsAwaited'

\* No button waits for either of two purposes.
LEMMA NotAwaited ==
  ASSUME NEW what, NEW k, what \notin Awaited, k \notin Awaited
  PROVE  \A b \in Buttons : k \in Awaits(b) <=> what \in Awaits(b)
BY DEF Awaited

\* A click that no button waits for.
LEMMA ClickKeeps ==
  ASSUME FrontendInv, NEW c \in Calls, NEW what, IsFree(c), Send(c, what, 0),
         what \notin Awaited, what # "me", page # "login",
         UNCHANGED <<net, page, busy, dashboardVars, userVars, portalVars>>
  PROVE  PagesKept
<1>1. GoesOn(c, what) /\ call[c].what = "none" /\ "none" \notin Awaited
  BY SendGoesOn, AwaitedNames DEF FrontendInv, IsFree, Idle
<1>2. ButtonsAwaited'
  BY <1>1, SameButton, NotAwaited DEF FrontendInv, PageTypes
<1>3. BetweenPages'
  BY <1>1, StaysOnPage DEF FrontendInv, dashboardVars
<1> QED BY <1>2, <1>3
    DEF PagesKept, FrontendInv, PageTypes, DashboardTypes, UserTypes, PortalTypes, net,
        dashboardVars, userVars, portalVars

LEMMA PressKeeps ==
  ASSUME FrontendInv, NEW c \in Calls, NEW what, NEW b \in Buttons, IsFree(c), Send(c, what, 0),
         Wait(b), b \notin busy \/ b = "lookup", what \in Awaits(b), page # "login",
         UNCHANGED <<net, page, dashboardVars, userVars, portalVars>>
  PROVE  PagesKept
<1>1. what # "me" /\ GoesOn(c, what)
  BY AwaitsNames, SendGoesOn DEF FrontendInv, Buttons
<1>2. ButtonsAwaited'
  BY <1>1, ButtonPressed DEF FrontendInv, PageTypes
<1>3. BetweenPages'
  BY <1>1, StaysOnPage DEF FrontendInv, dashboardVars
<1>4. PageTypes'
  BY DEF FrontendInv, PageTypes, Wait, net
<1> QED BY <1>2, <1>3, <1>4
    DEF PagesKept, FrontendInv, DashboardTypes, UserTypes, PortalTypes,
        dashboardVars, userVars, portalVars

\* A page is left.
LEMMA CloseKeeps ==
  ASSUME FrontendInv, Close, UNCHANGED net,
         role' = "none", DashboardTypes', UserTypes', PortalTypes'
  PROVE  PagesKept
<1>1. PageTypes' /\ page' = "login" /\ busy' = {} /\ role' = "none"
  BY DEF FrontendInv, PageTypes, Close, net
<1>2. ButtonsAwaited' /\ \A c \in Calls : call'[c].what = "none"
  BY AllEnabled DEF Close
<1>3. BetweenPages'
  BY <1>1, <1>2 DEF BetweenPages
<1> QED BY <1>1, <1>2, <1>3 DEF PagesKept

\* An answer is dealt with: what the buttons and the page have of it.
LEMMA AnswerKeeps ==
  ASSUME FrontendInv, NEW c \in Calls, NEW what, GoesOn(c, what),
         call[c].what # "none", what # "me", net' = net, page' = page, role' = role,
         \/ busy' = busy /\ \A b \in Buttons : what \in Awaits(b) <=> call[c].what \in Awaits(b)
         \/ what = "none" /\ \E b \in Buttons : call[c].what \in Awaits(b) /\ Done(b)
  PROVE  PageTypes' /\ BetweenPages' /\ ButtonsAwaited'
<1>1. page # "login"
  BY DEF FrontendInv, BetweenPages
<1>2. BetweenPages'
  BY <1>1, StaysOnPage DEF FrontendInv
<1>3. CASE busy' = busy /\ \A b \in Buttons : what \in Awaits(b) <=> call[c].what \in Awaits(b)
  BY <1>2, <1>3, SameButton DEF FrontendInv, PageTypes, net
<1>4. CASE what = "none" /\ \E b \in Buttons : call[c].what \in Awaits(b) /\ Done(b)
  <2>1. ButtonsAwaited'
    BY <1>4, ButtonEnabled DEF FrontendInv, PageTypes
  <2> QED BY <1>2, <1>4, <2>1 DEF FrontendInv, PageTypes, Done, net
<1> QED BY <1>3, <1>4

-----------------------------------------------------------------------------
(* The pages, again.                                                       *)

LEMMA DashboardClickKeeps ==
  ASSUME FrontendInv, NEW d \in Calls, DashboardClick(d), UNCHANGED <<userVars, portalVars>>
  PROVE  PagesKept
<1>1. CASE OpenDashboard(d)
  <2>1. role' = "none" /\ page' = "dashboard" /\ busy' = {}
    BY <1>1 DEF OpenDashboard, FrontendInv, BetweenPages
  <2>2. \A b \in Buttons : "none" \notin Awaits(b) /\ "me" \notin Awaits(b)
    BY AwaitsNames DEF Buttons
  <2>3. GoesOn(d, "me") /\ call[d].what = "none" /\ UNCHANGED busy
    BY <1>1, SendGoesOn DEF OpenDashboard, FrontendInv, IsFree, Idle
  <2>6. ButtonsAwaited'
    BY <2>2, <2>3, SameButton DEF FrontendInv, PageTypes
  <2>4. BetweenPages'
    BY <2>1 DEF BetweenPages
  <2>5. PageTypes' /\ DashboardTypes'
    BY <1>1, <2>1 DEF OpenDashboard, FrontendInv, PageTypes, DashboardTypes, net
  <2> QED BY <1>1, <2>4, <2>5, <2>6 DEF PagesKept, FrontendInv, UserTypes, PortalTypes,
          userVars, portalVars
<1>2. CASE LoadBackups(d) \/ Realtime(d) \/ Logout(d) \/ \E what \in Writes : Act(d, what)
  <2>1. \E what : /\ what \notin Awaited /\ what # "me" /\ IsFree(d) /\ Send(d, what, 0)
                  /\ page # "login" /\ UNCHANGED <<net, page, busy, dashboardVars>>
    BY <1>2, AwaitedNames DEF LoadBackups, Realtime, Logout, Act, OnBackups, OnDashboard
  <2> QED BY <2>1, ClickKeeps
<1>3. ASSUME NEW what, NEW b \in Buttons, Send(d, what, 0), Wait(b), what \in Awaits(b),
             b \notin busy \/ b = "lookup", IsFree(d), page # "login",
             UNCHANGED <<net, page, dashboardVars>>
      PROVE  PagesKept
  <2>1. UNCHANGED <<net, page, dashboardVars, userVars, portalVars>>
    BY <1>3
  <2> QED BY <1>3, <2>1, PressKeeps
<1>4. CASE Lookup(d)
  BY <1>3, <1>4, AwaitsNames DEF Lookup, OnDashboard, Buttons
<1>5. CASE ChangePassword(d)
  BY <1>3, <1>5, AwaitsNames DEF ChangePassword, OnDashboard, Buttons
<1>6. CASE BackupAct(d)
  BY <1>3, <1>6, AwaitsNames DEF BackupAct, OnBackups, OnDashboard, Buttons
<1> QED BY <1>1, <1>2, <1>4, <1>5, <1>6 DEF DashboardClick

LEMMA LeaveDashboardKeeps ==
  ASSUME FrontendInv, LeaveDashboard, UNCHANGED <<userVars, portalVars>>
  PROVE  PagesKept
<1>1. DashboardTypes' /\ role' = "none"
  BY DEF LeaveDashboard, DashboardTypes
<1>2. UserTypes' /\ PortalTypes'
  BY DEF FrontendInv, UserTypes, PortalTypes, userVars, portalVars
<1> QED BY <1>1, <1>2, CloseKeeps DEF LeaveDashboard

LEMMA DashboardAnswerKeeps ==
  ASSUME FrontendInv, NEW d \in Calls, DashboardAnswer(d), UNCHANGED <<userVars, portalVars>>
  PROVE  PagesKept
<1>1. UserTypes' /\ PortalTypes'
  BY DEF FrontendInv, UserTypes, PortalTypes, userVars, portalVars
<1>2. call[d].seen \in 0..MaxRev
  BY SeenIsRevision DEF FrontendInv
<1>3. CASE Me(d)
  <2>1. CASE Send(d, "load", 0) /\ role' = person /\ UNCHANGED <<net, page, busy, person, view, users, backups>>
    <3>1. page = "dashboard"
      BY <1>3 DEF Me, Answer, FrontendInv, BetweenPages
    <3>2. DashboardTypes'
      BY <2>1 DEF FrontendInv, DashboardTypes
    <3>3. GoesOn(d, "load") /\ call[d].what = "me" /\ "me" \notin Awaited /\ "load" \notin Awaited
      BY <1>3, <2>1, SendGoesOn, AwaitedNames DEF Me, Answer, FrontendInv
    <3>5. ButtonsAwaited'
      BY <2>1, <3>3, NotAwaited, SameButton DEF FrontendInv, PageTypes
    <3>4. BetweenPages'
      BY <2>1, <3>1 DEF BetweenPages
    <3> QED BY <1>1, <2>1, <3>2, <3>4, <3>5 DEF PagesKept, FrontendInv, PageTypes, net
  <2> QED BY <1>3, <2>1, LeaveDashboardKeeps DEF Me
<1>4. CASE Acted(d)
  <2>1. /\ call[d].what \in {"createUser", "deleteUser", "keyStatus", "adminStatus", "deleteAdmin"}
        /\ UNCHANGED <<net, page, busy, dashboardVars>>
        /\ \E what \in {"users", "none"} : GoesOn(d, what)
    BY <1>4, SendGoesOn, FreeGoesOn DEF Acted, Answer, FrontendInv
  <2>2. PageTypes' /\ BetweenPages' /\ ButtonsAwaited'
    BY <2>1, AnswerKeeps, NotAwaited, AwaitedNames DEF dashboardVars
  <2> QED BY <1>1, <2>1, <2>2 DEF PagesKept, FrontendInv, DashboardTypes, dashboardVars
<1>5. CASE UsersLoaded(d)
  <2>1. /\ call[d].what \in {"load", "users"} /\ GoesOn(d, "none")
        /\ users' \in {users, call[d].seen} /\ UNCHANGED <<net, page, busy, person, role, view, backups>>
    BY <1>5, FreeGoesOn DEF UsersLoaded, Answer, FrontendInv
  <2>2. "none" \notin Awaited
    BY AwaitedNames
  <2>3. PageTypes' /\ BetweenPages' /\ ButtonsAwaited'
    BY <2>1, <2>2, AnswerKeeps, NotAwaited, AwaitedNames
  <2>4. DashboardTypes'
    BY <1>2, <2>1 DEF FrontendInv, DashboardTypes
  <2> QED BY <1>1, <2>3, <2>4 DEF PagesKept
<1>6. CASE ButtonDone(d)
  <2>1. /\ \E b \in Buttons : call[d].what \in Awaits(b) /\ Done(b)
        /\ GoesOn(d, "none") /\ call[d].what # "none"
        /\ UNCHANGED <<net, page, dashboardVars>>
    BY <1>6, AwaitsNames, FreeGoesOn DEF ButtonDone, Answer, FrontendInv, Buttons
  <2>2. PageTypes' /\ BetweenPages' /\ ButtonsAwaited'
    BY <2>1, AnswerKeeps DEF dashboardVars
  <2> QED BY <1>1, <2>1, <2>2 DEF PagesKept, FrontendInv, DashboardTypes, dashboardVars
<1>7. CASE BackupActed(d)
  <2>1. call[d].what = "backupAct" /\ UNCHANGED <<net, page, dashboardVars>>
    BY <1>7 DEF BackupActed, Answer
  <2>2. ASSUME Ok(d)
       PROVE  PageTypes' /\ BetweenPages' /\ ButtonsAwaited'
    <3>1. GoesOn(d, "backupList") /\ busy' = busy
      BY <1>7, <2>2, SendGoesOn DEF BackupActed, FrontendInv
    <3>2. \A b \in Buttons : "backupAct" \in Awaits(b) <=> "backupList" \in Awaits(b)
      BY AwaitsNames DEF Buttons
    <3> QED BY <2>1, <3>1, <3>2, AnswerKeeps DEF dashboardVars
  <2>3. ASSUME ~Ok(d)
       PROVE  PageTypes' /\ BetweenPages' /\ ButtonsAwaited'
    <3>1. GoesOn(d, "none") /\ Done("backup")
      BY <1>7, <2>3, FreeGoesOn DEF BackupActed, FrontendInv
    <3> QED BY <2>1, <3>1, AwaitsNames, AnswerKeeps DEF dashboardVars, Buttons
  <2>4. PageTypes' /\ BetweenPages' /\ ButtonsAwaited'
    BY <2>2, <2>3
  <2> QED BY <1>1, <2>1, <2>4 DEF PagesKept, FrontendInv, DashboardTypes, dashboardVars
<1>8. CASE BackupsLoaded(d)
  <2>1. /\ backups' \in {backups, call[d].seen} /\ UNCHANGED <<net, page, person, role, view, users>>
        /\ call[d].what # "none"
    BY <1>8 DEF BackupsLoaded, Answer
  <2>2. "none" \notin Awaited
    BY AwaitedNames
  <2>3. ASSUME call[d].what = "backups" /\ Free(d) /\ UNCHANGED busy
       PROVE  PageTypes' /\ BetweenPages' /\ ButtonsAwaited'
    <3>1. GoesOn(d, "none")
      BY <2>3, FreeGoesOn DEF FrontendInv
    <3> QED BY <2>1, <2>2, <2>3, <3>1, AnswerKeeps, NotAwaited, AwaitedNames
  <2>4. ASSUME call[d].what = "backupList" /\ Free(d) /\ Done("backup")
       PROVE  PageTypes' /\ BetweenPages' /\ ButtonsAwaited'
    <3>1. GoesOn(d, "none")
      BY <2>4, FreeGoesOn DEF FrontendInv
    <3> QED BY <2>1, <2>4, <3>1, AnswerKeeps, AwaitsNames DEF Buttons
  <2>5. ASSUME call[d].what = "backupList" /\ Send(d, "restored", call[d].after) /\ UNCHANGED busy
       PROVE  PageTypes' /\ BetweenPages' /\ ButtonsAwaited'
    <3>1. \A b \in Buttons : "restored" \in Awaits(b) <=> "backupList" \in Awaits(b)
      BY AwaitsNames DEF Buttons
    <3>2. GoesOn(d, "restored")
      BY <2>5, SendGoesOn DEF FrontendInv
    <3> QED BY <2>1, <2>5, <3>1, <3>2, AnswerKeeps
  <2>6. PageTypes' /\ BetweenPages' /\ ButtonsAwaited'
    BY <1>8, <2>3, <2>4, <2>5 DEF BackupsLoaded, Answer
  <2>7. DashboardTypes'
    BY <1>2, <2>1 DEF FrontendInv, DashboardTypes
  <2> QED BY <1>1, <2>6, <2>7 DEF PagesKept
<1>9. CASE Restored(d)
  <2>1. /\ call[d].what = "restored" /\ GoesOn(d, "none") /\ Done("backup")
        /\ users' \in {users, call[d].seen} /\ UNCHANGED <<net, page, person, role, view, backups>>
    BY <1>9, FreeGoesOn DEF Restored, Answer, FrontendInv
  <2>2. PageTypes' /\ BetweenPages' /\ ButtonsAwaited'
    BY <2>1, AnswerKeeps, AwaitsNames DEF Buttons
  <2>3. DashboardTypes'
    BY <1>2, <2>1 DEF FrontendInv, DashboardTypes
  <2> QED BY <1>1, <2>2, <2>3 DEF PagesKept
<1>10. CASE LoggedOut(d)
  BY <1>10, LeaveDashboardKeeps DEF LoggedOut
<1> QED BY <1>3, <1>4, <1>5, <1>6, <1>7, <1>8, <1>9, <1>10 DEF DashboardAnswer

LEMMA UserClickKeeps ==
  ASSUME FrontendInv, NEW d \in Calls, UserClick(d) \/ PollMessages(d) \/ PollLive(d),
         UNCHANGED <<dashboardVars, portalVars>>
  PROVE  PagesKept
<1>1. CASE OpenUser(d)
  <2>1. role' = "none" /\ page' = "user" /\ busy' = {} /\ \A c \in Calls : call[c].what = "none"
    BY <1>1 DEF OpenUser, FrontendInv, BetweenPages, dashboardVars
  <2>2. GoesOn(d, "userMe") /\ "none" \notin Awaited /\ "userMe" \notin Awaited
    BY <1>1, SendGoesOn, AwaitedNames DEF OpenUser, FrontendInv
  <2>3. ButtonsAwaited'
    BY <1>1, <2>1, <2>2, NotAwaited, SameButton DEF OpenUser, FrontendInv, PageTypes
  <2>4. BetweenPages'
    BY <2>1, <2>2 DEF BetweenPages, GoesOn
  <2> QED BY <1>1, <2>1, <2>3, <2>4
      DEF PagesKept, OpenUser, FrontendInv, PageTypes, DashboardTypes, UserTypes, PortalTypes,
          net, dashboardVars, userVars, portalVars
<1>2. CASE KeyAct(d) \/ PollMessages(d) \/ PollLive(d)
  <2>1. \E what : /\ what \notin Awaited /\ what # "me" /\ IsFree(d) /\ Send(d, what, 0)
                  /\ page # "login" /\ UNCHANGED <<net, page, busy, userVars>>
    BY <1>2, AwaitedNames DEF KeyAct, PollMessages, PollLive
  <2> QED BY <2>1, ClickKeeps
<1>3. CASE RequestQr(d) \/ SavePassword(d)
  <2>1. \E what : \E b \in Buttons :
            /\ IsFree(d) /\ Send(d, what, 0) /\ Wait(b) /\ b \notin busy
            /\ what \in Awaits(b) /\ page # "login" /\ UNCHANGED <<net, page, userVars>>
    BY <1>3, AwaitsNames DEF RequestQr, SavePassword, Buttons
  <2> QED BY <2>1, PressKeeps
<1> QED BY <1>1, <1>2, <1>3 DEF UserClick

LEMMA LeaveUserKeeps ==
  ASSUME FrontendInv, LeaveUser, UNCHANGED <<dashboardVars, portalVars>>
  PROVE  PagesKept
<1>1. known' \in BOOLEAN /\ bundle' \in BOOLEAN
  BY Zenon DEF LeaveUser
<1>2. UserTypes'
  BY <1>1 DEF LeaveUser, UserTypes
<1>3. DashboardTypes' /\ PortalTypes' /\ role' = "none"
  BY DEF LeaveUser, FrontendInv, BetweenPages, DashboardTypes, PortalTypes, dashboardVars, portalVars
<1> QED BY <1>2, <1>3, CloseKeeps DEF LeaveUser

LEMMA UserAnswerKeeps ==
  ASSUME FrontendInv, NEW d \in Calls, UserAnswer(d), UNCHANGED <<dashboardVars, portalVars>>
  PROVE  PagesKept
<1>1. DashboardTypes' /\ PortalTypes' /\ role' = role
  BY DEF FrontendInv, DashboardTypes, PortalTypes, dashboardVars, portalVars
<1>2. call[d].seen \in 0..MaxRev
  BY SeenIsRevision DEF FrontendInv
<1>4. CASE UserMe(d) /\ ~Ok(d)
  BY <1>4, LeaveUserKeeps DEF UserMe
<1>5. CASE \/ UserMe(d) /\ Ok(d)
           \/ BundleLoaded(d) \/ Polled(d) \/ KeyActed(d) \/ KeysRefreshed(d)
  <2>1. /\ call[d].what \in {"userMe", "bundle", "messages", "live", "key", "keyRefresh"}
        /\ UNCHANGED <<net, page, busy>>
        /\ \E what \in {"none", "bundle", "keyRefresh"} : GoesOn(d, what)
    BY <1>5, SendGoesOn, FreeGoesOn
    DEF UserMe, BundleLoaded, Polled, KeyActed, KeysRefreshed, Answer, FrontendInv
  <2>2. PageTypes' /\ BetweenPages' /\ ButtonsAwaited'
    BY <1>1, <2>1, AnswerKeeps, NotAwaited, AwaitedNames
  <2>3. UserTypes'
    BY <1>2, <1>5
    DEF UserMe, BundleLoaded, Polled, KeyActed, KeysRefreshed, FrontendInv, UserTypes, userVars
  <2> QED BY <1>1, <2>2, <2>3 DEF PagesKept
<1>6. CASE QrRequested(d)
  <2>1. call[d].what = "qr" /\ UNCHANGED <<net, page, userVars>>
    BY <1>6 DEF QrRequested, Answer
  <2>2. ASSUME Ok(d)
       PROVE  PageTypes' /\ BetweenPages' /\ ButtonsAwaited'
    <3>1. GoesOn(d, "qrLive") /\ busy' = busy
      BY <1>6, <2>2, SendGoesOn DEF QrRequested, FrontendInv
    <3>2. \A b \in Buttons : "qr" \in Awaits(b) <=> "qrLive" \in Awaits(b)
      BY AwaitsNames DEF Buttons
    <3> QED BY <1>1, <2>1, <3>1, <3>2, AnswerKeeps
  <2>3. ASSUME ~Ok(d)
       PROVE  PageTypes' /\ BetweenPages' /\ ButtonsAwaited'
    <3>1. GoesOn(d, "none") /\ Done("qr")
      BY <1>6, <2>3, FreeGoesOn DEF QrRequested, FrontendInv
    <3> QED BY <1>1, <2>1, <3>1, AwaitsNames, AnswerKeeps DEF Buttons
  <2>4. PageTypes' /\ BetweenPages' /\ ButtonsAwaited'
    BY <2>2, <2>3
  <2> QED BY <1>1, <2>1, <2>4 DEF PagesKept, FrontendInv, UserTypes, userVars
<1>7. CASE QrLive(d) \/ PasswordSaved(d)
  <2>1. /\ \E b \in Buttons : call[d].what \in Awaits(b) /\ Done(b)
        /\ GoesOn(d, "none") /\ call[d].what # "none" /\ UNCHANGED <<net, page>>
    BY <1>7, AwaitsNames, FreeGoesOn DEF QrLive, PasswordSaved, Answer, FrontendInv, Buttons
  <2>2. PageTypes' /\ BetweenPages' /\ ButtonsAwaited'
    BY <1>1, <2>1, AnswerKeeps
  <2>3. UserTypes'
    BY <1>2, <1>7 DEF QrLive, PasswordSaved, FrontendInv, UserTypes, userVars
  <2> QED BY <1>1, <2>2, <2>3 DEF PagesKept
<1> QED BY <1>4, <1>5, <1>6, <1>7 DEF UserAnswer

LEMMA PortalClickKeeps ==
  ASSUME FrontendInv, NEW d \in Calls, PortalClick(d) \/ PollPortal(d),
         UNCHANGED <<dashboardVars, userVars>>
  PROVE  PagesKept
<1>1. CASE PollPortal(d)
  <2>1. /\ "portal" \notin Awaited /\ IsFree(d) /\ Send(d, "portal", 0) /\ page # "login"
        /\ UNCHANGED <<net, page, busy, portalVars>>
    BY <1>1, AwaitedNames DEF PollPortal
  <2> QED BY <2>1, ClickKeeps
<1>2. CASE RefreshQr(d) \/ SendTest(d)
  <2>1. \E what : \E b \in Buttons :
            /\ IsFree(d) /\ Send(d, what, 0) /\ Wait(b) /\ b \notin busy
            /\ what \in Awaits(b) /\ page # "login" /\ UNCHANGED <<net, page, portalVars>>
    BY <1>2, AwaitsNames DEF RefreshQr, SendTest, Buttons
  <2> QED BY <2>1, PressKeeps
<1> QED BY <1>1, <1>2 DEF PortalClick

LEMMA LeavePortalKeeps ==
  ASSUME FrontendInv, LeavePortal, UNCHANGED <<dashboardVars, userVars>>
  PROVE  PagesKept
<1>1. PortalTypes'
  BY DEF LeavePortal, PortalTypes
<1>2. DashboardTypes' /\ UserTypes' /\ role' = "none"
  BY DEF LeavePortal, FrontendInv, BetweenPages, DashboardTypes, UserTypes, dashboardVars, userVars
<1> QED BY <1>1, <1>2, CloseKeeps DEF LeavePortal

LEMMA PortalAnswerKeeps ==
  ASSUME FrontendInv, NEW d \in Calls, PortalAnswer(d), UNCHANGED <<dashboardVars, userVars>>
  PROVE  PagesKept
<1>1. DashboardTypes' /\ UserTypes' /\ role' = role
  BY DEF FrontendInv, DashboardTypes, UserTypes, dashboardVars, userVars
<1>2. call[d].seen \in 0..MaxRev
  BY SeenIsRevision DEF FrontendInv
<1>4. PortalTypes'
  BY <1>2 DEF PortalAnswer, PortalPolled, PortalQrAsked, PortalRefreshed, TestSent, FrontendInv,
              PortalTypes, portalVars
<1>5. CASE PortalPolled(d)
  <2>1. call[d].what = "portal" /\ GoesOn(d, "none") /\ UNCHANGED <<net, page, busy>>
    BY <1>5, FreeGoesOn DEF PortalPolled, Answer, FrontendInv
  <2>2. PageTypes' /\ BetweenPages' /\ ButtonsAwaited'
    BY <1>1, <2>1, AnswerKeeps, NotAwaited, AwaitedNames
  <2> QED BY <1>1, <1>4, <2>2 DEF PagesKept
<1>6. CASE PortalQrAsked(d) /\ Ok(d)
  <2>1. /\ call[d].what = "portalQr" /\ UNCHANGED <<net, page, busy>>
        /\ GoesOn(d, "portalAfter")
    BY <1>6, SendGoesOn DEF PortalQrAsked, Answer, FrontendInv
  <2>2. \A b \in Buttons : "portalQr" \in Awaits(b) <=> "portalAfter" \in Awaits(b)
    BY AwaitsNames DEF Buttons
  <2>3. PageTypes' /\ BetweenPages' /\ ButtonsAwaited'
    BY <1>1, <2>1, <2>2, AnswerKeeps
  <2> QED BY <1>1, <1>4, <2>3 DEF PagesKept
<1>7. CASE \/ PortalQrAsked(d) /\ ~Ok(d)
           \/ PortalRefreshed(d) /\ Free(d) /\ Done("refreshing")
           \/ TestSent(d)
  <2>1. /\ \E b \in Buttons : call[d].what \in Awaits(b) /\ Done(b)
        /\ GoesOn(d, "none") /\ call[d].what # "none" /\ UNCHANGED <<net, page>>
    BY <1>7, AwaitsNames, FreeGoesOn
    DEF PortalQrAsked, PortalRefreshed, TestSent, Answer, FrontendInv, Buttons
  <2>2. PageTypes' /\ BetweenPages' /\ ButtonsAwaited'
    BY <1>1, <2>1, AnswerKeeps
  <2> QED BY <1>1, <1>4, <2>2 DEF PagesKept
<1>8. CASE PortalRefreshed(d) /\ call' = [k \in Calls |-> Idle] /\ busy' = {}
  <2>1. ButtonsAwaited' /\ \A c \in Calls : call'[c].what = "none"
    BY <1>8, AllEnabled
  <2>2. page' = page /\ denied' = denied /\ losses' = losses
    BY <1>8 DEF PortalRefreshed, net
  <2>3. BetweenPages' /\ PageTypes'
    BY <1>1, <1>8, <2>1, <2>2 DEF BetweenPages, PageTypes, FrontendInv
  <2> QED BY <1>1, <1>4, <2>1, <2>3 DEF PagesKept
<1> QED BY <1>5, <1>6, <1>7, <1>8 DEF PortalAnswer, PortalRefreshed

-----------------------------------------------------------------------------
(* The invariant.                                                          *)

LEMMA ServesKeeps ==
  ASSUME FrontendInv, NEW c \in Calls, Serves(c)
  PROVE  PagesKept
<1>1. /\ UNCHANGED <<denied, page, busy, dashboardVars, userVars, portalVars>>
      /\ call[c].stage = "sent" /\ losses' \in {losses, losses + 1}
      /\ \/ call' = [call EXCEPT ![c].stage = "ok", ![c].seen = rev']
         \/ call' = [call EXCEPT ![c].stage = "error"]
  BY DEF Serves, Idly, Serve
<1>2. \A d \in Calls : call'[d].what = call[d].what
  BY <1>1 DEF FrontendInv, CallsInv, CallOK
<1>3. ButtonsAwaited' /\ BetweenPages'
  BY <1>1, <1>2 DEF FrontendInv, ButtonsAwaited, BetweenPages, dashboardVars
<1> QED BY <1>1, <1>3
    DEF PagesKept, FrontendInv, PageTypes, DashboardTypes, UserTypes, PortalTypes,
        dashboardVars, userVars, portalVars

LEMMA SameKeeps ==
  ASSUME FrontendInv, denied' \in BOOLEAN,
         UNCHANGED <<losses, call, page, busy, dashboardVars, userVars, portalVars>>
  PROVE  PagesKept
BY DEF PagesKept, FrontendInv, PageTypes, DashboardTypes, UserTypes, PortalTypes, BetweenPages,
       ButtonsAwaited, dashboardVars, userVars, portalVars

LEMMA FrontendInductive ==
  ASSUME FrontendInv, FrontendNext
  PROVE  FrontendInv'
<1>1. CallsInv'
  BY FrontendStep DEF FrontendInv, StepOK
<1>2. ASSUME DashboardStep
      PROVE  PagesKept
  <2>1. CASE Redirect
    <3>1. /\ UNCHANGED <<net, call, page, busy, person, role, users, backups>> /\ view' = "overview"
          /\ UNCHANGED <<userVars, portalVars>>
      BY <1>2, <2>1 DEF DashboardStep, Idly, Redirect
    <3> QED BY <3>1
        DEF PagesKept, FrontendInv, PageTypes, DashboardTypes, UserTypes, PortalTypes,
            BetweenPages, ButtonsAwaited, net, userVars, portalVars
  <2> QED BY <1>2, <2>1, LeaveDashboardKeeps, DashboardClickKeeps DEF DashboardStep, Idly
<1>3. ASSUME UserStep
      PROVE  PagesKept
  BY <1>3, LeaveUserKeeps, UserClickKeeps DEF UserStep, Idly
<1>4. ASSUME PortalStep
      PROVE  PagesKept
  <2>1. CASE OpenPortal
    <3>1. /\ page = "login" /\ page' = "portal"
          /\ UNCHANGED <<net, call, busy, portalVars, dashboardVars, userVars>>
      BY <1>4, <2>1 DEF PortalStep, Idly, OpenPortal
    <3> QED BY <3>1
        DEF PagesKept, FrontendInv, PageTypes, DashboardTypes, UserTypes, PortalTypes,
            BetweenPages, ButtonsAwaited, net, dashboardVars, userVars, portalVars
  <2> QED BY <1>4, <2>1, LeavePortalKeeps, PortalClickKeeps DEF PortalStep, Idly
<1>5. ASSUME MessagesTimer \/ LiveTimer
      PROVE  PagesKept
  BY <1>5, UserClickKeeps DEF MessagesTimer, LiveTimer, Idly
<1>6. ASSUME PortalTimer
      PROVE  PagesKept
  BY <1>6, PortalClickKeeps DEF PortalTimer, Idly
<1>7. ASSUME NEW c \in Calls, Serves(c) \/ Arrives(c)
      PROVE  PagesKept
  BY <1>7, ServesKeeps, DashboardAnswerKeeps, UserAnswerKeeps, PortalAnswerKeeps DEF Arrives, Idly
<1>8. ASSUME Idly(Change, <<dashboardVars, userVars, portalVars>>)
      PROVE  PagesKept
  <2>1. denied' \in BOOLEAN /\ UNCHANGED <<losses, call, page, busy>>
    BY <1>8 DEF Idly, Change, FrontendInv, PageTypes
  <2> QED BY <1>8, <2>1, SameKeeps DEF Idly
<1>9. PagesKept
  BY <1>2, <1>3, <1>4, <1>5, <1>6, <1>7, <1>8 DEF FrontendNext
<1> QED BY <1>1, <1>9 DEF FrontendInv, PagesKept

\* The types of the calls and of each page, what is in flight between two pages, and which
\* requests each disabled button waits for.
THEOREM FrontendInvariance == FrontendSpec => []FrontendInv
<1>1. FrontendInit => FrontendInv
  <2> SUFFICES ASSUME FrontendInit PROVE FrontendInv
    OBVIOUS
  <2>1. CallsInv
    BY IdleOK DEF FrontendInit, RequestsInit, CallsInv
  <2>2. \A c \in Calls : call[c].what = "none"
    BY DEF FrontendInit, RequestsInit, Idle
  <2>3. \A b \in Buttons : "none" \notin Awaits(b)
    BY AwaitsNames DEF Buttons
  <2>4. ButtonsAwaited /\ BetweenPages
    BY <2>2, <2>3
    DEF FrontendInit, RequestsInit, DashboardInit, ButtonsAwaited, BetweenPages
  <2>5. denied \in BOOLEAN /\ known \in BOOLEAN /\ bundle \in BOOLEAN
    BY Zenon DEF FrontendInit, RequestsInit, UserInit
  <2> QED BY <2>1, <2>4, <2>5
      DEF FrontendInit, RequestsInit, DashboardInit, UserInit, PortalInit, FrontendInv,
          PageTypes, DashboardTypes, UserTypes, PortalTypes
<1>2. FrontendInv /\ [FrontendNext]_frontendVars => FrontendInv'
  <2>1. CASE UNCHANGED frontendVars
    <3>1. SUFFICES ASSUME FrontendInv PROVE FrontendInv'
      OBVIOUS
    <3>2. CallsInv'
      BY <2>1, <3>1 DEF frontendVars, net, FrontendInv, CallsInv
    <3>3. PagesKept
      BY <2>1, <3>1, SameKeeps DEF frontendVars, net, FrontendInv, PageTypes
    <3> QED BY <3>2, <3>3 DEF FrontendInv, PagesKept
  <2> QED BY <2>1, FrontendInductive
<1> QED BY <1>1, <1>2, PTL DEF FrontendSpec

\* The types of the pages' variables, for any number of requests in flight.
THEOREM FrontendTypeCorrect == FrontendSpec => []FrontendTypeOK
<1>1. FrontendInv => FrontendTypeOK
  BY DEF FrontendInv, CallsInv, CallOK, PageTypes, DashboardTypes, UserTypes, PortalTypes,
         FrontendTypeOK
<1> QED BY <1>1, FrontendInvariance, PTL

\* No button stays disabled without a request that will enable it, and none but the lookup
\* has two, for any number of requests in flight, changes and losses.
THEOREM ButtonsAreAwaited == FrontendSpec => []ButtonsAwaited
<1>1. FrontendInv => ButtonsAwaited
  BY DEF FrontendInv
<1> QED BY <1>1, FrontendInvariance, PTL
=============================================================================
