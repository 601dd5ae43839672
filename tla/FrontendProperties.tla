------------------------- MODULE FrontendProperties -------------------------
(* What the pages show, whatever the order their requests are answered in.   *)
EXTENDS Frontend

Purposes == Writes \cup
    {"none", "me", "load", "users", "lookup", "backups", "backupList", "restored", "userMe",
     "bundle", "messages", "live", "keyRefresh", "qrLive", "portal", "portalAfter"}
Buttons  == {"lookup", "password", "backup", "qr", "saving", "refreshing", "sending"}

\* Types of the variables of the pages.
FrontendTypeOK ==
    /\ rev \in 0..MaxRev /\ denied \in BOOLEAN /\ losses \in Nat
    /\ call \in [Calls -> [what : Purposes, stage : {"free", "sent", "ok", "error"},
                           seen : 0..MaxRev, after : 0..MaxRev]]
    /\ page \in {"login", "dashboard", "user", "portal"} /\ busy \subseteq Buttons
    /\ person \in {"none", "SUPERADMIN", "ADMIN"} /\ role \in {"none", person}
    /\ view \in {"overview", "backups"} /\ users \in 0..MaxRev /\ backups \in 0..MaxRev
    /\ known \in BOOLEAN /\ bundle \in BOOLEAN
    /\ messages \in 0..MaxRev /\ live \in 0..MaxRev
    /\ portal \in 0..MaxRev /\ portalState \in {"loading", "shown", "failed", "broken"}

\* What a list or state is when an answer with it has arrived.
Shown(what) == CASE what \in {"users", "restored"} -> users
                 [] what \in {"backups", "backupList"} -> backups
                 [] what = "keyRefresh" -> messages
                 [] what = "qrLive" -> live
                 [] what = "portalAfter" -> portal
                 [] OTHER -> rev

\* When the answer arrives that a page asks for after an action of its own, the page shows
\* that action, whatever polls and earlier answers come between: the answer is younger than
\* the action, and is shown unless the page was left or no longer renders.
ActionShown ==
    [][\A c \in Calls, what \in Purposes :
          /\ call[c].what = what /\ Ok(c) /\ call'[c] # call[c]
          /\ page' = page /\ portalState' # "broken"
          => Shown(what)' >= call[c].after]_frontendVars

\* A page of an API user that stays open ends up showing the last messages and the last
\* state of the session, although polls overtake each other and actions load them as well.
UserPageCatchesUp ==
    <>[](page = "user" /\ bundle) => <>[](denied \/ (messages = rev /\ live = rev))

\* So does a portal page, unless its new QR code met an error.
PortalCatchesUp ==
    <>[](page = "portal") => <>[](denied \/ portal = rev \/ portalState = "broken")

\* What the answers each button waits for belong to.
Awaits(b) == CASE b = "lookup" -> {"lookup"}
               [] b = "password" -> {"password"}
               [] b = "backup" -> {"backupAct", "backupList", "restored"}
               [] b = "qr" -> {"qr", "qrLive"}
               [] b = "saving" -> {"userPassword"}
               [] b = "refreshing" -> {"portalQr", "portalAfter"}
               [] b = "sending" -> {"portalSend"}

\* A button is not left disabled: a request in flight will enable it, however it ends.
\* But for the lookup, which the Enter key repeats, that is a single request, and none is
\* in flight while the button is enabled.
ButtonsAwaited ==
    /\ \A b \in busy : \E c \in Calls : call[c].what \in Awaits(b)
    /\ \A b \in Buttons \ {"lookup"}, c, d \in Calls :
          call[c].what \in Awaits(b) /\ call[d].what \in Awaits(b) => c = d /\ b \in busy
=============================================================================
