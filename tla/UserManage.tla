----------------------------- MODULE UserManage -----------------------------
(***************************************************************************)
(* The page of one API user: loaded once, then the messages and the live   *)
(* state of the session are polled every five seconds, next to what the    *)
(* page's own actions load.  The keys themselves are left out.             *)
(***************************************************************************)
EXTENDS Requests

VARIABLES
    known,              \* token is set: the effects that load and poll run
    bundle,             \* the page is shown; it has the user's keys and session
    messages, live      \* what messages and liveSession show

userVars == <<known, bundle, messages, live>>

UserInit == known = FALSE /\ bundle = FALSE /\ messages = 0 /\ live = 0
LeaveUser ==
    /\ page = "user" /\ Close
    /\ known' = FALSE /\ bundle' = FALSE /\ messages' = 0 /\ live' = 0
    /\ UNCHANGED net

OpenUser(c) ==
    /\ page = "login" /\ IsFree(c)
    /\ page' = "user" /\ Send(c, "userMe", 0)
    /\ UNCHANGED <<net, busy, userVars>>

UserMe(c) ==
    /\ Answer(c, "userMe")
    /\ \/ /\ Ok(c) /\ known' = TRUE /\ Send(c, "bundle", 0)
          /\ UNCHANGED <<net, page, busy, bundle, messages, live>>
       \/ ~Ok(c) /\ LeaveUser

\* The first load is not repeated: when it fails the page stays on its error, and no
\* session is selected.
BundleLoaded(c) ==
    /\ Answer(c, "bundle") /\ Free(c)
    /\ IF Ok(c) THEN bundle' = TRUE /\ messages' = call[c].seen ELSE UNCHANGED <<bundle, messages>>
    /\ UNCHANGED <<net, page, busy, known, live>>

\* The timers do not wait for the request before.
PollMessages(c) ==
    /\ page = "user" /\ known /\ IsFree(c)
    /\ Send(c, "messages", 0)
    /\ UNCHANGED <<net, page, busy, userVars>>

\* Mutant: polled until there is something to show.
PollLiveOnce(c) ==
    /\ page = "user" /\ bundle /\ IsFree(c) /\ live = 0
    /\ Send(c, "live", 0)
    /\ UNCHANGED <<net, page, busy, userVars>>
PollLive(c) ==
    /\ page = "user" /\ bundle /\ IsFree(c)
    /\ Send(c, "live", 0)
    /\ UNCHANGED <<net, page, busy, userVars>>

Polled(c) ==
    /\ \/ Answer(c, "messages") /\ messages' = (IF Ok(c) THEN call[c].seen ELSE messages)
          /\ UNCHANGED live
       \/ Answer(c, "live") /\ live' = (IF Ok(c) THEN call[c].seen ELSE live)
          /\ UNCHANGED messages
    /\ Free(c)
    /\ UNCHANGED <<net, page, busy, known, bundle>>

\* generateKey, revokeKey, setKeyStatus: nothing is disabled meanwhile.
KeyAct(c) ==
    /\ page = "user" /\ bundle /\ IsFree(c)
    /\ Send(c, "key", 0)
    /\ UNCHANGED <<net, page, busy, userVars>>

\* The page then loads the keys and the messages.
KeyActed(c) ==
    /\ Answer(c, "key")
    /\ IF Ok(c) THEN Send(c, "keyRefresh", call[c].seen) ELSE Free(c)
    /\ UNCHANGED <<net, page, busy, userVars>>

KeysRefreshed(c) ==
    /\ Answer(c, "keyRefresh") /\ Free(c)
    /\ messages' = IF Ok(c) THEN call[c].seen ELSE messages
    /\ UNCHANGED <<net, page, busy, known, bundle, live>>

RequestQr(c) ==
    /\ page = "user" /\ bundle /\ "qr" \notin busy /\ IsFree(c)
    /\ Send(c, "qr", 0) /\ Wait("qr")
    /\ UNCHANGED <<net, page, userVars>>

\* Mutant: the button is enabled in the good case only.
QrRequestedNoFinally(c) ==
    /\ Answer(c, "qr")
    /\ IF Ok(c) THEN Send(c, "qrLive", call[c].seen) ELSE Free(c)
    /\ UNCHANGED <<net, page, busy, userVars>>
QrRequested(c) ==
    /\ Answer(c, "qr")
    /\ IF Ok(c) THEN Send(c, "qrLive", call[c].seen) /\ UNCHANGED busy
                ELSE Free(c) /\ Done("qr")
    /\ UNCHANGED <<net, page, userVars>>

QrLive(c) ==
    /\ Answer(c, "qrLive") /\ Free(c) /\ Done("qr")
    /\ live' = IF Ok(c) THEN call[c].seen ELSE live
    /\ UNCHANGED <<net, page, known, bundle, messages>>

SavePassword(c) ==
    /\ page = "user" /\ bundle /\ "saving" \notin busy /\ IsFree(c)
    /\ Send(c, "userPassword", 0) /\ Wait("saving")
    /\ UNCHANGED <<net, page, userVars>>

PasswordSaved(c) ==
    /\ Answer(c, "userPassword") /\ Free(c) /\ Done("saving")
    /\ UNCHANGED <<net, page, userVars>>

UserClick(c)  == OpenUser(c) \/ KeyAct(c) \/ RequestQr(c) \/ SavePassword(c)
UserAnswer(c) == \/ UserMe(c) \/ BundleLoaded(c) \/ Polled(c) \/ KeyActed(c) \/ KeysRefreshed(c)
                 \/ QrRequested(c) \/ QrLive(c) \/ PasswordSaved(c)
=============================================================================
