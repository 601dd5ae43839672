----------------------------- MODULE Dashboard -----------------------------
(***************************************************************************)
(* The dashboard: one person's page with the list of users, loaded when it *)
(* opens, after an event of the socket and after each action of its own,   *)
(* and the Backups view.  The summary is loaded beside the list in the     *)
(* same way.  A dialog covers the page, so a confirmed click is one step.  *)
(***************************************************************************)
EXTENDS Requests

VARIABLES
    person,             \* who is signed in
    role,               \* user.role, once /auth/me has answered
    view,               \* currentView: "overview" stands for those everyone has
    users, backups      \* users, databaseBackups: what they show

dashboardVars == <<person, role, view, users, backups>>

DashboardInit ==
    /\ person = "none" /\ role = "none" /\ view = "overview" /\ users = 0 /\ backups = 0
LeaveDashboard ==
    /\ page = "dashboard" /\ Close
    /\ person' = "none" /\ role' = "none" /\ view' = "overview" /\ users' = 0 /\ backups' = 0
    /\ UNCHANGED net

OnDashboard == page = "dashboard" /\ role # "none"

\* Someone opens a route of the dashboard: its state starts anew, with /auth/me.
OpenDashboard(c) ==
    /\ page = "login" /\ IsFree(c)
    /\ person' \in {"SUPERADMIN", "ADMIN"}
    /\ page' = "dashboard" /\ view' \in {"overview", "backups"}
    /\ Send(c, "me", 0)
    /\ UNCHANGED <<net, busy, role, users, backups>>

\* Mutant: the role of the page, not of the account.
MeOfPage(c) ==
    /\ Answer(c, "me")
    /\ \/ /\ Ok(c) /\ role' = IF view = "backups" THEN "SUPERADMIN" ELSE person
          /\ Send(c, "load", 0)
          /\ UNCHANGED <<net, page, busy, person, view, users, backups>>
       \/ ~Ok(c) /\ LeaveDashboard
\* The two effects that then run: the first load and, for a superadmin, the Backups view's.
Me(c) ==
    /\ Answer(c, "me")
    /\ \/ /\ Ok(c) /\ role' = person /\ Send(c, "load", 0)
          /\ UNCHANGED <<net, page, busy, person, view, users, backups>>
       \/ ~Ok(c) /\ LeaveDashboard

\* A role that has no Backups view is sent to the overview.
Redirect ==
    /\ OnDashboard /\ role # "SUPERADMIN" /\ view = "backups"
    /\ view' = "overview"
    /\ UNCHANGED <<net, call, page, busy, person, role, users, backups>>

OnBackups == OnDashboard /\ role = "SUPERADMIN" /\ view = "backups"

\* loadDatabaseBackups, when the view opens and on Refresh.
LoadBackups(c) ==
    /\ OnBackups /\ "backup" \notin busy /\ IsFree(c)
    /\ Send(c, "backups", 0)
    /\ UNCHANGED <<net, page, busy, dashboardVars>>

\* An event of the socket: the list is loaded again.
Realtime(c) ==
    /\ OnDashboard /\ IsFree(c)
    /\ Send(c, "users", 0)
    /\ UNCHANGED <<net, page, busy, dashboardVars>>

\* createUser, deleteUser, setApiKeyStatus; and the superadmin's setAdminStatus, deleteAdmin.
\* Nothing is disabled meanwhile.
Act(c, what) ==
    /\ OnDashboard /\ IsFree(c)
    /\ \/ what \in {"createUser", "deleteUser", "keyStatus"}
       \/ role = "SUPERADMIN" /\ what \in {"adminStatus", "deleteAdmin"}
    /\ Send(c, what, 0)
    /\ UNCHANGED <<net, page, busy, dashboardVars>>

Acted(c) ==
    /\ \E what \in {"createUser", "deleteUser", "keyStatus", "adminStatus", "deleteAdmin"} :
          Answer(c, what)
    /\ IF Ok(c) THEN Send(c, "users", call[c].seen) ELSE Free(c)
    /\ UNCHANGED <<net, page, busy, dashboardVars>>

\* A list that arrives is shown, however old it is; one that fails leaves the last.
UsersLoaded(c) ==
    /\ Answer(c, "load") \/ Answer(c, "users")
    /\ users' = IF Ok(c) THEN call[c].seen ELSE users
    /\ Free(c)
    /\ UNCHANGED <<net, page, busy, person, role, view, backups>>

\* lookupActiveApiKey: the Enter key starts another one while one is under way.
Lookup(c) ==
    /\ OnDashboard /\ IsFree(c)
    /\ Send(c, "lookup", 0) /\ Wait("lookup")
    /\ UNCHANGED <<net, page, dashboardVars>>

\* changeOwnPassword.
ChangePassword(c) ==
    /\ OnDashboard /\ IsFree(c) /\ "password" \notin busy
    /\ Send(c, "password", 0) /\ Wait("password")
    /\ UNCHANGED <<net, page, dashboardVars>>

ButtonDone(c) ==
    /\ \/ Answer(c, "lookup") /\ Done("lookup")
       \/ Answer(c, "password") /\ Done("password")
    /\ Free(c)
    /\ UNCHANGED <<net, page, dashboardVars>>

\* createDatabaseBackup, deleteDatabaseBackup, restoreDatabaseBackup: the operation, then the
\* list; a restore then loads the users before the buttons are enabled again.
BackupAct(c) ==
    /\ OnBackups /\ "backup" \notin busy /\ IsFree(c)
    /\ Send(c, "backupAct", 0) /\ Wait("backup")
    /\ UNCHANGED <<net, page, dashboardVars>>

BackupActed(c) ==
    /\ Answer(c, "backupAct")
    /\ IF Ok(c) THEN Send(c, "backupList", call[c].seen) /\ UNCHANGED busy
                ELSE Free(c) /\ Done("backup")
    /\ UNCHANGED <<net, page, dashboardVars>>

BackupsLoaded(c) ==
    /\ Answer(c, "backups") \/ Answer(c, "backupList")
    /\ backups' = IF Ok(c) THEN call[c].seen ELSE backups
    /\ \/ Answer(c, "backups") /\ Free(c) /\ UNCHANGED busy
       \/ Answer(c, "backupList") /\ Free(c) /\ Done("backup")
       \/ Answer(c, "backupList") /\ Send(c, "restored", call[c].after) /\ UNCHANGED busy
    /\ UNCHANGED <<net, page, person, role, view, users>>

Restored(c) ==
    /\ Answer(c, "restored")
    /\ users' = IF Ok(c) THEN call[c].seen ELSE users
    /\ Free(c) /\ Done("backup")
    /\ UNCHANGED <<net, page, person, role, view, backups>>

Logout(c) ==
    /\ OnDashboard /\ IsFree(c)
    /\ Send(c, "logout", 0)
    /\ UNCHANGED <<net, page, busy, dashboardVars>>

\* However the request ended, and whatever else is under way.
LoggedOut(c) ==
    /\ Answer(c, "logout") /\ LeaveDashboard

DashboardClick(c) == \/ OpenDashboard(c) \/ Lookup(c) \/ ChangePassword(c) \/ BackupAct(c)
                     \/ LoadBackups(c) \/ Logout(c) \/ Realtime(c)
                     \/ \E what \in Writes : Act(c, what)
DashboardAnswer(c) == \/ Me(c) \/ Acted(c) \/ UsersLoaded(c) \/ ButtonDone(c)
                      \/ BackupActed(c) \/ BackupsLoaded(c) \/ Restored(c) \/ LoggedOut(c)
=============================================================================
