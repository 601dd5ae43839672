# Verification of the WhatsApp session platform

TLA+ models of the platform in `src/`, the TLC runs that check small instances of them, and TLAPS proofs for every instance. `PROJECT.json` says which definition models which lines.

## The system

The platform lets API users send WhatsApp messages through paired sessions. A NestJS **backend** takes requests (dashboard with a JWT, API with a key, client portal with a link), writes PostgreSQL through Prisma and enqueues jobs. BullMQ on **Redis** holds three queues: QR, number check and send. A NestJS **worker** takes the jobs and drives one Baileys socket per session. A Next.js **frontend** polls the backend.

| Component | State | Operations | Talks to |
|---|---|---|---|
| WhatsApp gateway (`whatsapp-gateway.service.ts`) | map session id to runtime: socket, status, QR, connectPromise, reconnectTimer, closedByService, generation | restore at start-up, requestQr, ensureConnected, sendText, sendFile, checkNumber; event handlers; timers | Baileys events; rows `whatsapp_sessions`, `whatsapp_auth_state`; keys `wa:session:*` |
| Worker jobs (`worker.processor.ts`) | one job per queue in progress | handleRequestQr, handleSendText, handleSendFile, handleCheckAndSend, handleCheckNumber | gateway calls, message log, counters, upload files |
| Message requests (`api.controller.ts`, `platform.service.ts`, `queue.service.ts`) | `message_logs`, BullMQ jobs, uploads | sendMessage, sendFile, the queue functions | send queue |
| Dead letters (`worker-observability.service.ts`) | a Redis list and counters | recordDeadLetter | QueueEvents |
| Accounts (`platform.service.ts`, `guards.ts`) | `users`, `api_keys`, `whatsapp_sessions`, portal versions | create, delete, block users and admins; create, revoke, switch keys; revoke portal links | PostgreSQL only |
| Backups (`backup.service.ts`) | dump files, the `running` flag | list, create, restore, delete, prune | pg_dump, pg_restore |
| Rate limit (`rate-limit.guard.ts`) | buckets in memory | one check per request | none |
| Heartbeat and health (`worker-heartbeat.service.ts`, `worker-status.service.ts`) | a key with a time to live | periodic writes, reads | Redis |
| Realtime gateway | none | broadcast | frontend |
| Frontend (`dashboard-client.tsx`, `user-manage-client.tsx`, `client-access-client.tsx`) | what each page shows, buttons that wait | loads, polls, actions | HTTP, socket events |
| Configuration, infrastructure | settings | | |

What is hard about it: every handler is a chain of awaits that interleaves with timers, socket events and other jobs of the same session; three stores hold the same status; BullMQ retries what may already have been done; the backend enqueues before it writes the log; dashboard requests read, check and write in separate database calls; backups are listed, pruned and written in one directory by two parties; a page has several requests in flight and shows whatever answer comes last; the process may die between any two of them. The `hazards` list of `PROJECT.json` has each at its line.

What makes each part correct:

- gateway: one listened-to socket per runtime, no promise joined that is over, stores that agree with memory once all is quiet unless handlers crossed, logout and deletion that are final, reconnects that happen unless a call fails;
- pipeline: a log that tells the truth, results that stay, tries and deliveries that are bounded, jobs that end;
- accounts: tenants apart, deletion all or nothing, revocations that hold;
- backups: one operation at a time, dumps that are complete when they are reported or relied on, a last complete one that stays;
- rate limit: a bound on what passes, and a way back in;
- monitoring: a worker judged as it is, failures listed as they came;
- frontend: pages that show their own actions and catch up, buttons that come back.

## Modules

| Module | Contents |
|---|---|
| `SessionGateway` | the gateway and the jobs that call it, for one session |
| `SessionGatewayProperties` | its type invariant, invariants, liveness |
| `SessionGatewayStores` | a history of what handlers meet, and what they leave in the stores |
| `SessionGateway_proofs` | its inductive invariant and theorems |
| `SessionGatewaySockets_proofs` | on top of those, the invariants of the socket in use, and of a session no job uses |
| `MessageDelivery` | abstract: what the send queue promises of each message |
| `MessagePipeline` | request, queue, worker, log, counters, uploads, dead letters |
| `MessagePipelineProperties` | its properties and the refinement mapping to `MessageDelivery` |
| `MessagePipeline_proofs` | its inductive invariant, theorems and the refinement |
| `Accounts` | overlapping dashboard requests over users, keys, sessions and links |
| `AccountsProperties` | its properties |
| `Accounts_proofs` | its inductive invariant and theorems |
| `Backups`, `BackupProperties`, `Backups_proofs` | the backup service, the workflows and the directory; properties; proofs |
| `RateLimit`, `RateLimitProperties`, `RateLimit_proofs` | the fixed windows of requests; properties; proofs |
| `Monitoring`, `MonitoringProperties`, `Monitoring_proofs` | heartbeat, health, dead letters; properties; proofs |
| `Requests` | what the pages share: requests in flight, the backend that serves them |
| `Dashboard`, `UserManage`, `ClientPortal` | one page each, on top of `Requests` |
| `Frontend`, `FrontendProperties`, `Frontend_proofs` | the pages composed in one browser; properties; proofs |
| `MC*` | constants and views for TLC; `MCSessionGatewayStores` adds the history to the gateway's, `MCServices` puts backups, rate limit and monitoring side by side |

### SessionGateway

One session id is modelled: sessions share only the cached Baileys version. One action is what runs between two awaits. Runtimes are numbered as they enter the map, so one that was disposed still exists for the sockets and handlers that hold it, as in the code. Sockets are numbered as `createSocket` is called; credentials and QR codes are named by the socket that minted them. `Earlier` is a pairing made before the model starts.

`StartsSocket` is `connectSession` up to its first await, `LoadAuth` and `MakeSocket` are `createSocket`, `Emit*` are the synchronous prefixes of the event handlers, and `SaveAuth` to `DisposeMissing` are the awaits of `saveAuthState`, `deleteMany` and `persistSessionState`. `ArmTimer` is what a lost connection does last. The jobs are threads: `Qr` runs `handleRequestQr`, each of `Users` runs the worker's `ensureConnected` and then `requireConnectedSocket`. `waitForState` looks at the runtime now in the map, enters one when there is none, and may give up at any poll that sees none of the states it waits for. A request of the backend is two steps: `Request` reads the row, and for a QR code writes `PENDING_QR` to it, then `Enqueue` puts the job in the queue or `EnqueueFails` leaves the row as it was marked. The start of the worker is two as well: `FindSession` reads whether credentials are stored, and `Restore` connects on what it read.

Baileys does not wait for the handlers of its events, and nothing in the code orders them (`whatsapp-gateway.service.ts:283-305`), so up to `Overlap` are in progress at once and their awaits interleave. What a handler writes may then come after what a later one wrote: an `open` handler may save the credentials again after the logout's handler has deleted them, and a `connecting` handler's status may reach a store after that of `open`. `StoresAgree` and `LogoutIsFinal` say what holds nevertheless. The history variable `upset` of `SessionGatewayStores` records what the handler of the last telling event met when it began, an earlier handler that had still to tell the stores or one that had still to save credentials, and whether a call of a telling handler has failed since. `StoresAgree` excepts the first and the last, the removal of the credentials in `LogoutIsFinal` the last two; that a logged-out session has no timer armed and no creation under way is claimed without exception.

Left out: mock mode; phone number and push name; the last-run keys; the wording of logs. A database or Redis call that fails has no effect. A socket whose ws is being closed may still emit what Baileys had received. Credentials count as stored only once they are registered with a phone.

### MessagePipeline

Messages of one session, each with its own request, job and log row. The gateway is a call that succeeds, fails, or delivers and then fails. The worker handles one job at a time, which is BullMQ's default concurrency. `Settle` is BullMQ's accounting of attempts; `Crash` is the death of the worker, after which a job that was active is found stalled and queued again once, and the events not yet read are lost (QueueEvents starts at the newest). `Cleanup` removes the upload or leaves it, since a failing `rm` is caught. `DeleteUser` is `deleteUsersCascade`.

`MessageDelivery` says: a message is accepted once, tried at most as often as BullMQ grants, delivered at most once per try, completed only after a delivery or when its number may be unreachable, failed only when the attempts are used up or workers died on it, and untouched afterwards. The mapping takes `job` to the phase and `tried` to the tries.

### Accounts

Each thread is one dashboard request. `Arrive` is JwtAuthGuard and RolesGuard; each later action is one database call. A transaction is the scans of its statements followed by one commit, which writes only scanned rows, re-evaluated, as READ COMMITTED does. A scan sees what its `where` asks for: `ScanKeys` the active keys only, so that one which is made active before the commit stays active beside the new one. Foreign keys are the guards of inserts (`target \in rows`) and of the deletion of users (`MayDelete`); `users.parent_admin_id` is set to null. A deleted account's identity does not come back, since a new account with its address has a new id. Two users that unblock different keys deadlock in PostgreSQL and one is rolled back: the model lets both go on, one after the other, which is the more permissive outcome. Left out: audit rows (no property reads them), passwords, reads that change nothing, message rows that would restrict a deletion, and the requests of API clients and portal visitors.

### Backups

Each slot is one request of the superadmin; one action is what runs between two awaits. `Arrive` is `runExclusive` up to its first await, `Answer` its `finally`. A dump is `Open` (the file is there, empty), `FillDump` (the snapshot of pg_dump) and `EndDump`; `FailDump` and `UndoDump` are its failure. `ReadDir` to `EndListing` are `listBackups`, whose calls of `stat` and `unlink` interleave with everything, also after one of them has made the listing fail. `Crash` is the end of the backend with the programs it started. `Workflow` stands for the deploy and backup workflows, which write under the same names and do not know the flag. A file is what its directory entry shows; a writer whose entry was removed writes to nothing.

A name is a prefix and a second, and the workflow builds the same names as the backend. So a dump that begins and ends within one second shares its file with another of that second: the second one empties it, two at once mix in it (`mixed`, which `pg_restore` cannot read), and the catch of either removes it. `EndDump` may or may not outlast the second.

Three things about time the code leaves to chance: that no other dump writes to a file of the same second (`Shared`), that no dump ends between the `stat` of a listing that saw it empty and the `unlink` (`Overtaken`), and that the retention is not full of files at least as new as a creation's own when it prunes, which a workflow could leave there (`Crowded`). `BackupProperties` records the files they happen to in the history variable `unlucky`. `CreatedIsComplete` excepts its own file if it is among them. `LastCompleteKept` excepts a step that removes a complete file among them, and a pruning by a creation whose own file is: what a failed dump takes of its second's complete one is such a step. All else that interleaves, fails or restarts they claim. `Exclusive` and `SafetyHolds` have no exception.

The database is a version number: what the application writes between the safety dump and `pg_restore` is lost by a restore, which the model shows (`DataWrite` between `EndDump` and `Load`) and no property denies, though the Backups view calls the safety backup immediate.

### RateLimit and Monitoring

`OpenWindow` and `CountRequest` are the two branches of `canActivate`. Time is counted backwards from now, so that the state stays finite without a bound on time; what passed is remembered for one window only, which is what the bound is about. The buckets are in memory and gone after a restart.

In `Monitoring` a tick is fifteen seconds. `TimerBeats` may be late by `MaxLate` ticks, and the assumption `BeatPeriod + MaxLate < HealthyAge` says how late is still healthy. A heartbeat that Redis rejects ends the process, since nothing catches it: this is one way to `StopWorker`. `RecordFailure` is the `MULTI` of `recordDeadLetter`.

### Frontend

All that a page can show of the backend is one number, `rev`, which every change increases; a read returns the number of the moment it is served. So an old list that overwrites a new one is a smaller number after a larger one. `Send` is a `fetch`, `Serve` the backend's answer, and each page has an action for each answer, which is what follows the `await`. `after` is the number a page's own action left, so that the load which follows can be compared with it. Two reads made together (list and summary, keys and messages) are one request. A page that is left drops its state and its requests. The account may be blocked, or the link revoked, at any time: requests then fail, as `JwtAuthGuard` and the portal's token check do.

`Realtime` is an event of the socket, which loads the lists again; the worker itself never emits to the socket, so most events the page listens for do not come, and the model does not rely on them. `PortalRefreshed` has the outcome that the code permits and the page does not survive: `requestQr` does not look at the status of its second answer. Loads of the dashboard's own list may overtake each other and nothing repeats them, so no property claims that it catches up.

## Runs

| Run | What it asks | Instance | Result |
|---|---|---|---|
| `gateway_use` | jobs against reconnects and one fault | one job thread, 2 tries, 2 runtimes, 2 sockets | holds, 590 thousand states |
| `gateway_pairing` | a QR job, which forces a connect, against restore, timers, deletion and a restart; one fault | 2 runtimes, 3 sockets, 1 restart | holds, 1.7 million |
| `gateway_restore` | loss, logout, restart, deletion, key expiry; one fault | 2 runtimes, 2 sockets, 1 restart, 2 handlers in progress | holds, 470 thousand |
| `pipeline` | a text and a checked file; one fault, one crash, deletion | 2 attempts | holds, 3.2 million |
| `pipeline_one` | one checked file; two faults, two crashes | 3 attempts, as in the code | holds, 85 thousand |
| `accounts` | three requests in every interleaving, one fault | 2 admins, 2 users, 4 keys, 4 sessions | holds, 320 thousand |
| `services` | backups against each other, a workflow, a restart; windows; heartbeat and dead letters | 2 requests, 3 events, 2 seconds, retention 1; 2 clients, limit 2; count 2 | holds, 400 thousand |
| `frontend` | each page with requests answered in any order | 2 in flight, 2 changes, 1 loss | holds, 520 thousand |
| `gateway_report` | is the reported status true? | | violated |
| `pipeline_upload` | is an upload kept until its attempts finish? | | violated |
| `accounts_keys` | has a user one active key? | | violated |
| `accounts_orphans` | does deleting an admin delete its API users? | | violated |

What the violations show is in `PROJECT.json` under `findings`:

- `disposeRuntime` does not raise the generation, so the old socket's `open` is accepted and the API reports a connection the worker does not hold.
- `cleanupUpload` runs after an attempt that will be retried, and never when `ensureConnected` throws.
- Two requests that each activate a key at READ COMMITTED do not see each other's.
- The children of an admin are read before the transaction that deletes them.

More that the code does not keep. The models contain all of it, and the properties above name it as their exceptions:

- The close handler arms the reconnect timer (`whatsapp-gateway.service.ts:386`) after awaits that may reject, and then never does: the session stays down. `Reconnects` is checked with a failing call and excepts exactly that.
- A creation that fails after a forced connect leaves `connected` over no socket (`whatsapp-gateway.service.ts:249-270`) until the next connect: the last case of `ConnectedOrConnecting`.
- The handlers of two events write past each other, and a logout does not wait for a `saveAuthState` in progress: `upset` above.
- A handler that finds the row missing disposes of the runtime in the map, which may be that of the next connection if the handler outlives the reconnect timer: that connection, while it is created, survives in a runtime outside the map and reconnects once more (`Straggling` in `DeletedStops`).
- Two dumps of one second share a file, and a listing may remove a dump that has just ended: `unlucky` above.
- `ensureConnected` is outside the `try` (`worker.processor.ts:49`), so a job whose last attempt fails there leaves its message queued.

Every property of a passing run has a mutant: a definition changed the way a plausible bug would change it, with which TLC finds the property violated.

### Bounds

- `Overlap`: event handlers in progress at once. Two, the least that can cross, in `gateway_restore` and `gateway_report`, whose properties are about what handlers write. One in `gateway_use` and `gateway_pairing`, whose safety properties are about sockets and promises: a handler changes those only in its first step, and in its last when it arms a timer or disposes of a deleted session's runtime. They are proved for every number of handlers.
- `MaxConns`, `MaxRuntimes`: a socket that supersedes another is the smallest case in which any of the socket properties can fail, and each of their mutants does within these bounds. In `gateway_restore` the two sockets are one that is lost, logged out, or left by a restart, and its successor; `DeleteSession` leaves room for one more. Liveness conclusions name the states where the bound is used up (`OutOfBounds`; `Down` with no connection left in `Reconnects`).
- `gateway_pairing` asks nothing of the stores' contents. Its view leaves out Redis, which the gateway only writes, and keeps of the stored status, the credentials and the QR code what its steps ask: whether they say connected, whether there are any. Redis keys expire in it and in `gateway_restore`.
- Two messages share the worker and the counters and nothing else. Two attempts suffice for a retry, a last attempt and a failure after delivery; `pipeline_one` has the code's three.
- `services`: the three parts share no state, so `scene` chooses one and their state spaces add up instead of multiplying. Two requests, because the flag admits one operation and a listing beside it; three events, which include the requests that are no listings, so that a dump, a second operation and a fault or a workflow's run meet. `MaxSeconds = 1` has two seconds: dumps that share one and dumps that do not, and one that outlasts its own. Retention 1 makes pruning choose as soon as there are two files. A limit of 2 in a window of 2 ticks suffices for twice the limit around a boundary; a capacity of one bucket makes every new window clean the map. Five failures overflow a list that keeps three.
- `frontend`: two requests in flight are the smallest case of an answer that overtakes another, and of a poll beside an action. Two changes tell old, newer and newest apart. The bound on requests in flight can keep a poll from being sent, which the fairness makes up for.
- Three requests, three threads: each pair of operations with a third to prepare the state. Threads are interchangeable, hence the symmetry.

### Fairness

In the gateway: the event loop runs a continuation that is ready (socket creation, handlers, timers, jobs, restore), and a ws that was closed reports its close. Nothing is assumed of WhatsApp, the phone, administrators or new requests. In the pipeline: the worker goes on with its job and takes the next one, which BullMQ's worker loop does, and QueueEvents delivers its events. Faults, crashes and requests are never forced. The accounts have no liveness property: a request ends or fails by itself. Backups: the backend goes on with each request (`RequestStep`), as its event loop does when a program or a file operation has ended; that `pg_dump` and `pg_restore` end is assumed. Rate limit: time passes. Frontend: the backend serves what it gets and answers arrive (weak fairness for each request); the browser's timers fire. The timers have strong fairness because `setInterval` waits for no request: in the code a poll is always sent, in the model it may find no room among `Calls`, again and again, which is the bound's doing and not the program's. Clicks, changes, losses and events are never forced.

## Proofs

`MessagePipeline_proofs`: `Invariance` proves the inductive invariant `Inv`. It adds to the types what a message's delivery count, tries, attempts and row have to do with where the worker is: past `send` the message has been delivered, past `log` the row has its result, a job that is not active has no worker on it. `SentMeansDelivered` alone is not inductive, since `UpdateLog` writes `sent` because of where the worker is. From `Inv` follow `TypeCorrect`, `SentIsDelivered`, `CompletedIsLogged`, the action property `ResultStays`, and `Refinement`: each action maps to a step of `MessageDelivery` or a stutter. `CountersAreRows` needs more: while nothing has failed, a row with a result belongs to a job that will not be tried again, and each counter is the number of rows with its status but for the one row the worker has written and not yet counted (`CountInv`). A counter that is merely bounded by the rows would not be inductive, since `BumpUsage` adds one without looking at the row.

`SessionGateway_proofs`: `GatewayInvariance` proves `GatewayInv`, which is `TypeOK`, `PromisePending` and `Bookkeeping`: every creation is of a runtime that was entered, no creation's generation is ahead of its runtime's, and two creations on one runtime have different generations. `AtMostOneListener` follows because a socket is listened to only when its generation is its runtime's. Assumed are only `GatewayAssumption`, the types of the constants.

`SessionGatewaySockets_proofs` adds what a runtime's status says of its socket, first saying of each action what it does to sockets and runtimes (it starts a creation, ends one, opens or closes a socket, disposes of a runtime, or nothing), so that the invariants are proved once per such change. `SocketInv`: a socket that is listened to has a runtime that holds one, and a runtime that says connected without a socket is being given one by its newest creation, or that creation has failed; hence `ConnectedHasSocket`, whatever calls fail. `AloneInv`: every creation is its runtime's promise, the socket that is listened to is the one the runtime holds, and what says connected is open; hence `CreationsAreSingle` and `ConnectedSocketIsOpen`. It holds until the first QR job is asked for (`NoQr`), since the forced connect of that job is exactly what does not join the promise; the runs that check `SingleFlight` and `ConnectedIsCurrent` have no QR job either. Neither depends on `Overlap`.

Its second part is about a session that no job uses: before the first job is asked for (`NoJobs`), only timers and the restore connect it. The steps are first sorted by what they do: begin a connection, handle an event of one, or neither (`Calm`). `ChainInv` then says that the connections follow one another: only the newest is alive, is being closed after a loss, or has a timer, and only one of these; none does before the restore or after a logout. It holds however handlers overlap and whatever fails (`LoneInvariance`), and gives the half of `LogoutIsFinal` that is about timers and creations (`LogoutEndsTheChain`). The rest, `StoresAgree` and the removal of the credentials, is about what handlers write, of which any number may be in progress and fail (`StoresInvariance`). `InPlace` says that the connection under way is of the runtime in the map, is listened to, and has left no QR code standing, so that its `connecting` event is told too; `Saves` which handlers there are and which of them save credentials. With them `TruthInv` is inductive: as long as `upset` allows it, `Told` says that the stores agree and nobody tells, or that one handler tells what the runtime says and has written what its place shows, and `Forgotten` that after a logout the credentials are gone, or its handler has still to delete them, and nobody saves. Hence `StoresTell` and `LogoutHolds`, with no assumption on `Overlap` or on failing calls.

`Accounts_proofs`: `AccountsInvariance` proves `AccountsInv`. A request checks and writes in different calls, and others run in between, so no property of a request is inductive by itself. `ThreadInv` says what a thread may still rely on at each call: past the check of the parent admin its target was once there and is managed by its account or by nobody any more; the keys and sessions it scanned are those of its targets; the version it read is not ahead. `Stable` says how the data may change under a thread (managers only go, versions only grow, keys go with their user, who does not return), and `StableThread` that this is enough. With `Unmanaged`, `LinksBehind` and `Whole` (a user is complete, or the request that inserted it goes on) there follow `AccountsTypeCorrect`, `NothingIsLeft`, `UsersAreComplete` and the action properties `TenancyHolds` and `RevocationIsFinal`. Assumed is `AccountsAssumption`.

`ActiveKeysAreBounded` has to say why overlapping requests cannot leave more active keys than there are requests, though one thread may run many. A request that is about to commit an active key has scanned keys that it will block: it spares only those that came or were made active later. `Room` is about every set of active keys and every group of such requests that will all spare it: together they are no more than the threads. A commit adds a key and takes its thread out of the group; a scan puts a thread into groups that spare nothing it saw, of which it has room because the active keys it saw are all the active keys there are. The set of threads must be finite and not empty.

`Backups_proofs`: `BackupInvariance` proves `BackupInv`. Types and the flag's owner are not enough for `SafetyHolds`, since a listing removes files several awaits after it chose them. The invariant adds (`RequestOK`) at which calls a request of each kind can be, that from the start of its safety dump a restore still has the dump's directory entry and a name of the safety kind, and that the dump is complete once `pg_restore` runs; and (`WorkflowOK`) that a workflow writes only to files of its own. The types already say that no listing has a safety dump in hand. From it follow `BackupsTypeCorrect`, `OperationsExclude` and `SafetyDumpHolds`, for any retention and dumps of any length. Assumed is `BackupAssumption`.

`CreatedBackupsAreComplete` and `LastBackupIsKept` follow from `DumpsInv`, which says of each file that is not `unlucky` what the code makes sure of: only one writer has it (`ApartOK`), once complete no listing is about to unlink it (`FileOK`), it is incomplete while it is written (`WritingOK`), a creation's file is its own or gone (`CreatesOK`), and once made it is complete, found by the creation's own listing with its time and not to be pruned (`MadeOK`, `FoundOK`). A creation that prunes therefore keeps a complete file, its own, and the only other step that removes one is a request to delete. Nothing is assumed of time, the workflow or the retention.

`Monitoring_proofs`: the invariant is that the heartbeat of a running worker is exactly as old as its timer is run down and late, and that of a dead one at least as old as it is dead. `HealthIsTold` follows by `MonitoringAssumption`, `LatestAreKept` from what `Push` does to the list.

`RateLimit_proofs`: `RateIsBounded` counts what passed in the last `Window` ticks. While a window is open, what passed since it began is counted in it, up to the limit; what is older is at most the limit, and once more the limit for each restart, since a restart forgets the window (`WindowOK`). When the window is over its own passes become the older ones, and those before it have left the interval: so twice the limit is the bound and not more. Removing buckets from a full map is harmless, because only those go whose window is over.

`Frontend_proofs`: `ActionsAreShown` needs as an invariant only that no answer that is there is older than what it was sent after: `rev` never falls, and an answer is made of the `rev` it is served at. `FrontendInvariance` proves `FrontendInv`: the types of the pages, that nothing is in flight or waited for between two pages, and `ButtonsAwaited`. The last is inductive because a click both disables a button and sends, an answer both enables and ends, and a page that is left drops both.

Only model-checked: liveness (`JobsFinish`, `Reconnects`, `DeletedStops`, `JobsSettle`, `OperationsEnd`, `NoLockout`, `UserPageCatchesUp`, `PortalCatchesUp`), which the prover does not handle under fairness. Every other property of the passing runs is a theorem; `StoresAgree` and `LogoutIsFinal` are proved of a session no job has been asked for, which is what the run `gateway_restore` checks, and `SingleFlight` and `ConnectedIsCurrent` until the first QR job. The models have no recursive definitions, so nothing needed induction over data.

## Not modelled

- Mock mode, configuration, DTOs, seed, build files and proxies: they hold no state whose interleavings matter.
- Reports and usage queries: reads without state of their own. ("Sent Today" of the summary counts all days; that is a wrong query, not a wrong interleaving.)
- Authentication: tokens, cookies and the CSRF header are checks of one request alone. The login form, layout, search and notices of the frontend.
- Requests of API clients and portal visitors against the accounts: the API-key guard's two calls, and the portal's check, which ignores a blocked parent admin.
- Gateway and pipeline in one model: the state space is beyond TLC in reasonable time.
- The rate limit is per process. The blueprint speaks of Redis; the code keeps a map, and the model follows the code.

## Plan

Done: the gateway, the pipeline, the accounts, the backups, rate limit, monitoring and frontend, with the proofs above. What would add most next:

1. Accounts: requests of API clients and portal visitors, creation failures and their leftovers.
2. Proofs: the gateway's `LogoutIsFinal` for a session that jobs use, which the QR job's own reset has to be brought into.
3. The composition of gateway and pipeline, in which `sendText` is the gateway's thread.
