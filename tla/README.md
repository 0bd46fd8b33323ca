# Verification of grok-register-web

TLA+ models of the registration system in `src/`: what its database, its worker
threads and its task control promise, checked by TLC on small instances and, where
marked, proved by TLAPS for every value of the constants.

`PROJECT.json` lists, for every definition, the source lines it models (`map`), the
runs, the mutants that show each property can fail, the hazards and the findings.

## 1. The system

A Flask application registers accounts at a remote service. It owns mailboxes
(Microsoft accounts with plus-aliases, or temporary mailboxes), and each registration
consumes one alias. A task runs up to ten worker threads; every worker claims an
alias under a lease, signs up, reads a verification code from the mailbox and commits
the SSO token it obtained. Tokens are then delivered to other services.

| Component | State | Operations | Hard because |
|---|---|---|---|
| Registration database (`core/database.py`, `core/failure_policy.py`) | tables accounts, aliases (status, retry, lease owner and expiry), registrations, sso_identities, settings | claim, renew, release, create, commit, abort, finish, skip, disable, recover, operator edits; every transaction holds `_write_lock` | leases expire under live workers; a crash between any two transactions; retries must neither lose nor repeat an alias |
| Registration workers (`core/register.py` browser, `core/registration/protocol_worker.py` HTTP) | thread-local position in the loop, lease heartbeat | loop, claim, round, commit, exception handler with seven branches | anything may happen between two transactions of a round; handlers run late |
| Task control (`core/registration/state.py`, `api/register.py`) | start lock, engine thread, pause event, stop flag, counters, provisional and active slots | start, pause, resume, stop, reserve, publish, count, clear, wait | three kinds of pause gates; flag and event are set separately; the slot must be given back on every way out |
| Mailboxes (`core/email_manager.py`, `core/mail_providers.py`) | known-message sets per API, request-slot lock, provider sessions | claim alias (provision a temporary mailbox in between), ask for a code, poll for it over Graph, Outlook, IMAP or a provider's API | several aliases share a mailbox; mail is late, lost, stamped early, and its recipient rewritten; known ids are shared and trimmed |
| Delivery (`core/grok2api_retry.py`, `core/grok2api_client.py`, `core/sub2api_client.py`, `core/cpa_export.py`) | delivery columns of registrations, chat-probe counters | upload in the round, durable retry thread, finish, stale claims | two uploaders, a late answer overwrites a newer one, restart with a half-done upload |
| Signup (`core/registration/backend.py`, `signup.py`, `profile.py`, `turnstile.py`, `core/browser.py`, and the two workers) | the HTTP session's cookie jar, the browser and its cookies, what each object believes of the browser | bootstrap, one signup step after the other, solve Turnstile, read the SSO, reset or recycle | an identity is carried by a jar, a browser or a tab from one round into the next; browsers die, or start although start() raised |
| OAuth import (`core/oauth.py`, `api/accounts.py`) | one local callback server, its thread and timer, one client id | start, callback, timeout | the handler shuts its own server down; an old timer meets a new session; the client id changes under a callback |
| Turnstile solver (`services/solver_manager.py`, `services/turnstile_solver/`) | child process, module lock, failure counter; browser pool, coroutines, results | start, stop, restart, start at boot, stop at exit; submit, solve, poll | health checks and the managed port outside the lock; browsers that disconnect; errors at every await |
| Batch reactivation (`core/batch_activation.py`, `core/account_activation.py`) | one browser; shares the start lock and task state | clear, switch identity, wait at Cloudflare, accept terms, set birth date | pause and stop between accounts; a wait without a deadline |
| Login (`core/auth.py`, `api/auth.py`, `core/web_security.py`) | failure windows and lockouts | login, throttle | sliding-window boundaries |
| Settings, results, live updates, web interface, packaging | settings table; files | validation, export, presentation | — |

How they interact: the API calls the task control, which starts workers; workers call
the mail manager, the signup backend and the database; the database serialises all
writes of workers, operator endpoints, the retry thread and startup; the task state is
shared by workers and request threads. A restarted process finds only the database.

What makes them correct, component by component:

* database: a lease belongs to one worker; a late loser changes nothing; an SSO
  identity is recorded once; an account yields no more than its limit; a crash or an
  expiry loses no success and leaves no work unclaimable; disabled and deleted accounts
  stay quiet;
* task control: one task at a time; `max_rounds` is neither exceeded nor missed; no
  slot leaks; a stopped task ends; the start lock is held only for a live task;
* delivery: nothing undelivered is forgotten and nothing is recorded that did not happen;
  a delivered token stays delivered; a token is not uploaded by two threads at once unless
  a limit ran out; every enabled delivery is settled in the end; counters count each
  registration once;
* signup: an alias is recorded with the account made for it, and no other; terms and birth
  date are set for recorded accounts only; browsers are neither leaked nor started where
  they must not be; a stop is honoured;
* mailboxes: a code is used for the alias it was sent to, never an old one, and a round's
  own mail is found;
* OAuth: the port is given back, a token is stored with its own client id;
* solver: a start keeps its child to itself, children and browsers are not lost, and
  whoever waits is served.

## 2. Modules

| Module | Models | Remarks |
|---|---|---|
| `RegistrationLedger` | what the database promises its users: an attempt is opened once, settled once, and an identity belongs to one attempt | abstract; nothing about aliases, leases or threads |
| `AliasLease` | the four tables, every transaction of the registration cycle, both worker loops, the lease heartbeat, crash and startup, operator edits | implements `RegistrationLedger` (`Ledger`, `LedgerSpec`) |
| `MCAliasLease` | symmetry for TLC | |
| `AliasLeaseTypes` | proof of type correctness and the row lemmas | |
| `AliasLeaseProofs` | proofs of the safety theorems and of the refinement | |
| `RegistrationTask` | start lock, engine thread, `RegistrationState`, pause/resume/stop, worker loop with gates and slots | rounds reduced to the ways they end |
| `RegistrationTaskProofs` | proofs of capacity, slots, target and exclusion | |
| `Delivery` | the delivery columns of the registrations table, the upload of the worker that committed a registration, the retry thread, time, restarts | stands beside `AliasLease`: a registration enters with its commit |
| `MCDelivery` | pairs of an engine and enabled backends for TLC | |
| `DeliveryProofs` | proofs of the safety properties of `Delivery` | |
| `BrowserSession` | `BrowserManager`: what each call does to the window, the identity in its cookies and the processes nobody manages, as sets of outcomes | no variables; used by the next four |
| `SignupRound` | what the kinds of worker share: the round, its lease, the records, pause and stop, the environment | |
| `ProtocolSignup` | the protocol worker's round and transport, pure HTTP or through `fetch()` in a browser | |
| `BrowserSignup` | the browser worker's round | |
| `BatchActivation` | the reactivation of earlier accounts | |
| `Signup` | the three composed, with the properties | one worker thread at a time |
| `SignupProofs` | proofs about `Signup`: whose identity a worker carries at each step, for whom terms are set, who manages its browser | |
| `SolverManager` | `solver_manager.py`: threads, lock, processes, ports | |
| `SolverPool` | `api_solver.py` and its clients: pool, coroutines, results | |
| `SolverService` | the two composed: a server's pool lives and dies with the process that listens | |
| `SolverServiceProofs` | proofs about `SolverService`: the manager, the pool, and the pool's invariant carried over the start and end of its process | |
| `VerificationMail` | `email_manager.py`, `mail_providers.py`: from the request of a code to its use | |
| `VerificationMailProofs` | proofs about `VerificationMail`: what known ids say of a round's mail | |
| `OAuthFlow` | `oauth.py`: requests, the callback server, its thread, timers and callbacks | |
| `OAuthFlowProofs` | proofs about `OAuthFlow`: who still refers to a server | |
| `MCSignup`, `MCSolverService`, `MCVerificationMail` | configurations, tuples and symmetry for TLC | |

### AliasLease

`accounts`, `aliases`, `registrations` and `ledger` are the tables; `aliasLimit` is
the setting `max_aliases_per_account`; `mode`, `task`, `maxRetries` and `stopped` are
the process and its task; `worker[w]` is the local state of a worker thread.

One transaction is one step, since every writer holds `Database._write_lock`. What a
worker does between two transactions takes arbitrarily long. Time is reduced to what
the transactions compare: a lease is live or expired, completion times are ordinals.
SSO tokens are model values; the fingerprint of a token is the token.

| Code | Actions |
|---|---|
| `_run_worker` loop head, stop flag | `TopOfLoop` |
| `claim_next_alias` (recovery of expired leases included) | `ClaimReadyAlias`, `MintAlias`, `ClaimNothing` |
| `create_temporary_account` between two claims | `ProvisionMailbox`, `ProvisionFails` |
| `create_registration`, and its failure | `CreateRegistration`, `CreateRegistrationRaises` |
| the signup | `SignupReturns`, `SignupRaises`: every outcome the handler tells apart |
| `find_existing_sso` | `CheckDuplicate` |
| `complete_alias_success`, or its exception | `CommitSuccess`, `CommitRaises` |
| exception handler | `HandleLeaseLost`, `HandleAbort`, `HandleExisting`, `HandleDuplicate`, `HandleFailure`, `HandlerRaises` |
| `_lease_heartbeat` | `Heartbeat`, `LeaseRunsOut` |
| start, stop, end of a task | `StartTask`, `StopTask`, `EndTask` |
| process death, `init_database` + startup recovery | `Crash`, `Boot` |
| endpoints | reset, delete and import of accounts, clearing of results, alias limit |

The constant `ChecksLease` distinguishes the protocol worker, which watches its
heartbeat, from the browser worker, which does not. `Hazards` names what may happen
around the workers in a run; each run says which.

### RegistrationTask

`locked`, `parsing` and `engine` are `_register_lock`, a start request in progress and
the engine thread. `status`, `resumed`, `stopFlag`, `completed`, `provisional` and
`active` are fields of `RegistrationState`; `target` is `max_rounds`. `asleep` holds the
threads blocked in `_pause_event.wait()`: setting the event wakes them even if it is
cleared again before they run, and that is what `Woken` does. `call[c]` records that a
request has done the first of the two critical sections of `pause`, `resume` or `stop`;
`pc[w]` is the place of a worker thread.

A method that holds the state's lock is one step; `check_pause` is one step that passes
or falls asleep; `wait_for_next_round` is a loop of five places. A round is reduced to
counted (success, terminal failure, skipped), uncounted (retry, lost lease, absorbed
exception) or the end of the thread, each possibly with `stop()` first. The first
pause gate of a round stands for all of them. What is not reduced: where the slot is
taken, turned into an active one and given back on every way out, `break`s and
`finally` blocks included.

### Delivery

`rows`, `status` and `age` are the registrations with status `success`, their two
delivery columns and the time since those were written. `step[r]` and `verdict` are the
place of the worker that committed `r` and what it is going to record; `stage`, `target`,
`queue`, `answer` and `left` are the retry thread: the backend it works for, the records
it claimed and has not finished, the answer of the current one, and the time until the
next run. `engine` and `enabled` say which engine runs and which of CPA, Sub2API and
grok2api are enabled; they do not change. `accepted`, `denied`, `late`, `overlap`,
`marred` and `counted` are history: they are written and never read by an action, except
that a handler that raises for the second time is recognised by `marred`.

| Code | Actions |
|---|---|
| `complete_registration_success` (its delivery columns) | `Commit` |
| `begin_grok2api_upload`, `begin_sub2api_upload` | `BeginGrok`, `BeginSub2`; `BeginRaises` |
| `upload_registered_sso` for all enabled backends | `Send`, with `Raises`, `FirstError` and `VerdictOf` for what is raised and what is recorded |
| `_apply_delivery_result`, `_apply_delivery_error` | `FinishGrok`, `FinishSub2`; `FinishRaises` |
| the same calls in `RegistrationEngine`, where the methods do not exist | `HandlerMissing` |
| `record_success` | the update of `counted` |
| `run_once`, `claim_grok2api_retries`, `claim_sub2api_retries` | `Wake`, `Claim`, `ClaimNothing` |
| `upload_registered_sso(only=...)` and the write after it | `RetrySend`, `RetryFinish` |
| an error in a write of the retry thread | `RetryAborts` |
| `delete_registrations`, process death and restart | `Delete`, `Crash` |

Every write holds the database's lock and is a step; an upload is a step that may come
arbitrarily late after its `begin`. The 30 s of a retry, the 60 s between two runs and the
300 s of a stale upload are constants counted in ticks, and ages stop at the largest.
An upload is one answer per backend; grok2api may deny, the others accept or fail.

### Signup

A behaviour of `Signup` is one worker thread: `config` chooses its kind, whether
`allow_browser_fallback` and an external solver are set, and which faults may happen.
`chrome` is its browser: the window its `BrowserManager` holds (none, live, dead), the xAI
identity in its cookies, and how many browsers run that no manager knows. `net` is the
protocol worker's transport: the identity in the session's jar, `_pure_http`,
`_browser_started`, the provider's `_started`, and whether the backend reads cookies from
the browser. An identity is named by the alias its account was made with, so
`recorded[a] = a` says that the record of `a` holds its own SSO. `chrome.kept` is what the
sites keep in the browser where the browser worker looks when the cookie is not there: the
localStorage of the page, whose first entry with "sso" or "token" in its key passes for an
SSO. It may be an identity or one of `Tokens`, values that are nobody's (`SiteStores`); the
cookie may arrive only after the look (`CookieArrives`); and recycling the browser may leave
it, as grok.com's storage is not cleared when a Cloudflare context is kept (`Recycled`). `round` is the round at
hand, with its lease as the worker sees it: held, lost, or lost and noticed by the
heartbeat. The database is reduced to that and to the records; its own rules are
`AliasLease`.

| Code | Actions |
|---|---|
| `_prepare_transport`, `_shutdown_transport` | `BootsPure`, `BootBlocked`, `BootsHybrid`, `ProtocolLeaves` |
| start of a protocol round: new session, cookie clearing, `_ensure_browser_ready` | `OpensPure`, `OpensHybrid` |
| `send_email_code`, verification, `submit_signup` | `SendsCode`, `VerifiesCode`, `SubmitsSignup` |
| `_solve_turnstile` | `SolvesExternally`, `SolvesInBrowser`, `FailsToSolve` |
| `extract_sso` | `ReadsCookie`, `FollowsOverHttp`, `Navigates`, `FindsNoSso` |
| `_post_success_init`, failure handlers | `InitsAccount`, `HandlesFailure`, `ProtocolHandlerFails` |
| the browser worker's steps | `OpensSignupPage` … `ExtractsSso`, `ActivatesNewAccount`, `RecyclesBrowser`, `BrowserHandlesFailure` |
| one reactivation | `BeginsActivation`, `SwitchesIdentity`, `PassesChallenge`, `InitsHistoricAccount`, `EndsActivation` |

### SolverService

In `SolverManager`, `lock` is the module's `_lock`, `call[t]` the position of a thread in
`start`, `stop` or `restart`, `proc`, `owned`, `managed` and `failures` the module's
globals. `life`, `portOf` and `listen` are the operating system's view of the children.
`start` holds the lock from its first check to its return, so the steps under it are
exclusive; `restart` is a stop and a start with nothing held between. In `SolverPool` a
coroutine takes a browser, opens a context, solves in up to some attempts, and returns the
browser in a `finally`; each `await` between these is a place for the others. `Home` is the
port the clients know; whatever process binds it is their server.

### VerificationMail

`mail[b]` is a mailbox, oldest first; `travelling` is mail that was sent and may arrive at
any later time or never. A message shows its recipient exactly, rewritten to the mailbox's
main address, or not at all, and may show it only at a later look. `seen` are the ids kept
between calls, per API; a round copies them when it opens its mailbox (`known`) and writes
them back at its end. A look is one step: the newest messages, less the known ones, less
those stamped before the cutoff; then the newest for the alias, or the only ambiguous one.
Microsoft accounts are read over Graph or Outlook (`graph`), or IMAP; `temp` is a temporary
mailbox, which has one address.

### OAuthFlow

`server`, `serving` and `client` are the manager's `_server`, `_server_thread` and
`_current_client_id`. A call of `start_authorization` is refused or takes over the client id
under the lock (`Checks`), and binds the port (`Binds`) and starts its thread and its timer
(`Launches`, `Starts`) without it. The calls overlap, so `thread[n]` and the timer `n` belong
to the call that made server `n`, but a call starts whatever thread `_server_thread` is by then
(`Starts`; the call whose thread another one started raises, and arms no timer), and a thread
serves whatever `_server` is when it gets there (`Serves`). `closer` holds the threads inside `_shutdown_server`: timers, threads that handle
a code, and serving threads whose handler met a request without a code. `asked` and `down`
are the two flags of `serve_forever`: a shutdown was requested, and a loop has ended, so that
`shutdown()` does not wait. A server's port is free again once nothing refers to the server,
as nothing calls `server_close()`.

## 3. What the runs show

Bounds are in the .cfg files. Two workers suffice for a race for one lease, since a
transaction involves one worker and the tables, and for a slot: with a target of one, two
workers compete for it; a target of 0 is none.

| Run | Question | States |
|---|---|---|
| `AliasLeaseRace` | two protocol workers, one account with two aliases, leases that expire under live workers, process deaths: do late losers ever spoil the winner's work? Is the alias budget kept across restarts? Does anything claimable or pending stay behind? | 463 642 |
| `AliasLeaseCrash` | browser workers on temporary mailboxes provisioned between two claims, process death between any two transactions, restart into a second task, stops, SQLite errors in handlers, deleted accounts: do successes and used aliases survive, is an identity recorded once, and does no claimable mailbox stay behind? | 547 325 |
| `AliasLeaseOperator` | accounts imported and reset, results cleared, the limit changed under running workers: are leases exclusive, records backed, disabled accounts quiet? Do accounts follow the limit when it moves? Does the system implement its ledger? | 531 521 |
| `AliasLeaseDrain` | does a task left alone end, and is every lease released? (liveness) | 36 935 |
| `RegistrationTask` | two workers for one round or without a limit, two request threads that pause, resume and stop in any order, failing starts, bad requests and database errors: is the target neither exceeded nor missed, does no slot leak, is there one task at a time, and does a stopped task end unless it is paused again? (liveness) | 556 261 |
| `DeliveryRecovery` | one registration from commit to last retry, slow uploads, a failed write or answer, a crash, a deletion: is every delivery accounted for, do worker and retry thread meet only behind a limit or an error, does a settled delivery stay settled, and does everything get to its backend and into the count? (liveness) | 361 576 |
| `SolverService` | two ports, up to two children; the threads of boot, settings page and exit at their busiest, or boot and exit around one client, or two clients of a server that may crash: does a start keep its child, are children and browsers never lost, is whoever waits served? (liveness) | 83 842 |
| `SignupIdentity` | a worker of each kind, two aliases, three rounds, nineteen combinations of settings and faults, sites that keep a value where the SSO is looked for, stops and pauses in any order: do account, alias and record belong together, are browsers accounted for, is a stop honoured? (liveness) | 536 829 |
| `SignupStaleIdentity` | does each signup start without a prior account's SSO? **violated**, see findings | — |
| `VerificationMail` | two workers, one mailbox with its main and a plus address, each API, mail that is late, lost, rewritten, stamped early: does a code go to its alias, once, and is no mail overlooked? | about 2.4 million |
| `VerificationMailBurned` | two mailboxes over IMAP: are known ids only a second line of defence? **violated** | — |
| `OAuthFlow` | two requests with two client ids that may start each other's threads, three servers, a callback, requests without a code, timers of earlier servers: is the port released, does a token match its client id, does a server end by its timeout? (liveness) | 385 579 |

Each property of a passing run has a mutant of the code that breaks it (`mutants` in
`PROJECT.json`; the mutated operators stand before the ones they replace).

Named bounds: `MaxIndex` (highest alias index; with `FailureBudget` it is large enough
for the largest alias limit, an assumption TLC checks), `MaxRegs` (rows ever inserted;
three to nine, so that a retry, a duplicate and a terminal failure fit),
`MaxTasks` (two where a crash is followed by a new task), `MaxCompleted` (in an unlimited
task, claims find nothing after so many counted rounds; it is at least every target, so
that it never hides an overrun). `Drain` has so many registrations that the bound is not
what ends the task: each claim raises a retry count or settles an alias, and two aliases
with two retries end before nine rounds. In `Delivery`, `MaxFailures` bounds the failed
uploads and writes of the retry thread and `MaxCrashes` the restarts; the errors of the
worker bound themselves. One registration is enough for `DeliveryRecovery`: registrations
share only the order and the size of a claim; the theorems hold for batches of any size. A
tick stands for the 30 s of the retry delay in both; the other limits are chosen with
30 s <= 60 s <= 300 s, and equal where the order does not matter.

`MaxRounds` (`Signup`: three rounds, so that an identity can be left, carried over and met
again), `MaxOrphans` (unmanaged browsers are counted up to one: none or some). `MaxCalls`
(one call per thread of the settings page; boot and exit make one each), `MaxFailures` of
`SolverManager` (the code's constant, one instead of three; the code counts on beyond it, but
only asks whether it is reached, so `OneMore` stops there), `Budgets` (the threads that call and the tasks submitted in one behaviour: both at their most would only multiply the states, as they meet in the server's start and end alone).
`MaxRequests`, `MaxMail`, `MaxPolls`, `MaxTime` and `MaxSkew` of `VerificationMail` (two
requests and two messages are the least that can be confused); `Window`, `SeenLimit` and
`SeenKept` stand for 25 to 40, 2000 and 1000, so small that trimming happens. `MaxServers`
and `MaxCallbacks` of `OAuthFlow` (three servers: an old one, the current one, and the next that
the late timer or callback of the old one meets; one callback, as a second only shuts down what
the first would).

No run checks deadlock except `DeliveryRecovery`: a task may have ended for good, a process
may have spent its tasks, rounds and calls. Where that must not be the end of the story a
property says so (`WorkIsAccounted`, `TaskDrains`, `StopEndsTask`, `WaitersAreServed`,
`StopIsHonoured`, `ServerEnds`).

### Fairness

A thread runs on as long as its process lives, and its remote calls have timeouts: weak
fairness of `WorkerStep(w)` in `AliasLease` and `RegistrationTask`, of `Worker` in `Signup`,
of `WorkerStep` and `RetryStep` in `Delivery`, of `CallerStep(t)` and `ServerStep(t)` in
`SolverService`, of the calls past the port, the serving threads and the shutdowns in `OAuthFlow`. `run()` joins its
threads and releases the lock in a `finally`: weak fairness of `EndTask` or `EngineStep`. A
request that has executed its first critical section executes the second: weak fairness of
`CallEnds(c)`. Timers fire (`TimerFires`) and time passes (`Tick` of `Delivery`).

Nothing obliges anybody to start, pause, resume or stop a task, to submit or authorize
anything, or to solve a Cloudflare page (`Signup` excludes that step from its fairness). No
outcome of a signup is fair, no solver process has to come up, end or write, no mail has to
arrive (`VerificationMail` states no liveness). `Drain` excludes lease expiry and operator
edits, which can hand out new work for ever. Nothing obliges a backend to accept: what
`Delivered` asks is bounded by `MaxFailures`, so it says that after the last failure the
code itself brings the delivery home. Errors of SQLite, crashes and deletions are not fair.

The liveness properties name the waits that have no end: `StopEndsTask` and `StopEnds` threads
that are paused after the stop, and `StopEnds` a reactivation before a Cloudflare page; `StopIsServed` a `start()` that reads the stderr of a silent child;
`QueuedIsServed` a pool whose browsers are all gone; `ServerEnds` a server that waits for
itself.

### Findings

* **A fallback browser carries an identity into later rounds** (`SignupStaleIdentity`). "Each
  signup must start without a prior account SSO", says the protocol worker, and a pure HTTP
  round has a session of its own. But a pure worker that once needed a browser for a
  Turnstile token keeps it, and none of its rounds clears or recycles it. When a round's SSO
  was fetched through that browser, a later round gets it: with the cookies that come along
  with a Turnstile token, or when it looks for its SSO in the browser. It then ends as a
  duplicate, and the account it made is lost (`NoFalseDuplicate` names this case);
  `DistinctIdentities` holds all the same.
* **IMAP mail of one mailbox hides mail of another** (`VerificationMailBurned`). A message is
  known by its sequence number within its mailbox, in a set for all mailboxes. The comments
  call ids "only a second line of defence behind recipient and timestamp" and want no
  "mismatch" to "burn the only verification message"; message *n* of one mailbox, once known,
  burns message *n* of every other.

### Known limits of the code

Met while modelling and visible in the models, some as exceptions in a property, but not
counted as findings of a run:

* An alias on its extra duplicate retry that is aborted, or whose lease expires, loses its
  category and keeps its count: ready, but never claimable in this task.
* `POST /pause` does not look at the stop flag: a pause after a stop puts workers and the
  reactivation to sleep again, until somebody resumes the stopped task. Both runs have it, and
  `StopEndsTask` (`PausedAfterStop`) and `StopEnds` name it as their exception.
* A start request whose body is not a JSON object, or that meets a locked database, leaves
  the start lock taken.
* Twenty undeliverable registrations keep every later one from being retried.
* `RegistrationEngine` calls two delivery methods it does not have. After an upload its round
  is not counted, its deliveries stay `uploading` until they are repeated after 300 s, and its
  browser keeps its cookies for the next round (`SuccessIsCounted` and `MayCarryOver` except
  this case).
* A protocol worker whose bootstrap fails leaves without `_shutdown_transport`; `start()` of a
  browser that raises may leave a process behind (`NoBrowserLeft` asks for starts that work).
* The browser worker takes any localStorage entry whose key contains "sso" or "token" for the
  SSO. Where a site keeps such a value, an account is recorded with it, or its round ends as the
  duplicate of an earlier one (`RecordsOwnIdentity` and `NoFalseDuplicate` name this case,
  `MayBeKept`, and say what may be recorded then: something that is no SSO at all, or the SSO of
  an alias that was recorded before).
* A pure worker never recycles a fallback browser that died, so every further fallback of it
  fails. When its session is rebuilt, the Cloudflare cookies it means to take along are not
  taken: iterating curl_cffi's cookies yields names.
* A paused reactivation begins one more account when it is stopped (`AtMostOneLate`), and
  waits at a Cloudflare page without a deadline.
* `solver_manager.start` holds its lock while it reads the stderr of a live child after a
  timeout; `stop` and the end of the application wait. A start on another port, or after a
  health check that was missed, writes over `_proc`, and the earlier child stays
  (`LostOnlyToANewStart`). A client polls on after `CAPTCHA_FAIL`; a disconnected browser is
  never replaced.
* Late mail of an earlier request for the same alias that is stamped within the tolerance is
  accepted. Over Graph and Outlook a code message is known after one look, even when its
  recipient did not match yet.
* A callback without a code makes the thread that serves it wait for itself; until the process
  ends, every authorization is refused as already in progress. The timer is never cancelled and may
  end a later server. `_server_thread` is set and started without the lock: of two calls that
  overlap, one may start the other's thread, which the other then cannot; its server has no
  timer. Of two shutdowns of one server that overlap, the later may clear the
  reference to the next server, which then nobody ends (`ServerEnds` names this case). An account is stored with another client id than its token's when its
  server ended and a new authorization began before the callback was through
  (`TokenMatchesClient` names this case).

## 4. What is proved

All theorems hold for every value of the constants that meets the named assumptions of
the modules. For `AliasLease` that is any set of workers, accounts, identities and callers,
any limit and any subset of hazards, with finite workers, natural limits and an index range
that holds the alias limit plus the failure budget (`ConstantsAssumption`); for `Signup` any
aliases, configurations and number of rounds (`SignupAssumption`); for `SolverService` any
threads, processes, ports, tasks and limits, and a finite set of browsers
(`SolverManagerAssumption`, `SolverPoolAssumption`); for `VerificationMail` any mailboxes,
aliases, rounds, windows, tolerances and bounds, where every mailbox has a main address and a
code is polled for at least once (`MailAssumption`; `email_manager.py` takes the maximum of the
setting and a positive minimum); for `OAuthFlow` any callers, client ids, servers and callbacks
(`OAuthAssumption`). Two theorems about `AliasLease` assume more, by name, see there.

**`AliasLeaseTypes`** — `TypeCorrect`. `TypeOK` is inductive as it stands because
`WorkerState` ties the local fields of a worker to its place: in a round it has an alias,
after `create_registration` a registration, before the commit an identity.

**`AliasLeaseProofs`** — five layers, each on the ones before.

* *Tables*: `OneLease`, `LedgerBacks`, `RecordedOnce`. Most of the 30-odd actions are *calm*:
  they lease no alias, make no alias used and no registration a success, and leave the ledger
  alone. Calm is proved once per operator (`RecoveryIsCalm`, `FailAliasIsCalm`,
  `SettleIsCalm`, ...) and then per action. Two kinds of step remain. A claim leases one alias
  of an account that has none leased after recovery, which is `OneLeasePerAccount`. The commit
  records one identity whose ledger row was free or was its own. `LedgerBacksRecords`, with the
  types, is inductive, and it implies `IdentityRecordedOnce`: two records of one identity would
  both be named by the one row. Uniqueness is therefore due to the ledger insert in the
  committing transaction, not to `find_existing_sso`, whose answer is stale by then.
* *Rounds*: `EditsAreSafeHolds`, from `RoundInv`. A round's registration is its own and no
  success (`RoundOwnsRegistration`), names its alias unless it was deleted
  (`RoundNamesItsAlias`), and is open while the lease lives (`LeasedRoundIsOpen`); no thread
  runs while the process is down (`DownIsOff`), without which a boot could interrupt a round's
  registration; cleared rows keep their ledger entry (`LedgerNamesSuccesses`).
* *Refinement*: `ImplementsLedger`, `Spec => LedgerSpec`. The lemmas sort the steps by what they
  do to the registrations: create one (`CreatedIsNew`, the id is used for the first time), settle
  those of a worker or of expired leases, erase, commit, or leave them alone. A commit refines
  `Succeed` because `RoundInv` says that its registration is pending, and `LedgerBacksRecords`
  that the identity has no other.
* *Budget*: `RecordsSurviveHolds` and, without any of it, `LateHolders`. `LateHolderIsHarmless`
  needs the rounds alone: who lost the lease writes to no alias. `RecordsSurvive` needs
  `WithinAliasBudget`, which counts rows; `BudgetInv` adds to it that leases exist on ready
  accounts only (`LeasedIsReady`) and one per account, since otherwise two commits could share the
  last place of an account, and that deleted accounts have no alias (`NoOrphanAlias`). It assumes
  `LimitIsFixed`: no imports and no change of `max_aliases_per_account`. With either, an account
  may be beyond its limit, or not done although it reached it: the property does not hold then.
* *Work*: `WorkIsAccountedHolds`, from `AccountedInv`, which adds that a pending registration
  names a leased alias (`PendingIsLeased`), the only one that does, and the one of the round that
  holds the lease (`PendingIsTheRounds`). It assumes a worker and `NoEditsNoErrors`: besides the
  above, no reset or deletion, and no SQLite error in a handler, which leaves a registration
  pending that nobody closes (hazard at `protocol_worker.py:219`). Crashes, expiring leases, stops
  and clearing of results remain.

**`RegistrationTaskProofs`** — `TaskTypeCorrect`, `Capacity`, `SlotsHeld`, `OneTask`,
`NobodyGivesUpEarly`. The inductive invariant `IInv` is

* `TypeOK`;
* `SleepersAtGates`: without it, waking the sleepers could send a thread from anywhere
  to anywhere, and slots would no longer fit places;
* `LockPhases`: workers live only while their engine runs, and an engine or a request
  being parsed holds the lock. A new state object, with empty slots, is created only
  when nobody is left who could hold one;
* `SlotsAreHeld`: without it, `Publish` could find its provisional slot gone, and counting
  a round could give back a slot the worker never had;
* `CapacityRespected`.

Steps fall into three groups: those that only move a worker between places of equal
standing (`MovingKeeps`), those that wake sleepers (`CallsKeep`, `UnblockKeeps`), and those
that take or give back a slot (`SlottingKeeps`), where cardinalities are counted.
`NobodyGivesUpEarly` needs `NoneLeftEarly` in addition: once a worker has left as "full",
either all slots are still used up, or some worker is neither full nor unstarted. Only the
worker that gives a slot back can break the first, and it is then the second.

**`DeliveryProofs`** — `DeliveryTypeCorrect`, `Accounted`, `DelayBehindOverlap`,
`ClaimHeld`, `SettledFinal`, for any finite set of registrations, any backends and limits
with a retry delay above zero and not above the stale time. The inductive invariant
`IInv` adds to the properties

* `VerdictIsTrue`: what the worker or the retry thread is about to record is what it
  heard; without it `DeliveryAccounted` says nothing about the next write;
* `CommittedOnly`: a worker whose registration is not committed has no delivery in the
  table or in the retry thread's hands;
* `WorkerOwns`: as long as the two have not met, the row says `pending` while the worker
  waits and `uploading` while it uploads. The claim therefore needs the age of the one or
  the other;
* `WithinLimits`: a worker that is not late is younger than that age, which closes the
  argument of `OverlapNeedsDelay`;
* `SharedIsKnown`: a delivery in the queue that the worker holds too was noted when it
  was claimed; hence the worker's writes do not disturb `ClaimIsHeld`.

The worker's two kinds of writes share one lemma (`WorkerWrite`). `SettledIsFinal` is an
action property and follows from the invariant: neither the worker (`WorkerOwns`) nor the
retry thread (`ClaimIsHeld`) holds a settled delivery, and `Due` does not select one.

**`SolverServiceProofs`** — `TypeCorrect`, `WaiterOwnsChildHolds`,
`LostOnlyToANewStartHolds`, `BrowserHeldOnceHolds`. Two invariants, one per half:

* `ManagerInv` has the types and four facts that need each other. Whoever is past the lock
  holds it (`LockOwner`), so two threads are never inside together. Hence the child a thread
  waits for is `_proc` and was not signalled (`WaitingChild`): a step of another thread would
  have to be inside the lock. The child that `stop` is about to forget was signalled or had
  ended (`ReapedChild`), which is why only a start can lose a running one
  (`LostOnlyToANewStart`).
* `PoolInv` says where a browser is. A coroutine holds one exactly from the queue's `get` to
  the `finally` (`WorkersHold`), nobody waits twice (`QueuedOnce`), no browser is in two
  places (`OnePlace`), and a connected one is somewhere (`SomePlace`). Without `QueuedOnce` a
  returned browser could be handed to a coroutine that already has one.

The composition adds that the pool is empty while no process listens (`NothingWhileDown`), so
a server that starts fills it with browsers nobody holds.

**`SignupProofs`** — `DistinctIdentitiesHolds`, `NoFalseDuplicateHolds`,
`RecordsOwnIdentityHolds`, `StrictOpensNoBrowserHolds`; then `TypeCorrect`,
`MutatesRecordedOnlyHolds`, `AtMostOneLateHolds`; then `BrowsersAreAccountedHolds`. None of the
first is inductive:
what a commit records was read many steps earlier, out of a browser or a jar that earlier
rounds used. `OwnIdentity` says what may be there at each step: where no identity can be
carried over, page and jar hold none or the round's own from the opening of the round to the
extraction, the page of an idle browser worker holds none, and what was extracted is the
round's. The rest supports it: a recorded alias is never claimed again (`RecordedIsUsed`);
the SSO that passed `find_existing_sso` is still unrecorded when it is committed
(`NewIdentity`, which also gives distinct identities where one was carried over); a
reactivation never reaches a commit (`ReactivatesOnly`); what a site keeps in the browser is
nobody's, the round's own, or of an alias on record (`KeptIdentity`, `Known`), so that a value
found there is recorded only in the ways `RecordsOwnIdentity` names (`MayTake`); and a strict protocol worker has no
browser to read from (`StrictTransport`). The proof goes bottom up: what each call of the
browser manager may return (`StartOuts` ... `ClearedSessions`), what each call through the
provider may (`EnsureOuts` ... `ReadyOuts`), then three frames, for a step within a round
(`AdvanceKeeps`), for the extraction (`TakeKeeps`) and for a step between rounds
(`OutsideKeeps`), and one lemma per action that fits it into its frame.

The second group rests on `MInv`, inductive relative to the first. A round has an alias and,
from the extraction on, an SSO (`HasAlias`, `HasSso`; the part `InHand` of `TypeOK` follows),
without which the commit would not be well typed. What `_post_success_init` sets is set for the SSO of the round, which is on record by
then; a reactivation is at the identity of its account when the page is there (`AtIdentity`). An
activation begun after a stop is the last one (`LastIsLate`): its next look at the flag is in the
loop's head.

The third is about processes. `AllManaged` says that where `start()` works there is no browser
nobody manages, none before the transport is booted and none after the end, and that the browser
of a running protocol worker is in the hands of its provider (`HasTransport`): `_started` is set,
so that `_shutdown_transport` does stop it, and cookies are read from a browser that was started.
Without `HasTransport` a worker could leave its loop past a browser its provider has forgotten.

**`OAuthFlowProofs`** — `TypeCorrect`, `PortIsReleasedHolds`, `TokenMatchesClientHolds`. Calls
overlap outside the lock, so the invariant says what belongs to whom: a call that bound the port
has a timer of its own, and a thread that nobody can start before it is kept (`OwnNumber`); a
number not given out has neither (`Unused`). `_server` refers to a server that is served, or will
be by a thread that starts (`Served`), is about to be removed, or whose call goes on to make a
thread or to start the one that is kept by then (`ServerIsCurrent`), and a requested shutdown
is followed by a removal (`AskedIsWatched`); therefore a bound port always has somebody alive.
The client id changes only while the manager's thread is dead (`ClientIsKept`), so a code received
by that thread is exchanged and stored with one client id.

**`VerificationMailProofs`** — `TypeCorrect`, `CodeIsForAliasHolds`, `OverlooksNothingHolds`,
`CodeReturnedOnceHolds`. The sets of known ids carry the last two, in opposite directions: they
must hold what was handed out and nothing a round still needs.

* `Knowledge`: a known id is that of a message that is there, and for a round that waits for it
  alone the message is spent: stamped before the round's cutoff, or shown to Graph or Outlook
  without its recipient. It speaks of the shared set and of each round's copy, and of mailboxes
  whose ids are their own (`Distinct`), which fails for two IMAP mailboxes: that is the finding of
  `VerificationMailBurned`. A look keeps it because what it marks is too old, no code, taken, or
  of a recipient that did not match (`MarkedIsSpent`), and a new request because no mail answers
  it yet (`Tickets`).
* `ReturnedIsKnown`: until ids are trimmed, what was handed out is in the shared set, and in the
  copy of a round that was alone since it opened its mailbox; `AloneIsAlone` makes sure that no
  other round hands out anything meanwhile.
* `RoundShape` has what a round holds at each step, `Tickets` that a request number belongs to one
  alias, which is `CodeIsForAlias` for the exact match.

`CodeReturnedOnce` is an action property: the message found is unknown (`FoundIsNew`), and what
was handed out is known. The choice of the newest message is a `CHOOSE`, so `MaxIsGreatest` shows
by a well-founded argument that a finite set of numbers has a greatest one.

**Only model-checked**: the liveness properties `TaskDrains`, `StopEndsTask`, `SuccessArrives`,
`WaitersAreServed`, `ServerEnds` and the part `StopEnds` of `StopIsHonoured`, with everything about
fairness, which are beyond this prover; and of the action properties `AccountsFollowLimit` and
`StopWakes`. The others are proved. The other way round, the type invariants of `RegistrationTask`, `Delivery`,
`SolverService` and `OAuthFlow` are proved and are no property of a run.

## 5. What is not modelled

* Request building, parsing of pages and mail, HTTP and IMAP, the clicks in a page: outcomes
  of a step, enumerated where the code tells them apart. So are the regular expressions that
  recognise a code.
* The login throttle: one lock around timestamps, sequential code a unit test reaches.
* The chat-probe counters, which feed a dashboard and no decision.
* Schema migrations, and functions nobody calls (`get_next_alias`, `create_alias`,
  `update_alias_status`, `reserve_round`, `set_worker_active`).
* A host that cannot start a thread, or clocks that jump.
* Reads on the shared SQLite connection without `_write_lock` that only feed displays.
* The web interface: it calls the API, whose handlers may run at any time in the models.
* In `Delivery`: settings that change between commit and retry, the HTTP exchange with a
  backend, the attempts counters (written, never read), the `grok2api_probe_status` flag
  and its reset, and the transaction that a failed commit may leave open on the shared
  connection.
* In `Signup`: several workers at once (each has its own browser and session, and what they
  share is `AliasLease`), and Cloudflare cookies.
* In `AliasLease`: a provider that returns an address it has given out before
  (`create_temporary_account` sets that account ready again, or raises for another provider's).
  Addresses are made up at random, so every provisioned mailbox is a new account.
* In `SolverService`: a child that survives its kill, clients of other machines, and the read of
  an ended child's stderr, which finds its end at once (`WaitExited`).
* In `VerificationMail`: mail is ordered by its arrival, as in a mailbox, where Graph sorts by
  the time received; token refresh is an outcome.

## 6. Plan

1. An abstract specification of `Delivery` (a delivery is open, then delivered or denied for
   good), which holds where the worker and the retry thread have not met, and its refinement.
2. An abstract specification of the start lock and the slots of `RegistrationTask` (a task takes
   rounds from a budget and gives them back), refined by it.
3. Composition of `RegistrationTask`, `AliasLease` and `Delivery`: counted rounds against
   committed registrations, several tasks with different `max_retries`.
