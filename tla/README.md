# TLA+ specifications of Team Tasks

Team Tasks is a REST service for tasks in teams: Go, one goroutine per request, MySQL for
rows, Redis for cached task lists, and a mail service for invitations. This directory models
its services as TLA+ state machines, checks them with TLC on small instances, and proves every
safety property that a passing run checks with TLAPS, for every size of the system.

No request holds a lock across its calls. A service method is a sequence of calls to MySQL
and Redis, and the calls of concurrent requests interleave. That is where the hard behaviour
is, so in every service module **one action is one call to a store**, and a *worker* is a
goroutine that serves one request at a time.

## Inventory

| Component | State | Operations | Talks to | Hard behaviour |
|---|---|---|---|---|
| Task service `service/task`, `storage/mysql/task.go`, `storage/redis/taskcache.go` | tables `tasks`, `task_history`; list cache | Create, Update, List, History | team storage (roles), Redis | reads before a transaction are used in it; cache-aside races; SCAN/DEL; lost commit replies; crash inside a transaction |
| Team service `service/team`, `storage/mysql/team.go` | tables `teams`, `team_members` | Create, Invite, ListForUser | user storage, mail | two INSERTs; role checked before the upsert; upsert overwrites a role |
| Authentication `service/auth`, `storage/mysql/user.go`, `middleware/jwt.go` | table `users`; tokens at the clients | Register, Login, the middleware | – | check-then-insert race, lost replies, stateless sessions |
| Comments `service/comment`, `storage/mysql/comment.go` | table `task_comments` | Add, List | task and team storage | role and task read before the INSERT; overlapping INSERTs with time stamps in any order |
| Rate limiter `middleware/ratelimit.go` | map of token buckets, clean-up goroutine | getLimiter, Allow, clean-up | – | a bucket is used after its map entry may be gone; leak of entries |
| Circuit breaker `circuitbreaker/email.go` | breaker state and counts | SendInvite | mail service | counts per interval, half-open probes, results that come after the state changed |
| Lifecycle `cmd`, `app`, `mysql/db.go`, `redis/client.go` | server, pools, channels | start with retries, serve, Shutdown | everything | a start that fails half-way; signals at any moment; shutdown deadline against running requests |
| Analytics `service/analytics`, `storage/mysql/analytics.go` | – | three queries | MySQL | joins that repeat rows; windows over time stamps that are read before the row is saved |
| Logging `pkg/slogx` | cached handler | Handle | – | none: it is never reconfigured |
| Configuration, metrics, request ids, generated API layer, scripts | none of their own | – | – | – |

What makes them correct: an assignee, author or commenter is a member of the team of the task;
answers never cross teams or filters; the history explains every value of a row; caches become
true again; a team always has its founder and members never disappear; an email has one
account that nobody takes over; only a busy caller is turned away; a dead mail service is left
alone and found again when it is back; a process that is told to stop stops, and loses no request
within its time; lists, histories and reports are in order and complete although time stamps are
taken before rows are saved. `PROJECT.json` lists under
`hazards` what can go wrong, each at its line, with the properties that watch it.

## Modules

| Module | Models |
|---|---|
| `TaskService` | task service, task storage and list cache |
| `Membership` | abstract: what the team service promises to the others |
| `TeamService` | team service and storage; implements `Membership` |
| `CommentService` | comment service and storage; the steps of `Membership` are its environment |
| `AuthService` | registration, login, JWT middleware |
| `RateLimit` | the rate limiting middleware |
| `Timeline` | time stamps of tasks and what is ordered or selected by them: pages, history, two of the reports |
| `EmailBreaker` | the mail client behind its circuit breaker |
| `Lifecycle` | `main`, `app.New`, the stores' retry loops, `App.Shutdown` |
| `MC*` | instances for TLC, with a `.cfg` per run (`RateLimit`, `EmailBreaker` and `Lifecycle` need no module of their own) |
| `TaskServiceProofs`, `TeamProofs`, `CommentProofs`, `AuthProofs`, `RateProofs`, `BreakerProofs`, `LifecycleProofs`, `TimelineProofs` | theorems about the module each is named after |

Conventions. `pc[w]` is the phase of worker `w`, named after the next call; `call[w]` is its
request, `code[w]` its answer. `Arrive` actions take requests, `Serve(w)` is what the server
does with one, `Respond` answers it and clears the variables that lived on the stack.
Definitions marked `Mutant` are faulty variants that no specification uses: they stand in
front of the definition they spoil, and `PROJECT.json` says which property notices each.

Failures (`Faults`): `mysql` – a call fails and a transaction is rolled back (a cancelled
request context looks the same); `lost_reply` – a write is durable and its answer is lost;
`redis` – a call to Redis fails; `mail` – the notification fails; `crash` – the process dies,
every request is gone, tables, cache and clients' tokens stay.

### TaskService

`Create` is role, assignee, `SaveTask`, invalidation. `Update` is `GetTaskByID` (outside of the
transaction), role, assignee if it is new, `UpdateRow` (takes the row lock, `lock`), `InsertHistory`,
`Commit` (releases it, as do `Rollback` and a crash), invalidation. `List` is role, `CacheGet`, and on a miss `CountTasks`, `SelectTasks`,
`CacheSet`. `History` is `GetTaskByID`, role, `ListHistory`. The invalidation loop is `Scan` and
`Del` in turns over batches of keys; keys that appear behind the cursor are missed. `Expire` is
the TTL. Columns hold abstract values (`Val`), `Nil` is a nil pointer or NULL; the old value of a
NULL assignee or date is written as the empty string, as `buildHistoryEntries` does
(`OldValue`). A filter has a page and a limit, 0 when missing; `Clamp` sets them as `List` does
(`DefaultLimit` 20 and `MaxLimit` 100 in the code), and LIMIT and OFFSET are in `PageSize` and
`Selections`: without time stamps any rows that match may be on a page, as many as the total leaves for
it. `Timeline` has the time stamps and the order. The key of a list (`cacheKey`) has team, status and
assignee, a missing one written `"all"`, and the clamped page and limit. `Callers` are the users who
send requests; any user may be an assignee or join. A caller may belong to any of the teams or to none, in
`Init` and later. `OrphanTasks` is the third report of the
analytics, over the same tables: `NoOrphanTasks` says that it is empty. `born` and `raced` are auxiliary: the
row as created, and whether some update committed over a row it had not read.

### TeamService and Membership

`CreateTeamWithOwner` is `InsertTeam`, `InsertOwner`, `Commit`; its rows show at the commit.
`Invite` is `GetTeamByID`, `CheckRole`, `GetByID`, `SaveMember` (an upsert), `SendInvite`.
`Membership` has two variables and two actions, `Found` and `Join`; the refinement mapping
(`Promise`) is the column `created_by` and the set of users with a role. `TaskService` (its
`Join`; its `Init` leaves the members open, founders who send no request aside) and `CommentService` (`TeamStep`) rely on
exactly this: they check a role calls before they write, which is sound only because nobody
leaves a team. The auxiliary `entitled` has the workers whose caller was owner or admin at some moment
of the request. `CheckRole` lets an admin pass, as the code, its tests and README.md:13-14 do, but no
operation of the program makes anybody an admin: `Invite` always saves `member` (`team.go:152`) and
nothing else writes a role, so the third role of README.md:14 exists only for rows written by hand
(`OwnerIsFounder`).

### CommentService, AuthService

An INSERT of a comment is two actions, because MySQL takes `created_at` when the statement
begins and the id when the row is written. Nothing depends on the order of ids, so a row gets its id
and is seen in one step. The answer to an Add has the id of the row but not its
`created_at`: `SaveComment` sets only the id (`comment.go:53`), so the zero time is sent although
`openapi.yaml:235` requires the field. `Register` looks the email up, hashes and inserts;
the unique key decides. Tokens keep only their subject and age. A signature or a hash is not
modelled: a token that was not issued does not exist, and a password stands for its hash. bcrypt
refuses to hash more than 72 bytes, and compares only the 72 bytes of its key: the password and a zero
byte, repeated. `Key` is that key, any function of passwords; `LongPasswords` cannot be registered but
`Login` takes them, since it has no check of its own (`auth.go:117`). So an account with a password of 72
bytes is also opened by longer ones that begin with it, and `OnlyOwnersGetIn` says no more than that.
Requests to register and log in without a token are modelled; one that also carries an expired
token is refused by the middleware before it gets that far.

### RateLimit

One tick is the time in which a bucket gains a token, so a minute has `RequestsPerMinute`
ticks, and requests happen at ticks. Only ages are kept, so time has no bound: the auxiliary
`granted[c][n]` is what caller `c` got through in the last `n` ticks. A goroutine may
be delayed for any time between `getLimiter` (under the mutex) and `Allow`. `rate.Limiter` and
`time.Ticker` are external.

A minute may see a full bucket and its refill, so twice the limit: README.md:30 and
`ratelimit.go:18` speak of a sliding window, `MinuteBound` states what the token bucket gives.

### Timeline

`Create` and `Update` are cut down to what their time stamps depend on: the row is read, `TimeNow`
reads the clock, and the row is saved, each a step of its own. `UpdateTaskWithHistory` writes the row
that was read, so a racing update may put an older `updated_at` over a newer one. The queries are
operators over the tables. SQL leaves the order of equal keys open, so `Pages` and `ListHistory` are
sets of answers. `Joined` is the LEFT JOIN with its repeated rows, and `CountDistinct` the aggregate
over it. A client reads a list page by page while tasks are created and updated. `doneAt` and `raced`
are auxiliary.

What the properties leave open is open in the code too. Tasks of one `created_at` may be skipped by
a reader of pages, and races may show the history out of order. A task that was completed long ago and
edited this week counts as done this week, although `openapi.yaml:742` speaks of completed tasks.
Through the cache a reader may skip more: pages have keys of their own and may be of different age.

### EmailBreaker

gobreaker is external and modelled from its settings: closed, open and half-open, one generation
after the other, and results of an earlier generation are dropped. The breaker looks at the clock only
when a call begins or ends (`currentState`). `healthy` is the service and the patience of the clients
in one, since the breaker cannot tell them apart: the request's context ends the call, and that counts as
a failure. Time is kept as ticks until expiry, so it has no bound. The auxiliary `sent[n]` counts the
calls of the last `n` ticks since a call succeeded.

README.md:31 says that the breaker opens after three failures in a row. It does if they fall into one
interval: the counts start again after each. `FewCallsToADeadService` bounds what that lets through.

### Lifecycle

`main` is the phase of the main goroutine. Stores come and go while `mysql.New` and `redis.New` ping
them. Requests may take for ever. `Signal` before `signal.Notify` kills the process, later it goes to a
channel of one place. `Shutdown` cancels `appCtx`, closes the listener and waits for requests or for the
deadline, and then closes MySQL and Redis. A handler that meets the closed pool of MySQL ends
`broken`; the calls it has under way are not cut off, as in `database/sql`.

## Runs

| Run | Config | Result | What it shows |
|---|---|---|---|
| `updates` | MCTaskUpdates | pass | 2 updates, creates, lists and histories by 2 workers with every failure, of a caller who may not be a member: assignees and writers are members, the history explains the row; under fairness every request ends, those that wait for the row lock of another included, and the cache converges |
| `lists` | MCTaskLists | pass | three pages of the lists of two teams, and histories of two tasks, against creates, an update, joins, lost replies and Redis failures, for a user who is in none, one or both teams: no answer crosses teams, no page is shorter than its total allows |
| `lost_update` | MCTaskLostUpdate | violation | an update reverts the field of another without a history entry |
| `status_all` | MCTaskStatusAll | violation | `status=all` shares the key of the unfiltered list |
| `team` | MCTeam | pass | all properties of the team tables, and the refinement of `Membership`, under every failure |
| `ownerless` | MCTeamOwner | violation | an owner who invites himself is demoted; nobody may invite any more |
| `comments` | MCComment | pass | authors are members, lists are complete and ordered |
| `auth` | MCAuth | pass | one stable account per email, only who has its password (as bcrypt compares it) gets in, sessions end |
| `rate` | MCRate | pass | at most a bucket, its refill and one request per delayed goroutine in a minute; a 429 is only the answer to one's own requests; under fairness the map does not leak |
| `lifecycle` | MCLifecycle | pass | a failed start leaves nothing open, no request loses its pool before the deadline, exit code 0 means that all were answered; under fairness a signal ends the process |
| `breaker` | MCBreaker | pass | few calls to a dead service, and recovery under fairness |
| `timeline` | MCTimeline | pass | reports, history and pages over time stamps that are taken in races |

The violations are disagreements between the code and what README.md or a comment
says; `findings` in `PROJECT.json` quotes the lines. One more is known and follows from what
`CacheConverges` does not say: a list that was read before a change may set the cache after the
invalidation of that change, and is then served until its TTL.

**Bounds.** Two workers are enough for the races: each involves one request that is overtaken
and one that overtakes. `updates` allows two updates: one holds the row lock while the other waits for
it, is rolled back, loses its reply or dies with the process. Its second user is never a caller: he is
the assignee who may join. `lists` has pages of one row (`DefaultLimit` = `MaxLimit` = 1), so that two
tasks fill two pages, and a page beyond. Two tasks are used where rows of different tasks or
filters could be mixed up, two teams where teams could. In the other modules two users are an insider and a joiner;
an id outside of `Users` is a target that does not exist. `MaxUpdates`, `MaxComments`, `MaxTime`
and `MaxTokens` bound how often something happens, in guards of arrivals or of the clock; the
other modules have finitely many states without a bound. In `RateLimit` the limit per minute is 1,
with `IdleLimit` larger than a minute as in the code (10 minutes against one). The three limiter
objects are enough: a request that needs a new one refers to none itself, so one key and one worker
hold at most two. `MinuteBound` is tight: with two workers, `2 * RequestsPerMinute + 1` is violated.
So is `FewCallsToADeadService`: the smallest bound TLC accepts is `2 * (2 + n)` for `n` goroutines, for
one to three of them and several values of the other constants. `timeline` has pages of one task and
reports the first rank only (`Top`, 3 in the code), so that three tasks fill several pages and leave a
contributor out; `Week` and `Month` are one tick of two, so that tasks fall out of them. `lifecycle` has
three pings instead of ten. The theorems lift the bounds for what they cover.

**Symmetry** is used in safety runs only, over sets no definition distinguishes.

**Fairness.** `updates` assumes weak fairness of `Serve(w)` for each worker – the Go scheduler runs
runnable goroutines, and a call to a store that is not waiting for a lock returns – and of `Expire` for
each key, the TTL of Redis. Failures (`Fail`) are not part of it: no wait ends only because a call
fails. `rate` assumes that time passes and that the clean-up goroutine runs when its ticker has fired.
`lifecycle` assumes that the main goroutine runs and that the timer of the deadline
fires, and nothing of requests, stores or signals. `breaker` assumes that time passes and that a call
ends, as `http.Client` has a timeout of five seconds. Nothing assumes that requests arrive, that a
call succeeds, or that a lock is granted in order.

## Proofs

All theorems hold for any sets of workers, users, teams, tasks, values, inputs and filters, and
any bound. Each proof has the same outline: an inductive invariant, which TLC checked on the
instances of the run before it was proved; a lemma for `Init`; one lemma per action, or per
group of actions that touch the same variables; and the theorem, which reads the property off the
invariant. An action property is proved of a step from the same invariant.

**Assumptions** are those of the constants, and TLC evaluates them in the runs. All modules: `Nil` is no
value of the sets it is added to, and bounds and times are natural numbers. `ConstantTypes`: columns
and inputs have their types, and there are finitely many task ids. `NoIdIsAll`: no uuid is written
`all`. `TeamConstants`: strangers are no users. `AuthConstants`: every password has a key, and nothing
more about keys. `RateConstants`: a minute is shorter than the time
after which an entry is idle (10 minutes in the code), there are finitely many goroutines, and users
and hosts are told apart (the keys have the prefixes `u:` and `ip:`). `BreakerConstants`: finitely many
goroutines. `TotalsAreCovered` and `FiltersAreHonoured` also assume that no filter asks for the status
`all`, the condition whose failure `status_all` shows.

* **Tasks: types.** `TypeOK` is not inductive: a phase relies on what earlier calls left in the
  request. `TypeInv` adds `RequestOK(w)`, which says for each phase what the request has – a row
  after `get`, a team after the role check, a page before it is cached.
* **Tasks: access.** `AccessInv` adds what each phase has established: from the role check on the
  caller is a member of the team; before the write a new assignee is; the assignee that was read
  is, since rows and members only grow; a create under way owns its id. It gives `NoOrphanTasks`
  and `OnlyMembersWrite`.
* **Tasks: lists.** `ListInv`: every cache entry fits every filter with its key, and so does every
  page a worker holds. It gives `AnswersStayInTeam` and `ListHonoursFilter`. `CoverInv` follows the
  total from the COUNT to the answer: a worker before the SELECT has a total that is not above the
  rows there are, since rows do not go away, and a page that is held or cached has the rows its total
  leaves for it (`PagesGrow`: more rows never make a page shorter). It gives `PageCoversTotal` for every
  page and limit.
* **Tasks: history.** `AuditInv`: a transaction between its UPDATE and its end holds the lock of its row, its buffered entries
  are the difference between the row it read and the one it will write, ids are below the next
  one, and the snapshot a worker holds is explained by the history. It gives `NoValueWithoutEntry`,
  `AuditTrail`, `AckedUpdateAudited`, and the action property `HistoryWithRow`.
* **Teams.** `TeamInv`: the properties of the run, plus what phases stand for – a caller past the role
  check is the founder, and stays it even when he loses his role in the meantime; who may invite, or has
  passed the check, is `entitled`; ids of creates under way are distinct and unused. It gives every safety property of `TeamService`, and
  `PromiseIsKept`: `Spec => KeepsPromise`, where `CommitTeam` maps to `Found`, the first upsert of a
  row to `Join`, and every other step to a stutter.
* **Comments.** `CommentInv`: a request past the role check has a member as its author – a step of the
  team service is one of `Membership`, which takes nobody away; a stamp that was taken is not older than
  the comments its author could see; a list that is held is in order, complete and without
  repetition; and there is room for every INSERT under way.
* **Authentication.** `AuthInv`: one account per email, kept by the unique key in the step that inserts;
  ids of registrations under way are distinct and unused; the row a login has read is still the row
  of its email when the token is signed, and its password has the key of the one that was sent; each token, also one that a request carries, is of an
  account that logged in no earlier than the token says. `AccountsAreStable` and `SessionsEnd` are
  proved as action properties.
* **Rate limiter.** `RateInv` has two bounds on what a caller got through in the last `n` ticks, for every
  `n` up to a minute, since a bound for the minute alone is not inductive. From above: with an entry
  in the map, what he got, the tokens left and the goroutines that hold a limiter which is not in the map
  any more are at most `Burst + n + Workers`. Without an entry, and for the time it was not asked for, only
  goroutines that were delayed got something; that is why an entry may be deleted when it was idle for
  longer than a minute. From below: a bucket has the tokens of `n` ticks except for those its caller took.
  The first gives `MinuteBound`, the second `OnlyBusyAreDenied`. Both need `Owners`: a limiter serves one
  key, also after its entry is gone.
* **Circuit breaker.** `BreakerInv` says of every `n` up to `Window`: as far back as the generation goes, all
  calls were its own, so its failures (two at most) and the calls under way; a closed one may have one
  other closed generation before it in the window, and a half-open one comes after a time without
  calls. It is stated of a breaker, a set of calls and their counts, so that the lemmas take the steps of
  gobreaker one by one: the look at the clock, then the call or its result.
* **Lifecycle.** `LifeInv` ties the phase of `main` to the server, the pools, the requests and the deadline;
  the three invariants of the run are conjuncts of it.
* **Timeline.** `TimelineInv`: rows come from the past, and what a request has read is a row of its task
  as it was; without a race entries are in order and none is later than its row; and a task that a
  reader of pages has not seen either has a twin of the same `created_at` or has as many newer tasks
  before it as the pages that were read. `ReportsAreComplete` needs one more argument: when fewer than
  `Top` of those ahead of a user were reported, the first of them that was not has only reported ones ahead of
  him, and so a rank that is reported.

**Only model-checked:** liveness under fairness (`CacheConverges`, `RequestsAnswered`, `IdleEntriesGo`,
`SignalStops`, `Recovers`), which is out of the reach of TLAPS. The theorems `TeamHasItsFounder` and
`TeamListsAreComplete` have no run of their own: `KeepsPromise` says the first in other words, and the second
is about a single query. `FiltersAreHonoured` is the other half of the violation in `status_all`.

## Not modelled

Formatting, logging and metrics; the overflow of `(page - 1) * limit`; the page
and limit that the handler echoes as they came, not as they were used; bcrypt (but for what it compares), HMAC and parsing of
tokens; the generated API layer; scripts; tests. `pkg/slogx` is vendored (README.md:338), and its
run-time reconfiguration has no caller, so the handler it caches never changes. The exact-key
branch of `TaskCache.Invalidate` and `TaskStorage.SaveHistory` have no caller. Deadlocks inside InnoDB
are covered by `mysql` failures. A client that retries is one more request. The service and MySQL share
one clock in `Timeline`; the time zone of `NOW()` is a matter of deployment. `SendInvite` of
`TeamService` succeeds or fails freely, which covers what `EmailBreaker` makes of it.

## Plan

Done: all modules, and proofs of every safety property that the passing runs check. Left:

* `TaskBoard`: an abstract specification of tasks with their history that `TaskService` implements when
   updates do not race, with the refinement proved as for `Membership`.
