# RateX in TLA+

A formal model of RateX, a rate limiter written in Go (Gin, PostgreSQL, Redis)
with a React dashboard. Each TLA+ module is a translation of the code named
below, checked on small instances with TLC. Every invariant and every action
property that a passing run checks, and the refinement, is also proved with TLAPS,
for all values of the constants; only liveness is left to TLC.

Paths are those of the repository, under `src/`.

## 1. The system

| Component | State | Operations | Talks to |
|---|---|---|---|
| Redis limiters (`internal/limiter/{token_bucket,sliding_window,fixed_window}.go`, `internal/redis/scripts.go`) | one Redis key per identity, route (and window) | `Allow`: a Lua script (token bucket, sliding window) or INCR, EXPIRE, TTL (fixed window) | Redis, shared by all API instances |
| Redis client (`internal/redis/client.go`) | a pool of connections | commands, with timeouts and retries of go-redis | Redis |
| Memory limiter (`internal/limiter/memory.go`) | a map of buckets under a mutex | `Allow` | nothing |
| Limiter factory (`internal/middleware/rate_limit.go`, first part) | a map from policy parameters to limiters, under a mutex | `Default`, `FromPolicy` | the limiters |
| Rate limit middleware (`rate_limit.go`, `recovery.go`) | per request: identity, policy, limiter; counters (`internal/metrics`) | identify, override by route policy, limit, answer, record an event | factory, PostgreSQL, counters |
| Event log (`internal/repository/request_event_repository.go`) | table `request_events` | insert in a goroutine with 2 s of its own; recent, timeline, top routes | PostgreSQL |
| Policies, API keys, route policies (`internal/{handler,service,repository}`, `migrations`) | three tables with foreign keys | create, update, delete, revoke | PostgreSQL |
| Process (`cmd/server/main.go`) | the pools and the counters | start, shutdown, crash | everything above |
| Statistics API (`internal/handler/{stats,events}.go`) | none | three counters, three queries | counters, event log |
| Dashboard (`frontend/src`) | React state: last data, message, forms | load every 5 s, act and reload | the API |
| Admin authentication, configuration, health, demo route | none | one comparison, one read, two pings, one constant | |

How a request flows: the middleware counts it, finds the caller (an API key,
looked up with its policy, or an IP address), lets a route policy replace the
policy, asks the factory for the limiter of that policy (or takes the default
one), calls `Allow`, and either answers 429 and records an event, or lets the
route's handler answer and records an event then. A failure of the limiter is
answered by the failure mode: served without a limit, or 503.

### Where it is hard

* **Readings that are old when they are used.** A Go handler reads its own clock,
  and only then does the command travel, wait for a connection, and perhaps
  travel again after a timeout with the same arguments. Several instances have
  several clocks. The script treats the reading as "now".
* **Commands that ran although their reply was lost**, and are sent again.
* **Three commands that are not one** (fixed window): another call runs between
  INCR and EXPIRE, or EXPIRE never comes.
* **Expiry**: a key that Redis drops comes back as a full bucket or an empty log.
* **Check, unlock, act** (factory): two first requests both miss the cache.
* **Two statements, no transaction** (deletion of a policy).
* **Policies change while requests are under way**, a key is revoked, the
  process stops with requests and events in flight, the database fails between
  two queries of one request.
* **A page that waits for many answers at once** (dashboard): loads and handlers
  overlap, each sees the state of the render its function was made in, and the
  timer's function is almost always that of the first render.
* **Degenerate configurations**: nothing checks the limits and windows of the
  environment: zero capacity, zero window.

`PROJECT.json` lists every such hazard at its line, with the properties that
would show it going wrong.

### What makes each component correct

* Token bucket: all instances together give out no more than burst plus rate
  times time; Retry-After is enough and not too much; forgetting a key is free.
* Sliding window: no window-long interval sees more than `limit` admissions; no
  call is refused without `limit` admissions to show for it.
* Fixed window: `limit` admissions per window while it lasts, and no more than another
  `limit` by calls that are late; every counter expires.
* Memory bucket and factory: one budget for each policy and identity.
* Middleware: every request is accounted for, every decision leaves one event, a
  revoked key is locked out, a request is limited under a policy of its own time.
* Administration: names and slots are unique, no row refers to a missing one, a
  policy in use is not deleted.
* Dashboard: the secret of a key, which is told only once, is displayed, and a
  key stops when it is revoked; what an administrator did is in the lists that are
  loaded afterwards; what is saved for a row was made from that row; what was
  selected stays selected; counters, chart and events agree with the traffic.

## 2. The modules

| Module | Models | Extends / uses |
|---|---|---|
| `RedisCall` | a limiter's call to Redis: reading, sending, retrying, giving up, clock skew | |
| `TokenBucket` | `TokenBucket.Allow` and its script | `RedisCall`, `IdealBucket` (refinement) |
| `IdealBucket` | what a token bucket promises, with no store and no stale clock | |
| `SlidingWindow` | `SlidingWindow.Allow` and its script | `RedisCall` |
| `FixedWindow` | `FixedWindow.Allow`: its three commands | `RedisCall` |
| `MemoryTokenBucket` | what `MemoryTokenBucket.Allow` does to one bucket | |
| `LimiterFactory` | `FromPolicy` and the requests that use it, on the memory backend | `MemoryTokenBucket` |
| `RateLimitMiddleware` | the request pipeline, events, administration as it sees it, process life cycle | |
| `AdminStore` | the three tables and every operation on them | |
| `App` | the state of the dashboard: loads, handlers, requests, dialog, editors | |
| `KeysPage` | the page of keys, the request tester, and the key API | `App` |
| `PoliciesPage` | the page of policies and the policy API | `App` |
| `RoutesPage` | the page of route policies and their API | `App` |
| `ChartData` | the points of the traffic chart | |
| `AnalyticsPage` | overview and analytics, the traffic and the statistics API behind them | `App`, `ChartData` |
| `Dashboard` | all pages together, with what they promise | the five above |
| `TokenBucketProofs`, `IdealBucketProofs`, `SlidingWindowProofs`, `FixedWindowProofs`, `LimiterFactoryProofs`, `RateLimitMiddlewareProofs`, `AdminStoreProofs`, `DashboardProofs` | the theorems about the module each is named after | that module, `TLAPS` |
| `MC*` | constants for TLC | the above |

### RedisCall

`verdict`, `now`, `tries` and `retryAfter` are the local variables of one `Allow`
in flight per worker; a worker is a request handler of any instance. `Send` is
`now := time.Now()` and the sending of the command; `FailAttempt` is one failed
attempt, after which go-redis sends the *same* arguments again until its retries
are used up; `Abandon` is the end of the request's context between attempts.
`skew` is how far the worker's clock is ahead of Redis's. `TimePasses` lets no
reading grow older than `MaxLag`, which stands for the timeouts and retries of
the client (a reading lives for seconds at most).

### TokenBucket

`bucket` is the Redis hash with its expiry; `Refilled`, `Wait`, `Written` and
`ExpiryAt` are the script; `Give` and `Withhold` are its two outcomes. `Admit` and
`Reject` run the script and receive the reply, `LoseReply` runs it and loses the
reply, `Unreachable` is an attempt that never arrived, `RefuseNoCapacity` is the
early return for a capacity of zero. A window of zero seconds refills over 60 s
but gives the key no life at all (`PEXPIRE 0` deletes it), so the bucket is always
full; this is in the model and in the runs.

*Exact amounts.* The code keeps tokens in a float64. The model cuts a token into
as many grains as the window has ticks, so that a tick refills exactly `capacity`
grains and every amount is an integer. What the model cannot show is rounding
of the last float64 digits.

*History variables.* `taken` counts the tokens given out, `refused` the refusals,
`regress` how far `last_refill` was ever moved back. No guard reads `regress`;
`taken` and `refused` appear only in the bound of `Arrive`.

### SlidingWindow

`log` is the sorted set. A member's id is the uuid that `Allow` makes once per
call, so a repeated script replaces its member (`ZADD`) and adds none. `charged`
is history: Redis's own time of each admission.

### FixedWindow

`keys[k]` is the counter of window `k`; `step` is the command a call is at. The call
that finds one in its INCR sets the expiry. An INCR that is sent again because
its reply was lost finds two, and then nobody sets it. TTL's error is ignored,
and go-redis turns its replies -1 and -2 into that many *nanoseconds*, which
round to 0 s: `ResetAfter` says so. `orphans`, `inTime` and `admitted` are history: the
windows whose expiry went missing, and the admissions of each window, those before
its end and all of them. They differ when an INCR is delayed past the expiry of its
key: it starts the count of a window that is over again.

### MemoryTokenBucket and LimiterFactory

`Allow` holds the mutex from before it reads the clock until it has stored the
bucket, so it is one step and the instance's clock alone counts. `LimiterFactory`
splits `FromPolicy` where the lock is released: `Hit` and `Miss` look up under the
lock, `Create` makes a limiter and stores it without looking again. `limiters` is
every limiter ever made, with what it gave out; `cache` is the map. The limiter of
the default policy is made at start and is in the cache from then on.

### RateLimitMiddleware

`pc[w]` is where a request is: `Identify`/`TurnAway` (the caller: a key is looked up, an
address is taken as it is, and a request with neither is turned away), `Override`/
`KeepPolicy` (the route query), `Allow`/`Reject`/`FailOpen`/`FailClosed`/`Panic` (the
limiter), `Serve`/`ServeUnlimited` (the route's handler and what follows `c.Next()`).
What a limiter answers is left open. `pending`, `stored` and `lost` are the events in
goroutines, in the table, and gone; `Insert` and `GiveUp` are the two ends of a
goroutine. `Shutdown` runs the deferred calls of `main` in their order, Redis first,
while requests still come in, because the listener is never closed. `Stop` is the
end of the process or a crash. `late`, `inForce`, `decided`, `lost` and `uncounted` are
history.

### AdminStore

One action per statement. The deletion of a policy is two: `CountUsage` (409 when
the policy is used) and then `DeletePolicy`, or `DeletionFails` where the foreign key
of `api_keys` restricts. The foreign key of `route_policies` cascades. `attached` is
history: the route policies attached to a policy after its usage was counted.

### App

A *task* is a function of `App.jsx` that waits for the server: a load, or a handler
that sends a request and then loads. `task[t].at` is what it waits for: the request
(`sent`), the answer to it (`done`), the lists (`load`). Between two awaits JavaScript
runs without interruption, so each stretch is one action. `task[t].got` is what the
load's `Promise.all` has so far: lists are read in any order, at different moments,
and a list that fails is taken to be empty (`safeLoad`). `task[t].sees` is the closure:
what the render had in which the task's function was made. A handler's is the
render of the click, a confirmed deletion's that of the click that opened the
dialog (`app.confirm.sees`), and the timer's (`timer`) that of the last run of
`useEffect([eventLimit])`. `EndLoad` therefore decides by what the task sees, and not by
`app.selected`, whether a form is still to be filled. `Fail` is a request that is
refused or never arrives, `LoseAnswer` one that is done and whose answer is lost;
`ActionDone`, `KeyCreated`, `PolicyCreated` and `TestAnswered` are the answers that come.

A behaviour is about one page (`page`, chosen by `Init`): the pages share loads,
handlers and dialog, and no list of one page is written from another, so nothing
is lost by taking them one at a time, except that `server` is the one table behind
the page. Of the seven lists of a load those count that the page is about
(`Lists`). `panel` is the state of the page's panel, which React throws away when the
administrator leaves (`Revisit`): a save that was begun before then finds no editor
to close (`SameVisit`).

History: `history`; the number of the write that a row (`stamp`) or a task is about; the
row that a draft was made from (`draft.of`); the requests that arrived while a load
gathered the counters (`stats.arrived`); the events on display when a load began
(`before`).

### KeysPage, PoliciesPage, RoutesPage

The forms and buttons of a panel, each an action, and next to them what the
server does: `InsertKey`, `RevokeKey`, `UpdatePolicy`, ... A row has as many fields as the
page's properties need: the policy of a key and whether it is revoked, the limit
and the burst capacity of a policy, the slot (method and pattern) and the policy of
a route. The handlers of the three pages differ, and so do the models: creating a
policy resets the form, also what was typed meanwhile; the other forms keep their
values; only an editor is closed by its save, and by the failure of it, because
`action()` catches the error. `AdminStore` has the constraints of these tables in full;
here a request that they refuse is a `Fail`. The request tester sends the key on
display (`Test`), whatever became of it.

### AnalyticsPage and ChartData

`traffic` is what the middleware counts (`Arrive`, `Decide`) and stores (`Store`), the
clock included. `ReadCounter` is one of the three calls of `metricCounter`, in the
order of `stats.go`, so that requests arrive and are decided in between; the three
come in one answer and fail together (`ReadStatsFails`). `Clamp` is what the
repository does to a limit above 200. `ChartData` is `chartData.js` as operators: the
buckets in range, or the invented wave.

## 3. The runs

| Run | Shows | Result |
|---|---|---|
| `token_lagging` | two clocks, delayed, lost and retried commands: `Ledger`, `ExpiryIsFree`, `RetryIsExact`, `Answered` | pass |
| `token_synchronous` | one clock and no delay: `Budget`, and `ImplementsIdeal` (the shared bucket with its expiry and lost replies refines the ideal one) | pass |
| `token_regress` | equal clocks, commands that travel for different times | `Budget` violated |
| `sliding_lagging` | `SlidingLimit`, `RefusesOnlyWhenFull`, `RetryIsExact` | pass |
| `fixed_lagging` | `InTimeLimit`, `TwiceAtMost`, `LeaksOnlyByLoss`, `RetryReachesNextWindow` | pass |
| `factory_memory` | `LimiterLedger`, `RaceIsBounded`, `RetryWithinASecond` | pass |
| `factory_race` | two first requests under one policy | `PolicyBudget` violated |
| `middleware` | `Accounted`, `EventLedger`, `RevokedStaysOut`, `PolicyInForce` | pass |
| `admin_store` | `References`, `CascadeOnlyInRace` | pass |
| `admin_delete` | a route policy attached during a deletion | `DeletedOnlyUnused` violated |
| `dashboard` | every page, with tasks that overlap, fail and lose answers: `SecretsAccounted`, `RevocationIsImmediate`, `ReadsItsWrites`, `SavesWhatWasEdited`, `EditorClosesOnlyBySave`, `BurstIsLimitOrDefault`, `StatsAddUp`, `MoreShowsMore`, `ChartShowsStoredTraffic` | pass |
| `dashboard_selection` | a policy is selected while the timer runs | `SelectionIsKept` violated |

Every module also has one type invariant, `TypeOK`. For each property of a passing
run `PROJECT.json` names a mutant, a plausible mistake in the code, under which TLC
finds the property violated.

### What the violations say

* **`token_regress`**: the script stores the reading it is given as `last_refill` even
  when it is older than the stored one. Two commands that overtake each other move
  `last_refill` back, and the interval between the two readings refills twice. `Ledger`
  (checked and proved) says exactly how much is given away: the sum of all
  backward moves, times the rate. Keeping the larger of the two readings would
  make `regress` zero.
* **`factory_race`**: `FromPolicy` does not look again after it takes the lock for
  writing. On the memory backend each overlapping first request gets a full
  bucket of its own. `RaceIsBounded` says that only first requests that overlap do
  this: however often a policy is edited and edited back, it never has more
  limiters than there are handlers at once.
* **`admin_delete`**: a route policy attached between the two statements does not
  save the policy (README.md:398), and is itself deleted by the cascade.
  `CascadeOnlyInRace` says that this is the only way.
* **`dashboard_selection`**: `load()` fills the policy of the key form when it is empty
  (App.jsx:79), but the timer's `load` still sees the first render, where it was.
  Every five seconds the newest policy takes the place of the one selected, and a
  key that is then created gets it. The route form (App.jsx:80) has the same fault.
  Reading `value.policy_id` inside the updater would cure it.

`ReadsItsWrites` is about the moment at which a handler's own load ends. It does not say
that the lists never go back: an older load that is answered later overwrites them
until the next load, at most five seconds later. `EditorClosesOnlyBySave` allows what the
code does: the end of *any* save of this visit closes the editor that is open, also
one for another row, and also when the save failed. `BurstIsLimitOrDefault` allows the
burst capacity of 100 that the form for new policies keeps whatever limit is typed.
`PolicyInForce` allows the silent return to the key's policy when the route query fails.
`TwiceAtMost` speaks of delays and skews that together are no longer than the window; of
longer ones it says nothing.
`MoreShowsMore` allows the one way in which the list shrinks: past a limit of 200 a click
asks for more than the server gives, and the list falls back to 50 events, no further. `ChartShowsStoredTraffic` says nothing of
a range without a bucket, where the chart is invented from the counters of all
time, although TrafficChart.jsx:15 calls it "Live request timeline from backend
telemetry".

### Bounds, and why they are enough

* *Two workers.* Every hazard above is between two calls: one reading overtaken
  by another, one INCR before another's EXPIRE, two misses, one request and one
  administrator. The theorems need no bound on the number of workers.
* *One retry* (go-redis makes three): enough for a command that runs twice.
* *Windows of one to three seconds, limits of zero to three, one to three ticks a second.*
  Enough for a key to fill, empty, expire and be used again; several ticks a second
  make the rounding of waits visible. The default limit comes from the environment,
  where nothing checks its sign: both windows are also run with a limit of -1, which
  lets nobody through.
* *`MaxLag` and `MaxSkew` of one or two ticks*, below the window (`LagBelowWindow`).
* *`MaxTime`* ends a behaviour after two to four windows, so that a key outlives its
  time to live of two windows. *Two edits* (`MaxEdits`) are enough to edit a policy back and
  find its old limiter. *`MaxCalls`, `MaxExecutions`, `MaxRequests`, `MaxChanges`,
  `MaxStarts`, `MaxPolicies`, `MaxKeys`, `MaxRoutes`, `MaxMore`, `MaxWrites`,
  `MaxVisits`* bound counters that only grow.
* *Two tasks, two writes* (dashboard; `MaxTasks`, `MaxWrites`): enough for a double click on
  "Create Key", for a load of the timer that overlaps a handler's, for a deletion that
  overlaps a creation, and, with the policy and the route policy that are there from
  the start, for two rows of which one is edited while the other is saved. Overview
  and routes have one task at a time: a load there is judged by itself, and the
  editor of the routes still sees its panel left and entered (`MaxVisits`) while a
  save is under way. One policy is enough for what happens to rows; the selection
  needs two. Limits typed are 50, against 10 and 100 from the start.
* *Two requests (one on the analytics page), three moments of twenty minutes* (overview): a request arrives and is
  decided between two counters; buckets leave the last thirty minutes, with none,
  one and two of them in range. *Six times more events*, of 40 or 250 stored: up to a
  limit of 210, past the server's 200.
* Deadlock checking is off, because with these bounds every behaviour ends; only in
  the dashboard, which can always load again, is it on.
* *Symmetry* is used for workers and policies of the middleware, and for
  deletions, names and slots of the administration, and for tasks of the
  dashboard: no property there tells them apart. The limiters' workers have clocks
  of their own and no symmetry is used.

### Fairness

One liveness property is checked, `Answered`, under weak fairness of `Attempt(w)`:
go-redis has a deadline for each attempt and a bound on retries, so a call in
flight never stays where it is. Nothing else is assumed fair: requests need not
come, clocks need not advance. No fairness is stated for the middleware, whose
PostgreSQL queries have no deadline of their own, nor for the dashboard, whose
`fetch` has none: a request may hang, and the code does not promise otherwise.

## 4. What is proved

For every set of workers, tasks, policies and names, every configuration, delay, skew,
number of retries and bound that the assumptions below allow. The third column is the
property that a run of section 3 checks on a small instance.

| Module | Theorem | States |
|---|---|---|
| `TokenBucketProofs` | `TypeCorrect` | `TypeOK` |
| | `LedgerKept` | `Ledger`: what is given out is paid for by burst, time and `regress` |
| | `ExpiryGivesNothing` | `ExpiryIsFree` |
| | `RetryAfterIsExact` | `RetryIsExact` |
| | `SynchronousIsIdeal` | with one clock and no delay, `ImplementsIdeal` |
| | `SynchronousBudget` | ... and so `Budget` |
| `IdealBucketProofs` | `BudgetKept` | the ideal bucket keeps its budget |
| `SlidingWindowProofs` | `TypeCorrect` | `TypeOK` |
| | `SlidingLimitKept` | `SlidingLimit` |
| | `RefusalsAreFair` | `RefusesOnlyWhenFull` |
| | `RetryAfterIsExact` | `RetryIsExact` |
| `FixedWindowProofs` | `TypeCorrect` | `TypeOK` |
| | `LimitKept` | `InTimeLimit` |
| | `LateLimitKept` | `TwiceAtMost` |
| | `LeaksNeedLoss` | `LeaksOnlyByLoss` |
| | `NextWindowReached` | `RetryReachesNextWindow` |
| `LimiterFactoryProofs` | `TypeCorrect` | `TypeOK` |
| | `LedgerKept` | `LimiterLedger` |
| | `LimitersAreFew` | `RaceIsBounded` |
| | `TokenWithinASecond` | `RetryWithinASecond` |
| `RateLimitMiddlewareProofs` | `TypeCorrect` | `TypeOK` |
| | `RequestsAccounted` | `Accounted` |
| | `EventsKept` | `EventLedger` |
| | `RevokedKept` | `RevokedStaysOut` |
| | `PolicyKept` | `PolicyInForce` |
| `AdminStoreProofs` | `TypeCorrect` | `TypeOK` |
| | `ReferencesKept` | `References` |
| | `CascadesOnlyInRaces` | `CascadeOnlyInRace` |
| | `ServiceKeepsConstraints` | whatever algorithm and integers are asked for, what the service lets through passes the four checks of the table (the width of its columns is not modelled) |
| `DashboardProofs` | `TypeCorrect` | `TypeOK` |
| | `SecretsKept` | `SecretsAccounted` |
| | `RevocationKept` | `RevocationIsImmediate` |
| | `SavesKept` | `SavesWhatWasEdited` |
| | `BurstKept` | `BurstIsLimitOrDefault` |
| | `WritesAreRead` | `ReadsItsWrites` |
| | `EditorsStayOpen` | `EditorClosesOnlyBySave` |
| | `CountersAddUp` | `StatsAddUp` |
| | `ChartKept` | `ChartShowsStoredTraffic` |
| | `MoreIsMore` | `MoreShowsMore` |

### From which assumptions

Those named in the modules. Most only say that a bound is a number. With content are

* `LagBelowWindow` (`TokenBucket`): a reading in flight is younger than the window.
  It is what makes the key's life of two windows long enough, and it is true of the
  program as long as the window is longer than the client's timeouts (a window of a
  few seconds and a client that retries for longer are outside it). The two windows
  do not assume it: there the delays are in the properties themselves.
* `PoliciesArePositive` (`LimiterFactory`): what the checks of the table guarantee.
  `Defaults`, which come from the environment, are only numbers (`PoliciesAreNumbers`), the
  window not negative.
* `WorkersAreFinite` (`LimiterFactory`, `RateLimitMiddleware`), and in `AppBounds` that
  `Task` is finite: the properties count handlers and writes.
* `MaxStarts` is at least one: a behaviour begins with a process that has started.

A negative default limit is inside all of this: `InTimeLimit` and `SlidingLimit` say of it
that it lets nobody through. A negative default window is not (the fixed window and the
factory assume that windows are natural numbers).

### Along which argument

Each module has an inductive invariant, `IInv` (in `DashboardProofs` `TablesOK` and
`TrafficOK`), that TLC checked on the module's run before it was proved. A lemma for
each action shows that it is kept; the invariant is cut into parts by the variables
they are about, so that a step has to do only with the parts whose variables it
changes. An action property follows from the invariant in the state before the step.

**Token bucket.** `Ledger` is not inductive: a key that expires is replaced by a full
bucket, and nothing in `Ledger` says that the old one had refilled. `IInv` adds

* `ReadingsAreRecent`: a reading in flight is at most `MaxLag` old;
* `KeyLives`: a written key expires two windows after its last write, and
  `last_refill` is ahead of that write by at most the skew;
* `NothingBeforeTheFirstWrite`: an absent key has given nothing out.

When a key has expired, then, more than two windows have passed since it was
written; an arriving reading is less than a window older, so a window or more lies
between it and `last_refill`, and the bucket would have been full. Arithmetic on
products (grains times tokens) is in lemmas of its own, with the terms abstracted.
The refinement maps the ideal level to `Refilled(time)`: an expired key and a key
that has refilled are the same full bucket.

**Sliding window.** The invariant ties the sorted set to what was let through, both
ways. `RecentChargesAreMembers`: what was let through within the window is a member, as late
as its reading at most; so the members that the script counts are enough to bound an
interval (an injection by uuid, and cardinalities). `MembersAreCharged`: a member was let
through, even when its reply was lost; so a refusal has `limit` admissions behind it. `IdsAreOwn` and `MembersMatchCalls` are what makes a repeated script harmless: it
replaces its own member, with the score it had. That the wait ends when room is found needs
the oldest member to exist, which is the least element of a finite set.

**Fixed window.** `CountedWhileOpen`: while a window can still get calls, its counter has
not been dropped, so what was let through in time is at most the counter; this needs
`ExpiresAfterWindow`, since the expiry is counted from the EXPIRE command and the
window from the reading. Every reading falls in the window that the division says.
`TwoLives` is for the calls that are late: a counter is in its first life (`FirstLife`: it has
counted every admission) or in its second (`SecondLife`: it was dropped once, when its window
was over, so that an expiry set now lies a whole window after that end). `LifeFound`: while a
call still reads the window there is no third life, as its delay and skew are shorter.

**Factory.** `LimitersAreSound`: each limiter's bucket, together with what it gave out, is
within its burst and the time up to its last refill. `MakersAreFew`: the limiters of a policy
and the handlers that are about to make one are together no more than the handlers. This
is why the race is over once the cache has an entry (`CacheIsRight`), in
behaviours of any length.

**Middleware.** The outcomes and the requests on their way add up to the requests
(cardinalities of the sets of workers at each place). `CurrentInForce`: what is in force now
is among the policies of the time of every request. `LateOnesAreKnown`: a request with a
revoked key is still at the query that will turn it away.

**Administration.** `KeysAreNumbered` keeps ids fresh. `AttachedAreKnown`: a deletion that
has counted no use knows every route policy that uses its policy now; so what the
cascade takes is among those attached since.

**Dashboard, tables.** The properties are about rows that were read, clicked, sent and answered
at different times. `TablesOK` says of everything that holds a row or the id of one (the lists, those a
load has gathered, the dialog, the requests) that the row is or was in the
table, with a stamp no newer than the table's (`RowOK`, `Known`), and of the editor that
its draft was made from the row it edits. `Grows` relates two tables of
which the later has new, changed or deleted rows with newer stamps; facts about rows stay
true while a table grows, so that no task has to be looked at when another one
writes. `WrittenOK`, `LoadOK`: a request that is done is visible in the table, and then in
what the load that follows it has read. `LetInOK`: a key that was let in was
not revoked before the request was sent. `SecretsOK`: the keys of the table are those whose
secret was displayed, or lost, or is on its way.

**Dashboard, traffic.** `CountedOK`: decided requests are no more than those that arrived.
`StatsOK` follows the three counters in the order in which the server reads them: the
requests come first, so what is missing in the end has arrived since, and is
counted. `PointsOK`: a point on display has at most what is stored for its minutes.
`EventsOK`: a load that asks for at most 200 events gets at least as many as there were, and
one that asks for more gets as many or fifty.

### What is only model-checked

`Answered`: liveness is outside the prover's reach. The properties that a run shows violated
(`Budget` under delays, `PolicyBudget`, `DeletedOnlyUnused`, `SelectionIsKept`) are refuted by
TLC's counterexamples; the properties next to them (`Ledger`, `RaceIsBounded`,
`CascadeOnlyInRace`) say how far the damage goes, and are proved.

## 5. What is not modelled, and why

* **Of the dashboard**: notices; the clipboard (the page says "Copied" also where `copyText`
  returned false, KeyPanel.jsx:6); searching, which only takes rows out of sight; what
  the request tester displays; the page of documents; markup. Pages are not
  combined: no behaviour edits a policy and then a route that uses it.
* **Of the statistics API**: the list of top routes; a `Gather` that fails, which would
  show zero for one counter; a server that restarts between two counters.
* **Admin authentication, configuration, health, demo route**: no state and no
  interaction; the values configuration lets through are inputs of the limiters.
* **Secrets and hashes**: a key's secret is a fresh random value; what the model
  needs is whether it is found, with which policy, and whether it is revoked.
* **Routing, CORS, logging, headers and bodies**, except Retry-After.
* **Deployment**: Docker Compose, nginx, scripts.
* **Redis and PostgreSQL themselves**: a script or statement is atomic and durable;
  the loss of a Redis server's data is not modelled.

Seen while reading, and not expressed as a property: the latency histogram is told
nearly zero for every request, because `defer Observe(time.Since(started).Seconds())`
(`rate_limit.go:97`) evaluates its argument at the `defer`; the notice "Some API data is
unavailable" is never cleared by the timer, whose `load` sees the first render's
message (App.jsx:76); the ranges of six and of
twenty-four hours draw the thirty minutes that the server sends; the limit headers are
missing on answers 401, 500, 503 and on requests served by failing open, although
README.md:319 says they come on protected responses; the seeded `free` policy is a
token bucket (`migrations/001_init.sql:38`), and a fixed window in README.md:313; route
policies are always enabled whatever the request says (`AdminStore!Enabled`).

## 6. Plan

1. *(done)* The Redis token bucket, its ideal, its proofs; the other limiters; the
   factory; the middleware; the administration; the dashboard with all its pages,
   the statistics and the events.
2. **A policy edited while its Redis keys live**: a key does not name the policy, so
   a bucket outlives its parameters. An extension of `TokenBucket` with an
   `EditPolicy` action, and the ledger it keeps.
3. *(done)* Proofs of every invariant and action property that a passing run checks.
4. **Further theorems**: the positive counterparts of the violated properties, under
   the hypothesis that rules the race out (readings that never overtake each other give
   `Budget`; a single handler gives `PolicyBudget`).
