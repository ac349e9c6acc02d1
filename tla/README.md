# Cloudjam in TLA+

Cloudjam runs jams: players solve challenges on cloud accounts, a WASM plugin
per challenge watches their account and awards points. This directory holds
TLA+ models of its server (`cmd/hornet`, `internal/`) and of the loop of the
challenge SDK (`pkg/challenge`), TLC configurations that check them on small
instances, and theorems about them that TLAPS proves for every instance.
Paths below are those of the repository, under `src/`.

## The system

One process, `hornet`, serves a Connect API. All its durable state is in one
OLTP store (an external library, `dynamitedb`): records with ETags, single-record
conditional writes, **no transactions over two records**. Everything else is
memory of the process: goroutines started by the scheduler, the provider cache,
the compile cache for plugins, the policy cache. Handlers run concurrently; each
reads records, decides, and writes them later.

| Component | State | Operations | Talks to | What makes it correct |
|---|---|---|---|---|
| Account pool `internal/server/v1/cloud/account` | record `Account`: State, BoundUntil | Create, Update, Reset, Fix, Delete; jobs that provision, prepare, nuke, delete | store, scheduler, provider | an account has one job or one challenge at a time; what is in the pool was prepared; busy states end |
| Challenge lifecycle `internal/server/v1/play/challenge` | record `Challenge`: AccountID, Error, Clues, CluePrices, UncoveredClues, ScoreEvents | Create, Update, Delete, Start with its job, Credentials, UncoverClue | pool, scheduler, runner, team | a claim takes only a free account; it is given back; charges match the score |
| Runner and guest bridge `internal/challenge` | context of a run, host functions | Start, cancel, createMeta, updateMeta, updateScore, createAsset, ... | guest, store, provider | a guest acts for its own challenge; the score is written consistently |
| Plugin cache `internal/challenge/cache.go` | compiled plugins by hash, a mutex | Load, clean, Close | store, WASM runtime | one compilation per hash, shared pages, loads end |
| Definitions `internal/server/v1/cloud/definition` | records `Definition` (hash) and `DefinitionBinary` | Create, Update, Delete | store | the hash is that of the binary |
| Scenario SDK `pkg/challenge` | maps of checks, events, clues with their locks | AddCheck, RemoveCheck, AddClue, AddEvent, Start and its loop | host functions | a passed check is paid, once unless it repeats, and only while it is live |
| Scheduler `internal/scheduler` | a wait group | Schedule, Wait | jobs | every failure is reported |
| Providers `internal/server/v1/cloud/provider`, `internal/provider/cache` | record `Provider`; the cache | Create, Update, Delete; Load, Bust | store, AWS | the cache follows the record; a provider with accounts stays |
| AWS provider `internal/provider/aws` | `assetBucket`; an AWS organisation | Provision, Prepare, Access, Nuke, Delete | AWS | each call repeatable after a failure |
| Games and teams `internal/server/v1/play/{game,team}` | records `Game` (From, To), `Team` (Score) | Create, Update, Delete | store | no orphans; a running challenge agrees with its game |
| Identity `internal/server/v1/admin`, `internal/server/v1/auth`, `internal/bootstrap`, `internal/token` | users, credentials, roles, bindings | CRUD, ResetPassword, Login, Register, bootstrap | store | user and credentials go together; a start after a crash completes |
| Authorizer `internal/auth`, `internal/rbac` | policy cache with timeout | Authorize | store, every handler | a detached role stops working |
| OLAP `internal/olap` | log lines, request traces | append, compact | external library | nothing the program reads back, but for the console |
| The rest | `jamctl`, `web`, `tools/schemagen`, generated SDK services, examples | | | clients and build tools |

Hard behaviours, in the order of what they can cost:

1. *Read, decide, write.* Every account handler, and `Start`, decides on a read
   and writes later; jobs write without ETags and trust the state in the record
   to be a lock.
2. *Two records, two writes.* Team and challenge, hash and binary, user and
   credentials. The second may fail, or another handler may come between.
3. *Jobs and crashes.* A job is a goroutine; nothing resumes it. A report of a
   failure is one more write that may fail.
4. *Retries.* The guest repeats an award that failed; the administrator repeats
   Reset, Fix, Delete.
5. *Caches.* Compiled plugins outlive the run that compiled them; providers and
   policies outlive their records.
6. *Time.* A claim ends with the game, by the clock, while a guest, its cleanup
   and other handlers go on.

7. *Locks in the guest.* The loop of a scenario calls triggers and the host under
   the locks that events and triggers want.

`PROJECT.json` lists the hazards at their lines with the properties that cover
them, and says of the others why no property does.

## Modules

| Module | Models | Depends on |
|---|---|---|
| `AccountLease` | abstract: accounts are lent to one holder at a time | |
| `AccountPool` | account handlers, their jobs, and Start as far as the account goes | implements `AccountLease` |
| `AccountPoolProofs` | its theorems | |
| `Scoring` | the check loop in the guest, updateScore, clues, UncoverClue | |
| `ScoringProofs` | its theorems | |
| `Plugins` | the two records of a definition, the compile cache, guests and whom their host functions act for | |
| `PluginsProofs` | its theorems | |
| `Providers` | the provider record, its handlers, the cache of clients, and the handlers that load and use one | the pool's exclusion, as an assumption |
| `ProvidersProofs` | its theorems | |
| `EventBodies` | abstract: an event has at most one body that was not told to stop | |
| `Scenario` | one run of a challenge: its job, the runner, cancel and the deadline, and the guest with its set-up, loop, events and their bodies | implements `EventBodies` |
| `ScenarioProofs` | its theorems | |
| `Games` | games, their teams and challenges, the handlers that read the clock, and Start as far as the game goes | |
| `GamesProofs` | its theorems | |
| `Invitations` | abstract: a code is dealt once, lets in until it is used or replaced, and never again | |
| `Identity` | users and credentials, registration, the administrator of a first start | implements `Invitations` |
| `IdentityProofs` | its theorems | |
| `Authorizer` | roles and who has them, the policy cache, the deadline of a request | |
| `AuthorizerProofs` | its theorems | |
| `MC...` (one for each of the eight) | symmetry, a view and values for TLC | |

The modules meet in records, not in calls, and each keeps of the others' handlers
what they do to its own records: `Start` of a challenge is in five of them, for the
account (`AccountPool`), the game (`Games`), the provider's client (`Providers`), the
plugin (`Plugins`) and the job it leaves (`Scenario`). Where one relies on another
the section says so.

### AccountPool

A slot `p` of `Procs` is one request together with the job it schedules: `pc[p]`
is the next call it makes, `on[p]` its account, `to[p]` the end of the game
(Start only). Each store call and each provider call is a step, so that anything
may happen between the read of a handler and its write, and during a provider call.

| Code | Actions |
|---|---|
| `Create` and its job | `CreateRecord`, `CreateSchedule`, `LockProvisioning`, `Provisioned`, `Prepared` |
| `Update` | `UpdateRead`, `UpdateWrite` |
| `Reset` and its job | `ResetRead`, `ResetLock`, `Nuked`, `Prepared` |
| `Fix` | `FixRead`, `FixWrite` |
| `Delete` and its job | `DeleteRead`, `ForceDelete`, `LockDeleting`, `Deleted` |
| job failures and their report | `LockLost`, `JobFails`, `Report`, `ReportPanics` |
| `Start` and its job | `StartCheck`, `StartQuery`, `StartNoCapacity`, `Claim`, `StartSchedule`, `RunnerEnds`, `LockAccess`, `Unbind`, `ChallengeFails`, `ChallengeReport` |
| early returns | `Abandon`, `Conflict` |
| clock, process | `Tick`, `Crash` |

What is abstracted:

* *ETags*: `valid` is the set of slots whose ETag still matches; every write of
  a record empties it for that record. That is all a conditional write tells.
* *Provider calls* succeed or fail (`Faults`); while one runs the slot stays
  where it is.
* *Time* is in minutes; the comparisons of the code (`<` in Start, `<=` in Reset)
  are kept.
* *Ids* are fresh: `sortid` does not issue one twice, so a deleted record does
  not come back.
* Four variables (`fixed`, `contested`, `raw`, `restarted`) are history: no
  guard reads them. They say which accounts an administrator forced back with
  Fix, which got a report of a job that never locked them, and which were not
  prepared since they were made or nuked.

### Scoring

What is in `Team.Score` and in `Challenge.ScoreEvents` of an item (check or
clue) is counted: `credit[c][i]`, `log[c][i]`; points are a constant factor. A
run `r` of `Runs` is one guest; `Start` does not look for an earlier run, so two
guests may run one challenge. A round of `evaluateChecks` is `Wake`, then `Skip`,
`NotPassed` or `Passed` with `Credit`, `Log` and `AwardFails` for each check, then
`EndRound`; AddCheck and RemoveCheck wait for the lock it holds. `Every` is a
number of rounds to wait. `FindPrice`, `Uncover`, `Charge`, `UncoverFails` are
UncoverClue; `AddClueEarly`, `Publish` and `AddClueLater` are AddClue before and
after Scenario.Start. `Play` lets players change what the triggers see; `End` is
the end of a guest for any reason. `lost` and `issued` are history: second writes
that will not come, and how often a check was added.

### Plugins

A request `u` writes a definition: `CreateBinary`, `CreateMeta`; `ReadBinary`,
`WriteBinary`, `ReadMeta` (or `ReadMetaOnly`), `WriteMeta`; `DeleteBinary`,
`DeleteMeta`; `RequestFails`. A run `r` loads a plugin: `StartRun` (hash read),
`Lock`, then `Hit`, or `Fetch` (binary read) and `Compile`, or `LoadFails` or
`InstanceFails`, which leaves the plugin in the cache. A
compiled plugin is a record of its code and of the run whose methods its host
functions are; `HostCall` and `Cancel` act for that run. `Restart` forgets
everything in memory. A hash is identified with its binary. `clean` of the cache
is part of `Lock`, where it does nothing: it ranges over a map that stays empty.
`torn` and `strayed` are history: definitions with a torn write, and runs whose
definition may have been written between their reading of the hash and their
factory's reading of the binary.

### Providers

A handler `u` has read a version of a provider record (`seen[u]`) and loads a
client some time later. `ProviderService` is `CreateRecord`, `CreateFetch`;
`UpdateRead`, `UpdateWrite`, `UpdateFetch`, `Bust`; `DeleteQuery`, `DeleteWrite`;
Create and Update end with a load. `Cache.Load` is `LoadHit`, `LoadFill` or
`LoadFirst`; each is one step, and so is `Bust`, because the cache holds its mutex
over all of it, the calls that build a client included. The handlers of accounts
and challenges that load a client are `AccountRead` with `AccountCreate`,
`ResetRead`, `RemoveRead`, `StartRead`, `CredentialsRead`; what they do with it is
`Prepare`, `PrepareFails`, `Assets`, `StartEnds`, `Remove`. `ForceRemove` is a
Delete with force, `Abandon` a failed call, `Restart` a crash.

* A *version* stands for the credentials and regions of a record and for its ETag.
* A *client* is built once, from the version its handler has read, and is shared.
* `guarded` says which organisations have the guard policy: the first bootstrap of
  one creates the policy and attaches a policy without a name
  (internal/provider/aws/aws.go:207), so it fails, and the second load succeeds. A
  provider keeps its organisation.
* Who has an account to itself (`Holds`) is what `AccountPool` shows: a claim comes
  before Start reads the provider, a lock after the other handlers have loaded.
* `behind` and `late` are history: providers whose cache was filled from an old
  record or lost its Bust, and accounts created while their provider was going.

### Scenario

`job` is where the job of `Start` is: it runs the guest, locks the account, unbinds
it, or reports. `main` is where the guest's main goroutine is: the calls of
`Scenario.Start` in their order (`SetUp`, `SetUpFails`), then rounds of
`checking` (`evaluateChecks`), `events` (`orchestrateEvents`) and `sleeping`.
`main = "checking"` is also who holds the lock of the checks, `main = "events"` who
holds that of the events.

| Code | Actions |
|---|---|
| `Challenge.Start` of the runner | `LoadPlugin`, `LoadFails`, `Exit`, `Close`, `Panic` |
| the job of `Server.Start` | `Lock`, `LockFails`, `Unbind`, `UnbindFails`, `Report`; `Deadline` is its context |
| host function cancel | `Cancel`, in `SetUpFails` and `BodyFails` |
| `orchestrateEvents` | `StartBody`, `KeepBody`, `StopBody`, `TriggerFails`, `RoundDone` |
| `AddEvent`, `RemoveEvent` | in `CheckChanges` (triggers of checks) and `Locked` (bodies) |
| the body of an event | `Call` and `Locked` (waits for a lock, has got it), `Return`, `BodyFails` |

* What a body does is free, but for the locks: it may change events in any way, wait
  for either lock, return early or never.
* `Play` is the players' doing, as far as triggers see it.
* A trigger or a body gives control back. The guest is Go compiled to WebAssembly,
  which has one thread: a body that never yields stops the loop, and only the
  deadline ends it.
* `events` holds no triggers of events that change events: the SDK documentation
  forbids it, since it deadlocks.
* The guest is the first run of its plugin, so that its host functions are its own;
  `Plugins` shows what is true of later ones.

### Games

A request is one handler between its reads and its write; `at` is the game it has
read, `which` the team or challenge. Time has steps, so that a handler may decide
before `From` and write after it.

| Code | Actions |
|---|---|
| `game.Create`, `Update`, `Delete` | `CreateGame`; `UpdateRead`, `UpdateWrite`; `DeleteTeams`, `DeleteChallenges`, `DeleteGame` |
| `team` and `challenge`: `Create`, `Delete` | `CreateRead`, `CreatePart`; `RemoveRead`, `RemovePart` |
| `challenge.Start` | `StartRead` (the game), `StartClock`, `StartChallenge`, `StartRun`; `Leave` ends it |

* A handler reads, and looks at the clock after that. Where time can only refuse it
  (update, creation, removal) the read and the look are one step: what passes later
  would have passed at once. Start is also refused *before* `From`, so that waiting may
  admit it: its read and its look are two steps, and `since` and `until` are what it
  has read. `DeleteGame` asks for the end and writes in one conditional call.
* The clock may read `From` itself. The code then lets both in, what must come before
  it and what must come after (`Begun`, `Past`).
* A message with `From` not before `To` is refused before it reaches a handler
  (api/v1/play/game.proto:24).
* `stale` are the updates whose ETag no longer matches: `game.Update` writes with one,
  the other handlers without.
* A team and a challenge are both a *part* of a game. They differ in when they may be
  removed, and in the order in which `Delete` looks for them.
* `newer`, `late`, `overtaken` are history: what a deletion cannot have seen, what was
  created while its game was deleted, and which requests were overlapped.

### Identity

`owner`, `active` and `code` are the Creds record of an email, `users` and `email`
the User records. `server` is the process: down, up, or between the steps of its
first start.

| Code | Actions |
|---|---|
| `bootstrap.CreateAdministrator`, and `main` after it | `StartUser`, `StartCreds`, `StartRole`, `PrintCode`; `Crash` between any two |
| `UserService` | `CreateCreds`, `CreateUser`; `ResetPassword`; `Delete` |
| `AuthService.Register` | `RegisterRead`, `RegisterUser`, `RegisterCreds` |
| failures | `Fails` |

* Codes are fresh and random: nobody registers with one that was not handed out
  (`known`).
* `Login` and `Update` change neither who owns what nor a code.
* `used`, `latest`, `raced`, `lost`, `torn` are history.

### Authorizer

A check reads the user (`ReadUser`), the role (`ReadRole`), then takes the time and
replaces the cached policy (`Fill`); `Hit` and `Miss` are its look at the cache.
`until` is the deadline the interceptor puts on the request. What administrators
change in between is `CreateRole`, `DeleteRole`, `ConfigureRole`, `AttachRead` with
`AttachWrite`, `DeleteUser`. `since` (history) notes when the permissions of a
subject last changed, or were cached by a check that a change overtook
(`disturbed`).

## What is checked

`AccountPoolBusy`, `ScoringLoop` and `PluginsLoad` check liveness, `Scenario` both,
and the others safety under `Spec`; `PluginsHost` expects a violation.
`CHECK_DEADLOCK FALSE` everywhere: the clock, the counts and the slots are
bounded, and the models stop when they are used up.

| Run | Question | Result |
|---|---|---|
| `AccountPoolLease` | Can three requests with their jobs, on one account, with provider failures and a crash, lend it twice or work on it while it is lent? | no: `ExclusiveLease`, `LeaseIsRecorded`, `JobsExclude`, `NoJobUnderLease`, `ReadyIsPrepared`, `ClaimsOnlyFree`, and the pool implements `AccountLease` |
| `AccountPoolBusy` | Does a busy state end without a restart, although calls fail? | yes: `BusyEnds`, and until then it has a job that works on it: `BusyHasJob` |
| `ScoringLedger` | Do score and events agree, with two guests and two UncoverClue in any order and failing writes? | up to the second writes that are to come or were lost: `Ledger`; `OneShotLoggedOnce`, and paid at most once for each time it was added and each event that was lost: `PaidOnce`; `AwardsAreLive`; and a clue without a price was added before Start: `OnlyEarlyCluesAreFree` |
| `ScoringLoop` | Is a check that stays passed awarded in the end? | yes: `AwardComes` |
| `Plugins` | Do hash and binary agree, do guests share one compiled plugin, is its code that of the hash, with failures and a restart? | yes, but for torn definitions and runs that a write overtook: `HashIsOfBinary`, `SharedPages`, `CodeIsOfHash` |
| `PluginsLoad` | Does every load end? | yes: `LoadEnds` |
| `PluginsHost` | Does a guest act for its own run? | violated |
| `Providers` | Does the cached client follow the record, and does no account lose its provider, with three handlers, failures and a restart? | yes, but for the ways it names: `CacheFollowsRecord`, `OrphansAreLate` |
| `Scenario` | Do events start and stop their bodies, do bodies get the locks, does every run end and show it, with failing calls, panics, cancel and the deadline? | yes: `LiveBodiesAreActive`, `EndsAreVisible`, the run implements `EventBodies` (`ImplementsEventBodies`), and under fairness `QuietEventsStop`, `CallsReturn`, `JobEnds` |
| `Games` | Does a game keep its parts, and a run its game, its challenge and its deadline, with three requests? | yes, but for what overlapped: `OrphansOverlapped`, `RunsEndWithGame`, `RunsHaveGame`, `RunsHaveChallenge` |
| `Identity` | Do users and credentials go together, do codes work until they are used and not after, is the administrator complete, with failures and crashes? | yes, but for what it names: `UsersHaveCreds`, `CredsHaveUser`, `UsedCodesAreDead`, `LatestCodeWorks`, `AdministratorComplete`; codes are as `Invitations` has them: `ImplementsInvitations` |
| `Authorizer` | How long does a revoked permission work, and is a granted one ever refused? | the timeout of the cache at most, never: `StalePolicyEnds`, `StaleRequestEnds`, `DenialsAreCurrent` |

Each property of a passing run has a mutant in `PROJECT.json`: a plausible bug in
the code (a write without its ETag, a dropped guard, a missed unlock), written
next to the definition it changes, which breaks the property in that run.

### The properties say what is true, exceptions included

Where the code lets a hazard happen, a property names the ways and holds of everything
else: it says where the fault ends, and would catch a further way, but not the fault.

* The lease properties leave out accounts an administrator applied **Fix** to:
  Fix takes an account back to Ready in any state, by design. `JobsExclude`,
  `NoJobUnderLease` and `ReadyIsPrepared` also leave out accounts that a job
  which lost its lock marked Corrupted (`contested`): those reports carry no
  ETag. `Clean` is the set of the others.
* `Ledger` does not claim that score and events are equal. It says by how much
  they differ, and why: by the second writes in flight and by those that failed.
* `HashIsOfBinary` excludes definitions with a handler between its writes and
  torn ones, where a handler was cut short between its writes or two overlapped.
* `CodeIsOfHash` names the runs that may put other code under a hash: the runner knows
  the hash when the run starts, the factory reads the binary when the mutex of the cache
  is its own, and an Update or Delete may come between. The code then stays under that
  hash for every later run, of whatever definition, until the server is restarted.
* `PaidOnce` bounds what a check that does not repeat can bring a team by how often it
  was added and how many of its events failed to be written: the guest asks again
  after the latter.
* `BusyHasJob`, like `BusyEnds`, is about the time up to a restart: nothing resumes the
  jobs that one ends.
* `CacheFollowsRecord` names the two ways a cache falls behind: an Update whose
  second read failed, and a handler that fills the cache from a record it read
  before an Update. Either lasts to the next Update (or restart), which may be for
  good. `OrphansAreLate` says that Delete strands an account only if the account
  was created after Delete had looked for accounts; the code does nothing
  against that, and the error of provider.go:207 reads as if it did.
* `OrphansOverlapped` is the same for games; `RunsEndWithGame`, `RunsHaveGame` and
  `RunsHaveChallenge` name the ways in which a run loses them, `overtaken`: an update
  was written between Start's reading of the game and its look at the clock
  (challenge.go:273 and :280), an update was under way at that look, a removal when
  Start read the challenge, or either had read the game at the instant `From`. Beside
  these, that an update is refused once the game has begun keeps leases and deadlines
  right, and TLC finds each of them when its marking is taken out.
* `CredsHaveUser` names the users that were deleted and those a failed Create never
  wrote. Their email is taken for good: Creds are created, never removed.
* `UsersHaveCreds` and `AdministratorComplete` leave out a first start cut short. The
  user is written first, and its presence ends every later bootstrap, so that "with
  credentials and admin role if not existing already" (bootstrap.go:16) is true of starts
  that complete and of no later repair.
* `LatestCodeWorks` leaves out a reset while a registration of that email is under
  way: the registration then clears the new code. Two registrations by one code that
  overlap may also both complete; `UsedCodesAreDead` is about those that come later.
* `Invitations` lets who was admitted complete after the code was used by another, or
  replaced: that is what Register does, which compares the code and clears it in two
  calls. It lets nobody in by a code that was used or replaced.
* `EventBodies` does not promise that a body that was told returns, nor that an event
  whose body was told gets another: RemoveEvent comes before that.
* `StalePolicyEnds` counts from the change or, if a check read one record before and
  another after it, from its fill. Such a check may cache a combination of records
  that never was: it too ends within the timeout.

### What the violation shows

* `PluginsHost`: a plugin is compiled with host functions bound to the first run
  of its hash; later runs instantiate that compilation, so their scores, metadata and
  cancels act for the first run. `HostIsOwn` is a statement of the repository that the
  code does not keep.

### What the documentation says and the code no longer does

* docs/challenges/aws/sdk.md:134 tells of a "known bug, as of today": the check loop
  changes a copy of the check, `last` and `retired` are never written back, `Every` does
  not throttle and "a non-`Repeat` check re-awards every cycle". The check map holds
  pointers (pkg/challenge/challenge.go:60 and :222), so the document is out of date.
  `OneShotLoggedOnce` and `PaidOnce`, which contradict it, hold of the code
  (`ScoringLedger`, and the theorems `LoggedOnce` and `TeamPaidOnce`); the code it
  describes is the mutant `LogKeepsLive`, which breaks both.

### Met while modelling and left without a run

Accounts:

* The report of a Create or Delete job that lost the race for its lock writes
  Corrupted over a record that somebody else locked (account.go:420). Reset accepts
  Corrupted, the account reaches Ready and Running while the first job still makes
  provider calls, which account.proto:23 forbids. `contested` names these accounts.
* An account that is unbound early "so it can be reused" (challenge.go:404) stays
  Running, and Start looks for Ready. Unbinding adds a minute that may pass the end
  of the game (challenge.go:413). A crash leaves an account in Deleting, and only Fix
  leaves that state (account.proto:31).
* `Prepare` keeps the name of the new bucket in the client that all handlers of the
  provider share (prepare.go:69); a second Prepare before Assets replaces it.

Plugins:

* The factory of a load reads the binary the definition has by then, and what it compiles
  is cached under the hash the run was started with (internal/challenge/challenge.go:77); `CodeIsOfHash`
  says when the two differ. Nothing compares them.

Scores:

* updateScore has incremented the team when its event fails; the guest awards again,
  so that a check without Repeat is credited twice (internal/challenge/challenge.go:197).
  `Ledger` counts it.
* AddClue before Start drops the price, UncoverClue needs it (pkg/challenge/challenge.go:155);
  `OnlyEarlyCluesAreFree` says that no other clue lacks one.
* Update may move a running challenge to another team (challenge.go:206): its run goes
  on scoring for the old one. A team may be deleted while its challenges run (team.go:191).

Runs:

* An event that was cancelled stays in activeEvents, so its body never starts again,
  although orchestrateEvents "starts / stops them accordingly" (pkg/challenge/challenge.go:336).
  AddEvent over an event keeps its old body; RemoveEvent and AddEvent leave the old
  body, cancelled, beside the new one.
* `Event.Every` is never read (pkg/challenge/challenge.go:24). The trigger of a check
  that calls AddCheck waits for itself (pkg/challenge/challenge.go:378).
* cancel writes Error under the context it has just cancelled (internal/challenge/challenge.go:129).
  The report "failure while starting challenge" replaces whatever the guest said. A run
  that ends by the deadline locks under the context that has expired, so it is reported
  as failed (challenge.go:406).
* A failed host call reaches the guest as a decode error where the SDK documentation
  speaks of zero values (docs/challenges/aws/sdk.md:225). Nothing keeps a plugin from
  starting two scenarios (pkg/challenge/challenge.go:43).

Games:

* A game that ends with a team or a challenge can never be deleted: Delete wants none,
  and by then none can be removed (game.go:167, team.go:206).
* Start ignores the error of its read of the team (challenge.go:294).

### Bounds

| Constant | Value | Why it is enough |
|---|---|---|
| `Accounts` | 1 | handlers and jobs touch one account each; a second would only be a second copy. Races need several slots on one account |
| `Procs` | 3 | a lease, a job and a third request that takes one from the other; the shortest counterexamples (mutants, violations) need two or three |
| `Deadlines`, `MaxTime` | {2,4}, 4 | two games with different ends, one in reach of an early unbinding and its grace, and room for a second claim |
| `UnbindDelay` | 1 | the grace of one minute, the unit of the clock |
| `Runs`, `Requests` (Scoring) | 2, 2 | two guests of one challenge, two players that uncover one clue |
| `MaxCount` | 2 | an item counted twice is the error looked for |
| `Every` | 0, or 2 for a repeating check | due in each round, or throttled over one |
| `Checks` | 1 in ScoringLedger, 2 in ScoringLoop | checks meet only in the loop, where the second may hold up the first |
| `Definitions`, `Binaries` | 1, 2 | the records and the cache are per definition and per hash; two hashes let an update replace one under a load |
| `Requests`, `Runs` (Plugins) | 2, 2 | two overlapping updates, two loads of one hash |
| `Providers`, `Accounts`, `Clients` | 1, 1, 2 | the cache is per provider; a second client replaces a first. |
| `Names`, `Bodies` (Scenario) | 1, 2 | events meet only in the lock, which `todo` walks; two bodies are an old and a new one of an event. Three bodies pass too |
| `Games`, `Teams`, `Challenges`, `Requests`, `MaxTime` (Games) | 1, 1, 1, 3, 3 | a game against its parts; an update, a Start and a third that overtakes; a time before, between and after From and To |
| `Emails`, `Users`, `Codes`, `Requests` (Identity) | 2, 3, 4, 2 | the administrator and a user, and an id for a second Create; a code for each invitation and a reset; two overlapping registrations |
| `Subjects`, `Roles`, `Procedures`, `Requests` (Authorizer) | 1, 2, 1, 2 | the cache is per subject; a role is exchanged for another; two checks that overtake each other |
| `Timeout`, `Threshold`, `MaxTime` (Authorizer) | 3, 1, 5 | an entry is used, is too old to be used, and is filled again before and after a change |
| `Handlers`, `MaxVersion` (Providers) | 3, 3 | an update, a handler that read before it, and one that uses what is cached; two updates of one record |

The theorems below hold without any of these bounds. Symmetry is used in safety
runs only, and `AccountPoolLease` compares states without `restarted`, which only
liveness asks for (`View`). `MaxCount` bounds how often a check may be added, how often a repeating
trigger passes, and how many failed second writes TLC explores; `MaxTime` bounds
`Tick`.

### Fairness

* `AccountPool`: weak fairness of each slot's job. The scheduler starts a
  goroutine per job (scheduler.go:31), the Go runtime runs it, and every
  provider and store call returns (the AWS SDK and the store have timeouts). No
  request needs to come, no handler needs to finish, the clock need not advance.
* `Scoring`: weak fairness of a guest's loop, which sleeps and goes on as long as
  the guest lives (pkg/challenge/challenge.go:326), and strong fairness of the two
  writes of an award: a store that is retried for ever works some time. Without
  it nobody could promise anything; with it, the retry is what is checked.
* `Plugins`: weak fairness of a load (it is a goroutine), strong fairness of
  taking the mutex: `sync.Mutex` hands over to who waits longer than a
  millisecond.
* `Scenario`: weak fairness of the runner, of the job, of the set-up and of the loop,
  each a goroutine whose calls return; strong fairness of a body that waits for a
  lock: a `sync.RWMutex` is given in turn, though the loop takes it again in every
  round. The deadline has none, or every run would end by it; nor have bodies and
  players.

## What is proved

TLAPS proves these for all values of the constants, from the assumptions stated
with the constants (`PoolAssumption`, `ScoringAssumption`, `PluginsAssumption`,
`ProvidersAssumption`, `ScenarioAssumption`, `GamesAssumption`, `IdentityAssumption`,
`AuthorizerAssumption`: the null values are not members, bounds are naturals, sets of
runs and requests are finite where they are counted; a policy that was just cached is
fresh, which a `policy-cache-timeout` of 30 seconds or less would not be: hornet.go:102
lets it be set, and then every request is denied).

| Theorem | Says |
|---|---|
| `TypeCorrect` of each of the eight modules | types |
| `LeaseExclusive`, `LeaseRecorded` | the two lease invariants |
| `OneJobPerAccount`, `LeaseUndisturbed`, `ReadyPrepared` | jobs exclude each other and challenges; the pool holds prepared accounts |
| `ClaimsFree` | action property: Running is entered from a free account |
| `PoolImplementsLease` | refinement: `Spec => Lease!Spec` |
| `BusyAttended` | an account in a busy state has a job that works on it, up to the first restart |
| `ScoringProofs!LedgerKept`, `LoggedOnce`, `TeamPaidOnce`, `AwardsLive`, `CluesArePriced` | ledger, at most one event per one-shot check, its pay, awards from live checks, which clues have no price |
| `RetiredLogged` | a check the loop no longer asks for has its event |
| `PluginsProofs!HashAgrees`, `PagesShared`, `CodeOfHash` | the two records, the cache, the code under a hash |
| `MutexHeld` | the mutex of the cache is held by just the run that is loading |
| `ProvidersProofs!CacheFollows`, `OrphansLate` | the cache against the record, accounts against a Delete |
| `ScenarioProofs!BodiesStayActive`, `EndsStayVisible` | the bodies that can be cancelled, the ends that can be seen |
| `ScenarioImplementsEventBodies` | refinement: `Spec => Promise!Spec` |
| `RoundTells`, `JobFollows` | a round tells the bodies of an event that says no; the job is past the guest just when the guest is over |
| `GamesProofs!OrphansAreOverlapped`, `RunsAgreeWithGame`, `RunsKeepGame`, `RunsKeepChallenge` | the four invariants of games |
| `IdentityProofs!UsersKeepCreds`, `CredsKeepUser`, `UsedCodesStayDead`, `LatestCodeStays`, `AdministratorStays` | the five invariants of users and credentials |
| `IdentityImplementsInvitations` | refinement: `Spec => Codebook!Spec` |
| `AuthorizerProofs!PolicyEnds`, `RequestEnds`, `GrantsAreImmediate` | the two bounds on stale permissions, and the action property on denials |

Arguments:

* **AccountPool.** None of the invariants is inductive by itself. `IInv` adds:
  `ETagsHold`, that as long as an ETag matches, what its slot found when it read
  the record is still so (the state Reset saw, the free account Start saw) - this
  is what makes "read, decide, write" safe; `JobsHoldState`, that a job's account
  is in the state the job put it in - this makes writes without ETags safe;
  `LeaseIsRunning`, that under a live lease the record stays Running, so that no
  handler but Fix gets past its read; `WasCreated`, that a slot's account exists
  or existed. Lemmas say who may begin a lease (`LeaseBegins`), who may begin a
  job (`JobBegins`) and who writes the bound (`BoundWriters`); the preservation of
  each conjunct rests on them. The refinement maps a live slot to a lease:
  `Claim` is a Grant, FixWrite a Void, everything else an End or a stutter.
  `BusyAttended` is proved slot by slot: `JobCovers` says that a step makes an account
  busy only by putting its own slot to work on it, and lets its slot go only with the
  account out of its busy state; whichever slot attends the account, it goes on.
* **Scoring.** `LoggedOnce` needs the count of runs that hold a check live
  (`LiveWasIssued`): events plus live holders never exceed how often it was added;
  a run that is about to log holds the check (`AwardIsLive`, the lock of the
  round), so logging moves one unit from one count to the other. `LedgerKept`
  follows the cardinalities of the sets of awards and charges in flight. `TeamPaidOnce`
  is arithmetic over the two: credits are events, awards in flight and lost events, and
  the runs with an award in flight are among those that hold the check live.
  `RetiredLogged` is inductive with `OffRetiresNothing`: `Log` retires a check as it
  writes its event, and events are never taken back.
* **Plugins.** `OneToucher` says that a request between its writes is the only
  one, on a definition that is not torn, and has in hand what it wrote; from
  that the second write makes hash and binary equal. `LockIsHeld` and
  `RunningIsCached` carry the cache: who compiles holds the mutex and found the
  hash missing, so no compilation replaces one that has guests. `StraightRuns` says
  that a run which is not `strayed` finds, until it has fetched, the binary of the hash
  it knows, and has that binary afterwards; `WritesNoted`, that no write of a binary
  goes by unnoted. From that, what it compiles is the code of the hash.
* **Providers.** `CacheFollowsRecord` needs that a handler which is going to load
  has read a real record (`SeenIsReal`) and that a cached client was built
  (`CachedIsBuilt`), so that a fill never rebuilds a client another provider uses.
  `OrphansAreLate` needs `DeletersLook`: of the accounts a Delete found missing,
  all that exist when it writes were created since, hence late. `IssuedOnly` says
  that a new provider id meets neither record, client nor handler. Most steps are
  quiet, they write no record and no cache; three lemmas (`QuietStep`,
  `QuietReturn`, `QuietBegin`) do for all of them.
* **Scenario.** The two invariants are inductive once typed: `RemoveEvent` is the only
  step that takes a body out of activeEvents, and it cancels it; the job is over
  only through Unbind or Report. The refinement of `EventBodies` maps a body to its
  event, and the told ones to the cancelled ones that have an event (`told`); it needs
  `LiveBodiesAreActive` for the guard of Start, and `Named` (a body that does not run
  has no event) so that a goroutine started anew was not told. It says more than the
  invariant: cancelling cannot be undone (a `KeepBody` that did so keeps
  the invariant and breaks the refinement).
* **Games.** `DeletionsOK` says that a deletion past a look sees every part of that
  kind but those in `newer`; with `CreationsOK` (a creation whose game is gone was
  overtaken) it gives `OrphansOverlapped`. `StartsOK` says that a Start that is not
  overtaken has the times of its game, and that from its look at the clock on the game
  has begun and no update can be written: each that is under way has lost its ETag, and
  none passes its check any more but at the instant From, which overtakes. `StartedOK`
  says the same of its challenge and the removals.
* **Identity.** `RequestsOK` says what a request between its writes can rely on: its
  user id is its own, its code was issued to it. `CodesOK` says that codes in the
  records, used ones and new ones differ, `LatestOK` that the latest code of an email
  is valid or being used, `BootOK` what a start has written so far. The refinement of
  `Invitations` maps `open` to the codes in the records and `admitted` to what the
  registrations under way have compared; `used` and `issued` are its `spent` and
  `dealt`. `RegisterCreds` completes what its request was admitted by, though the record
  may hold another code by then; that nobody is admitted by a spent code is
  `UsedCodesAreDead`, which `CodesOK` makes inductive.
* **Authorizer.** `UndisturbedIsCurrent` says that what a check in flight has in hand is
  what the records say, unless it is disturbed, which gives the bound at its fill;
  `NotFar` that no change lies in the future and no entry further ahead than the timeout. `since`
  only grows, and a hit changes nothing in the cache.

Only model-checked: the liveness properties `BusyEnds`, `AwardComes`, `LoadEnds`,
`QuietEventsStop`, `CallsReturn`, `JobEnds` (fairness is out of the prover's reach), and
the violation. What each of the first four and the last rests on is a theorem all the
same: `BusyAttended` (there is a job whose fairness may be used), `RetiredLogged` (the
loop does not stop asking too early), `MutexHeld` (who waits, waits for a run that is
loading), `RoundTells` (the round that comes does what is asked of it), `JobFollows` (the
job is let go when the guest is over). Every invariant, action property and refinement of
the runs has its theorem. The type invariants are proved, and no run repeats them.

## Not modelled

`PROJECT.json` lists every component with its status.

* *Most of the lines of the repository.* Of its 200 000 lines of code the SDK's bindings
  for AWS services, which are generated from the providers' schemas
  (`pkg/challenge/aws/services`), and the example challenges are nearly all. The first
  are types and builders without state, the second are programs that use the SDK. The
  server itself (`cmd/hornet`, `internal/`) has 7 500 lines; the maps cover most of its
  handlers that write. The share of all lines is low for that reason and stays so.
* *AWS.* The calls are steps that succeed or fail. Of the provider's own state
  `assetBucket` and the guard policy are in `Providers`.
* *Writes whose outcome is unknown.* A call that fails has changed nothing. One that is
  carried out and reported as failed (a lost answer) would add cases: an award retried
  after it is logged twice.
* *Fields nothing decides on*: names, descriptions, profiles, organisations, players,
  scores of users. *Scopes*: a call that is out of scope is refused and changes nothing;
  `AttachScope` is not modelled. *Passwords and tokens*: hashing and signing are taken to
  work; Login changes no record.
* *Guest resources*: assets, permissions, guardrails and resources change the cloud
  account, not the server's state. They are calls that succeed or fail in `Scenario`.
* *Challenge.Update* (a challenge to another team): told above.
* *OLAP, the console, identifiers*: written or computed, never read back by a handler
  that decides on them. Ids are taken to be fresh.
* *jamctl, the web front end, generators, examples* keep no state of the server.

## What a further step could be

Scores of two teams, which a challenge moved by Update would need; scopes as a second
dimension of `Authorizer`, with AttachScope; a read-through cache as an abstract
specification that `Providers` and `Authorizer` implement up to the ways they name; an
abstract score book, with awards and charges that are begun, paid and entered, for
`Scoring`; and the composition of `Scenario` with `AccountLease`, which now meet only in
`bound`.
