# Flydaro: models, checks and proofs

Flydaro is a game about renting capacity on real flights. Its server is a
FastAPI application (`src/backend/app`) over PostgreSQL; there is no poller and
no worker process. Everything that happens to a tracked flight happens because
some player loads a flight board (`GET /flights/board`, whose work runs as a
background task after the answer) or looks at his rentals (`GET /rentals/mine`,
`GET /rentals/{id}`). So the state machine of a flight, and of the rentals
placed on it, is driven by several database transactions at once, none of which
locks a flight, a rental or a wallet before it reads it. That is what these models
are about.

All transactions run at PostgreSQL's default READ COMMITTED: `db/session.py`
sets no isolation level, and no query uses FOR UPDATE.

## 1. Inventory

| Component | State | Operations | Interacts with |
|---|---|---|---|
| Flight and rental lifecycle (`services/rental_service.py`, `models/flight.py`, `models/rental.py`) | rows of `tracked_flights` and `rentals` | `lock_capacity`, `mark_landing_suspected`, `rollback_landing_suspected`, `resolve_tracked_flight`, `create_rental`, `claim_rental` | called by board discovery, landing checks and the rentals router; writes the ledger |
| Board discovery (`services/flight_discovery_service.py`, `routers/flights.py`) | `airports.last_polled_at`; creates flights | `refresh_board_for_airports`, `_process_airport_states`, `_resolve_via_ceiling_or_grace` | one transaction over all airports of the board; adsb.fi; lifecycle functions |
| Live landing check (`services/flight_status_service.py`, `routers/rentals.py`) | `tracked_flights.last_status_check_at` | `_refresh_flights_for`, `refresh_flight_status` | one transaction over all rentals listed; awaits adsb.fi inside it |
| Takeoff, landing and ceiling tests (`worker/tracker.py`, `worker/thresholds.py`, `worker/geo.py`) | `first_seen_at`, `last_seen_at`, `landing_suspected_at` | `looks_like_recent_takeoff`, `looks_like_landing`, `record_sample`, the window, the grace period and the two ceilings | functions of a row, a state and the clock |
| adsb.fi client (`worker/adsb_client.py`) | a lock, the time and the outcome of the last request | `get_states_near`, `get_state_for_icao24`, `_throttled_get` | both refreshes above |
| Settlement formula (`services/settlement_service.py`) | none | `compute_settlement` | called by `resolve_tracked_flight` |
| Wallet and ledger (`services/wallet_service.py`) | `wallets.balance_credits`, `wallet_ledger` | `apply_ledger_entry` | called by signup, licences, crew, rentals and claims |
| Licences (`services/license_service.py`) | `user_airport_unlocks`, `user_aircraft_family_unlocks`, `airports.is_active` | `unlock_airport`, `unlock_aircraft_family` | wallet; checked by rentals, hires and the board |
| Crew (`services/crew_service.py`) | `user_airport_crew` | `hire_crew`, `count_busy_rentals` | wallet, licences; checked by `create_rental` |
| Accounts and refresh tokens (`services/auth_service.py`) | `users`, `refresh_tokens` | `signup`, `login`, `refresh`, `logout` | wallet, crew; the browser client |
| Browser client (`frontend/src/api/client.ts`, `tokenStore.ts`, `auth.ts`, `auth/AuthContext.tsx`) | the refresh token in local storage, shared by all pages; per page the access token, `refreshPromise`, `isAuthenticated` | `apiRequest`, `tryRefresh`, `login`, `logout` | accounts |
| Migrations (`backend/alembic`) | every table, `alembic_version` | 22 upgrades and downgrades | what players have left in the tables |
| Start-up (`app/main.py`) | phase of each process, its migration thread | `lifespan`, `_run_migrations` | migrations |
| Everything else | | catalogue and leaderboard reads, schemas, pages, achievements | no state machine of their own |

What is hard, per component:

- **Lifecycle, board, landing check.** Transactions interleave at every await.
  SQLAlchemy keeps the objects a session has loaded and never reads them again
  (`expire_on_commit=False`, identity map), so decisions are taken on rows that
  others have overwritten; its UPDATE sets only the columns that were assigned.
  PostgreSQL serialises the writes of a row, but not a read with the write that
  follows it. Correct means: rentals move with their flight, no aircraft has
  two open flights, a settled rental is final and settled for the outcome that
  was committed with it, a closed rental window does not open again, a reward
  is credited if and only if its rental is CLAIMED.
- **Timers.** A refresh reads the clock once, waits for adsb.fi, and stamps,
  tests and settles with the time it had read. Nothing happens to a flight
  unless somebody polls. Correct means: every flight resolves while somebody
  loads its board, settlements are computed from durations the flight can have
  had, a flight is only given up as lost if it was not heard of.
- **Wallet, licences, crew.** The balance is read without a lock and written as
  an absolute value; hires write the count they read plus one; licences rely on
  their primary key. Correct means: nothing is charged twice or got for
  nothing, the balance is never negative, no request waits for ever.
- **Sign-in.** A refresh token is used once; several calls, several pages,
  lost answers and reloads all want to use it. Correct means: one refresh per
  page, no used up token is left in the store, no page replays a token.
- **Migrations and start-up.** Constraints, seeds and enums are kept in step by
  hand over 22 scripts, on tables that players fill in between; the upgrade
  runs in a thread that its timeout cannot stop. Correct means: schema and
  catalogue depend on the revision alone, history is kept, nobody serves
  another schema than the head's.

`PROJECT.json` lists every hazard at its line, with the properties that cover
it. Two have none, and say why: the traffic that a stale throttle lets through,
which no state depends on, and the refusal of 0005, which does happen and is
reported in section 5.

## 2. Modules

| Module | What it is |
|---|---|
| `FlightRows` | the rows of flights and rentals and what each lifecycle function does to them; pure operators |
| `FlightLifecycle` | sessions that run board refreshes, landing checks, rentals and claims over those rows; its properties |
| `FlightLifecycleInv` | the inductive invariant of `FlightLifecycle` |
| `RentalContract` | abstract specification: what a player is promised about a rental, without transactions |
| `RentalRefinement` | the refinement mapping from `FlightLifecycle` to `RentalContract` |
| `RequestsInTurn` | what the checks of `create_rental` and `claim_rental` promise as long as requests do not overlap |
| `MCFlightLifecycle`, `MCRequestsInTurn` | instances of the lifecycle for TLC |
| `FlightLifecycleProofs`, `RentalRefinementProofs` | theorems and proofs about it |
| `AdsbReports` | what adsb.fi reports, what the client makes of it, the takeoff and landing tests; pure operators |
| `Settlement` | `compute_settlement` in integers; pure operators |
| `FlightTimers` | one flight on a clock: board refreshes and landing checks that queue for the client |
| `FlightTimersProofs` | its theorems and proofs |
| `Wallets`, `MCWallets`, `WalletsProofs` | wallets, ledger, licences, crew and the requests that pay or are credited; an instance; theorems |
| `HiresInTurn` | what `hire_crew` promises as long as hires of a crew do not overlap |
| `RefreshTokens` | the `refresh_tokens` table of a user and the transactions of `/auth` that write it |
| `SignIn` | the pages of the browser over `RefreshTokens` |
| `MCSignIn`, `SignInProofs` | an instance of it; its theorems and proofs |
| `SqlTables` | tables, constraints and rows, and the statements of migrations on them |
| `MigrationScripts` | the 22 scripts as sequences of such statements |
| `ModelTables` | the tables as the classes of `app/models` declare them |
| `StartUp` | server processes, their migration threads and the database they share; the scripts are a parameter |
| `Migrations` | `StartUp` over the scripts and over what players leave at each revision |
| `StartUpProofs` | theorems and proofs about `StartUp`, for any scripts |
| `MigrationTemplates` | a template for each revision, which stands for every database at it; the 22 scripts run on templates |
| `MigrationsProofs` | theorems and proofs about `Migrations`, for any players |
| `Induction` | induction over the numbers of a set, for proofs about ledgers and scripts |

The models meet where the code does. `create_rental` and `claim_rental` are in
`FlightLifecycle`, which follows the rental and the flight and treats the debit
as a step that may be refused, and in `Wallets`, which follows the money and
leaves open when the flight resolves. Flights are in `FlightLifecycle`, which
takes transactions apart and leaves open when a timer has run out, and in
`FlightTimers`, where what a session does after its wait is one step and time
is explicit. Signup is in `Wallets` with its bonus and in `RefreshTokens`, where
it issues tokens as a login does.

A definition whose name ends in `Fault` (and a few beside their original with
a comment that says so) is a faulty form of the definition that follows it.
Nothing uses it; it shows, for each property, a bug in the code that the
property would notice.

Some checks of the code hold only while requests do not overlap. To say so, three
models have a history variable: `overlapped` of `RequestsInTurn` (rentals and crews
about which two requests were deciding at a time), `overlapped` of `Wallets` (users
whose wallet was read between another session's read and its commit) and `rivalled` of
`HiresInTurn` (crews that two sessions were hiring at a time). A history variable
never guards a step, so it adds and forbids no behaviour; `RequestsInTurn` and
`HiresInTurn` add theirs to each step of a model that does not know of it (`Record`),
and `HistoryIsSpec` proves that a behaviour of `HistorySpec` is one of `Spec`.

### FlightLifecycle

A *session* is one `AsyncSession`: one transaction that runs one handler.
`flight` and `rental` are the committed rows. `flightVer` and `rentalVer` are
the newest versions, which the session holding the row's lock has written and
not committed. `mem` is the session's identity map: `Loaded` returns the object
it has, if it has one. `Flush` is the flush of an assigned object: it waits for
the row lock, passes the unique index and writes the assigned columns over the
newest version (`Overlay`). A SELECT sees `Visible` rows. `Commit` publishes the
versions under the session's locks; `Rollback` takes them back, and stands for
every exception: a refused request, an HTTP error of adsb.fi, a violated
index, a deadlock victim, a crash.

| Code | Actions |
|---|---|
| `_refresh_board_background`, `refresh_board_for_airports`: one transaction over all airports that are due | `BoardBegin`, `BoardAirport`, `BoardQueryFailed`, `BoardCommit` |
| `_process_airport_states`: each reported aircraft | `BoardTakeoff`, `BoardCreate` (no open flight), `BoardFound`, `BoardSample` (lock, suspect, roll back or only record) |
| its sweep and `_resolve_via_ceiling_or_grace` | `BoardSweepBegin`, `BoardSweep`, `BoardSweepEnd` |
| `_refresh_flights_for`, `refresh_flight_status` with the await of adsb.fi between `CheckAsk` and `CheckAnswer` | `CheckBegin`, `CheckSkip`, `CheckAsk`, `CheckAnswer`, `CheckCommit` |
| `create_rental`: open check, crew check, insert and commit | `RentBegin`, `RentCrew`, `RentCommit` |
| `claim_rental`: status check; credit, new status and commit | `ClaimBegin`, `ClaimCommit` |
| any failure | `Rollback` |

Two facts of the code carry the model and are easy to overlook. First,
`last_polled_at` is assigned before the first query of an airport, and
autoflush writes it ahead of that query: a board session therefore holds the
airport's row lock for as long as it handles flights of that airport
(`airportLock`), and two boards never work on the same flights. Landing checks
take no such lock. Second, each lifecycle function assigns to the flight before
it selects the rentals, so the flight's row is locked before the rentals are
read; the rentals are moved under that lock.

Left out: amounts, display codes, licence checks (a refused request is
`Rollback`), and time. Whether a timer has run out, a throttle applies or a
state looks like a takeoff is a free choice at the place of the test, so
whatever holds here holds for every setting of `worker/thresholds.py`.

### RentalContract and RentalRefinement

The contract knows for each flight a stage, for each rental what has been agreed,
and whether it was paid out. A flight moves on in one step with its rentals
(`Travel`): a rental is in progress only while its flight is locked and resolving
only while a landing is suspected, and it is settled only in a step that leaves
the flight at the very outcome it is settled for. Only a rental that is still
flying may be left behind (it can be, see `left_behind`), a settled one is final,
and it is paid only once it is settled (`Pay`). A flight that is over may be put
back into the air (it can be, see `resurrected`), but never becomes unseen or
rentable again.

`RentalRefinement` maps the committed rows: `StageOf` a flight's status,
`ContractOf` a rental's status, or its `resolution_reason` once it is settled,
and `paid` is whether the ledger has a settlement of it. So the refinement says
something the two columns do not say by themselves: reason and outcome are
written by different statements, from different objects, and reach the database
together. A second credit of one rental (`double_claim`) is a stuttering step
of the contract, since its ledger only says whether there was one.

### FlightTimers

`flight` has the status and the three time stamps; a stamp is kept as its age in
ticks, and so is the time that a session has read (`now`), so that
`minutes_since` is a difference. `heard` and `airborne` are no variables of the
code: they are when a report was last received, and when a board last received one
that looks like no landing. Reports are those classes of `StateVector` that the two
tests of the tracker tell apart, computed in `AdsbReports` from records with
values on either side of each threshold, `"ground"`, missing and null fields
included.

| Code | Actions |
|---|---|
| `_throttled_get`: the one lock of the client | `Call`; every answer releases it |
| `refresh_board_for_airports`: throttle and clock; the rest, with the sweep of the airport; a query that raised | `BoardBegin`, `BoardAnswer`, `BoardFailed` |
| `refresh_flight_status`: throttle, clock and loaded stamps; the rest | `CheckBegin`, `CheckAnswer` |
| an error status in a check, a lost connection, a restart | `Abort` |
| the clock | `Tick` |

`get_states_near` answers 429 and network errors with an empty list, after which
the airport is swept; other error statuses raise and skip the sweep
(`BoardFailed`). One second of pacing is less than a tick. `MaxLatency` bounds how
long a session waits (the HTTP timeout times the queue); the theorems need that
it is at most the grace period and the lost-signal ceiling.

### Wallets

A session reads the wallet (`ReadWallet`), computes the new balance, waits for
the wallet's row lock (`UpdateWallet`) and finishes with the commit of its kind
(`UnlockCommit`, `HireCommit`, `RentCommit`, `ClaimCommit`), which writes the
balance it computed (`Post`). An unlock first inserts its row under the primary
key (`UnlockInsert`): `inserting` is the session whose uncommitted row holds the
key, for which others wait. A hire reads the count first (`HireBegin`); a first
hire is an INSERT and fails if the row exists by then (`RowAsSeen`). Signup is
`SignupBegin` and `SignupCommit`; from its INSERT to its commit it waits for
nothing, so that is one step. `Refuse` are the refusals the code raises, `Fail`
a lost connection. The crew row is written under the wallet's lock and the
airport's `is_active` just before the commit, so neither needs a lock of its own
here.

### RefreshTokens and SignIn

A `job` is a request on its way to the server, in its transaction (`LoadToken`
has tested the row, `Rotate` commits) or answered; the server goes on with it
whoever still awaits it. `RefreshTokens` has the rows with `revoked` and
`replaced_by`, and as history which token each was exchanged for (`parent`).

| Code | Actions |
|---|---|
| `login`, `signup`; `refresh` up to its test, and to its commit; `logout`; any failure or an expired token | `Login`; `LoadToken`, `Rotate`; `Logout`; `JobFails` |
| `apiRequest`: sent; ended without a 401; answered 401 with no token in the store | `StartCall`; `EndCall`; `NoRefresh` |
| `tryRefresh`: the first caller of a page; another one; its outcome | `BeginRefresh`; `AwaitRefresh`; `Refreshed`, `RefreshFails` |
| login and logout of `AuthContext` | `BeginLogin`, `LoggedIn`, `LoginFails`; `BeginLogout`, `LoggedOut` |
| a page is reloaded or replaced by another | `Reload` |

Access tokens are left out: they may expire at any time and are gone after a
reload, so any call may be answered 401. They also stay valid for up to 15
minutes after a logout. There is one user.

### Migrations and StartUp

`MigrationScripts` has every script statement by statement in its order;
`SqlTables` says what each statement does and when PostgreSQL refuses it (a
CHECK that existing rows violate, a foreign key still referred to, NOT NULL with
nulls, a missing column or constraint), checked at the end of each statement.
`env.py` opens one transaction around all scripts, so `RunUpgrades` either yields
the database at the head or leaves it alone. That a refused script leaves nothing
behind is thus a premise, read off `env.py`; what depends on it is what a mutant
of `Migrate` shows that keeps what the statements before the refusal did: neither
the schema nor the catalogue follows from the revision any more. `Migrations` starts at any revision
with one signed-up player and lets him do what the program of that revision let
him do (`Requests`): rent, settle, unlock, hire. The programs before the head are
not in the repository; their rows are those their tables admit.

| Code | Actions of `StartUp` |
|---|---|
| `lifespan`: starts the thread, or serves at once if migrations are off | `Start` |
| `_run_migrations`: the revision is read without a lock; the upgrade, up to its commit | `ReadVersion`, `Migrate` |
| the database does not answer; 60 seconds are over | `ConnectionLost`, `Timeout` |
| the interpreter joins the thread and exits; the process is killed | `Exit`, `Stop` |
| `alembic downgrade -1` while nobody is up; a player's request | `Downgrade`, `Play` |

`MigrationTemplates` models no code of its own. A template has the schema and
the catalogue of a revision and every row that a player may have left there,
with `Player` in the place of his ids. `Fits` says that a database is a template
with some players in it: the same schema, the same catalogue, and no row of a
player that is not one of the template's with his id filled in. `Tidy` and
`Impartial` say that a statement and the constraints treat all players alike,
`Pace` runs one statement on a template, and `ScriptsFit` says that the scripts
of a revision, run on its template, are tidy and lead to the template they
should. Section 4 says what that is good for.

An upgrade is one step: its first statement waits for the transaction of another
upgrade, and each script must find the revision before it, so the later of two
upgrades that read the same revision fails. A request inside an upgrade's
transaction is left out.

## 3. Runs

| Run | Instance | What it shows |
|---|---|---|
| `lifecycle_rentals` | one airport, flight and aircraft, two rentals of one user with one crew member, two sessions; 734 574 states | `TypeOK`, `RentalTracksFlight`, `ColumnsAgree`, `CreditedIffClaimed`, `CreditedOnceInTurn`, `BusyWithinCrewInTurn`, `SettledIsFinal`, and `KeepsContract`: the refinement of `RentalContract` |
| `lifecycle_airports` | one aircraft, two airports with a flight each, one rental, two sessions; 1 582 589 states | `OneOpenFlight`, `WindowStaysClosed` |
| `flight_timers` | two boards, one check, thresholds in the order of the code; 155 621 states | `TypeOK`, `DurationPlausible`, `FallbackIsWorse`, `LostIsUnheard`, `GraceUnbroken`, `FlightResolves` |
| `wallet_requests` | one user, a starter airport, a locked airport, a family, one rental, two sessions, up to three purchases after signup; 55 017 states | `TypeOK`, `LicencePaidOnce`, `BonusOpensLedger`, `CrewPaidFor`, `SequentialBalance`, `HiresCount`, `RequestsEnd` |
| `accounts` | two pages, one with two callers and a login form, one with a caller; three tokens; 1 281 658 states | `TypeOK`, `RotationChain`, `OneRefreshPerPage`, `StoredIsUsable`, `NeverReplays` |
| `migrations` | any revision, one player with two requests, three processes (two migrate) with two starts, any downgrades; 36 867 states | `TypeOK`, `ServesOnlyHead`, `NoUpgradeBehindServing`, `SchemaByRevision`, `CatalogueByRevision`, `HeadMatchesModels`, `RefusalsAreKnown`, `StarterCrew`, `ScriptsFit`, `ContentFits`, `HistoryKept`, `StartUpEnds` |
| `left_behind`, `resurrected`, `crew_race`, `double_claim`, `lost_update`, `window_open` | the same instances | each refutes one sentence of the code's comments, see section 5 |

*Bounds.* The conflicts the lifecycle properties are about are between two
transactions; two sessions reach each of them, since a session runs one handler
after another and the handlers in between are interleaved freely. Two rentals
make one flight carry rentals in different states, and with one crew member a
second rental can be placed only after the first has been settled, or by requests
that overlap: both happen, and only the latter may exceed the crew. Two airports make the flights
of one aircraft compete for the unique index while their boards do not exclude
each other. Sessions are symmetric in the lifecycle runs (only safety is checked
there), and so are the rentals, which have the same flight and owner.

`flight_timers` keeps the order of the thresholds in small numbers: throttles and
window at 1, the grace period at 2, reached at an age of 2 (`>=`), the lost-signal
ceiling at 2, breached at an age of 3 (`>`), the duration ceiling at 3. So there is
a tick in which a suspicion is too young to be confirmed, which `GraceUnbroken`
needs. Ages stop at limits beyond which no test tells them apart. Two boards
make one write with an older time than the other; the check is the third kind of
stale writer. There is one check, so that two checks of one rental at a time are
covered by the theorems only, which hold for any set of checks. `Settlement` is evaluated for every fee that the API accepts and
every item active at the head revision.

`Wallets` has one bound, `MaxEntries`: no request starts for a user whose ledger
is that long. Prices are small, and large enough that funds run out in some
orders and not in others. Its deadlock check is off, because it stops when the
ledger is full; that no request is stuck is what `RequestsEnd` says.

`accounts`: three tokens are a login and two rotations, or two logins and one;
a page needs two callers for its shared refresh and another page for its shared
store. A sender that has abandoned a request sends none until the server is done
with it, and nobody logs in once all tokens are issued. The callers of one page
are symmetric.

`migrations`: one player and two requests put a rental and its payout, or rows
in two tables, between any two scripts; that neither bound matters to the data
is proved. `ScriptsFit` is evaluated at all 23 revisions. Two starts let a migrating
process meet another one or a process that does not migrate, and which
`TypeOK` denies a migration thread. Its deadlock check is off: starts and requests
are bounded.

*Fairness.* `lifecycle_rentals`, `wallet_requests` and `lost_update` run a `HistorySpec`;
that of `HiresInTurn` has the `Fairness` of `Wallets`, and spells out the actions of
`Next` so that TLC counts each. The lifecycle and sign-in runs assume none and state
no liveness: without a poller nothing has to happen, and a browser may be closed.
`RequestsEnd` (`Wallets`) is checked under weak fairness of each step a started
request can take (the event loop resumes a handler whose await is done) and
strong fairness of the two steps that wait for PostgreSQL, which queues the
waiters of a row lock; nothing is assumed of `Fail` or of arriving requests.
`FlightResolves` assumes that time passes; that a session gets the client's lock
(strong: `asyncio.Lock` is first come first served) and its call ends (httpx has
a timeout of 20 seconds); that somebody keeps loading the board, and that not
every query fails. The last two are what the docs ask for, there being no
poller; the run shows that nothing else is needed, whatever is reported.
`StartUpEnds` assumes only that the timer of `wait_for` goes off.

## 4. What is proved

The proof modules prove every safety property that the passing runs check except
`ScriptsFit`, and the refinement, for any sets of airports, aircraft, flights,
rentals, users, licences, sessions, processes, pages, callers and tokens, finite
or not, any crew counts, any positive prices and any thresholds. The assumptions
are those named in the modules that declare the constants (types, ids of
different tables differ, `None` and `Null` are no ids, and for the timers that every
threshold is at most the duration ceiling and `MaxLatency` at most the grace
period and the lost-signal ceiling); the theorems about migrations have two
hypotheses more, which are explained there.

**Lifecycle.** `LifecycleInvariant` proves `LifecycleInv`, from which the
properties follow. None of them is inductive, because they speak of committed
rows and the damage is prepared elsewhere: in uncommitted versions and in
objects loaded long ago. `FlightInv` and `RentalInv` say what a transaction may
have made of a row so far, `IndexInv` extends the unique index to uncommitted
rows, `MemInv` says how far a loaded object can be out of date: a flight loaded
as closed has not become open since, and what a board has loaded can only have
been resolved since, because it holds the airport. `SessionInv` ties the
program counter to locks and loaded objects. The proof has a lemma for each
action; those that write go through `FlushLemma`, which is about any write that
respects the index (`GoodWrite`), and `CommitLemma` and `RollbackLemma`; the
other sessions are handled once, by `FrameLemma`. Note what the proof of
`OneOpenFlight` has to cover: a resolved flight can come back into the air
through a stale write (section 5), and it is the unique index that refuses it
when the aircraft has an open flight again.

The action properties `SettledIsFinal` and `WindowStaysClosed` follow from the
invariant and `PublishLemma`: a step changes a committed row only by publishing
its newest version, or by inserting or claiming one rental.

`CreditedOnceWithoutOverlap` and `BusyWithinCrewWithoutOverlap` prove of
`create_rental` and `claim_rental` what is left of their checks: as long as no other
request decides on the same rental or crew in between, what has been read is still
so at the commit. Boards and landing checks may do anything meanwhile. The
invariant is `InTurnInv` together with `LifecycleInv`: at most one session decides on
what has not overlapped (`AloneInv`), a session about to credit a rental finds it
uncredited (`ClaimsInv`), one about to insert a rental finds a free member
(`CrewInv`). `QuietSteps` needs `LifecycleInv`: every step but those of requests leaves
the credits alone and makes no rental busy that was not, since a settled rental stays
settled even when its flight comes back. Rentals are counted with `Cardinality`, so
`FiniteInv` says that only finitely many have been placed, however many there may be.

**Wallets.** `WalletsInvariant` proves `WalletsInv`. Its core is `JobInv`: what a
session knows of the rows it has read is still good when it commits. For a
licence, the key it inserted is still its own; for a hire, every member up to
the count it read has been paid for, and stays so since ledger rows are never
removed; for any debit, the balance it read could pay. `CrewPaidFor` then holds
although two hires can pay for the same member, and `TypeOK` includes that no
balance is negative although balances are overwritten.

`SequentialBalanceHolds` proves that the balance is the sum of the ledger for every
user whose wallet no two sessions have held at a time: then the balance that a
session loaded is still there when it commits (`SequentialInv`). What the sum of a
longer ledger is takes an induction over ledgers (`RunningTotalIs`, `TotalOfAppend`).
`HiresCountWithoutOverlap` proves that a crew has as many members as hires were paid
for, unless hires of that crew overlapped: then the count that a hire has read is
still the crew's (`RivalsInv`). An overlap of other requests of the user, which can
lose money, loses no member.

**Refinement.** `LifecycleKeepsContract` proves that every step of `FlightLifecycle`
is a step of `RentalContract` or leaves what it sees alone. Beyond
`LifecycleInv` it needs `TogetherInv`: in the versions a transaction is about to
publish, a rental settled by it has the reason of the status that its flight's
version has. The steps are first sorted by what they do to rows (`StepKinds`:
load, flush, insert, commit, roll back, claim), so that the invariant is shown
once for each kind (`TogetherStep`). Then a commit is a `Travel`
(`CommitTravels`), an insert a `Place`, a claim a `Pay`; all else stutters.

**Timers.** `TimersInvariant` proves `TimersInv`. Three facts carry it: a row's
`last_seen_at` is never older than its `first_seen_at` by more than one wait, though it may go
back when an older session writes later (`GoodRow`); what a check had
loaded and the time it had read fit the flight it loaded (`CheckInv`); and the
stamps, as committed and as loaded, are at most one wait behind the last report
received (`HeardInv`). `DurationPlausible` and `LostIsUnheard` follow.
`GraceIsUnbroken` needs a fourth, `AirborneInv`: the stamp of a suspicion was taken
at most one wait before the last report of the aircraft in the air that a board
received. (A slow board may have read the clock before that report and write its
suspicion after it; hence the wait.)
`FallbackPaysLess` proves `FallbackIsWorse` about `compute_settlement` itself, for
every fee the API accepts and every item.

**Sign-in.** `SignInInvariant` proves `SignInInv`: rows that are not issued are
blank (`TableInv`), a job fits the sender that awaits it, an issued answer has
not been handed out to anyone else (`JobInv`), tokens a page has replaced are
revoked and not in the store (`ReplacedInv`), and if the stored token has been
used up, the one whose request did so still awaits the answer (`StoreInv`).

**Start-up.** `StartUpInvariant` holds for any scripts: `ServesOnlyHead` does not
depend on what they do, only on that a thread which reports success has left the
database at the head and that nobody downgrades while a process is up.

**Migrations.** The scripts are given, but what they run on is not: any number of
players, who have made any number of requests at any revisions, and any
sequence of upgrades and downgrades. The argument has a finite half, which TLC
evaluates, and an infinite one, which is proved.

The finite half is `AllFit`: at each revision, `ScriptsFit`. It is a closed
formula (it has neither variables nor constants of the model), so that TLC's
run of `migrations`, which starts at each revision, establishes it. The
theorems have it as a hypothesis, with `TheseScripts`, which says that the
operators that `StartUp` leaves open are those of `Migrations`, as
`Migrations.cfg` gives them. Nothing else is assumed of the scripts.

The infinite half is that a script does to a database what it does to the
template that the database fits. It is shown statement by statement:
`RowsEffectFits` (a tidy statement keeps rows and their template together),
`LegalFits` (if the template's rows pass the constraints, so do those of any
players), `NarrowedFits` (if the database's rows have passed, they are among
those of the template that do: so a downgrade that is refused for some players
leads to the smaller template for the others). `WalkInStep` puts these together
by induction over the statements of a script. `RequestsFit` says that a request
leaves rows of the template and nothing else. So `ContentFits` is inductive
(`ContentIsItsTemplate`), and the properties of the data follow from it or are
shown along the same induction:

- `SchemaOfRevision`, `CatalogueOfRevision` and `ModelsMatchHead` compare the
  template with the database that only ever went up.
- `OnlyKnownRefusals` runs the upgrades on `Acceptable`, the template without the
  rows of `KnownRefusal`.
- `UpgradesTakeNothing`: each statement of an upgrade `Spares` what players have.
  That of 0005 on the ledger does so because the CHECK which is still there
  forbids it to change a row (`LedgerKept`); the renaming of the bets and of a
  status keep a rental's outcome (`RentalsKept`).
- `EveryoneHasCrew`: 0019 gives a crew to the users it finds (`CrewGiven`), signup to
  the others, and no later script or request writes the two tables in a way
  that loses it.

The tables are modelled with the columns that scripts or properties read, so
these theorems say as much about the scripts as `SqlTables` and
`MigrationScripts` do. Rows are written by requests whose transactions are not
open while a script runs.

Only model-checked: `RequestsEnd`, `FlightResolves` and `StartUpEnds` (liveness
under fairness is out of the prover's reach); `ScriptsFit` (22 scripts of known
statements on known rows: a computation); and the properties that the code
violates. `Execute` and `Walking` are recursive functions over the statements of
a script, and `RunningTotal` is one over the rows of a ledger: the induction over them
is `SetInduction` (module `Induction`), about a set of numbers, which the prover can be
given because it takes no operator as a parameter.

## 5. Where the code and its comments disagree

Each is a run whose property TLC refutes; the properties are stated as the
comment has it.

- `left_behind`: `resolve_tracked_flight` settles "each rental ... still open on
  this flight", but a rental that passed the open check and commits after the
  resolution stays FLYING for good: landing checks and sweeps pass over
  resolved flights.
- `resurrected`: it is a "terminal transition", but a board that loaded the
  flight earlier writes an open status over the resolved one.
- `crew_race`: the crew count "is the ceiling" of rentals in progress, but two
  requests both count the same member as free. (It is the ceiling while requests of
  that crew do not overlap: `BusyWithinCrewInTurn`.)
- `double_claim`: "Reward already claimed", but two claims that both read
  RESOLVED are both credited. (One at a time, they are not: `CreditedOnceInTurn`.)
- `lost_update`: the balance is "a cached running total kept in sync", but of
  two requests that read the same balance one is lost while both ledger rows
  stay. (Otherwise they agree: `SequentialBalance`.)
- `window_open`: the rental window is "how long AIRBORNE_OPEN stays open ...
  before locking", but it is only tested on an aircraft that a board's answer
  contains; a flight that has left the 30 nm around its airport stays rentable
  until a ceiling resolves it.

Seen while modelling, and allowed by the models, without a run of their own:

- The grace period is there "to rule out ... a touch-and-go/go-around"
  (`thresholds.py:35-36`), but a landing check that hears of the aircraft in the
  air leaves the suspicion in place, and the next sweep may confirm the landing.
  `GraceUnbroken` is what holds: a report that a board receives does rule it out.
- Two hires of one crew that overlap both write the count they read plus one, and
  both are paid; a slow one can even take back members hired since (`HiresCount` says
  that nothing else can).
- A check tests the lost-signal ceiling on the stamp it had loaded before its
  wait, so that a flight that a board has sampled meanwhile can still be resolved
  as lost (`LostIsUnheard` says exactly that this is the exception). Boards only
  hear of aircraft within 30 nm: their sweeps give up every flight that no check
  asks for after 25 minutes, however good its signal.
- The airport throttle is there so that N boards "don't turn into N adsb.fi
  calls" (`thresholds.py:49-53`), but those that start before the first of them
  commits all query.
- 0005 rewrites the reasons of `wallet_ledger` before it drops the CHECK that
  forbids the new ones, so it is refused on any database with a bet; its
  downgrade has the same order. 0020:17-18 explains the right one. 0014 refuses a
  database with flights from the airports it drops, as its comment says it
  should. `RefusalsAreKnown` says that nothing else is refused.
- Downgrades: 0011 and 0019 are refused while there are CLAIMED rentals or
  `crew_hire` entries, 0016 while families are unlocked; that of 0007 sets all
  boxes to one margin, although 0002 and 0004 seed another one by now.
- The start-up timeout turns a hang into "a fast, loud failure" (`main.py:36-41`):
  loud it is, but the interpreter waits for the thread before it exits.
- A refresh that is lost on its way signs the browser out as if it had been
  refused (`tokenStore.ts:39` speaks of "refresh token expired/rejected"); a reload during a
  refresh leaves a used up token in the store, and the next refresh with it
  forces a login, although the token is kept "so a page reload doesn't force a
  re-login" (`tokenStore.ts:3-4`). A page whose refresh is refused clears the
  store, also of a token that another page has just put there; an answer that
  arrives after a logout stores tokens again in a page that shows no user.

## 6. Not modelled, and why

- The haversine distance and coordinates: real arithmetic; the distance is an
  input of `AdsbReports`. Display codes, names, JSON, translations and charts are
  data.
- Reads that change nothing (catalogue, leaderboard, wallet, the answer of the
  board), password hashing and JWT (library calls), static files, CORS, health
  endpoints, pages, achievements (functions of what the API answers).
- `flight_state_samples`: rows that are appended and only shown
  (`GET /flights/{id}/samples`); nothing is decided by them.
- Licence checks of `create_rental` and `hire_crew`: licences are never taken
  back while the server runs, so a stale positive answer stays right, and a
  refusal is `Rollback` or `Refuse`.
- The pacing second of the client, the number of queries that players cause
  (no state of the program depends on it), connection pools.
- Column types and lengths, and the texts of seeded rows.

## 7. Plan

Done: the lifecycle with its refinement and proofs, wallets, timers and
settlement, sign-in, migrations and start-up, each with its proofs.

What could come next:

1. The order in which boards and landing checks take row locks: a bound on the
   deadlocks, and that each ends in one rollback. `FlightLifecycle` has the locks;
   what is missing is PostgreSQL's deadlock detection as an action of its own.
2. Requests of players inside an upgrade's transaction, which would need the
   locks that `ALTER TABLE` takes.
3. Requests of several users to `Wallets` at one airport, for `is_active`.
