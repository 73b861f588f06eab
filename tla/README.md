# A TLA+ model of the producers' registry

The repository is a registry of rural producers: a NestJS API over PostgreSQL
(through Prisma), a dashboard cached in Redis, and a React frontend.  This
directory models what decides whether it stays correct when requests,
refreshes, restarts and late answers meet: the five write APIs over one
database, the cached dashboard and its scheduler, the seed and the start of the
container, the paginated lists, and the producers page.  TLC checks small
instances; TLAPS proves every safety property of theirs for every value of the
constants, and that the API implements an abstract registry.

Paths below are relative to the repository's root.

## 1. Inventory

### The system's parts

| Part | State | Operations | Interacts with | Correct when |
|---|---|---|---|---|
| Producers `src/producers` | `producers` (unique `document`) | create (look up, INSERT), update (look up, UPDATE), delete (look up, DELETE), lists | cascades to farms and, below them, to planted crops | documents stay unique; a deleted producer leaves no farm |
| Farms `src/farms` | `farms` (owner, three areas) | create (rule, INSERT), update (look up, merge, rule, UPDATE of the given fields), delete, lists | foreign key to producers; cascades to planted crops | every farm has a producer; the area rule is lost in no way but the two below |
| Seasons `src/seasons`, Crops `src/crops` | `seasons` (unique `year`), `crops` (unique `name`) | as producers | referenced by planted crops (RESTRICT) | keys stay unique; a referenced row cannot be deleted |
| Planted crops `src/planted-crops` | `planted_crops` (unique farm + season + crop) | create a batch in one interactive transaction, delete, list | three foreign keys; waits for other batches | a batch is all or nothing; no combination twice; no orphan |
| Error filter `src/shared/http` | none | exception to status | every handler | the status follows README.md:111; a 500 is one of the known failures |
| Schema `prisma/schema.prisma` | the five tables | constraints, CASCADE, RESTRICT, Decimal(10,2) | every repository | what is visible changes by whole legal operations |
| Dashboard `src/dashboard`, `src/shared/cache` | one Redis key with a time to live; a timer | `GET /dashboard` (cache, else aggregate), refresh at boot and at every interval | reads the tables by three queries; PostgreSQL and Redis may fail | the cache catches up with the tables and goes back only by an overlap; nothing hangs |
| Seed and boot `prisma/seed.ts`, `src/main.ts`, `Dockerfile`, `docker-compose.yml` | rows; the phase of the container | `migrate deploy && seed && main`, restarted on exit | database | nothing is seeded twice; the container listens at last |
| Lists `src/common` | none | page and total in two queries | every table | a walk over the pages misses or repeats rows only as often as others write |
| Producers page `frontend/src/pages/Produtores.tsx`, `store/produtoresSlice.ts` | list, overlay, form, request statuses | load, open, save (a producer, then each farm), delete | the API, one request at a time per save | the form shows the producer it saves; the list agrees with the tables |
| Dashboard page `frontend/src/store/dashboardSlice.ts` | last snapshot, status | load, refresh | the API | its spinner ends |
| Health `src/health` | none | two probes | database, Redis | |
| Documents `src/producers/application/document.validator.ts` | none | normalise, check digits | | |
| Configuration, logging, `PrismaService` `src/shared` | constant after boot | | | |

### What is hard here

- A handler looks, awaits, and writes.  Node runs one handler at a time, but
  at each `await` the handlers of other requests run (and other replicas may
  run at any time): what was looked up may be gone or taken at the write.
- The area rule is a rule over three columns that only the service knows.
  A PATCH checks the body merged over the row it read and writes the fields of
  the body over the row as it is then.
- A batch of planted crops is a transaction of several INSERTs.  Others run
  between two of them; an INSERT that meets an uncommitted duplicate waits for
  its owner; two batches may wait for each other.
- Statements fail: the database is unreachable, a transaction times out, a
  connection closes after the statement was executed.
- A DELETE cascades or is refused by rows a concurrent transaction is adding.
- A refresh of the dashboard may outlast its interval, or fail; the entry it
  refreshes expires by itself; the process may crash with a refresh in flight.
- The seed is a sequence of statements with no transaction around them, run
  again at every restart over tables that users have changed since.
- A page of a list is two queries, and a walk over a list many of them.
- On the producers page an answer arrives after the overlay it was for was
  closed; a save fails after half of its requests.

`PROJECT.json` lists these hazards at the lines where they bite, with the
properties that watch them, and for the ones no property watches the reason.

## 2. Modules

| Module | Models |
|---|---|
| `Http` | what becomes of an exception: Nest's `HttpException`s, the connectivity codes of `AllExceptionsFilter`, 500 for the rest, and what the filter logs of a 500 |
| `Store` | the schema: five tables as functions from ids to rows, the DDL's constraints, row visibility and key locks of open transactions, the CASCADE of farms |
| `Keyed` | the create / update / delete protocol the services of producers, seasons and crops share, over a table with one unique column; and its lemmas |
| `Producers`, `Seasons`, `Crops` | `Keyed` instantiated for each table, with what a DELETE does to other tables |
| `Farms` | `/farms`, with the area rule, the merge, the rounding and the overflow |
| `PlantedCrops` | `/farms/:farmId/planted-crops`: the transaction item by item, waits, deadlock, timeout, rollback |
| `Api` | the composition: all five over one `Store`, fairness, the properties, and the mapping to `Registry` |
| `Registry` | the abstract specification: each request that is carried out changes the tables in one step; no look-ups, transactions or errors |
| `Contract` | the error contract of README.md:111 as an action property |
| `Dashboard` | `GET /dashboard` from the tables to the screen: aggregation, snapshot, time to live, scheduler, service, dashboard slice; outages, crash, close, restart |
| `Boot` | the container: migrate, each statement of the seed, listen, failure and restart; users between two starts |
| `Listing` | the five lists, page by page, while others write |
| `ProdutoresPage` | the producers page and its slice, over the tables of the API |
| `MCApi`, `MCBoot`, `MCProdutoresPage` | seeds, bodies, references and symmetry for TLC |
| `RegistryProofs`, `HandlerProofs`, `RefinementProofs` | the theorems about `Api` |
| `DashboardProofs`, `BootProofs`, `ListingProofs`, `ProdutoresPageProofs` | the theorems about `Dashboard`, `Boot`, `Listing` and `ProdutoresPage` |

`Producers`, `Farms`, `Seasons`, `Crops` and `PlantedCrops` share the variables
of `Store`; `Api` is their interleaving.  The other four systems meet the API at
its tables only, and take it as what `Registry` promises: a write of
`Dashboard!Write`, a user of `Boot!UserStep`, a write of another client in
`Listing` and a request of `ProdutoresPage` are each one legal operation.

### How state corresponds to code

The API:

- A table is a total function from a finite set of ids to a row, `Unborn` (no
  row was given the id yet) or `Gone` (its row was deleted: uuids are not
  reused).  Producers, seasons and crops are their unique column; a farm is its
  owner and its areas; a planted crop is its three references and `xmin`, the
  open transaction that inserted it or `Committed`.
- `producerCall[r]`, `farmCall[r]`, ... is the handler of request slot `r`: the
  parameters and locals it holds across its current `await` (`at` names the
  query it awaits), or, when idle, the status of its last answer.
- A request arrives (`PostFarm`, `PatchSeason`, ...) with any body of a small
  set.  Validation that runs before the first `await` is part of the arrival.
- Each further action is one query with the code that runs on its answer, up to
  the next `await` or the response: `FindByKey`, `Insert`, `FindById`,
  `Update`, `DeleteRow`, `ReadFarm`, `UpdateFarm`, `InsertItem`, `Commit` ...
- An exception is the name of a `HttpException`, a Prisma code, or `Overflow`
  and `Deadlock` for the two PostgreSQL errors that have no translation.
  `Caught` is the filter.  The answer to a batch that is a 500 keeps the error
  the filter logs (`Logged`), which tells a deadlock or a timeout from a refusal
  of an item that the catch block of `createMany` should have translated
  (`Translated`): all of them may hit a batch in the same state.
- Areas are natural numbers of thousandths of a hectare, one digit finer than
  the columns.  `Stored` rounds to hundredths, halves up, as PostgreSQL does
  when it assigns to `Decimal(10,2)`.

The dashboard:

- `version` is the number of writes committed; a snapshot is the version its
  first query saw and the one its last query saw (`low`, `high`).  It is a state
  of the tables when they are equal.
- `cache` is the entry under `dashboard:snapshot` with what is left of its time
  to live; `timer` the ticks until `setInterval` fires, or `Off`; `refresh[r]`
  one call of `refresh()` across its awaits; `process` the life of the
  container, from `onApplicationBootstrap` to `app.close()`.
- An action is the code between two awaits:
  `ReadFirst`, `ReadLast`, `Set`, `RefreshFails` for `refresh()`; `Hit`, `Miss`,
  `LoadReadsFirst`, `LoadReadsLast`, `LoadFails` for `getSnapshot` and the
  reducers that take its answer.  `age` and `shared` of a refresh are history:
  how long it has run, and whether another one ran beside it.
- The interval is `Ttl`, the same number the entry lives for
  (`dashboard-cache-refresh.scheduler.ts`).

The container:

- `stage` is how far the container and the seed in it are; `pending` the creates
  of the current `Promise.all` that have not committed; `rows[r]` the number of
  copies of a demonstration row.  Two of the three producers get random documents
  and farms have no key, so the database accepts a second copy of them; of a
  season or crop it does not.  The third producer has a fixed document
  (`seed.ts:42`), of which the database would refuse a second copy: the model
  lets it in, and proves that none comes.
- A create that fails rejects `main()` (`Reject`); the others stay in flight and
  may commit until the process ends (`failing`, then `SeedFails`).
- `Guest` is any producer users register.

The lists: `walk` is a client that asks for page after page with one limit;
`FindMany` and `Count` are the two queries of a page in either order, `Respond`
the answer.  `Orders` is every order the `orderBy` allows, so rows of equal
`createdAt` may come in another order from query to query.  `history` counts
what others did during the walk.

The producers page: `store` is the slice, `page` the `useState`s of the page
(overlay, selected producer, form), `lists`, `loads`, `save`, `remove` the
thunks in flight, `producers` and `farms` the tables of the API.  `lists.farms`
has a slot for each `fetchFarms` in flight: the retry of the table, which is
there as soon as `fetchProdutores` has failed, dispatches another one beside
that of the mount.  (`fetchProdutores` itself is never in flight twice, since
the retry is hidden while one is; `TypeOK` has that.)  A save is the
sequence of calls of `saveProdutor`; any call may fail before or after it had
its effect.  A form is the producer its data came from and the farms it holds.
`excuses` records that one of the exceptions the properties name has happened.

### What PostgreSQL and Prisma are assumed to do

These definitions are marked external in the map, where no line of the
repository states them.

- READ COMMITTED, and a statement of a repository is atomic, since each is one
  SQL statement (`findUnique`, `create`, `update`, `delete`).
- A row an open transaction inserted is read by nobody else, but occupies the
  unique index: an INSERT of the same triple waits (`Waiting`), then fails with
  P2002 when the owner commits, or goes on when it rolls back.
- The foreign key check takes a KEY SHARE lock on the referenced row until the
  transaction ends.  A DELETE of that row, or an UPDATE of its unique column,
  waits (`FarmHeld`, `SeasonHeld`, `CropHeld`).
- A cycle of waits is broken by aborting one of its transactions.
- Prisma rolls back an interactive transaction whose callback throws, at its
  timeout (P2028) or when the connection is lost.
- A lost connection either prevented the statement (`LoseDatabase`, `Abort`
  with one of the four codes) or hid the result of one that was executed
  (`Replies`): the caller sees 503 in both cases.
- `createMany` is one statement; a `Promise.all` of creates is not.
- An unhandled rejection of `main()` ends the container, and compose starts it
  again (`restart: unless-stopped`).  `migrate deploy` is modelled as waiting
  for the database, where it would fail and be started again.
- A Redis client fails a command when it cannot connect, within its timeout.
  Whether `cache-manager` rejects the read then or returns `undefined` is the
  library's: the model has both (`LoadFails`, `Miss`).

## 3. Runs

Two workers finish each run in about two minutes or less.  Deadlock checking is on in every run: something can
always happen.

| Run | Instance | What it shows |
|---|---|---|
| `Ownership` | 2 × `/producers`, 1 × `/farms` | `FarmsHaveProducers` and `UniqueKeys` when a cascading DELETE meets an INSERT or a move of a farm, and when creates and patches race for a document; `ImplementsRegistry`; `InternalErrorsAreKnown` |
| `AreaRace` | 2 × `/farms`, bodies finer than the columns among them | `AreaRuleLostOnlyByRaceOrRounding`: the ways past the area rule are a PATCH over a row that changed since it was read, and the rounding of the columns |
| `Catalog` | 1 × `/seasons`, 1 × `/crops`, 1 batch | `TypeOK`, `PlantedCropsHaveParents` against deletes at any point of the batch, `HistoryKept`, `InternalErrorsAreKnown` |
| `Batches` | 2 batches, 1 × `/farms` | `BatchIsAtomic`, `ErrorsChangeNothing`, `OpenTransactionsOwnTheirRows`, `OnePlantingPerSeasonAndCrop`, `PlantedCropsHaveParents`, `ImplementsRegistry`, `InternalErrorsAreKnown`, and under fairness `WaitsEnd` |
| `Dashboard` | 2 refreshes, 1 load of the page, all faults | refreshes overlap only when one outlasts its interval; the cache goes back only by an overlap, and catches up; the boot, the spinner and a closed process end |
| `Boot` | 13 rows, 2 crashes, outages, users | the seed never inserts a row twice; a seed that inserts and lets the API start has inserted all; the container listens again and again |
| `ProducersPage` | 2 producers, 1 farm, 2 `fetchFarms` in flight, 1 failing call | `FormShowsSelectedOtherwise`, `SavesItsOwnFarms`, `ListIsTheServers`, with no exception `ListOnlyLags`, and under fairness `EditingSpinnerEnds` |
| `Listing` | 3 rows, limits 1 and 2, 2 writes each way | rows are missed or repeated only as often as others wrote; total and page differ by no more than the writes between their queries |

Four runs show that the code does something else than the repository says.

| Run | Statement | What happens |
|---|---|---|
| `DuplicateKey` | README.md:111, 409 for a duplicated document, year or name | a PATCH to a taken key is a 500; so is a create whose key was taken since its look-up |
| `AreaStale` | README.md:106, no entry point gets around the area rule | two PATCHes, each legal over the row it read, leave areas that do not fit |
| `SeedRestart` | README.md:119, safe at every restart | after users deleted all producers the seed inserts its producers again, fails on a season and stops the container; the start after it runs with those producers and without their farms |
| `FormRetry` | README.md:78, an edition loads the data of its producer | the retry of a failed load leaves the form as it was, and Salvar writes it over the selected producer |

Other disagreements are steps of the same modules and have no run of their own:

- a PATCH or DELETE of a row deleted since its look-up is a 500 where
  README.md:111 has 404, and two batches with the same items in opposite orders
  deadlock, one of them with a 500 where it has 409 (both are disjuncts of
  `InternalErrorsAreKnown`);
- 0.005 + 0.005 fits in 0.010; stored as 0.01, 0.01 and 0.01 it does not
  (README.md:104, the second disjunct of `AreaRuleLostOnlyByRaceOrRounding`);
- the 404 of a PATCH that moves a farm to a missing producer names the farm's
  id as the producer's (`producer-not-found.error.ts:8`);
- README.md:109 calls the cold start the only time a request aggregates.  A
  refresh that fails or is late leaves an expired entry, and each request until
  the next refresh aggregates (`Dashboard!Miss`);
- with Redis unreachable `GET /dashboard` may be a 500, with the database at
  hand (`Dashboard!LoadFails`), if `cache-manager` rejects a read that fails;
  README.md:72 says of the API that it serves the last valid data instead of an
  error;
- "Tentar novamente" in place of the table fetches both lists again, beside a
  `fetchFarms` that may be in flight still; when that one had read the farms
  before a save and answers last, the table shows the older list until the page
  is left.  No document says otherwise; `ListIsTheServers` names the case (it
  does not count such a retry as a fetch), and `ListOnlyLags` bounds what it
  shows;
- a save of the producer form refused half-way leaves the drafts it has already
  registered in the form, which stays open "for the user to correct"
  (`Produtores.tsx`, the `catch` of `handleSubmit`): saved again, a new producer
  is posted again and answered 409, and the new farms of an edit are posted
  twice (`SaveRejected` leaves the page as it was, and `HandleSubmit` may follow).
  The model has no documents: the 409 is one of the failures of `MayFail`, and a
  second producer is the form saved again with its document changed.

### Bounds, and why they are enough

- Slots: a slot is a request in flight and is reused without end.  The hazards
  are races of two requests; `Ownership` has a third that deletes the parent.
- Ids: `IdLeft`, `FarmIdLeft` and `PlantedIdsLeft` start a create only while an
  unborn id remains for every create in flight, so the model never fails for
  want of an id.  One row of the seed and one or two new ones let a row be
  created, changed, deleted and be missing.
- Batches of one or two items over two seasons: the smallest that can fail at
  its last item, repeat an item, meet another batch and deadlock with it.
- Bodies (`AreaPatches`, `RaceBodies` ...) are chosen around the seeded farm of
  0.10 ha with 0.06 + 0.03: refused before the merge, refused after it, legal
  but not two by two, or finer than the columns.  `MaxArea` is 0.99 ha in place
  of 99999999.99, above all bodies; the proofs cover the overflow.
- `Catalog` uses symmetry of the ids of planted crops and of batches, which no
  seed and no body names.  It checks no liveness.
- `Dashboard`: a time to live of two ticks tells late from in time; two
  refreshes are an overlap (`Refreshes`); one write (`MaxVersion`) makes a
  snapshot stale or mixed.  Writes only stop, so "catches up" is asked of the
  last state.  One load (`Loads`): the button is disabled during a load.
- `Boot`: two crashes (`MaxCrashes`) cut short a start and the one after it.
  The demonstration rows are of the shape of those in `prisma/seed.ts`: two
  seasons, two crops, a producer with a farm without planted crops.
- `ProducersPage`: one load, one save and one removal in flight; a form holds at
  most one new farm (`NewDrafts`); one call fails (`MaxFailures`).  Each
  hazard needs one late answer or one failure, and the second producer is the
  wrong one.  Two `fetchFarms` in flight (`FarmFetches`) are no bound with one
  failure: a retry needs a failed `fetchProdutores`, so there are the one of the
  mount and that of one retry.
  The farm is unborn at the start, so that it is created with either producer,
  changed, saved from the form of the wrong producer and deleted with its own;
  the safety properties are proved for any number of farms.
- `Listing`: three rows and pages of one or two have a middle page edge; four
  keys let a row be inserted before, between and after them; two rows join and
  two leave during a walk (`MaxWrites`).

### Fairness

- `Api!FairSpec`: weak fairness of the handlers of each slot: an `await` is
  resumed when its query can run, because Node's event loop and PostgreSQL's
  `deadlock_timeout` do so.  Arrivals, timeouts and lost connections are not
  fair.  `WaitsEnd` is as much as that justifies.  "Every request is answered"
  is not true of this code: a DELETE of a farm, season or crop waits while any
  open batch references the row, and batches that overlap can keep it waiting;
  a batch that others keep overtaking with the same combination, each rolled
  back in turn, can also wait again and again.
- `Dashboard!FairSpec`: time passes, the timer fires, a pending call goes on or
  fails, the container is started again.  Writes, users, outages, crashes and
  `close` are not fair.  `CacheCatchesUp` assumes that the services stay up from
  some time on, and asks nothing of before.
- `Boot!FairSpec`: the container goes on and is restarted; outages, crashes and
  users are not fair.  `ListensAtLast` assumes that the database stays.
- `ProdutoresPage!FairSpec`: the calls of a load are answered or fail; the other
  calls and the user owe nothing.

### Refinement

`Api!ImplementsRegistry` is `Registry!Spec` under a mapping that is the identity
but for planted crops: a row of an open batch is seen by no one, so `Seen` maps
it to an id that has no row yet, and drops `xmin`.  The INSERTs of a batch are
then stutters and its COMMIT is `Plant`; a look-up, a refusal, a rollback or a
lost connection is a stutter; a DELETE with its cascade is one step.  The runs
`Ownership` and `Batches` check it and `RefinementProofs` proves it.

## 4. Proofs

| Theorem | States |
|---|---|
| `RegistryProofs!TypeCorrect` | `Spec => []TypeOK` |
| `RegistryProofs!NoFarmIsOrphaned` | `Spec => []FarmsHaveProducers` |
| `RegistryProofs!NoPlantedCropIsOrphaned` | `Spec => []PlantedCropsHaveParents` |
| `RegistryProofs!KeysStayUnique` | `Spec => []UniqueKeys` |
| `RegistryProofs!OnePlantingOnly` | `Spec => []OnePlantingPerSeasonAndCrop` |
| `HandlerProofs!TransactionsAreClosed` | `Spec => []OpenTransactionsOwnTheirRows` |
| `HandlerProofs!BatchesAreAtomic` | `Spec => BatchIsAtomic` |
| `HandlerProofs!HistoryStays` | `Spec => HistoryKept` |
| `HandlerProofs!ErrorsAreHarmless` | `Spec => ErrorsChangeNothing` |
| `HandlerProofs!InternalErrorsAreListed` | `Spec => InternalErrorsAreKnown` |
| `HandlerProofs!NoThirdWay` | `Spec => AreaRuleLostOnlyByRaceOrRounding` |
| `RefinementProofs!ApiImplementsRegistry` | `Spec => ImplementsRegistry` |
| `DashboardProofs!DashboardTypeCorrect` | `Spec => []TypeOK` |
| `DashboardProofs!OverlapIsSlow` | `Spec => []OverlapNeedsASlowRefresh` |
| `DashboardProofs!CacheOrder` | `Spec => CacheGoesBackOnlyByOverlap` |
| `BootProofs!BootTypeCorrect` | `Spec => []TypeOK` |
| `BootProofs!SeedNeverDuplicates` | `Spec => []NeverDuplicates` |
| `BootProofs!SeedIsAllOrNothing` | `Spec => StartsWithAllOrNothing` |
| `ListingProofs!ListingTypeCorrect` | `Spec => []TypeOK` |
| `ListingProofs!WalkMissesOnlyByWrites` | `Spec => []MissesOnlyByWrites` |
| `ListingProofs!WalkRepeatsOnlyByWrites` | `Spec => []RepeatsOnlyByWrites` |
| `ListingProofs!PageFitsTotal` | `Spec => []TotalFitsPage` |
| `ListingProofs!UniqueWalksKeepToTheBounds` | both bounds without a condition, for seasons and crops |
| `ProdutoresPageProofs!PageTypeCorrect` | `Spec => []TypeOK` |
| `ProdutoresPageProofs!FormIsOfTheSelected` | `Spec => []FormShowsSelectedOtherwise` |
| `ProdutoresPageProofs!SavesStayAtHome` | `Spec => []SavesItsOwnFarms` |
| `ProdutoresPageProofs!ListCatchesUp` | `Spec => []ListIsTheServers` |
| `ProdutoresPageProofs!StaleListsOnlyLag` | `Spec => []ListOnlyLags` |

Each holds for every value of the constants: any number of rows, requests,
batches, refreshes and loads, any bodies, any time to live, any demonstration
data; in `Listing` any finite set of rows, any limits from 1 to 100 and any
number of writes, in `ProdutoresPage` any number of failures, new farms, retries
and loads in flight.

Assumptions, all named where the constants are declared and evaluated by TLC on
every run: flags are Booleans and bounds naturals; `Unborn` and `Gone` are two
markers and no rows, `Omitted` is no value, `Committed` no batch, `Off`,
`Nothing` and `NotYet` no numbers; a table has finitely many rows
(`IdsAssumption`), limits are those the query DTO lets through
(`LimitsAssumption`); bodies have the shape their DTOs let through; the seed
follows the schema (`SeedAssumption`) and was written under the same
constraints (`SeedRowsAssumption`, `SeedKeysAssumption`); the demonstration data
refers to itself (`ReferencesAssumption`) and its groups are disjoint
(`DisjointAssumption`).

The API:

- `TypeOK` is inductive.  `Keyed!StepType` proves it once for the shared
  protocol; `Producers`, `Seasons` and `Crops` cite its instances, as they do
  for the other lemmas of `Keyed`.
- References: `FarmsHaveProducers /\ PlantedCropsHaveParents` is inductive
  together with `TypeOK`, and neither conjunct is by itself
  (a producer's cascade removes farms, so planted crops below them must be
  known to go or to hold their farm).  `Keyed!OnlyDeleteRemoves` shows that a
  catalogue loses a row by its DELETE only; the cascade lemma uses that a DELETE
  waits for open batches, since it does not see their rows; the RESTRICT lemma
  uses the wait and the refusal together.
- Uniqueness: `Keyed!StepKeepsKeysUnique` uses the guards of the writes and
  nothing the look-ups saw, which is the point: the look-ups decide nothing.
- One planting: every step changes no triple, or adds one row with a triple
  that is free of committed and uncommitted rows (`PlantedStepKinds`).
- Transactions: `OpenTransactionsOwnTheirRows` counts; it is strengthened to
  `OwnsInserted`, which says which rows they are: each item a batch has inserted
  is the triple of a row of its own, and it owns as many rows as it has inserted
  items.  An INSERT adds one row of an id that had none; a cascade reaches no
  row of an open batch, because the DELETE above it waits; commit and rollback
  leave no row with that owner.  `BatchesAreAtomic` follows: the rows
  that become visible by a commit are the owned ones, all items are among them,
  and their number is the length of the batch.
- Handlers: `EveryAnswersWell` says of each step that answers that an error
  leaves what others see as it is, and that a 500 came from one of the named
  states of the handler; of a batch, that what is logged is the deadlock or the
  timeout, and never a P2002 or P2003 of an item.  It needs `TypeOK` (statuses) and `UniqueKeys` (a
  unique column refuses by another row only).
- The area rule: `Revalidated` is the invariant that an INSERT about to run has
  a body that satisfies the rule, and a PATCH about to write a body that
  satisfies it merged over the row it read.  If the row is that one still and
  the areas are exact hundredths, what is stored satisfies the rule.
- Refinement: `Sound` is `TypeOK`, the references and
  `OnePlantingPerSeasonAndCrop`.  Each kind of step (`Keyed!StepKinds`,
  `PlantedStepKinds`) maps to its operation or to a stutter; the commit maps
  to `Plant`, whose conditions are the references and
  `OnePlantingPerSeasonAndCrop` read on the rows of the batch.

The dashboard: `Scheduled` is `TypeOK` with `PhaseOK` (no timer before the API
listens, no refresh but one during the boot), `AgeOK` (a refresh is at least as
old as what the timer has run since) and `OverlapNeedsASlowRefresh`; the last
is the property, and needs the ages.  `CacheOrder` adds `AloneOK` (of two
refreshes in flight both are marked), `NothingFromTheFuture` (no snapshot is of
a version to come) and `FreshOK` (what a refresh that runs alone has read is no
older than what the cache holds).

The container: the invariant adds to `TypeOK` that what a seed has still to
insert is not there (`Fresh`), that rows come with what they refer to
(`Owned`), that the groups before the current one are complete (`Progress`), and
what a failing seed has in flight (`LeftInFlight`).  A producer that is there
keeps the seed from its second copy; since farms and planted crops go with
their producer, it keeps it from theirs too.

The lists: the bounds are about the end of a walk, so the invariant `WalkInv`
says what a walk in progress may still do.

- A list is a set in a strict total order (`KeyOrder`: the key, and rows of equal
  keys in some fixed order, `Place`).  A row's rank is the number of rows ahead
  of it; `Beyond` are those of rank n or more.  `Unread` are the rows beyond what
  the pages so far have covered.  The module proves about any order that the
  places of rows differ (`PlacesDiffer`), that `Beyond` holds all but n
  (`BeyondCounts`), and that one row more or less moves one other over the edge
  at most (`LeavingMovesOne`, `JoiningMovesOne`, `OneRowMovesOne`).
- `MayRepeat` are the rows shown twice and those shown and unread again; `Lost`
  the rows that stayed, were not shown and are not unread.  A page changes
  neither (`FindManyReads`): without ties its rows are the unread ones up to its
  end, whichever of the `Orders` the query takes (`OrdersRank`, `PageShows`).  A
  write is of one row (`EachWritesOneRow`) and adds at most one to `MayRepeat`,
  if a row joins, and at most one to `Lost`, if a row leaves (`WriteKeepsWalk`).
  That is `WalkOK`, with `Cardinality(Listed) <= total + joined`, which bounds
  what is unread when the total ends the walk.
- This needs no induction over the pages: the invariant counts rows of sets, and
  the pages are the steps of the walk.  `got` is looked at only through the rows
  it holds once and twice (`JoinedShows`, `TimesShown`).
- `HalfOK` says of a page with one query answered how far the list can be from
  it; the part of a list a page holds moves no further than the list
  (`WindowFollows`).
- `UniqueKeysNeverTie`: where the key is unique no two rows that are there share
  it, so `history.tied` stays false and the bounds have no condition.

The producers page:

- `FormOK`, while nothing excuses the form: it shows the selected producer
  (`FormShowsSelected`); every load in flight is the one whose spinner is on the
  screen, for the selected producer (`LoadsOK`), since the overlay of a load has
  no button and only an answer to another call can close it, which is an excuse;
  and the farms of a save are its producer's (`SaveOK`).
- `DraftsOK`, always: the farms of a form, and those a load has read, are of the
  producer they were read for, or gone.  It uses that a farm never changes hands
  (`FarmsKeepTheirProducer`), which the page cannot do and `PATCH /farms` can:
  the theorem is about pages of this frontend.
- `ListOK`, while nothing excuses the list: of the fetches, the save and the
  removal one kind at most is in flight (`AloneOK`), every fetch has read what
  is still there (`ReadsOK`), and the list is what the API has but for what the
  answer to the save will add (`ItemsOK`, by `NextItems` and `NextFarm`).  The
  property is that with no call in flight.  A retry ends the excuse only when no
  fetch that has read already is in flight: then whichever answers last has read
  what is still there.
- `LagsOK`, always: what is on its way to the list was true when it was read or
  written (`Truthful`, said of the list, of each read that has not been
  answered and of what a save has been told), and what was true of an id stays
  so or goes: a producer stays registered, a farm stays with its producer
  (`FarmsKeepTheirProducer`) until it is deleted.

Model-checked only: liveness, which is out of the prover's reach (`WaitsEnd`,
`CacheCatchesUp`, `BootEnds`, `SpinnerEnds`, `ClosedProcessEnds`,
`ListensAtLast`, `EditingSpinnerEnds`), and the four violations, whose negations
are single behaviours.  Every other property of a run is a theorem.

## 5. Not modelled, and what is left

- Health: two probes without state, on whose answers nothing in the program acts.
- Documents: the arithmetic of the check digits is that of a library; in the
  model a document is a value with nothing inside.
- Configuration, logging and dependency injection: constant after boot.
- The floating point of the area sum: areas are integers of thousandths.
- The connection pool.  A request it fails (P2024) would be one more 500: the
  filter does not list that code.
- Bodies with null: the refusal is the client library's.
- The producers page left and mounted again, and a second save while one is in
  flight; what fields contain; presentation components.
- Names, cities, timestamps and the text of messages: no property tells them
  apart.

The map covers the services, repositories, filter, cache, seed, slices and page
handlers.  What it leaves of the application is decorators of the API
documentation, imports, styled components, presentational atoms and templates,
type declarations, mocks and configuration; the two bundled copies of yarn
(`.yarn/releases`) and the tests are no part of the system.

Every safety property of the runs is proved.  What is left to model is a second
save in flight on the producers page.
