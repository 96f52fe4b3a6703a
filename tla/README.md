# A verification project for tanbunism

tanbunism is a web application for learning from texts: users import texts, the
texts become a graph of sentences and terms, quizzes are generated from the graph,
and a small role-playing game rewards reading and answering. The server is a
FastAPI application over Neo4j; several web processes may run at once.

This directory holds TLA+ modules for the parts of the server whose correctness
depends on order, concurrency, failure and retry, the TLC configurations that check
them, and TLAPS proofs. Paths below are relative to `src/tanbun/feature/` unless
they begin with `src/`.

Contents:
[1 Inventory](#1-inventory) ·
[2 Common assumptions](#2-common-assumptions) ·
[3 Modules](#3-modules) ·
[4 Runs](#4-runs) ·
[5 Bounds and fairness](#5-bounds-and-fairness) ·
[6 Proofs](#6-proofs) ·
[7 Disagreements](#7-where-code-and-documentation-disagree) ·
[8 What the models show](#8-what-else-the-models-show) ·
[9 Limits](#9-what-is-not-modelled) ·
[10 Open work](#10-open-work) ·
[11 Running](#11-running-the-checks)

## 1 Inventory

Every component is listed in `PROJECT.json`; this section says what each keeps, what
it does and what would make it wrong.

| Component | State | Operations | What must hold | Modules |
|---|---|---|---|---|
| PageRank job queue (`recommendation/pagerank/`, `repo/pagerank.py`) | `PageRankJob` nodes with status, resources, results, owner token and lease; one queue node with the limits; ranks on `Resource` nodes; a worker loop per process | enqueue, settings, claim, heartbeat, read graph, publish, checkpoint, finish, notify | the limit of running jobs; a record no stale worker can disturb; ranks shown as fresh belong to the present graph; every job ends | `PageRankQueue`, `JobLedger` |
| Saved adventure (`game/state.py`, `economy.py`, `treasure.py`, `unlocks.py`, `dungeon_keys.py`, `shared_dungeons.py`, `access.py`) | one document with a revision, and the consumed clock slot, on the `User` node; a copy in each browser | snapshot, recovery, shop, potion, chest, key, claim, unlock, daily rewards, access right, admin reset | nothing one device earns is overwritten by another; rewards, chests, keys, access rights count once | `AdventureState` |
| Combat turns (`game/combat.py`, `end_actions.py`, `skills.py`) | the battle marker and receipts inside the saved adventure | encounter, boss, turn, next turn, skill, end action, retreat | a repeated or raced request settles a turn once; a stored battle can be fought on | `CombatTurn`, `BattleLedger` |
| Scheduled combat and combat rules (`game/scheduled_combat.py`, `action_queue.py`, `gambits.py`, `effects.py`) | schedule, effects, HP and MP of one battle | seal, resolve, end of an action, forecast | nobody is passed over; what derives from effects is never stale; the forecast is kept | `ScheduledBattle`, `BattleEffects`, `ActionQueue` |
| Region pools (`game/population.py`, `roster.py`, the rebuild in `admin.py`) | pool per region level, the copy of it in the saved adventure, enemies that point into it | fill, battle, repair, rebuild in the background | a battle asks what it began with; pools only grow; one rebuild a dungeon | `RegionPools` |
| Game catalogue and settings (`game/catalog.py`, `settings*.py`, `admin.py`) | three documents in the graph | read, complete, check, save, export, import, migrate | old documents stay readable; a file is saved only over what was shown; a migration happens once | `CatalogueRules`, `CatalogueDocument`, `CatalogueSamples`, `GameSettings` |
| Resource import, diff, retirement (`entry/resource/`), and what the namespace (`entry/namespace/`) does to resources | `Resource` with hash and date, sentences, terms, relations; slots and save lock of a process | import, forced import, synchronise, rename, delete, restore | no lost sentence under a quiz or an answer; the stored graph is that of one text; identity of edited sentences; slots given back | `Library`, `TextGraph`, `TextDiff` |
| Transactions (`src/tanbun/config/transactions.py`, `after_commit.py`, the middleware) | a context variable with the transaction and its hooks | begin, nest, commit, roll back, run hooks | a request or worker saves all or nothing; the answer says which; only saved notices are pushed | `Transactions` |
| Notifications (`notification/`) | at most 100 notices a user, push subscriptions | store, prune, read, delete, subscribe, send | the newest notices are kept, the box stays bounded | `Notices` |
| Experience and levels (`gamification/`, `dashboard/repo.py`) | exposures, answers, sums, levels | record, answer, settings | a deed earns once; levels told are those reached | `Experience` |
| Daily recommendation (`recommendation/settings.py`, `daily.py`) | profiles, the snapshot of a day, the sets drawn | edit, draw, refill, prune | the set of a day stays; one set is drawn from one snapshot | `DailyReview` |
| Study plans (`quiz/learning/`) | plans, status of preparation, quizzes made | edit, prepare, recommend, answer | numbers agree; a plan is filled from its resources; concurrent jobs keep to the plan | `StudyPlans` |
| Quiz preparation (`game/preparation.py`, `quiz/learning/study_plan/`) | in memory: reservations, slots, scheduled dungeons; in the database: status and prepared regions | schedule, reserve, queue, wait, fill, record, time out, retry | reservations are given back once; marks are removed; a recorded region is filled; jobs end | `QuizPreparation` |
| Quizzes, answers, reviews (`quiz/generation`, `answering`, `management`, `listing`) | quizzes, answers, reports | create, answer, report, dismiss, repair, delete | broken exactly when a sentence of it is retired; the creator is told of open reports | `QuizBoard`, `StudyPlans` |
| Avatar images (`media/`, `user/db.py`, `user/routers/images.py`) | images at Cloudinary; `ImageCleanup` jobs and a queue node with leases; `User.avatar_url` | sign, replace, remove, leave, claim, destroy, defer, release | the live avatar is never deleted; one deletion at a time; no job is lost | `MediaCleanup` |
| Parser, language server, database and schema, accounts, account transfer, dashboard, command line | see `PROJECT.json` | | | not modelled (section 9) |

How they interact:

- One HTTP request is one Neo4j transaction (`Neo4jTransactionMiddleware`): its reads
  and writes commit with a 2xx response or are rolled back together. Hooks registered
  with `after_commit` and FastAPI background tasks run afterwards.
- Workers (PageRank, media) are loops of each process and use autocommit statements.
  They meet at queue nodes whose write lock serialises them, and at leases.
- An import changes `txt_hash`, `updated` and the graph of a resource in one
  transaction; PageRank results are fresh if this pair is the one they were made from.
  Sentences an import takes away are retired while a quiz or an answer refers to them.
- Answers, reviews and imports grant experience and rewards by changing the saved
  adventure (`compare_and_save`) within the same request.
- Exploring schedules a quiz preparation; the background task writes the study plan
  and the region pool that later requests and battles read.

Hard behaviours: read-committed statements whose locks are taken late; time stamps
taken before a lock is granted; leases that run out under a living task; crashes
between two autocommit statements; requests repeated after a lost response; whole-
document writes by several devices; daily limits around midnight; in-memory
reservations that must survive every failure path; a lock of a process given back
before the transaction it protects commits. Each is listed with its line under
"hazards" in `PROJECT.json`, with the properties that watch over it. Four have none: there
the code does go wrong, and section 7 names the definition that says so.

## 2 Common assumptions

- **Isolation.** Neo4j runs statements at read-committed level. A write lock is taken
  when a statement writes a node and held to the end of the transaction; a condition
  evaluated before the lock may be stale. `datetime()` is the instant at which the
  statement started, before it waited. Modules split a statement into two steps exactly
  where this can be observed, and a request into a step that reads and one that writes
  and commits where others may come between.
- **Crashes.** A crash of a process is any number of its tasks disappearing, each at
  any step; the database stays, memory is lost, a transaction under way is rolled back.
- **Tokens.** Owner tokens, upload ids and the numbers of new nodes never repeat.
- **Content.** Texts, graphs, quizzes and pictures are numbers or model values that
  tell apart only what the code compares.

## 3 Modules

**`PageRankQueue`.** A job is a row of `status`, `created`, `target`, `results`,
`owner` and `live` (`lease_until` still in the future). A resource has a `version`,
which stands for (`txt_hash`, `updated`), a `graph`, and `cache`: what the stored
ranks were computed from. Every claim draws an owner token `o`; `pc[o]` says at which
statement of `run_worker`/`process_job` its coroutine is. One action per statement:

- `EnqueueIssue`/`EnqueueInsert`/`EnqueueReject`: the request gets its time stamp,
  then waits for the queue lock, then is tested and inserted.
- `Poll`, `ClaimSelect`, `ClaimWrite`, `ClaimNothing`: the loop of a process and the
  claim, whose choice precedes the write lock on the job.
- `Beat`, `ReadMeta`, `ReadNodes`, `ReadEdges`, `Publish`, `PublishRejected`,
  `Checkpoint`, `Finish`, `CheckpointRejected`, `Notify`: `process_job`.
- `KeepAlive`: the heartbeat beside it, which cancels it when the job is no longer
  its own. `grace` remembers that a publish or checkpoint was issued under a live
  lease, because its lease test uses the instant of issue.
- `Die`, `AbortClaim`, `ExpireOrphan`, `ExpireStalled`: crashes and time.
- `Import`, `Repair`, `Delete`: what the import and delete endpoints do to a
  resource. `Repair` is a forced import of the same text, which rewrites the graph
  but leaves hash and date.

**`JobLedger`** is the abstract specification of a job: a list that is submitted once
and outcomes that are appended one by one. `PageRankQueue!LedgerSpec` instantiates
it with the same `target` and `results`.

**`AdventureState`.** `save` is the stored document; a request `d` has a program of
operations (`todo`), the state it has `seen`, and the response the device keeps in
`copy`. `CompareAndSave` and `Conflict` are the two outcomes of `compare_and_save`;
both take the lock of the `User` node, which then belongs to the request until
`Commit` or `Abort`. `draft` and `pending` are the uncommitted writes and, for the
properties, what they stand for; `log` counts what committed requests did.
A snapshot (`PutState`) may be computed from any copy, however old, as a screen does
after a lost response. `Discoveries` is the pure function `discover_dungeons`, with
the choice among closed dungeons left open.

**`CombatTurn`** is the same save seen by a battle: the marker in it, the receipt of
the last settled turn, and the requests that read it, compute, and save under the
revision they read. `Take` is a request that reads the save and is accepted or not, one
`Save…` action per endpoint computes and saves, `Conflict` is the save that has moved
on; fresh and repeated requests take the same way. **`BattleLedger`** is what a battle
promises: its turns are settled in order, each at most once, and the receipt is that of
the last one. `TurnsInOrder` instantiates it with the turn and the receipt of the save.

**`ScheduledBattle`** over **`BattleEffects`** and **`ActionQueue`**: one scheduled
battle whose accepted requests are its steps. `ActionQueue` is the schedule (every
actor waits a distance that depends on its speed), `BattleEffects` what lasts for some
turns and what it changes, `ScheduledBattle` the gambits, blows, end of an action and
the forecast shown to the player. `CallSkill` and `AnswerSkill` are the skill that is
called on a result screen: its answer applies the action that is still sealed again and
advances the turn, takes enemies out and derives greatest HP and MP anew, but not the
speeds and the forecast; these follow when the save is read again (`AsRead`).

**`RegionPools`**: quizzes of a region by rank, the stored pool per level, its copy in
the save with enemies that point into it by position, requests that fill a pool in their
transactions, battles, broken quizzes and background rebuilds.

**`CatalogueRules`** are the pure functions of the catalogue: completing, resolving,
checking, exporting, merging. **`CatalogueDocument`** is one document over its life,
**`CatalogueSamples`** the documents enumerated for it, **`GameSettings`** the
administrators who read and save the stored documents in their transactions: what a
request has written (`own`) is over what is stored (`node`) until it commits, and `lock`
says who wrote a stored document last. The database may hold all documents, some or none.
One that is not stored cannot be locked, and `AdminSettings` has no uniqueness constraint:
two requests whose MERGE does not find it both make it (`made`). When the second of them
commits, two nodes have the key (`doubled`), each reader takes one of them (LIMIT 1), and
the behaviour ends there.

**`TextDiff`** is the pure comparison of two texts (`entry/resource/repo/diff`),
**`TextGraph`** the queries that store the result, and **`Library`** the imports,
synchronisations and deletions that race with each other, with new quizzes, repairs of
quizzes and answers. The effects of an import are computed when it commits, because a
query that writes waits for whoever holds the resource. Nothing makes a quiz wait for an
import, though: an import or a deletion first finds which sentences are asked about and by
what (`writer`: `Write`, `FindHeld`), and acts on that when it commits (`Drop`); making or
repairing a quiz first finds its sentences (`draft`: `FindSentences`, `FindReplacement`)
and then writes the relations (`CreateQuiz`, `Reattach`). A quiz that was written across
such a change is marked `raced` for the properties.

**`Transactions`**: who shares which transaction. The task of a middleware, a handler,
a background task, a worker and the tasks it starts are one set with `own`, `open`,
`depth` and `pending`. **`Notices`**, **`Experience`**, **`DailyReview`**,
**`StudyPlans`**, **`QuizBoard`** and **`QuizPreparation`** each model one component of
the same name in section 1; `QuizPreparation` follows a request and the background task
it leaves from `Ask` to `End`. That the task starts after the commit, although FastAPI
may start it during the commit, makes no difference: its first statement waits for the
lock on the study plan that the request holds.

**`MediaCleanup`.** `Begin` with `Replace`, `Edit`, `RemoveAvatar` or `Leave` are requests
that read the user first and write it last; an `Edit` of another field writes the avatar
it read, since `AccountDB.update` saves every property of the node. `Claim` … `Release` is
`process_next`, with both leases; `Fail`, `Stop`, `Stall` and `Expire` are failing calls,
stopped processes and leases that run out.

The `MC…` modules give finite sets for TLC. `MCGame` and `MCStudy` put parts that share
no state into one run: the first state chooses the part that moves. The `…Proofs`
modules hold the proofs. Operators introduced by the comment "Faulty variant" are bugs
that the code does not have; the mutants of `PROJECT.json` put them in place of the
real operator to show that a property notices.

## 4 Runs

| Run | Question | What holds |
|---|---|---|
| `PageRankQueue_limits` | Can two workers, with limits that change and leases that run out, exceed the limit? | `LimitKept`, `ClaimsRespectLimit` |
| `PageRankQueue_jobs` | Is the record of a job truthful, complete and append-only, and are fresh ranks current, with crashes, stale owners, an import, a forced import and a deletion? | `SuccessWasPublished`, `FinishedIsComplete`, `ReadyRanksAreCurrent`, `LedgerSpec` |
| `PageRankQueue_finish` | Is every queued job finished? | `JobsFinish` under `FairSpec` |
| `AdventureState_play` | Do the books balance, and does each thing count once, when two screens play, shop, import and earn rewards? | `BooksBalance`, `RevisionNamesContent`, `OnceOnly` (1.4 M states) |
| `CombatTurn_race` | Two devices and the walking browser in one battle, requests repeated and raced: can it go on, is each fact recorded once, is a defeat final? | `CanGoOn`, `OnceOnly`, `DefeatAtEntrance`, `TurnsInOrder` (1.0 M states) |
| `ScheduledBattle_fight` | A battle of six turns against two enemies with effects of every kind and a skill that is called: are derived values current, who acts, who falls, is the forecast kept? | `NothingStale`, `NobodyStarves`, `LivesAndDeaths`, `ForecastKept` |
| `MediaCleanup_jobs` | Does the live avatar survive, is one image deleted at a time, is no job lost, is each done? | `LiveAvatarSurvives`, `OneAtATime`, `JobsAreKept`, `JobsAreDone` |
| `MediaCleanup_put_back` | Does a profile keep its image whatever else is edited? | `UsedUploadsSurvive` is violated, see section 7 |
| `QuizPreparation_jobs` | Is each reservation given back once, each mark removed, each recorded region filled, each job ended? | `SlotsAddUp`, `MarksHaveJobs`, `RecordedWereFilled`, `JobsEnd` |
| `Library_imports` | Two imports of one title race with each other, with deletions, synchronised headings, new and repaired quizzes and answers | `SentencesHeld`, `GraphOfText`, `SlotsAddUp` |
| `Game_world` | Pools of a dungeon under requests, background jobs and battles; administrators on the settings; a catalogue document through the versions | `PoolsHold`, `SettingsHold`, `FileSavedAsReviewed`, `DocumentsLast` (1.0 M states) |
| `Study_days` | Transactions, the review of a day, experience, notices, study plans, quizzes, each with two requests at once | `SavedAsWhole`, `LevelsTold`, `PlansHold`, `ExhaustedMeansNone`, `BoardHolds`, `ReviewSetKept`, `NewestKept` |

Many of these are conjunctions of parts that the module states one by one, each with a
comment; a component's type invariant is one of the parts (or is proved, as in
`PageRankQueue`, `MediaCleanup` and `QuizPreparation`).

Some properties need their condition:

- `LimitKept` and `ClaimsRespectLimit` carry `~overtaken`: no job was inserted with an
  older stamp than a running one. Without it they fail (section 7).
- `ReadyRanksAreCurrent` exempts resources whose graph was repaired: the code's
  freshness test cannot see a forced import of the same text.
- `OneAtATime` holds until a call outlives its own lease (`stalled`). `LiveAvatarSurvives`
  exempts avatars that the save of another field put back (`restored`) and images an
  administrator deleted by hand; `JobsAreKept` allows a job to go when a look-up found its
  image in use, even if it was replaced after that (sections 7 and 8).
- `NothingStale` and `ForecastKept` leave out the moment between the answer of a called
  skill and the next read of the save.
- `SentencesHeld` says of a quiz that was written while an import or a deletion of its text
  was under way (`raced`) only that what it is marked by is retired.
- `SlotsAddUp` of `QuizPreparation` counts `dropped`, the reservations of tasks that were
  never started, and `MarksHaveJobs` exempts `lost`, the marks that such tasks and tasks
  that timed out in the queue leave.
- `AdventureState!OnceOnly` of daily rewards is checked with `Overnight = FALSE`: no
  request spans midnight.
- `FileSavedAsReviewed` is about the documents that were stored when the save of a file
  began (`locks`): no lock protects one that is stored meanwhile for the first time
  (section 8). `SettingsHold` is about enemies no edit changes, and about the time before
  two requests have made the same document (`doubled`); it says that only a document that
  was not stored at first can be made twice.
- `ExhaustedMeansNone` is not said of a preparation during which quizzes, texts or plans
  were changed, nor where a sentence has more relations than are tried for a quiz
  (`Crowded`): its relations then fill the list, although it gets one quiz.
- `PoolsOnlyGrow` exempts `late` levels: those another request stored since this one began.
- `GraphOfText` holds for texts that no two imports wrote at a time and no
  synchronisation marked as imported, and for imports that do not move a term to another
  sentence that stays (section 8; text `t5` of `MCLibrary` is one, and no request of the
  run imports it); `CombatTurn!OnceOnly` leaves out the price of a
  gambit (section 7).
- Quizzes in `crossed` and notes in `strayed` were changed by two requests that did not
  see each other; `BoardHolds` says what is true of all others (section 8). Two reports
  that a user made at a time (`Twin`) may be open without the creator knowing.

## 5 Bounds and fairness

Every bound is a constant named `Max…` (or the size of a set) and appears as a guard.
They are chosen so that each interesting event happens at least once together with
the others it can interfere with:

- PageRank: two jobs, two processes and three owner tokens are needed for a stale
  owner, its successor and a competitor; with one job three tokens allow two
  take-overs. Two resources in a job let a take-over fall before, between and after
  outcomes. One import, one repair and one deletion each can fall between any two of
  the three reads and the publication. In `PageRankQueue_finish` two jobs, four
  tokens, one death and one stall let a worker be lost in either way at any statement
  and still leave a token for the next.
- Adventure: two devices suffice for every race on one node, since the lock admits one
  request at a time and a third device only repeats the second. The revisions give a
  first write, a conflicting one and one based on either.
- Combat: one battle of two enemies, two devices, one turn after the first: a request
  can be repeated before, between and after both. Enemies have one point of HP, which
  tells apart a blow that fells one of them from one that does not.
- Scheduled battle: six turns let an effect of each kind begin, stack to its limit, end
  and be renewed with actors of different speeds. The skill can be called once in a battle;
  `CallTurns` lets it be called after the second turn, when effects are under way and as
  many turns are to come.
- Media: two images give an old and a new avatar; two calls a stale and a current one. In
  `MediaCleanup_put_back` a second device lets an edit and a replacement overlap; in
  `MediaCleanup_jobs`, which also checks liveness, the edit and the others take turns.
- Quizzes: two jobs for one dungeon of one user, one global slot and two reservations
  reach the limit on each level and one below it.
- Library: two imports of four texts that share, rename, drop and duplicate sentences,
  and three other requests between any two of their statements.
- Game: one position a level, two levels, two clients and one background job; two
  administrators and two edits, on databases with a catalogue of the old or the new form,
  without one, and empty; every sample document with every file of definitions.
- Study: two requests at once in every part. A set of at most two of three items over two
  days; boxes of at most one notice with three notices made; two plans, three sentences,
  two jobs and two quizzes asked for; a quiz of three sentences and one more that is
  made, with three requests and two notes, and two ways in which terms are lost (`Namings`).

TLC reports that every action is taken in these runs. Symmetry is used only in runs
without liveness properties; deadlock is not checked in the runs whose bounds let the
instance end.

Liveness is checked under

- `PageRankQueue!Fairness`: weak fairness of each coroutine, of each process's polling
  loop, of leases that run out and of requests. This is what asyncio (every ready
  coroutine is run), the endless `run_worker` loop and time give. Deaths and stalls are
  bounded: a queue whose workers die for ever makes no progress in reality either.
- `MediaCleanup!Fairness`: weak fairness of calls, requests, time and some worker's
  claim (30-second polling, HTTP timeouts).
- `QuizPreparation!Fairness`: strong fairness of a request's statements (database locks
  are granted in the order of arrival), weak fairness of `finally` and of the
  15-minute timeout. The operation itself has none: it may hang, and `JobsEnd` holds
  because of the timeout alone.

The other runs check safety only and state no fairness.

## 6 Proofs

The theorems hold for every value of the constants that satisfies the named assumptions:
any number of jobs, processes, devices, enemies, users, quizzes, texts and any bound.
The assumptions are `QueueAssumption`, `MediaAssumption`, `PreparationAssumption`,
`AdventureAssumption`, `BattleAssumption` with `NullAssumption`,
`TransactionsAssumption`, `LibraryAssumption`, `PoolsAssumption`, `OldSavesAssumption`,
and, as hypotheses of the theorems, `StudyAssumption`, `BoardAssumption`, `MailAssumption`, `DailyAssumption`, `XpAssumption`,
`SettingsAssumption` and `EnemiesAssumption`: finite sets where something is counted,
positive limits, null values that are no members, sentences whose fragile ones are
sentences, ranks that are numbers, settings that ask for no more items than a set holds
(100 and 500 in the code), coefficients above 0 (the request that sets one refuses
others), no resource called "user", saves of an older program without any stored pool
but with quizzes and enemies as it left them,
a built-in catalogue without the version of the migration (`migrate_boss_settings` takes
it out) and edits of other enemies. TLC evaluates all of them in the runs. One hypothesis it
cannot evaluate, since it is about the null value itself: `NullAssumption` of
`TransactionsProofs` says that `None` is no document (it has no field `version` or
`factor`).

| Theorem | Module | Statement |
|---|---|---|
| `TypeCorrect` | `PageRankQueueProofs` | `Spec => []TypeOK` |
| `SuccessIsTrue` | | `Spec => []SuccessWasPublished` |
| `FinishedIsFinal` | | `Spec => []FinishedIsComplete` |
| `ImplementsLedger` | | `Spec => LedgerSpec` |
| `RunningWithinLimit` | | `Spec => []LimitKept` |
| `ClaimsWithinLimit` | | `Spec => ClaimsRespectLimit` |
| `ReadyIsCurrent` | | `Spec => []ReadyRanksAreCurrent` |
| `RegionPoolsHold` | `BackgroundProofs` | `PoolsSpec => []PoolsHold` |
| `TypeCorrect` | | `Spec => []TypeOK` (of `MediaCleanup`) |
| `AvatarIsSafe` | | `Spec => []LiveAvatarSurvives` |
| `DeletesOneAtATime` | | `Spec => []OneAtATime` |
| `NoJobIsLost` | | `Spec => JobsAreKept` |
| `TypeCorrect` | `QuizPreparationProofs` | `Spec => []TypeOK` |
| `SlotsCorrect` | | `Spec => []SlotsAddUp` |
| `RegionsCorrect` | | `Spec => []RecordedWereFilled` |
| `MarksCorrect` | | `Spec => []MarksHaveJobs` |
| `PlansAreHeld` | | `StudySpec => []PlansHold` (of `StudyPlans`) |
| `TransactionsSaveWholes` | `TransactionsProofs` | `TSpec => []SavedAsWhole` |
| `CatalogueIsKept` | | `SSpec => [](Alone /\ (doubled = {} => SettingsTypeOK /\ CatalogueKept))` |
| `BossesScaledOnce` | | `SSpec => []SettingsHold` |
| `FileIsAsReviewed` | | `SSpec => FileSavedAsReviewed` |
| `AdventureBooks` | `AdventureProofs` | `Spec => []BooksBalance` |
| `AdventureRevisions` | | `Spec => []RevisionNamesContent` |
| `AdventureFinds` | | chests, keys, dungeons and slots are taken once, midnight or not |
| `AdventureOnce` | | `Spec => []OnceOnly`, if no request spans midnight (`~Overnight`) |
| `BattleGoesOn` | `CombatTurnProofs` | `Spec => []CanGoOn` |
| `RecordedOnce` | | `Spec => []OnceOnly` |
| `DefeatEndsAtEntrance` | | `Spec => []DefeatAtEntrance` |
| `LedgerImplemented` | | `Spec => TurnsInOrder` |
| `BoardHoldsAlways` | `StudyProofs` | `BSpec => []BoardHolds` |
| `NoticesKept` | | `NSpec => NewestKept` |
| `ReviewSetIsKept` | | `DaySpec => ReviewSetKept` |
| `LevelsAreTold` | | `XSpec => []LevelsTold` |
| `SentencesAreHeld` | `LibraryProofs` | `Spec => []SentencesHeld` |
| `SlotsAreGivenBack` | | `Spec => []SlotsAddUp` |

**PageRank.** *Types.* `TypeOK` is not inductive: `Current(o)` is a resource only if the
task has not reached the end of its list. `Inv` adds `TaskInv` (position of a task in its
list for each statement) and `JobInv` (lists of absent, queued and other jobs).
*Ledger.* A stale task may hold any list; what matters is that it can never save it.
`OwnersKnow` says that a task which still owns its job knows all saved outcomes and
at most one more, and that a token owns no job before its claim. `TasksPublished`
carries the truth of successes along in the coroutines. A checkpoint is then an append
of one outcome, `Finish` leaves the record as it is, and every other step stutters in
`JobLedger`.
*Limit.* A claim counts live leases, but heartbeats revive expired ones, so the
number of live leases proves nothing. What keeps the limit is the order of `created`:
`OrderInv` says that running jobs are older than queued ones, so a claim that chose a
queued job saw no expired one, and live leases were all the running jobs. `StampInv`
(time stamps are unique) makes the order strict; `ClaimsInv` bridges the two steps
of a claim.
*Ranks.* `SnapshotInv` says of a task between its reads: if the resource still has the
version it read first and was not repaired, what it has read of the graph is what is
there now. It rests on versions that only grow until the resource is deleted.

**Region pools.** `PoolInv` has three parts. `Graph` says of a request that fills pools
(`Filling`) that what it has written, and is about to write, begins with what is stored,
for every level up to the one it is at except its `late` ones, which another request has
filled since it began; so what commits only makes a pool longer. `Sound` is what a save
points at by position: the question of the battle, and for every enemy a quiz of the pool
the save has copied. It survives all that is done to the list of quizzes because that
list only grows at its end, or is rebuilt by `Ranked` around what enemies and battle keep
(`SoundJoin`, `SoundTaken`, `SoundRebuilt`). `Jobbing` is the registered rebuild and the
job that releases it. Below them lie facts about lists that hold for lists of every
length: `Only` selects in order, keeps a list free of repetitions and turns beginnings into
beginnings (`OnlyOf`, `OnlyPrefix`), `ByRank` lists a finite set without repetition
(`ByRankIs`). They are inductions over the numbers, each over a set that is written out
(`Counting`): a least number outside it would have a predecessor inside.

**Media.** An image whose job is due, or that a call works on, is `Doomed`: it was signed,
no request under way has chosen it, and it is old or was an avatar once. `Doomed` is kept
by every step, so between the look-up of the references and the deletion no replacement
can make the image an avatar; `RequestInv` (each replacement brings an image of its own,
and what a request has read was an avatar) makes a replaced avatar doomed. Only the save of
another field can: then the image is in `restored`, and that this is the only way is what
the theorem says. `CallSafe` is what a call knows at each statement. `LeaseInv` says that a
call at work holds the lease of the queue until it is stuck.

**Quiz preparation.** Types and `SlotsAddUp` need each other: `active` stays within its
limit because it counts jobs, and `GiveBack`, which never goes below 0, takes a slot
away only because the job that ends still holds one. `Inv` is their conjunction. Each
action either moves a job without entering or leaving `Holders` and the working
statements (`QuietMove`, `QuietClose`), or adds or removes exactly that job
(`ReserveMatches`, `GiveBackMatches`, `DropInv`, `AdmitInv`, `EndInv`).
`RegionsInv` is what a task knows at each statement that leads to a recorded region:
the frontier it read only grows, and quizzes for the region and for the one after it
have existed since it looked. `MarksHaveJobs` is inductive with `RegionsInv`, which says
that only jobs for the game reach `Mark`; `MarksStep` states what a step keeps.

**Transactions.** Writes are numbered and never repeat (`Fresh`), and the sets a write
may be in (pending, of a block, saved, failed) are apart (`Apart`). `Begun` says who may
be inside an open transaction: the task that began it, or the one handler of its request;
`Blocks` that what is in a nested block is in the transaction around it, and `Marked` that
a block which failed has marked the transaction for roll-back, which is why a caller that
catches the exception cannot commit it. `Kept` and `Told` connect that to what was saved
and what the reply said.

**Settings.** `SetInv` says of each request what it may still do to the others: it has
locked or made what it wrote (`Wrote`); a migration holds the catalogue that is stored, if
that has no old factors any more, which is what the second look under the lock is for, and
where it has migrated nothing is left to migrate (`Migrating`); a file holds the lock of
everything that was stored, so what its administrator was shown cannot change between check
and commit (`OfFile`). A document that was not stored is not locked by this; a request that
made one which another has stored since is `Doomed`: nothing is said of it but that its
commit makes the document double. Steps that lock or make keep this (`RequestMoves`), and
so do commits and roll-backs (`RequestEnds`), because what is written over others' documents
is new (`WritesNew`). `PowersInv` adds the enemies: whatever is on its way into the database
came from what is stored by reading, merging, storing or consolidating, and these keep the
enemies of the beginning as they are or scale them by the factor of the beginning, with the
version (`PowersRead`, `PowersMerged`, `ConsolidatedIsScaled`).

**Adventure.** `Doc` is the shape of a save, and `Chain` the order that makes the
comparison of revisions enough: what a device shows is older than, or the same as, the
save it would meet (`Older`), and a revision names one content. Every request stores,
conflicts or leaves the save alone, and the books are kept by each of these.
For `OnceOnly`, `Singles` compares the tally of each event with what the save shows of
it: an event that was done shows (`Had`), `Grows` says that what shows stays, and an
operation that earns something first looks whether it shows. For daily rewards the marker
shows the day, and only the day the request read; that is where `~Overnight` is used.

**Combat.** `Good` and `Sound` describe the saves and markers between the requests of a
turn: an enemy stands, the actor is sealed or the result is on screen, and what waits for
an answer was called in this turn or an earlier one. `Spent` says of a recorded fact that
no request can record it again, because the turn, the receipt or the enemy has moved on
(`Over`, `Forward`, `Onto`): every step preserves what is spent, and records only what was
not. `LedgerSettles`, `LedgerPasses`, `LedgerStays` and `FinishedLedger` map the steps to
those of `BattleLedger`.

**Notices.** A transaction decides what it prunes from what is committed and what it wrote
itself; others do the same. `MailInv` therefore counts what is *not yet* committed:
whichever of the open transactions commit, in whatever order, the box stays below
`MaxStored + |Requests|` (`Bounded`), and whatever one of them is still going to delete
has at least `MaxStored` newer notices in the box (`Owed`). That a deleted notice is older
than all that stay follows from the largest of what goes.

**Quizzes.** `BoardInv` says that a quiz nobody crossed is broken in exactly its retired
sentences and refers to none that is gone; it holds what a request has found until it acts
(`FoundOK`), which stays true because a note keeps its id, kind, quiz and user; and it
says who was told of an open report. `Twin` covers the two reports of one user that are
made at a time. The numbers on the pages follow by counting differences of sets.

**Review of a day.** `Faithful` says of a document that each set in it comes from the copy
of the settings stored beside it; it holds of what is committed and of what the request
with the lock has written, since that request read its copy under the lock. `Allowed` is
the action property said of the request before it commits: each set is the committed one,
or differs from it as it may. Both would break if pruning could take the copy and leave
the set, or drop a set for a day that is then gone itself: `OldStaysOld` shows that
pruning keeps the newest day that is stored, so what was too old when it was dropped still
is when the request commits. A request that is about to choose works by the copy that is
there, or by one that was too old and went together with its set (`Working`).

**Experience.** That `ResourceXpEvent` has a unique key is not what makes `XpOnce` true of
what is committed: a request looks for the key in what is committed and in what it wrote.
`Once` therefore speaks of both together (`Joined`), for each request, and `Earning` says
that a request which does not hold the user's node has written no events. A commit then
adds the events of the holder to books to which nobody else is about to add one
(`FinishKeepsXp`). `Sourced` holds since the exposure or answer is written before its
award, in the same transaction, and a roll-back takes both (`Within`: what is found stays
found). `TellInv` adds the notices: what anybody can see, the committed events and notices
and those of an open transaction, agree (`Telling`), which holds at every step since an
event and its two notices, of the user and of the resource, are written in one step from
sums that were added up under the lock (`EventTells`). The coefficient is read before the
lock; as long as nobody changed it, what was read is what is set (`Pending`). That a
notice continues the ones before it is `NoticesTell`, from `Links` about a list with one
notice more, `SumsUp` about sums over a list with one event more, and the arithmetic of
levels: with `q` whole coefficients earned, the level is the `L` with
`L*L - L <= 2*q < L*L + L` (`LevelIs`, over the integer root of `RootIs`), so more points
never lower it (`LevelsRise`) and the points inside a level are fewer than it needs
(`PointsInLevel`).

**Library.** A query may add sentences, under numbers never used before (`Grown`,
`Onward`), and then retire or delete some. `Snapshot` is what makes it safe that a removal
acts on what it found earlier: every quiz that is not `raced` still refers to what it was
found to refer to, since a quiz written meanwhile is raced, and one that asks about what is
being removed is held by the marking (`Marking`) and can be neither repaired nor deleted.
`DraftOK` says that the sentences a quiz is to be led to stand as long as no text has been
written since they were found. Of answers one sentence carries the proof: an answer of a
quiz that is not raced selected a sentence of it, or a retired one; so a sentence that is
deleted because no quiz asks it is one that no such answer selected. Slots are the
cardinality of the devices inside (`InSlot`).

**Study plans.** `LearnInv` holds for each job what it may still make and what it has made.
`Measure` is a count: what is made and what the parts still to come ask for is within what
was wanted (`Fits`; that the shares add up is `Given`, an induction over the parts), also
when a second round makes up for the first. `Books` is about the quizzes: what a job made
for coverage is one for each type and target (`Single`), because a target of the list it
works on that has such a quiz got it from this list (`Fresh`), and likewise for what a list
asks about (`Unasked`, `NotTwice`); quizzes are only added, broken, committed and taken away
meanwhile (`Evolved`). `Settled` follows a plan that waits to the job that has it before it.
The sums of the pages are recursive functions over the quizzes; that they agree is shown by
counting (`SumStep`, `OrderStep`, `AvailableStep`).

What cannot be proved here stays model-checked:

- Liveness (`JobsFinish`, `JobsAreDone`, `JobsEnd`): fairness and ENABLED are beyond the
  prover.
- What rests on folds and sorted lists of the community modules (`GraphOfText`;
  `NothingStale`, `NobodyStarves`, `LivesAndDeaths`, `ForecastKept`). The
  library's theorems of induction over data take an operator, which the provers cannot
  instantiate, and an operator handed to a fold is a LAMBDA they do not look into.
  Where a definition is a recursive function over positions (`Only`, `SumXp`, `Sum` of `StudyPlans`), induction
  over the numbers has been done by hand, see above; `NobodyStarves` would also need exact
  bounds of truncated divisions by the speed of each actor.
- What is computed along chains of templates and triggers (`DocumentsLast`): that what is
  read back is what was saved needs induction over the chain.
- `ExhaustedMeansNone`: that a list tried in vain had every sentence in it rests on the
  lengths of lists chosen among all orders of a set.

The inductive invariants were checked by TLC on the instances of the runs before they
were proved.

## 7 Where code and documentation disagree

One is a run that TLC refutes; `PROJECT.json` quotes the sentence.

- `MediaCleanup_put_back`: `AccountDB.update` (`user/db.py:57-81`) saves every property of
  the node it read. A request that changes another field reads the profile before the avatar
  is replaced and saves it after the old image was deleted: the profile then names an image
  that is gone, against "Used uploads survive" (`media/worker.py:48`). If the cleanup comes
  later, its look-up finds the image in use and spares it, and if the job of the new image was
  given up before, nothing deletes that one.

The others are kept as definitions beside the properties and can be put into a
configuration to see their counterexample:

- `PageRankQueue!LiveLeasesWithinLimit`: an enqueue is stamped, waits for the queue lock,
  and is inserted behind a job that has started since. If that job's lease runs out, the
  claim prefers the older stamp, and the late heartbeat revives the first job: two jobs run
  under a limit of one.
- `PageRankQueue!CompletionIsNotified` (`worker.py:68`): once the last checkpoint has
  finished a job, `keep_alive` finds it "not running", raises, and the task group cancels
  `process_job` while it stores the notification.
- `AdventureState!RewardOncePerDay` with `Overnight = TRUE` (`economy.py:213`): the day is
  read once and retried with; after midnight the marker no longer equals it, and the reward
  is granted again.
- `MediaCleanup!ReplacedImagesHaveJobs` (`media/worker.py:51`): a replacement that commits
  between `referenced_ids` and the deletion of the job merges its own job into the one that
  is deleted. `JobsAreKept` is what does hold: a job goes when its image is deleted, or was
  found in use by the call that holds the job.
- `CombatTurn!RefusedWhenUsed` (`skills.py:79` and `:93`): the skill is refused as "already
  used in this turn", but in a scheduled battle the mark is never taken back
  (`combat.py:1038` resets it in plain battles only), so it is refused on every later result
  screen too.
- `QuizPreparation!BlockedOnlyWhilePreparing` (`game/preparation.py:277`): a request that
  fails after `add_task` keeps its reservation until the process restarts.
- `CombatTurn!NoUnlockInDefeat` (`end_actions.py:518`, against `combat.py:902`): an end
  action in which the boss and the player fall together still counts the boss as won.
- `CombatTurn!ActionPaidOnce` (`combat.py:734`, against `docs/game-specialties.md:29`): the
  cost of a sealed action is paid with the result of its turn, and again when the answer of a
  skill used after it is applied as a turn.
- `Library!ImportedTextStored`: after an import the graph is not always that of the text;
  the cases are in section 8.

## 8 What else the models show

Behaviours of the code that contradict no text, but that a reader should know of. The
modules contain each of them, and the properties are stated so as to be true with them.

- PageRank: a claim can revive a job that its former owner has finished a moment ago
  (`repo.py:131`); a forced import of an unchanged text leaves stale ranks "ready".
- Media: see section 7 for what the save of another field does to an avatar.
- Scheduled combat: the answer of a called skill advances the turn and takes enemies out
  without deriving speeds and forecast again (`combat.py:771-790`). The reply shows them as
  they were, possibly naming an enemy that has fallen; the next request that reads the save
  derives them (`restore_state`). It also applies the action that is still sealed once more.
- Library: a term moved to another surviving sentence is not persisted; `POST /namespace`
  writes a new `txt_hash` without details, so that the next import finds the text
  unchanged; lock and slot are given back before the commit, so that a second import plans
  on the old graph; the comparison of `updated` never fails because it reads what it
  compares; `delete_folder` reads the children first and detaches them later; a quiz that is
  made or repaired while an import or a deletion of its text is under way may keep a relation
  to nothing, or refer to a retired sentence without being marked as broken
  (`retirement.py:29-43` marks the quizzes its query found).
- Game: two first requests can store different pools; a rebuild tests the set of scheduled
  dungeons before it awaits, so two jobs may run for one dungeon; a rebuild may pick the
  same broken quiz again; a second migrating request reads the balance again without asking
  again whether it must migrate, and loses an edit; `save_settings_file`
  (`settings_files.py:194`) locks only documents that exist, so that one stored meanwhile
  for the first time is overwritten; two requests that store a document for the first time
  make two nodes, of which each reader takes one (`LIMIT 1`), so that a saved catalogue can
  be shadowed by a migration that came late; when a catalogue that never stored a shop has an
  unsupported trigger, the shop that would be derived from the prices is lost
  (`catalog.py:2178-2182` stores an empty one, which `1654-1667` takes for a shop); a level
  of a pool that another request has stored since a request began can be overwritten by it
  (`population.py:113`).
- Adventure: a request that spans midnight can grant a daily reward twice (section 7).
- Transactions: a hook registered inside the `atomic` of a background task is appended to
  a list nobody runs any more.
- Notices: with concurrent creators a box may hold more than its limit, by fewer than the
  creators; subscriptions are merged without a constraint and may be double.
- Daily review: a profile is resurrected by an edit that races its deletion; a read that
  races the deletion makes the snapshot anew.
- Study plans: the default plan is merged without a constraint; a plan whose resources are
  all deleted is invisible but still listed with the preparations; a batch that is
  cancelled marks the plan in hand as failed and leaves its later plans "queued" until the
  cut-off, and so stays a plan of a batch that cannot be read; "ready" counts quizzes of
  others; a quiz that refers to the placeholder of a term without explanation counts as
  available, but is never recommended (`review/repo.py:35-38`, `progress/repo.py:61-77`).
- Quizzes: a quiz whose sentence lost its term is listed by neither the search of one's own
  quizzes nor the feed, and no number counts it (`listing/repo.py:122-130`, `236-244`); a
  report repeated while its dismissal commits is open again without a notice;
  of two reports made by one user at a time, dismissed one by one, the other opens again
  without a notice (this came out of the proof, it needs more requests than the run has);
  an answer or report committed while the quiz is deleted stays behind without quiz.

## 9 What is not modelled

- In the modelled parts: the title shown while a PageRank job runs and the arithmetic
  of the iteration; equipment, gambit shop and practice in the saved adventure; amounts of
  damage, prices and rewards; the rate limit of signatures; the tree of folders; texts of
  headings; the choice of distractors and the wording of a quiz; the text and rank of a
  notice.
- Requests of users do not last as long as the hours after which an unused upload is
  deleted (`BecomeDue` waits for requests under way); screens never reuse an upload id.
- Not modelled at all, for the reasons in `PROJECT.json`: the parser (a grammar and tree
  transformations of unbounded texts), the language server (one editor, message by message),
  database and schema (configuration; its missing constraints and its locks are part of the
  modules that write), accounts (a library), account transfer (one sequential transaction),
  dashboard (read-only queries and append-only records), command line.

## 10 Open work

- Four hazards have no property in a run, because what would have to hold is refuted:
  `CompletionIsNotified`, `ReplacedImagesHaveJobs`, `NoUnlockInDefeat` and `RefusedWhenUsed`
  (section 7).
- `practice.py` and the admin's rebuild through the preparation controller would complete
  the saved adventure and the quiz preparation.

## 11 Running the checks

    tlc -workers 2 -config PageRankQueue_limits.cfg MCPageRankQueue
    tlapm PageRankQueueProofs.tla

and so on for each pair of configuration and module in `PROJECT.json`. Runs take from
a few seconds to about four minutes; the proofs about half an hour together.
