# dora-service-utils: verification

TLA+ models of the parts of this library that keep a protocol — transactions on
the Redis cache, the record cache fed by Kafka, schema migrations, positions and
pools, and the logger, metrics server and secrets beside them — with TLC runs that
check them on small instances and TLAPS proofs, in eight modules, of every safety property
that the runs check, for every instance. Paths and line numbers are those of
the repository (`src/` in `PROJECT.json` is its root).

    tlc -config OptimisticTx.cfg MCOptimisticTx.tla     # a run: module and cfg as in PROJECT.json
    tlapm OptimisticTx_proofs.tla                       # the proofs of a component

`PROJECT.json` lists the runs, the source lines of every definition, the hazards
with the properties that cover them, the findings, and the theorems. For every
checked property it names a mutant: an operator of the module that changes one
definition as a plausible bug would, and with which TLC finds the property
violated. Mutants stand next to what they change, under a comment "Mutant".

## The system

The library is used by services that run in many processes. They share one Redis
(the "cache" of positions, interest, pools and prices), one Spanner database and
Kafka topics.

| Component | State | Operations | Interaction, and what is hard |
|---|---|---|---|
| `redis` | none; Redis keeps the watches of a connection | `TryTransaction`: retry with backoff around WATCH, a function, EXEC | optimistic concurrency of many clients, any error is retried, replies get lost |
| `ledger/redis` | hashes `positions:*`, `interest:*` | getters and setters, `*Cmd` helpers for a caller's transaction, `AccrueLendingInterest`, `AccrueAllLendingInterest` | which reads and writes the watches really guard, partial failure of several writes, results filled by several attempts |
| `pools/redis`, `prices/redis` | a hash per pool, one hash of prices | the same shapes | two setters write overlapping fields of a pool |
| `ledger/types` | `Position`, `Module`, `Balances`, `Amount` | tracking of modifications and sequence numbers, arithmetic on balances | the order of copy, snapshot, print and store; int64 edges |
| `pools/types` | `Pool` | liquidity in and out, simulated swaps, fees | rounding through `big.Float`, checked uint64 |
| `helpers` | `AssetData` | stablecoin equivalence on a position; valuation | map order, precision of currencies; floats |
| `cache` | status, cancel function, records, mutex | `Init`, `Start`, `Stop`, a polling goroutine per `Start` | unguarded status, contexts, a client shared by goroutines |
| `migration` | table `schema_migrations`, schema | `Migrate`, the file parser | concurrent runs, crash between statement and version, DDL that outlives its waiter |
| `metrics` | `http.Server`, running flag | `Start`, `Stop`, `Register`, `StartMetricsServer` | a goroutine that reads the server after the lock is released, and logs; the port |
| `logger` | a file shared by all loggers, a ring buffer per thread-safe one | `New`, `NewThreadSafeLogger`, `Close` | no lock on the file; a reader behind its writer |
| `secrets` | none; the secret manager keeps secret and versions | `CreateSecret`, `GetSecret` | two requests that get lost or arrive late, callers that retry |
| `kafka` | configuration | client, topic names, `CollectConsumerLag` | the lag is the difference of two requests, beside a group that commits |
| `orderbook`, `spanner`, `errors`, `ptr`, `tools`, `validation`, `testing` | configuration, handles | names, conversions, interfaces, containers for tests | little state of their own |

What makes each correct: no committed update is lost and a nil means the update
happened once (`redis`); an answer is one moment of Redis and a nil means all is
written (`ledger/redis`, `pools/redis`, `prices/redis`); what retries and concurrent
accruals charge never adds up (interest); records are numbered without gap (positions);
no value appears or vanishes (balances, equivalence, pools); polled records are
neither lost nor doubled and `Stop` stops (cache); a recorded version is applied,
without gaps, and restarts finish the work (migration); a message is written or
reported, what was stopped is not reached any more, a secret has one payload, a lag
is not understated (logger, metrics, secrets, kafka).

## Modules

| Module | Part | Correspondence |
|---|---|---|
| `RedisServer` | the commands of Redis that transactions rest on | external: keys, the watched keys and the dirty flag of a connection; EXEC is one step, forgets the watches, and is refused when a watched key was written |
| `OptimisticTx` | `redis.TryTransaction` with the `*Cmd` helpers | `pc` is the place in `backoff.Retry` and the function. A client reads plainly (`HGET`, `HMGET`) or by a `TxPipelined` helper (an EXEC); a value is the number of updates of each client it incorporates, so a lost update is a missing count |
| `AtomicUpdates` | what a caller may expect of it | one step reads and writes all keys of a call |
| `RecordStore` | every ready-made getter and setter | an operation is a shape (setter with its HSETs, snapshot getter, plain getter) with its keys and the keys it really watches; a record is the number of the call that wrote it |
| `InterestAccrual` | the two accrual functions | one step per command of `accrueLendingInterestTx`; flat rate 1, a position is the value it has borrowed, a record is owed and paid; `had` keeps, for the property, the values that positions have had and when |
| `PositionLedger`, `BalanceMath` | `Position`, `Module`, `Balances` | the object, a user's position or the module's, with `original` and `originalSequence`; its owner's calls in a transaction; a stale module cannot be saved, a stale position can (`overwritten`); the operations that add, subtract, invert and compare, on int64 of `Bits` bits |
| `StablecoinEquivalence`, `AssetData` | `helpers/users.go` on a position; the values in USD of `helpers/asset.go` | one step per asset the loop over the Go map looks at, in any order; values are exact integers, whole percents of the smallest unit, instead of float64 |
| `LiquidityPool` | `pools/types` product pool | one action per operation of a provider or a swap; amounts have `Width` bits (64), a `big.Float` product is rounded to `Bits` (53), also of amounts that need more; a call that ends with an error leaves a changed pool in its caller's hands (`failed`), who drops it (`Drop`) |
| `Cache` | `cache.Cache` | goroutine n and context n belong to the n-th `Start`; status and cancel function are read without the mutex where the code does so; `committed` is the offset of the consumer group, moved by `processFunc` and by the client's autocommit; the deferred commit of a goroutine that ends uses a context that is done, fails, and closes the client |
| `ConsumerLag` | `kafka.CollectConsumerLag` | extends `Cache` by a topic that grows and a collector between its two requests |
| `Migration` | `migration.Migrate` on Spanner | one step per statement; an accepted DDL operation runs on its own (`pending`) |
| `MigrationParser` | `migration/parser.go` | one step per line. A line is a marker, blank, or one of ten kinds by what the code asks of it: how it begins, and whether it has `/*` and `*/` in it, which may stand after SQL and after `--`. What follows `*/` on its line is not modelled. A kind is written without spaces (`--+END`), which names it and does not spell it |
| `Logger` | `logger.New`, `NewThreadSafeLogger`, `Close` | the n-th `os.OpenFile` is file n; a ring of `Size` slots, its writer and its polling reader are the diode of zerolog (external); `Alert` is the callback that the repository gives it |
| `MetricsServer` | `metrics.Server` | the n-th `Start` makes `http.Server` n and goroutine n, which reads any server from its own to the newest; the port may be held by another process |
| `Secrets` | `secrets.CreateSecret`, `GetSecret` | requests and answers on their way, on one secret; a payload is its caller |
| `Service` | a process that has the three | a message of the metrics server is one step of its goroutine and of its logger |
| `MC*` | instances for TLC | |
| `*_proofs` | the theorems of a component | `OptimisticTx`, `Migration` with `MigrationParser`, `Cache` with `ConsumerLag`, `RecordStore`, `InterestAccrual`, `PositionLedger`, `StablecoinEquivalence` with `LiquidityPool`, whose sums it shares, `Service` with `Logger`, `MetricsServer` and `Secrets` |

`OptimisticTx`, `RecordStore` and `InterestAccrual` all stand on `RedisServer`.
`PositionLedger` takes two facts from `OptimisticTx`. The module is read by `HGET`, so
that a write fails if it was written since. Users' positions are read by `TxPipelined`
(`positions.go:45`, `210`), which loses the watches, so that a stale position is stored
all the same. `MarshalBinary` and `SetUsersPositionCmd` write the object as it is; the
services keep the rules that the comments of `position.go` state (`Numbered`:
`UpdateSequence` before a modified position is recorded or stored; for the module, which
has none, they assign `NextSequence`). `StablecoinEquivalence` has its own exact
integers instead of `BalanceMath`: its amounts stay far from 2^63 (overflow of int64 is
excluded). `Service` composes `Logger` and `MetricsServer` step by step; `Secrets`
shares nothing with them, so that a behaviour of `Service` is about the one or the other
(`part`) — all their interleavings would tell no property anything new.

Faults are crashes, lost replies and failed commands, at any step and limited by
`MaxFaults`. A lost reply is a command that took effect and an error for its
caller. Every timeout may or may not have expired at any moment.

## Runs

| Run | Question | Bounds, and why they are enough |
|---|---|---|
| `optimistic` | is an update ever lost or torn, what does a result tell, does every call return, is a call an atomic update | three clients: two that collide on two keys, one with a timeout, one that reads by `TxPipelined` and collides on two others; a call each and a fault, so that a call has several attempts |
| `optimistic_snapshot` | the promise of `README.md` for readers by `TxPipelined` — violated | two clients, no fault |
| `records` | is an answer one moment, what do nil, error and retry leave behind | three calls of two clients, any operations of one family (families share no key), one fault: a setter, a getter or second setter that overlaps it, and a third call between an attempt and its retry |
| `interest` | do charges that are retried, or made by two at once, add up | two accruers, a batch of two users and a single one, a payment or a position change, a fault, two ticks |
| `positions` | numbering of records through copies, snapshots, prints and concurrent stores, stale ones included, of a position and of the module; exactness of `SubToZero`, `SubAmountToZero` and `SubBals` | two services, two assets, three changes, int64 of 4 bits so that amounts reach the edge; up to two records in a transaction |
| `stablecoins` | does conversion keep value, its account, and the limits | three currencies of two precisions and a bond, three starting positions with a debt and with less than a dollar, two requests between conversions |
| `pools` | does rounding drain a pool, does an error or an overflow cost anybody shares | two providers, four calls, amounts of 8 bits and floats of 6, so that products are rounded and amounts leave what a float holds, become negative as int64, and overflow |
| `cache` | are records kept, does status tell the truth, does `Stop` work, is the lag understated | three starts: a goroutine that ends, one that runs, one that begins; two records, so that a poll has one or both; a caller that waits until a `Start` took effect; one report of the lag at any moment |
| `cache_impatient` | `cache_test.go:96` for callers that do not wait — violated | two callers, two starts |
| `migration` | what a version promises, how often statements run, do restarts finish | two processes, five runs, two faults, three files with repeatable and unrepeatable DDL and DML and a gap in the versions |
| `service` | do log messages vanish unreported, what answers the metrics port, does a secret get a second payload | a logger of `New` and a thread-safe one with two slots that gets three messages, so that its reader is lapped; two starts of the metrics server and another process that wants the port; two creators of a secret with a retry each |
| `parser` | is every file split as the README of `migration` says | all files of up to five lines of fifteen kinds: two statements with a marker each, or one with a comment of two lines; longer files by the proof |

The type invariants of all modules are proved; that of `MigrationParser` is also
checked by its run, where a mutant breaks it. A run has a `CHECK_DEADLOCK FALSE`
because calls, faults and time are bounded: a behaviour ends when they are used up,
as services may stop calling.

### What the properties say

- *Transactions.* `GuardedNeverLost` and `ImplementsAtomicUpdates`: on keys that
  no client reads by `TxPipelined` before it writes them, `TryTransaction` is an
  atomic update, also next to clients that do so on other keys.
  `PlainNeverOverwrites`: a plain reader never overwrites unseen work, on any key.
  `OncePerSuccess`: an update happens once per nil and once more per lost reply —
  a caller that gets an error does not know. `SnapshotsAgree`: what the
  `TxPipelined` helpers are good for.
- *Records.* `AnswerIsOneMoment` although attempts share one result map and the
  watch list is empty for some operations (a moment at which a setter is half done
  is one, too); `NilMeansAllWritten`; `OldComesBackOnlyByRetry`: setters are
  unguarded (`HSET` outside MULTI), last writer wins, and an overwritten record
  returns only by the retry of a lost reply.
- *Interest.* `RecordIsOneAccrual`: with retries, batches, concurrent accruals and
  payments, owed and paid together are what one accrual charges: for the time up to
  some moment, and a value that the position had then or later. Charges never add
  up, and nobody is charged for a value that was gone before the time charged up to.
  That is all that can be said: interest is read under the bare ID and written under
  `interest:<ID>` (`interest.go:249`), so that each accrual starts from the empty
  record, and `LastUpdated` is never set (`interest.go:304`), so that it charges from
  the zero time. An accrual after a payment therefore charges the time that was paid
  for again, and its record forgets the payment.
  `EveryUserReported`, `ModuleChargedLikeUser`: what a returned transaction list
  and the module's record stand for.
- *Positions.* `RecordsComplete`: the last record is what Redis holds, and no
  sequence number is left out. The module's are 1, 2, 3 ... without repetition; so are
  a position's until a stale one is stored over another. `TakesWhatIsThere`: `SubToZero` and
  `SubAmountToZero` take the smaller of what is there and what is asked for, the
  first returns exactly the rest, and `SubBals` takes all.
- *Equivalence.* `SseqSumsToZero`, `SseqExplainsOwned`, `ActivateFills`, and
  `ConversionKeepsSolvent`: among currencies at one dollar with the same weights, no
  step of a conversion changes what a position is worth or takes it over its borrow
  limit or liquidation threshold, as `AssetData` computes them. (With different
  weights it may: conversion looks at neither price nor weight.)
- *Pools.* `SharesAreHeld`, whatever overflows and however a call ends.
  `EmptiesCompletely` and `OnlyRoundingGained` (at most one unit per call) as long as
  every amount is below 2^53 (`exact`); what happens above is listed under "Seen while
  modelling". `ProductNeverFalls`, for reserves that are int64s.
- *Cache.* `EveryRecordAccounted`, `OneStoppableLoop`, `RunningMeansPolling`,
  `StoppedGoesQuiet`. *Lag:* `LagNeverTooSmall`: committed offsets are asked for
  before the end of the log; whatever is produced and committed in between, the
  answer is at least the lag of every moment of the call. (It may be too large.)
- *Logger.* `MessagesAccounted`: however often a ring is lapped and whoever opens
  the file again or closes it, a message that has left the ring is in the file,
  was reported by the alert, or met a closed file, and the file has them in order.
- *Metrics.* `OnlyNewestServes`: a goroutine may pick up the server of a later
  `Start`, or of none that is left; what answers is the newest and runs.
  `StopFreesPort`, also when `Stop` is faster than the goroutine; `StartComesUp`,
  if the port was free and nothing was stopped.
- *Secrets.* `OnePayloadForEver`: create comes first and only one create succeeds,
  so that late requests and retries never add a second version, and who was told
  "stored" finds his payload.
- *Migration.* `RecordedMeansApplied`, `NoGap`, `AtMostOncePerUnawareRun`,
  `EventuallyMigrated`. *Parser:* `StatementsAsWritten`, for files that are written
  as the README of `migration` says. `EveryTextLineOnce`, for all files: no line is
  doubled or out of order, nothing that begins as a comment or marker is taken, and SQL
  is left out only after a line that opens a comment as the code sees it. The code
  looks for `/*` anywhere in a line, so that this includes SQL that is not in a comment
  (see "Seen while modelling"). Only where code and SQL agree about comments
  (`ProperComments`) are the lines taken exactly those of SQL.

### Fairness

- `OptimisticTx`: weak fairness of the steps of a client inside a call — a running
  goroutine goes on, its commands are answered. Nobody has to call, fail or time
  out. With finitely many calls somebody's EXEC succeeds, which is why
  `EveryCallReturns` also holds without a timeout (`WithMaxElapsedTime(0)`).
- `Cache`: weak fairness of the goroutine's steps, strong fairness of taking the
  mutex, since Go's `sync.Mutex` hands over to a waiter that would starve. No
  fairness of callers, except that a call of `Start` that has begun goes on.
- `Migration`: weak fairness of each process, of Spanner's operations, and of
  starting again a process that has ended. That services are restarted is an
  assumption about the deployment; `EventuallyMigrated` also needs the last of the
  bounded runs to be alone and free of faults.
- `Service`: weak fairness of the goroutines of the metrics server (a goroutine
  runs, `ListenAndServe` returns or serves). No fairness of callers, of `Close`, of
  the diodes, of the process that wants the port, or of the secret manager.

## Proofs

TLAPS checks the eight proof modules to the last leaf. Their only assumptions are the
named ones of the modules they extend, which TLC evaluates in the runs. Three of these
contain arithmetic that holds for every instance and that the provers do not know:
`LedgerAssumption` that a power of two is a positive number and `2 ^ Bits = 2 * 2 ^
(Bits - 1)`, `EquivalenceAssumption` that powers of ten are positive numbers and `10 ^ x
= 10 ^ y * 10 ^ (x - y)`, `PoolAssumption` that powers of two up to `2 ^ (2 * Width +
1)` are positive numbers and multiply by adding exponents. Each module proves the type
invariants with the rest. Every theorem holds for all clients, keys, callers, users,
services, assets, providers, files and bounds that these assumptions allow.

`OptimisticTx_proofs`, from `ClientAssumption` (`Footprint` maps clients to sets
of keys; the rest are subsets and naturals; clients and keys may be infinite):

1. `TypeCorrect`.
2. `FreshInvariant`: `TypeOK /\ FreshUnlessDirty` is inductive. `TypeOK` alone is
   not enough for anything else: what makes an EXEC safe is that while a plain
   reader's connection is clean, it watches its whole footprint and has read what
   Redis holds; any other client's write makes it dirty.
3. `PlainNeverOverwritesTheorem` follows at the step that commits. By it
   `GuardedNeverLostTheorem`: the count of a client in a guarded key is the number
   of its commits. `NoLostUpdateTheorem` is the case without `TxPipelined` readers.
4. `OncePerSuccessTheorem` and `DoneMeansAppliedTheorem` need only types.
5. `Refinement`: initial states map to initial states of `AtomicUpdates`, and a
   step to a commit, to the begin or end of a call, or to a stutter. The mapping
   restricts the store to `GuardedKeys`.
6. `SnapshotsAgreeTheorem` needs that two keys in the same footprints (`Twins`) are
   equal in the store (`StoreAgrees`), which every commit keeps.

`Migration_proofs`, from `FilesAssumption` (versions are positive and increase in
the order of `fs.WalkDir`; runners, files and statements are arbitrary). The
inductive invariant `IInv` adds to `TypeOK`, `RecordedMeansApplied`, `NoGap` and
`BehindMeansRecorded`:

- `HasHighest`: a non-empty table has a highest version, so that the `MAX` of
  `GetCurrentVersion` exists. Kept as an invariant, it needs no induction over
  finite sets.
- `BeforeMineApplied` and `WaitsForMine`: the statements of its file that a
  process has passed have taken effect, and an operation it waits for is the
  statement it stands at. Without them a step to the next statement could pass one
  that never ran.
- `CurrentMeansRecorded`: the version a process read at its start stands for
  recorded files, although others may have recorded more since.

`RecordedMeansAppliedTheorem`, `NoGapTheorem` and `BehindMeansRecordedTheorem` say
that for any number of concurrent, crashing and restarted processes.
`AtMostOnceTheorem` counts. Per statement, the effects it had, the operations
queued for it and the processes that may still send it (`Candidates`: those that
read a version below its file and have not passed it) are together no more than
the calls that found its file unrecorded (`Budget`). A start adds a candidate and
such a call, sending turns a candidate into an operation, and an execution turns
that into an effect; a crash only takes away. That candidates are finitely many is
part of the invariant, so that there may be infinitely many runners.

The same module proves the parser, for files of any length. What a file means
(`TextLines`, `Block`, `MarkerBefore`) is defined on the whole file, so that the
lemmas before the invariant say what one more line changes in it: nothing before that
line (`InsideNext`, `MarkerNext`, `BlocksNext`), and a file that is written as it
should be was so at every line before (`ProperCommentsBefore`,
`ProperMarkersBefore`). Of the recursion in `FlattenSeq` only one step is needed, that
one more sequence is added to the end (`FlattenAppend`, through the least place where
two such functions would differ). `ParserInv` adds to the types:

- `CommentOpened`: where `multiLineComment` is set, a line before opened a comment as
  the code sees it. It is what `EveryTextLineOnceTheorem` says of any file.
- `CommentKnown`: in a file with proper comments, `multiLineComment` tells whether the
  next line is in a comment. With it a line of SQL is collected, or passed over,
  rightly (`LineEffect`), which gives the last part of `EveryTextLineOnceTheorem`.
- `BlocksListed`: up to any line the statements are the blocks but the current one,
  whose lines the builder has, and no other block begins after it. `Current` is the
  last marker, unless that is an end marker in capitals, which the code takes for a
  comment: then it is still the marker before that. In a proper file an end marker
  follows a line of its block, so that the two ways to end a statement, and the third
  at the end of the file, agree: `StatementsAsWrittenTheorem`.

`Cache_proofs`, from `CacheAssumption`, in two layers. `RecordInv`, for any callers,
gives `EveryRecordAccounted`: polled records are 1 to some k, each processed, given
up, or in the hands of one goroutine between its poll and the end of `processFunc`;
what makes it inductive is where a goroutine can have records at all (`OnTheWay`) and
that goroutines are numbered without gaps (`Numbered`). `PatientInv`, for callers that
wait until a `Start` took effect, adds that one `Start` is on its way at most and
nothing else goes on with it (`OneAtATime`), what the status says of the newest
context (`StatusTells`), that a goroutine ends only when its context is done
(`GoneMeansDone`), and what holds before the first (`Fresh`). It gives
`OneStoppableLoop` and `RunningMeansPolling`. The module also proves the lag of
`ConsumerLag`: its `LagSpec` implements the `Spec` of the cache
(`CollectorOnlyWatches`), no step takes the committed offset back (`CommittedGrows`),
and so, between the two requests, the offset that was told is at most the committed
one and no lag so far exceeds what the answer will be (`LagInv`), which gives
`LagNeverTooSmall`.

`RecordStore_proofs`, from `RecordAssumption`. `CallsSeeStore`: what Redis holds now
is one of the moments that a call in progress has seen, which makes a getter's answer
one of them; `SetterProgress`: what a setter has written and what it still has to
write are together its keys. They give `AnswerIsOneMoment` and `NilMeansAllWritten`.
`RevivedOnlyByRetry` needs that the number a call writes under is its own, so that a
value of the past in the hands of a call was written by that call (`NumbersAreMine`).

`InterestAccrual_proofs`, from `InterestAssumption`. `RecordIsOneAccrual` needs that
what an accrual is about to write is already one charge (`OneCharge`): what it has read
comes from the empty record, because the bare keys stay absent (`TypeOK`), and the
value it has read is one that the position had at the time it charges up to or later,
because `had` has the present value at any moment (`HadNow`).
`EveryUserReported` needs where a call is in its batch (`Placed`), and
`ModuleIsChargedLikeUser` that a call that writes is about to write the same amount to
both records (`Charged`), which holds because both were read as the empty record.

`PositionLedger_proofs`, from `LedgerAssumption`. `Ready(s)`, for every service in a
transaction, stale or not: it began with nothing or with the number of a committed
record, the last one unless it is stale or one was overwritten (`Base`), and its
position, the copy it can go back to, and the records of its transaction continue from
there (`Begun`). So whatever is saved continues a number that exists (`Committed`),
which leaves none out. Copies being equal to the position (`CopyIsSame`) and a
snapshot's original being itself (`FreshObject`) are the lemmas it rests on.
`RecordsComplete` is part of the invariant, and that the module is never overwritten.
`TakesWhatIsThereTheorem` needs that nothing in a service's list of dues is negative
(`NothingOwedTo`): otherwise `SubToZero` adds. An amount that fits the integers is not
wrapped (`WrapExact`), which is why the smaller of two amounts is taken to the unit, and
what is left of any amount after any subtraction is exact modulo the width
(`WrapDifference`).

`StablecoinEquivalence_proofs`, from `EquivalenceAssumption` and `RegistryAssumption`.
`SseqExplainsOwned` is inductive with the types. `ActivateFills` needs the loop
invariant `Filling`: the dollars still to convert cover what is missing by less than a
dollar, and assets the loop has left hold less than a dollar while it goes on.

The module also proves about sums. `SumFunctionOnSet` is defined by recursion over the
set in an order of its own choice; what is needed of it (it is a number, equal numbers
have equal sums, any element may be split off: `TotalIsSum` to `TotalParts`) is proved
through a smallest subset for which it would fail (`SmallestSet`, from the
well-foundedness of the strict subsets of a finite set), which takes the place of an
induction. Then:

- `SseqIsZeroSum`: a conversion moves `loss` of one currency and `gain` of another
  that are worth the same at the precision of the finest asset
  (`ConvertedIsWorthTheSame`, `CleanedIsWorthTheSame`), which leaves the sum as it is
  (`ValueMoved`). The invariant adds that the asset to be filled is a currency.
- `ConversionKeepsSolventTheorem`: of what is gained, some pays a debt in that
  currency, which counts in full, and the rest is owned, which counts as before
  (`PaysDebtFirst`). With `paid` the part that pays, the limit falls by `paid` times the
  weight and the debt by `paid` (`MarginMoved`), and a weight is at most one.

About `LiquidityPool` it proves, from `PoolAssumption`, all that the run checks. Most of
it rests on what a rounded product can be wrong by (`FloatFacts`, from the three cases
`FloatOfLess`, `FloatOfFew` and `FloatOfMany`; `FloatGrows`). For amounts below
`2 ^ Bits` the `Portion` of `x * y / z` is then less than one off, and above the exact
value by no more than a part in `2 ^ Bits` (`PortionFacts`). From this all of an amount
is its own portion (`PortionOfAll`), a part that is not all leaves something
(`PortionOfPart`), and a larger amount has no smaller portion (`PortionGrows`). `PoolInv`
is inductive:

- `SharesAreHeld`, a sum again, and the types, for all amounts: a call that fails
  changes what its caller holds and nothing else (`FailStep`), and what the sum of the
  shares would lose in a uint64 is a failed addition.
- `BelowLimit`: as long as `exact` holds, the reserves and the shares are below
  `2 ^ Bits`, so that `PortionFacts` applies to each of them.
- `EmptiesCompletely`: nothing but the removal of all shares takes out all base assets.
- `FairShare`, for `OnlyRoundingGained`: while `exact` holds and nobody swaps, no share is worth
  more than a unit of an asset, and what the shares of a provider stand for is at most
  what it put in, less what it took, and one unit per call. The first is what keeps a
  rounded call from being worth more than a unit to anybody else; after a swap it is
  false, as reserves may exceed the shares, and so is `OnlyRoundingGained` (then
  providers earn fees).
- `ProductNeverFallsTheorem` is a property of one swap (`SwapReserves`).

`Service_proofs`, from `LoggerAssumption` and `ServiceAssumption`:

- `MetricsInv`: every `http.Server` but the newest, while it runs, is closed, and
  who has bound or serves holds the port. With it `OnlyNewestServes` follows, for a
  goroutine that serves has a server that is not closed.
- `SecretsInv`: all answers there have been belong to one call, whose create was the
  first to arrive; an add is requested after its create was answered, once. Then
  there is one version, that call's.
- `LoggerInv`: what a logger has in the file is older than what its reader has in
  hand, and the ring holds messages that were logged. Without it nothing orders the
  file when the ring is lapped.

Only model-checked: liveness (`EveryCallReturns`, `StoppedGoesQuiet`,
`EventuallyMigrated`, `StopFreesPort`, `StartComesUp`), for fairness and ENABLED are
beyond this prover. All other properties of the runs that pass are theorems; the two
that are violated have their counterexamples.

## Findings

- `optimistic_snapshot`: a read by `GetUsersPositionCmd` or `GetPoolsCmd` in a
  caller's transaction ends in an EXEC, after which Redis has forgotten the keys
  that `TryTransaction` watches; a later write overwrites a concurrent update.
  `README.md:51` promises otherwise. The accrual of interest reads the same way, so
  that a position set between its read and its write does not stop it, as
  `interest.go:187` wants.
- `cache_impatient`: two calls of `Start` in a row both succeed, and the first
  goroutine can no longer be stopped (`cache_test.go:96`).

Seen while modelling, without a run:

- The setters write by `HSET` outside MULTI, which watches do not guard
  (`positions.go:64`); `RecordStore` has what follows from it.
- `Balances.SubToZero` adds a negative amount of its argument to a positive
  balance, where its comment says no-op (`balances_math.go:97`).
- `LastUpdated` of an interest record is never set (`interest.go:304-309`), and what
  is read is always the empty record (`interest.go:249`): every accrual charges from
  the zero time. What a user has paid is charged again by the next accrual, which also
  erases the payment from the record.
- A stale position of a user is stored without an error (see `optimistic_snapshot`)
  and its record repeats a number, where `position.go:42` says that numbers
  ensure completeness. `MarshalBinary` does not call `UpdateSequence` either: a service that
  stores a modified position without it repeats a number, too. `Module` has no
  `UpdateSequence` at all. Printing a position does call it, and a position that is
  printed and then changed back counts as modified.
- `ActivateStablecoinEquivalence` looks at `Owned` and never at `Locked`, so that
  until the cleanup a user may own less than is locked (`users.go:50`), which
  `position.go:16` calls a subset.
- A pool accepts amounts up to 2^64 (`safemath.go:16`), which floats of 53 bits do not
  hold. With a base of 2^53+1 the removal of all shares leaves one unit and no shares;
  with 2^53+3 what the last provider is due is rounded above the base, and he gets an
  error (`pools.go:278-291`). Between, a provider may gain more than a unit per call. A
  reserve from 2^63 on is negative as an int64 and counts as 0 in a swap, which then
  takes all of the other reserve; in liquidity it counts as its distance from 2^64,
  and a share or part that does not fit a uint64 is cut to one without an error.
  `AddAccumulatedFees` does not check its addition.
- A failed addition or subtraction leaves the pool with a 0 in the field it was for,
  and the fields before it changed (`pools.go:243-251`, `283-293`); a caller must drop it.
- The migration parser looks for `/*` anywhere in a line, and before it looks for a
  leading `--` (`parser.go:100-112`): `-- see a/* b` and `select 1; /* note` begin a
  comment, and the SQL after them, in the second also the SQL before it, is passed over
  without a word. A line with `/*` within a comment ends it, and what follows is taken
  for SQL.
- The end marker of a migration is matched in lower case only, unlike the README
  says of markers; a file written as the README describes is split the same way.
- `metrics/server.go:97` logs "failed to start" just when the server was closed
  (`errors.Is` where its negation is meant); a server whose port was taken says
  nothing and stays "running" with nothing listening (`refused`). A `Stop` and
  `Start` in a row can end so, too: the new goroutine asks for the port before the
  old one has closed it. `StartMetricsServer` returns no server, so that nobody can
  stop it.
- Messages in a diode when `Close` is called meet a closed file. A second
  `logger.New` ignores level and path of its own (`logger.go:21`).
- `CollectConsumerLag` does not look at the error of a single partition
  (`lag.go`): its end is -1, and the lag reported is 0.
- `Records` returns the cache's own map (`cache.go:140`), which the goroutine goes on
  to write. Records whose `processFunc` failed are committed all the same
  (`cache.go:113`).
- Lines of a statement are joined with nothing between them (`parser.go:80`).

## Not modelled

`redis/redisfakes`, `kafka/kafkafakes` and `spanner/spannerfakes` are generated
doubles for tests, some 79 000 of the 86 000 lines of Go; they contain none of the
program's logic. Of the other 7 000 lines the map covers three tenths: what keeps a
protocol or an account.

Yield pools and prices of pools are arithmetic on floats. Of `AssetData` the values
that bound borrowing are modelled; the supplied and available value and the coupon
periods are queries that nothing in the repository uses. `Amount` and `Balance` are
checked values without state, `math` beyond what pools use is comparison and parsing
of big numbers. `ParseVersion`, `orderbook`, key builders and configuration are
conversions without state; migrations are taken to be numbered with leading zeros as
their error message says, since `fs.WalkDir` goes by name. `Validate` methods change
nothing. `Register`, collectors and interceptors of `metrics` hand counters to
Prometheus. The Kafka client, Spanner, the secret manager and the diode are other
systems: their behaviour appears in the modules that use them, as external
definitions. `errors`, `ptr`, `tools`, `validation` and `testing` have nothing to
interleave. A panic (`Stop` before `Start`) ends the process and is left out.

## Plan

Done, in this order: `RedisServer`, `OptimisticTx` and its abstraction; `RecordStore`
and `InterestAccrual` on it; `Migration` and the parser; `Cache`; `PositionLedger`,
`StablecoinEquivalence`, `LiquidityPool`; `Logger`, `MetricsServer`, `Secrets` and their
composition; `ConsumerLag`; the proofs.

What is left would be:

1. a refinement of `Cache` to a queue that hands each record out once, and of
   `RecordStore` to registers;
2. the coupon periods of `AssetData`, once a service's use of them is part of the
   repository.
