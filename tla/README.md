# A formal model of gocold WMS

This directory holds TLA+ models of the program under `src/`, the TLC
configurations that check them, and TLAPS proofs about them. Paths below are
relative to `src/` unless they begin with `tla/`; the program's Python package
is `src/src/`.

The program serves a cold-storage warehouse. It reads stock and orders from
CartonCloud (CC, a hosted WMS), works out pick waves and dispatch runs, and, in
its most delicate part, writes captured carton and each dimensions ("dims") back
to CC's live product master. The write path was built as a chain of gates
("the write spine", W0 to W5) because a wrong write changes a customer's data
and cannot be tried out safely. It is what this development models first; then
the consoles from which waves and dispatch plans are built, and those two
pipelines themselves, from past deliveries to the rows of a pick sheet, and the
offline scripts that decide where products are kept.

## 1. The system's parts

| Part | Code | State | Operations | Hard part | Correct when |
|---|---|---|---|---|---|
| Rate limiter (W5) | `cc_client/write_rate_limit.py` | one token bucket per endpoint, a lock | `check` | threads share buckets that are made on demand; refill is a read-modify-write of balance and clock | admissions stay within a full bucket plus refill, nothing within it is refused |
| Object locks, idempotent mutate (W4) | `cc_client/write_idempotency.py` | a registry of locks made on demand, one per process | `lock_for`, `serialise_object`, `idempotent_mutate` | two threads creating the same lock; exceptions in the body | calls on one object run one after the other, and behave as one-step upserts |
| Gates (W0, W2, W3) | `write_config.py`, `write_authz.py`, `write_customer_guard.py` | an immutable config | `is_customer_allowed`, `verify_*` | the live customer is gated by its own flag, never by the allow-list | nothing is sent that a gate should have stopped |
| Client | `cc_client/client.py` | access token, `write_enabled` | `get`, `_request` (retries), `_mutate`, `post_search` | time-outs whose request lands later; a flag switched on for the time of a search | `_mutate` sends at most once, and only if enabled; a search leaves the flag as it found it; listings are complete; no request outlives its retries |
| Dims approve, verified write | `dims_write/approve.py`, `roundtrip.py` | a call's locals | `approve_dims_write`, `write_and_verify` | the read is made before the lock; fields CC drops; late PATCHes | what is reported verified is so, and stays so |
| Bulk write | `dims_write/bulk.py`, `uom_name.py` | plan, report | `build_bulk_plan`, `_run_bulk` | plan is stale when executed; failure half way; resumption by running again | report adds up, only confirmed things are sent, batch is never refused by its own limiter |
| Live proving, single-SKU round trip | `dims_write/live_proving.py`, `roundtrip.py` | report | `run_live_proving`, `run_sandbox_roundtrip` | one confirmation per SKU, a failure in the middle | as above |
| Scripts that write dims | `scripts/run_dims_*.py` | the environment, the exit code | `main` | five scripts run one after the other, the live customer armed for some and to be disarmed after | 0 means nothing is left behind |
| Probes, capture table | `dims_write/*_probe.py`, `capture.py`, `analysis/dim_loader.py` | none | surveys, sheet loading | unit conversion, duplicates, headers edited by hand | what is written to a product is what was captured for it |
| Queries | `cc_client/queries.py` | a report run polled to completion | `get_stock_on_hand`, `get_sku_locations` | deadline against a late answer | a report is given up at its deadline and never when it is ready |
| Wave console | `web/app.py`, `jobs.py`, `runs.py` | one active job, its events and result | `start`, `_run`, event stream | worker thread against HTTP handlers; 'done' is emitted before the result is stored | one run at a time; its end is seen |
| Dispatch dashboard | `web_dispatch/` | as above | as above | as above | |
| Wave runner | `wave_runner.py` | the run directory | `run_wave_generation` | a raise anywhere, a PDF that fails half way through the waves | what the consoles list is whole |
| Dispatch | `dispatch/`, `analysis/dispatch_link.py` | the cached model, plan directories | learn, predict, write, find latest, link | a plan read while it is being written; orders and deliveries newer than the plan or its model | nothing is waved on a prediction the plan did not make |
| Picks, routing | `analysis/wave_picks.py`, `carton_split.py`, `full_pallet.py`, `routing.py` | none (data frames) | classify, wave, split, locate, consolidate | a chain of groupings with a key each | every order is picked, once, whole; short stock is said |
| Extract and slotting | `scripts/extract.py`, `analyze_v2.py`, `assign.py`, `analysis/` (`loaders`, `velocity`, `tagging`, `full_pallet`, `slotting`, `zoning`, `assignment`), `locations/` | files of orders, receipts and products | pull, load newest, compute, publish | files of several extracts, some torn or missing; joins that drop or repeat rows; scarce faces | one snapshot; nothing lost on the way; faces to the fastest |
| Pick sheets, other scripts, deployment | the rest | none | documents, command lines | | |

How they interact: `approve_dims_write` calls limiter, client (GET), customer
guard, authorisation and `idempotent_mutate`, in that order, and is given the
function that mutates: one that records (shadow) or one that calls
`CartonCloudClient._mutate` (live). `write_and_verify` adds a read-back.
`_run_bulk` calls `write_and_verify` once per item. The object-lock registry and
a limiter may be shared by threads of a process; processes share only CC. The
dispatch builder and the wave runner are separate processes (or threads of two
consoles) that share the plan directories and nothing else: no lock, no
completion mark. Extract and slotting share the raw files in the same way.

## 2. Modules

| Module | What it is |
|---|---|
| `RateBudget` | What the limiter promises: a verdict taken in one step from the endpoint's log of admissions. No bucket, no lock. |
| `MutateRateLimiter` | The limiter: `check` taken apart into call, lock, bucket, clock reading, account, release. Implements `RateBudget`. |
| `MutateRateLimiterProofs` | TLAPS proofs about it. |
| `DimsData` | Dims, `compute_diff`, `_is_writable_value` filter, the effect of a JSON-Patch of `add` operations. |
| `ObjectLockRegistry` | `lock_for` and `serialise_object`, a step at a time; extended by the modules whose calls run under an object's lock. |
| `AtomicUpsert` | What `idempotent_mutate` promises: a write, or a no-op, in one step. |
| `IdempotentMutate` | `idempotent_mutate` as its contract describes it (read under the lock, mutation over when it returns). Implements `AtomicUpsert`. |
| `IdempotentMutateProofs` | TLAPS proofs about it, and about the locks, whatever body they protect. |
| `WriteGates` | The decisions of the gates, and the precondition of every write run. |
| `DimsApprove` | `approve_dims_write`, `write_and_verify`, both mutate functions and `_mutate`, over a network that delays, loses and rejects. Composes `ObjectLockRegistry`, `DimsData` and `WriteGates`. |
| `DimsApproveProofs` | TLAPS proofs about it. |
| `CaptureTable` | Pure: from rows of a sheet to the dims wanted on CC, in centimetres, and the lookup of a product's code in them. |
| `DimsItem` | One item of any dims run: limiter, read, PATCH, read-back, against a CC that delays, loses and rejects. Composes `CaptureTable` and `WriteGates`. |
| `DimsBulk` | `_run_bulk` in its three kinds over `DimsItem`, and what the two probes say of a product. |
| `DimsProving` | `run_sandbox_roundtrip` and `run_live_proving` over `DimsItem`. |
| `DimsRuns` | The five scripts, one after another, in an environment the operator changes between them; exit codes. Composes `DimsBulk` and `DimsProving`. |
| `DimsRunsProofs` | TLAPS proofs about it. |
| `CCClient` | The client a request at a time: token, retries, the pages of a search, a report run polled to its deadline, and the write flag. |
| `CCClientProofs` | TLAPS proofs about it. |
| `ConsoleJobs` | The job managers of the two consoles, their worker threads, and the event streams that watch a job. |
| `ConsoleJobsProofs` | TLAPS proofs about it. |
| `RunPrediction` | Pure: consignments to run history to the predicted run and flag of an order. |
| `DispatchPlans` | The builder's machine (learn, predict, write the plan file by file, fail anywhere) and what a reader sees of a plan, half-written ones included. Extends `RunPrediction`. |
| `WaveSheets` | Pure: carton split, order metrics, streams, waves, locations, consolidated sheets. |
| `WaveRun` | `run_wave_generation` step by step beside the builder. Composes `DispatchPlans` and `WaveSheets`. |
| `WaveRunProofs` | TLAPS proofs about it. |
| `CaptureSheet` | Pure: the capture sheet as `load_dimensions` reads it. |
| `Locations` | Pure: the grammar of location names and `load_cc_locations`. |
| `Velocity` | Pure: `compute_velocity`, the tags, the full-pallet filter. Extends `CaptureSheet`. |
| `Slotting`, `Assignment` | Pure: recommendations and zones; products to faces. Each extends `Velocity`, the second takes `Locations`. |
| `SlottingRun` | Extracts and the runs that read them, as processes. Composes `Slotting` and `Assignment`. |
| `SlottingRunProofs` | TLAPS proofs about it. |
| `MC*` | The small instances TLC checks. |

Definitions marked "Mutant" are plausible bugs: each breaks a property, which
shows that the property depends on that piece of code.

### How state and actions correspond to code

*MutateRateLimiter.* `tokens` and `last_refill` are the fields of the buckets,
`made` the keys of `_buckets`, `lock` the `threading.Lock`. Inside the
with-block a step is anything before which the clock may move: look-up (the
constructor reads the clock), the reading in `_refill`, and the rest of `take`.
Balances are counted in units, `Minute` of them to a token, so that
`elapsed * per_minute / 60` is a whole number per tick; the code's float
rounding is not modelled. `log` and `began` are history.

*ObjectLockRegistry.* A lock object is the n-th lock made for an id in a
registry. `guard`, `locks`, `seen` and `ref` are `_guard`, `_locks` and the two
values of `lock` in `lock_for`; `holding` is what `serialise_object` acquired.

*IdempotentMutate.* `read_current` and `do_mutate` belong to the caller; both
may raise, and a mutate that raises may have taken effect.

*DimsApprove.* A caller makes one call. `wire` is its PATCH until CC has
applied, rejected or lost it, which may be long after the caller timed out;
`answer` is CC's reply. `Land` may drop the fields in `Droppable`, as an API
version that does not know them does. The limiter is reduced to a number of
tokens that comes back by itself (`Replenish`); the exact limiter is
`MutateRateLimiter`. `Get` fails by choice; a token that cannot be renewed is
the failing branch of `Send`.

*DimsItem.* `phase` is the place in `_run_bulk`, `run_sandbox_roundtrip` or
`run_live_proving`; `plan` and `report` are their data classes. The items run
one at a time in one thread, so the object's lock is never contended and is left
out; time passes only in `sleep`, which is the worst case for pacing. A PATCH
carries the run that sent it and whether that run was armed. `settled` is
history: what a run reported written and nobody edited.

*DimsRuns.* A catalogue is what CC holds of the products and a sheet (`rows`);
`kind` is the script, `config` its environment. The operator answers go or no,
or types a product's code (`TypeCode`). `ExitCode` is a function of where the run
ended, script by script. Millimetres and centimetres are related by a constant
function, so that a value left in millimetres is another value.

*CCClient.* One thread uses a client and finishes one call before the next, as
all callers do (the consoles and the scripts build a client per run). Variables
are the fields of the client and the locals of `_request`, `post_search` and
`get_stock_on_hand`; `stage` says for whose request `_request` runs. Time is in
seconds: `left` is what remains of the token on CC's clock, `skew` by how much
the client's idea of it is late (it counts `expires_in` from the answer).
`spent` is history: the age of the last look at the token, as far as `Margin`.
A consumer may drop a search at any item (`Abandon`), which closes the
generator; between pages the consumer's own work takes time (`Gaps`). What a
PATCH does to CC is in `DimsApprove`; here it is one request (`Mutate`) and the
flag in front of it (`BeginMutate`, `Refuse`).

*ConsoleJobs.* One console's process; `console` says which, as they differ only
in where a stream finds the link and in what can raise. `active`, `status`,
`events`, `named` and `done` are `_active` and the fields of `Job`, assigned one
per step because streams read them without the lock. The pipeline is what its
job sees of it: lines, then a done event, then a result, or an exception.
`stream`, `sent` and `linkable` are the generator's locals, `got` what the
browser has received over the connection.

*RunPrediction.* Ages are counted in half-lives (30 days), so a delivery's weight
is an integer; the share of a run is compared exactly, where the code divides
floats. `first` keeps the order in which candidates were met, which Python's
stable sort uses to break ties. A consignment without any run name gets its
date for a run, as `parse_consignment` does: `DateLabels`.

*DispatchPlans.* A plan is its two CSV files and how far they are written
(`stage`); it exists for readers from the moment `suggested_runs.csv` is opened,
as `find_latest_dispatch_plan` only asks for that file. What reading a file that
is being written yields is any beginning of it, cut between rows or in a row, or
an exception (`Beginnings`, `SuggestedUnreadable`). A builder that fails leaves
what it has written. The cached model is written in one step: nothing but the
next build reads it.

*WaveSheets.* An order is its consignee, state, address and lines. Quantities are
whole; parts of a pallet are percentages. Orders have one receive date, one
customer and distinct references. `eaches` is `qty_eaches`, `part.uom` is
`pick_uom`; a location's role is the export's word if it has one, else the
grammar's, which is data here (`Layout`), as is the place on the walk. `Slug` is a
constant operator: which names it confuses is up to the instance. Left out: the
walk's order and length, columns no one computes with, and the summary.

*WaveRun.* `stage` is the place in `run_wave_generation`; `pulled`, `rows`,
`group`, `sheets` are `so_lines`, `link`, `classification` and `result.sheets`.
Steps are cut where another process may be seen: the pull, the look for a plan,
the reading of each of its two files, and every file written. `Fail` is the
`except` at the end: always possible where CC or a file is involved, and the
only step where the code refuses (`Refused`).

*CaptureSheet.* A header is the sequence of its parts, so that one that begins
with another has it as a prefix, as headers edited by hand do; a cell is a kind
and a value. Length stands for width, which is read in the same way.

*Velocity.* Tables are sequences of rows, and a join on a code repeats a row for
every match. All rates of a run divide by the same window and are compared as
totals. Of a name only the kind of goods that it gives away is kept. Rows are picked
by their numbers (`RowsAt`), and sorting is by rank (`Sorted`: the n-th has n - 1
before it); products that draw level in speed go by code, the order they are grouped
in. A location is the number of its row, as it is its id in the code: two rows of
the export may have one name.

*SlottingRun.* `extract.at` is the place in `extract.main`, `run.at` in
`assign.main` or `analyze_v2.main`. CC is `Eras[cc]` and moves on between two
pulls. A file is the number of its extract, the era it was pulled in and whether
it is whole: `to_parquet` writes in place. `quiet` and `excused` are history. The
run finds three files, then reads three: others may write in between. Once its
files are in memory nothing else matters to it (`InMemory`). One extract runs at
a time.

## 3. Runs

| Run | Instance | Shows |
|---|---|---|
| `limiter` | 2 threads, 2 endpoints, 2 calls a minute, 2 ticks a minute, 2 ticks | `WindowBound`, `ImplementsBudget` |
| `idempotent` | 2 threads, 1 object, 2 fields, 2 values, 1 call each | `Serialised`, `ImplementsUpsert`, `EveryCallReturns` |
| `approve` | either 2 calls, by threads of one process or of two, with 2 units of measure, 2 fields, 2 values and 5 requests; or 1 call under all configurations, owners and tokens | `VerifiedStands`, `Sanctioned`, `OnlyWantedChanges` |
| `bulk` | 7 catalogues of 2 products, 2 owners and 2 units of measure, 4 environments, 5 scripts, 2 runs, 1 edit | `ReportAccounts`, `PacedUnderLimit`, `PoisonAvoided`, `OnTarget`, `OnlyConfirmedIsSent`, `ResumeSkipsWritten`, `ZeroIsClean` |
| `bulk_report` | 2 good products, 1 run, 1 edit | *violated:* "the first failure stops the run and reports what is written" |
| `exit_armed` | the catalogues of `bulk`, 1 run with `CC_LIVE_PROMOTION` set | *violated:* "the process can never exit 0 armed" |
| `consoles` | either console, 2 jobs, 2 progress lines, a stream opened and dropped at will | `OneRunAtATime`, `OneVerdict`, `StreamsComplete`, `NoLinkToFailure`, `NobodyWaits` |
| `consoles_link` | the same | *violated:* "on `done`, the panel swaps in a 'View run' link" |
| `client` | the code's own retry count, margin (60 s), time-out (30 s) and poll delays (10 s, 80 s, 300 s); 2 calls; listings of 0, 2 and 3 items in pages of 2; `max_pages` none or 1 | `WritesOnlyIfConfigured`, `AllItems`, `UnauthorisedExplained`, `EveryCallEnds` |
| `waves` | 2 orders out of 7 templates, the second coming in at any time; 12 past deliveries; 3 products; a pick face and 2 reserves; 1 plan; 3 settings; 3 rules files | `UncertainToPallet`, `OrderOnOneSheet`, `CountedOnce`, `ListedRunWhole` |
| `waves_twice` | 2 orders, 2 runs with one slug | *violated:* "nothing dropped or double-counted" |
| `slotting` | 2 eras of CC, 2 extracts, 1 run of either script, 5 products, 5 sheets, 2 exports, 4 products to zone in zones of 2 | `OneSnapshot`, `NothingLost`, `PlacedRight`, `ZonesCohere` |

What the properties say:

* `WindowBound`, `ImplementsBudget`: any run of admissions on an endpoint fits
  in a full bucket plus the refill of the time it spans; and the limiter is exactly that budget,
  so it does not refuse what fits, nor let one endpoint spend another's budget.
* `Serialised`, `ImplementsUpsert`: the guard makes lazily
  created locks safe, and calls under them act as if each took effect at once.
* `VerifiedStands`: although the diff is made from a read before the lock, and
  although PATCHes may land after their call gave up, a write that was reported
  verified is undone only by a call that wants another value for the same dim
  or by another user. It holds because the PATCH carries changed fields only, and
  so needs no lock: it holds between processes, which share none.
* `Sanctioned`, `OnlyWantedChanges`: no sequence of gate outcomes lets a PATCH
  out that is not live, authorised, enabled and for a cleared customer, and a
  PATCH changes nothing but what its call wanted.
* `ReportAccounts`, `OnlyConfirmedIsSent`, `OnTarget`, `PoisonAvoided`,
  `PacedUnderLimit`, `ResumeSkipsWritten`: a bulk report adds up to the
  candidates; only items and values of the confirmed plan are sent, although
  each is diffed anew; on the customer and unit of measure of that kind of run,
  with the dims of the product's own code or, only if that was not captured, of
  the code without its s;
  an each run is not stopped by a badly named unit of measure that was badly
  named when it was planned; the pause between writes suffices at exactly the
  ceiling's rate with no bucket to spare; and a second run, of any script, does
  not plan what the first reported written. They hold for the round trip and the
  proving run too, where the operator confirms one product at a time.
* `ZeroIsClean`: a script that ends with 0 has no PATCH under way, and nothing it
  was told to write failed or was left untouched, on each of the ways out of
  each of the five.
* `OneRunAtATime`, `OneVerdict`: no second pipeline is set going at any point of
  the first one's life; however a run ends (result, reported failure,
  exception), it tells its streams so once, last, and in agreement with its
  status.
* `StreamsComplete`, `NoLinkToFailure`: streams read the
  job without a lock, and yet a stream that ends has sent every event, and a link
  is only offered to a run that did not fail, because the status is stored
  before the name and read after it.
* `WritesOnlyIfConfigured`: a search or report switches `write_enabled` on for
  its POST, and however it ends (to its last page, dropped by its consumer,
  failed in a request or in the renewal of the token) the flag is what it was
  when a PATCH comes along.
* `AllItems`: three rules end a listing (Total-Pages, a short or empty page,
  `max_pages`), and whichever applies every item is there once, in order.
* `UnauthorisedExplained`: renewing a token 60 s early pays for every request
  but those whose retries take longer than that.
* `UncertainToPallet`: an order is waved to or past the bench only on a stable
  prediction in the plan its run linked, and by run only with the orders of the
  predicted run, although the plan may be half written, made before the order
  came or from an old model. One exception, met in checking: a `review.csv` read
  while it is cut in the middle of an order's flag yields a flag such as "mix",
  which `FLAGGED_DISPATCH` does not know (`TornAt`).
* `CountedOnce`, `OrderOnOneSheet`: over all sheets of a run every product is
  picked as often as it was ordered, cartons and remainders together, and an
  order with something to pick is on one sheet that has all its products.
* `ListedRunWhole`: a run whose manifest can be parsed did not fail, and each of
  its sheets has its files unless its PDF raised.
* `OneSnapshot`: a run that looks while no extract is writing reads three files
  of one extract, however many extracts failed before, because a failed pull ends
  the script before it writes. An extract that is stopped between two files, had
  no rows of a kind or was told to leave products out does mix them, and nothing
  in the files says so.
* `NothingLost`: with one row for each product on the sheet, units sold are in
  the metrics or flagged as full pallets, a product that moved has one line of
  metrics and one recommendation, and one to be placed is placed or listed as
  unassigned; the coverage table adds up to both.
* `PlacedRight`: whatever sheet and export hold, a face is given once, to a product
  that was measured and wants that position and, if tagged, that type by the
  sheet, is a pick face of both as CC's export tells it, and a product goes
  without only if all such faces went to others no slower.
* `ZonesCohere`: zones part the top products and keep to their size, whoever is
  in one is ordered together with somebody who was there before, and a zone with
  room leaves out nobody who would be.
* `EveryCallReturns`, `EveryCallEnds`, `NobodyWaits`: liveness; the last says that
  every run, failed ones included, gives the console up for the next click, and
  that every stream that stays connected is ended.

**Bounds.** Two threads are enough for every race here: each is between a
holder and one other (creating a lock, taking it, reading before it). Two
fields are needed for requests to be disjoint or overlapping, two values for
them to conflict. In the limiter, two ticks are one minute: enough to drain a
bucket, refill it to the cap and drain it again; `MaxTime` bounds the clock,
`MaxCalls` the calls of a thread, `MaxEdits` the edits by other users, `MaxRuns`
the runs. One edit is placed at every moment of a run. With one token in the
bulk run's bucket the pause is needed before the second item already. The
proofs of section 4 remove the bounds for every invariant and for the action
properties they list. Streams write nothing another stream reads, so one stands for all; two
jobs are a run and the click that comes during it.

A wave run is bounded by its data. The templates of `MCWaveRun` reach each rule of
`classify_streams`, each flag and the label of a consignment without a run; five
cartons release a wave, so one order may fill it or two share it; a line may be
below a carton, fill cartons exactly or leave a remainder; two orders together
overrun a reserve that each alone fits. A second order and one build
(`MaxPlans`) suffice for the interleavings: an order before, in or after the
plan, and a plan absent, half written or whole.

Seven catalogues put two products into every bucket of every script: badly named,
without carton, without default unit, not captured, right already, left in
millimetres, and one of each customer. Two runs are a run and the one that
resumes it, or finds its late PATCH.

In `MCSlottingRun` one product ships by the pallet, one was received and never
sold, one has a zone of its own, two draw level in speed as trade goes on, and
three want a position of which there is one face; two faces share a bay. Two products of a
zone are together in two of five orders, exactly the limit of 0.40, and one of them
has no name until it is ordered by one. The sheets have both
templates, a code on two rows, cells that are no numbers, and no cartons column;
nothing has been received in the first era. Two extracts are a good one and one
that fails, or one on either side of a run's reading.

The client's lifetimes and gaps are few values on either side of the margin: 80 s
is a token that lives 20 s past the margin, so that one pause outlives it.

**Fairness.** Every fair specification assumes weak fairness of a running
thread's next step and nothing else: a thread inside `idempotent_mutate` goes on
unless it waits for a lock; a console's worker goes on and its pipeline ends (its
CC calls are bounded in number and time), and the thread of a connected stream
goes on; the client's thread goes on, as httpx ends every request after its
time-out and sleeps end. Nothing is assumed of CC, of the operator, or of who
gets a lock next. Threads make finitely many calls in `IdempotentMutate`, so no
one can be overtaken forever. No liveness is stated of the others: their loops
are over finite lists.

**Deadlock.** It is checked for the limiter and the consoles, which never stop. The other
models end when their calls and runs are over.

**What the code does not do as written.** Four statements of the repository
are refuted by runs; PROJECT.json quotes them.

1. A token renewal that meets a transport error escapes the bulk loop, whose
   report is then lost (`bulk_report`).
2. A proving run that finds nothing to prove returns 0 from inside its `try`, and
   the exit code that `finally` works out for an armed run is never used
   (`exit_armed`).
3. The wave console's done event can lack the link to the run: the pipeline
   emits the event before it returns, and the worker stores the run's id after
   (`consoles_link`).
4. Runs whose names differ only in characters `_slug` drops share their wave
   ids, and each of their sheets picks the orders of both (`waves_twice`).

Met while modelling, without a run of their own:

* A bucket starts with a minute's allowance and refills meanwhile, so one
  minute can see almost 60 admissions, not 30; `WindowBound` is what holds.
* The proving run loses its report through any failure in its loop
  (`live_proving.py:279`).
* `load_dimensions` prefers "Each L" columns, and the carton run writes that
  table to the carton (`scripts/run_dims_ct_bulk.py`).
* `recommend_slotting` does not take `layers_per_pallet` along
  (`slotting.py:130-136`), so every bench product has a face of 0 cartons and the
  strategy "manual", where `slotting.py:15-17` says days of cover. A product that
  is not on the sheet "awaits its bay", as a missing `measurement_complete` is
  true to `bool`.
* No face is at position 3, which the grammar keeps for reserves: a product of
  height bucket 3 can only be unassigned. `cc_active` is loaded and not used.
* A product that crosses the 80 % limit is not in class A, even the first.
* A code on two rows of the sheet multiplies its lines, metrics and
  recommendations; in a zone it makes zoning raise, as does a product
  without a name, or no product at all (`ZoningRaises`).
* A sheet without a column for the inner pack makes `recommend_slotting` raise for
  the first product that goes by the bench, as `pd.NA or 1` has no truth value
  (`slotting.py:245`, `RecommendationRaises`).
* `analyze_v2` drops from the patterns every line of an order and product of
  which one line is a full pallet.
* `assign` raises for a measured product without a name, tag or telling brand that
  was not sold: one received whose products file is older, or one all of whose
  lines left as full pallets (`InferenceRaises`). If it was sold, whether the
  missing name is NaN, which raises, or None is up to the version of pandas,
  of which the repository asks 2.2 or later: both may happen (`InferenceMayRaise`).
* An extract stopped while it writes a file leaves a torn one that is the newest
  of its kind: every run raises until the next extract.
* `approve_dims_write` diffs against dims read before the lock, so a call that
  waited sends again what the holder has just written; `docs/MODULES.md:66-67`
  promises a no-op. The effect on CC is harmless, as `VerifiedStands` shows.
* A 401 is answered with a new token only on the first attempt of a request; a
  token withdrawn during a sleep between retries fails the call
  (`client.py:190`). `UnauthorisedExplained` allows for it.
* `find_latest_dispatch_plan` says a half-written plan directory is ignored
  (`dispatch_link.py:37-38`); it takes any with a `suggested_runs.csv`, the first
  file written. The orders missed go to the pallet stream, so that, but for the
  cut flag above, only effort is lost.
* An order without items never reaches `skipped_orders`, as the flattener gives
  it no line; an order whose quantities are all zero and that is alone in its wave
  gets no sheet and is not reported either.
* Two waves of one run are each measured against all of a reserve's stock; two
  runs with one file name share a workbook (`dispatch/output.py:59`); two
  processes starting in one second share a directory; stock is pulled for the
  first order's customer only (`wave_runner.py:524`).

## 4. Proofs

`MutateRateLimiterProofs` proves for every set of threads and endpoints, every
ceiling, clock resolution and `MaxTime` (`LimiterAssumption`: positive ceiling
and resolution, and a `Free` that is no thread):

* `TypeCorrect`, `Exclusion`, `WindowNeverExceeded`: `TypeOK`, `LockExclusion`
  and `WindowBound` are invariants;
* `LimiterImplementsBudget`: `Spec => ImplementsBudget`.

None of the properties is inductive alone. `IInv` adds where clock readings lie
(`ClockInv`: `last_refill` and a caller's `t` are between the past and now, and
the holder's `t` is no earlier than the bucket's refill), that untouched buckets
are full and have an empty log (`MadeInv`), and the relation between balance and
log that carries the argument (`BucketInv`): for every admission i, the
allowance a full bucket would have had since then is not exceeded (`Under`), and
either the bucket is what a full one minus the admissions since some i would
leave, or it is full (`Tight`). `Under` gives the window bound; both together
give that a token is there exactly when the extended log fits the budget
(`TokenIffFits`), which is the refinement's only real step.

`IdempotentMutateProofs` proves, for every set of threads, processes, objects,
fields and values (`RegistryAssumption`, `DimsAssumption`):

* `TypeCorrect` and `MutualExclusion`: `TypeOK` and `Serialised` are invariants;
* `NeverAppliedTwice` and `MutateImplementsUpsert`: `NoDoubleApply` (a mutate
  carries only fields that differ, and at least one) is an invariant and
  `ImplementsUpsert` holds, both under the hypothesis `OneProcess`
  (all callers use one registry). It cannot be dropped: `_DEFAULT_REGISTRY` is a
  module global, so two server processes share no lock.

`Serialised` says nothing of how locks come to be, and so is not inductive.
`RegistryInv` adds what the guard of the
registry is for: whoever is between looking a lock up and releasing the guard
holds the guard (`GuardHeld`); what it found, or found missing, still stands
(`FoundStands`); an object has at most one lock (`OneLock`); who waits for or
holds a lock refers to the one in the registry (`RefersToIt`, `HoldsItsRef`); a
lock has one holder (`HeldByOne`). Without `FoundStands` two threads could each
store a lock for one object. It is stated once, for any body. `Placed` ties the caller's place in
the body to the lock it holds; `ReadStands` then says what was read under the
lock still holds when it is diffed and when the diff is sent, which only
`Serialised` keeps true when another caller writes. The
lemmas about the data: a diff is empty exactly when the object holds what is
desired (`EmptyIffHolds`), every field of a diff is a change (`DiffChanges`),
and patching with the diff equals patching with all that is desired
(`PatchOfDiff`): what makes the detailed step a step of `AtomicUpsert`.

`DimsApproveProofs` proves, for any number of threads, processes, products and
dims (`BoundsAssumption`: finitely many threads, natural bounds; in every
situation some caller may ask something), `TypeCorrect`, `WritesSanctioned` (`Sanctioned`),
`VerifiedHolds` (`VerifiedStands`) and `ChangesWanted` (`OnlyWantedChanges`). The
invariant: whoever is past the gates and has not sent is cleared (`Gated`); a
PATCH under way was asked for live, by a cleared call, and holds nothing but what
that call wants (`OnTheWire`); a caller that has not called has sent nothing
(`Begun`). `VerifiedStands` is then inductive by itself: a PATCH that lands
changes only dims its call wants (`LandFacts`), so it undoes a verified write only
in a conflict, and a new call can only add conflicts. Neither the lock nor the
read before it appears in the invariant: what verified writes rely on is that a
PATCH holds wanted fields only, not that calls exclude each other.

`DimsRunsProofs` proves, for any catalogue, capture table, number of runs and of
edits, every invariant of `DimsRuns` that is checked: `TypeCorrect`,
`StaysOnTarget` (`OnTarget`), `ConfirmedOnly` (`OnlyConfirmedIsSent`),
`NeverRateLimited` (`PacedUnderLimit`), `PoisonStaysOut` (`PoisonAvoided`), `Resumes`
(`ResumeSkipsWritten`), `ZeroMeansClean` (`ZeroIsClean`) and `FullyAccounted`
(`ReportAccounts`). It assumes that the pause
between two writes earns the allowance of one (`ItemAssumption`), that a catalogue
is what CartonCloud can hold and a default unit of measure one of the product's
(`CatalogueAssumption`), and that there are finitely many products
(`RunsAssumption`). None of the properties is inductive alone; the invariant says

* of the plan (`PlanInv`): each item is a product of the run's customer, with a row
  in the capture table and the dims of that row, on the unit of measure of the
  script (`ItemsOK`), which the proving run reads for one item at a time (`UomsRead`);
  and in each phase, what has been answered and whether an item is at hand (`PhasesOK`);
* of PATCHes under way (`WireOK`): they hold dims captured for their product, whichever
  run sent them; the running one has at most one, for the item at hand, which it awaits
  or has failed over (`CurrentOK`). Hence a run that ended well has none;
* that a settled product holds its captured dims (`SettledOK`). A PATCH that lands
  late, dropped fields or not, sets only dims captured for its product (`LandKeeps`):
  the one reason why resuming is sound although writes given up on may still land;
* that a bulk run has a write's allowance when it asks the limiter (`Paced`), and an
  each run no badly named product among its items (`Unpoisoned`).

`FullyAccounted` adds two invariants: that the buckets of the plan hold what the run
has looked at so far, each product once (`CountInv`: as many places as products, and the
same products), and that a report divides the items of its plan among written,
failed and untouched (`ReportInv`). A candidate taken from the search is new to the plan
(`NextIsNew`) because no product is in the search twice, and a product skipped on the
way only changes its bucket (`Moved`).

`ConsoleJobsProofs` proves, for any number of jobs, streams and progress lines
(`JobsAssumption`: `None` is no job id), `TypeCorrect`, `SingleRun`
(`OneRunAtATime`), `LinksHonest` (`NoLinkToFailure`), `OneLastWord` (`OneVerdict`) and
`NothingMissed` (`StreamsComplete`). The first needs
`ActiveRuns`: the one whose thread runs is `_active`, which `Release` alone
clears. The last needs what is stored when (`StoredAt`: no name without its
status, and none after an exception), what a done event says of the result
(`Told`), and what a stream between its two reads has seen (`LinkedAt`); types
themselves need the latter, as a stream indexes the events by its own counter. The
last two need what the log of a job holds by where its thread is (`Verdicts`: no done
event while it works, one, the last, from then on) and what a stream has relayed of
what it took (`Reads`).

`CCClientProofs` proves, under `ClientAssumption` (positive page size, retry
count, first delay and deadline; a time-out shorter than the margin; tokens that
live longer than the margin; the first delay no longer than the longest),
`TypeCorrect`; `FlagPutBack` (`WritesOnlyIfConfigured`) by `FlagInv`, that the
flag is `configured` unless a search or the start of a report is under way and
then `saved` is; `EarlyRenewalSuffices` (`UnauthorisedExplained`) by `TokenInv`,
that a token not withdrawn lasts `Margin` less `skew` from when it was looked at;
`LoopReturns` (`LoopNeverRunsOut`: the raise behind the retry loop, which "should be
unreachable", is) by `LoopInv`, which ties attempts to the place in
the loop; `ListingComplete` (`AllItems`) by `ListInv`, that what was
collected is the listing as far as the page before the one in hand, with two lemmas about
pages: one more page prolongs it (`PagesJoin`), and a page that ends the listing
leaves nothing behind (`LastPageIsLast`); and `PollsEnough` (`GivenUpInTime`: a report
is given up past its deadline, less than one longest delay past it, and not if the
last answer said it was ready) by `PollInv`, that before each wait the deadline was still ahead.

`SlottingRunProofs` proves `FilesOfOneExtract` (`OneSnapshot`) for any options, states
of CartonCloud and number of extracts. The property is about what was found, and
not inductive: the invariant says that an extract has pulled what it was asked for
before it writes (`PulledSoFar`, `WritesLast`), so that a kind without a file has
`excused` set; that the kinds have as many files each, but for what the extract
under way is ahead, and that the i-th of each is of the same extract (`InStep`);
and that what an undisturbed run has found is still the newest (`FoundNewest`).
`TypeCorrect` (`TypeOK`) needs in addition which files a reader
may meet (`Within`): a file that is not whole is the one being written or one that an
extract failed over (`ClosedFile`), and an extract finds rows in every state of
CartonCloud there is (`ErasAssumption`).

The other three are about what a run publishes, and hold for any capture sheet, export,
orders, receipts, brands and settings. They assume what the tables are:
quantities are whole or missing and codes are the known ones or missing
(`ErasAssumption`), sheets and exports are tables, and an aisle with a valid name has a
place in the walk (`InputsAssumption`), the two missing values (NaN, and pandas' NA of a
column that is not there) are no numbers, NaN is no code (`NaNAssumption`, `VelocityAssumption`), the order of aisles is a sequence
(`AislesAssumption`), and sizes and shares are as their settings allow
(`SlottingAssumption`). Each starts from `RunSound`, an invariant beside `IInv`: what was
found so far are files there were (`FoundSoFar`), what is in memory was read from them
(`InputsLoaded`), and what is published is what the script computes of both (`AsComputed`),
though extracts go on. From there they are statements about data:

* `PlacedAlways` (`PlacedRight`). Picking rows by number keeps them and their order
  (`Picks`), and a finite set under a strict total order has, for each n, one member
  with n - 1 before it (`SortedOrder`), so that a pool is its faces, each once
  (`PoolFaces`). The k-th of a demand takes the k-th of the pool, if there is one
  (`PlacingHolds`): no face twice, and whoever is refused ranks below all who are not.
  `AssignmentRight` puts the demands of all positions together.
* `ZonesAlways` (`ZonesCohere`). Lifts are compared as fractions, a total preorder
  (`AtLeast`), so a best candidate exists. Zones come out of two nested folds, which
  are followed by what they have built after each step (`GrowTrail`, `ClusterTrail`):
  a zone under way joins only products that are often enough ordered with a member,
  and stops short of its size only when none is left (`Growing`, `Coherent`).
* `NothingLostAlways` (`NothingLost`), under the hypothesis of the property itself, that
  a sheet has one row for a code (`OneRowEach`: a second row repeats what it joins). Each
  join then yields one row for each row (`OneRowFor`, `TagsOnce`, `OnceEach`), flagged
  lines match lines of the sale orders one to one (`LinesMatch`), units are summed along
  that matching and then by product (`SoldParts`, `UnitsByProduct`), and counting rows with
  and without a face gives the coverage (`PlacedOnce`, `CoverageCounts`).

`WaveRunProofs` proves every invariant of `WaveRun` that is checked, for any orders,
stock, dims, layout, rules, settings, model, number of arrivals and of plans, whatever
the builder writes meanwhile and wherever either fails: `TypeOKAlways` (`TypeOK`),
`ListedAlways` (`ListedRunWhole`), `UncertainAlways` (`UncertainToPallet`),
`OneSheetAlways` (`OrderOnOneSheet`) and `CountedAlways` (`CountedOnce`). It assumes that
quantities, stock, positions and limits are natural, and that an order has items
(`WorldsAssumption`: an order without any has no row in the pull). The last three are
proved under the hypothesis `SlugsDistinct`, that no two run groups have one slug.
`MCWaveRun` satisfies it, and it cannot be dropped: without it two
waves get one id, which is what `waves_twice` shows.

The invariant `Inv` (checked by TLC before it was proved) has four parts.

* `BuilderInv`: what the builder holds in each phase: a model from learning to the
  end, and while it writes, a last plan that is not whole yet.
* `LinkInv`: each row that the run has read of its plan is a reading of a row the plan
  has *now* (`ReadOf`), possibly cut short. The plan was perhaps read while it was
  written, and has grown since: a plan only grows, so what was read stays a part of
  it. A cut row has no flag, whatever is left of its run, or has its run whole and a
  beginning of its flag, which is not a flag the code knows.
* `SheetsInv`: groups and sheets are what the pure operators give for what was read
  (`Classified`, `Generated`), from the step that makes them to the end, although
  `open`, `plans` and the builder go on changing.
* `FilesInv`: the files are those of the first `written` sheets, and a manifest is
  whole only of a complete run. It alone yields `ListedRunWhole`.

With it, the other three are statements about `Generated`, the data. *Waves divide the
orders*: a fold that releases the full waves keeps what it has emitted and what it holds
back apart (`Halfway`), so the waves of a group have each of its orders once
(`Divides`); groups are disjoint, slugs and numbers make their ids distinct.
*Nothing is lost or repeated on a sheet*: a line split
into cartons and units keeps its quantity (`SplitLineUnits`), so do the picks of a
line, of an order and of a wave, each a sum over the one before (`LinePicksUnits`,
`OrderPicksUnits`, `PicksOfUnits`), and consolidation adds them up by
product and location (`PickLinesUnits`); `SheetsUnits` adds the sheets. The
release limit, a product without dims or stock and the two kinds of picks are cases of these
lemmas, not assumptions. *Certainty*: an order's group comes from a row `ReadOf` one of the
plan's, and a plan's rows from the model it was built with.

Induction over a finite set cannot be had from the library here (its theorems take an
operator). The sums and folds are reasoned about instead by the smallest
subset, or the least prefix, that lacks the property (`SmallestSet`, `LeastNumber`).

Proved for all constants: the theorems above, among them every invariant of every
passing run. Only model-checked: liveness, which is outside the prover's reach, as it
rests on fairness and `ENABLED`.

## 5. Not modelled, and the plan

Float rounding of the limiter and of CC's stored dims; the text of messages; the
parsing of environment variables. Quantities are whole numbers: a wave's cartons
are cut to whole ones (`wave_picks.py:564`), which fractions would lose. A request
of the client takes `Timeout` at most, where httpx allows 30 s for each
operation of one. Replenishment strategies and the class of a product
are computed, and no property reads them.

What is left of the plan, in order:

1. The walk: its order, and the length estimated from it.
2. Several customers and several receive dates in a wave run; two extracts at a
   time.
3. The pages of a run and of a plan, read while the files are written.

Left out for good: document layout (`output/`), plots, percentiles and
destinations, command lines that only parse options, deployment and static
pages: they hold no state and decide nothing that the models do not.
