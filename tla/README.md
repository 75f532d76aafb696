# A TLA+ model of webhook-recovery

The repository is a simulation of a webhook provider recovering from an outage.
Events are written to a ledger, fanned out to one *delivery* per subscribed
consumer, rationed by a singleton *conductor* into a shallow ready buffer, and
sent by a fleet of *workers* that may die at any moment.  PostgreSQL is the only
medium between the processes: every interaction is a transaction on its tables,
a row lock, or a session-level advisory lock.  Time is virtual: a clock derived
from columns of the `simulation` row, so that a run can be paused and sped up.

This directory states what makes that program correct, checks it with TLC on
small instances and proves all of its safety invariants with TLAPS.

## 1. Inventory

| part | source | state it keeps | operations |
|---|---|---|---|
| queue | `core/models.py`, `core/enums.py` | tables `delivery`, `attempt` | (below) |
| ingest and producer | `api/ingest.py`, `api/producer.py` | events; in memory: `last_emitted`, RNG, sequence | `ingest_events`, `tick` |
| worker | `worker/claim.py`, `worker/service.py` | in memory: the batch it claimed | `claim_batch`, `gather(attempt)`, `complete_batch`, crash |
| transport | `worker/transport.py` | none | `attempt` |
| reaper | `conductor/reaper.py` | none | `reclaim_expired_leases` |
| policy | `conductor/policy.py` | none (policy rows are constant) | `evaluate`, `apply_drops` |
| admission | `conductor/admission.py` | none | `compute_budget`, `read_consumer_states`, `allocate`, `select_candidates`, `mark_ready` |
| leadership | `conductor/leader.py`, `core/db.py` | the held connection; the pool; PostgreSQL's lock table | `acquire`, `release` |
| conductor | `conductor/service.py` | leader flag | `run_once`, `_pass`, `_retire`, `aclose` |
| metrics | `conductor/metrics.py` | table `metrics_snapshot`; in memory: `_last_written` | `write` |
| runner, registry | `core/runner.py`, `core/registry.py` | table `process`; stop, crash and leader flags; the heartbeat task | register (and prune), heartbeat, kill, die, drain, deregister |
| clock, control | `core/clock.py`, `api/routes.py` | clock columns of `simulation` | create, PATCH (pause, resume, speed, done, toggles) |
| scenario | `core/scenario.py` | constants | `is_producing`, `is_finished`, `is_outage` |
| read api, frontend | `api/routes.py`, `frontend/` | in the browser: the chart and its cursor | `GET`s; the metrics page and the poll that merges it |

What is hard about it, and what correctness means there:

* **Lease, attempt and delivery are three stories about one thing.**  The worker
  settles with no lock held while it talks to the consumer; the reaper takes back
  what expired; `complete_batch` fences one table on `finished_at IS NULL` and
  the other on `leased_by`.  They must agree, charge each attempt once, finish
  every delivery once, and finish it in the end.
* **The locks behind those transactions** are taken in opposite orders.
* **The leader** is whoever's database session holds an advisory lock, and
  sessions live in a pool that outlives the leadership.  Its pass is a
  read-modify-write that must not be crossed by another.
* **The pass reads its own inputs at different moments** (READ COMMITTED, a
  statement at a time) while workers move rows between the counts.  Rate caps
  must hold all the same, shares must be weighted-fair, backlogs must drain.
* **The chart** is written once per bucket from a cursor that is half memory and
  half table, across failovers and rollbacks, over rows that commit late and are
  stamped by clocks that are behind; a browser follows it with a second cursor.
* **The process table** is what people see of the fleet.  Registrations are
  retried, heartbeats race the shutdown, every boot prunes rows of everybody, and
  a kill request waits for a moment that is worth it.
* **Control**: pause, resume, speed, done and retirement rewrite the same columns
  from several processes; everybody else works on snapshots of them.

## 2. Plan

Written in this order; all eight are done.

1. `DeliveryLifecycle`: the abstract promise.  `Delivery`: the pipeline at
   transaction granularity, refining it.  `Delivery_proofs`,
   `DeliveryStory_proofs`.
2. `Settlement`: how a lease ends.  `RowLocks`: the completion and the sweep of (1)
   taken apart into row locks, refining it.  `RowLocks_proofs`.
3. `Leader`: the advisory lock, the pool, failover.  `Leader_proofs`.
4. `Admission`: the pass of (1) taken apart into its statements, over counts.
   `Admission_proofs`.
5. `Metrics`: the bucket cursor, and the browser's.  `Metrics_proofs`.
6. `Control`: virtual clock, PATCH, the producer's window, `POST /event` and the
   conductor's `_retire` on one `simulation` row.  `Control_proofs`.
7. `Registry`: the life of a process and its row.  `Registry_proofs`.
8. Proofs of every safety property that a run checks, and of the steps and states
   that the liveness properties rest on.

Left for later: rate changes in the middle of a run, and an abstract clock that
the column arithmetic of `Control` refines.

## 3. Modules

**`Delivery`** has one action per transaction of the pipeline.  Variables are the
columns a property can tell apart (`state`, `attemptCount`, `leasedBy`,
`leaseLeft`, `dueIn`, `age`, `completed`), the attempt rows of each delivery in
id order, and per worker its place in `_drain` and the `Claimed` records in its
memory.  Virtual time is relative: deadlines count down and saturate just past
zero, ages count up and saturate just past the staleness bound, so no horizon is
needed.  `ClaimBatch` takes any non-empty part of the ready rows (which is what
SKIP LOCKED and LIMIT leave a worker), `Send` draws any answer for each
delivery after any delay, `CompleteBatch` has the two fences, `Abandon` is a
completion that raised, `Crash` a process that died.  `Pass` is the conductor's
whole transaction: reclaim, drop, admit.  Which due rows it admits is left open
here and is the subject of `Admission`.

**`DeliveryLifecycle`** is what a reader of `enums.py` is told: stages, edges, and
a retry budget.  `Delivery` implements it with `stage <- state`,
`tries <- attemptCount`.

**`RowLocks`** takes `CompleteBatch` and the sweep apart.  Each statement reaches
its rows one at a time, waits for a locked one, and on getting it evaluates its
WHERE clause again on what is committed by then.  The deadlock detector cancels
either party of a circle.

**`Settlement`** is what those locks are for: a lease ends once, in one step,
answered with all that is left of its batch or reclaimed once it was due.
`RowLocks` implements it with `expired <- lapsed` and `lease <- LeaseTold`, what
the two tables say of a delivery together.

**`Leader`** has PostgreSQL sessions (open, broken without the client knowing,
orphaned without the server knowing), the lock with its acquisition count, and
in each process the FIFO pool and the held connection.

**`Admission`** runs the pass a statement at a time between arbitrary steps of the
workers and of time.  Rows of a consumer are interchangeable, so its tables are
counts, and attempts are kept by age.  Retries come back as rows that fall due.
`HoldForOutage` is the pass of a pipeline that is down, which ends after its
gauges; an error, or the leader's death, is `AbortPass`.  `Allocate` is a
recursive function over `Grant`, one slot after another, as the loop is.

**`Metrics`** has one counter for one consumer (all are written by the same
statement): rows stamped, rows committed, the snapshot table, the cursor cached
by each process, and the rows of the open pass.  A row is stamped up to
`CommitLag` buckets behind the clock, since a worker's clock is a snapshot from
before its batch, and is visible within `CommitLag` of its bucket or never.  The
reader is the browser of `useRun.ts`: it asks from a little before its cursor,
merges the page over what it has, and moves on to the page's newest bucket.  Two
history variables: `undone`, what rolled-back passes had upserted, and `cut`,
what the backfill cap left out.

**`Registry`** has the rows of the process table and each service's process: a
boot, its registration, the loop, the heartbeat task, the drain, and the end.  A
heartbeat reads the leader flag when it starts and writes it when it commits,
which may be after the process has died.  Restarts take a fresh id, so an old
row is never written again.  Ages count up and saturate just past the age at
which rows are pruned.  A `Mishap` is a kill, a signal, a crash or a failed
registration.

**`Control`** has the clock columns of one run and the wall clock, an integer that
every process reads alike.  A PATCH is two steps: `PatchRead` loads the row
without a lock and computes what to write, `PatchWrite` updates the columns whose
value changed (which is what the ORM sends) and leaves the others as they are by
then.  The conductor's pass is four: the row, which it reads together with those of
all other running runs, the time by that row in its turn, the gauges, the
retirement.  The producer's tick is two, its transaction open between them, and
its memory of the last window moves whether or not that transaction commits.  A
`POST /event` is two steps as well, the stamp and the commit, for a run of any
status; it never touches the producer's memory, but what the producer recovers
that memory from, the newest event of the ledger (`latest`), counts everybody's.
`backlog` counts active deliveries.  Three history variables: `emitted`, the
newest event of the producer's own, `drained`, that the run was retired on an
empty backlog, and `overlap`, set while transactions that have read the row are
still to end: since when they overlap, the virtual time at that moment, how often
the row was written since, and whether one of them sets a finished run running.

The correspondence of every definition with its lines is in `PROJECT.json`
("map").  In every module a definition marked *variant* is a slightly broken form
of the definition after it.  No specification uses one; each shows, put in the
place of the original, that some property really depends on it.

## 4. What is checked

| run | instance | properties | distinct states |
|---|---|---|---|
| `delivery` | 2 deliveries of one coalesced key, 2 workers, 2 attempts | lease and attempt rows agree, fences agree, attempts charged once, both tables tell one ending, coalescing keeps the newest, claims tracked; terminal is final; implements the lifecycle | 1.3 M (up to symmetry) |
| `delivery_retry` | 1 delivery, 2 workers, 3 attempts, capped backoff | types and ranges; every delivery is settled | 18 k |
| `row_locks` | batches of 2 and 1, and the sweep | one story per delivery; waits end; leases end; implements the settlement | 14 k |
| `leader` | 2 conductors, 4 sessions, pools of 2, 2 crashes | fencing, serial passes, lock within reach; a leader always returns | 199 k |
| `admission` | 2 consumers of weights 1 and 2, 3 and 2 rows falling due, both arms | global and per-consumer rates, buffer depth, fair shares; every backlog drains; `allocate` against its reference for all headrooms to 4 and budgets to 6 (an ASSUME of `MCAdmission`) | 1.0 M |
| `registry` | a worker and a conductor, 3 boots each, 2 mishaps | registered while up, gone for good; kills are honoured, services come up, stale badges fade | 286 k |
| `metrics` | 2 conductors, 5 buckets, gaps beyond the cap, one lost pass, a browser | counters exact, failover leaves no hole, the reader misses nothing; the chart advances | 154 k |
| `control` | 3 requests, 2 `PATCH` and a `POST` at once, speeds 1 and 2, a script of 2 seconds and a backstop of 3 | virtual time is not set back behind the start of its writers' overlap, nor moved by more than what runs by in it, once for each write; no window is emitted twice, the producer stamps nothing past the end | 2.0 M (up to symmetry) |

Bounds, and why they suffice.  Two workers and two deliveries give every race of
`Delivery` its parties: a holder and a thief, a newer and an older row of one key,
a batch of two against single rows.  Two attempts separate a retry from an
exhausted budget; the third, in `delivery_retry`, lets the backoff meet its cap.
A lease of one second and a staleness of three leave time for a delivery to be
reclaimed and taken again, with the first worker still out, and for it to go
stale on the way.  Workers are interchangeable in the `delivery` run (its
properties are invariants and action properties), hence the symmetry.
`CrashBound`s leave one worker id, respectively two conductor crashes: a
restarted worker is a new id, so more crashes only add identical actors.
`ReentryBound` limits how often one session may be granted the lock again.  In
`Admission` the window is one second and a pass may span one (`PassTicks`), which
is what it takes for an attempt to leave the window while the pass reads.
`Supply` counts retries as well: three rows against two are more than one
pass's slots, so that a backlog outlives a pass and one consumer runs dry first.
`Metrics` runs to bucket 4 (`Horizon`), with at most one row per bucket
(`RowBound`) and no further rollback once one bucket was lost (`UndoneBound`);
with `MaxBackfill` at two, a gap of three is already cut.  `CommitLag` is what the
second bucket of lag pays for: the time a transaction takes to commit and what a
worker's clock snapshot is behind, together.  `CountersExact` holds for any
`CommitLag` below `Lag`, which is an assumption of the module, and fails at
`CommitLag = Lag`: a speed-up in the middle of a batch that puts a worker's clock
two virtual seconds behind does lose a count.
`Registry` has the smallest times at which heartbeats, pruning and the grace of a
kill are apart (`Late`, `Window`, `PruneAge`); the third boot (`BootBound`) comes
after two ways of dying (`MishapBound`), and prunes rows of both.
`Control` runs for two seconds of wall time (`Horizon`), at double speed past the
backstop; `control_drained` for three; two requests at once and the conductor are what it takes for
each kind of writer to overlap each other one, and a third request
(`RequestBound`) undoes what they left, or is a `POST` in between.  One delivery
waiting (`BacklogBound`) is enough to tell an empty backlog from another.  With
three requests no write moves the clock further than one stretch of the overlap;
it takes three writers that overwrite one another, and five requests, to get
beyond it, which is why `ShiftWithinOverlap` counts the writes and is proved too.
PATCH requests are interchangeable.  `control_drained` has no `POST` (`Poster` is
empty): one into a finished run leaves a delivery behind as well, but on purpose.

`CHECK_DEADLOCK FALSE` is used where the modelled activity really ends: all leases
settled (`RowLocks`), the horizon reached (`Metrics`, `Control`).  `registry` and
`admission` never stop: time always goes on.

### Where code and text disagree

Four runs end in a counterexample on purpose, each to one sentence of the
repository:

* `row_locks_wait`: SKIP LOCKED keeps the sweep off locked *delivery* rows, but it
  then updates *attempt* rows without one, which a completing worker locks first.
  The pass waits, and can deadlock with the worker.  Nothing is lost (`OneStory`,
  `LeasesEnd`); the promise not to wait is.
* `leader_lock`: closing a pooled connection does not end its session.  After a
  database error in a pass the explicit unlock fails too, so the lock stays with
  an idle connection of a process that does not lead.  It is regained when that
  process next draws the connection (`LockWithinReach`, `LeaderReturns`), so
  standbys wait on it rather than take over.
* `metrics_retry`: `_last_written` moves before the commit.  A pass rolled back
  after `write` leaves a hole if the same process leads next.
* `control_drained`: waiting for the end of the script does not make the zero
  stable.  A tick that read the clock before the end may commit after the pass,
  its clock past the end, counted nothing; its deliveries stay pending in a run
  that is done, which no worker and no later pass looks at.

Two things more are modelled and excepted by the properties.  A gap beyond the
backfill cap is cut off at its start and the cursor moves past what was cut
(`cut`): the comment at the cap expects several passes to catch up, but no pass
looks back.  And a PATCH that sets a *finished* run running is not a resume to
`resume` (it wants a paused one), so the frozen time is not rebased and the clock
leaps over the time it stood still (`overlap.reopened`, `ReopenedLeaps`).

### Fairness

Liveness is claimed only under what the loops do.  Every process that is up loops
(`ProcessRunner._loop` swallows exceptions), so its next step is weakly fair.
`Delivery`: time advances, the conductor's sweep recurs, each due row is decided
again and again, some worker claims, and `gather` returns because every transport
sleep is bounded.  No fairness is put on the answers: a delivery may fail every
time.  `RowLocks`: strong fairness for a waiting write, since a release wakes the
waiter while the next sweep is a loop interval away.  `Leader`: strong fairness
for leading, since the standby asks every 50 ms and the heartbeat that shares its
pool every 3 s; crashes are bounded, errors and lost connections are not.
`Admission`: again and again a pass reaches an end of its own (`PassEnds`), i.e.
the pipeline is not down for ever and passes do not all fail; workers claim and
finish.  `Metrics`: passes do not all fail, transactions end, and the browser
goes on polling.  `Registry`: the platform restarts what exited with an error,
every task of a process that is up goes on (a loop may fail every time, but for a
worker's, whose iterations do not all raise), and time passes, no longer than
`Late` without a heartbeat that gets through.

## 5. What is proved

`Delivery_proofs` proves `Spec => []IInv` for any sets of deliveries and workers,
any key map and policy, and all settings that satisfy the named assumptions of
`Delivery` (ids are integers, `NoWorker` is not a worker, at least one attempt, a
positive lease and cap, and a positive backoff before capping).

`LeaseMatchesAttempt` is not inductive: whether a completion closes the right row
depends on what the worker remembers.  `IInv` therefore joins it with the types,
with `ClaimsTracked` (a claim in hand names an attempt row of the worker's own,
after which that worker opened no other), and with `AttemptsCharged` (row count
equals `attempt_count`, which is what makes a new row's id the newest).  There is
one lemma per action, with one step per conjunct it can disturb; three lemmas
about sequences (`Appended`, `Settled`, `Closed`) say what appending, settling
and closing do to the attempt rows.  `FencesAgree` then follows from `IInv`
without looking at any step: the lease fence is the open newest row, and
`ClaimsTracked` says which row that is.

Theorems: `Invariance`, `TypeCorrect`, `LeaseMatchesAttemptHolds`,
`FencesAgreeHolds`, `AttemptsChargedHolds`, `ClaimsTrackedHolds`.

`DeliveryStory_proofs` builds on that invariant and adds no assumption.  It says
what each action does to one delivery (`Sound`): at most one edge of the abstract
lifecycle, nothing at all if the delivery is settled, and the two tables still
telling the same story.  `SettledByOutcome` needs one fact about memory to be
inductive, `Truthful`: an `ok` that a worker remembers is one the consumer gave.
`CompletionOf` is where the fences matter: it reads off `FencesAgree` that a
completion writes both rows of a delivery or neither, and off `ClaimsTracked`
that the number it compares with the cap is the row's own count.  Theorems:
`SettledByOutcomeHolds`, `TerminalIsFinalHolds`, and `Refinement`, that `Spec`
implements `DeliveryLifecycle`.

`Leader_proofs` proves, for any number of conductors and sessions and any pool of
at least two connections (`PoolAssumption`, `BoundAssumption`,
`NoneAssumption`), that losing the lock and losing the ability to write are one
event (`FencedHolds`), that passes never cross (`PassesSerialHolds`) and that a
held lock stays within reach (`LockWithinReachHolds`).  None is inductive alone.
`Ownership` says which sessions the processes know of: no session is in two
pools or twice in one, the held connection is not idle in the pool as well, and
every session a process knows of is open or broken.  Without it a connection
returned to a pool might be another leader's.  `HolderLives` says that the
session holding the lock is open or orphaned, `PassOnConnection` that a pass runs
on a held connection.  `CheckedIn`, `CheckedOut` and `Drawn` are the facts about
the pool's queue; then there is one lemma per group of actions.

`DeliveryStory_proofs` also has `NewestSurvivesHolds`.  What is superseded gives
way to a newer queued row of its key, and the newest has none; that there is a
newest is `HasNewest`, by induction over subsets of the deliveries that exist.

`RowLocks_proofs` proves `OneStoryHolds` for any workers, deliveries and batches
(`BatchAssumption`).  What the tables say in the middle of a transaction is told
by its locks: what it has written still satisfies the WHERE clause it was found
by (`WrittenStillMatch`, with one lock per row in `TypeOK`), and each stage of a
completion or a sweep knows of every delivery whether its two rows are written,
ahead of it or beyond it (`AttemptsFirst`, `DeliveriesNext`,
`ClosesWhatItFound`).  From it follows `Refinement`, that `Spec` implements
`Settlement`: a commit of a worker writes every row of its batch that is still
held and no other (`WholeBatch`), one of the conductor only what was due as it
looked (`SweptWereDue`), and every other step leaves what the tables tell of a
lease alone.  And `DetectorMissesNone`: a worker waits only for the conductor, since
batches are disjoint and a transaction does not wait for itself (`OwnRows`,
`WorkersPass`), so any chain of waiting transactions, circles of whatever length
included, has two in it that wait for each other, which is all that
`CancelDeadlocked` looks for.

`Admission_proofs` has two halves.  The first is arithmetic: the sums of the
community modules, `allocate`'s loop, and `AllocateIsFair`, that it splits any
budget over any headrooms weighted max-min fairly.  The second is the invariant
of the pass.  `GlobalRateHolds` alone is not inductive, for a commit adds to the
ready rows what was worked out from earlier reads; each stage of the pass
therefore has a conjunct that says what its reads are still worth.  `Counted`:
`compute_budget`'s ready count is no less than the rows left of it.  `Slotted`:
ready rows, attempts of the window *as the pass knows it* and slots fit the rate
together, which a claim keeps because it trades a ready row for an attempt, and
time keeps because the pass's window does not move.  `Gauged` and `Allowed` say
the same of one consumer.  Theorems: `GlobalRateIsKept`, `ConsumerRateIsKept`,
`BufferIsKept`, `SharesAreFair`, for any consumers, weights, rates, window and
duration of a pass (`RatesAssumption`, `BoundsAssumption`).  `TruncatedRateStarves`
marks the edge of `BacklogDrains`: `headroom` truncates the rate times the window, and
a consumer for which that is zero has nothing ready and nothing in flight, ever.
No rate that is seeded comes near it (20 a second, over five seconds), and the api
sets none.  `SingleSlotToTheFirst` marks the edge of `SharesFair`: shares are fair
within a pass, on purpose not across passes, and the only slot of a pass goes to
the lowest id that can take it, whatever the weights.

`Metrics_proofs` proves the counters, the holes and the reader for any number of
conductors and any horizon, lag, cap and overlap (`BucketsAssumption`,
`VisibilityAssumption`, `NoneAssumption`).  What is upserted or written is of a
complete bucket and exact (`OpenFinal`, `WrittenFinal`), since what is still
uncommitted is recent (`Recent`); below a cached cursor everything is written,
lost, or about to be (`Cached`); the reader's cursor is at a written bucket
(`ReaderPlaced`).  It needs no overlap for what it misses nothing of: the
overlap matters only for what was lost.

`Registry_proofs` proves `RegisteredWhileUpHolds` and `LeftForGoodHolds` for any
services, restarts and mishaps, and times with `PruneAge` at least `Late` and
twice the window (`TimesAssumption`): a process that is up has a row no older
than `Late` (`Fresh`), and what has deregistered is past the window and not the
process its service has up (`Gone`).

`Control_proofs` has three parts.  The first is the arithmetic of the clock, for
every row, time and multiplier of a finite set (`SpeedAssumption`; `Unset` is no
value of a column, `UnsetAssumption`): each of
`Pause`, `Resume` and `SetSpeed` leaves the time that a row reads where it was,
hence so does a whole PATCH (`PatchContinuous`), unless it sets a finished run
running; and a row that is not running reads the same at any time
(`FrozenStandsStill`); and a finished run set running reads as if it had run all the
while (`ReopenedLeaps`).  The second is `NoReplayHolds`.  Its invariant has two
halves: the row reads as an integer whatever requests and the conductor have
written over one another, column by column (`Readable`), and the producer's
memory and its open window start at or after the newest event of its own
(`Remembered`), which a rollback does not undo since the memory may only run
ahead of the ledger, nor the events of others, which only make the newest event
of the ledger newer.  `TypeCorrect` adds to it that no request holds a wall time
that is still to come (`TimedRow`), so the row reads as a time that is not
negative, and that an open window ends before the script does (`TimedProducer`).

The third is `ShiftBounded`, that `ShiftWithinOverlap` holds for any number of
requests and of clients.  It is not inductive, for it speaks of one write and says
nothing of what the others still hold.  `OInv` says, from the moment an overlap
begins, what the row and each request in progress can come to.  Columns of
different writers mix, so the row need not be any one writer's; but it is one of
three kinds (`RowGood`): resumed in the overlap and below what can have run by,
once for each write, even if it runs at the fastest speed (`Climbing`); reading
still what it did as the overlap began (`Untouched`); or standing at a time within
those limits (`Frozen`).  What a request holds is within them as well, and if it
makes a row run otherwise than it did, epoch and resumption come together: it
writes both, or the row has the other already (`Pending`: `Rebases`, `Completes`).
`RequestPending` says so of what a request computes, `CommittedRow` and
`OthersPending` of the row and of the other requests after a write, `LaterGood` and
`LaterPending` that time only widens the limits.  A pass that has the row but not
yet the time holds a row within the limits too (`PassGood`, `PassKept`), and so will
read a time within them, however late it looks.

About induction: the induction theorems of the library take an operator as a
parameter, which the installed provers cannot instantiate.  Where a proof needs
one it goes by a minimal counterexample instead: of the subsets of a finite set
that are counterexamples one is minimal (`Minimal`, `HasNewest`, `HasLeast`, from
the library's well-founded order on finite subsets).  That is enough to work
with the library's sums and with the recursive function of `Allocate`.

The safety halves of liveness.  What fairness makes happen is left to TLC, but
why nothing can be in its way is a matter of single states and steps, and is
proved.

* `EventuallySettled`: `EveryMoveSpends`.  A delivery has at most
  `3 * MaxAttempts + 1` moves (`MovesLeft`: three for each attempt that is left,
  one more or less for the state it is in), and every step that changes its state spends one.
* `BacklogDrains`: `NobodyPassedOver` and `FairPassTakesRows` (which assumes
  `Overfetch > 0`: the naive fetch and the fair one read that many times the rows
  they may admit).
  The second does not hold of the naive arm: there the oldest rows may all be of a
  consumer that is allowed none, and TLC finds such passes.
* `WaitsEnd` and `LeasesEnd`: `NobodyStuckHolds`, for ids of which any set has a
  least.  The two waits in it are needed: a worker may wait for a sweep that waits
  for another worker.
* `LeaderReturns`: `WayBackHolds` (for at least one conductor) and
  `LockComesRoundHolds`.  The first says where the lock can be while nobody leads,
  the second that a process which finds it in its own pool gets to it.  Only the
  heartbeat can send it to the back again, hence the strong fairness of `Lead`.
* `ChartAdvances`: `WrittenIsFinal`, `PassCatchesUp`, `PollCatchesUp`.  One pass and
  one poll are enough, from wherever the cursors were.
* `KillHonoured`: `OnlyTheDoomedDie` and `KillIsOnce`, that honouring a kill is all
  that a kill does.

`OneLeaderHolds` follows from `Fenced` and `Ownership`: two conductors with working
connections would hold the lock with one session, and no two share one.

Model-checked only: all liveness, since fairness and ENABLED are outside the
prover.  That is `EventuallySettled`, `WaitsEnd`, `LeasesEnd`, `LeaderReturns`,
`BacklogDrains`, `KillHonoured`, `ComesUp`, `BadgeFades` and `ChartAdvances`.  Every
other property of a passing run is a theorem.

## 6. What is not modelled

* A change of the provider's rate in the middle of a run, a tool of the demo's
  operator.  In `Control` a worker's clock is not modelled; in `Metrics` it is, as
  a clock that may be behind.  In the other modules `Tick` stands for a running
  clock, and `Delivery` for one running simulation.
* In `Control` the wall clock is one for all processes and whole-numbered.  A
  conductor's pass over the other runs only delays the one that is modelled, between
  `PassRead` and `PassClock`.  A handler's read of the row and of the clock are one
  step, and so are the producer's, though its tick reads all running rows first as
  well: a row gone stale in between changes when a window ends, which nothing
  here is sensitive to, since `NoReplay` is about where one starts.
* That a worker's clock is behind by less than the lag of the metrics is assumed
  (`CommitLag`), and a consumer's turn after others whose demand never ends is
  not claimed.
* Event payloads, names, reasons, HTTP serialisation, settings, the other `GET`s and
  the rest of the frontend, DDL and deployment scripts keep no state that any of these properties is about.
* Deliveries that arrive out of `created_at` order: ids stand for the order on
  `(created_at, id)`.
