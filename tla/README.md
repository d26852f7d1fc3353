# A verification development for tamarin-rs

tamarin-rs is a Rust port of the Tamarin prover: a batch program that proves or
refutes the lemmas of a protocol theory, and a web server for interactive proofs.
This directory models the parts of it whose correctness is a matter of *order*:
concurrent requests, parallel workers, retries, deadlines, subprocesses that fail
to start, proofs that outlive the theory they were made for. What the calculus does
with terms is sequential, unbounded in its data, and taken as given.

Paths below are relative to `src/crates/`.

## 1. Inventory

| Component | State it keeps | Operations | Interacts with |
|---|---|---|---|
| Theory store (`tamarin-server/src/state.rs`, used by `handlers/theory.rs`, `handlers/root.rs`) | a map index -> (generation, entry) under one mutex; per generation a `RetryCell` for its proof state | insert, snapshot, materialized snapshot, replace if current, remove; build the proof state once | every web request; a build boots a Maude process |
| Proof search (`tamarin-theory/src/constraint/solver/search.rs`) | a tree of `ProofNode`s; thread-local depth limit, hit flag, bound and deadline | the five cut strategies, expand, re-expand, roll-up, BFS cut, extraction | the solver (external to it), rayon, the Maude pool |
| Maude pool (`tamarin-term/src/maude_proc.rs`) | idle members, number of slots, a condvar | acquire, try_acquire, release | rule closing (`rule_variants.rs`), the search's fan-out, source refinement |
| Source caches, saturation gate (`tamarin-theory/src/prove.rs`, `constraint/solver/context.rs`) | two `OnceLock`s per session, a gate per context, a process-wide thread pool | compute raw sources, refined sources, saturate once | lemma tasks; the Maude pool |
| Interactive proof states (`handlers/proof_tree.rs`, `handlers/theory.rs`) | per version and lemma a slot under a mutex: lazy, a snapshot without systems, or live, a root that versions share | materialize, fork, copy on write, apply, mark, graft, rebase on a deletion | theory store, search, replay |
| Replay of stored proofs (`tamarin-theory/src/replay.rs`, `tamarin-parser/src/proof_tree.rs`, `pp_proof`) | none: a stored tree and a system in, an annotated tree out | parse, check and extend, replace sorries, judge, print | batch run, interactive proofs, the search |
| Navigation between pages (`handlers/theory.rs`, `handlers/proof_tree.rs`) | none: the page is in the URL | the list of a proof's steps; next and previous page, normal and smart | interactive proofs |
| Maude process (`maude_proc.rs`) | a pipe under a mutex, shared memo tables, a fresh-name counter per handle | query, kill, draw, reset, inherit | everything that unifies or reduces |
| Constraint reduction (`constraint/solver/reduction.rs`, `simplify.rs`, `goals.rs`) | a constraint system, a Maude handle | simplify, solve a goal; a fork gives every arm its own copy of both | the Maude process, sources |
| Batch run (`tamarin-prover/src/run.rs`) | results per lemma and file | load, close, prove in parallel, report | all of the above |
| Parser, elaboration, SAPIC, accountability, equation stores, ranking, printing, pages | their input and output | pure functions | - |

What is hard, and what makes each part correct:

* **Theory store.** A URL names an *index*; indices are reused. Requests hold the
  mutex only for single look-ups, so a reload or unload can fall between any two
  steps. Correct means: a slow reload or build never lands on another theory's
  index; one generation is built by one thread at a time; a failed build is
  retried and a finished one kept; a page shows one version; every request ends.
* **Proof search.** The tree is kept between deepening rounds with *stubs* at the
  depth limit; workers run on stolen threads whose thread-locals belong to other
  searches; a deadline may pass anywhere. Correct means: no attack or unexplored
  part is hidden behind "verified", an attack that exists is found, the verdict
  is that of the tree, the answer does not depend on the interleaving.
* **Maude pool.** Lazy starts happen outside the mutex and may fail; nested
  fan-outs borrow from the pool their parents drained. Correct means: one owner
  per member, slots add up, no lost wake-up, no thread that waits while it holds,
  everything ends.
* **Source caches.** A cell's initialiser runs in another thread pool, which may
  run a second job on the stack of the first; a thread re-enters its own gate.
  Correct means: no deadlock, one computation per slot, nobody works with cells
  that are not filled, a panic wakes the waiters and can be retried, all get one answer.
* **Interactive proofs.** Trees are shared between versions until one writes; a fork,
  a reader and a deletion take a published version's locks one lemma at a time while
  others replay, publish and unload. Correct means: an edit of one version is never
  seen in another, and no proof rests on an assumption its theory no longer has.
* **Replay.** A stored proof meets a theory that has changed: cases are missing, new,
  renamed or without a name, and a stored "SOLVED" may no longer be so. Correct means:
  the verdict is true of today's theory whatever was stored, nothing the user wrote is
  lost by loading, and what is printed reads back as what it was.
* **Navigation.** Two functions and three ranges of pages; the page a request starts from
  may be gone by the time the request comes. Correct means: next and previous are inverse
  and visit everything, the smart ones pass over nothing that is left to look at, and no
  arrow leads from a page that is there, or was, to one that is not.
* **Fresh names.** A counter that handles share or own, that is set back between the
  arms of a fork. Correct means: no branch draws a name twice, and what it draws does not
  depend on its siblings, so that proofs and case names are reproducible.

`PROJECT.json` lists every hazard at its line with the properties that watch it,
and those that none watches yet.

## 2. Plan

Done:

1. `TheoryStore` with the abstract map `TheoryMap`, its invariants and the refinement,
   all proved.
2. `ProofSearch` with its five strategies, its safety properties proved.
3. `MaudePool` with the tasks that use it, proved.
4. `SourceCache`: the two slots, the gates, the source pool and its coordinator, composed
   with the lemma tasks, proved.
5. `ProofForks`: interactive proof states, shown to implement `ProofVersions`,
   independent versions that never change, proved. Its `src` and `published` stand for what
   `TheoryStore` does with entries: the two are not composed in one run, whose state would
   be the product.
6. `Replay`, one step of a call at a time, with its verdict and that loading loses nothing,
   proved; the file between two runs (`ReplayFiles`), checked.
7. `Navigation`: pages, arrows and theories that change under them, proved. `ProofIndex`
   has the function that lists a proof; that it lists it in the order `Navigation` assumes
   is evaluated for bounded trees (`IndexIsInOrder`).
8. `FreshCounter`: the counter through nested reductions, proved.

Left, in the order of what they would add: the loop of the batch run over files and
lemmas, with its exit code; the IPC protocol of a Maude process with a member that dies
in mid-query; the selection and matching of goals, so that in `Replay` a stored goal and an
open one can differ.

## 3. Modules

### TheoryStore (with TheoryMap, TheoryStoreInv, MCTheoryStore, TheoryStore_proofs)

`by_idx` is the `BTreeMap`; an entry has a generation, a theory and an origin (a
file or an upload). `cell[g]` is the sequence of `OnceLock`s that generation
`g`'s `RetryCell` has held: the last one is current, and earlier ones stay
visible to the callers that cloned them, as in the code. A generation, a theory
and a proof are named by the operation that made them, so identity (`Arc::ptr_eq`)
is equality of numbers. Each request is a small program (`pc`): `Snapshot`,
`Attempt` (clone the `OnceLock`), `Enter` (`get_or_init`), `Validate`, `Build`
or `Panic`, `Check`, `Publish`, `Retire`, and for edits and reloads `Insert`,
`Load`, `Replace`. An action is one critical section or one slow computation
without locks. The check and the publication are two actions, because the
closure releases the store's mutex before `get_or_init` stores its result. A version
that goes *between* the two still gets its proof, of its own theory, in a cell nobody
can reach any more; one that goes before the check gets none (`GoneIsNotProved`).
Uploads and unloads are single critical sections at any time.

`TheoryMap` says what the store promises without cells, attempts or retries: a
versioned map whose generations get at most one proof, made from their own theory,
and pages that show a generation with its proof. `ImplementsMap` is the
refinement.

### ProofSearch (with MCProofSearch, ProofSearch_proofs)

`world` is the search space: what `is_finished` and the method ranking would find
at every path of cases (solved, contradictory, unfinishable, open with cases,
stuck, an oracle that quits, a ranking that fails). `setup` is the context:
strategy, quantifier, `--bound`, deadline, retention. `node` is the tree of
`ProofNode`s, each with the place of the call on it (new, expanding, again,
walking, returned), its method and status. `live` are the nodes that hold their
system. `hit` is the set of jobs whose thread-local flag is set: a job is the
rayon closure that works on a case of a fan-out, and it starts with a flag of its
own (`SearchTlsGuard`). One action is one call's work on one node: `Bound`,
`Park`, `Close`, `GiveUp`, `NoMethod`, `NoCases`, `Fail`, `Branch`, `Leave`,
`Walk`, `LeaveWalk`; a round ends in `EndDfs`, `NextRoundDfs`, `EndBfs`,
`NextRoundBfs`. The step budget is left out: every caller passes `usize::MAX`.

### MaudePool (with MCMaudePool, MaudePool_proofs)

`free`, `spawned` and `live` are the pool; `guard[t]` is the member a task's
`PooledMaude` holds, `maude[t]` the handle its context uses. A thread is a
`stack` of tasks, because a rayon worker that waits for its fan-out runs other
tasks on top. Rule tasks use the blocking `acquire` (`Pop`, `Reserve`, `Started`,
`SpawnFailed`, `Wait`, `Spurious`), cases of a lemma `try_acquire`, which
`Decline`s instead of waiting; deeper cases have no pool (`with_swapped_maude`)
and share their parent's Maude. `Fork`, `Join` and `End` are the search as the
pool sees it. Rayon and the condvar are external and modelled from their use.

### SourceCache (with MCSourceCache, SourceCache_proofs)

`once` are the two `OnceLock`s of each session's `SourceCache`; `job` and `queue`
say where their computations are in the process-wide source pool. `gate` and
`cells` belong to a context, named by one of its users: a context starts with
lazy cells and a `Pending` gate. A *user* is a call that needs sources: the proof
of a lemma (refined sources, or raw ones for a `[sources]` lemma), a page, a
case of a parallel search. A thread is a `stack` of users (lemma pool) or of
jobs and their parts (source pool); a thread that joins takes more work on top.
The gate is `Enter`, `Finish`, `Unwind` (the drop of a `SaturationRun` when
`materialize` panics) and `Spurious`; sleepers are the users `asleep` (in
`ensure_saturated`) and `swap asleep` (in `with_swapped_maude`), which a notify
wakes. The slots are `Refine`, `Saturate`, `RawThere`, `Settled` and `Returned`; a closure
that unwinds leaves its `OnceLock` empty. `in_source_pool` puts the job in the
source pool while its caller, waiting for a coordinator thread, takes nothing else.
That two threads may use one context follows from `ProofContext` being `Sync`; the
tests at `context.rs:1430` do so. Rayon, the condvar and `OnceLock` are external.

### ProofForks (with ProofVersions, MCProofForks, ProofForks_proofs)

`state[v]` is the `ProofState` of version `v`: the lemmas of its session and a slot for
each (`Lazy`, `Snapshot`, `Live`). `heap` are the roots behind the `Arc`s, named by the
state that made them; `Owners` counts the references, and `Keep` drops what none holds,
at the end of every step. A tree is what the properties tell apart: the lemmas its
systems assume, the edits it shows, and whether its root says "invalidated". A request
(`pc`, `job`) is a reader (`Enter`, `Replay` under the slot's lock), an edit (`Fork`
lemma by lemma, `Select` the system, `Write` by `copy_on_write`, at the root or below
it, on one lemma or all), or a deletion (`Rebase` clones a slot under its lock, `Carry`
replays its skeleton in the new session with no lock). `Publish`, `Fail` and `Unload`
may come at any point. A lemma assumes the `[reuse]` lemmas before it that are all-traces and
that it does not hide (`gather_reusable_lemmas`); a deletion looks at `[reuse]` alone
(`invalidated`), so it also rebuilds what rests on nothing deleted. The run has a hidden
lemma and no exists-trace one; the theorem has both. `ProofVersions` knows no laziness, sharing, locks or copies:
published versions that never change, and drafts that are independent copies of one.
`ImplementsVersions` is the refinement; what a version shows is `View`, the tree a
reader would be given now.

### Replay and ReplayFiles (with MCReplayFiles, Replay_proofs)

A constraint system is an element of `Systems`; `calc` is what the calculus says of
today's systems (`is_finished`, the cases of each method) and which have a solution,
which the code never sees. `text` is the stored proof, a function from positions to
names and methods; `node` the `ProofNode`s made of it, a function from paths of case
names. The recursion of `replay.rs` is unfolded: `at` says where the call on a node is
(about to replay, in the loop over its cases, searching, split, returned), `todo` the
stored block that comes next, `seen` the statuses it has been told. One action is what a
call does between two calls below it: `StoredSorry`, `finished_leaf`, `StepFails`,
`StepCloses`, `StepApplies`, then `UnmatchedCase` or `MatchedCase` for each stored block
in the order of the file, `ProducedCase` for each produced one that nobody stored, in the
order of the names, and `Finish`, which rolls up what was seen. What cannot be checked is
put below a sorry with its own steps unannotated (`parsed_to_unannotated`) or, with
`--prove`, given to the prover: `LeaveOpen`, `Close`, `Split`, then `SolvedCase`, which keeps
a solved case and drops its siblings, or `AllCasesTried`, which keeps all of them, solved
or not (`CutStrategy::Nothing` never cuts). `Load` and `Prove` are the two ways into it, `Fail` is an error
that unwinds, and `Again` is a later run on any stored proof and any theory.
`from_step`, `combine`, `proof_status` and `lemma_verdict` judge the tree.

`ReplayFiles` puts the file in the place of `Again`: `pp_proof` prints the tree as tokens,
`proof_skeleton` and `one_case` parse them, with any word for a case name except `solve`
(a printed `solve` is followed by its goal, which is no step); `Reload` makes the printed theory the input of
the next run, `Rerun` keeps the file, `Edit` gives the systems another calculus and leaves
the stored proof.

### Navigation (with ProofOrder, ProofIndex, MCNavigation, Navigation_proofs)

`page` is the page in the browser, `thy` the theory when the next request comes: its
lemmas and for each the list of its proof's steps. `next_path` and `prev_path` are the
arrow keys, `Open` follows a link, and `Change` replaces the theory by any
other, so that the page may name a step or a lemma that is no longer there. The functions
are those of `handlers/theory.rs` with their early returns; an index is 0 where the code has
`None`. `section` is the word in the URL: normal, smart, or any other one, with which an arrow
stays where it is. `InOrder` (module `ProofOrder`) is what a list of steps looks like, the root first,
each step before what is below it and cases by name; `ProofIndex` has the function that
makes the list from a tree. `MCNavigation` makes the proofs of its theories with it, and
`IndexIsInOrder` says that the list is in order and complete for all small trees.

### FreshCounter (with MCFreshCounter, FreshCounter_proofs)

A `Branch` is a system (the indices in it), all it has drawn, and the counter of its
handle. `stack` are the reductions under way: one runs (`Draw`, `Finish`), opens a fork
(`solve_action_goal`, `solve_premise_goal`, ..., one action per solver, since they differ
in when they draw and whether they rewind), works on an arm (`BeginArm` rewinds,
`SubReduction` inherits, `EndArm`), and adopts the only branch that is left, hands all
to its caller or goes on with each (`finish_cases`, `ContinueBranch`). Which arms die and
what stays in a system is left open.

## 4. Runs

All bounds are constants of the `.cfg` files.

| Run | Instance | Shows |
|---|---|---|
| `store` | 3 requests, 1 file, 4 operations | `SingleFlight`, `ProofIsKept`, `FailureIsForgotten`, `StaleIsFinal`, `PageIsConsistent`, `GoneIsNotProved`, `OriginIsKept`, and `ImplementsMap` |
| `store_live` | 2 requests, fair threads | `RequestsEnd` |
| `search` | default strategy, serial and fanned out, every world of three levels with at most two cases and some of four, first limit 2, with a bound of 2, of 3 (serial only) and without | `AttackIsFound`, `FirstAttack`, `NoStubIsLeft`, `SystemsAreThere`, `EvaluatedOnce` |
| `search_live` | all strategies, failing rankings, with a bound of 2 and without, a deadline at any step | `SearchEnds`, `NoFalseProof`, `ShallowestAttacks`, `NothingAfterSorry`, `VerdictMatchesRoot` |
| `pool` | 3 rules, then a lemma with nested cases, 3 threads, 2 members, fair threads | `OneOwner`, `SlotsAddUp`, `NoHoldAndWait`, `NoLostWakeup`, `MaudeIsHeld`, `AllEnd` |
| `sources` | a lemma with a case of its search, a second thread on its context, a sources lemma, a page of another theory; 2 threads, 1 in the source pool, 2 parts, 1 panic | `SingleFlight`, `NoPartialRead`, `SameAnswer`, `NoLostWakeup`, `AllEnd` |
| `forks` | 2 clients, 3 lemmas (1 and 2 reusable, lemma 2 hides 1, 2 has a stored proof), 3 requests | `AssumptionsAreCurrent`, `ImplementsVersions` |
| `replay` | every sound calculus of 3 systems with at most two cases, stored proofs of up to three levels, 1 edit | `VerdictIsTrue`, `NothingIsDropped`, `VerdictSurvivesReload` |
| `navigation` | up to 3 lemmas in any order, with proofs of up to four steps | `TourIsComplete`, `SmartSkipsNothing`, `ArrowsArrive` |
| `fresh` | a system with the variables 0 and 2; 2 forks of 2 arms, 2 draws per branch, 3 reductions deep | `DrawnOnce`, `OwnDrawsOnly` |
| `search_status_doc`, `search_shorter_doc` | | two comments the code does not keep, see 7 |

The type invariants and the inductive invariants of section 5 are proved, and can be
checked on the same instances by naming them in the `.cfg`.

Why the bounds are enough. *Store:* the hazards take one request that is slow, one
that overtakes it and one upload that reuses the index; four operations (one of
them the startup load) and three requests contain each of them, and every mutant of
the code listed in `PROJECT.json` is caught within them. *Search:* with a first
limit of 2 and three levels, a world needs two rounds, stubs in several places and
an attack below an earlier or later stub; two cases per node show every order of
siblings, and single cases change the depth without a fan-out. In the worlds of four levels
the second round meets its limit too: the walk opens a stub that meets it and then one
that fans out without meeting it. A bound of 2 is reached where the first limit is, one of 3
between the first and the second. The constants 4 (first
limit), 16 (fan-out depth) and `usize::MAX / 4` (cap) of the code are parameters:
2, 2 and out of reach, so that fan-outs occur on both sides of a limit. *Pool:*
two members for three or four borrowers make borrowers wait, decline and fail to
start at once; a case below a case is the first one without a pool. *Sources:* one
thread in the source pool is the smallest pool in which a job can end up below the one
it waits for, and two parts leave it something to take while it joins; two sessions
share that pool. With two provers a user can sleep on a gate, on a slot or under a
join, and every thread of either pool can be waiting at once. One panic is one retry.
*Forks:* a slot that two versions share needs an edit and what forks from it; a wrong
assumption needs a deletion, a lemma two places after the deleted one and a request that
meets the result; `Three` lists the kinds of the first, second and third request such
that each of these comes up, with a reader or a second edit beside it. *Replay:* three
systems give a step with a case that itself has a step; the case names include the empty
one and the words `simplify` and `sorry`, which a parser may take for methods. One edit is
enough, because what was stored before it may be any of the written proofs. *Navigation:*
three lemmas have a first, a middle and a last one, four steps a case below a case and a
case beside it, and every kind of step that is interesting or not; the theory may change
between any two key presses. *Fresh:* a
fork within a fork, with two arms each, has an arm that follows one that drew, a branch
that survives alone and one that does not; the gap in the variables makes the next index
differ from their number. Here the theorems hold for every bound.

Deadlock is checked, except in `forks` and `fresh`, where the run of the system ends: all
requests are answered, or the proof step is done. Elsewhere the `Quiet` and `Over` steps
stutter only where the system has really finished.

Fairness. `RequestsEnd` assumes that a request's thread keeps running (weak fairness
of its steps), not that uploads or unloads stop; their number is bounded by
`MaxOps`. A waiter on a `OnceLock` needs no more, since the builder's end enables it
for good. `SearchEnds` assumes that some thread of the search runs. `AllEnd` assumes
it of every thread of either pool: a task sits on one thread's stack and no other may continue
it. That a spurious wake-up is not fair, nor a failing start, is what the property
is about.

## 5. Proofs

`TheoryStore_proofs`: for all sets of clients and files, any startup list and any
bound, the specification keeps `TypeOK`, `SingleFlight`, `ProofIsKept`,
`FailureIsForgotten`, `StaleIsFinal`, `PageIsConsistent`, `OriginIsKept` and
`GoneIsNotProved`. None of them is inductive: that a page is consistent rests on what is in the cell of a
generation, which rests on what each builder has in hand, which rests on its
snapshot being the entry of that generation. `StoreInv` (module `TheoryStoreInv`)
says this once: only the last attempt of a cell is open, running or successful
(`CellsInv`); the entry, the cell and the generation agree (`EntriesInv`); each
request's snapshot, attempt and result fit its step (`RequestInv`); and two
requests that hold one generation agree and build different attempts (`PairInv`).
`GoneIsNotProved` is about steps: no step brings a generation back, and who
publishes a success has found its generation in the store before.
The step proof goes by action and then by these parts. `Bounded` (the indices
have a greatest) is only needed for `next_free_idx`, and is the one part TLC does
not evaluate. Assumed: `StoreAssumption` (uploads are not files; the startup
list fits the bound).

The last part of `TheoryStore_proofs` derives `ImplementsMap` from that invariant, step by step. What the map sees
of a generation is the finished attempt of its cell, which is the last one and the only
one (`ProofOfFinished`); of a request, the page it holds once its proof is there. Begin,
Snapshot, Validate, Build, Check and the steps on attempts change neither
(`PrivateStutters`, `LockStutters`); `Publish` of a success is `Prove`, `Retire` of one is
`Show`, an edit's `Insert` is `Add` together with its proof, `Replace` is `Renew`.

`ProofSearch_proofs`: for all search spaces, strategies, bounds, deadlines, retention
policies and limits, every safety property of the module and `EvaluatedOnce`. A search
space may be infinite here, as long as no path of it is longer than `DepthCap`. None of
the properties is inductive: they speak of the result, and the tree that becomes the
result is in pieces while workers are in it. `SearchInv` says what holds in between, node
by node and of the whole:

* `ParentOK`, `StateOK`, `PlaceOK`, `OrderOK`: which place, method and status go
  together, and where a call can be while another is in its parent or in an earlier case.
* `CasesOK`: a case that is missing comes after a solved sibling, and only where the
  strategy cuts. Without it, "every node is closed" would say nothing of the cases that
  are no longer in the tree.
* `RollOK`: the status of a node that has returned is the roll-up of those of its cases.
* `EvalOK`, `RoundOK`: which depth and bound a method was chosen under, and that the
  rounds before saw no attack below their limits. This is what "first" and "shallowest"
  rest on.
* `HitOK`, `OldOK`: a stub of this round has set the flag of a job above it, so that the
  round is not taken for the last one; a stub of an earlier round is still to be walked to,
  or comes after an attack. A flag is set in one thread and read in another, so the
  invariant names the job that has it.
* `LiveOK`, `SorryOK`: who still needs its system; what AfterSorry has left alone.

Once the search is over (`Result`) the properties themselves are the invariant. Each kind of
step has a lemma that says what it changes (`AnswerEffect` for the steps that only give a
node its method and status, `BranchEffect`, `LeaveEffect`, `WalkEffect`, `LeaveWalkEffect`,
`DeepenEffect`) and one that it keeps the invariant.

A tree is a function of paths and a status is rolled up one level at a time, so what holds of
the root has to be carried over any distance without an induction over trees. The way round
it is to take a longest or a shortest path: `LongestIn` and `Shortest` find one by
well-foundedness of `<`. So follow `StatusUp` (a status that outranks others goes up to all
that has returned above it), `LeafOf` (the status of a node is that of some leaf below it),
`Covered` (a path of the search space is in the tree, or leaves it at a node whose next case
is missing), `Uncovered` (when a round is over, an attack has been found, comes after another
or lies below a stub of this round) and `StubsAtEnd` (such a stub has set the flag of the root).
`FirstPath` finds the first attack in case order, which in an infinite set of paths
needs their bounded length. A search ends with the tree as it is (`WholeResult`), with the
path to an attack (`PathResult`) or with the nodes above the level of the first attacks
(`LevelResult`).

Assumed: `SearchAssumption` (a case is named by its number in the order the code sorts
them; a search space is closed under prefixes and only open systems have cases; the
first limit is below the last one, which is not above "unlimited").

`MaudePool_proofs`: for all numbers of threads, finite sets of tasks, shapes of
fan-outs and pool sizes, `TypeOK`, `OneOwner`, `SlotsAddUp`, `NoLostWakeup`,
`NoHoldAndWait` and `MaudeIsHeld`. `PoolInv` adds to the first four where tasks are
(`PlacesInv`), that no lemma has begun while a rule is open (`RulesFirst`) and
that a stack holds active tasks, each once, all but the top one joining
(`StackInv`). Each part is carried over a step by a lemma of its own;
`NoLostWakeup` counts the woken against the idle. `NoHoldAndWait` then follows:
who waits is a rule, so no lemma or case has begun, so nothing below it on its stack
can be joining, so it is alone. `MaudeIsHeld` needs to know about tasks at any
distance up the fan-out. `Above[t]` is the closure of a task under `Parent`, defined
as an intersection of closed sets, so that its properties need no induction;
`HeldInv` says that all above a task that has not ended join, and that one of them
holds its Maude. Assumed: `PoolAssumption` (the tasks are finite, only
cases have parents, no case belongs to a rule, the pool has a slot).

`SourceCache_proofs`: for all users, sessions, contexts, threads and pool sizes that
`SourceAssumption` allows (finitely many; the user that names a context has its session
and kind; a case has a context of its own, of its parent's session and kind, and no case
below it; provers and workers are different threads), the module's `TypeOK`, `SingleFlight`, `NoPartialRead`, `SameAnswer` and
`NoLostWakeup`. `SourceInv` has four parts: the types; `GateInv`, a gate is in progress
exactly while one user owns it, and every sleeper sleeps on such a gate;
`SlotInv`, a slot is running exactly while one user computes it, and a job in the source
pool has a user that waits for it; `AnswerInv`, every answer handed out and every gate
that is through agrees with what its slot holds, and a slot that is settled stays so.
`SameAnswer` and `NoPartialRead` need the last two, since who reads a slot is not who
filled it.

`ProofForks_proofs`: for any clients, number of lemmas, attributes and requests, the
module's `TypeOK` and `AssumptionsAreCurrent`. The latter is about trees, and trees are
shared, so the invariant `ForksInv` has to say who may change which. `VersionsInv`: a
draft is held by its request alone and is not published, and dropped versions are empty.
`RootsInv`: a root in use is in the slot it is named after, as long as that version is
kept. `DraftsInv`: nobody but a draft refers to the roots named after it, so what
`Materialize` and `Carry` write is nobody else's. `TreesInv`: the assumptions of every tree
that can be seen are those of its lemma, and a slot that is not live shows the stored proof.
`RequestsInv` says of each request how far it is: what a fork has cloned is still what
the source shows, although the source replays in between; what a deletion has done is
the source with the lemma removed; the slot in a deletion's hand shows the same tree as
the published one it was cloned from, whatever became of that (the reason why `Carry`
needs no lock); the system an edit has taken out is of the tree it writes to. Two lemmas carry the
actions: `QuietStep` (no slot set, no tree changed) and `SlotStep` (one slot set, roots
written that only it has: no other tree changed). For `Write` the second one
needs that `copy_on_write` with a count of one is safe (`OwnRoot`). Its last part
proves `ImplementsVersions` from these: the draft of a request is its source until fork or
deletion is complete, so `Fork`, `Select` and all but the last `Rebase` or `Carry` are
stuttering steps, and the last is `Remove`. Assumed: `ForksAssumption` (finitely many
clients, so that owners can be counted, and no client is a pair of numbers, since
`Owners` has slots and clients in one set; lemmas and requests are what their names say).

`Replay_proofs`: for all finite or infinite sets of systems, case names, sound calculi and
stored proofs, `TypeOK`, `VerdictIsTrue` and `NothingIsDropped`. Neither is inductive.
That a verdict is true rests on `TreeInv`: a node with a system has the system its parent's
method produced for that case (`UpOK`), so what is judged is today's and not the stored
one; a step that has returned has all its produced cases, or one that the prover solved and
for which it dropped the others (`AllCases`, `SolvedKid`); a result is the one
`is_finished` gives today (`DoneOK`); a case of the search is the prover's own
(`SplitOK`, `CallOK`). `Bounded` says that a tree has a greatest depth. From there the two
verdicts go opposite ways through the tree: "trace found" starts at a solved node and
climbs, as a method adds no solution; "complete" goes down from a root that has a
solution along solvable cases, a longest such path, which would have to end in a node that
is neither solved nor open. That loading loses nothing rests on `LoadInv`: of the stored
blocks before the next one, each stands under its name, or the name it adopted, unless a
later one of the same name replaced it (`LastStand`), and all stand once the call has
returned (`AllStand`). Each action has one lemma that says which nodes it makes and changes
(`Changes`, `Becomes`), and the invariants are carried over those, not over the actions.
`Again` allows any text and any calculus, so the theorems hold of every run in a sequence of
loads, proofs and edits; that a printed and parsed proof is such a text is part of `VerdictSurvivesReload`.
Assumed: `ReplayAssumption` (the calculus is sound, the unnamed case a method produces is
its only one, as at `proof_method.rs:429` and `:528`, and stored proofs have the shape the
parser gives them).

`Navigation_proofs`: for any number of lemmas and proofs of any length and shape in the
order of `InOrder`, `TypeOK`, `TourIsComplete`, `SmartSkipsNothing` and `ArrowsArrive`.
The first two quantify over all pages of a theory and not over the run, so what has to be
found is not an invariant but the order: every page of the tour has coordinates, its chapter
(a fixed page or a lemma) and its step's place in the list, `Before` is the lexicographic
order on them, and next and previous add or take one. `PathBefore` is irreflexive and
transitive, so a path has one place in its list and a step before another has the smaller
place; with that, "the very next page" and "nothing passed over" are facts about the first
or last element of a set of numbers (`IsFirst`, `IsLast`). Assumed: `NavigationAssumption`
(each theory has its lemmas once and lists of steps in order).

`FreshCounter_proofs`: for every start system and every bound, `DrawnOnce` and
`OwnDrawsOnly`. `FreshInv` says of every branch that some reduction has in hand that its
counter is above its system and equals `Start` plus the number of its own draws. It says
nothing of the handle of a fork between two arms: that handle is where the last arm left
it, and no branch until it is rewound or a branch is adopted. Assumed: `StartAssumption`
(the system has a variable, and `Start` is one more than its greatest).

## 6. Only model-checked, or not modelled

* Liveness (`RequestsEnd`, `SearchEnds`, `AllEnd`) is checked by TLC: the proof
  system has no rules for fairness here.
* Printing, parsing and listing a proof (`ReplayFiles`, `ProofIndex`) are recursive, and
  what such an operator yields for every tree is an induction over data, which the proof
  system's theorems do not reach: `VerdictSurvivesReload` is checked on a bounded instance, and
  `IndexIsInOrder` evaluated for every tree of up to three levels over three names. That a parsed proof is
  one that `Replay` takes (a conjunct of `VerdictSurvivesReload`) and that a list is in
  order is what the theorems about `Replay` and `Navigation` assume of their inputs.
* `ProofSearch` keys depth limit, bound and hit flag by search and job, which is what
  `SearchTlsGuard` makes of the thread-locals (`search.rs:1169`). A stolen job that runs with the
  values its thread had before is not a state of the model, and no property would see it.
* That a search space has no path beyond `DepthCap` (`usize::MAX / 4` in the code) is
  assumed; how a search would go on there is neither checked nor proved.
* What the map in `PROJECT.json` leaves out is most of the lines of the program: terms, unification,
  formulas, rewriting, the parser of theories, elaboration, the SAPIC and
  accountability translations, well-formedness reports, layout. These are sequential functions
  of unbounded data without state of their own; their difficulty is in the data, which the
  small terms that TLC could enumerate do not reach.
* Not modelled in the parts that are: what a theory, a term or a page *says*; the step
  budget; the trace and statistics side channels of the search; crashes
  of a pool member in mid-query (a query error fails its task, as `End` with an error);
  the Maudes that tasks refining sources borrow, without waiting, on the source pool;
  contexts without a session, which saturate by themselves on one thread; the switch
  that turns the source cache off; the counts on the help page, which resolve the
  same slots without a gate; the interactive replays that stop at a step; how a stored goal
  is matched with an open one (in `Replay` a method stands for both).
* In `Replay` the cases of a method have different names. `distinguish_case_names`
  (`proof_method.rs:191`) sees to that unless a case is itself named like one it makes
  (`x_case_1`); what the maps of cases do then is not modelled. Nor is a deadline that
  passes in the replay itself: the prover it calls may stop at any node (`LeaveOpen`).
* `VerdictSurvivesReload` leaves out trees in which an unnamed case stands beside others
  (`Unprintable`): replay makes one when an unnamed stored block meets a step with
  several cases, and the printer gives it as a `case` without a name, which does not parse.
* `FreshCounter` is the counter of a proof step, where `REFINE_FLOOR` is 0; the floor that the
  refinement of sources puts under its reductions (`reduction.rs:204-216`, `:251-261`) is left out. It
  starts from systems that have a variable (`StartAssumption`). Without one,
  `ensure_above(avoid_max)` in the subterm solver (`reduction.rs:5606`) begins at 1 instead of 0.
  The lift of a handle to the greatest counter of its arms is left out: every way on from
  there sets the counter again.
* `PROJECT.json` ("components") says of each part why it is left out or partly there.

## 7. What the code says and does not do

* The comment on `NodeStatus::Solved` (`search.rs:72`) reads "All branches reached
  `Solved`"; `rollup_status` makes a node solved as soon as one child is. The run
  `search_status_doc` shows a finished tree that has such a node.
* The comment on `run_proof_search` (`search.rs:485`) says that iterative deepening
  "makes shorter Solved paths win over longer Solved paths"; within one doubling of
  the limit the first in case order wins. The run `search_shorter_doc` shows it.
  `FirstAttack` states the rule that does hold.
