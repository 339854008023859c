# A verification development for sovereign

sovereign is a linear programming solver: three engines (a revised simplex, a
first-order primal-dual method and an interior-point method) that can be raced
against each other on threads, a crossover that turns the iterates of the
first-order engine into vertices while it is still running, presolve and
postsolve, two readers and a command line. This directory models the part of it
that decides: who may answer, when a loop ends, what a status means, and what
is undone in which order. The floating point arithmetic is abstracted to what
that control reads of it, or replaced by exact small integers.

- [Parts of the system](#parts-of-the-system)
- [Plan](#plan)
- [Modules](#modules)
- [Runs](#runs)
- [Proofs](#proofs)
- [Where the code and its comments disagree](#where-the-code-and-its-comments-disagree)
- [Other observations](#other-observations)
- [Not modelled](#not-modelled)

To check a run: `tlc -config MCRace.cfg MCRace.tla` (`PROJECT.json` lists the
module and the configuration of every run). To check the proofs:
`tlapm RaceProofs.tla`, and the same for the other modules called `*Proofs`.

## Parts of the system

| Part | State it keeps | Operations |
| --- | --- | --- |
| Race, `src/l1/race.cpp` | per entrant: token, thread; under a mutex: winner, its result, count of unreported entrants | launch, report, cancel losers, wait, join |
| Crossover, `src/l1/crossover.cpp` | PDHG's thread and token, a growing list of attempts with their tokens, two counters, winner, history of iterates | checkpoint callback, literal attempt, jump attempt, report, wait, fallback |
| Simplex, `src/l1/simplex.cpp` | basis, point, reduced costs, frozen Phase I costs, EXPAND tolerance, stall counters | build start, iterate (price, ratio test, pivot), refactorize, verify |
| PDHG, `src/l1/pdhg.cpp` | iterates, running sums since the restart, residual at the restart, best point | step, check, restart, checkpoint, finish |
| Interior point, `src/l1/ipm.cpp` | iterate, best iterate, regularization | step, retry of the factorization, finish |
| Presolve and postsolve, `src/l1/presolve.cpp` | bounds, active rows and columns, trail of moves | column pass, empty-column pass, row pass, replay |
| Duals, `src/l1/duals.cpp` | none | reduced costs, slackness violation, Farkas certificate |
| Problem and builder, `src/io/problem.cpp` | rows, columns, triplets | add, validate, build |
| MPS reader, `src/io/mps_reader.cpp` | section, the builder, senses and right-hand sides by row, dropped rows, integer block, warnings | one card at a time, retry with fixed columns |
| LP reader, `src/io/lp_reader.cpp` | section, the text of each section, the builder, a count of unnamed rows | a first pass that sorts lines into sections, a second one over statements; the choice of a reader for a file |
| Structure, `src/l1/structure.cpp` | union-find forest, block of each column and row | unite the columns of sparse rows, number blocks, classify rows |
| Spiral jump, `src/l1/spiral_jump.cpp` | window of iterates | fit and extrapolate |
| Scaling, `src/l1/scaling.cpp` | row and column factors | Ruiz, then Pock-Chambolle |
| Sparse matrices, `src/l0/sparse.cpp` | compressed arrays by rows or by columns | assembly, conversion, check, products |
| Backends, `src/l0/backend*.{cpp,cu}` | device buffers and matrices, each with its backend | allocate, copy, free, move, kernels |
| Command line, `apps/sovereign_cli.cpp` | options | read, presolve, solve, postsolve, print |

**How they interact.** The command line reads a problem, presolves it, calls
one engine, the race or the crossover on what is left, and postsolves. The race
calls the engines on threads of their own and shares with each of them one
atomic token; nothing else passes between them. The crossover starts PDHG on a
thread and gives it a callback that runs on that thread between two of its
iterations; the callback starts simplex attempts, each on a thread. Simplex,
PDHG and interior point call the sparse layer and the duals.

**What is hard in it.** Three things, in this order:

- *Threads.* Tokens are set under the mutex but read without it, by engines
  that poll once in an iteration. The crossover adds threads while others
  report, its counters are compared by a caller that may be asleep, and after
  the joins it reads shared state without the lock.
- *Loops that only their counters end.* The simplex solver has four nested nets
  (anti-cycling, EXPAND, the stall net, the verification rounds), each of which
  may restart the iteration; a status is a claim about the problem that
  must hold however the nets interacted.
- *Bookkeeping that is undone later.* Presolve's moves depend on each other and
  are replayed backwards; PDHG's sums and restarts are kept by counters that
  are reset and not cleared; infinite bounds are added and multiplied.

**What makes each part correct.**

| Part | Correct when |
| --- | --- |
| Race | the first valid answer is the result, nobody else's; every loser is told; the count is exact; no thread outlives the call; the caller never stays asleep |
| Crossover | the same with a growing set of threads; and the last attempt, which has no token, runs only when it is alone |
| Simplex | Infeasible, Unbounded and Optimal are true of the problem; it ends; it heeds its token |
| PDHG | the average is that of the window; restarts gain; the optimum reported was offered to the crossover; it heeds its token |
| Interior point | the best iterate is reported; it heeds its token |
| Presolve | the trail can be replayed; Infeasible is true; it stops at a fixpoint; the restored solution is optimal and its duals certify it |
| Duals | a certificate proves infeasibility; an optimal pair passes; the bound behind a gap is one |
| Problem, readers | a file gets to its reader; the problem built is the one the file describes; an ill-formed file is refused, and the departures a warning is made for are announced, no others |
| Structure | columns share a block only if sparse rows connect them, without the linking rows no row crosses two blocks, and the verdict follows from that |
| Sparse | the arrays represent the sum of the triplets; both forms are well formed, convert into each other and multiply alike |
| Backends | memory has one owner, is freed once and by the backend that made it, and no use reaches beyond it, whatever was moved or failed |

## Plan

In this order, the behaviour that matters most first:

1. `Race` with the abstract `FirstAnswer` (what a concurrent solve promises its
   caller) and `Engine` (what it relies on in its engines). *Done*, with proofs.
2. `Crossover`, which implements the same `FirstAnswer`. *Done*, with proofs.
3. `Presolve` over `LinearProgram`, all of the reductions and their undoing.
   *Done*, with proofs of all its safety properties.
4. `Simplex`, the control of the solver, implementing `Engine`. *Done*, with
   proofs.
5. `Pdhg` and `Ipm`, the loops of the other two engines, implementing
   `Engine`. *Done*, with proofs.
6. `Duals`: certificates, slackness and the gap. *Done*, with proofs; that a
   certificate exists is checked only.
7. `MpsReader`: the section protocol, the rules for bounds and ranges whose
   result depends on the order of the cards, and the retry. *Done*; the tables of
   its columns and rows, the objective and the names are proved.
8. `Solve`, which composes the three engines the way the command line and an
   entrant of the race call them: one of them runs, and one refinement mapping
   shows that it keeps `Engine`. *Done*; the theorems about the engines are
   carried over to it.
9. The readers side by side: `ProblemBuilder` and `SparseMatrix` below them,
   `LpReader` next to `MpsReader`, `ReadModel` that chooses between them, and
   `Inspect` with `Structure` on what was read. *Done*; that the blocks found are
   those of the matrix and that its two layouts agree is proved, the LP reader is
   checked only.
10. `DeviceMemory`, the ownership of device buffers. *Done*, with proofs.
11. That presolve keeps the meaning of the problem and restores its optimum,
    and the certificates of `Duals`, for every problem. *Done*.
12. That the columns, the rows and the warnings of an MPS file are what its cards say,
    for every file. *Done*. Left to prove: that its coefficients are summed.

The abstract specifications are `FirstAnswer`, implemented by the race and by the
crossover, and `Engine`, implemented by the three engine modules: it states what the
race relies on in the engines it runs.

## Modules

| Module | Models | Variables and the code they stand for |
| --- | --- | --- |
| `FirstAnswer` | the promise of `race_solve` and `Crossover::solve` | claimants that entered, are inside, the answer, the return |
| `Engine` | the contract of an engine (`race.hpp`, `cancellation.hpp`) | before the loop, at a poll, inside, over; token; answer |
| `Race` | all of `race.cpp` | `main` and `cursor` the calling thread, `mtx` the mutex, `remaining` and `winner` of the shared state, `tokens`, `worker` and `verdict` of each entrant, `sweep` the loop that cancels the losers |
| `Crossover` | `crossover.cpp` | `main`, `pdhg`, `attempt` the threads, launched, finished and PDHG's flag, `winner`, tokens, the window of iterates |
| `LinearProgram` | the data of `problem.hpp`, the bound checks of `validate()` | operators only |
| `Presolve` | `presolve.cpp`, both directions | `bounds`, `active`, `trail`, `reduction` and `solution` of the two result structures |
| `Simplex` | the control of `simplex.cpp` | see below |
| `Pdhg` | the loop of `pdhg.cpp` and its power iteration | `x` the point, `sums`, `since_restart`, `window`, `residual_at_last_restart`, `offered` to the checkpoint, `best` |
| `Ipm` | the loop of `ipm.cpp` | `z` the iterate, `merit` of every iterate, `attempts` at a factorization, `residuals`, `best` |
| `Duals` | `duals.cpp` and the bound PDHG computes from it | `problem`, multipliers, the two ranges, the certificate, `worst` violation, `dual_obj` |
| `Solve` | a call of one engine by `sovereign_cli.cpp` or by an entrant's thread | `engine`, and the variables of the engines: the place in the loop, the token and the status are shared by all three, the rest is `Absent` unless its engine runs |
| `SparseMatrix` | `sparse.cpp` | operators only, on records with the three arrays |
| `ProblemBuilder` | `Problem::Builder` and `validate()` of `problem.cpp` | operators only, on the fields `rows`, `cols`, `entries` of a reader |
| `MpsReader` | `mps_reader.cpp` | `file` and `at` the stream, `fixed` which reading it is, `reader` the members of `MpsReader` and of its builder, `matrix` and `outcome` what comes of it |
| `LpReader` | `lp_reader.cpp` but for `read_model` | the same; `reader` has the text of each section, and then the statements that are left |
| `ReadModel` | `read_model`, `read_mps`, `read_lp` | `job` the arguments, `format` the reader chosen |
| `Structure` | `structure.cpp` | `next_row` of the loop over rows, `parent` and `size` of the disjoint sets, `result` |
| `Inspect` | the commands `info` and `structure` of `sovereign_cli.cpp` | those of `ReadModel` and `Structure` |
| `DeviceMemory` | `DeviceBuffer` and `DeviceCsr` of `backend.cpp` | `heap` the blocks of all backends, `handle` the objects (pointers, shape, backend, and how far a construction is), and two histories: blocks `lost`, and whether something was `broken` |
| `Arithmetic` | sums over finite sets and powers | operators only |
| `RaceProofs`, `CrossoverProofs` (with `DeviceMemory`), `PresolveProofs`, `SolveProofs` (with the three engines), `DualsProofs`, `ReaderProofs` (of `ReadModel` and `MpsReader`), `InspectProofs` | theorems about the module they extend | |
| `ArithmeticProofs` | lemmas about sums and powers, for `PresolveProofs` and `DualsProofs` and for the restarts of PDHG; about folds and the layouts of a compressed matrix, for `ReaderProofs` and `InspectProofs` | |
| `MpsFiles`, `LpFiles` | files, and for LP the programs that they were written from | operators only |
| `MCRace`, `MCPresolve`, `MCSolve`, `MCPdhg`, `MCDuals`, `MCInspect`, `MCDevice` | small instances: sequences, problems, matrices, files, symmetry | |

**Race.** The threads interleave at every step another thread can see. A report
is one critical section in the code, but it sets the tokens one after the
other and the tokens are atomics that engines read without the lock; so taking
the lock, each token and the notification are actions of their own. The wait of
the calling thread is the condition variable's: it tests under the lock, gives
the lock up and sleeps in one step, wakes on a notification or spuriously, and
must then take the lock again. A launch that fails is the `std::system_error`
of the thread constructor, which unwinds over joinable threads. What an engine
does between its polls is opaque: it goes on, or comes to any verdict its type
of engine can come to.

**Crossover.** The callback, the attempts and the caller use one lock and hold
it for a block of statements, so a block is one action; what happens between
two blocks (a guess computed after a test for a winner, say) is where others
step in. Checkpoints are bounded by `MaxCheckpoints`: each of them adds at most
one literal attempt and one jump.

**Presolve.** Each turn of a loop is an action with a cursor, because the
column pass reads what earlier turns changed. Numbers are integers and
`kInfinity` is one of them, larger than all others; a `Solve` step in the middle
takes any optimal primal-dual pair of the reduced problem on the grid. Bounds
and reduced costs are divided by coefficients (`Quotient`). The unit of the
numbers is so small that the divisions are exact: `Scale` is a common multiple of
the coefficients, and bounds, costs and duals are multiples of `Scale` to the number
of rows (`ScaleAssumption`). Any rational problem can be written so, its rows multiplied by the
denominators of their coefficients, and its other numbers counted in a small enough unit.
Tolerances are zero.

**Simplex.** A point is how infeasible it is (not at all, slightly, grossly) and
whether pricing would find a column for the Phase I and for the true costs. The
problem fixes the least infeasibility any point has and whether it has an
unbounded ray. The control is kept: each pass of `iterate` is `Polled`, the
stall net, the pricing, the ratio test and the step, in the code's order, and
`Judge` is what `run()` does between two calls of it. A step that EXPAND's tolerance
made longer than the true ratio leaves a residue, and in a problem with `drift` every step does: the
infeasibility seen may then be anything (a step over a small pivot goes far past a bound), until the point is computed
afresh, which may find any infeasibility again. The dual tolerance of
pricing is taken to be zero. The set of columns an
opaque pricing may find is nondeterministic, so that every order of pivots
happens. `gained` is a history variable: it records what the code's merit test
was meant to record and is read by no action.

**Pdhg, Ipm.** Residuals are any small number or not finite, chosen afresh in
every check, so that every sequence of them happens. Points carry the iteration
they were made in: a property can say *which* point was averaged, offered or
reported. Whether the iterates stay finite depends on the step size, which the
model computes from the matrix as the code does: a power iteration from the
vector of ones that may start in the kernel of its operator.

**Duals.** Exact arithmetic with two infinities and NaN. A check is a step that
takes any multipliers, so the run enumerates them all.

**MpsReader.** A file is given as what the two tokenizers make of each of its
lines; everything after that is the code's. A handler is an operator from a
reader and the tokens of a card to a reader, or to one that has failed, and an
action hands it the next card. The properties take their view from the other
end: they say what a row, a bound, a coefficient or a warning is from the whole
file at once (the last card that gives it, the sum of all that do), so the order in
which the reader got there is what they check.

**LpReader.** A line is its tokens; a name is a sequence of them, because the
code takes whatever stands before a colon or a relation for a name, blanks
included. The first pass is an action per line, the second one per statement.
The property does not parse the file a second time: `LpFiles` writes files from
programs, in eighteen combinations of line breaks, directions, relations and orders
of the sections, and the program that was written has to come back.

**Structure.** The loop over the rows is an action per row, with path halving
and union by size; the blocks are numbered and the rows classified in a step.
`ClaimIsCheckable` knows nothing of the forest: it asks of the matrix alone
whether each block is connected by sparse rows and each row is within one.

**Solve.** `RunSimplex`, `RunPdhg` and `RunIpm` are the next-state relations of
the three modules; `P` and `I` are instances of PDHG's and the interior point
method's, which share with the simplex module the variables that a caller sees.
The best point of each engine and simplex's best merit have one name in the
code and three meanings, so they are renamed.

**DeviceMemory.** A block is an address, which an allocator may hand out again
once it is free; a construction is one action per device call, each of which may
fail. Handles may be built, moved, assigned (to themselves, too), used and
destroyed in any order C++ allows.

## Runs

| Run | Shows |
| --- | --- |
| `race` | three engines, every choice of enabled ones, launches that may fail and a time limit that may pass: exact count, one answer, losers told, no thread left behind, an end of every decided race, and implementation of `FirstAnswer` |
| `crossover` | three checkpoints, literal and jump attempts, a device that may fail: exact counts, a last attempt that is alone, a winner that ends everyone, an end that is noticed, and implementation of `FirstAnswer` |
| `presolve` | some twenty thousand problems of two columns and two rows, with coefficients of one and two: every trail can be replayed, Infeasible is true, the rounds stop at a fixpoint, the optimum and slackness are restored |
| `solve` | each engine from start to end. Simplex, in exact arithmetic but for the residue EXPAND leaves, and with rounding as well (the problem decides which): Unbounded is true, Phase I ends at a point as little infeasible as any unless a residue hides that, and what Optimal means. PDHG, over all sequences of residuals: window, restarts, the optimum offered, a point reported. Interior point, over all sequences of merits: the best iterate. All three: the contract of an engine under tokens and timeouts at any moment, and an end without outer limits |
| `duals` | all multipliers in -1..1 and points of the grid for some nine hundred problems: what a certificate proves, that one exists, that optimal pairs pass and that a minimum's bound is honest |
| `readers` | some eight thousand MPS files under the four combinations of options, some ten thousand LP files from seven hundred programs, thirty broken ones, and files under wrong or unknown names: the problem read is the one that the whole file describes, or the file is refused; the lines warned about are those of five kinds and no others; the matrix in both forms; and the blocks found in it |
| `device` | two buffers and two matrices on two backends with four blocks: one owner for each block, nothing freed twice, by the wrong backend, or used beyond its length |
| `presolve_signs`, `simplex_residue`, `simplex_stall`, `pdhg_finite`, `lp_free` | a comment of the code contradicted by its behaviour, see below |

**Bounds.** `race` runs the array the code has: its three engines, so
nothing is cut. `crossover` needs one checkpoint for an attempt, a second for
one that supersedes it, and a third to fill a window of two and to jump while
both others are alive; a fourth adds no kind of step. `presolve` has two
columns so that a singleton row, a fixed column and an empty one can follow
from each other in any order, two rows so that they can tighten the same
column, and three rounds so that it can stop at a fixpoint as well as run
out of rounds; every determinant divides four, bounds are multiples of four and
costs of sixteen, so every vertex is on the grid, every dual an integer, and "for all points of the grid" decides what holds of the
real problem. In `solve`, simplex has net limits of one and two, so that each net is
entered, exhausted and entered again; there is no iteration limit, which would
only cut these orders short (the proofs hold with any). PDHG runs two periods of two
iterations with five residuals: enough for a restart at the first check, and for a second check that
follows a restart as well as one that follows a check without. The interior point method has four steps and three attempts at a factorization (the
code has six): one that works at once, one that works late, none that works.
In `readers`, MPS files have a row with up to three cards for each side in either order of the
sections and a free row before or after it, all pairs of bound cards with a third
after them, all triples out of eight column cards, a card about a row before and after
its section comes a second time (the row dropped, declared late, or of the objective's
name), and the ways a layout or a file can be broken; a longer file repeats these kinds of interaction. LP files have
two or three rows of every kind and two bounds, so that one statement follows
another of each kind, and a fourth row or a third bound would follow the same way;
every matrix of three rows and four columns with entries of one (up to the order of columns)
is searched for blocks: enough for two blocks and a row that links them, for one that
looked like a linking row and is local, and for trees of depth two. `device` has two handles of each class, the fewest
that can be moved between, and one block more than a matrix has arrays, so that the
memory runs out and addresses are used again.
Deadlock is checked in every run but `duals`, whose check simply
ends; elsewhere the final states step to themselves under a named action.

**Fairness.** Each thread that can run is scheduled (weak fairness on each
thread's step), and a thread that waits for the mutex gets it if it is free
again and again (strong fairness on `ReportLocks`): without that an engine
that never gets the lock would be the scheduler's failure, not the race's. No
engine is assumed to come to an answer: `DecidedRaceEnds` starts from a race
that is decided, or whose engines have all reported. The time limit is not relied upon.
In `Crossover` neither an attempt nor the last attempt need ever conclude;
what is assumed is that an attempt whose token is set gets to its poll, and that
one that is done reports. `solve` assumes weak fairness of the thread that runs the
engine, and nothing of whoever may set its token; a time limit may pass but need
not, so simplex ends by its nets alone and the others by their iteration limits.

Each property of a passing run has a mutant in `PROJECT.json`: a plausible bug
(a dropped guard, an off-by-one, a missing reset) that breaks it in the same
run. The mutated forms stand next to the definitions they replace
(`AcceptsAlways`, `CountButLast`, `FixRecordsAll`, ...) and are used nowhere else.

## Proofs

All theorems hold for every value of the constants that the named assumptions of
the module allow: any number of entrants, any number of checkpoints, any set of
problems of any number of rows and columns, any number of rounds, any limits. They do not speak of fairness.

| Module | Theorems | Inductive invariant |
| --- | --- | --- |
| `RaceProofs` | `RaceTypeCorrect`, `RemainingCorrect`, `AnswerKept`, `LosersTold`, `NothingOutlives`, `WinnerFinal`, `RaceImplementsFirstAnswer` | `RaceInv` |
| `CrossoverProofs` | `CrossoverTypeCorrect`, `CountsCorrect`, `FallbackAlone`, `CrossoverLosersTold`, `CrossoverAnswerKept`, `CrossoverNothingOutlives`, `JumpsExtra`, `CrossoverWinnerFinal`, `CrossoverImplementsFirstAnswer` | `CrossoverInv` |
| `PresolveProofs` | `WorkIsBounded`, `TrailReplayable`, `PresolveTypeCorrect` | `TrailInv`, `BoundInv`, `GrainInv` |
| | `InfeasibleProved` | `KeepsFeasible`, `InfeasibleInv` |
| | `OptimumRestored` | `SaneInv`, `Lifts`, `CostInv`, `ReplayInv` |
| | `FixpointReached` | `ScanInv` |
| | `SlacknessRestored` | `RowsTrack`, `SingletonsBind`, `HasHistory`, `DualsGrained`, `SlackInv` |
| `SolveProofs` | `SimplexTypeCorrect`, `UnboundedSound`, `PhaseOneDecisive`, `OptimumVerified`, `EndgameExact`, `SimplexImplementsEngine` | `SimplexInv` |
| | `PdhgTypeCorrect`, `WindowExact`, `RestartsHalve`, `OptimumOffered`, `PointReported`, `PdhgImplementsEngine` | `PdhgInv` |
| | `IpmTypeCorrect`, `BestReported`, `IpmImplementsEngine` | `IpmInv` |
| | `SolvedUnbounded`, `SolvedPhaseOne`, `SolvedOptimum`, `SolvedEnginesKeepContract`, `SolvedWindow`, `SolvedRestarts`, `SolvedOptimumOffered`, `SolvedPoint`, `SolvedBest` | those of the engines |
| `DualsProofs` | `CertificateSound`, `GenuinePass`, `MinimumBounded` | `DualsInv` |
| `ReaderProofs` | `MatrixHasTwoLayouts` | `LayoutInv` |
| | `BoundsFollowed` | `ReaderInv` |
| | `TableFollowed` | `TableInv` |
| | `WarningsFollowed` | `WarnInv`, `TableInv` |
| `InspectProofs` | `ClaimCheckable` | `InspectInv` |
| | `InspectedAsRead` | those of `ReaderProofs` |
| `CrossoverProofs` | `DeviceTypeCorrect`, `OneOwner`, `MemorySound` | `DeviceInv` |

`RaceInv` is typing, the exact count, and five more parts, because "every loser has been told when the
joins begin" is not inductive: `MutexInv` says who holds the mutex and in
which places a thread can then be, `ThreadInv` which threads exist for a
position of the launch loop, `WinnerInv` that a winner's answer is valid and was counted,
`TokenInv` which tokens the sweep has set so far, `JoinInv` that those
joined have exited. `CrossoverInv` adds `SpawnInv` (attempts
exist up to the count, and none is added after PDHG is over), `CountInv`,
`MainInv` (what the calling thread knows in each of its places) and
`HistoryInv` (the window of iterates). `SimplexInv` adds to the claims what the
control knows at each place: `StageInv` which call of `iterate` is
running and what came before it, `FreshInv` when a factorization is fresh,
`TruthInv` what is true of the point and the problem when no step has left a residue, `PhaseInv` what
the frozen costs may hide, `EndgameInv` that the tolerance stays at zero once
verification has started, `CountInv` the bounds of the counters.
`PdhgInv` adds `LoopInv`, which says for each place in an iteration which iterations
the sums hold (`WindowIsExact` speaks of the checks only, and a restart leaves the
old sums behind), and `EndInv`. `IpmInv` adds how far the loop is and that
what is remembered is the first best of what was measured, none of which converged.
These two sets of theorems are stated of the instances `P` and `I` that `Solve` is made of, and take
the engine's `OptionsAssumption` as a hypothesis. `RestartsHalve` comes from `PdhgInv` and
the fact that `Power(2, n)` doubles with n.

Of `Solve` itself no invariant is needed. The three `...Runs` lemmas show that a behaviour
of `Solve` which asks for an engine is a behaviour of that engine's module and
asks for it for ever; so what was proved of the engine holds, and the properties
of the other two do not speak of it.

**Presolve.** Every step is one of four reductions (a column is fixed, an empty column is removed, a row is
redundant, a singleton row becomes a bound) or leaves the reduction alone; the lemma `Steps` says
so once, and each invariant is shown for the four. What each invariant says:

- `TrailInv`: a move that is appended uses active rows and columns only,
  and whatever is inactive was removed by a move. The trail can thus be replayed.
- `BoundInv`: a working bound is finite or infinite as the one it came from was,
  because each of the removals that are left multiplies the finite ones by at most 1 + `Scale`. Without it the subtraction
  of a fixed column could make an infinite bound of a finite one.
- `GrainInv`: the working bounds are multiples of `Scale` to the number of rows that are left. A
  singleton row takes one power away when it divides, and is itself removed; so every division is exact.
- `KeepsFeasible`: every point that is feasible for the problem fits the working bounds. This alone
  proves Infeasible, as the three claims are made where nothing fits.
- `Lifts`, the converse: a point that fits the reduced problem and has the removed columns'
  values is feasible for the problem. It takes `SaneInv`: no bound is infinite on the wrong side.
- `CostInv`: at such a point the removed columns cost what `objective_constant_delta` says,
  and at no feasible point do they cost less. For an empty column this is where the rule for the better bound
  is used.
- `ReplayInv`: the solver's point is feasible for the reduced problem, and by weak
  duality nothing that fits is better; the moves replayed so far have restored
  their values. With the four above, the restored point is optimal.
- `ScanInv`: as long as nothing has changed in a round, what the cursor has passed needs no further
  reduction.
- `HasHistory`, `RowsTrack`, `SingletonsBind`: the bounds before each move can be recovered
  from the trail, a row's bounds moved by what was removed from its activity, and a singleton row whose bound
  binds its column is at a bound of its own. `SlackInv` uses them: at each moment of the replay a multiplier that is not zero
  belongs to a row at its own bound, or to a column at the bound it had before the moves undone so far.
- `DualsGrained`: the duals restored so far, and the reduced costs, are multiples of `Scale` to the number of singleton rows that are still to be undone,
  so the reduced cost that goes to a row is divided exactly.

The theorems are about integer points, of which there are as many as one likes: the unit of
the numbers may be any fraction of one. They assume, of the problems presolve is called on,
`ScaleAssumption` (see Presolve above: it chooses the unit, and excludes no rational problem),
`MagnitudeAssumption` (a finite bound times 1 + `Scale` to the number of columns is below `kInfinity`; in the code
`kInfinity` is the infinity of a double, `problem.hpp:29`, which sums of numbers of ordinary size do not reach) and,
for optimality, that no bound is infinite
on the wrong side (`Sane`): `validate()` accepts a lower bound of plus infinity, and with it the rules for
redundant rows would drop a row that nothing satisfies.

**Duals.** `DualsInv` says that every result belongs to the multipliers and the point that were
reported last; the theorems are then facts about sums. `SidesAgree` exchanges the order of summation:
the multipliers' combination of the rows and their product with the columns are one number at every point.
At a feasible point it lies in both ranges (`FeasibleIsNotCertified`). `GenuineMeets` and `BoundIsHonest` are weak
duality with infinite bounds, where a range end is infinite or NaN. `MagnitudeAssumption` says that the sums
of finite terms stay below `kInfinity`.

**Structure.** `InspectInv` says that a problem which was read is well formed, as `validate()` was
the last to look at it, and, while the rows are being united, `TreesInv`. A forest (`IsForest`) is stated without ranks: out of every set of
columns some link leads outside or to itself. So it stays one when `find()`
hangs nodes below their grandparents (`HalvedKeepsRoots`) and when one root is hung below another (`LinkJoins`); that the climb
ends at one root follows by induction along the links (`ForestInduction`). Two facts tie the trees to
the rows passed so far: the columns of a sparse row have one root (`Together`), and a set
of columns that no sparse row cuts is a union of trees (`Unions`). The second is the half that is easily lost: without it
one tree for everything would do. For the numbering, every filled column has the number of its tree,
and each number is of one tree and is used (`OwnNumbers`, `GivenUpTo`). From these the claim follows: a block is one tree, so
what cuts it is a sparse row; a row with the columns of two blocks is no sparse one. The folds over
columns are recursive functions, which `FoldExists` shows to exist. The sizes of
the trees play no part in it, they only keep them flat. All of this takes the pointers of both layouts,
whence the counting sort of `to_csc()` is part of the proof (`PointersTell`).

The theorems of `ReaderProofs` are about `ReadSpec`, the readers without what a command does with the
problem. `InspectReads` shows that a behaviour of a command is one of theirs, and `InspectedAsRead`
carries them over to the specification that the runs check.

**The two layouts.** `LayoutInv` says that a problem which was read has a matrix as its constructor
makes them, and a valid one. The rest is about any such matrix (`ArithmeticProofs`). The sweep of `to_csc()` is a fold that
places one entry after the other (`Placing`), each where the cursor of its line stands. Where that
will be is known from the start: at its rank (`Dest`) by the line it goes to and the line it
comes from. `Swept` says how far each cursor is and which entries are in place after k of them, and
`DestIsCursor` that the cursor and the rank agree. A rank is taken once, so nothing is overwritten, every place is
filled, and the new lines are ordered as `validate()` asks (`ReorderedWellFormed`). The rank of the rank is the place an entry came from, so
converting back gives the matrix again (`ReorderedBack`). The transposed product adds
the same terms under other names (`SumRenamed`, `TransposeGathers`).

**The columns of an MPS file.** `ReaderInv` says that between two lines the reader's columns are
exactly those that the cards before the next line name, each with the bounds and the kind that these cards give it
(`Known`), that the section is that of the last header and `in_integer_block` that of the last marker. `Lower`, `Upper`
and `Integral` are the table as a function of the line; `LowerStep`, `UpperStep`
and `MarkedStep` say how one line changes it, `ColumnsCardDoes` and `BoundsCardDoes` what the handlers do, and
the two agree. A column that comes into being has the values of a name no card has mentioned (`NothingSaid`), and
the folds of the other handlers leave the columns alone (`Keeps`). The second reading starts over, so the
same holds of it with the tokens of the fixed layout. At the end all cards are behind the reader and the
table is that of the whole file. The file may be any sequence of `Lines`
(`FilesAssumption`), the numbers any integers (`NumberAssumption`).

**The rows of an MPS file.** A file is here a sheet (`TheSheet`): which line is a card of which section, its
tokens, and whether free rows are kept. What a reader knows at a line is a function of the sheet
and of the pairs that are done (`DoneTo`): `RowsAre` and `NamesAre` say which rows and names the cards have declared,
`SidesFrom` what the right-hand sides and the ranges make of a row's bounds, and the
rest of `Knows` the objective's constant and the costs. `SidesFrom` is where the order of the
cards counts: a right-hand side replaces the bounds, so a range that stands before it is lost. The handlers of COLUMNS, RHS and RANGES are
folds over the pairs of one card, and each pair takes `Knows` from one set of places to the
next (`CoefficientStep`, `RightHandSideStep`, `RangeStep`); `KnowsNext` takes it to the next
line. `TableInv` says that of every line of both readings. A file without an objective row is a
case of its own: it has no name to be told from the others. At the end of the file all places are done, and `SheetRows`, `SheetMentions`
and the lemmas after them translate the sheet into the property's terms.

**The warnings of an MPS file.** `WarnedLines` is again a function of the sheet: the headers that
begin no section, the rows that are dropped, the lines of a pair about a free row, the bounds on columns
that no card before them has named, and the negative upper bounds over a lower bound of zero.
A reader at a line has been heard (`Heard`) on exactly those of them that it has passed (`Noted`). Each handler
warns at its own line or not at all (`Hears`), and whether it does depends on what the
reader knows: which columns it has seen (`ColumnsSeen`), which row a name stands for (`WhoseIsFree`, by
`Knows`) and what the lower bound is (`Known`). So `WarnInv` rests on
`TableInv`. The end of the reading puts the note about the fixed layout in front of the rest (`AnnouncedIsHeard`).

**Sums.** The library's induction theorems take an operator as a parameter, which no prover here can instantiate.
`ArithmeticProofs` takes the *set* of what satisfies the claim instead: `SubsetInduction`,
`ElementInduction` and `NaturalInduction` are proved from the well-foundedness of strict inclusion (`WFMin`),
and a proof by induction defines that set. A recursive function is a `CHOOSE`, so the partial
sums behind `MapThenFoldSet` and the powers are first shown to exist and to be unique.
Exchange, monotonicity, support and the rest follow.

`DeviceInv` adds `BackedInv` (whatever a handle points to was made by its backend and has
the length of its shape) and `BuiltInv` (what an object holds in each stage of its construction);
without the second an exception in the middle could not be shown to free what is there and nothing else.

Theorems about definitions that no run lists (`WinnerIsFinal`, `EndgameIsExact`,
`JumpsAreExtra`, `AnswerIsKept`, the crossover's `LosersAreTold` and
`NothingOutlivesTheCall`, and all `TypeOK`) stand on their proofs: TLC checked
them while the invariants were found.

Only model-checked are:

- everything about liveness: `DecidedRaceEnds`, `WinnerEndsTheSolve`, `EndIsNoticed` and `SolveEnds` need fairness and `ENABLED`;
- `InfeasibleHasCertificate`, the converse of `CertificateSound`: it is Farkas' lemma,
  and for multipliers out of a bounded set it is true of small problems only;
- `CoefficientsAreSummed`: it goes through the sort of the triplets, operators
  of the library that take operators and recur over data;
- the LP reader (`LpReadsAsWritten`) and the choice between the two (`FilesAreRecognized`): the programs that are read back are those of `LpFiles`,
  whose texts TLC enumerates.

## Where the code and its comments disagree

- **Dual signs after postsolve** (`presolve_signs`). When two singleton rows
  tightened the same column, `src/l1/presolve.cpp:404` gives the whole reduced
  cost to the row undone first whose bound the point is at. With `-x <= 2` and
  `-x >= 2` on a free column of positive cost, a dual gets the wrong sign.
  `presolve.hpp:6` promises rules that are correct against the original
  problem's KKT conditions. The primal point is right in every case.
- **The stall net fires on progress** (`simplex_stall`). At
  `src/l1/simplex.cpp:733` the first best merit is infinite, and infinity minus
  a multiple of infinity is NaN; nothing compares below NaN, so the
  best merit is never set and every iteration counts as one without progress.
  The comment above (691-696) says the net fires on genuine trouble only.
- **A feasible problem called infeasible** (`simplex_residue`). EXPAND's step is at least
  `expand_tol_ / |pivot|` long (`src/l1/simplex.cpp:677`), so over a small pivot the entering variable goes far past where the
  leaving one met its bound, and the leaving one is put back on it (862-864). Phase I may take that point for feasible (721).
  The rebuild at the boundary computes the point anew and finds it infeasible, and more than `1e-6` ends the solve as Infeasible
  (956) with no further pricing. No rounding is needed: with `x >= 5.1e-6`, `0.01 x - y <= 0` and `x, y >= 0` the
  program says Infeasible, and its multipliers (1, -100) certify nothing, although `simplex.hpp:110-112` calls them
  exactly a Farkas certificate. What does hold is that Phase I ends at a point of least
  infeasibility if its last step left no residue (`PhaseOneEndsAtLeast`).
- **An optimum that is no number** (`pdhg_finite`). Residuals are maxima taken
  with `std::max`, which drops a NaN in its second argument; the test for finite
  residuals at `src/l1/pdhg.cpp:347` passes and the point is reported Optimal.
  A free column with a cost in a single free row shows it in the program.
- **A free column followed by a bound** (`lp_free`). `src/io/lp_reader.cpp:195` ends a
  statement at a label or after a relation, and neither `x free` nor `free x` has either. In

      Bounds
       x free
       y free

  the two lines become one statement, a new column called `x free y` is free, and x
  and y keep their default bounds, without an error or a warning; the run's trace shows the same with `free x`. Lines 6-7 of the
  file say that anything outside the subset is an error and never a silent
  misreading, and line 14 lists `x free`. Such programs are therefore kept apart from those of the
  run `readers`.

## Other observations

Met while modelling, each visible in a model as the action or guard it names:

- `crossover.cpp:230-232`: PDHG's thread has no handler; a failing device
  throws out of it and ends the process (`PdhgThrows`).
- `simplex.cpp:956` and `996`: with a problem that is slightly infeasible, Optimal may be reported
  at a point that is, too; `OptimumIsVerified` therefore speaks of feasible problems.
- `simplex.cpp:980`: `phase1_cost_frozen_` outlives the degenerate episode it was
  set for (248-249).
- `simplex.cpp:728`: the EXPAND tolerance is capped where 262 says it grows until
  the next refactorization.
- `simplex.cpp:968`: the certificate's pricing may find a column, and what it finds is ignored
  (964-965).
- `pdhg.cpp:62`: if the rows of the scaled matrix sum to one, the power iteration starts in the
  kernel, and the replaced estimate gives a step size that is too long: for the
  matrix (1) the product of the step sizes and the squared norm is 1.62, above the
  one that `pdhg.hpp:110-112` asks for.
- `pdhg.cpp:480`: the bound takes infima with duals in the problem's own sense, which for a maximization bounds
  nothing: for `max x`, `0 <= x <= 1` the reported gap at the optimum is one half, where 474 speaks of an honest
  bound. `MinimumIsBounded` therefore speaks of minimizations.
- `pdhg.cpp:288` polls in every iteration, `pdhg.hpp:162-163` says at the restart
  cadence: better than promised.
- `ipm.cpp:279`: the residuals in the result are those of the last iterate, the point is that of
  the best one (250-251).
- `ipm.cpp:336`: the token is not polled between the attempts at a factorization
  (`ipm.hpp:136-137` asks for one poll in each iteration, which holds).
- `ipm.cpp:275`: a problem without rows dereferences the end of an empty vector (`Crash`).
- `duals.cpp:95`: a violation of zero does not make a pair genuine; signs and
  feasibility are not looked at (`duals.hpp:83-84`).
- `mps_reader.cpp:313`: a right-hand side that comes after the range of its row silently takes
  the range away (`RowsFollowTheTable` states it as it is, `WarningsAreExact` that nothing is said of it).
- `mps_reader.cpp:279`: an entry that is given twice is handed to the builder twice and summed (`sparse.cpp:42`) without a
  warning, although `io.hpp:15-17` lists a duplicate coefficient that was summed among the warnings of a reader and
  goes on to say that anything ambiguous is recorded. `WarningsAreExact` says which lines are warned about, and that these are not.
- `mps_reader.cpp:269`: a repeated cost replaces the one before it, without a warning.
- `mps_reader.cpp:268`: a row with the objective's name is accepted, and its coefficients go to
  the objective once that is declared; its ranges stay with the row (`OfRow`, `OfObjective`).
- `mps_reader.cpp:275`: a row that was dropped may be declared again as a constraint; what the cards in between
  say of its name is passed over, what comes later counts.
- `mps_reader.cpp:413`: a lower bound of zero given by a card counts as the default one, and
  `UI` has no such rule at all (`UpperBound`).
- `mps_reader.cpp:376`: `BV` with a value takes the value for the column's name.
- `mps_reader.cpp:264`: the last token of a card with an even number of them is dropped silently.
- `io.hpp:56` promises gzip; `read_mps` opens the file as text.
- `lp_reader.cpp:224`: a variable that is repeated in the objective keeps the last
  coefficient, in a constraint they add up.
- `lp_reader.cpp:239`: the name given to an unlabelled row may be that of a labelled
  one, before or after it; a legal file is then refused (`FilesAreRecognized` says so).
- `lp_reader.cpp:311`: a bound whose last name merely ends in "free" is taken for a
  declaration; and a label in Bounds becomes part of the name.
- `lp_reader.cpp:199`: if the number stands on the line after its relation, the
  side is empty and reads as zero, and the number begins the next statement.
- `lp_reader.cpp:141`: after a number, a numeral is taken for a name (`2 3 x` has a column
  `3`), and two names in a row are added.
- `lp_reader.cpp:448`: a pair of brackets is refused even in names, which 144 allows.
- `lp_reader.cpp:61`: errors of the second pass carry the number of the last line.
- `lp_reader.cpp:527`: an MPS file of unknown extension that begins with a word for the objective's
  sense on a line of its own is given to the LP reader, which refuses it
  (`FilesAreRecognized`: never read as something else).
- `backend.cpp:95`: if the block cannot be cleared it is lost, as the constructor of an object that
  throws is not followed by its destructor (`lost`); `docs/build-map.md:198` asks for no
  leaked device memory.
- `backend.hpp:251`: `empty()` is true for a matrix that has rows but no entries.
- `pdhg.cpp:295`: the statuses that the kernels return in the loop are ignored.
- `sovereign_cli.cpp:375-379`: the comment promises a comparison of the objective with that
  of a direct solve; the code checks complementary slackness only.
- `sovereign_cli.cpp:536`: the options for iterations, tolerance, Bland's rule and
  refactorization are parsed and do not reach the race.

## Not modelled

- In `Crossover`, a thread that cannot be started for an attempt, and
  `guess_basis_from_point`; the joins of the attempts are one step.
- In `Presolve`, tolerances and rounding, and numbers that are not rational.
- In `Simplex`, factorization, pricing and ratio test themselves;
  `AlwaysBland = TRUE` is covered by the proofs and by no run. In `Pdhg`, the
  norm estimate is taken to be good unless the start vector is in the kernel.
- In `MpsReader`, letter case, carriage returns and the tokenizers, numbers that
  are no integers, infinite right-hand sides and ranges (only bounds may be infinite).
- In `LpReader`, letter case, comments and the tokenizer; in `ReadModel`, a file that cannot be opened.
- In `SparseMatrix`, `from_dense` and `coefficient_extremes`; in `ProblemBuilder` what only
  reports (`summary`, `primal_infeasibility`).
- In `DeviceMemory`, what a block holds, and the choice of a backend; the
  interior of a kernel is a `Use` of the handles it is given.
- Of the command line, the parsing of the options and the printing; `presolve`
  is the `Presolve` module itself, whose `Solve` is the simplex call in between.
- Scaling, the spiral jump and the kernels are numerical: what could be said
  about them is about floating point accuracy, out of a model checker's reach.
- The corpus tools, the build files and the documents hold no state.
