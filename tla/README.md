# A verification of microPhantom in TLA+

microPhantom is a bot for microRTS, a real-time strategy game played under a
fog of war.  In each frame where a barracks is idle it starts a process that
solves a constraint problem with the GHOST library and answers how many heavy,
light and ranged units to produce.  This directory models the bot, the exchange
with the solver process, and the solver, checks the models with TLC and proves
part of what is checked with TLAPS.  Paths are relative to the root of the
repository.

## 1. Inventory

| component | code | state it keeps | operations |
|---|---|---|---|
| Sighting of units | `MicroPhantom.scanUnits` 272-444 | `track_my_army`, `track_enemy`, counters of enemies per type, losses, resource patches, initial base | one scan at the top of each `getAction()`; `reset()` |
| Exchange with the solver | `MicroPhantom.decideProduction` 1179-1333, `gameOver` 616-632, `main.cpp` 54-91, 228-246 | `serverSocketChannel`, the order `number_*_to_produce`, processes, the connections | open/bind, exec, accept, write, read, close; connect, recv, solve, send |
| Production in a frame | `getAction` 781-888, `baseBehavior` 915, `barracksBehavior` 1335, `workersBehavior` 1387 | the order, `reserved_resources` | train, build |
| Parallel solver | `include/ghost/solver.hpp` 199-460 | threads, futures, winner, best error and cost | start, poll, stop, collect, join |
| Local search of a thread | `include/ghost/search_unit.hpp` | configuration, errors by constraint and variable, tabu list, best error, best cost, `final_solution` | iteration, reset, restart, promise |
| Sampling of the opponent | `problem_model/src/main.cpp` 98-200 | samples | estimate, draw |
| Constraint model and objective | `problem_model/src/{builder,constraints_rts,obj_rts}.cpp`, `phi_function.hpp` | none | error, delta, utility |
| Heat map and exploration | `MicroPhantom` 261-270, 540-592, 1070-1121 | `heat_map` | heat, search |
| Placing of buildings | `freeAround`, `spiralSearch` 476-538 | none | walk |
| Army | 951-1177 | none | move, attack |
| Workers | 1387-1541 | none | build, harvest |
| Map analysis and types | 229-259, 640-764 | map sizes, ranking of types | first frame, `reset()` |
| Random variant | `RandomMicroPhantom.java` | a heavy unit owed | train at random |
| GHOST data structures, messages, tests, microRTS | `include/ghost`, `protobuf_code`, `src/tests`, `lib` | | |

How they interact.  The game loop calls `getAction()` in every cycle.  It calls
`scanUnits()`, then `baseBehavior()` for each idle base, `decideProduction()` if
a barracks is idle, `barracksBehavior()` for each idle barracks, the army, and
`workersBehavior()`.  `decideProduction()` sends the counters and losses of
`scanUnits()` through a TCP connection on port 1085 to a process it has just
executed; that process samples the opponent's army, builds the problem, calls
`Solver::solve()`, which runs one `SearchUnit` per thread, and answers three
numbers.  The numbers stay in fields of the bot until the next answer.

What is hard.
* Two processes and a kernel backlog, any of which may fail between two steps,
  and a port that several bots share (`ProductionLink`).
* Threads that end in any order while the main thread polls them
  (`ParallelSolve`).
* State maintained by differences for as long as the search runs
  (`SearchUnit`), and three pieces of "best" state written on different
  branches.
* A memory of units that are seen, hidden and destroyed in any order
  (`UnitScan`).
* An order decremented below zero and resources that do not move in a frame
  although they are spent (`Production`).
* Loops that end only because of what the map or chance offer: the spiral around
  a builder, the draws of a sample (`SpiralSearch`, `SolverInput`).
* Minima computed by loops that share their variables, over lists that other
  loops shorten (`Workers`, `Exploration`).
* Indices and units that mean the same in two programs, or in a variable, a
  scope and a coefficient, without a name in common (`SolverInput`,
  `Composition`).

## 2. Modules

| module | models | state and actions against the code |
|---|---|---|
| `UnitScan` | `scanUnits()`, `reset()` and the game that is seen through the fog | the maps and counters keep their names; `GetAction` is one whole scan of any set of units the fog may show; `Spawn`, `Die`, `NewGame` are the game |
| `UnitScanProofs` | theorems on `UnitScan` | |
| `ProductionLinkProofs` | theorems on `ProductionLink` | |
| `ProductionProofs` | theorems on `Production` | |
| `ParallelSolveProofs` | theorems on `ParallelSolve` | |
| `SearchUnitProofs` | theorems on `SearchUnit` | |
| `SolverModelProofs` | theorems on `SolverInput` and `Composition` | |
| `BehaviourProofs` | theorems on `SpiralSearch`, `Workers`, `HitAndRun` and `Exploration` | |
| `Sums` | lemmas on numbers, finite sets and sums, for the proofs | |
| `ProductionOrder` | what `decideProduction()` promises | abstract: ask, settle, give up, stop; `outcome` tells how the last call ended |
| `ProductionLink` | `decideProduction()`, `gameOver()`, and `main()` of the solver as a process | one action per system call that can block or fail, on both sides; `backlog` is the kernel's |
| `Production` | one frame of spending | one action per building visited, for the decision and for the workers |
| `ParallelSolve` | the parallel branch of `Solver::solve()` | one action per poll of one future; a unit is what `SearchPromise` says |
| `SearchPromise` | what a search promises `solve()` | abstract: lower the error, lower the cost, finish |
| `SearchUnit` | `search()` | one action per kind of iteration: reset, error improved, same error, worse error; the helper functions keep their names |
| `SolverInput` | `main.cpp` before `solve()` | `Receive` is `recv()`, `ParseFromString()` and the estimate; one action per unit drawn, per sample ended, and for the start of `solve()` |
| `Composition` | `builder.cpp`, `constraints_rts.cpp`, `obj_rts.cpp`, the attitude to risk of `decideProduction()` | the twelve variables by index; one action per variable changed; error, scope, coefficients and utility are operators |
| `Grid` | the map | distances, borders, shortest ways |
| `SpiralSearch` | `freeAround()`, `spiralSearch()` | the local variables of the loop; one action per iteration |
| `Workers` | `workersBehavior()` | one action per part of it: the builder of a base, the site, the builder of a barracks, the site, the harvest; `free_workers` and `jobs` (the commands given) are sets, and where the code keeps the order of a list, the index of a worker in `scan.workers` stands for it |
| `HitAndRun` | `getClosestEnemy()`, `armyUnitCommonBehavior()` | the command given to one unit |
| `Exploration` | `initMapAnalysis()`, `updateHeatMap()`, `armyUnitBehavior()`, `armyUnitBehavior_heatmap()`, `searchResources()` | `heat_map`; `Look` is what a frame begins with, `Command` what the idle units are told in it, `Step` and `GrowLate` are the game |
| `MC...` | instances for TLC | |

`ProductionLink` implements `ProductionOrder` (`KeepsPromise`): an answer
to one's own question, nothing to produce, or a failure that leaves the old
order.  These three outcomes (`answer`, `zeros`, `failure`) are what `Production`
starts its frames from.
`SearchUnit` implements `SearchPromise` (`KeepsPromise`), whose actions are
those of a unit of `ParallelSolve`.  `Workers` extends `SpiralSearch`, whose
walk runs between two of its actions, and both stand on `Grid`, as do
`HitAndRun` and `Exploration`.  `SolverInput` ends where `Composition` begins:
with the samples.

Operators introduced by "a fault that a run seeds" are used by no
specification.  Each is a plausible mistake in the definition it precedes; put
in its place, it makes the corresponding property fail.

## 3. Runs

Passing runs:

| run | question | bounds, and why they are enough |
|---|---|---|
| `unit_scan` (`MCUnitScan.cfg`, about a minute) | is the memory of the bot right whatever is born, seen, hidden or destroyed? | six units: one of ours that fights, a base, an enemy worker, two enemies of one type, a patch. Two of one type are needed for a count to go wrong by one; nothing else bounds the run: any number of frames and games |
| `link_together` | two bots taking turns in one virtual machine: is `ProductionOrder` implemented, so that orders are fresh and each call ends, do no solvers dangle, can a bot find the port taken? | two calls each: a second call meets what the first left. All faults but the one of `link_hang` |
| `link_apart` | two bots in two virtual machines race for the port: is the order an answer to one's own question? | two calls each, all faults |
| `solve` | what does `solve()` return? | three threads, errors and costs in 0..2 with 2 the maximum, two calls on one solver. Three threads distinguish winner, thread 0 and a third; `Worst` = 2 has a solution, a violation and "never measured" |
| `search_unit` | does a search stay consistent? | three variables of three values, three constraints, a problem with a local minimum; eight iterations reach two resets, hence a restart, and the moves after it. Both kinds of problems and all three starting points |
| `production` | what is trained and built in a frame, by the bot and by its random variant? | every game with up to 13 resources (a base, a barracks and the cheapest unit, and all comparisons on both sides), two bases that may ask in one frame, two barracks, two workers, two patches; one frame, from any order of `MCOldOrders` that an earlier game may have left |
| `behaviours` | who builds and where, who harvests what, what a unit in a fight does, what the solver receives, samples and values, and what the units explore? | see below |

`behaviours` checks five small modules that share no state.  Each is a `scene`:
the initial state chooses one, and the others stand still, so that the states of
the scenes add up.  The map is five by five, the smallest in which a place is
off the border on every side and can still be blocked.

* `workers`: every combination of no or one base, no or one barracks, patches or
  none, three amounts of resources around the two prices, small and large maps,
  and workers that are free, busy, carrying or building; two bases to choose
  from, at a distance that tells a loop which starts anew from one that does
  not; and a busy worker alone, who is told to build all the same.  `MaxTarget` = 9 ends
  the walks that find nothing well outside the map.  `Near` = 9 is the threshold
  of 18 scaled to the map.
* `fight`: a unit in the middle, enemies of every kind on the twelve places at
  one or two steps (the melee and the ranged distance) and beyond.
* `input`: messages with values of zero, negative, above 127 and above 16383,
  which take one, two, three and ten bytes, and each ranking of the three costs; a
  half trip of two workers, whose product should be whole but may be rounded below.
  Other bytes behind the message may give any field any value (`Garbled`): here a
  cost of zero and one below, negative counts, a negative number of samples.
  `MaxFree` = 2 bounds the units that cost nothing in one sample, which the code
  would draw for ever.
* `composition`: two or four samples (with one sample all attitudes agree), one
  of them twice, from both sides of the risk thresholds; three units at most.
* `exploration`: units hemmed in, one unit alone, one in search of resources with
  and without a way to the fog; `Sight` = 1 and `EarlyFog` = 4 in proportion to
  the map.  A random place, where the code draws one, is a corner or none.

Violation runs, one per finding:

| run | what it shows |
|---|---|
| `link_hang` | the solver dies before it connects: `accept()` (MicroPhantom.java:1259) has no timeout and `getAction()` never returns |
| `solve_unsatisfied` | a unit satisfied at its very last iteration has not priced its solution; the comparison at solver.hpp:337 is then false for every unit, thread 0 remains the winner, and `solve()` answers true with a configuration that may violate constraints |
| `search_unsolved` | a restart records the error of a sample (search_unit.hpp:164) but not its values; the search answers true with an older configuration |
| `patrol` | the distance that breaks ties between the least known places is not reset when a colder place is found (MicroPhantom.java:1098): a unit on a strip of two rows walks to and fro for ever, with places it can reach unseen |
| `production_unpaid` | builder.cpp:45 initialises `_heavy_cost` with itself; the order may exceed the stock |

What holds despite these is stated too: `PricedIsKept` and `BestIsKept` (the
answer of `solve()` is right as soon as a unit has priced a solution),
`RecordIsKept` (error and configuration belong together until a restart),
`PromisedSteps` (no fault breaks the safety of the exchange),
`BarracksIsCovered` and `OrderIsFollowed` (whatever the order),
`PatrolGoesWhereLeastKnown` (each choice is among the coldest places: only ties
go wrong).

Some properties are conjunctions of named parts, each with its own comment where
it is defined: `Consistent` (the errors by constraint and by variable and the
cost are what a computation from scratch gives), `RecordIsKept`, `BestIsKept`,
and `CommandIsSound` (`StepAsideIsSafe` and `AttackIsOnClosest`).

Modelling the code also showed the following, which contradicts nothing the
repository promises clearly, and which the models have as the code has it:

* "Down" is carried out as up (MicroPhantom.java:1033).  `StepAsideIsSafe`
  therefore promises something for the other three ways only.
* A comment at line 1441 speaks of the worker farthest from the barracks; line
  1454 assigns the other distance, so that the last free worker builds.
* Both comparisons of line 1153 have one outcome: a guard always stands below and
  to the right of a base, which may be off the map.
* A second base or barracks may be asked for while the worker sent to build the
  first is on its way (1419), since only finished buildings are counted.
* A worker whose nearest unseen place cannot be reached is sent there all the
  same and stands still (`SearchSettles` names the case).
* The random bot reserves nothing for the army it trains, so that
  `BarracksIsCovered` excepts it.
* The units that come to `armyUnitCommonBehavior()` are idle, so that its branch
  for a unit with an action is never taken; nor is the handler of
  NumberFormatException in `decideProduction()`.
* The pessimistic weighting of phi_function.hpp lies above the identity for
  large probabilities: it is not pessimism everywhere, and the models claim
  nothing of the kind, only what `RiskFollowsLosses` says of who uses it.

Deadlock is checked in `unit_scan`, where the game never stops.  The other
models end: the calls, frames, solves or iterations are bounded, a virtual
machine may crash, and a walk, a fight or a composition has a last step.

## 4. Fairness

* `UnitScan`: `WF(GetAction)`, since the game loop calls it in each cycle.
* `ProductionLink`: weak fairness of each step of `decideProduction()` once it
  is called, and of each step of a solver process; both are single sequential
  programs that the operating system schedules.  Death is never forced, nor are
  calls.  `SolveAndSend` always comes because `solve()` is given 90 ms.
* `ParallelSolve`: weak fairness of the main thread and of each unit, which
  leaves its loop at the timeout.  `ClockIsRead` of `SearchUnit` is why a
  timeout is noticed: at most one iteration in a row skips the clock.
* `ProductionOrder` has the fairness its implementation must provide.
* `Workers`: weak fairness of each of its actions, one sequential method.
  `FrameEnds` says that it returns if every search starts where there is room.
* `SolverInput`, if no other bytes follow the message: the request comes (`<>(exchange # "sent")`, which
  `ProductionLink` provides), the loop runs (weak fairness of its end and of the
  start of `solve()`), and each affordable type is drawn some time (weak fairness
  of `Draw(t)`): the draws are independent with positive probabilities, so that
  this holds with probability one.  With other bytes nothing is said of the draws.
* `Exploration`: the game calls the bot for ever and gives it its frame
  (`[]<>(pc = "frame")`, `[]<>(pc = "game")`); time passes; a unit that has a way
  takes a step of it (strong fairness of `Step(u)`, since the game stops and
  resumes it between frames).
* `SearchUnit`, `Production`, `HitAndRun` and `Composition` have no liveness
  properties and no fairness.

## 5. Proofs

Every theorem is for all values of the constants, under the named assumption of
its module.  Four theorems on `ProductionLink` are about one virtual machine and
assume it (`OneMachine`), and `FrameGoesOn` assumes a map no larger than the bound
that the model sets to a walk; both are named below.  TLC has checked each property
and the invariant behind it on the small instances first.

`UnitScanProofs` proves, for every finite set of units, owners, types and
prices (`UnitsAssumption`, `NoneAssumption`), that `Spec` implies `[]` of
`CountsMatchTracking`, `LossesMatchDeaths`, `FlaggedDeadIsDead` and `TypeOK`, and
the action property `ScanIsExact`.

None of them is inductive alone.  A loss is charged when an entry goes from
alive to dead, so the sum is over the dead entries only if no sighting turns a
dead entry back to alive: `FlaggedDeadIsDead`, with the fact that the game lists
living units only.  The counters are natural numbers only because they count
something: `CountsMatchTracking`.  The invariant is therefore
`IInv == Typed /\ CountsMatchTracking /\ LossesMatchDeaths /\ FlaggedDeadIsDead`,
where `Typed` is `TypeOK` with integers for the counters.  The argument of the
only hard step, a scan: the entries after it split into disjoint sets (known
before, newcomers, newly dead), lemma `ScanOfTrack` says which entries are alive
and dead afterwards, and `OfTypeUnion` and `CostOfUnion` say that cardinalities
and prices add up over such splits.  The same lemma gives `ScanIsExact`, with the
fact that a unit known to the bot was born (`KnownIsBorn`).

`ProductionLinkProofs` proves, for any number of bots, virtual machines, calls
and any faults (`LinkAssumption`), that the exchange keeps its types and takes
only steps of `ProductionOrder` (`PromiseKept`, whose property is
`PromisedSteps`).  The hard step is the end of a read: the question answered is
the one this bot has asked in this frame.  It could be another, since `accept()`
takes the oldest connection, which may come from the solver that a bot of
another virtual machine has started.  It is not, because a solver answers what
it has read, and it has read what was written to the one connection it has.  The
invariant says that no two bots share a connection: a solver waits once, in one
backlog at most, and is not yet a client (`BacklogInv`); it is unknown to all
before it connects (`SolverInv`); it is executed once (`FrameInv`); a client has
one bot, which writes to it once (`ClientInv`).  `Appended` and `Removed` say
what `Append` and `Tail` do to a queue without duplicates.

`NoOrphan` and `UnboundOnlyAfterFailure` are for bots of one virtual machine, as
in the run that checks them: their theorems assume `OneMachine`.  Such bots are
called one after the other, and the invariant `TurnInv` says what that gives: at
most one of them is in `decideProduction()` (`TakeTurns`), so that the port
belongs to it or to one whose exchange has failed (`PortInv`), and whoever
waits in a backlog, or has been accepted, is the solver of the call in progress
(`WaitsForOwn`, `ClientIsOwn`).  With the same invariant, and if no solver dies
before it connects (`"connect" \notin Faults`, without which `link_hang` shows the
opposite), a bot never waits for nothing (`NeverWaitsInVain`): in `accept()` there
is a connection, a solver that will connect or a channel that fails, and no
solver that it reads from still waits for a question.

`ProductionProofs` proves, for any prices, durations, stock, numbers of bases,
barracks, workers and patches (`MaxBases` and the like are any naturals), and answer of the solver (`ProductionAssumption`), that `BarracksIsCovered`,
`HeavyIsOwed` and `OrderIsFollowed` hold, and that the loops of `reset()` rank
three types rightly whatever their values and ties (`RankingIsRight`).  Only
`BarracksIsCovered` is part of the invariant as it stands, together with the
equality of `reserved_resources` and what has been asked for.  For the order,
the invariant counts (`OrderAsTrained`): while units remain to produce, each
barracks visited has trained one of them (`InProduction`), since the preferred
type is one with the largest number left, which is then positive; once none
remain the order is complete and has left barracks idle (`Produced`), where it is
known that none was asked for too much.  `BalanceIsKept` needs only types and the
two facts of `RankingIsRight` about the preferred type.

`BehaviourProofs` proves, for a map of any size, any obstacles and any origin
(`GridAssumption`, `SpiralAssumption`), that the walk of `spiralSearch()` is a
spiral (`WalkIsSpiral`) and that no place with room is nearer than where it has
come (`FindsNearest`, of `NoneIsNearer`).  The second is not inductive: it says
nothing about which places have been passed.  The invariant `IsSpiral` describes
each leg (`GoesRight`, `GoesDown`, `GoesLeft`, `GoesUp`): where the walk is from
the length of the leg and the step, and the rectangle and part of a side that
have been passed without finding room.  There is one lemma per leg, whose two
cases are to go on and to turn the corner.

`Workers` runs that walk for a base and again for a barracks.  `FrameFindsNearest`
carries the invariant to every frame.  How long a walk can be follows from it: the
number of iterations grows by one with each (`SearchIsShort`) and is bounded by the
distance of any place with room (`WalkIsShort`, and `FrameSearchIsShort` for the
frame).  With room somewhere on the map a natural number therefore falls with each
step of the frame (`FrameGoesOn`), which is all of `FrameEnds` but the fairness.
There the bound of the model on the length of a leg, `MaxTarget`, is assumed to be
at least twice the longer side of the map less one, and the theorem says that such a
bound is never met (`SearchIsNotCut`): the walks that TLC sees are whole.

The same module proves six more things of the units of the bot.

* `JobsAreDealt` and `HarvestIsNearest`, for any frame.  The invariant
  (`DealInv`) says of each moment of `workersBehavior()` who is still free, who
  has a job and who has neither and why (`JobsInv`, `HandsInv`): a worker leaves
  `free_workers` in the step that gives it a job, or is the builder that is still
  looking for a site.  The closest patch and the closest base are what three loops
  with one shared distance leave behind: folds over the lists (`Spot`), of which
  `SpotIsNearest` shows, from the first place to the last, that what is held is the
  least so far.  `SpotFinds` needs that they begin at a distance above any of the
  map (`PlacesAreNotTooFar`): the second loop does because the first has found
  nothing, the third because it is reset (MicroPhantom.java:1516).
* `CommandIsSound`, for any fight whose units stand on different places.  What
  the loops over directions and enemies choose is the first of the least
  (`FirstLeast`); what is at one step of a place without danger is no threat
  (`NoDanger`).
* `PatrolGoesWhereLeastKnown`, for any map and any game.
  `armyUnitBehavior_heatmap()` is a fold over the rows of the map with three
  variables.  A recursive function behind a fold has to be shown to exist
  (`FoldExists`), and what each step preserves holds at the end (`FoldGrows`): each step leaves a place that is no
  warmer than what it has met (`ColderIsLower`), whatever distance it carries
  over.  The invariant (`MapInv`) is that the map the scan reads is a heat map,
  which no one but `updateHeatMap()` writes.
* `SearchersStayNearBase`, for the second scan, that of `searchResources()`, which
  carries over the distance to the worker in the same way: where it sends a worker
  reveals enough fog and is as close to the base as any place that does
  (`NearestIsNearest`).
* `HeatsFollowSight`: of two places out of sight the order of the heats stays, those
  in sight are warmer, and a place once known is never unknown again.  This is why
  ranks may stand for the times that the code writes (`RanksKeepOrder`).

`ParallelSolveProofs` proves, for every number of threads, range of errors and
costs and number of calls (`SolveAssumption`), that `Spec` implies `[]` of all
the invariants that `MCSolve` checks: `TypeOK`, `TimeoutsMatchUnits`,
`FoundIffSatisfied`, `NoRaceOnModel`, `BestIsKept` and `PricedIsKept`.  The units
race with the main thread, so the invariant `IInv`
speaks of the units whose future has been read: they are done (`Frozen`), so
that a step of a running unit disturbs nothing the main thread has concluded
(`UnitStepInv`).  The rest of `IInv` says what is concluded where: the wait ends
with all units read unless a satisfaction problem is solved (`Waited`, from
`TimeoutsMatchUnits` and the fact that a set of N units is all of them,
`AllUnits`), the winner so far is the cheapest of those read
(`WinnerIsCheapest`), and what that makes of the model taken (`Kept`).
`NeverWaitsForNobody` adds that the main thread waits for threads that have been
started: while it polls there is one that it has not read.  `SearchIsPromised` says
that the steps of a unit are those of `SearchPromise`, neither more nor fewer, except
that a satisfaction problem has no cost to lower.
`KeptIsSolution` is not proved because the code does not have it:
`MCSolveUnsatisfied`.

`SearchUnitProofs` proves, for any variables, values, constraints, costs, kind of
problem and starting point (`SearchAssumption`), all that `MCSearchUnit` checks.
`Consistent` is inductive: that differences are exact needs that the error of a
constraint depends on its variables only, which is what `required_error()` is
given, and that sums over a set of constraints split (`Sums`).  `RecordIsKept`
becomes inductive with `RecordIsSound`: no cost is recorded before the
constraints hold.  `ClockIsRead` needs that a reset leaves a variable to pick,
since it empties the tabu list (`UnreadIsFresh`).  `KeptListIsFresh` follows step
by step from `Consistent`.  `SearchKeepsPromise` takes the records of one
iteration to the steps of `SearchPromise`, which by `SearchIsPromised` are the
steps that `ParallelSolve` assumes: what is proved of `solve()` holds of the units
that `search()` makes.

`SolverModelProofs` proves, for any message and any problem (`InputAssumption`,
`TripAssumption`, `CompositionAssumption`):

* `FieldsArrive`, for any numbers of 32 bits: the fields that the solver parses
  are those the bot wrote, if a 0 follows the message.  No byte of a message is 0,
  because a field of value 0 is left out and the last septet of a number is not 0
  (`VarintIsVarint`), so that the solver reads the whole message.  A number is what
  its bytes were made from (`ValueOfVarint`), and the numbers begin and end where
  they were written, since what is appended leaves those before it alone
  (`VarintsOfExtended`).  Tags and values take turns, so that the value of a field
  is never taken for a tag (`TagsOfExtended`), and no two fields share a tag
  (`TagsDiffer`).  Fields are written one after another by a fold, whose
  recursive function is shown to exist (`JoinExists`).
* `SampleIsSpent`, from the invariant that what is left while a sample is drawn
  is the estimate less what has been drawn (`SpendingInv`), and the loop ends
  where the cheapest unit cannot be paid (`MinCostIsLeast`).  This holds of any
  fields that other bytes may leave, with costs below zero too.  If no other bytes
  follow, the fields are those of the message, by `FieldsArrive`, and what is spent
  is within the cheapest unit of what the workers can have carried, although the
  estimate may be rounded down by one: the two bounds are stated in whole numbers,
  with the division and the rounding taken away.
* `SamplingGoesOn`, all of `SamplingEnds` but the fairness, for messages that
  nothing else follows: there is always a type to draw or nothing that can be paid,
  and the samples left to take and what is left to spend on the current one make a
  number that falls.  With other bytes it is not so: a cost of zero or less can be
  paid for ever, and the loop at main.cpp:168 does not end.
* `UnitsFightOnce`, by the scopes of the constraints.
* What the rank dependent utility is worth: `MoreUnitsNeverHurt`,
  `RiskFollowsLosses` and `UtilityIsOfDistribution`.  `SortedSorts` shows that
  ranking gives the indices of the worths in rising order, each once, from which
  sorting keeps sums (`SortedKeepsSum`) and does not cross what does not cross
  (`SortedKeepsOrder`).  The sum of `required_cost()` is taken as an accumulation
  of one step per sample (`RewardAccumulates`), and each property is an invariant
  of it.  With r the worths, phi the weights and R the rewards up to a sample:
  R(m) is between r(1) and r(m) (`RewardIsBetween`); R(m) exceeds the sum up to m
  and of n - m times r(m) if phi exceeds the share that is left
  (`RewardAverages`); of two rising sequences, the gap of the rewards is at least
  the last weight times the gap of the numbers, which is where phi must not rise
  (`RewardGrows`); and R(m), less what r(m) stands for in the samples to come, is
  the sum of the shares of the worths seen, where a tie adds nothing
  (`RewardOfDistribution`).

Recursion is out of the prover's reach where it is an operator, and so are the
theorems of the library that take one, but not induction itself: a least
counterexample of a set of numbers (`LeastNat`, `UpTo`) or of subsets
(`SmallestSubset`, `SubsetInduction`) does the same, and the folds of the
community modules are recursive functions.

Model-checked only: liveness, which is out of this prover's reach, since it needs
fairness and so ENABLED.  For most of it what a proof would need besides fairness is
proved:

| property | what is proved of it |
|---|---|
| `DeathIsNoticed` | `ScanIsExact`: whatever a scan finds missing is marked dead by it |
| `DecideReturns` | `NeverWaitsInVain`, for one virtual machine |
| `SolveReturns` | `NeverWaitsForNobody` |
| `FrameEnds` | `FrameGoesOn` |
| `SamplingEnds` | `SamplingGoesOn` |
| `SearchSettles` | nothing: the choices are `SearchersStayNearBase`, but not what they make of the fog in time |
| `KeepsPromise` of `ProductionLink` | its steps, `PromisedSteps`, but not its fairness |

## 6. Abstractions and what is not modelled

* Contents of messages: a request is the bot and frame that sent it, an answer
  is zeros (no byte on the wire) or something.  Partial reads are left out: both
  messages are below a packet on the loopback interface.
* Floating point: errors and costs are small naturals.  The errors of this
  problem are whole numbers, so that `int min_conflict` (search_unit.hpp:460)
  truncates nothing; rounding in the sums of other problems is not seen.  The
  estimate of main.cpp:110 is rounded in `SolverInput` (`MayFallShort`): the
  quotient and the product are doubles, and one that should be whole may lose one
  when it becomes an int.
* Overflow of the estimate: `EstimateAssumption` excludes it for the messages a
  bot sends (numbers of a game are far below 2^31).  With other bytes behind the
  message every field and the estimate may be anything (`Garbled`, `Estimates`).
* A variable in no constraint, which would leave search_unit.hpp with an empty
  list to pick from, is excluded by `SearchAssumption`: every variable of this
  problem is in one.
* Time: the clock may stop a search at any iteration.
* Random choices are existential.
* `SearchUnit` covers the build that the Makefile makes: neither ANTIDOTE
  variant, and not the permutation moves, which this problem does not use.
  Restart and tabu options are smaller than the defaults of `solve()` (12
  variables, tabu for 6 moves) so that restarts come early; they are legal
  options.  Options beyond the number of variables, for which the code reads out
  of bounds (search_unit.hpp:324), are excluded by `SearchAssumption`.
* Post-processing of solutions (solver.hpp:458-475): it may leave any cost in
  `_best_opt_cost` (`Join`), which a second call starts from.  The sequential
  branch of `solve()` is left out: main.cpp never takes it.
* The objective in `SearchUnit`: `Cost` is any table.  In `Composition` it is the
  one of obj_rts.cpp, in hundredths, with the two functions of phi_function.hpp
  as tables of their rounded values; `MoreUnitsNeverHurt` and
  `UtilityIsOfDistribution` do not depend on the digits left out.
* Heat: real seconds become ranks, since only comparisons of heat are made.
* Paths: `getPath()` and movement belong to microRTS; a unit takes a step of some
  shortest way, or stands still if there is none.
* `Exploration` has no enemies in sight, which is `HitAndRun`'s case; `HitAndRun`
  is one decision of one unit, since each decision looks only at the frame.
* `Workers` is one frame from any lists of `scanUnits()`: what a building begun
  means for later frames is not followed.

Not modelled, and why:

* GHOST's data structures (`Model`, `ModelBuilder`, `Variable`, `Constraint`,
  `Objective`, `Options`): only their headers are in the repository; what the
  search asks of them are the constants of `SearchUnit`.
* The code generated by protoc, and the protobuf headers under
  `include/google`, which are most of the lines of the repository: third-party
  code.  What the bot's messages become on the wire is in `SolverInput`.
* microRTS: a library in `lib/`.
* Test harness and drivers (`Experimenter`, `CompareAllAIs`, the visual test,
  `main_test`, `print_test`): loops over games, without a logic of their own.
* Permutation moves and the ANTIDOTE builds of `SearchUnit`, the sequential
  branch of `solve()`: not taken by this program.

## 7. Plan

Done, in this order: `UnitScan` and its proofs, `ProductionLink` over
`ProductionOrder`, `ParallelSolve` and its proofs, `SearchUnit` over
`SearchPromise`, `Production`, then `SpiralSearch` and its proofs, `Workers`,
`HitAndRun`, `SolverInput`, `Composition`, `Exploration`, the random variant, and
the proofs of `Production` and `ProductionLink`, the proofs of
`SearchUnit`, `Composition`, `SolverInput`, `Workers`, `HitAndRun` and
`Exploration`.

Then the theorems on the bytes of a message, on whole frames, on the search for
resources and on heats, those that prepare the liveness properties, and the one that
joins `SearchUnit` and `ParallelSolve`.

Left to do:
1. `SearchSettles`: a bound on the fog in sight of a worker that falls with each step
   it takes, for any map.
2. Workers over several frames: a building begun, and the stock it takes, as later
   frames see them (the hazard of MicroPhantom.java:1419).
3. The races of bots in two virtual machines beyond `PromisedSteps`: when the port is
   freed after a failure.
