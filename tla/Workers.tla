------------------------------ MODULE Workers -------------------------------
(***************************************************************************)
(* workersBehavior(): one frame of the workers, after scanUnits() has said *)
(* what there is.  A worker may be told to build a base, another one to    *)
(* build a barracks, both after a search of SpiralSearch for a place; the  *)
(* others harvest.  Workers are numbered in the order of my_workers, which *)
(* the list of free workers keeps: it is the set of their numbers.  The    *)
(* game is partially observable (pogs # null).                             *)
(***************************************************************************)
EXTENDS SpiralSearch

CONSTANTS
    Cost,       \* UnitType.cost of a base, a barracks, the most expensive army type
    Near,       \* distance_threshold of getAction(), squared
    Frames      \* what scanUnits() may find, see WorkersAssumption

Nowhere == <<-1, -1>>
Nobody == 0

ASSUME WorkersAssumption ==
    /\ Cost \in [{"base", "barracks", "dearest"} -> Nat]
    /\ Near \in Nat
    /\ \A f \in Frames :
         /\ f.workers \in Seq([at : Cells, busy : BOOLEAN, carries : BOOLEAN,
                               builds : {"nothing", "base", "barracks"}])
         /\ {f.bases, f.barracks, f.patches} \subseteq Seq(Cells)
         /\ f.seen \subseteq Cells /\ f.occupied \subseteq Cells
         /\ f.stock \in Nat /\ f.reserved \in Nat
         /\ f.small \in BOOLEAN           \* map_surface <= 144

VARIABLES
    scan,                 \* the lists of scanUnits(), constant here
    stage,                \* "base", "base site", "barracks", "barracks site",
                          \* "harvest" or "end"
    free_workers,
    builder, building,    \* who will build what where the search ends
    reserved_resources, reserved_positions,
    jobs                  \* the commands given

workers_vars == <<scan, stage, free_workers, builder, building, reserved_resources,
                  reserved_positions, jobs, search_vars>>

IdleWorkers(f) == {w \in DOMAIN f.workers : ~ f.workers[w].busy}

WorkersInit ==
    /\ scan \in Frames
    /\ stage = IF scan.workers = <<>> THEN "end" ELSE "base"
    /\ free_workers = IdleWorkers(scan)
    /\ builder = Nobody /\ building = "nothing"
    /\ reserved_resources = scan.reserved
    /\ reserved_positions = {}
    /\ jobs = {}
    /\ occupied = scan.occupied
    /\ StartsAt(<<0, 0>>)

\* getAction(): the patches near one of my bases.
MyPatches == {p \in Range(scan.patches) :
                 \E b \in Range(scan.bases) : Euclidian2(p, b) <= Near}

At(w) == scan.workers[w].at

Job(w, what, where) == [worker |-> w, what |-> what, where |-> where]

\* The search starts from the builder.
StartSearch(c) ==
    /\ origin' = c /\ place' = c
    /\ step' = 0 /\ target' = 1 /\ x_turn' = TRUE
    /\ UNCHANGED occupied

\* findBuildingPosition() (external) finds a free position, maybe another one
\* than the one desired, or none.
Sites == Cells \ (occupied \union reserved_positions)

BuildIfNotAlreadyBuilding(w, type) ==
    IF scan.workers[w].builds = type \/ Sites = {}
    THEN UNCHANGED <<jobs, reserved_positions>>
    ELSE \E site \in Sites :
           /\ jobs' = jobs \union {Job(w, type, site)}
           /\ reserved_positions' = reserved_positions \union {site}

-----------------------------------------------------------------------------
(* The base                                                                *)

NeedsBase == scan.bases = <<>> /\ scan.stock >= Cost["base"]

\* The first free worker, or a worker that has something else to do.
PlanBase ==
    /\ stage = "base" /\ NeedsBase
    /\ builder' = IF free_workers = {} THEN 1 ELSE Min(free_workers)
    /\ free_workers' = free_workers \ {builder'}
    /\ building' = "base"
    /\ StartSearch(At(builder'))
    /\ stage' = "base site"
    /\ UNCHANGED <<scan, reserved_resources, reserved_positions, jobs>>

SkipBase ==
    /\ stage = "base" /\ ~ NeedsBase
    /\ stage' = "barracks"
    /\ UNCHANGED <<scan, free_workers, builder, building, reserved_resources,
                   reserved_positions, jobs, search_vars>>

SearchOn ==
    /\ stage \in {"base site", "barracks site"}
    /\ Walk
    /\ UNCHANGED <<scan, stage, free_workers, builder, building, reserved_resources,
                   reserved_positions, jobs>>

\* The search is over.
Build ==
    /\ stage \in {"base site", "barracks site"}
    /\ Found
    /\ BuildIfNotAlreadyBuilding(builder, building)
    /\ reserved_resources' = reserved_resources + Cost[building]
    /\ stage' = IF stage = "base site" THEN "barracks" ELSE "harvest"
    /\ UNCHANGED <<scan, free_workers, builder, building, search_vars>>

-----------------------------------------------------------------------------
(* The barracks                                                            *)

WantsBarracks ==
    \/ scan.barracks = <<>>
    \/ /\ scan.stock >= Cost["barracks"] + reserved_resources + Cost["dearest"]
       /\ ~ scan.small
       /\ MyPatches # {}

NeedsBarracks ==
    /\ WantsBarracks
    /\ scan.stock >= Cost["barracks"] + reserved_resources
    /\ free_workers # {}

\* The greatest distance so far is not kept, so each worker replaces the last.
BarracksBuilder == IF scan.barracks = <<>> THEN Min(free_workers) ELSE Max(free_workers)

\* A fault that a run seeds: the builder stays among the free workers.
PlanBarracksAndHarvest ==
    /\ stage = "barracks" /\ NeedsBarracks /\ ~ scan.small
    /\ builder' = BarracksBuilder
    /\ building' = "barracks"
    /\ StartSearch(At(BarracksBuilder))
    /\ stage' = "barracks site"
    /\ UNCHANGED <<scan, free_workers, reserved_resources, reserved_positions, jobs>>

PlanBarracks ==
    /\ stage = "barracks" /\ NeedsBarracks /\ ~ scan.small
    /\ builder' = BarracksBuilder
    /\ building' = "barracks"
    /\ free_workers' = free_workers \ {BarracksBuilder}
    /\ StartSearch(At(BarracksBuilder))
    /\ stage' = "barracks site"
    /\ UNCHANGED <<scan, reserved_resources, reserved_positions, jobs>>

\* On a small map the worker builds where it is.
BuildHere ==
    /\ stage = "barracks" /\ NeedsBarracks /\ scan.small
    /\ builder' = BarracksBuilder
    /\ building' = "barracks"
    /\ free_workers' = free_workers \ {BarracksBuilder}
    /\ BuildIfNotAlreadyBuilding(BarracksBuilder, "barracks")
    /\ reserved_resources' = reserved_resources + Cost["barracks"]
    /\ stage' = "harvest"
    /\ UNCHANGED <<scan, search_vars>>

SkipBarracks ==
    /\ stage = "barracks" /\ ~ NeedsBarracks
    /\ stage' = "harvest"
    /\ UNCHANGED <<scan, free_workers, builder, building, reserved_resources,
                   reserved_positions, jobs, search_vars>>

-----------------------------------------------------------------------------
(* The harvest                                                             *)

\* Integer.MAX_VALUE: above the distance of any two places.
TooFar == Width + Height

\* What a loop holds: closest_distance, and closest_resource or closest_base (null).
NothingYet == [distance |-> TooFar, place |-> Nowhere]

\* One turn: a unit that is among those of the loop is compared with the best so far.
Compare(c, among, best, p) ==
    IF p \in among /\ Manhattan(c, p) < best.distance
    THEN [distance |-> Manhattan(c, p), place |-> p]
    ELSE best

\* A loop, from what the loops before it have left.
Spot(c, list, among, best) ==
    FoldLeft(LAMBDA b, p : Compare(c, among, b, p), best, list)

\* my_resource_patches, in the order of resource_patches.
SpotMine(w) == Spot(At(w), scan.patches, MyPatches, NothingYet)

\* closest_resource: one near my bases, or else any patch I have seen, which is
\* compared with the distance that the first loop has left.
SpotPatch(w) ==
    IF SpotMine(w).place = Nowhere
    THEN Spot(At(w), scan.patches, Range(scan.patches), SpotMine(w))
    ELSE SpotMine(w)

\* A fault that a run seeds: closest_distance is still that of the patch.
SpotBaseUnreset(w) ==
    Spot(At(w), scan.bases, Range(scan.bases), [SpotPatch(w) EXCEPT !.place = Nowhere])

\* closest_base: closest_distance starts again.
SpotBase(w) == Spot(At(w), scan.bases, Range(scan.bases), NothingYet)

HarvestFor(w, patch, base) == [worker |-> w, what |-> "harvest", where |-> patch, base |-> base]

\* What a free worker is told: searchResources() is in Exploration.  Without a
\* base to return to, it is told nothing.
HarvestJob(w) ==
    IF SpotPatch(w).place = Nowhere THEN {Job(w, "search", Nowhere)}
    ELSE IF SpotBase(w).place = Nowhere THEN {}
    ELSE IF ~ scan.workers[w].carries /\ SpotPatch(w).place \notin scan.seen
         THEN {Job(w, "move", SpotPatch(w).place)}
    ELSE {HarvestFor(w, SpotPatch(w).place, SpotBase(w).place)}

Harvest ==
    /\ stage = "harvest"
    /\ stage' = "end"
    /\ jobs' = jobs \union UNION {HarvestJob(w) : w \in free_workers}
    /\ UNCHANGED <<scan, free_workers, builder, building, reserved_resources,
                   reserved_positions, search_vars>>

WorkersNext ==
    \/ PlanBase \/ SkipBase \/ SearchOn \/ Build
    \/ PlanBarracks \/ BuildHere \/ SkipBarracks
    \/ Harvest

\* getAction() runs on.
WorkersFairness == WF_workers_vars(WorkersNext)

WorkersSpec == WorkersInit /\ [][WorkersNext]_workers_vars /\ WorkersFairness

-----------------------------------------------------------------------------
(* Properties                                                              *)

JobsOf(w) == {j \in jobs : j.worker = w}
Builds(j) == j.what \in {"base", "barracks"}

\* Who may well get no job: a worker already on its way to build what it is
\* chosen for, or one that knows a patch and has no base to bring anything to.
MayIdle(w) ==
    \/ w = builder
    \/ scan.workers[w].builds = "base"
    \/ scan.bases = <<>> /\ scan.patches # <<>>

\* The jobs are dealt out once each: no worker is told two things in a frame,
\* no worker busy with an action is told anything, except the first to build a
\* base, none is forgotten, and two buildings do not get the same position.
JobsAreDealt ==
    /\ \A w \in DOMAIN scan.workers :
         /\ Cardinality(JobsOf(w)) <= 1
         /\ scan.workers[w].busy =>
              \A j \in JobsOf(w) : j.what = "base" /\ IdleWorkers(scan) = {}
         /\ stage = "end" /\ w \in IdleWorkers(scan) /\ ~ MayIdle(w) => JobsOf(w) # {}
    /\ \A i, j \in jobs : i # j /\ Builds(i) /\ Builds(j) => i.where # j.where

\* The patches to choose from.
Choice == IF MyPatches # {} THEN MyPatches ELSE Range(scan.patches)

IsNearest(c, p, places) ==
    p \in places /\ \A d \in places : Manhattan(c, p) <= Manhattan(c, d)

\* Workers harvest around the bases as long as there is a patch there, from the
\* patch closest to them and for the base closest to them; and a free worker with
\* a patch and a base to choose is told to.
HarvestIsNearest ==
    /\ \A j \in jobs :
         /\ j.what \in {"harvest", "move"} => IsNearest(At(j.worker), j.where, Choice)
         /\ j.what = "harvest" => IsNearest(At(j.worker), j.base, Range(scan.bases))
    /\ stage = "end" /\ Choice # {} /\ scan.bases # <<>> =>
         \A w \in free_workers : \E j \in JobsOf(w) : j.what \in {"harvest", "move"}

\* The frame ends if there is a place with room around it anywhere on the map;
\* without one spiralSearch() would never return.
FrameEnds == Room # {} => <>(stage = "end")
=============================================================================
