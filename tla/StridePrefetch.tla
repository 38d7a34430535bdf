---------------------------- MODULE StridePrefetch ----------------------------
(***************************************************************************)
(* The second compilation's loop pass, StridePrefetch of                   *)
(* proj_pass/lib/projpass/strideprefetch.cpp: which loads get a prefetch,  *)
(* and how far ahead (K) it reaches.                                       *)
(*                                                                         *)
(* The pass manager runs it on the functions of the module in turn and on  *)
(* the loops of a function inner loops first.  A function here is a chain  *)
(* of nested loops, loop 1 the innermost.  A Loop object lives as long as  *)
(* its function's LoopInfo, while the pass and its instsPerLoopMap, keyed  *)
(* by the object's address, live for the whole module.  The instructions   *)
(* the pass itself adds to an inner loop are left out of the body of the   *)
(* loops around it.                                                        *)
(***************************************************************************)
EXTENDS Integers, Sequences, FiniteSets, Functions

CONSTANTS LoopShapes,     \* what the edge profile says of a loop
          LoadShapes,     \* what the two profiles say of a load
          MaxDepth,       \* model bound: loops in a function
          MaxLoads,       \* model bound: loads in the module
          NumFunctions,   \* model bound: functions in the module
          Places,         \* addresses Loop objects are allocated at
          UIntRange       \* values of an unsigned int, 2^32 in the code

\* header and preheader: their execution counts; body: instructions executed in
\* one iteration.  count: executions of the load's block; class: what profile()
\* makes of the frequencies of the load's loadInfo, "noinfo" if it has none.
ASSUME ShapesAssumption ==
  /\ \A s \in LoopShapes : /\ s.header \in Nat \ {0} /\ s.preheader \in Nat \ {0}
                           /\ s.body \in Nat \ {0}
  /\ \A s \in LoadShapes : s.count \in Nat /\ s.class \in {"noinfo", "none", "SSST", "PMST", "WSST"}
ASSUME PlacesAssumption == IsFiniteSet(Places) /\ Cardinality(Places) >= MaxDepth
ASSUME RangeAssumption  == UIntRange \in Nat \ {0}
ASSUME BoundsAssumption == MaxDepth \in Nat /\ MaxLoads \in Nat /\ NumFunctions \in Nat \ {0}

FT == 2000
TT == 100
MEMORY_LATENCY == 200
MaxK == 8

VARIABLES program,          \* per function up to fn, the chain of its loops
          fn,               \* function the pass is on
          CurrentLoop,      \* loop of fn the pass is on, 0 before the first
          place,            \* where the Loop objects of fn are
          instsPerLoopMap,  \* instruction counts, by place
          SSST_loads, PMST_loads, WSST_loads,
          inserted,         \* loads insertPrefetchInsts went over in this loop
          prefetches        \* history: the prefetches inserted, in order

sets == <<SSST_loads, PMST_loads, WSST_loads>>
vars == <<program, fn, CurrentLoop, place, instsPerLoopMap, sets, inserted, prefetches>>

Depth(f) == Len(program[f])

LoadsIn(f, l) == {[fn |-> f, loop |-> l, pos |-> p] : p \in DOMAIN program[f][l].loads}
AllLoads == UNION {UNION {LoadsIn(f, l) : l \in 1..Depth(f)} : f \in 1..fn}

Shape(load) == program[load.fn][load.loop].loads[load.pos]

Placements(n) == {w \in [1..n -> Places] : \A i, j \in 1..n : w[i] = w[j] => i = j}

LoopsOver(S) == UNION {[1..n -> S] : n \in 0..MaxLoads}
Nests == UNION {[1..n -> [shape : LoopShapes, loads : LoopsOver(LoadShapes)]] : n \in 1..MaxDepth}

\* The chains of loops with at most n loads in all.
NumLoads(nest) == FoldFunction(+, 0, [l \in DOMAIN nest |-> Len(nest[l].loads)])
NestsWithin(n) == {nest \in Nests : NumLoads(nest) <= n}

\* The loops of a function are chosen when the pass manager comes to it.
Init == /\ program \in {<<nest>> : nest \in NestsWithin(MaxLoads)}
        /\ fn = 1
        /\ CurrentLoop = 0
        /\ place \in Placements(Depth(1))
        /\ instsPerLoopMap = [p \in {} |-> 0]
        /\ SSST_loads = {} /\ PMST_loads = {} /\ WSST_loads = {}
        /\ inserted = {}
        /\ prefetches = <<>>

-------------------------------------------------------------------------------
(* loopOver and profile: which loads.                                      *)

\* trip_count, of the loop the pass is on.
TripCount(l) == program[fn][l].shape.header \div program[fn][l].shape.preheader

\* The loads loopOver comes to: those in the loop and in none of its sub-loops.
Visited(l) == LoadsIn(fn, l)

\* What keeps profile() from looking at the class.
Profiled(load, l) == /\ Shape(load).class # "noinfo"
                     /\ Shape(load).count > FT
                     /\ TripCount(l) > TT

OfClass(class, l) == {load \in Visited(l) : Profiled(load, l) /\ Shape(load).class = class}

Classified == SSST_loads \cup PMST_loads \cup WSST_loads

\* insertPrefetchInsts has been through the three sets.
LoopDone == Classified \subseteq inserted

\* Mutant: the sets of the last loop are not cleared.
ClassifyWithoutClear(l) ==
  /\ SSST_loads' = SSST_loads \cup OfClass("SSST", l)
  /\ PMST_loads' = PMST_loads \cup OfClass("PMST", l)
  /\ WSST_loads' = WSST_loads \cup OfClass("WSST", l)

ClassifyLoads(l) == /\ SSST_loads' = OfClass("SSST", l)
                    /\ PMST_loads' = OfClass("PMST", l)
                    /\ WSST_loads' = OfClass("WSST", l)

runOnLoop == /\ LoopDone
             /\ CurrentLoop < Depth(fn)
             /\ CurrentLoop' = CurrentLoop + 1
             /\ ClassifyLoads(CurrentLoop')
             /\ inserted' = {}
             /\ UNCHANGED <<program, fn, place, instsPerLoopMap, prefetches>>

\* The next function: the Loop objects of the last one are freed, and the new
\* ones may be where those were.
NextFunction == /\ LoopDone
                /\ CurrentLoop = Depth(fn)
                /\ fn < NumFunctions
                /\ fn' = fn + 1
                /\ \E nest \in NestsWithin(MaxLoads - Cardinality(AllLoads)) :
                      program' = Append(program, nest)
                /\ CurrentLoop' = 0
                /\ place' \in Placements(Len(program'[fn']))
                /\ SSST_loads' = {} /\ PMST_loads' = {} /\ WSST_loads' = {}
                /\ inserted' = {}
                /\ UNCHANGED <<instsPerLoopMap, prefetches>>

-------------------------------------------------------------------------------
(* insertLoad: how far ahead.                                              *)

PerIteration(f, l) == program[f][l].shape.body

\* What getLoopInstructionCount adds up over the blocks of the loop.
InstCount(l) == (program[fn][l].shape.header * PerIteration(fn, l)) % UIntRange

\* getLoopInstructionCount: the sum goes into the map, an average per iteration
\* is returned; what the map has is returned as it is.
LoopInstructionCount(l) ==
  IF place[l] \in DOMAIN instsPerLoopMap
  THEN instsPerLoopMap[place[l]]
  ELSE InstCount(l) \div program[fn][l].shape.header

\* Mutant: the map gets what is returned.
RememberAverage(l) ==
  instsPerLoopMap' = [p \in DOMAIN instsPerLoopMap \cup {place[l]} |->
                        IF p = place[l] THEN LoopInstructionCount(l) ELSE instsPerLoopMap[p]]

RememberCount(l) ==
  instsPerLoopMap' =
    [p \in DOMAIN instsPerLoopMap \cup {place[l]} |->
       IF p \in DOMAIN instsPerLoopMap THEN instsPerLoopMap[p] ELSE InstCount(l)]

\* K, from the instruction count.
KFor(total) == IF total < MEMORY_LATENCY /\ MEMORY_LATENCY \div total < MaxK
               THEN MEMORY_LATENCY \div total ELSE MaxK

ClassOf(load) == IF load \in PMST_loads THEN "PMST"
                 ELSE IF load \in SSST_loads THEN "SSST" ELSE "WSST"

\* The sets are gone through one after the other.
Turn(load) == \/ load \in SSST_loads
              \/ load \in PMST_loads /\ SSST_loads \subseteq inserted
              \/ load \in WSST_loads /\ SSST_loads \cup PMST_loads \subseteq inserted

insertLoad(load) ==
  /\ load \notin inserted
  /\ Turn(load)
  /\ LoopInstructionCount(CurrentLoop) # 0     \* a zero count is a division by zero
  /\ prefetches' = Append(prefetches, [load |-> load, class |-> ClassOf(load),
                                       place |-> place[CurrentLoop],
                                       K |-> KFor(LoopInstructionCount(CurrentLoop))])
  /\ RememberCount(CurrentLoop)
  /\ inserted' = inserted \cup {load}
  /\ UNCHANGED <<program, fn, CurrentLoop, place, sets>>

Finished == LoopDone /\ fn = NumFunctions /\ CurrentLoop = Depth(fn)

Next == \/ runOnLoop
        \/ NextFunction
        \/ \E load \in Classified : insertLoad(load)
        \/ Finished /\ UNCHANGED vars

Spec == Init /\ [][Next]_vars
-------------------------------------------------------------------------------
\* A load deserves a prefetch when it was profiled and classified, its block ran
\* often, and the innermost loop around it runs many times per entry.
Deserves(load) ==
  /\ Shape(load).class \in {"SSST", "PMST", "WSST"}
  /\ Shape(load).count > FT
  /\ LET loop == program[load.fn][load.loop].shape
     IN  loop.header \div loop.preheader > TT

PrefetchesOf(load) == {i \in DOMAIN prefetches : prefetches[i].load = load}

\* Over all loops and functions, whatever the nesting, the pass gives every load
\* that deserves one exactly one prefetch, of its class, and no other load any:
\* the runs for the outer loops, which contain the load too, add none.
PrefetchesExact ==
  /\ \A load \in AllLoads :
        /\ Cardinality(PrefetchesOf(load)) <= IF Deserves(load) THEN 1 ELSE 0
        /\ Finished /\ Deserves(load) => PrefetchesOf(load) # {}
  /\ \A i \in DOMAIN prefetches : prefetches[i].class = Shape(prefetches[i].load).class

\* The sums over all iterations of a loop fit an unsigned int.
SumsFit == \A f \in 1..fn : \A l \in 1..Depth(f) :
             program[f][l].shape.header * PerIteration(f, l) < UIntRange

\* Some prefetch before was inserted in a loop at the same place: in this one, or
\* in one freed since.
Remembered(i) == \E j \in 1..(i - 1) : prefetches[j].place = prefetches[i].place

\* Whatever the map remembers, no prefetch comes too late: a distance is never
\* shorter than the body of the loop calls for, and it is that distance for the
\* first load of a loop whose place no loop before it had.
DistanceLongEnough ==
  SumsFit => \A i \in DOMAIN prefetches :
    LET load  == prefetches[i].load
        right == KFor(PerIteration(load.fn, load.loop))
    IN  /\ prefetches[i].K >= right
        /\ ~Remembered(i) => prefetches[i].K = right

\* Every distance comes from the instructions executed in an iteration of the
\* loop around the load, whichever load of the loop it is and whatever loops the
\* pass was on before.
DistanceFromBody ==
  \A i \in DOMAIN prefetches :
     LET load == prefetches[i].load
     IN  prefetches[i].K = KFor(PerIteration(load.fn, load.loop))
===============================================================================
