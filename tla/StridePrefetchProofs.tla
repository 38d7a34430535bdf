------------------------- MODULE StridePrefetchProofs -------------------------
(***************************************************************************)
(* Theorems about StridePrefetch, for modules of any number of functions,  *)
(* with nests and loads of any shapes: the pass gives every load that      *)
(* deserves one exactly one prefetch, and none at too short a distance.    *)
(* Then theorems about PrefetchCode, for any addresses, strides and widths *)
(* of integers: the inserted code prefetches an address the load will      *)
(* reach, provided that an i32 holds an address.                           *)
(***************************************************************************)
EXTENDS StridePrefetch, PrefetchCode, FiniteSetTheorems, SequenceTheorems, WellFoundedInduction,
        TLAPS

USE ShapesAssumption, RangeAssumption, BoundsAssumption

ProgramInv == /\ fn \in 1..NumFunctions
              /\ program \in Seq(Nests) /\ Len(program) = fn
              /\ CurrentLoop \in 0..Depth(fn)
              /\ place \in Placements(Depth(fn))

\* The sets are those of the loop the pass is on; nothing else is inserted.
SetsInv == /\ CurrentLoop = 0 => Classified = {}
           /\ CurrentLoop > 0 => /\ SSST_loads = OfClass("SSST", CurrentLoop)
                                 /\ PMST_loads = OfClass("PMST", CurrentLoop)
                                 /\ WSST_loads = OfClass("WSST", CurrentLoop)
           /\ inserted \subseteq Classified

\* The loads insertPrefetchInsts has been over.
Past(load) == \/ load.fn < fn
              \/ load.fn = fn /\ load.loop < CurrentLoop
              \/ load \in inserted

PrefetchType == [load : AllLoads, class : {"SSST", "PMST", "WSST"}, place : Places, K : 1..MaxK]

\* They have their prefetches, and no others.
PrefetchInv ==
  /\ prefetches \in Seq(PrefetchType)
  /\ \A i \in DOMAIN prefetches : /\ Past(prefetches[i].load)
                                  /\ Deserves(prefetches[i].load)
                                  /\ prefetches[i].class = Shape(prefetches[i].load).class
  /\ \A i, j \in DOMAIN prefetches : prefetches[i].load = prefetches[j].load => i = j
  /\ \A load \in AllLoads : Past(load) /\ Deserves(load) => PrefetchesOf(load) # {}

CountsInv == \A p \in DOMAIN instsPerLoopMap : instsPerLoopMap[p] \in Nat

PassInv == ProgramInv /\ SetsInv /\ PrefetchInv /\ CountsInv

-------------------------------------------------------------------------------
(* The shape of programs.                                                  *)

LEMMA NestType ==
  ASSUME NEW nest \in Nests
  PROVE  /\ Len(nest) \in Nat /\ DOMAIN nest = 1..Len(nest)
         /\ \A l \in 1..Len(nest) : /\ nest[l].shape \in LoopShapes
                                    /\ nest[l].loads \in LoopsOver(LoadShapes)
<1>1. PICK n \in 1..MaxDepth : nest \in [1..n -> [shape : LoopShapes, loads : LoopsOver(LoadShapes)]]
  BY DEF Nests
<1>2. Len(nest) = n /\ n \in Nat /\ DOMAIN nest = 1..n
  BY <1>1
<1> QED
  BY <1>1, <1>2

\* A function's loads keep their shapes when another function is appended.
LEMMA LoadsKept ==
  ASSUME ProgramInv, NEW nest \in Nests, program' = Append(program, nest), fn' = fn + 1
  PROVE  /\ \A f \in 1..fn : program'[f] = program[f]
         /\ program'[fn'] = nest
         /\ program' \in Seq(Nests) /\ Len(program') = fn'
  BY DEF ProgramInv

LEMMA LoadPlace ==
  ASSUME ProgramInv, NEW load \in AllLoads
  PROVE  /\ load.fn \in 1..fn /\ load.loop \in 1..Depth(load.fn)
         /\ load \in LoadsIn(load.fn, load.loop)
<1>0. PICK f \in 1..fn : \E l \in 1..Depth(f) : load \in LoadsIn(f, l)
  BY DEF AllLoads
<1>1. PICK l \in 1..Depth(f) : load \in LoadsIn(f, l)
  BY <1>0
<1>2. load.fn = f /\ load.loop = l
  BY <1>1 DEF LoadsIn
<1> QED
  BY <1>1, <1>2

-------------------------------------------------------------------------------
(* The classes.                                                            *)

\* The loads of the three sets are those of the loop that deserve a prefetch.
LEMMA ClassifiedDeserve ==
  ASSUME ProgramInv, SetsInv, CurrentLoop > 0
  PROVE  /\ \A load \in LoadsIn(fn, CurrentLoop) : load \in Classified <=> Deserves(load)
         /\ Classified \subseteq LoadsIn(fn, CurrentLoop)
         /\ \A load \in Classified : ClassOf(load) = Shape(load).class
  BY DEF SetsInv, Classified, OfClass, Visited, Profiled, Deserves, TripCount, LoadsIn, ClassOf

\* When the loop is done, all its loads that deserve a prefetch are behind.
LEMMA DoneIsPast ==
  ASSUME PassInv, LoopDone, NEW load \in AllLoads, Deserves(load),
         load.fn = fn, load.loop <= CurrentLoop
  PROVE  Past(load)
<1>1. load.loop \in Nat /\ load.loop > 0 /\ load \in LoadsIn(fn, load.loop) /\ CurrentLoop \in Nat
  BY LoadPlace DEF PassInv, ProgramInv, Depth
<1>2. CASE load.loop < CurrentLoop
  BY <1>2 DEF Past
<1>3. CASE load.loop = CurrentLoop
  BY <1>1, <1>3, ClassifiedDeserve DEF Past, LoopDone, PassInv
<1> QED
  BY <1>1, <1>2, <1>3

-------------------------------------------------------------------------------
(* The properties follow.                                                  *)

LEMMA PassInvSuffices == PassInv => PrefetchesExact
<1> SUFFICES ASSUME PassInv PROVE PrefetchesExact
  OBVIOUS
<1>2. ASSUME NEW load \in AllLoads
      PROVE  Cardinality(PrefetchesOf(load)) <= IF Deserves(load) THEN 1 ELSE 0
  <2>1. CASE PrefetchesOf(load) = {}
    BY <2>1, FS_EmptySet
  <2>2. CASE PrefetchesOf(load) # {}
    <3>1. PICK i \in DOMAIN prefetches : prefetches[i].load = load
      BY <2>2 DEF PrefetchesOf
    <3>2. PrefetchesOf(load) = {i}
      BY <3>1 DEF PrefetchesOf, PassInv, PrefetchInv
    <3>3. Cardinality(PrefetchesOf(load)) = 1
      BY <3>2, FS_Singleton
    <3> QED
      BY <3>1, <3>3 DEF PassInv, PrefetchInv
  <2> QED
    BY <2>1, <2>2
<1>3. ASSUME NEW load \in AllLoads, Finished, Deserves(load) PROVE PrefetchesOf(load) # {}
  <2>1. /\ load.fn \in 1..fn /\ load.loop \in 1..Depth(load.fn)
        /\ LoopDone /\ CurrentLoop = Depth(fn) /\ fn \in Nat
    BY <1>3, LoadPlace DEF Finished, PassInv, ProgramInv
  <2>2. Past(load)
    <3>1. CASE load.fn < fn
      BY <3>1 DEF Past
    <3>2. CASE load.fn = fn
      <4>1. load.loop <= CurrentLoop
        BY <2>1, <3>2 DEF PassInv, ProgramInv
      <4> QED
        BY <1>3, <2>1, <3>2, <4>1, DoneIsPast
    <3> QED
      BY <2>1, <3>1, <3>2
  <2> QED
    BY <1>3, <2>2 DEF PassInv, PrefetchInv
<1> QED
  BY <1>2, <1>3 DEF PrefetchesExact, PassInv, PrefetchInv

-------------------------------------------------------------------------------
LEMMA PassInvInit == Init => PassInv
<1> SUFFICES ASSUME Init PROVE PassInv
  OBVIOUS
<1>1. PICK nest \in Nests : program = <<nest>>
  BY DEF Init, NestsWithin
<1>2. ProgramInv
  BY <1>1, NestType DEF Init, ProgramInv, Depth
<1>3. SetsInv
  BY DEF Init, SetsInv, Classified
<1>4. PrefetchInv
  <2>1. ASSUME NEW load \in AllLoads PROVE ~Past(load)
    BY <1>2, LoadPlace DEF Init, Past
  <2> QED
    BY <2>1 DEF Init, PrefetchInv
<1>5. CountsInv
  BY DEF Init, CountsInv
<1> QED
  BY <1>2, <1>3, <1>4, <1>5 DEF PassInv

\* A step that inserts nothing keeps the prefetches exact, when the loads it leaves
\* behind that deserve a prefetch were behind before.
LEMMA NothingInserted ==
  ASSUME PassInv, ProgramInv', fn' >= fn,
         \A f \in 1..fn : program'[f] = program[f],
         UNCHANGED prefetches,
         \A load \in AllLoads : Past(load) => Past(load)',
         \A load \in AllLoads' : Past(load)' /\ Deserves(load)' => load.fn \in 1..fn /\ Past(load)
  PROVE  PrefetchInv'
<1>1. \A f \in 1..fn : f \in 1..fn' /\ Depth(f)' = Depth(f)
  BY DEF Depth, PassInv, ProgramInv
<1>2. \A f \in 1..fn : \A l : LoadsIn(f, l)' = LoadsIn(f, l)
  BY DEF LoadsIn
<1>3. AllLoads \subseteq AllLoads'
  BY <1>1, <1>2 DEF AllLoads
<1>4. \A load \in AllLoads : Shape(load)' = Shape(load) /\ Deserves(load)' = Deserves(load)
  BY LoadPlace DEF Shape, Deserves, PassInv
<1>5. \A load \in AllLoads' : load.fn \in 1..fn => load \in AllLoads
  <2> SUFFICES ASSUME NEW load \in AllLoads', load.fn \in 1..fn PROVE load \in AllLoads
    OBVIOUS
  <2>0. PICK f \in 1..fn' : \E l \in 1..(Depth(f)') : load \in LoadsIn(f, l)'
    BY DEF AllLoads
  <2>1. PICK l \in 1..(Depth(f)') : load \in LoadsIn(f, l)'
    BY <2>0
  <2>2. load.fn = f
    BY <2>1 DEF LoadsIn
  <2> QED
    BY <1>1, <1>2, <2>1, <2>2 DEF AllLoads
<1>6. \A load : PrefetchesOf(load)' = PrefetchesOf(load)
  BY DEF PrefetchesOf
<1>7. \A i \in DOMAIN prefetches : prefetches[i] \in PrefetchType /\ prefetches[i].load \in AllLoads
  <2>1. \A i \in DOMAIN prefetches : prefetches[i] \in PrefetchType
    BY DEF PassInv, PrefetchInv
  <2> QED
    BY <2>1 DEF PrefetchType
<1>8. prefetches' \in Seq(PrefetchType')
  <2>1. PrefetchType \subseteq PrefetchType'
    BY <1>3 DEF PrefetchType
  <2>2. prefetches \in Seq(PrefetchType)
    BY DEF PassInv, PrefetchInv
  <2> QED
    BY <2>1, <2>2
<1> QED
  BY <1>3, <1>4, <1>5, <1>6, <1>7, <1>8 DEF PassInv, PrefetchInv

LEMMA LoopStep == PassInv /\ runOnLoop => PassInv'
<1> SUFFICES ASSUME PassInv, runOnLoop PROVE PassInv'
  OBVIOUS
<1> USE DEF runOnLoop
<1>1. fn \in Nat /\ CurrentLoop \in Nat /\ CurrentLoop' = CurrentLoop + 1
  BY DEF PassInv, ProgramInv, Depth
<1>2. ProgramInv'
  BY <1>1 DEF PassInv, ProgramInv, Depth
<1>3. SetsInv'
  <2>1. \A cl : (OfClass(cl, CurrentLoop))' = OfClass(cl, CurrentLoop + 1)
    BY <1>1 DEF OfClass, Visited, Profiled, LoadsIn, Shape, TripCount
  <2>2. /\ SSST_loads' = OfClass("SSST", CurrentLoop)'
        /\ PMST_loads' = OfClass("PMST", CurrentLoop)'
        /\ WSST_loads' = OfClass("WSST", CurrentLoop)'
    BY <1>1, <2>1 DEF ClassifyLoads
  <2>3. CurrentLoop' > 0 /\ inserted' = {}
    BY <1>1
  <2> QED
    BY <2>2, <2>3 DEF SetsInv
<1>4. \A load \in AllLoads : Past(load) => Past(load)'
  <2> SUFFICES ASSUME NEW load \in AllLoads, load \in inserted
               PROVE  load.fn = fn /\ load.loop < CurrentLoop + 1
    BY <1>1, LoadPlace DEF Past, PassInv, Depth
  <2>1. CurrentLoop > 0
    BY <1>1 DEF PassInv, SetsInv
  <2> QED
    BY <1>1, <2>1, ClassifiedDeserve DEF PassInv, SetsInv, LoadsIn
<1>5. \A load \in AllLoads' : Past(load)' /\ Deserves(load)' => load.fn \in 1..fn /\ Past(load)
  <2>0. AllLoads' = AllLoads
    BY DEF AllLoads, Depth, LoadsIn
  <2>a. \A load : Deserves(load)' = Deserves(load)
    BY DEF Deserves, Shape
  <2> SUFFICES ASSUME NEW load \in AllLoads, Past(load)', Deserves(load)
               PROVE  load.fn \in 1..fn /\ Past(load)
    BY <2>0, <2>a
  <2>1. load.fn \in 1..fn /\ load.loop \in Nat
    BY LoadPlace DEF PassInv, Depth
  <2>2. load.fn < fn \/ (load.fn = fn /\ load.loop <= CurrentLoop)
    BY <1>1, <2>1 DEF Past
  <2> QED
    BY <2>1, <2>2, DoneIsPast DEF Past
<1>6. PrefetchInv'
  BY <1>1, <1>2, <1>4, <1>5, NothingInserted
<1> QED
  BY <1>2, <1>3, <1>6 DEF PassInv, CountsInv

LEMMA FunctionStep == PassInv /\ NextFunction => PassInv'
<1> SUFFICES ASSUME PassInv, NextFunction PROVE PassInv'
  OBVIOUS
<1> USE DEF NextFunction
<1>1. PICK nest \in Nests : program' = Append(program, nest)
  BY DEF NestsWithin
<1>2. /\ fn \in Nat /\ fn' = fn + 1 /\ fn' \in 1..NumFunctions
      /\ \A f \in 1..fn : program'[f] = program[f]
      /\ program' \in Seq(Nests) /\ Len(program') = fn' /\ program'[fn'] = nest
  BY <1>1, LoadsKept DEF PassInv, ProgramInv
<1>3. ProgramInv'
  BY <1>2, NestType DEF ProgramInv, Depth
<1>4. SetsInv'
  BY DEF SetsInv, Classified
<1>5. \A load \in AllLoads : Past(load) => Past(load)'
  BY <1>2, LoadPlace DEF Past, PassInv
<1>6. \A load \in AllLoads' : Past(load)' /\ Deserves(load)' => load.fn \in 1..fn /\ Past(load)
  <2> SUFFICES ASSUME NEW load \in AllLoads', Past(load)', Deserves(load)'
               PROVE  load.fn \in 1..fn /\ Past(load)
    OBVIOUS
  <2>0. PICK f \in 1..fn' : \E l \in 1..(Depth(f)') : load \in LoadsIn(f, l)'
    BY DEF AllLoads
  <2>1. PICK l \in 1..(Depth(f)') : load \in LoadsIn(f, l)'
    BY <2>0
  <2>2. load.fn = f /\ load.loop = l
    BY <2>1 DEF LoadsIn
  <2>3. f \in 1..fn /\ l \in Nat
    BY <1>2, <2>1, <2>2, NestType DEF Past, Depth
  <2>4. load \in AllLoads /\ Deserves(load) /\ l <= Depth(f)
    BY <1>2, <2>1, <2>2, <2>3 DEF AllLoads, LoadsIn, Depth, Deserves, Shape
  <2>5. CASE f < fn
    BY <2>2, <2>3, <2>5 DEF Past
  <2>6. CASE f = fn
    BY <2>2, <2>3, <2>4, <2>6, DoneIsPast
  <2> QED
    BY <1>2, <2>2, <2>3, <2>5, <2>6
<1>7. PrefetchInv'
  BY <1>2, <1>3, <1>5, <1>6, NothingInserted
<1> QED
  BY <1>3, <1>4, <1>7 DEF PassInv, CountsInv

-------------------------------------------------------------------------------
(* insertLoad.                                                             *)

\* The division of the latency by a count under it is one at least.
LEMMA DistanceBounds == ASSUME NEW total \in Nat, total # 0 PROVE KFor(total) \in 1..MaxK
<1>1. total < MEMORY_LATENCY => MEMORY_LATENCY \div total \in Nat /\ MEMORY_LATENCY \div total >= 1
  BY DEF MEMORY_LATENCY
<1> QED
  BY <1>1 DEF KFor, MaxK

LEMMA CountIsNatural ==
  ASSUME PassInv, CurrentLoop > 0
  PROVE  LoopInstructionCount(CurrentLoop) \in Nat /\ InstCount(CurrentLoop) \in Nat
<1>1. /\ program[fn] \in Nests /\ CurrentLoop \in 1..Len(program[fn])
  BY DEF PassInv, ProgramInv, Depth
<1>2. program[fn][CurrentLoop].shape \in LoopShapes
  BY <1>1, NestType
<1> DEFINE header == program[fn][CurrentLoop].shape.header
           body == program[fn][CurrentLoop].shape.body
<1>3. header \in Nat \ {0} /\ body \in Nat
  BY <1>2
<1>4. InstCount(CurrentLoop) = (header * body) % UIntRange
  BY DEF InstCount, PerIteration
<1> HIDE DEF header, body
<1>5. header * body \in Nat
  BY <1>3
<1>6. InstCount(CurrentLoop) \in Nat
  BY <1>4, <1>5
<1>7. InstCount(CurrentLoop) \div header \in Nat
  BY <1>3, <1>6
<1> QED
  BY <1>6, <1>7 DEF LoopInstructionCount, PassInv, CountsInv, header

LEMMA InsertStep ==
  ASSUME PassInv, NEW load \in Classified, insertLoad(load)
  PROVE  PassInv'
<1> USE DEF insertLoad
<1>1. CurrentLoop > 0 /\ CurrentLoop \in Nat /\ fn \in Nat
  BY DEF PassInv, SetsInv, ProgramInv, Depth
<1>2. /\ load \in LoadsIn(fn, CurrentLoop) /\ Deserves(load)
      /\ ClassOf(load) = Shape(load).class
  BY <1>1, ClassifiedDeserve DEF PassInv
<1>3. load.fn = fn /\ load.loop = CurrentLoop /\ load \in AllLoads
  BY <1>1, <1>2 DEF LoadsIn, AllLoads, PassInv, ProgramInv
<1>4. ~Past(load) /\ \A other : Past(other)' <=> Past(other) \/ other = load
  BY <1>1, <1>3 DEF Past
<1> DEFINE k == KFor(LoopInstructionCount(CurrentLoop))
           new == [load |-> load, class |-> ClassOf(load), place |-> place[CurrentLoop], K |-> k]
<1>5. new \in PrefetchType
  <2>1. k \in 1..MaxK
    BY <1>1, CountIsNatural, DistanceBounds
  <2>2. ClassOf(load) \in {"SSST", "PMST", "WSST"}
    BY DEF ClassOf
  <2>3. place[CurrentLoop] \in Places
    BY <1>1 DEF PassInv, ProgramInv, Placements
  <2> QED
    BY <1>3, <2>1, <2>2, <2>3 DEF PrefetchType
<1>6. ProgramInv' /\ SetsInv'
  <2>1. ProgramInv'
    BY DEF PassInv, ProgramInv, Depth
  <2>2. \A cl : OfClass(cl, CurrentLoop)' = OfClass(cl, CurrentLoop)
    BY DEF OfClass, Visited, Profiled, LoadsIn, Shape, TripCount
  <2>3. UNCHANGED <<SSST_loads, PMST_loads, WSST_loads>> /\ Classified' = Classified
    BY DEF sets, Classified
  <2>4. SetsInv'
    BY <2>2, <2>3 DEF PassInv, SetsInv
  <2> QED
    BY <2>1, <2>4
<1>7. CountsInv'
  BY <1>1, CountIsNatural DEF RememberCount, PassInv, CountsInv
<1>8. /\ AllLoads' = AllLoads
      /\ \A other : Deserves(other)' = Deserves(other) /\ Shape(other)' = Shape(other)
  <2>1. AllLoads' = AllLoads
    BY DEF AllLoads, Depth, LoadsIn
  <2>2. \A other : Deserves(other)' = Deserves(other) /\ Shape(other)' = Shape(other)
    BY DEF Deserves, Shape
  <2> QED
    BY <2>1, <2>2
<1>9. prefetches \in Seq(PrefetchType) /\ prefetches' = Append(prefetches, new)
  BY DEF PassInv, PrefetchInv
<1> DEFINE n == Len(prefetches)
<1> HIDE DEF k
<1>10. /\ n \in Nat /\ DOMAIN prefetches = 1..n
       /\ prefetches' \in Seq(PrefetchType) /\ DOMAIN prefetches' = 1..(n + 1)
       /\ prefetches'[n + 1] = new
       /\ \A i \in 1..n : prefetches'[i] = prefetches[i]
  BY <1>5, <1>9
<1> HIDE DEF n
<1>11. \A i \in 1..n : prefetches[i].load # load
  BY <1>4, <1>10 DEF PassInv, PrefetchInv
<1>12. \A i \in 1..(n + 1) : i \in 1..n \/ i = n + 1
  BY <1>10
<1>13. ASSUME NEW i \in 1..(n + 1)
       PROVE  /\ Past(prefetches[i].load)'
              /\ Deserves(prefetches[i].load)'
              /\ prefetches'[i].class = Shape(prefetches[i].load)'.class
  <2> DEFINE other == prefetches'[i].load
  <2>1. Past(other) \/ other = load
    BY <1>4, <1>10, <1>12 DEF PassInv, PrefetchInv
  <2>2. Deserves(other) /\ prefetches'[i].class = Shape(other).class
    <3>1. CASE i \in 1..n
      <4>1. prefetches'[i] = prefetches[i] /\ i \in DOMAIN prefetches
        BY <1>10, <3>1
      <4> QED
        BY <4>1 DEF PassInv, PrefetchInv
    <3>2. CASE i = n + 1
      <4>1. other = load /\ prefetches'[i].class = ClassOf(load)
        BY <1>10, <3>2
      <4> QED
        BY <1>2, <4>1
    <3> QED
      BY <1>12, <3>1, <3>2
  <2>3. Past(prefetches[i].load)'
    BY <1>3, <2>1 DEF Past
  <2> QED
    BY <2>2, <2>3 DEF Deserves, Shape
<1>14. ASSUME NEW i \in 1..(n + 1), NEW j \in 1..(n + 1),
              prefetches'[i].load = prefetches'[j].load
       PROVE  i = j
  <2>1. \A m \in 1..(n + 1) : prefetches'[m].load = load <=> m = n + 1
    BY <1>10, <1>11, <1>12
  <2>2. CASE i = n + 1 \/ j = n + 1
    BY <1>14, <2>1, <2>2
  <2>3. CASE i \in 1..n /\ j \in 1..n
    BY <1>10, <1>14, <2>3 DEF PassInv, PrefetchInv
  <2> QED
    BY <1>12, <2>2, <2>3
<1>15. ASSUME NEW other \in AllLoads, Past(other)', Deserves(other)
       PROVE  \E i \in 1..(n + 1) : prefetches'[i].load = other
  <2>1. CASE other = load
    BY <1>10, <2>1
  <2>2. CASE other # load
    <3>1. PICK i \in 1..n : prefetches[i].load = other
      BY <1>4, <1>10, <1>15, <2>2 DEF PassInv, PrefetchInv, PrefetchesOf
    <3> QED
      BY <1>10, <3>1
  <2> QED
    BY <2>1, <2>2
<1>16. PrefetchInv'
  <2>1. prefetches' \in Seq(PrefetchType')
    BY <1>8, <1>10 DEF PrefetchType
  <2>2. \A i \in DOMAIN prefetches' : /\ Past(prefetches[i].load)'
                                      /\ Deserves(prefetches[i].load)'
                                      /\ prefetches'[i].class = Shape(prefetches[i].load)'.class
    BY <1>10, <1>13
  <2>3. \A i, j \in DOMAIN prefetches' : prefetches'[i].load = prefetches'[j].load => i = j
    BY <1>10, <1>14
  <2>4. \A other \in AllLoads' : Past(other)' /\ Deserves(other)' => PrefetchesOf(other)' # {}
    BY <1>8, <1>10, <1>15 DEF PrefetchesOf
  <2> QED
    BY <2>1, <2>2, <2>3, <2>4 DEF PrefetchInv
<1> QED
  BY <1>6, <1>7, <1>16 DEF PassInv

LEMMA PassInvStep == PassInv /\ [Next]_vars => PassInv'
<1> SUFFICES ASSUME PassInv, [Next]_vars PROVE PassInv'
  OBVIOUS
<1>1. CASE UNCHANGED vars
  <2> USE <1>1 DEF vars, sets
  <2>1. /\ ProgramInv' = ProgramInv /\ AllLoads' = AllLoads /\ Classified' = Classified
        /\ CountsInv' = CountsInv
    BY DEF ProgramInv, AllLoads, Depth, LoadsIn, Classified, CountsInv
  <2>2. \A cl, l : OfClass(cl, l)' = OfClass(cl, l)
    BY DEF OfClass, Visited, Profiled, LoadsIn, Shape, TripCount
  <2>3. SetsInv'
    BY <2>1, <2>2 DEF PassInv, SetsInv
  <2>4. \A load : /\ Past(load)' = Past(load) /\ Shape(load)' = Shape(load)
                  /\ Deserves(load)' = Deserves(load) /\ PrefetchesOf(load)' = PrefetchesOf(load)
    BY DEF Past, Shape, Deserves, PrefetchesOf
  <2>5. PrefetchType' = PrefetchType
    BY <2>1 DEF PrefetchType
  <2>6. PrefetchInv'
    BY <2>1, <2>4, <2>5 DEF PassInv, PrefetchInv
  <2> QED
    BY <2>1, <2>3, <2>6 DEF PassInv
<1> QED
  BY <1>1, LoopStep, FunctionStep, InsertStep DEF Next

\* In every reachable state of the pass, what it has inserted matches the loads
\* it has looked at, and nothing of one function is left over in the next.
THEOREM PassInvariant == Spec => []PassInv
  BY PassInvInit, PassInvStep, PTL DEF Spec

-------------------------------------------------------------------------------
\* Over any functions and nests, every load that deserves a prefetch gets one, of its
\* class, and no other load does.
THEOREM PrefetchesExactCorrect == Spec => []PrefetchesExact
  BY PassInvariant, PassInvSuffices, PTL

-------------------------------------------------------------------------------
(* The distances.                                                          *)

\* The map has the places of the loops that got a prefetch; what it remembers of
\* one is long, since such a loop runs many times.
DistanceInv ==
  /\ DOMAIN instsPerLoopMap = {prefetches[i].place : i \in DOMAIN prefetches}
  /\ SumsFit => \A p \in DOMAIN instsPerLoopMap : instsPerLoopMap[p] >= MEMORY_LATENCY
  /\ DistanceLongEnough

\* A loop with a load in it has the load and a branch.
BodiesHoldALoad == \A s \in LoopShapes : s.body >= 2

\* The average of a sum.
LEMMA AverageOfSum ==
  ASSUME NEW n \in Nat \ {0}, NEW b \in Nat
  PROVE  (n * b) \div n = b
<1> DEFINE q == (n * b) \div n
           t == (n * b) % n
<1>1. n * b \in Int /\ q \in Int /\ t \in 0..(n - 1) /\ n * b = n * q + t
  OBVIOUS
<1> HIDE DEF q, t
<1>2. n * (b - q) = t
  BY <1>1
<1>3. b - q >= 1 => n * (b - q) >= n
  BY <1>1
<1>4. b - q <= -1 => n * (b - q) <= 0 - n
  BY <1>1
<1> QED
  BY <1>1, <1>2, <1>3, <1>4 DEF q

LEMMA LongestDistance ==
  ASSUME NEW total \in Nat, total >= MEMORY_LATENCY
  PROVE  KFor(total) = MaxK
  BY DEF KFor, MEMORY_LATENCY

\* What is known of the counts of the loop the pass inserts into.
LEMMA CountsOfLoop ==
  ASSUME PassInv, BodiesHoldALoad, SumsFit, NEW load \in Classified
  PROVE  LET l == CurrentLoop
             body == PerIteration(fn, l)
         IN  /\ l \in 1..Depth(fn) /\ fn \in 1..fn
             /\ load.fn = fn /\ load.loop = l
             /\ body \in Nat \ {0}
             /\ InstCount(l) \in Nat /\ InstCount(l) >= MEMORY_LATENCY
             /\ InstCount(l) \div program[fn][l].shape.header = body
<1> DEFINE l == CurrentLoop
           header == program[fn][l].shape.header
           preheader == program[fn][l].shape.preheader
           body == PerIteration(fn, l)
<1>1. l \in 1..Depth(fn) /\ fn \in 1..fn /\ l > 0
  BY DEF PassInv, SetsInv, ProgramInv, Depth
<1>2. load \in LoadsIn(fn, l) /\ Deserves(load)
  BY <1>1, ClassifiedDeserve DEF PassInv
<1>3. load.fn = fn /\ load.loop = l
  BY <1>2 DEF LoadsIn
<1>4. program[fn][l].shape \in LoopShapes
  BY <1>1, NestType DEF PassInv, ProgramInv, Depth
<1>5. header \in Nat \ {0} /\ preheader \in Nat \ {0} /\ body \in Nat /\ body >= 2
  BY <1>4 DEF BodiesHoldALoad, PerIteration
<1>6. header \div preheader > 100
  BY <1>2, <1>3 DEF Deserves, TT
<1>7. InstCount(l) = (header * body) % UIntRange /\ header * body < UIntRange
  BY <1>1 DEF InstCount, SumsFit
<1> HIDE DEF l, header, preheader, body
<1>8. header > 100
  <2> DEFINE q == header \div preheader
             t == header % preheader
  <2>1. q \in Int /\ t \in Nat /\ header = preheader * q + t /\ q > 100
    BY <1>5, <1>6
  <2> HIDE DEF q, t
  <2>2. preheader * q >= q
    BY <1>5, <2>1
  <2> QED
    BY <1>5, <2>1, <2>2
<1>9. header * body \in Nat /\ header * body >= 200
  <2>1. header * body >= header * 2
    BY <1>5
  <2> QED
    BY <1>5, <1>8, <2>1
<1>10. InstCount(l) = header * body
  <2> DEFINE m == header * body
  <2>1. m \in Nat /\ m < UIntRange
    BY <1>7, <1>9
  <2> HIDE DEF m
  <2>2. m % UIntRange = m
    BY <2>1
  <2> QED
    BY <1>7, <2>2 DEF m
<1>11. InstCount(l) \div header = body
  BY <1>5, <1>10, AverageOfSum
<1> QED
  BY <1>1, <1>3, <1>5, <1>9, <1>10, <1>11 DEF MEMORY_LATENCY, l, header, body

\* A step that inserts nothing.
LEMMA DistancesKept ==
  ASSUME PassInv, DistanceInv, fn' >= fn, fn' \in Nat,
         \A f \in 1..fn : program'[f] = program[f],
         UNCHANGED <<prefetches, instsPerLoopMap>>
  PROVE  DistanceInv'
<1>0. fn \in Nat
  BY DEF PassInv, ProgramInv
<1>1. SumsFit' => SumsFit
  <2> SUFFICES ASSUME SumsFit', NEW f \in 1..fn, NEW l \in 1..Depth(f)
               PROVE  program[f][l].shape.header * PerIteration(f, l) < UIntRange
    BY DEF SumsFit
  <2>1. f \in 1..fn' /\ program'[f] = program[f]
    BY <1>0
  <2>2. l \in 1..(Depth(f)')
    BY <2>1 DEF Depth
  <2>3. program'[f][l].shape.header * PerIteration(f, l)' < UIntRange
    BY <2>1, <2>2 DEF SumsFit
  <2> QED
    BY <2>1, <2>3 DEF PerIteration
<1>2. ASSUME NEW i \in DOMAIN prefetches
      PROVE  LET load == prefetches[i].load
             IN  PerIteration(load.fn, load.loop)' = PerIteration(load.fn, load.loop)
  <2>0. prefetches[i] \in PrefetchType
    BY DEF PassInv, PrefetchInv
  <2>1. prefetches[i].load \in AllLoads
    BY <2>0 DEF PrefetchType
  <2>2. prefetches[i].load.fn \in 1..fn
    BY <2>1, LoadPlace DEF PassInv
  <2> QED
    BY <2>2 DEF PerIteration
<1>3. \A i : Remembered(i)' = Remembered(i)
  BY DEF Remembered
<1>4. DistanceLongEnough'
  BY <1>1, <1>2, <1>3 DEF DistanceInv, DistanceLongEnough
<1> QED
  BY <1>1, <1>4 DEF DistanceInv

LEMMA DistanceInserted ==
  ASSUME PassInv, DistanceInv, BodiesHoldALoad, NEW load \in Classified, insertLoad(load)
  PROVE  DistanceInv'
<1> USE DEF insertLoad
<1> DEFINE n == Len(prefetches)
           l == CurrentLoop
           k == KFor(LoopInstructionCount(l))
           new == [load |-> load, class |-> ClassOf(load), place |-> place[l], K |-> k]
<1>1. /\ n \in Nat /\ DOMAIN prefetches = 1..n /\ DOMAIN prefetches' = 1..(n + 1)
      /\ prefetches'[n + 1] = new
      /\ \A i \in 1..n : prefetches'[i] = prefetches[i]
  <2>1. prefetches \in Seq(PrefetchType) /\ prefetches' = Append(prefetches, new)
    BY DEF PassInv, PrefetchInv
  <2> HIDE DEF k
  <2> QED
    BY <2>1
<1>2. /\ new.place = place[l] /\ new.load = load /\ new.K = k
  OBVIOUS
<1> HIDE DEF n, new
<1>3. /\ DOMAIN instsPerLoopMap' = DOMAIN instsPerLoopMap \cup {place[l]}
      /\ \A p \in DOMAIN instsPerLoopMap' :
            instsPerLoopMap'[p] = IF p \in DOMAIN instsPerLoopMap THEN instsPerLoopMap[p] ELSE InstCount(l)
  BY DEF RememberCount
<1>4. \A i \in 1..(n + 1) : i \in 1..n \/ i = n + 1
  BY <1>1
<1>5. DOMAIN instsPerLoopMap' = {prefetches'[i].place : i \in DOMAIN prefetches'}
  <2>1. {prefetches'[i].place : i \in 1..(n + 1)}
          = {prefetches[i].place : i \in 1..n} \cup {place[l]}
    BY <1>1, <1>2, <1>4
  <2> QED
    BY <1>1, <1>3, <2>1 DEF DistanceInv
<1>6. SumsFit' = SumsFit /\ \A f, m : PerIteration(f, m)' = PerIteration(f, m)
  BY DEF SumsFit, Depth, PerIteration
<1>7. ASSUME SumsFit
      PROVE  /\ \A p \in DOMAIN instsPerLoopMap' : instsPerLoopMap'[p] >= MEMORY_LATENCY
             /\ k >= KFor(PerIteration(load.fn, load.loop))
             /\ place[l] \notin DOMAIN instsPerLoopMap => k = KFor(PerIteration(load.fn, load.loop))
  <2>1. /\ l \in 1..Depth(fn) /\ load.fn = fn /\ load.loop = l
        /\ PerIteration(fn, l) \in Nat \ {0}
        /\ InstCount(l) \in Nat /\ InstCount(l) >= MEMORY_LATENCY
        /\ InstCount(l) \div program[fn][l].shape.header = PerIteration(fn, l)
    BY <1>7, CountsOfLoop
  <2>2. \A p \in DOMAIN instsPerLoopMap' : instsPerLoopMap'[p] >= MEMORY_LATENCY
    BY <1>3, <1>7, <2>1 DEF DistanceInv
  <2>3. KFor(PerIteration(fn, l)) \in 1..MaxK
    BY <2>1, DistanceBounds
  <2>4. CASE place[l] \in DOMAIN instsPerLoopMap
    <3>1. LoopInstructionCount(l) = instsPerLoopMap[place[l]]
      BY <2>4 DEF LoopInstructionCount
    <3>2. LoopInstructionCount(l) \in Nat /\ LoopInstructionCount(l) >= MEMORY_LATENCY
      BY <1>7, <2>4, <3>1 DEF DistanceInv, PassInv, CountsInv
    <3>3. k = MaxK
      BY <3>2, LongestDistance
    <3> QED
      BY <2>1, <2>2, <2>3, <2>4, <3>3 DEF MaxK
  <2>5. CASE place[l] \notin DOMAIN instsPerLoopMap
    <3>1. LoopInstructionCount(l) = PerIteration(fn, l)
      BY <2>1, <2>5 DEF LoopInstructionCount
    <3> QED
      BY <2>1, <2>2, <2>3, <3>1
  <2> QED
    BY <2>4, <2>5
<1> HIDE DEF k
<1>8. DistanceLongEnough'
  <2> SUFFICES ASSUME SumsFit, NEW i \in 1..(n + 1)
               PROVE  LET at    == prefetches'[i].load
                          right == KFor(PerIteration(at.fn, at.loop))
                      IN  /\ prefetches'[i].K >= right
                          /\ ~Remembered(i)' => prefetches'[i].K = right
    BY <1>1, <1>6 DEF DistanceLongEnough
  <2>1. CASE i \in 1..n
    <3>1. prefetches'[i] = prefetches[i] /\ \A j \in 1..(i - 1) : prefetches'[j] = prefetches[j]
      BY <1>1, <2>1
    <3>2. Remembered(i)' = Remembered(i)
      BY <3>1 DEF Remembered
    <3> QED
      BY <1>1, <2>1, <3>1, <3>2 DEF DistanceInv, DistanceLongEnough
  <2>2. CASE i = n + 1
    <3>1. ~Remembered(i)' => place[l] \notin DOMAIN instsPerLoopMap
      <4>1. \A j \in 1..n : j \in 1..(i - 1)
        BY <1>1, <2>2
      <4> QED
        BY <1>1, <1>2, <2>2, <4>1 DEF Remembered, DistanceInv
    <3> QED
      BY <1>1, <1>2, <1>7, <2>2, <3>1
  <2> QED
    BY <1>4, <2>1, <2>2
<1> QED
  BY <1>5, <1>6, <1>7, <1>8 DEF DistanceInv

LEMMA DistanceInvStep ==
  ASSUME BodiesHoldALoad
  PROVE  PassInv /\ DistanceInv /\ [Next]_vars => DistanceInv'
<1> SUFFICES ASSUME PassInv, DistanceInv, [Next]_vars PROVE DistanceInv'
  OBVIOUS
<1>0. fn \in Nat
  BY DEF PassInv, ProgramInv
<1>1. CASE runOnLoop \/ UNCHANGED vars
  BY <1>0, <1>1, DistancesKept DEF runOnLoop, vars
<1>2. CASE NextFunction
  <2>1. PICK nest \in Nests : program' = Append(program, nest)
    BY <1>2 DEF NextFunction, NestsWithin
  <2> QED
    BY <1>0, <1>2, <2>1, LoadsKept, DistancesKept DEF NextFunction, PassInv
<1>3. ASSUME NEW load \in Classified, insertLoad(load) PROVE DistanceInv'
  BY <1>3, DistanceInserted
<1> QED
  BY <1>1, <1>2, <1>3 DEF Next

\* getLoopInstructionCount and insertLoad: no distance is shorter than the body of the
\* loop calls for, and the first load of a loop at a new place gets just that one,
\* as long as the sums fit an unsigned int.
THEOREM DistanceLongEnoughCorrect ==
  ASSUME BodiesHoldALoad
  PROVE  Spec => []DistanceLongEnough
<1>1. Init => DistanceInv
  BY DEF Init, DistanceInv, DistanceLongEnough
<1>2. DistanceInv => DistanceLongEnough
  BY DEF DistanceInv
<1> QED
  BY <1>1, <1>2, PassInvariant, DistanceInvStep, PTL DEF Spec

-------------------------------------------------------------------------------
(* The inserted code: rounding K.                                          *)

\* Counting up to n reaches all of 0..n.
LEMMA CountingUp ==
  ASSUME NEW n \in Nat, NEW S, 0 \in S, \A i \in 1..n : i - 1 \in S => i \in S
  PROVE  0..n \subseteq S
<1> DEFINE missed == {i \in 0..n : i \notin S}
<1>1. SUFFICES ASSUME missed # {} PROVE FALSE
  OBVIOUS
<1>2. missed \subseteq Nat
  OBVIOUS
<1>3. PICK x \in missed : \A y \in missed : ~ (<<y, x>> \in OpToRel(<, Nat))
  <2> HIDE DEF missed
  <2> QED
    BY <1>1, <1>2, NatLessThanWellFounded, WFMin, Zenon
<1>4. x \in 0..n /\ x \notin S
  OBVIOUS
<1>5. \A y \in missed : ~ (y < x)
  <2> HIDE DEF missed
  <2> QED
    BY <1>2, <1>3 DEF OpToRel
<1>6. x # 0 /\ x \in 1..n /\ x - 1 \in 0..n /\ x - 1 < x
  BY <1>4
<1>7. x - 1 \notin missed
  BY <1>5, <1>6
<1>8. x - 1 \in S
  BY <1>6, <1>7
<1> QED
  BY <1>4, <1>6, <1>8

\* A function that each value gives the next of.
Runs(f, n, a, G) == /\ f \in [0..n -> Nat]
                    /\ f[0] = a
                    /\ \A i \in 1..n : f[i] = G[i][f[i - 1]]

LEMMA RunExists ==
  ASSUME NEW n \in Nat, NEW a \in Nat, NEW G \in [1..n -> [Nat -> Nat]]
  PROVE  \E f : Runs(f, n, a, G)
<1> DEFINE S == {m \in 0..n : \E f : Runs(f, m, a, G)}
<1>1. 0 \in S
  <2>1. Runs([i \in 0..0 |-> a], 0, a, G)
    BY DEF Runs
  <2> QED
    BY <2>1
<1>2. ASSUME NEW m \in 1..n, m - 1 \in S
      PROVE  m \in S
  <2>1. PICK f : Runs(f, m - 1, a, G)
    BY <1>2
  <2> DEFINE g == [i \in 0..m |-> IF i = m THEN G[m][f[m - 1]] ELSE f[i]]
  <2>2. f \in [0..(m - 1) -> Nat] /\ f[0] = a /\ \A i \in 1..(m - 1) : f[i] = G[i][f[i - 1]]
    BY <2>1 DEF Runs
  <2>3. G[m][f[m - 1]] \in Nat
    <3>1. m - 1 \in 0..(m - 1) /\ G[m] \in [Nat -> Nat]
      BY <1>2
    <3>2. f[m - 1] \in Nat
      BY <2>2, <3>1
    <3> QED
      BY <3>1, <3>2
  <2>4. \A i \in 0..m : i = m \/ i \in 0..(m - 1)
    BY <1>2
  <2>5. g \in [0..m -> Nat] /\ g[0] = a
    <3>1. \A i \in 0..m : (IF i = m THEN G[m][f[m - 1]] ELSE f[i]) \in Nat
      BY <2>2, <2>3, <2>4
    <3>2. 0 \in 0..m /\ 0 # m
      BY <1>2
    <3> QED
      BY <2>2, <3>1, <3>2
  <2>6. ASSUME NEW i \in 1..m
        PROVE  g[i] = G[i][g[i - 1]]
    <3>1. g[i - 1] = f[i - 1] /\ i \in 0..m
      <4>1. i - 1 \in 0..m /\ i - 1 # m /\ i \in 0..m
        BY <1>2
      <4> QED
        BY <4>1
    <3>2. CASE i = m
      BY <3>1, <3>2
    <3>3. CASE i # m
      <4>1. i \in 1..(m - 1)
        BY <1>2, <3>3
      <4>2. g[i] = f[i]
        BY <3>1, <3>3
      <4> HIDE DEF g
      <4> QED
        BY <2>2, <3>1, <4>1, <4>2
    <3> QED
      BY <3>2, <3>3
  <2>7. Runs(g, m, a, G)
    <3> HIDE DEF g
    <3> QED
      BY <2>5, <2>6 DEF Runs
  <2> QED
    BY <2>7
<1>3. 0..n \subseteq S
  <2> HIDE DEF S
  <2> QED
    BY <1>1, <1>2, CountingUp
<1>4. n \in S
  BY <1>3
<1> QED
  BY <1>4

\* The powers of two.
LEMMA Powers ==
  /\ Pow2[0] = 1
  /\ \A e \in 1..32 : Pow2[e] = 2 * Pow2[e - 1]
  /\ \A e \in 0..32 : Pow2[e] \in Nat \ {0}
<1> DEFINE Step(f) == [e \in 0..32 |-> IF e = 0 THEN 1 ELSE 2 * f[e - 1]]
           G == [i \in 1..32 |-> [x \in Nat |-> 2 * x]]
<1>1. G \in [1..32 -> [Nat -> Nat]]
  OBVIOUS
<1>2. PICK f : Runs(f, 32, 1, G)
  <2> HIDE DEF G
  <2> QED
    BY <1>1, RunExists
<1>3. f = Step(f)
  <2>1. f \in [0..32 -> Nat] /\ f[0] = 1 /\ \A e \in 1..32 : f[e] = G[e][f[e - 1]]
    BY <1>2 DEF Runs
  <2>2. \A e \in 1..32 : f[e] = 2 * f[e - 1]
    BY <2>1
  <2>3. \A e \in 0..32 : f[e] = IF e = 0 THEN 1 ELSE 2 * f[e - 1]
    BY <2>1, <2>2
  <2> QED
    BY <2>1, <2>3
<1>4. Pow2 = CHOOSE g : g = Step(g)
  BY DEF Pow2
<1>5. Pow2 = Step(Pow2)
  <2> HIDE DEF Step
  <2> QED
    BY <1>3, <1>4
<1>6. Pow2[0] = 1 /\ \A e \in 1..32 : Pow2[e] = 2 * Pow2[e - 1]
  <2> DEFINE p == Pow2
  <2>1. p = Step(p)
    BY <1>5
  <2> HIDE DEF p
  <2>2. p[0] = 1 /\ \A e \in 1..32 : p[e] = 2 * p[e - 1]
    BY <2>1
  <2> QED
    BY <2>2 DEF p
<1> DEFINE S == {e \in 0..32 : Pow2[e] \in Nat \ {0}}
<1>7. 0..32 \subseteq S
  <2>1. 0 \in S
    BY <1>6
  <2>2. ASSUME NEW e \in 1..32, e - 1 \in S
        PROVE  e \in S
    BY <1>6, <2>2
  <2> HIDE DEF S
  <2> QED
    BY <2>1, <2>2, CountingUp
<1> QED
  BY <1>6, <1>7

\* The halves of a number, of which Bits takes the odd ones.
Halves(h, n) == /\ h \in [0..31 -> Nat]
                /\ h[0] = n
                /\ \A b \in 1..31 : h[b] = h[b - 1] \div 2

LEMMA BitsAre ==
  ASSUME NEW n \in Nat
  PROVE  \E h : Halves(h, n) /\ Bits(n) = {b \in 0..31 : h[b] % 2 = 1}
<1> DEFINE Step(f) == [b \in 0..31 |-> IF b = 0 THEN n ELSE f[b - 1] \div 2]
           G == [i \in 1..31 |-> [x \in Nat |-> x \div 2]]
<1>1. G \in [1..31 -> [Nat -> Nat]]
  OBVIOUS
<1>2. PICK f : Runs(f, 31, n, G)
  <2> HIDE DEF G
  <2> QED
    BY <1>1, RunExists
<1>3. Halves(f, n)
  <2>1. f \in [0..31 -> Nat] /\ f[0] = n /\ \A e \in 1..31 : f[e] = G[e][f[e - 1]]
    BY <1>2 DEF Runs
  <2>2. \A e \in 1..31 : f[e] = f[e - 1] \div 2
    BY <2>1
  <2> QED
    BY <2>1, <2>2 DEF Halves
<1>4. f = Step(f)
  <2>1. \A e \in 0..31 : f[e] = IF e = 0 THEN n ELSE f[e - 1] \div 2
    BY <1>3 DEF Halves
  <2> QED
    BY <1>3, <2>1 DEF Halves
<1> DEFINE half == CHOOSE g : g = Step(g)
<1>5. half = Step(half)
  <2> HIDE DEF Step
  <2> QED
    BY <1>4
<1>6. Bits(n) = {b \in 0..31 : half[b] % 2 = 1}
  BY DEF Bits
<1> HIDE DEF half
<1>7. half[0] = n /\ \A b \in 1..31 : half[b] = half[b - 1] \div 2
  BY <1>5
<1> DEFINE S == {b \in 0..31 : half[b] \in Nat}
<1>8. 0..31 \subseteq S
  <2>1. 0 \in S
    BY <1>7
  <2>2. ASSUME NEW b \in 1..31, b - 1 \in S
        PROVE  b \in S
    BY <1>7, <2>2
  <2> HIDE DEF S
  <2> QED
    BY <2>1, <2>2, CountingUp
<1>9. half \in [0..31 -> Nat]
  <2>1. half = [b \in 0..31 |-> half[b]]
    BY <1>5
  <2> QED
    BY <1>8, <2>1
<1> QED
  BY <1>6, <1>7, <1>9 DEF Halves

\* A positive number of 32 bits has a highest bit, whose power of two it reaches
\* and whose double it does not.
LEMMA HighestBit ==
  ASSUME NEW n \in Nat, n > 0, n < Pow2[32]
  PROVE  \E t \in 0..31 : /\ t \in Bits(n) /\ Bits(n) \subseteq 0..t
                          /\ Pow2[t] <= n /\ n < Pow2[t + 1]
<1>1. PICK h : Halves(h, n) /\ Bits(n) = {b \in 0..31 : h[b] % 2 = 1}
  BY BitsAre
<1>2. h \in [0..31 -> Nat] /\ h[0] = n /\ \A b \in 1..31 : h[b] = h[b - 1] \div 2
  BY <1>1 DEF Halves
<1>3. \A b \in 1..31 : 2 * h[b] <= h[b - 1] /\ h[b - 1] <= 2 * h[b] + 1
  BY <1>2
\* Each half has a bit less.
<1> DEFINE S == {b \in 0..31 : h[b] < Pow2[32 - b]}
<1>4. 0..31 \subseteq S
  <2>1. 0 \in S
    BY <1>2
  <2>2. ASSUME NEW b \in 1..31, b - 1 \in S
        PROVE  b \in S
    <3>1. Pow2[33 - b] = 2 * Pow2[32 - b] /\ Pow2[32 - b] \in Nat
      <4>1. 33 - b \in 1..32 /\ 32 - b \in 0..32 /\ (33 - b) - 1 = 32 - b
        OBVIOUS
      <4> QED
        BY <4>1, Powers
    <3>2. h[b - 1] < Pow2[33 - b]
      <4>1. 32 - (b - 1) = 33 - b
        OBVIOUS
      <4> QED
        BY <2>2, <4>1
    <3>3. h[b] < Pow2[32 - b]
      BY <1>2, <1>3, <3>1, <3>2
    <3> QED
      BY <3>3
  <2> HIDE DEF S
  <2> QED
    BY <2>1, <2>2, CountingUp
<1>5. h[31] = 0 \/ h[31] = 1
  <2>1. h[31] < Pow2[1] /\ Pow2[1] = 2
    <3>1. 31 \in S
      BY <1>4
    <3> QED
      BY <3>1, Powers
  <2> QED
    BY <1>2, <2>1
\* t is the last before the halves are zero.
<1>6. \E t \in 0..31 : h[t] = 1 /\ \A b \in 0..31 : b > t => h[b] = 0
  <2>1. SUFFICES ASSUME ~ \E t \in 0..31 : h[t] = 1 /\ \A b \in 0..31 : b > t => h[b] = 0
                 PROVE  FALSE
    OBVIOUS
  <2> DEFINE T == {c \in 0..31 : \A b \in 0..31 : b >= 31 - c => h[b] = 0}
  <2>2. 0 \in T
    <3>1. h[31] = 0
      <4>1. \A b \in 0..31 : ~ (b > 31)
        OBVIOUS
      <4> QED
        BY <1>5, <2>1, <4>1
    <3>2. \A b \in 0..31 : b >= 31 - 0 => b = 31
      OBVIOUS
    <3> QED
      BY <3>1, <3>2
  <2>3. ASSUME NEW c \in 1..31, c - 1 \in T
        PROVE  c \in T
    <3> DEFINE t == 31 - c
    <3>1. t \in 0..30 /\ \A b \in 0..31 : b > t => h[b] = 0
      BY <2>3
    <3>2. h[t + 1] = 0 /\ h[t] <= 2 * h[t + 1] + 1 /\ h[t] \in Nat
      <4>1. t + 1 \in 1..31 /\ (t + 1) - 1 = t /\ t + 1 > t /\ t + 1 \in 0..31
        BY <3>1
      <4>2. h[t + 1] = 0
        BY <3>1, <4>1
      <4>3. h[(t + 1) - 1] <= 2 * h[t + 1] + 1
        BY <1>3, <4>1
      <4> HIDE DEF t
      <4> QED
        BY <1>2, <3>1, <4>1, <4>2, <4>3
    <3>3. h[t] # 1
      BY <2>1, <3>1
    <3> HIDE DEF t
    <3>4. h[t] = 0
      BY <3>2, <3>3
    <3>5. \A b \in 0..31 : b >= t => b = t \/ b > t
      BY <3>1
    <3>6. \A b \in 0..31 : b >= t => h[b] = 0
      BY <3>1, <3>4, <3>5
    <3> QED
      BY <3>6 DEF t
  <2>4. 0..31 \subseteq T
    <3> HIDE DEF T
    <3> QED
      BY <2>2, <2>3, CountingUp
  <2>5. 31 \in T
    BY <2>4
  <2>6. h[0] = 0
    BY <2>5
  <2> QED
    BY <1>2, <2>6
<1>7. PICK t \in 0..31 : h[t] = 1 /\ \A b \in 0..31 : b > t => h[b] = 0
  BY <1>6
<1>8. t \in Bits(n)
  BY <1>1, <1>7
<1>9. Bits(n) \subseteq 0..t
  <2>1. SUFFICES ASSUME NEW b \in 0..31, h[b] % 2 = 1 PROVE b \in 0..t
    BY <1>1
  <2>2. h[b] # 0
    BY <2>1
  <2> QED
    BY <1>7, <2>2
\* Going back down to n doubles, and may add one.
<1> DEFINE U == {j \in 0..31 : j <= t => Pow2[j] <= h[t - j] /\ h[t - j] < Pow2[j + 1]}
<1>10. 0..31 \subseteq U
  <2>1. 0 \in U
    <3>1. Pow2[0] = 1 /\ Pow2[0 + 1] = 2
      BY Powers
    <3> QED
      BY <1>7, <3>1
  <2>2. ASSUME NEW j \in 1..31, j - 1 \in U
        PROVE  j \in U
    <3>1. SUFFICES ASSUME j <= t
                   PROVE  Pow2[j] <= h[t - j] /\ h[t - j] < Pow2[j + 1]
      OBVIOUS
    <3> DEFINE b == t - j
    <3>2. b + 1 \in 1..31 /\ (b + 1) - 1 = b /\ b \in 0..31 /\ t - (j - 1) = b + 1
      BY <3>1
    <3>3. Pow2[j - 1] <= h[b + 1] /\ h[b + 1] < Pow2[j]
      <4>1. j - 1 <= t /\ (j - 1) + 1 = j
        BY <3>1
      <4> QED
        BY <2>2, <3>2, <4>1
    <3>4. 2 * h[b + 1] <= h[b] /\ h[b] <= 2 * h[b + 1] + 1 /\ h[b] \in Nat /\ h[b + 1] \in Nat
      BY <1>2, <1>3, <3>2
    <3>5. /\ Pow2[j] = 2 * Pow2[j - 1] /\ Pow2[j + 1] = 2 * Pow2[j]
          /\ Pow2[j - 1] \in Nat /\ Pow2[j] \in Nat
      <4>1. j \in 1..32 /\ j + 1 \in 1..32 /\ (j + 1) - 1 = j /\ j - 1 \in 0..32 /\ j \in 0..32
        OBVIOUS
      <4> QED
        BY <4>1, Powers
    <3> HIDE DEF b
    <3>6. Pow2[j] <= h[b] /\ h[b] < Pow2[j + 1]
      BY <3>3, <3>4, <3>5
    <3> QED
      BY <3>6 DEF b
  <2> HIDE DEF U
  <2> QED
    BY <2>1, <2>2, CountingUp
<1>11. Pow2[t] <= n /\ n < Pow2[t + 1]
  <2>1. t \in U /\ t - t = 0
    BY <1>10
  <2> QED
    BY <1>2, <2>1
<1> QED
  BY <1>8, <1>9, <1>11

\* Smeared, the bits up to the highest are all there.
LEMMA AllBelow ==
  ASSUME NEW S, NEW t \in 0..31, t \in S, S \subseteq 0..t
  PROVE  Smeared(Smeared(Smeared(Smeared(Smeared(S, 1), 2), 4), 8), 16) = 0..t
<1> DEFINE Has(T, w) == T \subseteq 0..t /\ \A b \in 0..t : b + w > t => b \in T
<1>1. Has(S, 1)
  OBVIOUS
<1>2. ASSUME NEW T, NEW w \in {1, 2, 4, 8, 16}, Has(T, w)
      PROVE  Has(Smeared(T, w), 2 * w)
  <2>1. \A b \in 0..31 : b + w \in T => b \in 0..t
    BY <1>2
  <2>2. Smeared(T, w) \subseteq 0..t
    BY <1>2, <2>1 DEF Smeared
  <2>3. ASSUME NEW b \in 0..t, b + 2 * w > t
        PROVE  b \in Smeared(T, w)
    <3>1. CASE b + w > t
      BY <1>2, <3>1 DEF Smeared
    <3>2. CASE b + w <= t
      <4>1. b + w \in 0..t /\ (b + w) + w > t /\ b \in 0..31
        BY <2>3, <3>2
      <4>2. b + w \in T
        BY <1>2, <4>1
      <4> QED
        BY <4>1, <4>2 DEF Smeared
    <3> QED
      BY <3>1, <3>2
  <2> QED
    BY <2>2, <2>3
<1> HIDE DEF Has
<1> DEFINE S1 == Smeared(S, 1)  S2 == Smeared(S1, 2)  S3 == Smeared(S2, 4)  S4 == Smeared(S3, 8)
           S5 == Smeared(S4, 16)
<1>3. Has(S1, 2)
  BY <1>1, <1>2
<1> HIDE DEF S1
<1>4. Has(S2, 4)
  BY <1>2, <1>3
<1> HIDE DEF S2
<1>5. Has(S3, 8)
  BY <1>2, <1>4
<1> HIDE DEF S3
<1>6. Has(S4, 16)
  BY <1>2, <1>5
<1> HIDE DEF S4
<1>7. Has(S5, 2 * 16)
  BY <1>2, <1>6
<1> HIDE DEF S5
<1>8. S5 = 0..t
  <2>1. \A b \in 0..t : b + 2 * 16 > t
    OBVIOUS
  <2>2. S5 \subseteq 0..t /\ \A b \in 0..t : b \in S5
    BY <1>7, <2>1 DEF Has
  <2> QED
    BY <2>2
<1> QED
  BY <1>8 DEF S1, S2, S3, S4, S5

\* The number a set of bits stands for, added up.
Adds(h, S) == /\ h \in [0..32 -> Nat]
              /\ h[0] = 0
              /\ \A i \in 1..32 : h[i] = 2 * h[i - 1] + IF 32 - i \in S THEN 1 ELSE 0

LEMMA NumberIs ==
  ASSUME NEW S
  PROVE  \E h : Adds(h, S) /\ Number(S) = h[32]
<1> DEFINE Bit(i) == IF 32 - i \in S THEN 1 ELSE 0
           Step(f) == [i \in 0..32 |-> IF i = 0 THEN 0 ELSE 2 * f[i - 1] + Bit(i)]
           G == [i \in 1..32 |-> [x \in Nat |-> 2 * x + Bit(i)]]
<1>1. G \in [1..32 -> [Nat -> Nat]]
  OBVIOUS
<1>2. PICK f : Runs(f, 32, 0, G)
  <2> HIDE DEF G
  <2> QED
    BY <1>1, RunExists
<1>3. f \in [0..32 -> Nat] /\ f[0] = 0 /\ \A i \in 1..32 : f[i] = 2 * f[i - 1] + Bit(i)
  <2>1. f \in [0..32 -> Nat] /\ f[0] = 0 /\ \A i \in 1..32 : f[i] = G[i][f[i - 1]]
    BY <1>2 DEF Runs
  <2>2. \A i \in 1..32 : G[i][f[i - 1]] = 2 * f[i - 1] + Bit(i)
    <3>1. \A i \in 1..32 : f[i - 1] \in Nat
      BY <2>1
    <3> HIDE DEF Bit
    <3> QED
      BY <3>1
  <2> QED
    BY <2>1, <2>2
<1>4. f = Step(f)
  <2>1. \A i \in 0..32 : f[i] = IF i = 0 THEN 0 ELSE 2 * f[i - 1] + Bit(i)
    <3> HIDE DEF Bit
    <3> QED
      BY <1>3
  <2> QED
    BY <1>3, <2>1
<1> DEFINE high == CHOOSE g : g = Step(g)
<1>5. high = Step(high)
  <2> HIDE DEF Step
  <2> QED
    BY <1>4
<1>6. Number(S) = high[32]
  BY DEF Number
<1> HIDE DEF high
<1>7. high[0] = 0 /\ \A i \in 1..32 : high[i] = 2 * high[i - 1] + Bit(i)
  <2> HIDE DEF Bit
  <2> QED
    BY <1>5
<1> DEFINE T == {i \in 0..32 : high[i] \in Nat}
<1>8. 0..32 \subseteq T
  <2>1. 0 \in T
    BY <1>7
  <2>2. ASSUME NEW i \in 1..32, i - 1 \in T
        PROVE  i \in T
    BY <1>7, <2>2
  <2> HIDE DEF T
  <2> QED
    BY <2>1, <2>2, CountingUp
<1>9. high \in [0..32 -> Nat]
  <2>1. high = [i \in 0..32 |-> high[i]]
    BY <1>5
  <2> QED
    BY <1>8, <2>1
<1> QED
  BY <1>6, <1>7, <1>9 DEF Adds

LEMMA NoBits == Number({}) = 0
<1>1. PICK h : Adds(h, {}) /\ Number({}) = h[32]
  BY NumberIs
<1>2. h[0] = 0 /\ \A i \in 1..32 : h[i] = 2 * h[i - 1] + 0
  BY <1>1 DEF Adds
<1> DEFINE T == {i \in 0..32 : h[i] = 0}
<1>3. 0..32 \subseteq T
  <2>1. 0 \in T /\ \A i \in 1..32 : i - 1 \in T => i \in T
    BY <1>2
  <2> HIDE DEF T
  <2> QED
    BY <2>1, CountingUp
<1>4. 32 \in T
  BY <1>3
<1> QED
  BY <1>1, <1>4

LEMMA AllBits ==
  ASSUME NEW t \in 0..31
  PROVE  Number(0..t) + 1 = Pow2[t + 1]
<1>1. PICK h : Adds(h, 0..t) /\ Number(0..t) = h[32]
  BY NumberIs
<1>2. /\ h \in [0..32 -> Nat] /\ h[0] = 0
      /\ \A i \in 1..32 : h[i] = 2 * h[i - 1] + IF 32 - i \in 0..t THEN 1 ELSE 0
  BY <1>1 DEF Adds
<1> DEFINE first == 31 - t
           T == {i \in 0..32 : IF i <= first THEN h[i] = 0 ELSE h[i] + 1 = Pow2[i - first]}
<1>3. 0..32 \subseteq T
  <2>1. 0 \in T
    BY <1>2
  <2>2. ASSUME NEW i \in 1..32, i - 1 \in T
        PROVE  i \in T
    <3>1. CASE i <= first
      <4>1. 32 - i \notin 0..t /\ i - 1 <= first
        BY <3>1
      <4>2. h[i - 1] = 0
        BY <2>2, <4>1
      <4>3. h[i] = 2 * h[i - 1] + 0
        BY <1>2, <4>1
      <4>4. h[i] = 0
        BY <4>2, <4>3
      <4> QED
        BY <3>1, <4>4
    <3>2. CASE i > first
      <4>1. 32 - i \in 0..t
        BY <3>2
      <4>2. h[i] = 2 * h[i - 1] + 1 /\ h[i - 1] \in Nat
        BY <1>2, <4>1
      <4>3. h[i - 1] + 1 = Pow2[(i - 1) - first]
        <5>1. CASE i - 1 <= first
          <6>1. h[i - 1] = 0 /\ (i - 1) - first = 0
            BY <2>2, <3>2, <5>1
          <6> QED
            BY <6>1, Powers
        <5>2. CASE i - 1 > first
          BY <2>2, <5>2
        <5> QED
          BY <5>1, <5>2
      <4>4. Pow2[i - first] = 2 * Pow2[(i - 1) - first]
        <5>1. i - first \in 1..32 /\ (i - first) - 1 = (i - 1) - first
          BY <3>2
        <5> QED
          BY <5>1, Powers
      <4>5. h[i] + 1 = Pow2[i - first]
        BY <4>2, <4>3, <4>4
      <4> QED
        BY <3>2, <4>5
    <3> QED
      BY <3>1, <3>2
  <2> HIDE DEF T
  <2> QED
    BY <2>1, <2>2, CountingUp
<1>4. 32 \in T /\ 32 - first = t + 1 /\ ~ (32 <= first)
  BY <1>3
<1> QED
  BY <1>1, <1>4

\* newK-- ... newK++, and log2: K is rounded up to a power of two, which is less
\* than twice K, for any K of up to 31 bits.
THEOREM RoundedUp ==
  ASSUME NEW k \in 1..Pow2[31]
  PROVE  /\ RoundUp(k) \in k..(2 * k - 1)
         /\ Log2(RoundUp(k)) \in 0..31 /\ Pow2[Log2(RoundUp(k))] = RoundUp(k)
<1>1. /\ Pow2[0] = 1 /\ \A e \in 1..32 : Pow2[e] = 2 * Pow2[e - 1]
      /\ \A e \in 0..32 : Pow2[e] \in Nat \ {0}
  BY Powers
<1>2. k \in Nat /\ k >= 1 /\ k <= Pow2[31] /\ Pow2[32] = 2 * Pow2[31] /\ Pow2[31] \in Nat
  BY <1>1
<1>3. \E e \in 0..31 : RoundUp(k) = Pow2[e] /\ k <= Pow2[e] /\ Pow2[e] <= 2 * k - 1
  <2>1. CASE k = 1
    <3>1. Bits(0) = {}
      <4>1. PICK h : Halves(h, 0) /\ Bits(0) = {b \in 0..31 : h[b] % 2 = 1}
        BY BitsAre
      <4>2. h[0] = 0 /\ \A b \in 1..31 : h[b] = h[b - 1] \div 2
        BY <4>1 DEF Halves
      <4> DEFINE T == {b \in 0..31 : h[b] = 0}
      <4>3. 0..31 \subseteq T
        <5>1. 0 \in T /\ \A b \in 1..31 : b - 1 \in T => b \in T
          BY <4>2
        <5> HIDE DEF T
        <5> QED
          BY <5>1, CountingUp
      <4> QED
        BY <4>1, <4>3
    <3>2. \A s : Smeared({}, s) = {}
      BY DEF Smeared
    <3>3. k - 1 = 0
      BY <2>1
    <3>4. RoundUp(k) = 1
      <4>1. Bits(k - 1) = {}
        BY <3>1, <3>3
      <4>2. Smeared(Smeared(Smeared(Smeared(Smeared({}, 1), 2), 4), 8), 16) = {}
        BY <3>2, Zenon
      <4>3. RoundUp(k) = Number({}) + 1
        BY <4>1, <4>2, Zenon DEF RoundUp
      <4> QED
        BY <4>3, NoBits
    <3> QED
      BY <1>1, <2>1, <3>4
  <2>2. CASE k > 1
    <3>1. k - 1 \in Nat /\ k - 1 > 0 /\ k - 1 < Pow2[32]
      BY <1>2, <2>2
    <3>2. PICK t \in 0..31 : /\ t \in Bits(k - 1) /\ Bits(k - 1) \subseteq 0..t
                             /\ Pow2[t] <= k - 1 /\ k - 1 < Pow2[t + 1]
      BY <3>1, HighestBit
    <3>3. RoundUp(k) = Pow2[t + 1]
      BY <3>2, AllBelow, AllBits DEF RoundUp
    <3>4. Pow2[t + 1] = 2 * Pow2[t] /\ Pow2[t] \in Nat
      <4>1. t + 1 \in 1..32 /\ (t + 1) - 1 = t
        OBVIOUS
      <4> QED
        BY <1>1, <4>1
    <3>5. k <= Pow2[t + 1] /\ Pow2[t + 1] <= 2 * k - 1
      BY <1>2, <3>2, <3>4
    <3>6. t # 31
      BY <1>2, <3>2
    <3> QED
      BY <3>3, <3>5, <3>6
  <2> QED
    BY <1>2, <2>1, <2>2
<1>4. PICK e \in 0..31 : RoundUp(k) = Pow2[e] /\ k <= Pow2[e] /\ Pow2[e] <= 2 * k - 1
  BY <1>3
<1>5. Log2(RoundUp(k)) \in 0..31 /\ Pow2[Log2(RoundUp(k))] = RoundUp(k)
  <2>1. \E d \in 0..31 : Pow2[d] = RoundUp(k)
    BY <1>4
  <2> HIDE DEF RoundUp
  <2> QED
    BY <2>1 DEF Log2
<1>6. RoundUp(k) \in Nat
  BY <1>1, <1>4
<1> QED
  BY <1>2, <1>4, <1>5, <1>6

-------------------------------------------------------------------------------
(* The inserted code: the addresses.                                       *)

LEMMA DivisionIs ==
  ASSUME NEW n \in Int, NEW M \in Nat \ {0}
  PROVE  /\ n \div M \in Int /\ n % M \in 0..(M - 1)
         /\ n = M * (n \div M) + (n % M)
  OBVIOUS

\* Numbers that differ by a multiple leave the same remainder.
LEMMA SameRemainder ==
  ASSUME NEW M \in Nat \ {0}, NEW m \in Int, NEW n \in Int, NEW q \in Int, m = n + M * q
  PROVE  m % M = n % M
<1> DEFINE a == m \div M  r == m % M  b == n \div M  s == n % M
<1>1. a \in Int /\ r \in 0..(M - 1) /\ m = M * a + r
  BY DivisionIs
<1>2. b \in Int /\ s \in 0..(M - 1) /\ n = M * b + s
  BY DivisionIs
<1> HIDE DEF a, r, b, s
<1> DEFINE d == (b + q) - a
<1>3. d \in Int /\ M * d = r - s
  <2>1. M * ((b + q) - a) = M * b + M * q - M * a
    BY <1>1, <1>2
  <2>2. {M * b, M * q, M * a} \subseteq Int
    BY <1>1, <1>2
  <2> QED
    BY <1>1, <1>2, <2>1, <2>2
<1> HIDE DEF d
<1>4. d >= 1 => M * d >= M
  BY <1>3
<1>5. d <= -1 => M * d <= 0 - M
  BY <1>3
<1>6. r = s
  BY <1>1, <1>2, <1>3, <1>4, <1>5
<1> QED
  BY <1>6 DEF r, s

\* An i32 keeps what remains of a number, through sums and products.
LEMMA Converted ==
  ASSUME NEW a \in Int
  PROVE  /\ Int32(a) \in 0..(2^IntWidth - 1)
         /\ \E q \in Int : Int32(a) = a + 2^IntWidth * q
         /\ a \in 0..(2^IntWidth - 1) => Int32(a) = a
<1> DEFINE M == 2^IntWidth
           b == a \div M
           r == a % M
<1>1. M \in Nat \ {0}
  BY WidthsAssumption
<1> HIDE DEF M
<1>2. b \in Int /\ r \in 0..(M - 1) /\ a = M * b + r
  BY <1>1, DivisionIs
<1> HIDE DEF b, r
<1>3. r = a + M * (0 - b)
  <2>1. M * (0 - b) = 0 - M * b /\ M * b \in Int
    BY <1>1, <1>2
  <2> QED
    BY <1>2, <2>1
<1>4. a \in 0..(M - 1) => r = a
  <2>1. b >= 1 => M * b >= M
    BY <1>1, <1>2
  <2>2. b <= -1 => M * b <= 0 - M
    BY <1>1, <1>2
  <2> QED
    BY <1>1, <1>2, <2>1, <2>2
<1> QED
  BY <1>2, <1>3, <1>4 DEF Int32, M, r

\* What insertPrefetch computes is the address meant, modulo the width.
LEMMA AlongDominantIs ==
  ASSUME NEW a \in Int, K \in Int, dominant_stride \in Int
  PROVE  AlongDominant(a) = Int32(a + K * dominant_stride)
<1> DEFINE p == K * dominant_stride
           M == 2^IntWidth
<1>1. M \in Nat \ {0}
  BY WidthsAssumption
<1>2. PICK q \in Int : Int32(a) = a + M * q
  BY Converted
<1>3. p \in Int
  OBVIOUS
<1> HIDE DEF p
<1>4. (Int32(a) + p) % M = (a + p) % M
  <2> HIDE DEF M
  <2>1. M * q \in Int
    BY <1>1
  <2>2. Int32(a) + p = (a + p) + M * q /\ a + p \in Int /\ Int32(a) + p \in Int
    BY <1>2, <1>3, <2>1
  <2> QED
    BY <1>1, <2>2, SameRemainder
<1> QED
  BY <1>4 DEF AlongDominant, Int32, M, p

LEMMA AlongStrideIs ==
  ASSUME NEW a \in Int, scratch \in Int, K \in 1..Pow2[31]
  PROVE  AlongStride(a) = Int32(a + RoundUp(K) * (a - scratch))
<1> DEFINE M == 2^IntWidth
           d == RoundUp(K)
<1>1. M \in Nat \ {0}
  BY WidthsAssumption
<1>2. PICK q \in Int : Int32(a) = a + M * q
  BY Converted
<1>3. PICK u \in Int : Int32(scratch) = scratch + M * u
  BY Converted
<1> DEFINE w == Int32(a) - Int32(scratch)
<1>4. w \in Int
  <2>1. M * q \in Int /\ M * u \in Int
    BY <1>1
  <2> QED
    BY <1>2, <1>3, <2>1
<1>5. PICK v \in Int : Int32(w) = w + M * v
  <2> HIDE DEF w
  <2> QED
    BY <1>4, Converted
<1>6. Pow2[31] \in Nat
  BY Powers
<1>7. d \in Int /\ Pow2[Log2(d)] = d
  <2>1. d \in K..(2 * K - 1) /\ Pow2[Log2(d)] = d
    BY RoundedUp
  <2> HIDE DEF d
  <2> QED
    BY <1>6, <2>1
<1> HIDE DEF d
<1> DEFINE e == q + (q - u + v) * d
<1>8. e \in Int
  BY <1>7
<1>9. Int32(a) + Int32(w) * d = (a + d * (a - scratch)) + M * e
  <2> DEFINE x == a - scratch
             y == q - u + v
  <2>1. M * q \in Int /\ M * u \in Int /\ M * v \in Int /\ M * y = M * q - M * u + M * v
    <3> HIDE DEF M
    <3> QED
      BY <1>1
  <2>2. Int32(w) = x + M * y
    <3>1. w = (a + M * q) - (scratch + M * u)
      BY <1>2, <1>3
    <3> HIDE DEF M, w
    <3> QED
      BY <1>5, <2>1, <3>1
  <2>3. x \in Int /\ y \in Int
    OBVIOUS
  <2> HIDE DEF x, y, M, w
  <2>4. (x + M * y) * d = d * x + M * (y * d) /\ d * x \in Int /\ M * (y * d) \in Int
    BY <1>1, <1>7, <2>3
  <2>5. M * (q + y * d) = M * q + M * (y * d) /\ M * q \in Int
    BY <1>1, <1>7, <2>3
  <2>6. Int32(a) + Int32(w) * d = (a + d * x) + M * (q + y * d)
    BY <1>2, <2>2, <2>4, <2>5
  <2> QED
    BY <2>6 DEF x, y
<1>10. (Int32(a) + Int32(w) * d) % M = (a + d * (a - scratch)) % M
  <2>1. a + d * (a - scratch) \in Int /\ M * e \in Int
    <3> HIDE DEF M, e
    <3> QED
      BY <1>1, <1>7, <1>8
  <2>2. Int32(a) + Int32(w) * d \in Int
    <3> DEFINE z == a + d * (a - scratch)
    <3> HIDE DEF M, e, w, z
    <3> QED
      BY <1>9, <2>1 DEF z
  <2> HIDE DEF M, e, w
  <2> QED
    BY <1>1, <1>8, <1>9, <2>1, <2>2, SameRemainder
<1> QED
  BY <1>7, <1>10 DEF AlongStride, Stride, Int32, M, w, d

-------------------------------------------------------------------------------
(* The inserted code: what is prefetched.                                  *)

\* The target is the address ahead, in the width the code computes in.
Congruent ==
  target # None =>
    /\ address # None
    /\ class = "SSST" \/ previous # None => target = Int32(Ahead)

\* The slot of a load with a stride of its own holds its last address.
CodeInv == /\ K \in Distances /\ dominant_stride \in DominantStrides
           /\ scratch \in LoadAddresses
           /\ {address, previous} \subseteq LoadAddresses \cup {None}
           /\ class # "SSST" /\ address # None => scratch = address
           /\ Congruent

LEMMA CodeConstants ==
  /\ LoadAddresses \subseteq Nat /\ DominantStrides \subseteq Int
  /\ Distances \subseteq 1..8 /\ Distances \subseteq 1..Pow2[31]
<1>1. Pow2[31] >= 8 /\ Pow2[31] \in Nat
  <2>1. /\ \A e \in 1..32 : Pow2[e] = 2 * Pow2[e - 1]
        /\ Pow2[0] = 1 /\ \A e \in 0..32 : Pow2[e] \in Nat \ {0}
    BY Powers
  <2>2. Pow2[1] = 2 /\ Pow2[2] = 4 /\ Pow2[3] = 8
    BY <2>1
  <2> DEFINE S == {e \in 0..28 : Pow2[e + 3] >= 8}
  <2>3. 0..28 \subseteq S
    <3>1. 0 \in S
      BY <2>2
    <3>2. ASSUME NEW e \in 1..28, e - 1 \in S
          PROVE  e \in S
      <4>1. e + 3 \in 1..32 /\ (e + 3) - 1 = (e - 1) + 3 /\ (e - 1) + 3 \in 0..32
        OBVIOUS
      <4>2. Pow2[e + 3] = 2 * Pow2[(e - 1) + 3] /\ Pow2[(e - 1) + 3] \in Nat
        BY <2>1, <4>1
      <4>3. Pow2[(e - 1) + 3] >= 8
        BY <3>2
      <4> QED
        BY <4>2, <4>3
    <3> HIDE DEF S
    <3> QED
      BY <3>1, <3>2, CountingUp
  <2>4. 28 \in S
    BY <2>3
  <2> QED
    BY <2>1, <2>4
<1>2. LoadAddresses \subseteq Nat
  BY LoadAddressesAssumption
<1> QED
  BY <1>1, <1>2, StridesAssumption, DistancesAssumption

LEMMA CodeInvInit == CodeInit => CodeInv
  BY DEF CodeInit, CodeInv, Congruent

LEMMA CodeInvStep == CodeInv /\ [CodeNext]_codeVars => CodeInv'
<1> SUFFICES ASSUME CodeInv, [CodeNext]_codeVars PROVE CodeInv'
  OBVIOUS
<1>1. CASE UNCHANGED codeVars
  BY <1>1 DEF codeVars, CodeInv, Congruent, Ahead, Int32
<1>2. CASE EnterFunction
  BY <1>2 DEF EnterFunction, CodeInv, Congruent
<1>3. ASSUME NEW addr \in LoadAddresses, Execute(addr)
      PROVE  CodeInv'
  <2>1. /\ target' = Target(addr) /\ previous' = address /\ address' = addr
        /\ scratch' = (IF class = "SSST" THEN scratch ELSE addr)
        /\ UNCHANGED <<class, K, dominant_stride>>
    BY <1>3 DEF Execute
  <2>2. addr \in Nat /\ addr # None /\ scratch \in Nat /\ K \in 1..8 /\ K \in 1..Pow2[31]
        /\ dominant_stride \in Int
    BY CodeConstants DEF CodeInv, None
  <2>3. ASSUME class = "SSST"
        PROVE  target' = Int32(addr + K * dominant_stride)
    <3>1. target' = AlongDominant(addr)
      BY <2>1, <2>3 DEF Target
    <3> QED
      BY <2>2, <3>1, AlongDominantIs
  <2>4. ASSUME class # "SSST", target' # None, address # None
        PROVE  target' = Int32(addr + RoundUp(K) * (addr - address))
    <3>1. target' = AlongStride(addr)
      BY <2>1, <2>4 DEF Target
    <3>2. target' = Int32(addr + RoundUp(K) * (addr - scratch))
      BY <2>2, <3>1, AlongStrideIs
    <3>3. scratch = address
      BY <2>4 DEF CodeInv
    <3> QED
      BY <3>2, <3>3
  <2>5. Congruent'
    <3>1. Ahead' = IF class = "SSST" THEN addr + K * dominant_stride
                                     ELSE addr + RoundUp(K) * (addr - address)
      BY <2>1 DEF Ahead
    <3>2. SUFFICES ASSUME target' # None, class = "SSST" \/ address # None
                   PROVE  target' = Int32(Ahead')
      BY <2>1, <2>2 DEF Congruent, Int32
    <3> QED
      BY <2>3, <2>4, <3>1, <3>2
  <2> QED
    BY <2>1, <2>5 DEF CodeInv
<1> QED
  BY <1>1, <1>2, <1>3 DEF CodeNext

\* Whatever the width of an address: the code prefetches the address ahead, as an
\* i32 can hold it.
THEOREM TargetsCongruent == CodeSpec => []Congruent
<1>1. CodeInv => Congruent
  BY DEF CodeInv
<1> QED
  BY <1>1, CodeInvInit, CodeInvStep, PTL DEF CodeSpec

\* Addresses are no wider than the integers they are converted to.
AddressesFit == 2^AddressWidth <= 2^IntWidth

\* insertSSST, insertPMST and insertWSST, where an i32 holds an address: a prefetch is
\* that of the address the load will reach if it goes on as it does, K dominant
\* strides ahead, or K to 2 K - 1 of the strides it just took.
THEOREM TargetsAheadCorrect ==
  ASSUME AddressesFit
  PROVE  CodeSpec => []TargetsAhead
<1>1. ASSUME NEW x \in Int, IsAddress(x)
      PROVE  Int32(x) = x
  <2>1. 2^AddressWidth \in Nat /\ 2^IntWidth \in Nat
    BY WidthsAssumption
  <2>2. x \in 0..(2^IntWidth - 1)
    BY <1>1, <2>1 DEF IsAddress, AddressesFit
  <2> QED
    BY <2>2, Converted
<1>2. ASSUME CodeInv
      PROVE  TargetsAhead
  <2>1. SUFFICES ASSUME target # None, class = "SSST" \/ previous # None
                 PROVE  /\ RoundUp(K) \in K..(2 * K - 1)
                        /\ IsAddress(Ahead) => target = Ahead
    BY DEF TargetsAhead
  <2>2. /\ address \in Int /\ previous \in Int /\ dominant_stride \in Int
        /\ K \in Int /\ K \in 1..Pow2[31]
    <3>1. LoadAddresses \cup {None} \subseteq Int
      BY CodeConstants DEF None
    <3>2. K \in Int /\ K \in 1..Pow2[31] /\ dominant_stride \in Int
      BY <1>2, CodeConstants DEF CodeInv
    <3> QED
      BY <1>2, <3>1, <3>2 DEF CodeInv
  <2>3. RoundUp(K) \in K..(2 * K - 1)
    BY <2>2, RoundedUp
  <2>4. target = Int32(Ahead)
    BY <1>2, <2>1 DEF CodeInv, Congruent
  <2>5. Ahead \in Int
    <3>1. RoundUp(K) \in Int
      BY <2>2, <2>3
    <3> DEFINE d == RoundUp(K)
    <3> HIDE DEF d
    <3>2. d \in Int
      BY <3>1 DEF d
    <3>3. address + K * dominant_stride \in Int /\ address + d * (address - previous) \in Int
      BY <2>2, <3>2
    <3> QED
      BY <3>3 DEF Ahead, d
  <2> QED
    BY <1>1, <2>3, <2>4, <2>5
<1>3. CodeSpec => []CodeInv
  BY CodeInvInit, CodeInvStep, PTL DEF CodeSpec
<1> QED
  BY <1>2, <1>3, PTL
===============================================================================
