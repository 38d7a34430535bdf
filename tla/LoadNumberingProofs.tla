-------------------------- MODULE LoadNumberingProofs --------------------------
(***************************************************************************)
(* Theorems about LoadNumbering, for any numbers of functions and of loads *)
(* in each: the instrumentation gives every selected load one hook with a  *)
(* number of its own, although doStrides goes over all loads again with    *)
(* each function; and an earlier run's lines are not read.                 *)
(***************************************************************************)
EXTENDS LoadNumbering, SequenceTheorems, FiniteSetTheorems, TLAPS

USE SizesAssumption, RadixAssumption

Programs == [Functions -> UNION {[1..n -> Kinds] : n \in 0..MaxLoads}]

\* The functions the first compilation has been through.
Seen == IF phase = "instrument" THEN function ELSE NumFunctions

ProgramInv == /\ program \in Programs
              /\ function \in 0..(NumFunctions - 1)
              /\ phase \in {"instrument", "run", "running", "number", "read"}

\* The loads of function f.
LoadSet(f) == {[fn |-> f, pos |-> k] : k \in DOMAIN program[f]}

\* The list has the loads of those functions, each of them once.
ListInv == /\ loadsToStride \in Seq(Loads)
           /\ \A i \in DOMAIN loadsToStride :
                 /\ loadsToStride[i].fn \in 1..Seen
                 /\ loadsToStride[i] \in LoadSet(loadsToStride[i].fn)
           /\ \A f \in 1..Seen : \A load \in LoadSet(f) :
                 \E i \in DOMAIN loadsToStride : loadsToStride[i] = load
           /\ \A i, j \in DOMAIN loadsToStride :
                 loadsToStride[i] = loadsToStride[j] => i = j

\* The numbers given are those up to load_id, and the hooks are on loads seen.
HooksInv == /\ load_id \in Int
            /\ \A call \in instrumented : /\ call = <<call[1], call[2]>>
                                          /\ call[1] \in Int /\ call[1] <= load_id
                                          /\ call[2].fn \in 1..Seen

\* Every load worth a hook in the functions seen has one.
HookedInv == \A f \in 1..Seen : \A load \in LoadSet(f) :
                KindOf(load).dynamic /\ KindOf(load).frequent =>
                  \E call \in instrumented : call[2] = load

NumberingInv == /\ ProgramInv /\ ListInv /\ HooksInv /\ HookedInv
                /\ IdsUnique /\ InstrumentedOnce

-------------------------------------------------------------------------------
LEMMA NumberingInvInit == Init => NumberingInv
<1> SUFFICES ASSUME Init PROVE NumberingInv
  OBVIOUS
<1> USE DEF Init, Programs, Seen, Loads, LoadSet
<1>1. ProgramInv /\ Seen = 0
  BY DEF ProgramInv
<1>2. ListInv /\ HooksInv /\ HookedInv
  BY <1>1 DEF ListInv, HooksInv, HookedInv
<1>3. IdsUnique /\ InstrumentedOnce
  BY DEF IdsUnique, InstrumentedOnce
<1> QED
  BY <1>1, <1>2, <1>3 DEF NumberingInv

LEMMA HooksExactFollows == NumberingInv => HooksExact
<1> SUFFICES ASSUME NumberingInv, phase # "instrument" PROVE NoneMissed
  BY DEF HooksExact, NumberingInv, NoneMissed
<1>1. Seen = NumFunctions
  BY DEF Seen
<1> QED
  BY <1>1 DEF NoneMissed, NumberingInv, HookedInv, LoadSet, KindOf, Functions

-------------------------------------------------------------------------------
\* The list `own` has the loads of f, and `list` those of other functions.
OtherLoads(list, own, f) ==
  /\ \A i \in DOMAIN list : list[i].fn # f
  /\ \A i, j \in DOMAIN list : list[i] = list[j] => i = j
  /\ \A k \in DOMAIN own : own[k] = [fn |-> f, pos |-> k]

\* The list `all` has those of both, each of them once.
BothLists(list, own, all) ==
  /\ all \in Seq(Loads)
  /\ \A i \in DOMAIN list : i \in DOMAIN all /\ all[i] = list[i]
  /\ \A k \in DOMAIN own : \E i \in DOMAIN all : all[i] = own[k]
  /\ \A i \in DOMAIN all : \/ i \in DOMAIN list /\ all[i] = list[i]
                           \/ \E k \in DOMAIN own : all[i] = own[k]
  /\ \A i, j \in DOMAIN all : all[i] = all[j] => i = j

LEMMA AppendLoads ==
  ASSUME NEW list \in Seq(Loads), NEW own \in Seq(Loads), NEW f, OtherLoads(list, own, f)
  PROVE  BothLists(list, own, list \o own)
<1> USE DEF OtherLoads
<1> DEFINE m == Len(list)
           n == Len(own)
           all == list \o own
<1>1. m \in Nat /\ DOMAIN list = 1..m /\ n \in Nat /\ DOMAIN own = 1..n
  OBVIOUS
<1>2. all \in Seq(Loads) /\ Len(all) = m + n /\ DOMAIN all = 1..(m + n)
  BY ConcatProperties
<1>3. \A i \in 1..(m + n) : all[i] = IF i <= m THEN list[i] ELSE own[i - m]
  BY ConcatProperties
<1> HIDE DEF m, n, all
<1>4. \A i \in 1..m : i \in 1..(m + n) /\ all[i] = list[i] /\ all[i].fn # f
  BY <1>1, <1>3
<1>5. \A k \in 1..n : m + k \in 1..(m + n) /\ all[m + k] = own[k]
  BY <1>1, <1>3
<1>6. \A i \in 1..(m + n) : i > m => /\ i - m \in 1..n /\ all[i] = own[i - m]
                                    /\ all[i].fn = f /\ all[i].pos = i - m
  <2> SUFFICES ASSUME NEW i \in 1..(m + n), i > m
               PROVE  /\ i - m \in 1..n /\ all[i] = own[i - m]
                      /\ all[i].fn = f /\ all[i].pos = i - m
    OBVIOUS
  <2>1. i - m \in 1..n /\ all[i] = own[i - m]
    BY <1>1, <1>3
  <2>2. own[i - m] = [fn |-> f, pos |-> i - m]
    BY <1>1, <2>1
  <2> QED
    BY <2>1, <2>2
<1>7. ASSUME NEW i \in 1..(m + n), NEW j \in 1..(m + n), all[i] = all[j] PROVE i = j
  <2>1. i \in 1..m <=> j \in 1..m
    BY <1>1, <1>4, <1>6, <1>7
  <2>2. CASE i \in 1..m
    BY <1>1, <1>4, <1>7, <2>1, <2>2
  <2>3. CASE i \notin 1..m
    <3>1. i > m /\ j > m
      BY <1>1, <2>1, <2>3
    <3>2. i - m = j - m
      BY <1>6, <1>7, <3>1
    <3> QED
      BY <1>1, <3>2
  <2> QED
    BY <2>2, <2>3
<1>8. \A i \in 1..(m + n) : \/ i \in 1..m /\ all[i] = list[i]
                            \/ \E k \in 1..n : all[i] = own[k]
  BY <1>1, <1>3, <1>6
<1>9. \A k \in DOMAIN own : \E i \in DOMAIN all : all[i] = own[k]
  BY <1>1, <1>2, <1>5
<1>10. \A i \in DOMAIN list : i \in DOMAIN all /\ all[i] = list[i]
  BY <1>1, <1>2, <1>4
<1>11. \A i \in DOMAIN all : \/ i \in DOMAIN list /\ all[i] = list[i]
                             \/ \E k \in DOMAIN own : all[i] = own[k]
  BY <1>1, <1>2, <1>8
<1>12. \A i, j \in DOMAIN all : all[i] = all[j] => i = j
  BY <1>2, <1>7
<1> QED
  BY <1>2, <1>9, <1>10, <1>11, <1>12 DEF BothLists, all

\* A function's loads are listed as the last ones, each of them once.
LEMMA ListStep ==
  ASSUME NumberingInv, runOnFunction
  PROVE  ProgramInv' /\ ListInv' /\ Seen = function /\ Seen' = function + 1
<1> USE DEF runOnFunction, Advance
<1> DEFINE f == function + 1
           own == LoadsOf(f)
<1>1. function \in Nat /\ f \in Functions /\ Seen = function
  BY DEF NumberingInv, ProgramInv, Functions, Seen
<1>2. ProgramInv'
  BY <1>1 DEF NumberingInv, ProgramInv, Functions
<1>3. Seen' = f
  BY <1>1 DEF Seen, Functions
<1>4. PICK n \in 0..MaxLoads : program[f] \in [1..n -> Kinds]
  BY <1>1 DEF NumberingInv, ProgramInv, Programs
<1>5. /\ DOMAIN program[f] = 1..n
      /\ own \in Seq(Loads) /\ DOMAIN own = 1..n
      /\ \A k \in 1..n : own[k] = [fn |-> f, pos |-> k]
  BY <1>1, <1>4 DEF LoadsOf, Loads, Functions
<1>6. \A i \in DOMAIN loadsToStride : loadsToStride[i].fn \in 1..function
  BY <1>1 DEF NumberingInv, ListInv
<1>7. /\ loadsToStride' \in Seq(Loads)
      /\ \A i \in DOMAIN loadsToStride : /\ i \in DOMAIN loadsToStride'
                                         /\ loadsToStride'[i] = loadsToStride[i]
      /\ \A k \in 1..n : \E i \in DOMAIN loadsToStride' : loadsToStride'[i] = own[k]
      /\ \A i \in DOMAIN loadsToStride' :
            \/ i \in DOMAIN loadsToStride /\ loadsToStride'[i] = loadsToStride[i]
            \/ \E k \in 1..n : loadsToStride'[i] = own[k]
      /\ \A i, j \in DOMAIN loadsToStride' : loadsToStride'[i] = loadsToStride'[j] => i = j
  <2>1. OtherLoads(loadsToStride, own, f)
    <3>1. \A i \in DOMAIN loadsToStride : loadsToStride[i].fn # f
      BY <1>1, <1>6
    <3>2. \A i, j \in DOMAIN loadsToStride : loadsToStride[i] = loadsToStride[j] => i = j
      BY DEF NumberingInv, ListInv
    <3>3. \A k \in DOMAIN own : own[k] = [fn |-> f, pos |-> k]
      BY <1>5
    <3> QED
      BY <3>1, <3>2, <3>3 DEF OtherLoads
  <2>2. loadsToStride \in Seq(Loads) /\ loadsToStride' = loadsToStride \o own
    BY DEF NumberingInv, ListInv
  <2>3. BothLists(loadsToStride, own, loadsToStride \o own)
    BY <1>5, <2>1, <2>2, AppendLoads
  <2>4. BothLists(loadsToStride, own, loadsToStride') /\ DOMAIN own = 1..n
    BY <1>5, <2>2, <2>3
  <2> HIDE DEF f, own
  <2> QED
    BY ONLY <2>4 DEF BothLists
<1>8. ASSUME NEW i \in DOMAIN loadsToStride'
      PROVE  /\ loadsToStride'[i].fn \in 1..f
             /\ loadsToStride'[i] \in LoadSet(loadsToStride'[i].fn)
  <2>1. CASE i \in DOMAIN loadsToStride /\ loadsToStride'[i] = loadsToStride[i]
    BY <1>1, <1>6, <2>1 DEF NumberingInv, ListInv
  <2>2. CASE \E k \in 1..n : loadsToStride'[i] = own[k]
    <3>1. PICK k \in 1..n : loadsToStride'[i] = [fn |-> f, pos |-> k]
      BY <1>5, <2>2
    <3>2. loadsToStride'[i].fn = f
      BY <3>1
    <3> QED
      BY <1>1, <1>5, <3>1, <3>2 DEF LoadSet
  <2> QED
    BY <1>7, <2>1, <2>2
<1>9. ASSUME NEW g \in 1..f, NEW load \in LoadSet(g)
      PROVE  \E i \in DOMAIN loadsToStride' : loadsToStride'[i] = load
  <2>1. CASE g = f
    <3>1. PICK k \in 1..n : load = own[k]
      BY <1>5, <2>1 DEF LoadSet
    <3> QED
      BY <1>7, <3>1
  <2>2. CASE g # f
    <3>1. PICK i \in DOMAIN loadsToStride : loadsToStride[i] = load
      BY <1>1, <2>2 DEF NumberingInv, ListInv
    <3> QED
      BY <1>7, <3>1
  <2> QED
    BY <2>1, <2>2
<1>10. program' = program
  OBVIOUS
<1>11. ListInv'
  <2>1. \A g : LoadSet(g)' = LoadSet(g)
    BY <1>10 DEF LoadSet
  <2>2. \A g \in 1..f : \A load \in LoadSet(g)' :
           \E i \in DOMAIN loadsToStride' : loadsToStride'[i] = load
    BY <1>9, <2>1
  <2>3. \A i \in DOMAIN loadsToStride' : /\ loadsToStride'[i].fn \in 1..f
                                         /\ loadsToStride'[i] \in LoadSet(loadsToStride[i].fn)'
    BY <1>8, <2>1
  <2> HIDE DEF f
  <2> QED
    BY <1>3, <1>7, <2>2, <2>3 DEF ListInv
<1> QED
  BY <1>1, <1>2, <1>3, <1>11

\* The hooks of one doStrides have new numbers, and are on the function's own loads.
LEMMA HooksStep ==
  ASSUME NumberingInv, runOnFunction
  PROVE  HooksInv' /\ HookedInv' /\ IdsUnique' /\ InstrumentedOnce'
<1> USE DEF runOnFunction, doStrides
<1> DEFINE f == function + 1
           list == loadsToStride'
           new == {<<load_id + i, list[i]>> : i \in {j \in DOMAIN list : Selected(list[j], f)}}
<1>1. ProgramInv' /\ ListInv' /\ Seen = function /\ Seen' = f
  BY ListStep
<1>2. function \in Nat /\ load_id \in Int /\ program' = program
  BY DEF NumberingInv, ProgramInv, HooksInv
<1>3. instrumented' = instrumented \cup new /\ load_id' = load_id + Len(list)
  OBVIOUS
<1>4. list \in Seq(Loads) /\ Len(list) \in Nat /\ DOMAIN list = 1..Len(list)
  BY <1>1 DEF ListInv
<1>5. ASSUME NEW call \in new
      PROVE  \E i \in DOMAIN list : /\ call = <<load_id + i, list[i]>>
                                    /\ Selected(list[i], f) /\ list[i].fn = f
  BY DEF Selected, isLoadDynamic
<1>6. ASSUME NEW call \in instrumented
      PROVE  /\ call = <<call[1], call[2]>> /\ call[1] \in Int /\ call[1] <= load_id
             /\ call[2].fn \in 1..function
  BY <1>1 DEF NumberingInv, HooksInv
<1>7. HooksInv'
  <2> SUFFICES ASSUME NEW call \in instrumented'
               PROVE  /\ call = <<call[1], call[2]>> /\ call[1] \in Int
                      /\ call[1] <= load_id + Len(list) /\ call[2].fn \in 1..f
    BY <1>1, <1>2, <1>3, <1>4 DEF HooksInv
  <2>1. CASE call \in instrumented
    BY <1>2, <1>4, <1>6, <2>1
  <2>2. CASE call \in new
    <3>1. PICK i \in 1..Len(list) : call = <<load_id + i, list[i]>> /\ list[i].fn = f
      BY <1>4, <1>5, <2>2
    <3> QED
      BY <1>2, <1>4, <3>1
  <2> QED
    BY <1>3, <2>1, <2>2
<1>8. IdsUnique'
  <2> SUFFICES ASSUME NEW a \in instrumented', NEW b \in instrumented', a[1] = b[1]
               PROVE  a = b
    BY DEF IdsUnique
  <2>1. CASE a \in instrumented /\ b \in instrumented
    BY <2>1 DEF NumberingInv, IdsUnique
  <2>2. \A c \in new : c[1] \in Int /\ c[1] > load_id
    BY <1>2, <1>4, <1>5
  <2>3. CASE a \in new /\ b \in new
    <3>1. PICK i \in DOMAIN list : a = <<load_id + i, list[i]>>
      BY <1>5, <2>3
    <3>2. PICK j \in DOMAIN list : b = <<load_id + j, list[j]>>
      BY <1>5, <2>3
    <3>3. load_id + i = load_id + j
      BY <3>1, <3>2
    <3>4. i = j
      BY <1>2, <1>4, <3>3
    <3> QED
      BY <3>1, <3>2, <3>4
  <2> QED
    BY <1>2, <1>3, <1>6, <2>1, <2>2, <2>3
<1>9. InstrumentedOnce'
  <2> SUFFICES ASSUME NEW a \in instrumented', NEW b \in instrumented', a[2] = b[2]
               PROVE  a = b
    BY DEF InstrumentedOnce
  <2>1. CASE a \in instrumented /\ b \in instrumented
    BY <2>1 DEF NumberingInv, InstrumentedOnce
  <2>2. \A c \in new : c[2].fn = f
    BY <1>5
  <2>3. CASE a \in new /\ b \in new
    <3>1. PICK i \in DOMAIN list : a = <<load_id + i, list[i]>>
      BY <1>5, <2>3
    <3>2. PICK j \in DOMAIN list : b = <<load_id + j, list[j]>>
      BY <1>5, <2>3
    <3>3. i = j
      BY <1>1, <3>1, <3>2 DEF ListInv
    <3> QED
      BY <3>1, <3>2, <3>3
  <2>4. \A c \in instrumented : c[2].fn # f
    BY <1>2, <1>6
  <2> QED
    BY <1>3, <2>1, <2>2, <2>3, <2>4
<1>10. HookedInv'
  <2> SUFFICES ASSUME NEW g \in 1..f, NEW load \in LoadSet(g),
                      KindOf(load).dynamic, KindOf(load).frequent
               PROVE  \E call \in instrumented' : call[2] = load
    BY <1>1, <1>2 DEF HookedInv, LoadSet, KindOf
  <2>1. CASE g = f
    <3>1. load.fn = f
      BY <2>1 DEF LoadSet
    <3>2. PICK i \in DOMAIN list : list[i] = load
      BY <1>1, <1>2, <2>1 DEF ListInv, LoadSet
    <3>3. <<load_id + i, list[i]>> \in new
      BY <3>1, <3>2 DEF Selected, isLoadDynamic
    <3> QED
      BY <1>3, <3>2, <3>3
  <2>2. CASE g # f
    <3>1. g \in 1..Seen
      BY <1>1, <1>2, <2>2
    <3> QED
      BY <1>3, <3>1 DEF NumberingInv, HookedInv
  <2> QED
    BY <2>1, <2>2
<1> QED
  BY <1>7, <1>8, <1>9, <1>10

-------------------------------------------------------------------------------
\* The profiling run and the second compilation change nothing of this.
LEMMA LaterSteps ==
  ASSUME NumberingInv, UNCHANGED <<program, loadsToStride, load_id, instrumented>>,
         ProgramInv', phase # "instrument" => phase' # "instrument",
         phase = "instrument" => phase' = "instrument" /\ function' = function
  PROVE  NumberingInv'
<1>1. Seen' = Seen
  BY DEF Seen
<1>2. ListInv'
  BY <1>1 DEF NumberingInv, ListInv, LoadSet
<1>3. HooksInv' /\ HookedInv'
  BY <1>1 DEF NumberingInv, HooksInv, HookedInv, LoadSet, KindOf
<1>4. IdsUnique' /\ InstrumentedOnce'
  BY DEF NumberingInv, IdsUnique, InstrumentedOnce
<1> QED
  BY <1>2, <1>3, <1>4 DEF NumberingInv

LEMMA NumberingInvStep == NumberingInv /\ [Next]_vars => NumberingInv'
<1> SUFFICES ASSUME NumberingInv, [Next]_vars PROVE NumberingInv'
  OBVIOUS
<1>1. CASE runOnFunction
  BY <1>1, ListStep, HooksStep DEF NumberingInv
<1>2. CASE ProfilingRun
  BY <1>2, LaterSteps DEF ProfilingRun, RunWithoutInit, Stride_init, EndWithoutHandlers,
     Stride_finish, numbering, NumberingInv, ProgramInv
<1>3. CASE NumberLoads
  <2>1. ProgramInv'
    BY <1>3 DEF NumberLoads, Advance, NumberingInv, ProgramInv
  <2> QED
    BY <1>3, <2>1, LaterSteps DEF NumberLoads, Advance
<1>4. CASE ReadLine
  BY <1>4, LaterSteps DEF ReadLine, NumberingInv, ProgramInv
<1>5. CASE UNCHANGED vars
  BY <1>5, LaterSteps DEF vars, numbering, NumberingInv, ProgramInv
<1> QED
  BY <1>1, <1>2, <1>3, <1>4, <1>5 DEF Next, Done

\* Every load worth profiling gets one hook call with a number no other has, over
\* any number of functions.
THEOREM HooksExactCorrect == Spec => []HooksExact
  BY NumberingInvInit, NumberingInvStep, HooksExactFollows, PTL DEF Spec

-------------------------------------------------------------------------------
\* Where the lines that are there come from.
FreshInv ==
  /\ phase \in {"instrument", "run"} => ~Stride_initialized
  /\ phase \in {"instrument", "run", "running", "number"} => LoadToLoadInfo = [load \in {} |-> 0]
  /\ Stride_initialized => \A line \in lines : line.fresh
  /\ Stride_initialized => \A load \in DOMAIN LoadToLoadInfo : LoadToLoadInfo[load].fresh

LEMMA FreshInvStep == FreshInv /\ [Next]_vars => FreshInv'
<1> SUFFICES ASSUME FreshInv, [Next]_vars PROVE FreshInv'
  OBVIOUS
<1> USE DEF FreshInv
<1>1. CASE runOnFunction
  BY <1>1 DEF runOnFunction, Advance, file
<1>2. CASE RunWithoutInit
  BY <1>2 DEF RunWithoutInit, numbering
<1>3. CASE Stride_init
  BY <1>3 DEF Stride_init, Opened, numbering
<1>4. CASE EndWithoutHandlers
  BY <1>4 DEF EndWithoutHandlers, numbering, file
<1>5. CASE Stride_finish
  <2>1. \A line \in lines' : line \in lines \/ line.fresh
    BY <1>5 DEF Stride_finish, WholeLine, CutLines, EndFragments
  <2> QED
    BY <1>5, <2>1 DEF Stride_finish, numbering
<1>6. CASE NumberLoads
  BY <1>6 DEF NumberLoads, Advance, file
<1>7. CASE ReadLine
  BY <1>7 DEF ReadLine
<1>8. CASE UNCHANGED vars
  BY <1>8 DEF vars, numbering, file
<1> QED
  BY <1>1, <1>2, <1>3, <1>4, <1>5, <1>6, <1>7, <1>8 DEF Next, Done, ProfilingRun

\* Once main was reached, no line of an earlier run is read, however this one ended.
THEOREM NothingStaleCorrect == Spec => []NothingStale
<1>1. Init => FreshInv
  BY DEF Init, FreshInv
<1>2. FreshInv => NothingStale
  BY DEF FreshInv, NothingStale
<1> QED
  BY <1>1, <1>2, FreshInvStep, PTL DEF Spec

-------------------------------------------------------------------------------
\* The functions the second compilation has been through.
Numbered == IF phase = "number" THEN function
            ELSE IF phase = "read" THEN NumFunctions ELSE 0

\* A list of the loads of the functions up to `last` begins with those of f, the
\* first function that has any.
BeginsWith(list, f, last) ==
  /\ last < f => list = <<>>
  /\ last >= f =>
       /\ Len(program[f]) <= Len(list)
       /\ \A i \in DOMAIN list : IF i <= Len(program[f]) THEN list[i] = [fn |-> f, pos |-> i]
                                                         ELSE list[i].fn # f

NumberedInv ==
  /\ phase \in {"run", "running"} => function = 0
  /\ LoadIdToLoadInst \in Seq(Loads)
  /\ \A i \in DOMAIN LoadIdToLoadInst : LoadIdToLoadInst[i].fn \in 1..Numbered
  /\ \A f \in Functions : IsFirstWithLoads(f) => /\ BeginsWith(loadsToStride, f, Seen)
                                                 /\ BeginsWith(LoadIdToLoadInst, f, Numbered)

\* Its loads have the numbers from 0 on, and other loads higher ones.
FirstHooks(f) ==
  /\ Seen < f => load_id = -1 /\ instrumented = {}
  /\ Seen >= f =>
       /\ load_id >= Len(program[f]) - 1
       /\ \A call \in instrumented :
             \/ \E k \in 1..Len(program[f]) : call = <<k - 1, [fn |-> f, pos |-> k]>>
             \/ call[1] >= Len(program[f]) /\ call[2].fn # f

FirstHooksInv == \A f \in Functions : IsFirstWithLoads(f) => FirstHooks(f)

Hooked  == {call[1] : call \in instrumented}
Taken   == {LoadToLoadInfo[load] : load \in DOMAIN LoadToLoadInfo}
AnyLine == lines \cup Taken

\* What lines there are, read or not.
LinesInv ==
  /\ phase \in {"instrument", "run", "running"} => lines = {} /\ printed = {}
  /\ phase # "read" => DOMAIN LoadToLoadInfo = {}
  /\ \A line \in AnyLine :
        /\ line.whole => /\ line.read = line.load_id
                         /\ line.fresh => line.load_id \in Hooked
        /\ printed # {} => line.fresh
  /\ \A a, b \in AnyLine : ~a.whole /\ ~b.whole => a = b
  /\ printed \subseteq Hooked
  /\ \A load \in DOMAIN LoadToLoadInfo : load = LoadFor(LoadToLoadInfo[load].read)

\* A number's line waits, or came to the number's load, or was hidden by the cut one.
Arrives(id) ==
  \/ WholeLine(id, TRUE) \in lines
  \/ /\ LoadFor(id) \in DOMAIN LoadToLoadInfo
     /\ LoadToLoadInfo[LoadFor(id)].load_id = id \/ ~LoadToLoadInfo[LoadFor(id)].whole

ArrivesInv ==
  phase \in {"number", "read"} =>
    \A f \in Functions : IsFirstWithLoads(f) =>
       \A id \in printed : Owner(id).fn = f => Arrives(id)

AttributionInv == NumberingInv /\ NumberedInv /\ FirstHooksInv /\ LinesInv /\ ArrivesInv

LEMMA OwnLoads ==
  ASSUME ProgramInv, NEW g \in Functions
  PROVE  /\ Len(program[g]) \in Nat /\ LoadsOf(g) \in Seq(Loads)
         /\ Len(LoadsOf(g)) = Len(program[g])
         /\ \A k \in 1..Len(program[g]) : LoadsOf(g)[k] = [fn |-> g, pos |-> k]
<1>1. PICK n \in 0..MaxLoads : program[g] \in [1..n -> Kinds]
  BY DEF ProgramInv, Programs
<1>2. Len(program[g]) = n /\ n \in Nat
  BY <1>1
<1> QED
  BY <1>1, <1>2 DEF LoadsOf, Loads

\* The loads of one more function at the end of the list.
LEMMA BeginsWithStep ==
  ASSUME ProgramInv, NEW f \in Functions, IsFirstWithLoads(f), NEW g \in Functions,
         NEW list \in Seq(Loads), BeginsWith(list, f, g - 1)
  PROVE  BeginsWith(list \o LoadsOf(g), f, g)
<1> DEFINE own == LoadsOf(g)
           all == list \o own
           m   == Len(list)
           n   == Len(program[g])
<1>1. /\ own \in Seq(Loads) /\ n \in Nat /\ Len(own) = n /\ m \in Nat /\ DOMAIN list = 1..m
      /\ \A k \in 1..n : own[k] = [fn |-> g, pos |-> k]
  BY OwnLoads
<1> HIDE DEF own
<1>2. /\ Len(all) = m + n /\ DOMAIN all = 1..(m + n)
      /\ \A i \in 1..(m + n) : all[i] = IF i <= m THEN list[i] ELSE own[i - m]
  <2>1. own \in Seq(Loads)
    BY <1>1
  <2>2. Len(all) = m + n /\ DOMAIN all = 1..(m + n)
    <3>1. all \in Seq(Loads) /\ Len(all) = Len(list) + Len(own)
      BY <2>1, ConcatProperties
    <3> QED
      BY <1>1, <3>1
  <2>3. \A i \in 1..(m + n) : all[i] = IF i <= m THEN list[i] ELSE own[i - m]
    BY <1>1, ConcatProperties
  <2> QED
    BY <2>2, <2>3
<1> HIDE DEF all
<1>3. f \in Nat /\ g \in Nat
  BY DEF Functions
<1>4. CASE g < f
  <2>1. list = <<>> /\ g - 1 < f
    BY <1>3, <1>4 DEF BeginsWith
  <2>2. m = 0 /\ n = 0
    BY <1>3, <1>4, <2>1 DEF IsFirstWithLoads, Functions
  <2>3. all = <<>>
    <3>1. all = list \o own /\ own = <<>>
      BY <1>1, <2>2 DEF all
    <3> QED
      BY <2>1, <3>1
  <2> QED
    BY <1>3, <1>4, <2>3 DEF BeginsWith, all, own
<1>5. CASE g = f
  <2>1. m = 0
    BY <1>3, <1>5 DEF BeginsWith
  <2>2. Len(all) = n /\ DOMAIN all = 1..n /\ \A i \in 1..n : all[i] = [fn |-> f, pos |-> i]
    BY <1>1, <1>2, <1>5, <2>1
  <2> QED
    BY <1>1, <1>3, <1>5, <2>2 DEF BeginsWith, all, own
<1>6. CASE g > f
  <2>1. /\ Len(program[f]) <= m
        /\ \A i \in 1..m : IF i <= Len(program[f]) THEN list[i] = [fn |-> f, pos |-> i]
                                                   ELSE list[i].fn # f
    BY <1>1, <1>3, <1>6 DEF BeginsWith
  <2>2. Len(program[f]) \in Nat
    BY OwnLoads
  <2>3. ASSUME NEW i \in 1..(m + n)
        PROVE  IF i <= Len(program[f]) THEN all[i] = [fn |-> f, pos |-> i] ELSE all[i].fn # f
    <3>1. CASE i <= m
      BY <1>1, <1>2, <2>1, <3>1
    <3>2. CASE ~(i <= m)
      <4>1. i - m \in 1..n /\ all[i] = [fn |-> g, pos |-> i - m] /\ ~(i <= Len(program[f]))
        BY <1>1, <1>2, <2>1, <2>2, <3>2
      <4>2. all[i].fn = g
        BY <4>1
      <4> QED
        BY <4>1, <4>2, <1>3, <1>6
    <3> QED
      BY <3>1, <3>2
  <2>4. Len(program[f]) <= Len(all)
    BY <1>1, <1>2, <2>1, <2>2
  <2> QED
    BY <1>2, <1>3, <1>6, <2>3, <2>4 DEF BeginsWith, all, own
<1> QED
  BY <1>3, <1>4, <1>5, <1>6

LEMMA FirstStays ==
  ASSUME program' = program
  PROVE  /\ \A f : IsFirstWithLoads(f)' <=> IsFirstWithLoads(f)
         /\ \A list, f, last : BeginsWith(list, f, last)' <=> BeginsWith(list, f, last)
  BY DEF IsFirstWithLoads, BeginsWith

\* The first compilation numbers the first function's loads from 0 on.
LEMMA InstrumentFirst ==
  ASSUME NumberingInv, NumberedInv, FirstHooksInv, runOnFunction,
         NEW f \in Functions, IsFirstWithLoads(f)
  PROVE  BeginsWith(loadsToStride', f, Seen') /\ FirstHooks(f)'
<1> DEFINE g    == function + 1
           list == loadsToStride'
           n    == Len(program[f])
<1>1. /\ ProgramInv /\ Seen = function /\ Seen' = g /\ g \in Functions /\ g - 1 = Seen
      /\ g \in Nat /\ f \in Nat /\ list \in Seq(Loads) /\ load_id \in Int /\ program' = program
  BY ListStep DEF NumberingInv, ProgramInv, ListInv, HooksInv, runOnFunction, Functions
<1>2. BeginsWith(list, f, g)
  <2>1. list = loadsToStride \o LoadsOf(g) /\ loadsToStride \in Seq(Loads)
    BY DEF runOnFunction, NumberingInv, ListInv
  <2>2. BeginsWith(loadsToStride, f, g - 1)
    BY <1>1 DEF NumberedInv
  <2> QED
    BY <1>1, <2>1, <2>2, BeginsWithStep
<1>3. n \in Nat
  BY <1>1, OwnLoads
<1>4. /\ load_id' = load_id + Len(list)
      /\ instrumented' = instrumented \cup
           {<<load_id + i, list[i]>> : i \in {j \in DOMAIN list : Selected(list[j], g)}}
  BY DEF runOnFunction, doStrides
<1>5. FirstHooks(f)
  BY DEF FirstHooksInv
<1>6. Len(list) \in Nat /\ DOMAIN list = 1..Len(list)
  BY <1>1
<1> HIDE DEF list
<1>7. ASSUME NEW call \in instrumented'
      PROVE  \/ call \in instrumented
             \/ \E i \in DOMAIN list : call = <<load_id + i, list[i]>> /\ list[i].fn = g
  BY <1>4 DEF Selected, isLoadDynamic
<1>8. CASE g < f
  <2>1. list = <<>>
    BY <1>2, <1>8 DEF BeginsWith
  <2>2. Len(list) = 0 /\ DOMAIN list = {}
    BY <2>1
  <2>3. load_id = -1 /\ instrumented = {}
    BY <1>1, <1>5, <1>8 DEF FirstHooks
  <2> QED
    BY <1>1, <1>2, <1>4, <1>8, <2>2, <2>3 DEF FirstHooks, list
<1>9. CASE g >= f
  <2>1. /\ n <= Len(list)
        /\ \A i \in DOMAIN list : IF i <= n THEN list[i] = [fn |-> f, pos |-> i]
                                            ELSE list[i].fn # f
    BY <1>2, <1>9 DEF BeginsWith
  <2>2. load_id >= -1 /\ load_id' >= n - 1
    BY <1>1, <1>3, <1>4, <1>5, <1>6, <1>9, <2>1 DEF FirstHooks
  <2>3. ASSUME NEW call \in instrumented'
        PROVE  \/ \E k \in 1..n : call = <<k - 1, [fn |-> f, pos |-> k]>>
               \/ call[1] >= n /\ call[2].fn # f
    <3>1. CASE call \in instrumented
      <4>1. Seen >= f
        BY <1>1, <1>5, <3>1 DEF FirstHooks
      <4> QED
        BY <1>5, <3>1, <4>1 DEF FirstHooks
    <3>2. CASE \E i \in DOMAIN list : call = <<load_id + i, list[i]>> /\ list[i].fn = g
      <4>1. PICK i \in 1..Len(list) : call = <<load_id + i, list[i]>> /\ list[i].fn = g
        BY <1>6, <3>2
      <4>2. CASE g = f
        <5>1. load_id = -1 /\ i <= n
          BY <1>1, <1>5, <1>6, <2>1, <4>1, <4>2 DEF FirstHooks
        <5>2. i \in 1..n /\ load_id + i = i - 1 /\ list[i] = [fn |-> f, pos |-> i]
          BY <1>3, <1>6, <2>1, <5>1
        <5> QED
          BY <4>1, <5>2
      <4>3. CASE g # f
        <5>1. load_id >= n - 1
          BY <1>1, <1>5, <1>9, <4>3 DEF FirstHooks
        <5>2. call[1] = load_id + i /\ call[2].fn = g
          BY <4>1
        <5> QED
          BY <1>1, <1>3, <4>1, <4>3, <5>1, <5>2
      <4> QED
        BY <4>2, <4>3
    <3> QED
      BY <1>7, <3>1, <3>2
  <2> QED
    BY <1>1, <1>2, <1>9, <2>2, <2>3 DEF FirstHooks, list
<1> QED
  BY <1>1, <1>8, <1>9

LEMMA NumberedStep == NumberingInv /\ NumberedInv /\ FirstHooksInv /\ [Next]_vars => NumberedInv'
<1> SUFFICES ASSUME NumberingInv, NumberedInv, FirstHooksInv, [Next]_vars PROVE NumberedInv'
  OBVIOUS
<1>1. CASE runOnFunction
  <2>1. program' = program /\ LoadIdToLoadInst' = LoadIdToLoadInst /\ phase = "instrument"
        /\ Numbered = 0 /\ Numbered' = 0 /\ (phase' \in {"run", "running"} => function' = 0)
    BY <1>1 DEF runOnFunction, Advance, Numbered
  <2>2. ASSUME NEW f \in Functions, IsFirstWithLoads(f)'
        PROVE  BeginsWith(loadsToStride, f, Seen)' /\ BeginsWith(LoadIdToLoadInst, f, Numbered)'
    <3>1. IsFirstWithLoads(f)
      BY <2>1, <2>2, FirstStays
    <3>2. BeginsWith(loadsToStride', f, Seen') /\ BeginsWith(LoadIdToLoadInst, f, Numbered)
      BY <1>1, <3>1, InstrumentFirst DEF NumberedInv
    <3> QED
      BY <2>1, <3>2 DEF BeginsWith
  <2> QED
    BY <2>1, <2>2 DEF NumberedInv
<1>2. CASE ProfilingRun
  <2>1. /\ UNCHANGED numbering /\ phase \in {"run", "running"} /\ phase' \in {"running", "number"}
        /\ function = 0
    BY <1>2 DEF ProfilingRun, RunWithoutInit, Stride_init, EndWithoutHandlers, Stride_finish,
       numbering, NumberedInv
  <2>2. Numbered = 0 /\ Numbered' = 0 /\ Seen' = Seen
    BY <2>1 DEF Numbered, Seen, numbering
  <2> QED
    BY <2>1, <2>2, FirstStays DEF NumberedInv, numbering, BeginsWith
<1>3. CASE NumberLoads
  <2> DEFINE g == function + 1
  <2>1. /\ program' = program /\ loadsToStride' = loadsToStride /\ phase = "number"
        /\ phase' \in {"number", "read"}
        /\ LoadIdToLoadInst' = LoadIdToLoadInst \o LoadsOf(g)
        /\ ProgramInv /\ g \in Functions /\ function \in Nat
        /\ LoadIdToLoadInst \in Seq(Loads)
        /\ \A i \in DOMAIN LoadIdToLoadInst : LoadIdToLoadInst[i].fn \in 1..function
    BY <1>3 DEF NumberLoads, Advance, NumberingInv, ProgramInv, NumberedInv, Numbered, Functions
  <2>2. Numbered = function /\ Numbered' = g /\ Seen' = Seen
    BY <1>3, <2>1 DEF NumberLoads, Advance, Numbered, Seen
  <2>3. /\ LoadsOf(g) \in Seq(Loads)
        /\ \A k \in DOMAIN LoadsOf(g) : LoadsOf(g)[k].fn = g
    <3>1. LoadsOf(g) \in Seq(Loads)
      BY <2>1, OwnLoads
    <3>2. \A k \in DOMAIN LoadsOf(g) : LoadsOf(g)[k].fn = g
      BY DEF LoadsOf
    <3> QED
      BY <3>1, <3>2
  <2>4. LoadIdToLoadInst' \in Seq(Loads)
    BY <2>1, <2>3, ConcatProperties
  <2>5. ASSUME NEW i \in DOMAIN LoadIdToLoadInst'
        PROVE  LoadIdToLoadInst'[i].fn \in 1..g
    <3> DEFINE own == LoadsOf(g)
               list == LoadIdToLoadInst
    <3>1. own \in Seq(Loads) /\ list \in Seq(Loads)
      BY <2>1, <2>3
    <3> HIDE DEF own, list
    <3>2. /\ Len(list \o own) = Len(list) + Len(own)
          /\ \A j \in 1..(Len(list) + Len(own)) :
                (list \o own)[j] = IF j <= Len(list) THEN list[j] ELSE own[j - Len(list)]
      BY <3>1, ConcatProperties
    <3>3. /\ list \o own \in Seq(Loads) /\ Len(list) \in Nat /\ Len(own) \in Nat
          /\ DOMAIN list = 1..Len(list) /\ DOMAIN own = 1..Len(own)
      BY <3>1
    <3>4. i \in 1..(Len(list) + Len(own))
      BY <2>1, <3>2, <3>3 DEF list, own
    <3>5. IF i <= Len(list) THEN i \in DOMAIN list ELSE i - Len(list) \in DOMAIN own
      BY <3>3, <3>4
    <3>6. LoadIdToLoadInst'[i] = IF i <= Len(list) THEN list[i] ELSE own[i - Len(list)]
      BY <2>1, <3>2, <3>4 DEF list, own
    <3> QED
      BY <2>1, <2>3, <3>5, <3>6 DEF list, own
  <2>6. ASSUME NEW f \in Functions, IsFirstWithLoads(f)'
        PROVE  BeginsWith(loadsToStride, f, Seen)' /\ BeginsWith(LoadIdToLoadInst, f, Numbered)'
    <3>1. IsFirstWithLoads(f)
      BY <2>1, <2>6, FirstStays
    <3>2. BeginsWith(loadsToStride, f, Seen) /\ BeginsWith(LoadIdToLoadInst, f, g - 1)
      BY <2>1, <2>2, <3>1 DEF NumberedInv
    <3>3. BeginsWith(LoadIdToLoadInst', f, g)
      BY <2>1, <3>1, <3>2, BeginsWithStep
    <3> QED
      BY <2>1, <2>2, <3>2, <3>3 DEF BeginsWith
  <2> HIDE DEF g
  <2> QED
    BY <2>1, <2>2, <2>4, <2>5, <2>6 DEF NumberedInv
<1>4. CASE ReadLine \/ UNCHANGED vars
  <2>1. UNCHANGED <<program, phase, function, loadsToStride, LoadIdToLoadInst>>
    BY <1>4 DEF ReadLine, vars, numbering
  <2>2. Numbered' = Numbered /\ Seen' = Seen
    BY <2>1 DEF Numbered, Seen
  <2> QED
    BY <2>1, <2>2, FirstStays DEF NumberedInv, BeginsWith
<1> QED
  BY <1>1, <1>2, <1>3, <1>4 DEF Next, Done

LEMMA FirstHooksStep ==
  NumberingInv /\ NumberedInv /\ FirstHooksInv /\ [Next]_vars => FirstHooksInv'
<1> SUFFICES ASSUME NumberingInv, NumberedInv, FirstHooksInv, [Next]_vars,
                    NEW f \in Functions, IsFirstWithLoads(f)'
             PROVE  FirstHooks(f)'
  BY DEF FirstHooksInv
<1>1. CASE runOnFunction
  BY <1>1, FirstStays, InstrumentFirst DEF runOnFunction
<1>2. CASE ~runOnFunction
  <2>1. UNCHANGED <<program, load_id, instrumented>> /\ Seen' = Seen
    BY <1>2 DEF Next, ProfilingRun, RunWithoutInit, Stride_init, EndWithoutHandlers, Stride_finish,
       NumberLoads, Advance, ReadLine, Done, vars, numbering, Seen
  <2> QED
    BY <2>1, FirstStays DEF FirstHooksInv, FirstHooks
<1> QED
  BY <1>1, <1>2

-------------------------------------------------------------------------------
LEMMA OwnerOfHook ==
  ASSUME IdsUnique, NEW call \in instrumented
  PROVE  Owner(call[1]) = call[2]
<1>1. \E c \in instrumented : c[1] = call[1]
  OBVIOUS
<1> DEFINE c == CHOOSE c \in instrumented : c[1] = call[1]
<1>2. c \in instrumented /\ c[1] = call[1]
  BY <1>1
<1>3. c = call
  BY <1>2 DEF IdsUnique
<1> QED
  BY <1>3 DEF Owner

\* Once both compilations have numbered the first function's loads, a number one
\* of them goes by leads to it, and leads no other number's line there.
LEMMA NumbersAgree ==
  ASSUME NumberingInv, NumberedInv, FirstHooksInv, phase = "read",
         NEW f \in Functions, IsFirstWithLoads(f), NEW id \in Hooked,
         Owner(id).fn = f \/ LoadFor(id).fn = f
  PROVE  LoadFor(id) = Owner(id) /\ Owner(id).fn = f
<1> DEFINE n == Len(program[f])
<1>1. PICK call \in instrumented : call[1] = id
  BY DEF Hooked
<1>2. Owner(id) = call[2] /\ id \in Int
  BY <1>1, OwnerOfHook DEF NumberingInv, HooksInv
<1>3. f >= 1 /\ f <= NumFunctions /\ Seen = NumFunctions /\ Numbered = NumFunctions
  BY DEF Functions, Seen, Numbered
<1>4. \/ \E k \in 1..n : call = <<k - 1, [fn |-> f, pos |-> k]>>
      \/ call[1] >= n /\ call[2].fn # f
  BY <1>3 DEF FirstHooksInv, FirstHooks
<1>5. /\ n \in Nat /\ n <= Len(LoadIdToLoadInst)
      /\ \A i \in DOMAIN LoadIdToLoadInst :
            IF i <= n THEN LoadIdToLoadInst[i] = [fn |-> f, pos |-> i]
                      ELSE LoadIdToLoadInst[i].fn # f
  BY <1>3, OwnLoads DEF NumberedInv, BeginsWith, NumberingInv
<1>6. DOMAIN LoadIdToLoadInst = 1..Len(LoadIdToLoadInst) /\ Len(LoadIdToLoadInst) \in Nat
  BY DEF NumberedInv
<1>7. CASE \E k \in 1..n : call = <<k - 1, [fn |-> f, pos |-> k]>>
  <2>1. PICK k \in 1..n : call = <<k - 1, [fn |-> f, pos |-> k]>>
    BY <1>7
  <2>2. id + 1 = k /\ Owner(id) = [fn |-> f, pos |-> k]
    BY <1>1, <1>2, <1>5, <2>1
  <2>3. k \in DOMAIN LoadIdToLoadInst /\ LoadIdToLoadInst[k] = [fn |-> f, pos |-> k]
    BY <1>5, <1>6
  <2> QED
    BY <2>2, <2>3 DEF LoadFor
<1>8. CASE call[1] >= n /\ call[2].fn # f
  <2>1. id >= n /\ Owner(id).fn # f
    BY <1>1, <1>2, <1>8
  <2>2. ~(id + 1 <= n)
    BY <1>2, <1>5, <2>1
  <2>3. LoadFor(id).fn # f
    BY <1>3, <1>5, <2>2 DEF LoadFor, None
  <2> QED
    BY <2>1, <2>3
<1> QED
  BY <1>4, <1>7, <1>8

LEMMA OwnerStays ==
  ASSUME instrumented' = instrumented
  PROVE  Hooked' = Hooked /\ \A id : Owner(id)' = Owner(id)
  BY DEF Owner, Hooked

LEMMA LoadForStays ==
  ASSUME LoadIdToLoadInst' = LoadIdToLoadInst
  PROVE  \A id : LoadFor(id)' = LoadFor(id)
  BY DEF LoadFor

-------------------------------------------------------------------------------
\* The lines that Stride_finish writes: whole ones, and perhaps a cut one.
LEMMA FinishedLines ==
  ASSUME lines = {}, Stride_finish
  PROVE  /\ printed' \subseteq Hooked
         /\ \A id \in printed' : WholeLine(id, TRUE) \in lines'
         /\ \A line \in lines' :
               /\ line.fresh
               /\ line.whole => line.read = line.load_id /\ line.load_id \in Hooked
         /\ \A a, b \in lines' : ~a.whole /\ ~b.whole => a = b
<1>1. PICK called \in SUBSET instrumented :
        LET ids == {call[1] : call \in called}
        IN  \/ \E cut \in {{}} \cup {{line} : line \in EndFragments} :
                  /\ printed' = ids
                  /\ lines' = lines \cup {WholeLine(id, TRUE) : id \in ids} \cup cut
            \/ \E stop \in ids : \E cut \in {{}} \cup {{line} : line \in CutLines(stop)} :
                  /\ printed' = {id \in ids : id < stop}
                  /\ lines' = lines \cup {WholeLine(id, TRUE) : id \in printed'} \cup cut
  BY DEF Stride_finish
<1> DEFINE ids == {call[1] : call \in called}
<1>2. ids \subseteq Hooked
  BY DEF Hooked
<1>3. ASSUME NEW line, \E id \in ids : line = WholeLine(id, TRUE)
      PROVE  line.whole /\ line.fresh /\ line.read = line.load_id /\ line.load_id \in Hooked
  <2>1. PICK id \in ids : line = [load_id |-> id, read |-> id, whole |-> TRUE, fresh |-> TRUE]
    BY <1>3 DEF WholeLine
  <2>2. line.whole = TRUE /\ line.fresh = TRUE /\ line.read = id /\ line.load_id = id
    BY <2>1
  <2>3. id \in Hooked
    BY <1>2
  <2> QED
    BY <2>2, <2>3
<1>4. CASE \E cut \in {{}} \cup {{line} : line \in EndFragments} :
             /\ printed' = ids
             /\ lines' = {WholeLine(id, TRUE) : id \in ids} \cup cut
  <2> HIDE DEF ids
  <2>1. PICK cut \in {{}} \cup {{line} : line \in EndFragments} :
             /\ printed' = ids
             /\ lines' = {WholeLine(id, TRUE) : id \in ids} \cup cut
    BY <1>4
  <2>2. /\ \A line \in cut : line.fresh /\ ~line.whole
        /\ \A a, b \in cut : a = b
    BY <2>1 DEF EndFragments
  <2>3. \A line \in lines' : line \in cut \/ \E id \in ids : line = WholeLine(id, TRUE)
    BY <2>1
  <2>4. \A line \in lines' : /\ line.fresh
                             /\ line.whole => line.read = line.load_id /\ line.load_id \in Hooked
                             /\ ~line.whole => line \in cut
    BY <1>3, <2>2, <2>3
  <2>5. printed' \subseteq Hooked /\ \A id \in printed' : WholeLine(id, TRUE) \in lines'
    BY <1>2, <2>1
  <2> QED
    BY <2>2, <2>4, <2>5
<1>5. CASE \E stop \in ids : \E cut \in {{}} \cup {{line} : line \in CutLines(stop)} :
             /\ printed' = {id \in ids : id < stop}
             /\ lines' = {WholeLine(id, TRUE) : id \in printed'} \cup cut
  <2> HIDE DEF ids
  <2>1. PICK stop \in ids : \E cut \in {{}} \cup {{line} : line \in CutLines(stop)} :
             /\ printed' = {id \in ids : id < stop}
             /\ lines' = {WholeLine(id, TRUE) : id \in printed'} \cup cut
    BY <1>5
  <2>2. PICK cut \in {{}} \cup {{line} : line \in CutLines(stop)} :
             /\ printed' = {id \in ids : id < stop}
             /\ lines' = {WholeLine(id, TRUE) : id \in printed'} \cup cut
    BY <2>1
  <2>3. \A line \in cut : line.fresh /\ ~line.whole
    BY <2>2 DEF CutLines
  <2>4. \A a, b \in cut : a = b
    BY <2>2
  <2>5. \A line \in lines' : line \in cut \/ \E id \in ids : line = WholeLine(id, TRUE)
    BY <2>2
  <2>6. \A line \in lines' : /\ line.fresh
                             /\ line.whole => line.read = line.load_id /\ line.load_id \in Hooked
                             /\ ~line.whole => line \in cut
    BY <1>3, <2>3, <2>5
  <2>7. printed' \subseteq Hooked /\ \A id \in printed' : WholeLine(id, TRUE) \in lines'
    BY <1>2, <2>2
  <2> QED
    BY <2>4, <2>6, <2>7
<1> QED
  BY <1>1, <1>4, <1>5

LEMMA LinesStep == NumberedInv /\ LinesInv /\ [Next]_vars => LinesInv'
<1> SUFFICES ASSUME NumberedInv, LinesInv, [Next]_vars PROVE LinesInv'
  OBVIOUS
<1>1. CASE phase # "read" /\ phase' # "read" /\ UNCHANGED <<LoadToLoadInfo, lines, printed>>
           /\ (phase' \in {"instrument", "run", "running"} => phase \in {"instrument", "run", "running"})
           /\ (UNCHANGED instrumented \/ phase \in {"instrument", "run", "running"})
  <2>1. DOMAIN LoadToLoadInfo = {} /\ DOMAIN LoadToLoadInfo' = {} /\ AnyLine = lines /\ AnyLine' = lines
    BY <1>1 DEF LinesInv, AnyLine, Taken
  <2>2. CASE UNCHANGED instrumented
    BY <1>1, <2>1, <2>2 DEF LinesInv, Hooked
  <2>3. CASE phase \in {"instrument", "run", "running"}
    BY <1>1, <2>1, <2>3 DEF LinesInv
  <2> QED
    BY <1>1, <2>2, <2>3
<1>2. CASE runOnFunction \/ EndWithoutHandlers
  BY <1>1, <1>2 DEF runOnFunction, Advance, EndWithoutHandlers, file, numbering
<1>3. CASE RunWithoutInit
  <2>1. /\ phase' = "number" /\ lines' \in EarlierFiles /\ printed' = {}
        /\ DOMAIN LoadToLoadInfo' = {}
    BY <1>3 DEF RunWithoutInit, LinesInv, numbering
  <2>2. AnyLine' = lines'
    BY <2>1 DEF AnyLine, Taken
  <2>3. \A line \in lines' : line.whole /\ line.read = line.load_id /\ ~line.fresh
    BY <2>1 DEF EarlierFiles, WholeLine
  <2> QED
    BY <2>1, <2>2, <2>3 DEF LinesInv
<1>4. CASE Stride_init
  <2>1. phase' = "running" /\ lines' = {} /\ printed' = {} /\ DOMAIN LoadToLoadInfo' = {}
    BY <1>4 DEF Stride_init, Opened, LinesInv, numbering
  <2>2. AnyLine' = {}
    BY <2>1 DEF AnyLine, Taken
  <2> QED
    BY <2>1, <2>2 DEF LinesInv
<1>5. CASE Stride_finish
  <2>1. phase' = "number" /\ lines = {} /\ DOMAIN LoadToLoadInfo' = {} /\ Hooked' = Hooked
    BY <1>5 DEF Stride_finish, LinesInv, numbering, Hooked
  <2>2. AnyLine' = lines'
    BY <2>1 DEF AnyLine, Taken
  <2> QED
    BY <1>5, <2>1, <2>2, FinishedLines DEF LinesInv
<1>6. CASE NumberLoads
  <2>1. /\ phase = "number" /\ phase' \in {"number", "read"}
        /\ UNCHANGED <<LoadToLoadInfo, lines, printed>> /\ Hooked' = Hooked
    BY <1>6 DEF NumberLoads, Advance, file, Hooked
  <2>2. DOMAIN LoadToLoadInfo = {} /\ AnyLine' = AnyLine
    BY <2>1 DEF LinesInv, AnyLine, Taken
  <2> QED
    BY <2>1, <2>2 DEF LinesInv
<1>7. CASE ReadLine
  <2>1. PICK line \in lines :
          /\ lines' = lines \ {line}
          /\ LoadToLoadInfo' = [load \in DOMAIN LoadToLoadInfo \cup {LoadFor(line.read)} |->
                                  IF load = LoadFor(line.read) THEN line ELSE LoadToLoadInfo[load]]
    BY <1>7 DEF ReadLine
  <2>2. /\ phase = "read" /\ phase' = "read" /\ printed' = printed /\ Hooked' = Hooked
        /\ LoadIdToLoadInst' = LoadIdToLoadInst
    BY <1>7 DEF ReadLine, Hooked
  <2>3. AnyLine' \subseteq AnyLine
    BY <2>1 DEF AnyLine, Taken
  <2>4. ASSUME NEW load \in DOMAIN LoadToLoadInfo'
        PROVE  (load = LoadFor(LoadToLoadInfo[load].read))'
    <3>1. load = LoadFor(LoadToLoadInfo'[load].read)
      BY <2>1 DEF LinesInv
    <3> QED
      BY <2>2, <3>1 DEF LoadFor
  <2> QED
    BY <2>2, <2>3, <2>4 DEF LinesInv
<1>8. CASE UNCHANGED vars
  <2>1. UNCHANGED <<phase, LoadToLoadInfo, lines, printed, LoadIdToLoadInst, instrumented>>
    BY <1>8 DEF vars, numbering, file
  <2>2. AnyLine' = AnyLine /\ Hooked' = Hooked
    BY <2>1 DEF AnyLine, Taken, Hooked
  <2>3. \A id : LoadFor(id)' = LoadFor(id)
    BY <2>1, LoadForStays
  <2> QED
    BY <2>1, <2>2, <2>3 DEF LinesInv
<1> QED
  BY <1>2, <1>3, <1>4, <1>5, <1>6, <1>7, <1>8 DEF Next, Done, ProfilingRun

LEMMA ArrivesStep == AttributionInv /\ [Next]_vars => ArrivesInv'
<1> SUFFICES ASSUME AttributionInv, [Next]_vars, phase' \in {"number", "read"},
                    NEW f \in Functions, IsFirstWithLoads(f)',
                    NEW id \in printed', (Owner(id).fn)' = f
             PROVE  Arrives(id)'
  BY DEF ArrivesInv
<1> USE DEF AttributionInv
<1>1. CASE runOnFunction \/ RunWithoutInit \/ Stride_init \/ EndWithoutHandlers
  <2>1. printed = {} /\ printed' = printed
    BY <1>1 DEF runOnFunction, RunWithoutInit, Stride_init, EndWithoutHandlers, LinesInv, file
  <2> QED
    BY <2>1
<1>2. CASE Stride_finish
  <2>1. lines = {}
    BY <1>2 DEF Stride_finish, LinesInv
  <2> QED
    BY <1>2, <2>1, FinishedLines DEF Arrives
<1>3. CASE ~(runOnFunction \/ ProfilingRun)
  <2>1. UNCHANGED <<program, instrumented, printed>> /\ phase \in {"number", "read"}
    BY <1>3 DEF Next, NumberLoads, ReadLine, Done, vars, numbering, file
  <2>2. IsFirstWithLoads(f) /\ id \in printed /\ Owner(id).fn = f
    BY <2>1, FirstStays, OwnerStays
  <2>3. Arrives(id)
    BY <2>1, <2>2 DEF ArrivesInv
  <2>4. CASE NumberLoads
    <3>1. WholeLine(id, TRUE) \in lines
      BY <2>3, <2>4 DEF NumberLoads, LinesInv, Arrives
    <3> QED
      BY <2>4, <3>1 DEF NumberLoads, file, Arrives, WholeLine
  <2>5. CASE ReadLine
    <3>1. PICK line \in lines :
            /\ lines' = lines \ {line}
            /\ LoadToLoadInfo' = [load \in DOMAIN LoadToLoadInfo \cup {LoadFor(line.read)} |->
                                    IF load = LoadFor(line.read) THEN line ELSE LoadToLoadInfo[load]]
      BY <2>5 DEF ReadLine
    <3>2. /\ phase = "read" /\ LoadIdToLoadInst' = LoadIdToLoadInst
          /\ LoadFor(id)' = LoadFor(id)
      BY <2>5, LoadForStays DEF ReadLine
    <3>3. id \in Hooked /\ line.fresh
      BY <2>2 DEF LinesInv, AnyLine
    <3>4. LoadFor(id) = Owner(id) /\ Owner(id).fn = f
      BY <2>2, <3>2, <3>3, NumbersAgree
    <3>5. CASE line.whole /\ line.load_id = id
      <4>1. LoadFor(line.read) = LoadFor(id)
        BY <3>5 DEF LinesInv, AnyLine
      <4>2. LoadFor(id) \in DOMAIN LoadToLoadInfo' /\ LoadToLoadInfo'[LoadFor(id)] = line
        BY <3>1, <4>1
      <4> QED
        BY <3>2, <3>5, <4>2 DEF Arrives
    <3>6. CASE ~line.whole
      <4>1. WholeLine(id, TRUE) # line
        BY <3>6 DEF WholeLine
      <4>2. CASE LoadFor(id) = LoadFor(line.read)
        <5>1. LoadFor(id) \in DOMAIN LoadToLoadInfo' /\ LoadToLoadInfo'[LoadFor(id)] = line
          BY <3>1, <4>2
        <5> QED
          BY <3>2, <3>6, <5>1 DEF Arrives
      <4>3. CASE LoadFor(id) # LoadFor(line.read)
        <5>1. /\ LoadFor(id) \in DOMAIN LoadToLoadInfo' <=> LoadFor(id) \in DOMAIN LoadToLoadInfo
              /\ LoadFor(id) \in DOMAIN LoadToLoadInfo =>
                    LoadToLoadInfo'[LoadFor(id)] = LoadToLoadInfo[LoadFor(id)]
          BY <3>1, <4>3
        <5>2. WholeLine(id, TRUE) \in lines => WholeLine(id, TRUE) \in lines'
          BY <3>1, <4>1
        <5> QED
          BY <2>3, <3>2, <5>1, <5>2 DEF Arrives, WholeLine
      <4> QED
        BY <4>2, <4>3
    <3>7. CASE line.whole /\ line.load_id # id
      <4>1. line.read = line.load_id /\ line.load_id \in Hooked
        BY <3>3, <3>7 DEF LinesInv, AnyLine
      <4>2. WholeLine(id, TRUE) # line
        BY <3>7 DEF WholeLine
      <4>3. LoadFor(id) # LoadFor(line.read)
        <5> SUFFICES ASSUME LoadFor(id) = LoadFor(line.load_id) PROVE FALSE
          BY <4>1
        <5>1. Owner(line.load_id) = Owner(id)
          BY <2>2, <3>2, <3>4, <4>1, NumbersAgree
        <5>2. PICK a \in instrumented : a[1] = id
          BY <3>3 DEF Hooked
        <5>3. PICK b \in instrumented : b[1] = line.load_id
          BY <4>1 DEF Hooked
        <5>4. a[2] = b[2]
          BY <5>1, <5>2, <5>3, OwnerOfHook DEF NumberingInv
        <5>5. a = b
          BY <5>4 DEF NumberingInv, InstrumentedOnce
        <5> QED
          BY <3>7, <5>2, <5>3, <5>5
      <4>4. /\ LoadFor(id) \in DOMAIN LoadToLoadInfo' <=> LoadFor(id) \in DOMAIN LoadToLoadInfo
            /\ LoadFor(id) \in DOMAIN LoadToLoadInfo =>
                  LoadToLoadInfo'[LoadFor(id)] = LoadToLoadInfo[LoadFor(id)]
        BY <3>1, <4>3
      <4>5. WholeLine(id, TRUE) \in lines => WholeLine(id, TRUE) \in lines'
        BY <3>1, <4>2
      <4> QED
        BY <2>3, <3>2, <4>4, <4>5 DEF Arrives, WholeLine
    <3> QED
      BY <3>5, <3>6, <3>7
  <2>6. CASE UNCHANGED vars
    <3>1. UNCHANGED <<lines, LoadToLoadInfo, LoadIdToLoadInst>>
      BY <2>6 DEF vars, numbering, file
    <3>2. LoadFor(id)' = LoadFor(id)
      BY <3>1, LoadForStays
    <3> QED
      BY <2>3, <3>1, <3>2 DEF Arrives, WholeLine
  <2> QED
    BY <1>3, <2>4, <2>5, <2>6 DEF Next, Done
<1> QED
  BY <1>1, <1>2, <1>3 DEF ProfilingRun

LEMMA AttributionInvInit == Init => AttributionInv
<1> SUFFICES ASSUME Init PROVE AttributionInv
  OBVIOUS
<1>1. NumberingInv
  BY NumberingInvInit
<1>2. Seen = 0 /\ Numbered = 0 /\ \A f \in Functions : 0 < f /\ ~(0 >= f)
  BY DEF Init, Seen, Numbered, Functions
<1>3. NumberedInv
  <2>1. LoadIdToLoadInst = <<>> /\ loadsToStride = <<>> /\ phase = "instrument"
    BY DEF Init
  <2>2. <<>> \in Seq(Loads) /\ DOMAIN <<>> = {}
    OBVIOUS
  <2>3. \A f \in Functions : BeginsWith(<<>>, f, 0)
    BY <1>2 DEF BeginsWith
  <2> QED
    BY <1>2, <2>1, <2>2, <2>3 DEF NumberedInv
<1>4. FirstHooksInv
  <2>1. load_id = -1 /\ instrumented = {}
    BY DEF Init
  <2> QED
    BY <1>2, <2>1 DEF FirstHooksInv, FirstHooks
<1>5. LinesInv /\ ArrivesInv
  BY DEF Init, LinesInv, AnyLine, Taken, ArrivesInv
<1> QED
  BY <1>1, <1>3, <1>4, <1>5 DEF AttributionInv

LEMMA Attribution == Spec => []AttributionInv
<1>1. AttributionInv /\ [Next]_vars => AttributionInv'
  BY NumberingInvStep, NumberedStep, FirstHooksStep, LinesStep, ArrivesStep DEF AttributionInv
<1> QED
  BY <1>1, AttributionInvInit, PTL DEF Spec

\* The numberings of the two compilations agree on the first function that has
\* loads: the information of its loads is their own, and theirs goes nowhere else.
THEOREM FirstFunctionAttributedCorrect == Spec => []FirstFunctionAttributed
<1>1. AttributionInv => FirstFunctionAttributed
  <2> SUFFICES ASSUME AttributionInv, NEW f \in Functions, IsFirstWithLoads(f),
                      NEW load \in DOMAIN LoadToLoadInfo, Sound(LoadToLoadInfo[load]),
                      load.fn = f \/ Owner(LoadToLoadInfo[load].load_id).fn = f
               PROVE  Owner(LoadToLoadInfo[load].load_id) = load
    BY DEF FirstFunctionAttributed
  <2> DEFINE line == LoadToLoadInfo[load]
  <2>1. phase = "read" /\ load = LoadFor(line.read)
    BY DEF AttributionInv, LinesInv
  <2>2. line.read = line.load_id /\ line.load_id \in Hooked
    BY DEF AttributionInv, LinesInv, AnyLine, Taken, Sound
  <2> QED
    BY <2>1, <2>2, NumbersAgree DEF AttributionInv
<1> QED
  BY <1>1, Attribution, PTL

\* Wherever the writing of the profile stopped, the whole lines of that function
\* have all come to their loads when the file is read, save one at most that the
\* cut line hides.
THEOREM WrittenLinesArriveCorrect == Spec => []WrittenLinesArrive
<1>1. AttributionInv => WrittenLinesArrive
  <2> SUFFICES ASSUME AttributionInv, phase = "read", lines = {},
                      NEW f \in Functions, IsFirstWithLoads(f)
               PROVE  LET own == {id \in printed : Owner(id).fn = f}
                          hidden == {id \in own : /\ Owner(id) \in DOMAIN LoadToLoadInfo
                                                  /\ ~LoadToLoadInfo[Owner(id)].whole}
                      IN  /\ Cardinality(hidden) <= 1
                          /\ \A id \in own \ hidden : /\ Owner(id) \in DOMAIN LoadToLoadInfo
                                                      /\ LoadToLoadInfo[Owner(id)].load_id = id
    BY DEF WrittenLinesArrive
  <2> USE DEF AttributionInv
  <2> DEFINE own == {id \in printed : Owner(id).fn = f}
             hidden == {id \in own : /\ Owner(id) \in DOMAIN LoadToLoadInfo
                                     /\ ~LoadToLoadInfo[Owner(id)].whole}
  <2>1. ASSUME NEW id \in own
        PROVE  /\ id \in Hooked /\ LoadFor(id) = Owner(id)
               /\ Owner(id) \in DOMAIN LoadToLoadInfo
               /\ LoadToLoadInfo[Owner(id)].load_id = id \/ ~LoadToLoadInfo[Owner(id)].whole
    <3>1. id \in Hooked /\ Owner(id).fn = f
      BY DEF LinesInv
    <3>2. LoadFor(id) = Owner(id)
      BY <3>1, NumbersAgree
    <3> QED
      BY <3>1, <3>2 DEF ArrivesInv, Arrives
  <2>2. ASSUME NEW a \in hidden, NEW b \in hidden
        PROVE  a = b
    <3>1. LoadToLoadInfo[Owner(a)] = LoadToLoadInfo[Owner(b)]
      BY DEF LinesInv, AnyLine, Taken
    <3>2. Owner(a) = Owner(b)
      BY <3>1 DEF LinesInv
    <3>3. PICK c \in instrumented : c[1] = a
      BY <2>1 DEF Hooked
    <3>4. PICK d \in instrumented : d[1] = b
      BY <2>1 DEF Hooked
    <3>5. c[2] = d[2]
      BY <3>2, <3>3, <3>4, OwnerOfHook DEF NumberingInv
    <3> QED
      BY <3>3, <3>4, <3>5 DEF NumberingInv, InstrumentedOnce
  <2>3. Cardinality(hidden) <= 1
    <3> HIDE DEF hidden
    <3>1. CASE hidden = {}
      BY <3>1, FS_EmptySet
    <3>2. CASE hidden # {}
      <4>1. PICK x \in hidden : TRUE
        BY <3>2
      <4>2. hidden = {x}
        BY <2>2, <4>1
      <4> QED
        <5>1. Cardinality({x}) = 1
          BY FS_Singleton
        <5> QED
          BY <4>2, <5>1
    <3> QED
      BY <3>1, <3>2
  <2> QED
    BY <2>1, <2>3
<1> QED
  BY <1>1, Attribution, PTL
===============================================================================
