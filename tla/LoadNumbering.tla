---------------------------- MODULE LoadNumbering -----------------------------
(***************************************************************************)
(* How a profile finds its way back to the loads it was taken from.        *)
(*                                                                         *)
(* The first compilation (StrideProfiler, a function pass of               *)
(* proj_pass/lib/projpass/StrideProfiling.cpp) instruments the selected    *)
(* loads with numbers it hands out; the instrumented program writes one    *)
(* line per number to result.stride.profile; the second compilation        *)
(* (StrideLoadProfile, a module pass of StrideLoadProfile.cpp) numbers the *)
(* loads of the same program again and looks each line's number up.        *)
(* Nothing but the two numberings agreeing ties a line to its load.        *)
(*                                                                         *)
(* Environment: the instrumented program may end before it opens the file, *)
(* which then stays as an earlier run left it, be killed before its exit   *)
(* handler writes the lines, or fail while it writes them, within a line   *)
(* perhaps.                                                                *)
(***************************************************************************)
EXTENDS Integers, Sequences, FiniteSets

CONSTANTS NumFunctions,   \* model bound: functions defined in the module
          MaxLoads,       \* model bound: loads in one function
          Radix,          \* base the numbers are printed in, 10 in the code
          EarlierIds      \* model bound: numbers an earlier run's file may hold

ASSUME SizesAssumption == NumFunctions \in Nat \ {0} /\ MaxLoads \in Nat
ASSUME RadixAssumption == Radix \in Nat \ {0, 1} /\ EarlierIds \subseteq Nat

Functions == 1..NumFunctions

\* A load: whether the outermost loop around it varies its address, and whether
\* its block ran at least FT times under the edge profiler.
Kinds == [dynamic : BOOLEAN, frequent : BOOLEAN]

\* A load instruction, by function and position.
Loads == [fn : Functions, pos : 1..MaxLoads]

None == [fn |-> 0, pos |-> 0]    \* the null Instruction *

\* A line of the profile file is a record: load_id, the number it was printed
\* with, and read, the number that is read from it; whole, whether all of it is
\* there, or it was cut and the fields that are missing are never set, the number
\* itself for the line that ends the file; fresh, whether this run wrote it or an
\* earlier one.

VARIABLES program,           \* the loads of each function, in program order
          phase,             \* "instrument", "run", "running", "number" or "read"
          function,          \* functions the pass at hand has gone through
          loadsToStride,     \* StrideProfiler's global list of loads
          load_id,           \* StrideProfiler::load_id
          instrumented,      \* <<id, load>>: the hook calls in the program
          Stride_initialized,
          lines,             \* profile file: the lines not read yet
          printed,           \* history: the numbers this run wrote whole lines for
          LoadIdToLoadInst,  \* StrideLoadProfile's numbering
          LoadToLoadInfo     \* the line each load's information is from

numbering == <<program, function, loadsToStride, load_id, instrumented, LoadIdToLoadInst,
               LoadToLoadInfo>>
file == <<Stride_initialized, lines, printed>>
vars == <<phase, numbering, file>>

LoadsOf(f) == [k \in 1..Len(program[f]) |-> [fn |-> f, pos |-> k]]

KindOf(load) == program[load.fn][load.pos]

Init == /\ program \in [Functions -> UNION {[1..n -> Kinds] : n \in 0..MaxLoads}]
        /\ phase = "instrument"
        /\ function = 0
        /\ loadsToStride = <<>>
        /\ load_id = -1
        /\ instrumented = {}
        /\ Stride_initialized = FALSE
        /\ lines = {}
        /\ printed = {}
        /\ LoadIdToLoadInst = <<>>
        /\ LoadToLoadInfo = [load \in {} |-> 0]

-------------------------------------------------------------------------------
(* The first compilation.                                                  *)

\* isLoadDynamic asks for the loops of the function the pass is running on.
isLoadDynamic(load, f) == load.fn = f /\ KindOf(load).dynamic

Selected(load, f) == isLoadDynamic(load, f) /\ KindOf(load).frequent

\* Mutant: numbers the selected loads only.
doStridesNumbersSelected(list, f) ==
  LET chosen == SelectSeq(list, LAMBDA load : Selected(load, f))
  IN  /\ load_id' = load_id + Len(chosen)
      /\ instrumented' = instrumented \cup {<<load_id + i, chosen[i]>> : i \in DOMAIN chosen}

\* Mutant: each function's loads are numbered from zero.
doStridesPerFunction(list, f) ==
  /\ load_id' = Len(LoadsOf(f)) - 1
  /\ instrumented' = instrumented \cup
       {<<i - 1, LoadsOf(f)[i]>> : i \in {j \in DOMAIN LoadsOf(f) : Selected(LoadsOf(f)[j], f)}}

\* doStrides numbers every load of the list, from its start, each time it runs,
\* and puts a hook call on those it selects.
doStrides(list, f) ==
  /\ load_id' = load_id + Len(list)
  /\ instrumented' = instrumented \cup
       {<<load_id + i, list[i]>> : i \in {j \in DOMAIN list : Selected(list[j], f)}}

\* The pass at hand goes on to the next function, or the next phase starts.
Advance(next) == IF function + 1 = NumFunctions
                 THEN function' = 0 /\ phase' = next
                 ELSE function' = function + 1 /\ phase' = phase

\* runOnFunction appends the function's loads to the list, which no one empties.
runOnFunction == /\ phase = "instrument"
                 /\ loadsToStride' = loadsToStride \o LoadsOf(function + 1)
                 /\ doStrides(loadsToStride', function + 1)
                 /\ Advance("run")
                 /\ UNCHANGED <<program, file, LoadIdToLoadInst, LoadToLoadInfo>>

-------------------------------------------------------------------------------
(* The profiling run.                                                      *)

WholeLine(id, fresh) == [load_id |-> id, read |-> id, whole |-> TRUE, fresh |-> fresh]

\* What may be in the directory: nothing, or a line of an earlier run.
EarlierFiles == {{}} \cup {{WholeLine(id, FALSE)} : id \in EarlierIds}

\* The program ends without Stride_init: it dies before main, or no function of
\* the module is called main.
RunWithoutInit == /\ phase = "run"
                  /\ lines' \in EarlierFiles
                  /\ phase' = "number"
                  /\ UNCHANGED <<numbering, Stride_initialized, printed>>

\* Mutant: the file is opened to append to it.
OpenedToAppend(earlier) == earlier

\* An ofstream empties the file it opens.
Opened(earlier) == {}

Stride_init == /\ phase = "run"
               /\ \E earlier \in EarlierFiles : lines' = Opened(earlier)
               /\ Stride_initialized' = TRUE
               /\ phase' = "running"
               /\ UNCHANGED <<numbering, printed>>

\* It is killed, or leaves by _exit: the handler that atexit was given is not run.
EndWithoutHandlers == /\ phase = "running"
                      /\ phase' = "number"
                      /\ UNCHANGED <<numbering, file>>

\* The numbers a line cut within its first field can show.
Prefixes(id) == {p \in {id \div Radix^k : k \in 0..id} : p > 0 \/ id = 0}

CutLines(id) == {[load_id |-> id, read |-> p, whole |-> FALSE, fresh |-> TRUE] : p \in Prefixes(id)}

\* The line that ends the file, cut, does not read as the end: it is one more line,
\* after all others, and the number that is read from it is never set.  The last of
\* the numbers here was handed out to no load.
EndFragments == {[load_id |-> load_id + 1, read |-> any, whole |-> FALSE, fresh |-> TRUE] :
                    any \in 0..(NumFunctions * MaxLoads)}

\* Stride_finish: each number whose hook was called has a line, in the order of
\* the numbers, and a line ends them; what the file keeps is all of them, or those
\* up to one of these lines, and perhaps the beginning of that one.
Stride_finish ==
  /\ phase = "running"
  /\ \E called \in SUBSET instrumented :
        LET ids == {call[1] : call \in called}
        IN  \/ \E cut \in {{}} \cup {{line} : line \in EndFragments} :
                  /\ printed' = ids
                  /\ lines' = lines \cup {WholeLine(id, TRUE) : id \in ids} \cup cut
            \/ \E stop \in ids : \E cut \in {{}} \cup {{line} : line \in CutLines(stop)} :
                  /\ printed' = {id \in ids : id < stop}
                  /\ lines' = lines \cup {WholeLine(id, TRUE) : id \in printed'} \cup cut
  /\ phase' = "number"
  /\ UNCHANGED <<numbering, Stride_initialized>>

-------------------------------------------------------------------------------
(* The second compilation.                                                 *)

\* runOnModule numbers the loads of each function in turn, once: entry i of the
\* sequence has number i - 1.
NumberLoads == /\ phase = "number"
               /\ LoadIdToLoadInst' = LoadIdToLoadInst \o LoadsOf(function + 1)
               /\ Advance("read")
               /\ UNCHANGED <<program, loadsToStride, load_id, instrumented, file,
                              LoadToLoadInfo>>

\* Mutant: the loads are numbered from 1.
LoadForCountedFromOne(id) == IF id \in DOMAIN LoadIdToLoadInst THEN LoadIdToLoadInst[id] ELSE None

\* LoadIdToLoadInst[id], null for a number that was not handed out.
LoadFor(id) == IF id + 1 \in DOMAIN LoadIdToLoadInst THEN LoadIdToLoadInst[id + 1] ELSE None

\* The lines are in the order of the numbers they were printed with.
NextLine(line) == \A other \in lines : line.load_id <= other.load_id

\* The information of a line goes to the load of the number read from it, over
\* what the load had.  A missing file is as one without lines.
ReadLine == /\ phase = "read"
            /\ \E line \in lines :
                  /\ NextLine(line)
                  /\ lines' = lines \ {line}
                  /\ LoadToLoadInfo' =
                       [load \in DOMAIN LoadToLoadInfo \cup {LoadFor(line.read)} |->
                          IF load = LoadFor(line.read) THEN line ELSE LoadToLoadInfo[load]]
            /\ UNCHANGED <<program, phase, function, loadsToStride, load_id, instrumented,
                           Stride_initialized, printed, LoadIdToLoadInst>>

Done == phase = "read" /\ lines = {} /\ UNCHANGED vars

ProfilingRun == RunWithoutInit \/ Stride_init \/ EndWithoutHandlers \/ Stride_finish

Next == runOnFunction \/ ProfilingRun \/ NumberLoads \/ ReadLine \/ Done

Spec == Init /\ [][Next]_vars

-------------------------------------------------------------------------------
\* No two hook calls share a number: at run time their addresses would go to one
\* collector, and the strides between two loads' addresses into one profile.
IdsUnique == \A a, b \in instrumented : a[1] = b[1] => a = b

\* No load has two hook calls, though each run of doStrides looks again at every
\* load of the functions before: it would be heard twice per execution.
InstrumentedOnce == \A a, b \in instrumented : a[2] = b[2] => a = b

\* Every load that is worth profiling in its own function is instrumented.
NoneMissed ==
  phase # "instrument" =>
    \A f \in Functions : \A k \in DOMAIN program[f] :
       program[f][k].dynamic /\ program[f][k].frequent =>
         \E call \in instrumented : call[2] = [fn |-> f, pos |-> k]

\* The selection and the numbering, together with the growing list, do what a pass
\* over each function once would: every load worth profiling has one hook call, with
\* a number no other has.
HooksExact == IdsUnique /\ InstrumentedOnce /\ NoneMissed

\* The load a number was given to when the program was instrumented.
Owner(id) == (CHOOSE call \in instrumented : call[1] = id)[2]

\* A line this run wrote to its end.
Sound(line) == line.fresh /\ line.whole

IsFirstWithLoads(f) == program[f] # <<>> /\ \A g \in 1..(f - 1) : program[g] = <<>>

\* In the first function that has loads the numberings agree: a line taken from
\* it comes back to its load, and no line of another load does.
FirstFunctionAttributed ==
  \A f \in Functions : IsFirstWithLoads(f) =>
     \A load \in DOMAIN LoadToLoadInfo :
        LET line == LoadToLoadInfo[load]
        IN  Sound(line) /\ (load.fn = f \/ Owner(line.load_id).fn = f) => Owner(line.load_id) = load

\* Wherever the program or the writing of its lines stopped, the lines of that
\* function that were written are all found again in the end.  The one that was
\* cut may hide a single one of them, having been read as another number.
WrittenLinesArrive ==
  phase = "read" /\ lines = {} =>
    \A f \in Functions : IsFirstWithLoads(f) =>
       LET own == {id \in printed : Owner(id).fn = f}
           hidden == {id \in own : /\ Owner(id) \in DOMAIN LoadToLoadInfo
                                   /\ ~LoadToLoadInfo[Owner(id)].whole}
       IN  /\ Cardinality(hidden) <= 1
           /\ \A id \in own \ hidden : /\ Owner(id) \in DOMAIN LoadToLoadInfo
                                       /\ LoadToLoadInfo[Owner(id)].load_id = id

\* Once main was reached, nothing is read that an earlier run wrote, whatever
\* became of this one; a program killed then gives no load any information.
NothingStale == Stride_initialized =>
                  /\ \A load \in DOMAIN LoadToLoadInfo : LoadToLoadInfo[load].fresh
                  /\ \A line \in lines : line.fresh

\* Every line comes back to the load it was taken from.
AttributedToOwner ==
  \A load \in DOMAIN LoadToLoadInfo :
     Sound(LoadToLoadInfo[load]) => Owner(LoadToLoadInfo[load].load_id) = load
===============================================================================
