------------------------------ MODULE KSearcher -------------------------------
(* The search for the prefetching distance: ksearcher.py.  For every K it    *)
(* tries it writes K into strideprefetch.cpp, rebuilds the pass, profiles    *)
(* the benchmark and times it MAX_TRIALS times; it then narrows the range of *)
(* K to the best CONSECUTIVE points and divides that again.  The original    *)
(* source is saved beside the file when the program starts and copied back   *)
(* in a finally clause.                                                      *)
(*                                                                           *)
(* Environment: a build or a run of the benchmark may fail, in which case    *)
(* the program goes on (it ignores what subprocess.call returns), and the    *)
(* program may be killed outright and started again.                         *)
EXTENDS Integers, FiniteSets

CONSTANTS INITIAL_K,      \* the search starts with the range 0 .. INITIAL_K
          K_PARTITIONS,   \* how many parts a range is divided into
          MAX_TRIALS,     \* timed runs per K
          Performances,   \* the speed-ups a timed run can show (integers)
          MaxKills,       \* bound: how often the program is killed
          MaxFailures,    \* bound: how many builds or benchmark runs fail
          Template,       \* a file that holds the source with CHANGE_K_FLAG
          Empty,          \* a file opened for writing, not yet written
          NoFile,         \* a file that does not exist
          NoResult        \* a K with no result yet

ASSUME SearcherAssumption ==
  /\ {INITIAL_K, K_PARTITIONS, MAX_TRIALS} \subseteq Nat \ {0}
  /\ Performances \subseteq Int
  /\ {MaxKills, MaxFailures} \subseteq Nat

CONSECUTIVE == 3

Ks == 0 .. INITIAL_K

\* What the benchmark's output files hold.
Run == [k : Ks, performance : Performances]

\* A result is told apart from none.
ASSUME NoResultAssumption == NoResult \notin [run : Run, performance : Performances]

VARIABLES
  pc,        \* what the program does next
  prefetch,  \* PREFETCH_FILE: the template, empty, or the K written into it
  orig,      \* ORIG_PREFETCH_FILE
  library,   \* the built pass: the K it was built with
  output,    \* the benchmark's output files: the library's K and the speed-up
  lo, hi,    \* the range of K searched
  at,        \* index in the range of the K being tried
  trial,     \* trials of that K done
  best,      \* best_performance: per K, the Result kept, with its run and its performance
  runs,      \* history: per K, the runs whose output was recorded for it
  kills, failures

files == <<prefetch, orig, library, output>>
search == <<lo, hi, at, trial, best, runs>>
vars == <<pc, files, search, kills, failures>>

\* Mutant: the division of the range rounds up.
PartitionUp == (hi - lo + K_PARTITIONS - 1) \div K_PARTITIONS

(* make_range: the points lo, lo + partition, ... up to hi; none when the    *)
(* range is too short to divide.                                             *)
Partition == (hi - lo) \div K_PARTITIONS

Points == IF Partition = 0 THEN 0 ELSE ((hi - lo) \div Partition) + 1

Point(i) == lo + i * Partition

Init ==
  /\ pc = "start"
  /\ prefetch = Template
  /\ orig = NoFile
  /\ library = NoFile
  /\ output = NoFile
  /\ lo = 0
  /\ hi = INITIAL_K
  /\ at = 0
  /\ trial = 0
  /\ best = [k \in Ks |-> NoResult]
  /\ runs = [k \in Ks |-> {}]
  /\ kills = 0
  /\ failures = 0

Goto(label) == pc' = label

\* The search's variables are gone when bin_find_optimal_k is left or killed.
ForgetSearch ==
  /\ lo' = 0
  /\ hi' = INITIAL_K
  /\ at' = 0
  /\ trial' = 0
  /\ best' = [k \in Ks |-> NoResult]
  /\ runs' = [k \in Ks |-> {}]

\* The search ends, or an exception leaves it: the finally clause is next.
Unwind == Goto("finally") /\ ForgetSearch

\* Main opens the back-up for writing...
OpenBackup ==
  /\ pc = "start"
  /\ orig' = Empty
  /\ Goto("backup")
  /\ UNCHANGED <<prefetch, library, output, search, kills, failures>>

\* ... and fills it.
CopyToBackup ==
  /\ pc = "backup"
  /\ orig' = prefetch
  /\ Goto("range")
  /\ UNCHANGED <<prefetch, library, output, search, kills, failures>>

(* The head of the while loop.  When the range is empty the rankings are     *)
(* written and the finally clause runs.                                      *)
NextRange ==
  /\ pc = "range"
  /\ IF lo < hi /\ Points > 0
     THEN Goto("modify") /\ UNCHANGED search
     ELSE Unwind
  /\ UNCHANGED <<files, kills, failures>>

\* modify_file works from the back-up, which must hold the flag to replace.
Modify ==
  /\ pc = "modify"
  /\ at < Points
  /\ IF orig = Template
     THEN prefetch' = Empty /\ Goto("write") /\ UNCHANGED search
     ELSE Unwind /\ UNCHANGED prefetch
  /\ UNCHANGED <<orig, library, output, kills, failures>>

\* Mutant: the modified text is written to the back-up's path.
WriteToBackup ==
  /\ pc = "write"
  /\ orig' = Point(at)
  /\ Goto("build")
  /\ UNCHANGED <<prefetch, library, output, search, kills, failures>>

Write ==
  /\ pc = "write"
  /\ prefetch' = Point(at)
  /\ Goto("build")
  /\ UNCHANGED <<orig, library, output, search, kills, failures>>

\* Mutant: the library is not remade when there is one.
BuildOnce ==
  /\ pc = "build"
  /\ library' = IF library = NoFile THEN prefetch ELSE library
  /\ output' = NoFile
  /\ trial' = 0
  /\ Goto("trial")
  /\ UNCHANGED <<prefetch, orig, lo, hi, at, best, runs, kills, failures>>

(* domake and make profile.  A failing domake leaves the earlier library or, *)
(* if its clean reached it, none.  make profile removes the output files.    *)
Build ==
  /\ pc = "build"
  /\ \/ library' = prefetch /\ UNCHANGED failures
     \/ /\ failures < MaxFailures
        /\ failures' = failures + 1
        /\ library' \in {library, NoFile}
  /\ output' = NoFile
  /\ trial' = 0
  /\ Goto("trial")
  /\ UNCHANGED <<prefetch, orig, lo, hi, at, best, runs, kills>>

\* Mutant: the latest run's performance replaces the one kept.
AddLatest(k, run) ==
  /\ best' = [best EXCEPT ![k] = [run |-> run, performance |-> run.performance]]
  /\ runs' = [runs EXCEPT ![k] = @ \cup {run}]

\* Results.add: the first Result is kept, and its performance raised.
Add(k, run) ==
  /\ best' = [best EXCEPT ![k] =
       IF @ = NoResult THEN [run |-> run, performance |-> run.performance]
       ELSE IF run.performance > @.performance
            THEN [@ EXCEPT !.performance = run.performance]
            ELSE @]
  /\ runs' = [runs EXCEPT ![k] = @ \cup {run}]

\* Mutant: without the times the program exits at once, past the finally clause.
DiffExits(k) ==
  IF output' = NoFile
  THEN Goto("done") /\ ForgetSearch
  ELSE /\ Add(k, output')
       /\ UNCHANGED <<lo, hi>>
       /\ IF trial + 1 = MAX_TRIALS
          THEN Goto("modify") /\ at' = at + 1 /\ trial' = 0
          ELSE trial' = trial + 1 /\ UNCHANGED <<pc, at>>

\* make diff and get_result: without the two times Result's constructor raises.
Diff(k) ==
  IF output' = NoFile
  THEN Unwind
  ELSE /\ Add(k, output')
       /\ UNCHANGED <<lo, hi>>
       /\ IF trial + 1 = MAX_TRIALS
          THEN Goto("modify") /\ at' = at + 1 /\ trial' = 0
          ELSE trial' = trial + 1 /\ UNCHANGED <<pc, at>>

(* One trial: make prefetch, then make diff.  A make prefetch that fails     *)
(* leaves the output of the trial before it.                                 *)
Trial ==
  /\ pc = "trial"
  /\ \/ /\ library # NoFile
        /\ \E p \in Performances : output' = [k |-> library, performance |-> p]
        /\ UNCHANGED failures
     \/ /\ library = NoFile \/ failures < MaxFailures
        /\ failures' = IF library = NoFile THEN failures ELSE failures + 1
        /\ UNCHANGED output
  /\ Diff(Point(at))
  /\ UNCHANGED <<prefetch, orig, library, kills>>

Perf(i) == best[Point(i)].performance
WindowPerf(i) == Perf(i) + Perf(i + 1) + Perf(i + 2)

\* get_best_range_begin: the first of the windows with the highest sum.
Windows == 0 .. Points - CONSECUTIVE
RangeBegin ==
  CHOOSE i \in Windows :
    \A j \in Windows : /\ WindowPerf(j) <= WindowPerf(i)
                       /\ j < i => WindowPerf(j) < WindowPerf(i)

\* Mutant: the new range ends one point after the window.
NarrowPastWindow ==
  /\ pc = "modify"
  /\ at = Points
  /\ IF Windows = {}
     THEN Unwind
     ELSE /\ lo' = Point(RangeBegin)
          /\ hi' = Point(RangeBegin + CONSECUTIVE)
          /\ Goto("range")
          /\ at' = 0
          /\ UNCHANGED <<trial, best, runs>>
  /\ UNCHANGED <<files, kills, failures>>

\* With fewer points than a window range_begin is None and indexing raises.
Narrow ==
  /\ pc = "modify"
  /\ at = Points
  /\ IF Windows = {}
     THEN Unwind
     ELSE /\ lo' = Point(RangeBegin)
          /\ hi' = Point(RangeBegin + CONSECUTIVE - 1)
          /\ Goto("range")
          /\ at' = 0
          /\ UNCHANGED <<trial, best, runs>>
  /\ UNCHANGED <<files, kills, failures>>

\* The finally clause: the back-up is copied over the source file.
OpenSource ==
  /\ pc = "finally"
  /\ prefetch' = Empty
  /\ Goto("restore")
  /\ UNCHANGED <<orig, library, output, search, kills, failures>>

Restore ==
  /\ pc = "restore"
  /\ prefetch' = orig
  /\ Goto("done")
  /\ UNCHANGED <<orig, library, output, search, kills, failures>>

\* Killed in a way that runs no finally clause: only the files remain.
Kill ==
  /\ pc \notin {"start", "done"}
  /\ kills < MaxKills
  /\ kills' = kills + 1
  /\ Goto("start")
  /\ ForgetSearch
  /\ UNCHANGED <<files, failures>>

Step ==
  \/ OpenBackup \/ CopyToBackup
  \/ NextRange \/ Modify \/ Write \/ Build \/ Trial \/ Narrow
  \/ OpenSource \/ Restore

Next == Step \/ Kill

Spec == Init /\ [][Next]_vars

\* The program and the commands it waits for keep running.
FairSpec == Spec /\ WF_vars(Step)

-------------------------------------------------------------------------------
(* A program that was never killed ends with the original source in place,   *)
(* whichever build, run or parse failed on the way: the finally clause.      *)
RestoredUnlessKilled ==
  pc = "done" /\ kills = 0 => prefetch = Template /\ orig = Template

(* A kill alone never loses the original: until the program is started       *)
(* again, the source file or the back-up still holds it.                     *)
RecoverableAfterOneKill ==
  kills = 1 /\ pc = "start" => Template \in {prefetch, orig}

(* The performance ranked for K is the best of all the runs recorded for it, *)
(* over every range K was tried in (best_performance, Results.add).          *)
BestIsHighest ==
  \A k \in Ks :
    IF best[k] = NoResult THEN runs[k] = {}
    ELSE /\ \E run \in runs[k] : run.performance = best[k].performance
         /\ \A run \in runs[k] : run.performance <= best[k].performance

(* Each narrowing keeps to the old range and is strictly shorter, so that    *)
(* the loop of bin_find_optimal_k makes progress.                            *)
RangeShrinks ==
  [][pc = "modify" /\ pc' = "range" =>
       lo <= lo' /\ hi' <= hi /\ hi' - lo' < hi - lo]_vars

(* The search ends and leaves the finally clause, whatever the timings and   *)
(* whatever fails.                                                           *)
Terminates == <>[](pc = "done")

(* Unless a command failed, what is recorded for a K was run with the pass   *)
(* built for that K, after a restart too (the comment on calc_perf's domake).*)
MeasuredWithItsK ==
  failures = 0 => \A k \in Ks : \A run \in runs[k] : run.k = k

(* The finally clause is there "to get the file to its original shape"       *)
(* (ksearcher.py:284).  It does not after a kill: the program started again  *)
(* backs up the file the killed one had written K into.                      *)
OriginalShapeAtEnd == pc = "done" => prefetch = Template
===============================================================================
