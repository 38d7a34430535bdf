------------------------------- MODULE SearchRace -------------------------------
(***************************************************************************)
(* The search for the prefetching distance as tests/test_matrix0 does it   *)
(* (ksearcher.py, Makefile.patryk).  It differs from the one of KSearcher  *)
(* in that the benchmark is profiled once, by a `make profile` the script  *)
(* starts and does not wait for, while it goes on to `make prefetch`, and  *)
(* in that it ranks the average of the trials of a K.                      *)
(*                                                                         *)
(* The two makes work in one directory, in which an earlier search may     *)
(* have left its files.  A step of a make is one of its commands, or a few *)
(* between which nothing another process does matters; a command finds the *)
(* whole of a file or none of it.  `make profile` may stop at any command. *)
(* The source file, its back-up and domake are as in KSearcher.            *)
(***************************************************************************)
EXTENDS Integers, FiniteSets

CONSTANTS INITIAL_K,     \* the search starts with the range 0 .. INITIAL_K
          K_PARTITIONS,  \* how many parts a range is divided into
          MAX_TRIALS,    \* timed runs per K
          Performances   \* the speed-ups a timed run can show, in a unit that makes them integers

\* With two parts the only window is the whole range, and the search never ends.
ASSUME SearchAssumption == /\ {INITIAL_K, MAX_TRIALS} \subseteq Nat \ {0}
                           /\ K_PARTITIONS \in Nat /\ K_PARTITIONS >= 3
                           /\ Performances \subseteq Int

CONSECUTIVE == 3

VARIABLES pc,           \* what the script, or the make prefetch it waits for, does next
          lo, hi,       \* the range of K searched
          at, trial,    \* index of the K tried, trials of it done
          PROFILED,
          average,      \* avg_performance: the running average of each K
          count,        \* len(results[k])
          profiler,     \* the next command of make profile, "idle", "done" or "stopped"
          file,         \* the benchmark's files: whose work they are
          stride_run,   \* correct.stride as it was when started, or "missing"
          total,        \* history: sum of the performances recorded for each K
          overlapped,   \* history: make profile had not finished when the trial began
          recorded      \* history: what recorded results were measured with

\* The number n / d, in lowest terms: what the script computes in floats.
Ratio(n, d) == LET least == CHOOSE e \in 1..d : /\ (n * e) % d = 0
                                               /\ \A f \in 1..(e - 1) : (n * f) % d # 0
               IN  [num |-> (n * least) \div d, den |-> least]
Plus(a, b)  == Ratio(a.num * b.den + b.num * a.den, a.den * b.den)
Below(a, b) == a.num * b.den < b.num * a.den

script == <<lo, hi, at, trial, PROFILED, average, count, total, overlapped, recorded>>
raceVars == <<pc, script, profiler, file, stride_run>>

Ks == 0..INITIAL_K

\* llvmprof.out, result.stride.profile, correct.stride, correct.bc with correct.ls.bc,
\* correct.ls.mem2reg, correct.prefetch.* and the output of the two timed programs.
Files == {"edges", "profile", "stride", "bitcode", "base", "code", "times", "base_times"}

\* "old": made by an earlier search, or from what it made; "new": from this search's
\* profile; "blind": code compiled without a stride profile.
Tags == {"missing", "old", "new", "blind"}

Found(f) == file[f] # "missing"
Make(f, tag) == file' = [file EXCEPT ![f] = tag]
Remove(fs) == file' = [f \in Files |-> IF f \in fs THEN "missing" ELSE file[f]]

RaceInit ==
  /\ pc = "range"
  /\ lo = 0 /\ hi = INITIAL_K /\ at = 0 /\ trial = 0
  /\ PROFILED = FALSE
  /\ average = [k \in Ks |-> Ratio(0, 1)] /\ count = [k \in Ks |-> 0] /\ total = [k \in Ks |-> 0]
  /\ profiler = "idle"
  /\ file \in {[f \in Files |-> tag] : tag \in {"missing", "old"}}
  /\ stride_run = "missing"
  /\ overlapped = FALSE
  /\ recorded = {}

-------------------------------------------------------------------------------
\* make profile, a command at a time; the first ones are those of make clean.
Command(from, to) == profiler = from /\ profiler' = to /\ UNCHANGED <<pc, script, stride_run>>

\* Mutant: make profile removes the edge profile it is done with.
ProfileStepTidies ==
  \/ Command("clean", "clean_outputs") /\ Remove({"edges", "profile"})
  \/ Command("clean_outputs", "clean_code") /\ Remove({"bitcode", "base", "stride", "times", "base_times"})
  \/ Command("clean_code", "bitcode") /\ Remove({"code"})
  \/ Command("bitcode", "base") /\ Make("bitcode", "new")
  \/ Command("base", "edges") /\ Make("base", "new")
  \/ Command("edges", "stride") /\ Make("edges", "new")
  \/ Command("stride", "done") /\ file' = [file EXCEPT !["stride"] = "new", !["edges"] = "missing"]

ProfileStep ==
  \/ Command("clean", "clean_outputs") /\ Remove({"edges", "profile"})
  \/ Command("clean_outputs", "clean_code") /\ Remove({"bitcode", "base", "stride", "times", "base_times"})
  \/ Command("clean_code", "bitcode") /\ Remove({"code"})
  \/ Command("bitcode", "base") /\ Make("bitcode", "new")
  \/ Command("base", "edges") /\ Make("base", "new")
  \/ Command("edges", "stride") /\ Make("edges", "new")
  \/ Command("stride", "done") /\ Make("stride", "new")

ProfileStops == /\ profiler \notin {"idle", "done", "stopped"}
                /\ profiler' = "stopped"
                /\ UNCHANGED <<pc, script, file, stride_run>>

-------------------------------------------------------------------------------
\* The commands of make prefetch, which the script waits for.  When one fails that
\* make does not ignore, the output has not both times.
Goto(from, to) == pc = from /\ pc' = to /\ UNCHANGED <<script, profiler>>

\* Result's constructor raises, the script goes on to its finally clause, and ends.
Raises(from) == Goto(from, "raised") /\ UNCHANGED <<file, stride_run>>

\* Mutant: the strides are profiled when there is no profile of them yet.
StartStrideOnce == /\ Goto("stride", "stride_exit")
                   /\ stride_run' = IF Found("profile") THEN "missing" ELSE file["stride"]
                   /\ UNCHANGED file

\* correct.stride, if there is one, runs and writes its profile when it exits.
StartStride == Goto("stride", "stride_exit") /\ stride_run' = file["stride"] /\ UNCHANGED file
EndStride == /\ Goto("stride_exit", "opt")
             /\ IF stride_run = "missing" THEN UNCHANGED file ELSE Make("profile", stride_run)
             /\ stride_run' = "missing"

\* The passes read the bitcode, the edge profile and, if there is one, the stride profile.
Optimised == IF ~Found("profile") THEN "blind"
             ELSE IF "old" \in {file["profile"], file["edges"]} THEN "old" ELSE "new"
Opt == \/ /\ Found("bitcode") /\ Found("edges")
          /\ Goto("opt", "link") /\ Make("code", Optimised) /\ UNCHANGED stride_run
       \/ ~(Found("bitcode") /\ Found("edges")) /\ Raises("opt")

Link == \/ Found("code") /\ Found("bitcode") /\ Goto("link", "run") /\ UNCHANGED <<file, stride_run>>
        \/ ~(Found("code") /\ Found("bitcode")) /\ Raises("link")

\* The two programs are timed; without the program the output is empty.
RunCode == Goto("run", "run_base") /\ Make("times", file["code"]) /\ UNCHANGED stride_run
RunBase == Goto("run_base", "tail") /\ Make("base_times", file["base"]) /\ UNCHANGED stride_run

-------------------------------------------------------------------------------
Partition == (hi - lo) \div K_PARTITIONS
Points == IF Partition = 0 THEN 0 ELSE ((hi - lo) \div Partition) + 1
K == lo + at * Partition

\* The head of the while loop, and make_range.
NextRange == /\ pc = "range"
             /\ pc' = IF lo < hi /\ Points > 0 THEN "trial" ELSE "found"
             /\ UNCHANGED <<script, profiler, file, stride_run>>

\* calc_perf starts make profile, once, and does not wait for it.
StartProfile == /\ PROFILED' = TRUE
                /\ profiler' = IF PROFILED THEN profiler ELSE "clean"

StartTrial == /\ pc = "trial"
              /\ at < Points
              /\ pc' = "stride"
              /\ StartProfile
              /\ overlapped' = (profiler' # "done")
              /\ UNCHANGED <<lo, hi, at, trial, average, count, total, recorded, file, stride_run>>

\* Mutant: the count is taken after the result was appended.
AveragedLate(k, p) == Ratio(average[k].num * (count[k] + 1) + p * average[k].den,
                            average[k].den * (count[k] + 2))

\* Results.add: (average * count + performance) / (count + 1).
Averaged(k, p) == Ratio(average[k].num * count[k] + p * average[k].den,
                        average[k].den * (count[k] + 1))

\* Both outputs are shown and have a time in them.
Record == /\ pc = "tail"
          /\ Found("times") /\ Found("base_times")
          /\ \E p \in Performances : /\ average' = [average EXCEPT ![K] = Averaged(K, p)]
                                     /\ total' = [total EXCEPT ![K] = @ + p]
          /\ count' = [count EXCEPT ![K] = @ + 1]
          /\ recorded' = recorded \cup {[from |-> file["times"], overlapped |-> overlapped]}
          /\ pc' = "trial"
          /\ IF trial + 1 = MAX_TRIALS THEN at' = at + 1 /\ trial' = 0
                                       ELSE trial' = trial + 1 /\ UNCHANGED at
          /\ UNCHANGED <<lo, hi, PROFILED, overlapped, profiler, file, stride_run>>

NoTimes == ~(Found("times") /\ Found("base_times")) /\ Raises("tail")

\* get_best_range_begin: the first of the windows with the highest sum of averages.
Window(i) == LET Perf(j) == average[lo + j * Partition]
             IN  Plus(Plus(Perf(i), Perf(i + 1)), Perf(i + 2))
Windows == 0..(Points - CONSECUTIVE)
RangeBegin == CHOOSE i \in Windows : \A j \in Windows : /\ ~Below(Window(i), Window(j))
                                                        /\ j < i => Below(Window(j), Window(i))

Narrow == /\ pc = "trial" /\ at = Points
          /\ lo' = lo + RangeBegin * Partition
          /\ hi' = lo' + (CONSECUTIVE - 1) * Partition
          /\ at' = 0
          /\ pc' = "range"
          /\ UNCHANGED <<trial, PROFILED, average, count, total, overlapped, recorded, profiler, file, stride_run>>

RaceNext == \/ NextRange \/ StartTrial \/ Narrow
            \/ StartStride \/ EndStride \/ Opt \/ Link \/ RunCode \/ RunBase \/ Record \/ NoTimes
            \/ ProfileStep \/ ProfileStops

Spec == RaceInit /\ [][RaceNext]_raceVars

-------------------------------------------------------------------------------
\* The number a K is ranked by is the average of all the runs recorded for it, in
\* every range it was tried in (Results.add).
AverageExact == \A k \in Ks : average[k].num * count[k] = total[k] * average[k].den

\* A trial begun after make profile has finished measures code compiled from the
\* profile it made: neither an earlier search's profile nor the lack of one is left
\* over from the race ("profiling only needs to happen once").
StaleOnlyWhileProfiling == \A r \in recorded : r.from = "new" \/ r.overlapped

\* The search ends without a result only in a trial begun before make profile had
\* finished: once it has, nothing it removed is missing, whatever the race did.
RaisedOnlyWhileProfiling == pc = "raised" => overlapped
===============================================================================
