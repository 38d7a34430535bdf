--------------------------- MODULE SearchRaceProofs ---------------------------
(***************************************************************************)
(* Theorems about SearchRace, for every range of K, number of parts and of *)
(* trials, and set of performances: once make profile has come to its end, *)
(* the trials that begin find everything they need, and find it made by    *)
(* this search.  Whatever they find, each K is ranked by the average of    *)
(* its runs, every K ranked was timed, each range is shorter than the one  *)
(* before it, and the search ends.                                         *)
(***************************************************************************)
EXTENDS SearchRace, WellFoundedInduction, TLAPS

Stages == {"stride", "stride_exit", "opt", "link", "run", "run_base", "tail"}

\* The files are files, and the script has started make profile or not.
FilesInv == /\ file \in [Files -> Tags]
            /\ stride_run \in Tags
            /\ PROFILED <=> profiler # "idle"

\* What make profile has made stays: make prefetch writes other files only.
ProfilerInv ==
  /\ profiler \in {"base", "edges", "stride", "done"} => file["bitcode"] = "new"
  /\ profiler \in {"edges", "stride", "done"} => file["base"] = "new"
  /\ profiler \in {"stride", "done"} => file["edges"] = "new"
  /\ profiler = "done" => file["stride"] = "new"

\* A trial that does not overlap with it hands what it made from one command to
\* the next.
TrialInv ==
  ~overlapped =>
     /\ pc \in Stages => profiler = "done"
     /\ pc = "stride_exit" => stride_run = "new"
     /\ pc = "opt" => file["profile"] = "new"
     /\ pc = "link" => file["code"] = "new"
     /\ pc = "run" => file["code"] = "new"
     /\ pc = "run_base" => file["times"] = "new"
     /\ pc = "tail" => file["times"] = "new" /\ file["base_times"] = "new"

RaceInv == FilesInv /\ ProfilerInv /\ TrialInv
              /\ StaleOnlyWhileProfiling /\ RaisedOnlyWhileProfiling

-------------------------------------------------------------------------------
LEMMA RaceInvInit == RaceInit => RaceInv
  BY DEF RaceInit, RaceInv, FilesInv, ProfilerInv, TrialInv, StaleOnlyWhileProfiling,
         RaisedOnlyWhileProfiling, Tags, Stages

LEMMA FilesInvStep == RaceInv /\ [RaceNext]_raceVars => FilesInv'
<1> SUFFICES ASSUME RaceInv, [RaceNext]_raceVars PROVE FilesInv'
  OBVIOUS
<1> USE DEF RaceInv, FilesInv, Goto, Make, Found, Files, Tags, script
<1>1. CASE UNCHANGED raceVars
  BY <1>1 DEF raceVars
<1>2. CASE NextRange
  BY <1>2 DEF NextRange
<1>3. CASE StartTrial
  BY <1>3 DEF StartTrial, StartProfile
<1>4. CASE Narrow
  BY <1>4 DEF Narrow
<1>5. CASE StartStride
  BY <1>5 DEF StartStride
<1>6. CASE EndStride
  BY <1>6 DEF EndStride
<1>7. CASE Opt
  BY <1>7 DEF Opt, Optimised, Raises
<1>8. CASE Link
  BY <1>8 DEF Link, Raises
<1>9. CASE RunCode
  BY <1>9 DEF RunCode
<1>10. CASE RunBase
  BY <1>10 DEF RunBase
<1>11. CASE Record
  BY <1>11 DEF Record
<1>12. CASE NoTimes
  BY <1>12 DEF NoTimes, Raises
<1>13. CASE ProfileStep
  BY <1>13 DEF ProfileStep, Command, Remove
<1>14. CASE ProfileStops
  BY <1>14 DEF ProfileStops
<1> QED
  BY <1>1, <1>2, <1>3, <1>4, <1>5, <1>6, <1>7, <1>8, <1>9, <1>10, <1>11, <1>12, <1>13,
     <1>14 DEF RaceNext

LEMMA ProfilerInvStep == RaceInv /\ [RaceNext]_raceVars => ProfilerInv'
<1> SUFFICES ASSUME RaceInv, [RaceNext]_raceVars PROVE ProfilerInv'
  OBVIOUS
<1> USE DEF RaceInv, FilesInv, ProfilerInv, Goto, Make, Found, Files, script
<1>1. CASE UNCHANGED raceVars
  BY <1>1 DEF raceVars
<1>2. CASE NextRange
  BY <1>2 DEF NextRange
<1>3. CASE StartTrial
  BY <1>3 DEF StartTrial, StartProfile
<1>4. CASE Narrow
  BY <1>4 DEF Narrow
<1>5. CASE StartStride
  BY <1>5 DEF StartStride
<1>6. CASE EndStride
  BY <1>6 DEF EndStride
<1>7. CASE Opt
  BY <1>7 DEF Opt, Raises
<1>8. CASE Link
  BY <1>8 DEF Link, Raises
<1>9. CASE RunCode
  BY <1>9 DEF RunCode
<1>10. CASE RunBase
  BY <1>10 DEF RunBase
<1>11. CASE Record
  BY <1>11 DEF Record
<1>12. CASE NoTimes
  BY <1>12 DEF NoTimes, Raises
<1>13. CASE ProfileStep
  BY <1>13 DEF ProfileStep, Command, Remove
<1>14. CASE ProfileStops
  BY <1>14 DEF ProfileStops
<1> QED
  BY <1>1, <1>2, <1>3, <1>4, <1>5, <1>6, <1>7, <1>8, <1>9, <1>10, <1>11, <1>12, <1>13,
     <1>14 DEF RaceNext

LEMMA TrialInvStep == RaceInv /\ [RaceNext]_raceVars => TrialInv'
<1> SUFFICES ASSUME RaceInv, [RaceNext]_raceVars PROVE TrialInv'
  OBVIOUS
<1> USE DEF RaceInv, FilesInv, ProfilerInv, TrialInv, Stages, Goto, Make, Found, Files, script
<1>1. CASE UNCHANGED raceVars
  BY <1>1 DEF raceVars
<1>2. CASE NextRange
  BY <1>2 DEF NextRange
<1>3. CASE StartTrial
  BY <1>3 DEF StartTrial, StartProfile
<1>4. CASE Narrow
  BY <1>4 DEF Narrow
<1>5. CASE StartStride
  BY <1>5 DEF StartStride
<1>6. CASE EndStride
  BY <1>6 DEF EndStride
<1>7. CASE Opt
  BY <1>7 DEF Opt, Optimised, Raises
<1>8. CASE Link
  BY <1>8 DEF Link, Raises
<1>9. CASE RunCode
  BY <1>9 DEF RunCode
<1>10. CASE RunBase
  BY <1>10 DEF RunBase
<1>11. CASE Record
  BY <1>11 DEF Record
<1>12. CASE NoTimes
  BY <1>12 DEF NoTimes, Raises
<1>13. CASE ProfileStep
  BY <1>13 DEF ProfileStep, Command, Remove
<1>14. CASE ProfileStops
  BY <1>14 DEF ProfileStops
<1> QED
  BY <1>1, <1>2, <1>3, <1>4, <1>5, <1>6, <1>7, <1>8, <1>9, <1>10, <1>11, <1>12, <1>13,
     <1>14 DEF RaceNext

\* Results are recorded by Record alone.
LEMMA StaleStep == RaceInv /\ [RaceNext]_raceVars => StaleOnlyWhileProfiling'
<1> SUFFICES ASSUME RaceInv, [RaceNext]_raceVars PROVE StaleOnlyWhileProfiling'
  OBVIOUS
<1> USE DEF RaceInv, StaleOnlyWhileProfiling
<1>1. CASE Record
  BY <1>1 DEF Record, TrialInv, Stages
<1>2. CASE UNCHANGED recorded
  BY <1>2
<1> QED
  BY <1>1, <1>2 DEF RaceNext, raceVars, script, NextRange, StartTrial, Narrow, StartStride,
     EndStride, Opt, Link, RunCode, RunBase, NoTimes, ProfileStep, ProfileStops, Goto, Raises,
     Command

\* The search ends without a result in Opt, Link or NoTimes.
LEMMA RaisedStep == RaceInv /\ [RaceNext]_raceVars => RaisedOnlyWhileProfiling'
<1> SUFFICES ASSUME RaceInv, [RaceNext]_raceVars PROVE RaisedOnlyWhileProfiling'
  OBVIOUS
<1> USE DEF RaceInv, RaisedOnlyWhileProfiling, TrialInv, ProfilerInv, Stages, Found
<1>1. CASE Opt
  BY <1>1 DEF Opt, Raises, Goto, script
<1>2. CASE Link
  BY <1>2 DEF Link, Raises, Goto, script
<1>3. CASE NoTimes
  BY <1>3 DEF NoTimes, Raises, Goto, script
<1>4. CASE StartTrial
  BY <1>4 DEF StartTrial
<1>5. CASE UNCHANGED overlapped /\ (pc' = pc \/ pc' # "raised")
  BY <1>5
<1> QED
  BY <1>1, <1>2, <1>3, <1>4, <1>5 DEF RaceNext, raceVars, script, NextRange, Narrow,
     StartStride, EndStride, RunCode, RunBase, Record, ProfileStep, ProfileStops, Goto, Command

\* In every reachable state of the search raced by the program that profiles,
\* the files, the profiler's progress, the trials and a raised error agree.
THEOREM RaceInvariant == Spec => []RaceInv
<1>1. RaceInv /\ [RaceNext]_raceVars => RaceInv'
  BY FilesInvStep, ProfilerInvStep, TrialInvStep, StaleStep, RaisedStep DEF RaceInv
<1> QED
  BY RaceInvInit, <1>1, PTL DEF Spec

-------------------------------------------------------------------------------
\* A result from an earlier search's profile, or from code compiled without one,
\* is recorded only for a trial that began before make profile was done.
THEOREM StaleOnlyWhileProfilingCorrect == Spec => []StaleOnlyWhileProfiling
  BY RaceInvariant, PTL DEF RaceInv

\* The search breaks off only in such a trial.
THEOREM RaisedOnlyWhileProfilingCorrect == Spec => []RaisedOnlyWhileProfiling
  BY RaceInvariant, PTL DEF RaceInv

-------------------------------------------------------------------------------
(* The numbers the search computes with.                                   *)

\* Ratios in lowest terms or not, which is of no matter to what they stand for.
Ratios == [num : Int, den : Nat \ {0}]

\* A set of naturals has a least element.
LEMMA LeastNatural ==
  ASSUME NEW T, T \subseteq Nat, T # {}
  PROVE  \E x \in T : \A y \in T : x <= y
<1>1. PICK x \in T : \A y \in T : ~ (<<y, x>> \in OpToRel(<, Nat))
  BY NatLessThanWellFounded, WFMin, Zenon
<1>2. \A y \in T : ~ (y < x)
  BY <1>1 DEF OpToRel
<1> QED
  BY <1>2

LEMMA DivisionIs ==
  ASSUME NEW n \in Int, NEW d \in Nat \ {0}
  PROVE  /\ n \div d \in Int /\ n % d \in 0..(d - 1)
         /\ n = d * (n \div d) + (n % d)
  OBVIOUS

\* A multiple leaves no remainder.
LEMMA MultipleIs ==
  ASSUME NEW n \in Int, NEW d \in Nat \ {0}
  PROVE  (n * d) % d = 0
<1> DEFINE q == (n * d) \div d
           r == (n * d) % d
<1>1. n * d \in Int
  OBVIOUS
<1>2. q \in Int /\ r \in 0..(d - 1) /\ n * d = d * q + r
  BY <1>1, DivisionIs
<1> HIDE DEF q, r
<1>3. (n - q) * d = r
  <2>1. (n - q) * d = n * d - d * q
    BY <1>2
  <2> QED
    BY <1>2, <2>1, <1>1
<1>4. n - q >= 1 => (n - q) * d >= d
  BY <1>2
<1>5. n - q <= -1 => (n - q) * d <= 0 - d
  BY <1>2
<1>6. r = 0
  BY <1>2, <1>3, <1>4, <1>5
<1> QED
  BY <1>6 DEF r

\* Bringing to lowest terms keeps the value.
LEMMA RatioIs ==
  ASSUME NEW n \in Int, NEW d \in Nat \ {0}
  PROVE  Ratio(n, d) \in Ratios /\ Ratio(n, d).num * d = n * Ratio(n, d).den
<1> DEFINE Even(e) == (n * e) % d = 0
           T == {e \in 1..d : Even(e)}
<1>1. \E e \in 1..d : Even(e) /\ \A f \in 1..(e - 1) : ~Even(f)
  <2>1. d \in T
    BY MultipleIs
  <2>2. T \subseteq Nat
    OBVIOUS
  <2>3. PICK e \in T : \A f \in T : e <= f
    <3> HIDE DEF T
    <3> QED
      BY <2>1, <2>2, LeastNatural
  <2>4. e \in 1..d /\ Even(e)
    OBVIOUS
  <2>5. ASSUME NEW f \in 1..(e - 1), Even(f)
        PROVE  FALSE
    <3>1. f \in 1..d /\ ~ (e <= f)
      BY <2>4
    <3>2. f \in T
      BY <3>1, <2>5
    <3> QED
      BY <2>3, <3>1, <3>2
  <2> QED
    BY <2>4, <2>5
<1> DEFINE least == CHOOSE e \in 1..d : Even(e) /\ \A f \in 1..(e - 1) : ~Even(f)
<1>2. least \in 1..d /\ Even(least)
  <2> HIDE DEF Even
  <2> QED
    BY <1>1
<1>3. Ratio(n, d) = [num |-> (n * least) \div d, den |-> least]
  BY Zenon DEF Ratio
<1> HIDE DEF least
<1>4. n * least \in Int
  BY <1>2
<1>5. (n * least) \div d \in Int /\ n * least = d * ((n * least) \div d) + 0
  BY <1>2, <1>4, DivisionIs
<1> QED
  BY <1>2, <1>3, <1>5 DEF Ratios

LEMMA SumIs ==
  ASSUME NEW a \in Ratios, NEW b \in Ratios
  PROVE  Plus(a, b) \in Ratios
<1>1. a.num * b.den + b.num * a.den \in Int
  BY DEF Ratios
<1>2. a.den * b.den \in Nat \ {0}
  BY DEF Ratios
<1> QED
  BY <1>1, <1>2, RatioIs DEF Plus

\* The order of ratios is one: it ranks them like numbers.
LEMMA Cancelled ==
  ASSUME NEW x \in Int, NEW y \in Int, NEW d \in Nat \ {0}
  PROVE  x <= y <=> x * d <= y * d
<1>1. (y - x) * d = y * d - x * d
  OBVIOUS
<1>2. y - x >= 0 => (y - x) * d >= 0
  OBVIOUS
<1>3. y - x <= -1 => (y - x) * d < 0
  OBVIOUS
<1>4. x * d \in Int /\ y * d \in Int
  OBVIOUS
<1> QED
  BY <1>1, <1>2, <1>3, <1>4

LEMMA CrossProducts ==
  ASSUME NEW x \in Ratios, NEW y \in Ratios
  PROVE  x.num * y.den \in Int /\ y.num * x.den \in Int
<1>1. x.num \in Int /\ x.den \in Int /\ y.num \in Int /\ y.den \in Int
  BY DEF Ratios
<1> QED
  BY <1>1

LEMMA NotBelowIs ==
  ASSUME NEW a \in Ratios, NEW b \in Ratios
  PROVE  ~Below(b, a) <=> a.num * b.den <= b.num * a.den
<1>1. a.num * b.den \in Int /\ b.num * a.den \in Int
  BY CrossProducts
<1> QED
  BY <1>1 DEF Below

LEMMA NotBelowItself ==
  ASSUME NEW a \in Ratios
  PROVE  ~Below(a, a)
<1>1. a.num * a.den \in Int
  BY CrossProducts
<1> QED
  BY <1>1, NotBelowIs

LEMMA NotBelowTransitive ==
  ASSUME NEW a \in Ratios, NEW b \in Ratios, NEW c \in Ratios, ~Below(b, a), ~Below(c, b)
  PROVE  ~Below(c, a)
<1> DEFINE p == a.num  q == a.den  r == b.num  s == b.den  t == c.num  u == c.den
<1>1. {p, r, t} \subseteq Int /\ {q, s, u} \subseteq Nat \ {0}
  BY DEF Ratios
<1>2. p * s <= r * q /\ r * u <= t * s
  BY NotBelowIs
<1>3. ~Below(c, a) <=> p * u <= t * q
  BY NotBelowIs
<1> HIDE DEF p, q, r, s, t, u
<1>4. {p * s, r * q, r * u, t * s, p * u, t * q} \subseteq Int
  BY <1>1
<1>5. (p * s) * u <= (r * q) * u /\ (r * u) * q <= (t * s) * q
  BY <1>1, <1>2, <1>4, Cancelled
<1>6. (p * s) * u = (p * u) * s /\ (r * q) * u = (r * u) * q /\ (t * s) * q = (t * q) * s
  BY <1>1
<1>7. (p * u) * s \in Int /\ (t * q) * s \in Int /\ (r * u) * q \in Int
  BY <1>1, <1>4
<1>8. (p * u) * s <= (t * q) * s
  BY <1>5, <1>6, <1>7
<1> QED
  BY <1>1, <1>3, <1>4, <1>8, Cancelled

\* Of finitely many, one is the first of the greatest.
LEMMA FirstGreatest ==
  ASSUME NEW n \in Nat, NEW f \in [0..n -> Ratios]
  PROVE  \E i \in 0..n : \A j \in 0..n : ~Below(f[i], f[j]) /\ (j < i => Below(f[j], f[i]))
<1> DEFINE Has(m) == \E i \in 0..m : \A j \in 0..m : ~Below(f[i], f[j]) /\ (j < i => Below(f[j], f[i]))
           Lacking == {m \in 0..n : ~Has(m)}
<1>1. SUFFICES ASSUME Lacking # {} PROVE FALSE
  <2>1. n \in 0..n
    OBVIOUS
  <2> QED
    BY <1>1, <2>1
<1>2. PICK m \in Lacking : \A k \in Lacking : m <= k
  <2>1. Lacking \subseteq Nat
    OBVIOUS
  <2> HIDE DEF Lacking
  <2> QED
    BY <1>1, <2>1, LeastNatural
<1>3. m \in 0..n /\ ~Has(m)
  OBVIOUS
<1>4. m # 0
  <2>1. Has(0)
    <3>1. 0 \in 0..0 /\ \A j \in 0..0 : j = 0
      OBVIOUS
    <3>2. f[0] \in Ratios
      OBVIOUS
    <3>3. ~Below(f[0], f[0])
      BY <3>2, NotBelowItself
    <3> QED
      BY <3>1, <3>3
  <2> QED
    BY <2>1, <1>3
<1>5. m - 1 \in 0..n /\ ~ (m <= m - 1)
  BY <1>3, <1>4
<1>6. Has(m - 1)
  BY <1>2, <1>5
<1>7. PICK i \in 0..(m - 1) : \A j \in 0..(m - 1) : ~Below(f[i], f[j]) /\ (j < i => Below(f[j], f[i]))
  BY <1>6
<1> HIDE DEF Lacking
<1>8. i \in 0..m /\ m \in 0..m /\ i < m
  BY <1>3, <1>4
<1>9. \A j \in 0..m : f[j] \in Ratios /\ (j = m \/ j \in 0..(m - 1))
  BY <1>3, <1>4
<1>10. CASE Below(f[i], f[m])
  <2>1. ~Below(f[m], f[m])
    BY <1>8, <1>9, NotBelowItself
  <2>2. ASSUME NEW j \in 0..(m - 1)
        PROVE  Below(f[j], f[m])
    <3>1. ~Below(f[i], f[j]) /\ f[i] \in Ratios /\ f[m] \in Ratios /\ f[j] \in Ratios
      BY <1>3, <1>5, <1>7
    <3>2. SUFFICES ASSUME ~Below(f[j], f[m]) PROVE FALSE
      OBVIOUS
    <3>3. ~Below(f[i], f[m])
      BY <3>1, <3>2, NotBelowTransitive
    <3> QED
      BY <1>10, <3>3
  <2>3. \A j \in 0..(m - 1) : ~Below(f[m], f[j])
    <3>1. SUFFICES ASSUME NEW j \in 0..(m - 1) PROVE ~Below(f[m], f[j])
      OBVIOUS
    <3>2. f[m] \in Ratios /\ f[j] \in Ratios
      BY <1>3, <1>5
    <3>3. f[j].num * f[m].den < f[m].num * f[j].den
      BY <2>2 DEF Below
    <3>4. f[m].num * f[j].den \in Int /\ f[j].num * f[m].den \in Int
      BY <3>2, CrossProducts
    <3> QED
      BY <3>2, <3>3, <3>4, NotBelowIs
  <2>4. \A j \in 0..m : ~Below(f[m], f[j]) /\ (j < m => Below(f[j], f[m]))
    BY <1>9, <2>1, <2>2, <2>3
  <2> QED
    BY <2>4, <1>8, <1>3
<1>11. CASE ~Below(f[i], f[m])
  <2>1. \A j \in 0..m : ~Below(f[i], f[j]) /\ (j < i => Below(f[j], f[i]))
    BY <1>7, <1>8, <1>9, <1>11
  <2> QED
    BY <2>1, <1>8, <1>3
<1> QED
  BY <1>10, <1>11

-------------------------------------------------------------------------------
(* The range, and the averages of its points.                              *)

Searching == Stages \cup {"trial"}

PointAt(i) == lo + i * Partition

RangeInv ==
  /\ pc \in Searching \cup {"range", "found", "raised"}
  /\ lo \in Ks /\ hi \in Ks /\ lo <= hi
  /\ at \in Nat
  /\ trial \in 0..(MAX_TRIALS - 1)
  /\ pc = "range" => at = 0 /\ trial = 0
  /\ pc \in Searching => Points > 0 /\ at <= Points
  /\ pc = "trial" /\ at = Points => trial = 0
  /\ pc \in Stages => at < Points

AveragesInv ==
  /\ average \in [Ks -> Ratios]
  /\ count \in [Ks -> Nat]
  /\ total \in [Ks -> Int]
  /\ AverageExact

\* The points before the one being tried have had their trials.
TimedInv ==
  pc \in Searching =>
    /\ \A i \in 0..(at - 1) : count[PointAt(i)] >= MAX_TRIALS
    /\ at < Points => count[K] >= trial

SearchInv == RangeInv /\ AveragesInv /\ TimedInv

LEMMA ScriptConstants ==
  /\ INITIAL_K \in Nat \ {0} /\ MAX_TRIALS \in Nat \ {0} /\ K_PARTITIONS \in Nat /\ K_PARTITIONS >= 3
  /\ Performances \subseteq Int
  BY SearchAssumption

\* The points make_range lists lie in the range, and there are four or more: a
\* range has at least as many parts as it was to be divided into.
LEMMA PointsInRange ==
  ASSUME RangeInv
  PROVE  /\ Partition \in Nat /\ Points \in Nat
         /\ Partition * K_PARTITIONS <= hi - lo
         /\ Points > 0 => Partition > 0 /\ Points >= 4
         /\ \A i \in Nat : i < Points => PointAt(i) \in Ks /\ lo <= PointAt(i) /\ PointAt(i) <= hi
<1> DEFINE w == hi - lo
           last == w \div Partition
<1>1. w \in Nat /\ lo \in Nat /\ hi \in Nat /\ hi <= INITIAL_K
  BY ScriptConstants DEF RangeInv, Ks
<1>2. Partition \in Nat /\ Partition * K_PARTITIONS <= w
  <2>1. Partition = w \div K_PARTITIONS
    BY DEF Partition
  <2>2. w \div K_PARTITIONS \in Int /\ w % K_PARTITIONS \in 0..(K_PARTITIONS - 1)
        /\ w = K_PARTITIONS * (w \div K_PARTITIONS) + (w % K_PARTITIONS)
    <3>1. w \in Int /\ K_PARTITIONS \in Nat \ {0}
      BY <1>1, ScriptConstants
    <3> HIDE DEF w
    <3> QED
      BY <3>1, DivisionIs
  <2> HIDE DEF w
  <2>3. Partition \in Int /\ K_PARTITIONS * Partition <= w /\ w - K_PARTITIONS * Partition < K_PARTITIONS
    BY <1>1, <2>1, <2>2, ScriptConstants
  <2>4. Partition <= -1 => K_PARTITIONS * Partition <= 0 - K_PARTITIONS
    BY <2>3, ScriptConstants
  <2> QED
    BY <1>1, <2>3, <2>4, ScriptConstants
<1>3. ASSUME Partition > 0
      PROVE  last \in Nat /\ last * Partition <= w /\ last >= 3
  <2>1. w = Partition * last + (w % Partition) /\ w % Partition \in 0..(Partition - 1) /\ last \in Int
    BY <1>1, <1>2, <1>3, DivisionIs
  <2> HIDE DEF w, last
  <2>2. w - Partition * last < Partition
    BY <1>1, <1>2, <2>1
  <2>3. Partition * 3 <= Partition * K_PARTITIONS
    BY <1>2, ScriptConstants
  <2>4. last <= 2 => Partition * last <= Partition * 2
    BY <1>2, <2>1
  <2>5. last >= 3
    BY <1>1, <1>2, <2>1, <2>2, <2>3, <2>4, ScriptConstants
  <2> QED
    BY <1>1, <1>2, <2>1, <2>5
<1>4. Points \in Nat /\ (Points > 0 => Partition > 0 /\ Points = last + 1 /\ Points >= 4)
  BY <1>2, <1>3 DEF Points
<1>5. ASSUME NEW i \in Nat, i < Points
      PROVE  PointAt(i) \in Ks /\ lo <= PointAt(i) /\ PointAt(i) <= hi
  <2>1. Partition > 0 /\ Points = last + 1
    BY <1>4, <1>5
  <2>2. last \in Nat /\ last * Partition <= w
    BY <1>3, <2>1
  <2> HIDE DEF last
  <2>3. i <= last
    BY <2>1, <2>2, <1>5
  <2>4. i * Partition \in Nat /\ i * Partition <= last * Partition
    BY <2>2, <2>3, <1>2
  <2>5. i * Partition <= w /\ w = hi - lo /\ last * Partition \in Nat
    BY <2>2, <2>4, <1>1, <1>2
  <2> HIDE DEF w
  <2>6. lo + i * Partition \in Nat /\ lo + i * Partition <= hi
    BY <1>1, <2>4, <2>5
  <2> QED
    BY <1>1, <2>4, <2>6, ScriptConstants DEF PointAt, Ks
<1> QED
  BY <1>2, <1>4, <1>5

LEMMA RangeUnchanged ==
  ASSUME UNCHANGED <<lo, hi>>
  PROVE  Points' = Points /\ Partition' = Partition /\ \A i : PointAt(i)' = PointAt(i)
  BY DEF Points, Partition, PointAt

LEMMA SearchInvInit == RaceInit => SearchInv
<1> SUFFICES ASSUME RaceInit PROVE SearchInv
  OBVIOUS
<1>1. 0 \in Ks /\ INITIAL_K \in Ks
  BY ScriptConstants DEF Ks
<1>2. Ratio(0, 1) \in Ratios /\ Ratio(0, 1).num * 1 = 0 * Ratio(0, 1).den
  BY RatioIs
<1>3. RangeInv
  BY <1>1, ScriptConstants DEF RaceInit, RangeInv, Searching, Stages
<1>4. AveragesInv
  <2>1. ASSUME NEW k \in Ks
        PROVE  average[k].num * count[k] = total[k] * average[k].den
    <3>1. average[k] = Ratio(0, 1) /\ count[k] = 0 /\ total[k] = 0
      BY DEF RaceInit
    <3>2. Ratio(0, 1).num \in Int /\ Ratio(0, 1).den \in Int
      BY <1>2 DEF Ratios
    <3> QED
      BY <3>1, <3>2
  <2>2. average \in [Ks -> Ratios] /\ count \in [Ks -> Nat] /\ total \in [Ks -> Int]
    BY <1>2 DEF RaceInit
  <2> QED
    BY <2>1, <2>2 DEF AveragesInv, AverageExact
<1>5. TimedInv
  BY DEF RaceInit, TimedInv, Searching, Stages
<1> QED
  BY <1>3, <1>4, <1>5 DEF SearchInv

\* The step of Results.add.
LEMMA AverageStep ==
  ASSUME NEW a \in Ratios, NEW n \in Nat, NEW t \in Int, NEW p \in Int, a.num * n = t * a.den
  PROVE  LET b == Ratio(a.num * n + p * a.den, a.den * (n + 1))
         IN  b \in Ratios /\ b.num * (n + 1) = (t + p) * b.den
<1> DEFINE x == a.num * n + p * a.den
           d == a.den
           b == Ratio(x, d * (n + 1))
<1>1. d \in Nat \ {0} /\ a.num \in Int
  BY DEF Ratios
<1>2. x \in Int /\ d * (n + 1) \in Nat \ {0} /\ x = (t + p) * d
  <2>1. a.num * n = t * d
    OBVIOUS
  <2>2. x = t * d + p * d
    BY <2>1
  <2> HIDE DEF x, d
  <2> QED
    BY <1>1, <2>2
<1> HIDE DEF x
<1>3. b \in Ratios /\ b.num * (d * (n + 1)) = x * b.den
  <2> HIDE DEF d
  <2> QED
    BY <1>2, RatioIs
<1>4. b.num \in Int /\ b.den \in Nat \ {0}
  BY <1>3 DEF Ratios
<1> HIDE DEF b, d
<1> DEFINE l == b.num * (n + 1)
           r == (t + p) * b.den
<1>5. l \in Int /\ r \in Int
  BY <1>4
<1>6. l * d = r * d
  BY <1>1, <1>2, <1>3, <1>4
<1>7. l = r
  <2> HIDE DEF l, r
  <2>1. l * d \in Int /\ r * d \in Int
    BY <1>1, <1>5
  <2>2. l <= r /\ r <= l
    BY <1>1, <1>5, <1>6, <2>1, Cancelled
  <2> QED
    BY <1>5, <2>2
<1> QED
  BY <1>3, <1>7 DEF b, d, x

\* Every point's average is a number, so that one window is the first best.
LEMMA BestWindow ==
  ASSUME SearchInv, Points > 0
  PROVE  RangeBegin \in Windows
<1>1. /\ Points \in Nat /\ Points >= 4
      /\ \A i \in Nat : i < Points => PointAt(i) \in Ks
  BY PointsInRange DEF SearchInv
<1> DEFINE n == Points - CONSECUTIVE
           f == [i \in 0..n |-> Window(i)]
<1>2. n \in Nat /\ Windows = 0..n
  BY <1>1 DEF Windows, CONSECUTIVE
<1>3. ASSUME NEW i \in Nat, i < Points
      PROVE  average[lo + i * Partition] \in Ratios
  BY <1>1, <1>3 DEF SearchInv, AveragesInv, PointAt
<1>4. ASSUME NEW i \in 0..n
      PROVE  Window(i) \in Ratios
  <2> DEFINE Perf(j) == average[lo + j * Partition]
  <2>1. i \in Nat /\ i + 1 \in Nat /\ i + 2 \in Nat /\ i < Points /\ i + 1 < Points /\ i + 2 < Points
    BY <1>1, <1>2 DEF CONSECUTIVE
  <2>2. Perf(i) \in Ratios /\ Perf(i + 1) \in Ratios /\ Perf(i + 2) \in Ratios
    BY <1>3, <2>1
  <2>3. Window(i) = Plus(Plus(Perf(i), Perf(i + 1)), Perf(i + 2))
    BY DEF Window
  <2> HIDE DEF Perf
  <2> QED
    BY <2>2, <2>3, SumIs
<1>5. f \in [0..n -> Ratios]
  BY <1>4
<1>6. \A i \in 0..n : f[i] = Window(i)
  OBVIOUS
<1> HIDE DEF n, f
<1>7. PICK i \in 0..n : \A j \in 0..n : ~Below(f[i], f[j]) /\ (j < i => Below(f[j], f[i]))
  BY <1>2, <1>5, FirstGreatest
<1>8. \A j \in 0..n : ~Below(Window(i), Window(j)) /\ (j < i => Below(Window(j), Window(i)))
  BY <1>6, <1>7
<1> QED
  BY <1>2, <1>8, Zenon DEF RangeBegin

\* The range a narrowing gives, which lies in the old one and is shorter.
LEMMA NarrowedRange ==
  ASSUME SearchInv, Narrow
  PROVE  /\ lo' \in Ks /\ hi' \in Ks
         /\ lo <= lo' /\ lo' <= hi' /\ hi' <= hi
         /\ hi' - lo' = 2 * Partition /\ hi' - lo' < hi - lo
         /\ at' = 0 /\ trial' = trial /\ pc' = "range"
<1>1. /\ lo' = lo + RangeBegin * Partition /\ hi' = lo' + (CONSECUTIVE - 1) * Partition
      /\ at' = 0 /\ trial' = trial /\ pc' = "range" /\ pc = "trial" /\ at = Points
  BY DEF Narrow
<1>2. Points > 0
  BY <1>1 DEF SearchInv, RangeInv, Searching
<1>3. /\ Partition \in Nat /\ Partition > 0 /\ Points \in Nat
      /\ Partition * K_PARTITIONS <= hi - lo
      /\ \A i \in Nat : i < Points => PointAt(i) \in Ks /\ lo <= PointAt(i) /\ PointAt(i) <= hi
  BY <1>2, PointsInRange DEF SearchInv
<1>4. RangeBegin \in Nat /\ RangeBegin + 2 \in Nat /\ RangeBegin < Points /\ RangeBegin + 2 < Points
  BY <1>2, <1>3, BestWindow DEF Windows, CONSECUTIVE
<1>5. lo \in Int /\ hi \in Int /\ lo' = PointAt(RangeBegin)
  BY <1>1, ScriptConstants DEF SearchInv, RangeInv, Ks, PointAt
<1>6. hi' = PointAt(RangeBegin + 2)
  <2>1. (RangeBegin + 2) * Partition = RangeBegin * Partition + 2 * Partition
    BY <1>3, <1>4
  <2>2. RangeBegin * Partition \in Int
    BY <1>3, <1>4
  <2> QED
    BY <1>1, <1>3, <1>5, <2>1, <2>2 DEF PointAt, CONSECUTIVE
<1>7. /\ PointAt(RangeBegin) \in Ks /\ lo <= PointAt(RangeBegin)
      /\ PointAt(RangeBegin + 2) \in Ks /\ PointAt(RangeBegin + 2) <= hi
  BY <1>3, <1>4
<1>8. hi' = lo' + 2 * Partition /\ lo' \in Int
  BY <1>1, <1>5, <1>7, ScriptConstants DEF CONSECUTIVE, Ks
<1>9. Partition * 3 <= Partition * K_PARTITIONS
  BY <1>3, ScriptConstants
<1>10. 2 * Partition < hi - lo
  BY <1>3, <1>5, <1>9, ScriptConstants
<1> QED
  BY <1>1, <1>3, <1>5, <1>6, <1>7, <1>8, <1>10

LEMMA RangeStep == SearchInv /\ [RaceNext]_raceVars => RangeInv'
<1> SUFFICES ASSUME SearchInv, [RaceNext]_raceVars PROVE RangeInv'
  OBVIOUS
<1>0. RangeInv /\ Points \in Nat
  BY PointsInRange DEF SearchInv
<1> USE DEF RangeInv, Searching, Stages, Goto, script
<1>1. CASE UNCHANGED raceVars
  BY <1>0, <1>1, RangeUnchanged DEF raceVars
<1>2. CASE NextRange
  BY <1>0, <1>2, RangeUnchanged DEF NextRange
<1>3. CASE StartTrial
  BY <1>0, <1>3, RangeUnchanged DEF StartTrial
<1>4. CASE Narrow
  <2>1. trial = 0
    BY <1>4 DEF Narrow, SearchInv
  <2> QED
    BY <1>0, <1>4, <2>1, NarrowedRange
<1>5. CASE StartStride
  BY <1>0, <1>5, RangeUnchanged DEF StartStride
<1>6. CASE EndStride
  BY <1>0, <1>6, RangeUnchanged DEF EndStride
<1>7. CASE Opt
  BY <1>0, <1>7, RangeUnchanged DEF Opt, Raises
<1>8. CASE Link
  BY <1>0, <1>8, RangeUnchanged DEF Link, Raises
<1>9. CASE RunCode
  BY <1>0, <1>9, RangeUnchanged DEF RunCode
<1>10. CASE RunBase
  BY <1>0, <1>10, RangeUnchanged DEF RunBase
<1>11. CASE Record
  <2>1. UNCHANGED <<lo, hi>> /\ pc = "tail" /\ pc' = "trial"
    BY <1>11 DEF Record
  <2>2. \/ trial + 1 = MAX_TRIALS /\ at' = at + 1 /\ trial' = 0
        \/ trial + 1 # MAX_TRIALS /\ at' = at /\ trial' = trial + 1
    BY <1>11 DEF Record
  <2>3. Points' = Points /\ at < Points
    BY <1>0, <2>1, RangeUnchanged
  <2>4. /\ trial' \in 0..(MAX_TRIALS - 1) /\ at' \in Nat /\ at' <= Points
        /\ at' = Points => trial' = 0
    BY <1>0, <2>2, <2>3, ScriptConstants
  <2> QED
    BY <1>0, <2>1, <2>3, <2>4
<1>12. CASE NoTimes
  BY <1>0, <1>12, RangeUnchanged DEF NoTimes, Raises
<1>13. CASE ProfileStep
  BY <1>0, <1>13, RangeUnchanged DEF ProfileStep, Command
<1>14. CASE ProfileStops
  BY <1>0, <1>14, RangeUnchanged DEF ProfileStops
<1> QED
  BY <1>1, <1>2, <1>3, <1>4, <1>5, <1>6, <1>7, <1>8, <1>9, <1>10, <1>11, <1>12, <1>13,
     <1>14 DEF RaceNext

\* Only Record changes an average, a count or a total, and those of one point.
LEMMA AveragesStep == SearchInv /\ [RaceNext]_raceVars => AveragesInv'
<1> SUFFICES ASSUME SearchInv, [RaceNext]_raceVars PROVE AveragesInv'
  OBVIOUS
<1>0. AveragesInv
  BY DEF SearchInv
<1>1. CASE UNCHANGED <<average, count, total>>
  BY <1>0, <1>1 DEF AveragesInv, AverageExact
<1>2. CASE Record
  <2>1. PICK p \in Performances : /\ average' = [average EXCEPT ![K] = Averaged(K, p)]
                                  /\ total' = [total EXCEPT ![K] = total[K] + p]
    BY <1>2 DEF Record
  <2>2. count' = [count EXCEPT ![K] = count[K] + 1]
    BY <1>2 DEF Record
  <2>3. K \in Ks
    BY <1>2, PointsInRange DEF SearchInv, RangeInv, Record, Stages, PointAt, K
  <2>4. /\ average[K] \in Ratios /\ count[K] \in Nat /\ total[K] \in Int /\ p \in Int
        /\ average[K].num * count[K] = total[K] * average[K].den
    BY <1>0, <2>3, ScriptConstants DEF AveragesInv, AverageExact
  <2>5. /\ Averaged(K, p) \in Ratios
        /\ Averaged(K, p).num * (count[K] + 1) = (total[K] + p) * Averaged(K, p).den
    BY <2>4, AverageStep DEF Averaged
  <2> HIDE DEF K
  <2>6. average' \in [Ks -> Ratios] /\ count' \in [Ks -> Nat] /\ total' \in [Ks -> Int]
    <3>1. count[K] + 1 \in Nat /\ total[K] + p \in Int
      BY <2>4
    <3> QED
      BY <1>0, <2>1, <2>2, <2>5, <3>1 DEF AveragesInv
  <2>7. ASSUME NEW k \in Ks
        PROVE  average'[k].num * count'[k] = total'[k] * average'[k].den
    <3>1. CASE k = K
      <4>1. average'[k] = Averaged(K, p) /\ count'[k] = count[K] + 1 /\ total'[k] = total[K] + p
        BY <1>0, <2>1, <2>2, <2>3, <3>1 DEF AveragesInv
      <4> QED
        BY <2>5, <4>1
    <3>2. CASE k # K
      <4>1. average'[k] = average[k] /\ count'[k] = count[k] /\ total'[k] = total[k]
        BY <1>0, <2>1, <2>2, <3>2 DEF AveragesInv
      <4> QED
        BY <1>0, <4>1 DEF AveragesInv, AverageExact
    <3> QED
      BY <3>1, <3>2
  <2> QED
    BY <2>6, <2>7 DEF AveragesInv, AverageExact
<1> QED
  BY <1>1, <1>2 DEF RaceNext, raceVars, script, NextRange, StartTrial, Narrow, StartStride,
     EndStride, Opt, Link, RunCode, RunBase, NoTimes, ProfileStep, ProfileStops, Goto, Raises,
     Command

LEMMA TimedStep == SearchInv /\ [RaceNext]_raceVars => TimedInv'
<1> SUFFICES ASSUME SearchInv, [RaceNext]_raceVars PROVE TimedInv'
  OBVIOUS
<1>0. TimedInv /\ RangeInv
  BY DEF SearchInv
<1>1. CASE /\ UNCHANGED <<lo, hi, at, trial, count>>
           /\ pc' \in Searching => pc \in Searching
  <2>1. Points' = Points /\ K' = K /\ \A i : PointAt(i)' = PointAt(i)
    BY <1>1, RangeUnchanged DEF K
  <2> QED
    BY <1>0, <1>1, <2>1 DEF TimedInv
<1>2. CASE NextRange
  <2>1. UNCHANGED script /\ pc = "range"
    BY <1>2 DEF NextRange
  <2>2. at = 0 /\ trial = 0
    BY <1>0, <2>1 DEF RangeInv
  <2>3. Points > 0 => K \in Ks
    BY <2>2, PointsInRange DEF SearchInv, PointAt, K
  <2>4. Points > 0 => count[K] \in Nat
    BY <2>3 DEF SearchInv, AveragesInv
  <2>5. Points' = Points /\ K' = K /\ at' = 0 /\ trial' = 0 /\ count' = count
    BY <2>1, <2>2, RangeUnchanged DEF K, script
  <2> QED
    BY <2>4, <2>5, <2>2 DEF TimedInv
<1>3. CASE Narrow
  BY <1>3, NarrowedRange DEF TimedInv, Searching, Stages
<1>4. CASE Record
  <2>1. UNCHANGED <<lo, hi>> /\ pc = "tail" /\ count' = [count EXCEPT ![K] = count[K] + 1]
    BY <1>4 DEF Record
  <2>2. \/ trial + 1 = MAX_TRIALS /\ at' = at + 1 /\ trial' = 0
        \/ trial + 1 # MAX_TRIALS /\ at' = at /\ trial' = trial + 1
    BY <1>4 DEF Record
  <2>3. /\ Points' = Points /\ \A i : PointAt(i)' = PointAt(i)
        /\ K = PointAt(at) /\ K' = PointAt(at')
    BY <2>1, RangeUnchanged DEF K, PointAt
  <2>4. /\ at < Points /\ Points \in Nat /\ at \in Nat /\ trial \in Nat
        /\ \A i \in Nat : i < Points => PointAt(i) \in Ks
    BY <1>0, <2>1, PointsInRange, ScriptConstants DEF RangeInv, Stages
  <2>5. count \in [Ks -> Nat]
    BY DEF SearchInv, AveragesInv
  <2>6. /\ \A i \in 0..(at - 1) : count[PointAt(i)] >= MAX_TRIALS
        /\ count[K] >= trial
    BY <1>0, <2>1, <2>4 DEF TimedInv, Searching, Stages
  <2>7. \A k \in Ks : count'[k] \in Nat /\ count'[k] >= count[k] /\ count[k] \in Nat
    BY <2>1, <2>5
  <2>8. count'[K] >= trial + 1
    BY <2>1, <2>3, <2>4, <2>5, <2>6
  <2>9. ASSUME NEW i \in 0..(at - 1)
        PROVE  count'[PointAt(i)] >= MAX_TRIALS
    <3>1. PointAt(i) \in Ks
      BY <2>4
    <3> QED
      BY <2>6, <2>7, <3>1, ScriptConstants
  <2>10. CASE trial + 1 = MAX_TRIALS /\ at' = at + 1 /\ trial' = 0
    <3>1. \A i \in 0..(at' - 1) : i \in 0..(at - 1) \/ i = at
      BY <2>4, <2>10
    <3>2. count'[PointAt(at)] >= MAX_TRIALS
      BY <2>3, <2>8, <2>10
    <3>3. \A i \in 0..(at' - 1) : count'[PointAt(i)] >= MAX_TRIALS
      BY <2>9, <3>1, <3>2
    <3>4. at' < Points => count'[K'] >= trial'
      BY <2>3, <2>4, <2>7, <2>10
    <3> QED
      BY <2>3, <3>3, <3>4 DEF TimedInv
  <2>11. CASE at' = at /\ trial' = trial + 1
    BY <2>3, <2>8, <2>9, <2>11 DEF TimedInv
  <2> QED
    BY <2>2, <2>10, <2>11
<1> QED
  BY <1>1, <1>2, <1>3, <1>4 DEF RaceNext, raceVars, script, StartTrial, StartStride, EndStride,
     Opt, Link, RunCode, RunBase, NoTimes, ProfileStep, ProfileStops, Goto, Raises, Command,
     Searching, Stages

\* The search's own bookkeeping, whatever the race does to its files.
THEOREM SearchInvariant == Spec => []SearchInv
<1>1. SearchInv /\ [RaceNext]_raceVars => SearchInv'
  BY RangeStep, AveragesStep, TimedStep DEF SearchInv
<1> QED
  BY SearchInvInit, <1>1, PTL DEF Spec

\* Results.add: the number a K is ranked by is the average of all its runs, for
\* any speed-ups and any number of runs.
THEOREM AverageCorrect == Spec => []AverageExact
<1>1. SearchInv => AverageExact
  BY DEF SearchInv, AveragesInv
<1> QED
  BY <1>1, SearchInvariant, PTL

\* When get_best_range_begin compares the windows, each point it asks the average
\* of was timed at least MAX_TRIALS times, so that avg_performance has it, and all
\* of them are Ks of the original range.
RankedIsTimed ==
  pc = "trial" /\ at = Points =>
    \A i \in 0..(Points - 1) : lo + i * Partition \in Ks /\ count[lo + i * Partition] >= MAX_TRIALS

THEOREM RankedIsTimedCorrect == Spec => []RankedIsTimed
<1>1. ASSUME SearchInv, pc = "trial", at = Points, NEW i \in 0..(Points - 1)
      PROVE  lo + i * Partition \in Ks /\ count[lo + i * Partition] >= MAX_TRIALS
  BY <1>1, PointsInRange DEF SearchInv, TimedInv, Searching, PointAt
<1>2. SearchInv => RankedIsTimed
  BY <1>1 DEF RankedIsTimed
<1> QED
  BY <1>2, SearchInvariant, PTL

\* The while loop of bin_find_optimal_k: a range gives way to one within it that is
\* strictly shorter.
THEOREM RaceRangeShrinks ==
  Spec => [][Narrow => lo <= lo' /\ hi' <= hi /\ hi' - lo' < hi - lo]_raceVars
<1>1. SearchInv /\ [RaceNext]_raceVars
        => [Narrow => lo <= lo' /\ hi' <= hi /\ hi' - lo' < hi - lo]_raceVars
  BY NarrowedRange
<1> QED
  BY <1>1, SearchInvariant, PTL DEF Spec

-------------------------------------------------------------------------------
(* How much is left of the search and of the profiling: a natural number     *)
(* that each step of either makes smaller.  The positions of a range count    *)
(* its trials and the commands of each; Slice is more than any range has.    *)
PerTrial == 8
PerK == MAX_TRIALS * PerTrial
Longest == 1 + (INITIAL_K + 1) * PerK
Slice == Longest + 1

Stage ==
  CASE pc = "stride" -> 1
    [] pc = "stride_exit" -> 2
    [] pc = "opt" -> 3
    [] pc = "link" -> 4
    [] pc = "run" -> 5
    [] pc = "run_base" -> 6
    [] pc = "tail" -> 7
    [] OTHER -> 0

Position == IF pc = "range" THEN 0 ELSE 1 + at * PerK + trial * PerTrial + Stage

SearchLeft ==
  IF pc \in {"found", "raised"} THEN 0
  ELSE 1 + (hi - lo) * Slice + (Longest - Position)

ProfileLeft ==
  CASE profiler = "idle" -> 8
    [] profiler = "clean" -> 7
    [] profiler = "clean_outputs" -> 6
    [] profiler = "clean_code" -> 5
    [] profiler = "bitcode" -> 4
    [] profiler = "base" -> 3
    [] profiler = "edges" -> 2
    [] profiler = "stride" -> 1
    [] OTHER -> 0

Left == SearchLeft + ProfileLeft

Most == 1 + INITIAL_K * Slice + Longest + 8

\* Every step, of the script or of make profile, leaves less to do.
StepsCounted == [](Left \in 0..Most) /\ [][Left' < Left]_raceVars

LEMMA Products ==
  ASSUME NEW w \in Nat, NEW v \in Nat, NEW d \in Nat
  PROVE  /\ w * d \in Nat
         /\ w <= v => w * d <= v * d
         /\ w < v => w * d + d <= v * d
<1>1. w * d \in Nat /\ v * d \in Nat
  OBVIOUS
<1>2. ASSUME w <= v PROVE w * d <= v * d
  <2>1. v - w \in Nat
    BY <1>2
  <2>2. (v - w) * d \in Nat
    BY <2>1
  <2>3. (v - w) * d = v * d - w * d
    OBVIOUS
  <2> QED
    BY <1>1, <2>2, <2>3
<1>3. ASSUME w < v PROVE w * d + d <= v * d
  <2>1. v - (w + 1) \in Nat
    BY <1>3
  <2>2. (v - (w + 1)) * d \in Nat
    BY <2>1
  <2>3. (v - (w + 1)) * d = v * d - (w * d + d)
    OBVIOUS
  <2> QED
    BY <1>1, <2>2, <2>3
<1> QED
  BY <1>1, <1>2, <1>3

LEMMA Magnitudes ==
  /\ PerK \in Nat /\ PerK = MAX_TRIALS * 8 /\ Longest \in Nat /\ Slice \in Nat /\ Most \in Nat
  /\ INITIAL_K * Slice \in Nat
  /\ Slice = Longest + 1
<1>1. INITIAL_K \in Nat /\ INITIAL_K + 1 \in Nat /\ MAX_TRIALS \in Nat \ {0}
  BY ScriptConstants
<1>2. PerK \in Nat /\ PerK = MAX_TRIALS * 8
  BY <1>1 DEF PerK, PerTrial
<1>3. (INITIAL_K + 1) * PerK \in Nat
  BY <1>1, <1>2, Products
<1>4. Longest \in Nat /\ Slice \in Nat
  BY <1>3 DEF Longest, Slice
<1>5. INITIAL_K * Slice \in Nat
  BY <1>1, <1>4, Products
<1> QED
  BY <1>2, <1>4, <1>5 DEF Most, Slice

\* A range has no more points than integers.
LEMMA PointsBounded ==
  ASSUME RangeInv
  PROVE  Points \in Nat /\ Points <= INITIAL_K + 1
<1>1. hi - lo \in Nat /\ hi - lo <= INITIAL_K /\ INITIAL_K \in Nat
  BY ScriptConstants DEF RangeInv, Ks
<1>2. Partition \in Nat /\ Points \in Nat
  BY PointsInRange
<1>3. ASSUME Partition # 0
      PROVE  (hi - lo) \div Partition <= hi - lo
  <2> DEFINE parts == (hi - lo) \div Partition
             rest == (hi - lo) % Partition
  <2>1. /\ parts \in Int /\ rest \in 0..(Partition - 1)
        /\ hi - lo = Partition * parts + rest
    <3> DEFINE w == hi - lo
               p == Partition
    <3>1. w \in Int /\ p \in Nat \ {0}
      BY <1>1, <1>2, <1>3
    <3> HIDE DEF w, p
    <3>2. w \div p \in Int /\ w % p \in 0..(p - 1) /\ w = p * (w \div p) + (w % p)
      BY <3>1, DivisionIs
    <3> QED
      BY <3>2 DEF w, p
  <2> HIDE DEF parts, rest
  <2>2. ASSUME parts >= 0 PROVE parts <= Partition * parts
    <3>1. parts \in Nat /\ 1 * parts <= Partition * parts
      BY <1>2, <1>3, <2>1, <2>2, Products
    <3> QED
      BY <3>1
  <2>3. Partition * parts \in Int
    BY <1>2, <2>1
  <2>4. parts <= hi - lo
    BY <1>1, <1>2, <2>1, <2>2, <2>3
  <2> QED
    BY <2>4 DEF parts
<1> QED
  BY <1>1, <1>2, <1>3 DEF Points

\* Where the search is in the range, and what is left of it.
InSearch ==
  RangeInv /\ pc \notin {"found", "raised"} =>
    /\ Position \in Nat /\ Position <= Longest
    /\ hi - lo \in Nat
    /\ (hi - lo) * Slice \in Nat /\ (hi - lo) * Slice <= INITIAL_K * Slice
    /\ SearchLeft = 1 + (hi - lo) * Slice + (Longest - Position)

LEMMA SearchBounded == InSearch
<1> SUFFICES ASSUME RangeInv, pc \notin {"found", "raised"}
             PROVE  /\ Position \in Nat /\ Position <= Longest
                    /\ hi - lo \in Nat
                    /\ (hi - lo) * Slice \in Nat /\ (hi - lo) * Slice <= INITIAL_K * Slice
                    /\ SearchLeft = 1 + (hi - lo) * Slice + (Longest - Position)
  BY DEF InSearch
<1>1. hi - lo \in Nat /\ hi - lo <= INITIAL_K /\ INITIAL_K \in Nat
  BY ScriptConstants DEF RangeInv, Ks
<1>2. (hi - lo) * Slice \in Nat /\ (hi - lo) * Slice <= INITIAL_K * Slice
  BY <1>1, Magnitudes, Products
<1>3. Position \in Nat /\ Position <= Longest
  <2>1. CASE pc = "range"
    BY <2>1, Magnitudes DEF Position
  <2>2. CASE pc \in Searching
    <3>1. /\ at \in Nat /\ at <= Points /\ Points <= INITIAL_K + 1 /\ Points \in Nat
          /\ trial \in 0..(MAX_TRIALS - 1) /\ MAX_TRIALS \in Nat
      BY <2>2, PointsBounded, ScriptConstants DEF RangeInv
    <3>2. Position = 1 + at * PerK + trial * 8 + Stage /\ Stage \in 0..7
      BY <2>2 DEF Position, Searching, Stages, PerTrial, Stage
    <3>3. at * PerK \in Nat /\ at * PerK <= (INITIAL_K + 1) * PerK
          /\ (INITIAL_K + 1) * PerK \in Nat
      BY <1>1, <3>1, Magnitudes, Products
    <3>4. CASE pc = "trial" /\ at = Points
      <4>1. Stage = 0 /\ trial = 0
        BY <3>4 DEF Stage, RangeInv
      <4> QED
        BY <3>2, <3>3, <4>1 DEF Longest
    <3>5. CASE at < Points
      <4>1. at * PerK + PerK <= (INITIAL_K + 1) * PerK
        BY <3>1, <3>5, <1>1, Magnitudes, Products
      <4>2. trial * 8 + Stage <= PerK /\ trial * 8 + Stage \in Nat
        BY <3>1, <3>2, Magnitudes
      <4> QED
        BY <3>2, <3>3, <4>1, <4>2, <3>1, Magnitudes DEF Longest
    <3> QED
      BY <2>2, <3>1, <3>4, <3>5 DEF RangeInv, Searching
  <2> QED
    BY <2>1, <2>2 DEF RangeInv
<1>4. SearchLeft = 1 + (hi - lo) * Slice + (Longest - Position)
  BY DEF SearchLeft
<1> QED
  BY <1>1, <1>2, <1>3, <1>4

LEMMA SearchBoundedNext == InSearch'
  BY SearchBounded, PTL

LEMMA LeftBounded ==
  ASSUME RangeInv
  PROVE  SearchLeft \in Nat /\ ProfileLeft \in 0..8 /\ Left \in 0..Most
<1>1. SearchLeft \in Nat /\ SearchLeft <= 1 + INITIAL_K * Slice + Longest
  <2>1. CASE pc \in {"found", "raised"}
    BY <2>1, Magnitudes DEF SearchLeft
  <2>2. CASE pc \notin {"found", "raised"}
    <3> DEFINE now == (hi - lo) * Slice
               all == INITIAL_K * Slice
    <3>1. /\ now \in Nat /\ all \in Nat /\ now <= all
          /\ Position \in Nat /\ Position <= Longest /\ Longest \in Nat
          /\ SearchLeft = 1 + now + (Longest - Position)
      BY <2>2, SearchBounded, Magnitudes DEF InSearch
    <3> HIDE DEF now, all
    <3>2. SearchLeft \in Nat /\ SearchLeft <= 1 + all + Longest
      BY <3>1
    <3> QED
      BY <3>2 DEF all
  <2> QED
    BY <2>1, <2>2
<1>2. ProfileLeft \in 0..8
  BY DEF ProfileLeft
<1> QED
  BY <1>1, <1>2, Magnitudes DEF Left, Most

LEMMA LeftBoundedNext == (RangeInv => SearchLeft \in Nat /\ ProfileLeft \in 0..8)'
<1>1. RangeInv => SearchLeft \in Nat /\ ProfileLeft \in 0..8
  BY LeftBounded
<1> QED
  BY <1>1, PTL

\* A step of the script that keeps to the range goes forward in it...
LEMMA Forward ==
  ASSUME RangeInv, RangeInv', pc \notin {"found", "raised"}, pc' \notin {"found", "raised"},
         UNCHANGED <<lo, hi>>, Position < Position'
  PROVE  SearchLeft' < SearchLeft
<1>1. /\ Position \in Nat /\ Position <= Longest /\ (hi - lo) * Slice \in Nat
      /\ SearchLeft = 1 + (hi - lo) * Slice + (Longest - Position)
  BY SearchBounded DEF InSearch
<1>2. /\ Position' \in Nat
      /\ SearchLeft' = 1 + (hi' - lo') * Slice + (Longest - Position')
  BY SearchBoundedNext DEF InSearch, Slice, Longest, PerK, PerTrial
<1>3. (hi' - lo') * Slice = (hi - lo) * Slice
  OBVIOUS
<1> QED
  BY <1>1, <1>2, <1>3, Magnitudes

\* ... one that takes up a shorter range has less of it...
LEMMA Shorter ==
  ASSUME RangeInv, RangeInv', pc \notin {"found", "raised"}, pc' = "range", hi' - lo' < hi - lo
  PROVE  SearchLeft' < SearchLeft
<1>1. /\ Position \in Nat /\ Position <= Longest
      /\ hi - lo \in Nat /\ (hi - lo) * Slice \in Nat
      /\ SearchLeft = 1 + (hi - lo) * Slice + (Longest - Position)
  BY SearchBounded DEF InSearch
<1>2. /\ Position' = 0
      /\ hi' - lo' \in Nat
      /\ SearchLeft' = 1 + (hi' - lo') * Slice + (Longest - Position')
  BY SearchBoundedNext DEF InSearch, Slice, Longest, PerK, PerTrial, Position
<1>3. (hi' - lo') * Slice + Slice <= (hi - lo) * Slice /\ (hi' - lo') * Slice \in Nat
  BY <1>1, <1>2, Magnitudes, Products
<1>4. SearchLeft' = 1 + (hi' - lo') * Slice + Longest
  BY <1>2, <1>3, Magnitudes
<1> QED
  BY <1>1, <1>3, <1>4, Magnitudes

\* ... and one that ends the search leaves nothing of it.
LEMMA Ended ==
  ASSUME RangeInv, pc \notin {"found", "raised"}, pc' \in {"found", "raised"}
  PROVE  SearchLeft' < SearchLeft
<1>1. /\ Position \in Nat /\ Position <= Longest /\ (hi - lo) * Slice \in Nat
      /\ SearchLeft = 1 + (hi - lo) * Slice + (Longest - Position)
  BY SearchBounded DEF InSearch
<1>2. SearchLeft' = 0
  BY DEF SearchLeft, Slice, Longest, PerK, PerTrial
<1> QED
  BY <1>1, <1>2, Magnitudes

\* A command of a trial is one position further on.
LEMMA NextCommand ==
  ASSUME RangeInv, RangeInv', UNCHANGED <<lo, hi, at, trial>>,
         pc \in Searching, pc' \in Stages, Stage < Stage'
  PROVE  SearchLeft' < SearchLeft
<1>1. at * PerK \in Nat /\ trial * PerTrial \in Nat /\ Stage \in Nat /\ Stage' \in Nat
  <2>1. at \in Nat /\ trial \in Nat
    BY ScriptConstants DEF RangeInv
  <2>2. at * PerK \in Nat
    BY <2>1, Magnitudes, Products
  <2> QED
    BY <2>1, <2>2 DEF PerTrial, Stage
<1>2. /\ Position = 1 + at * PerK + trial * PerTrial + Stage
      /\ Position' = 1 + at * PerK + trial * PerTrial + Stage'
  BY DEF Position, Searching, Stages, PerK, PerTrial
<1>3. Position < Position'
  BY <1>1, <1>2
<1> QED
  BY <1>3, Forward DEF Searching, Stages

LEMMA ScriptSteps ==
  ASSUME SearchInv, RangeInv',
         \/ NextRange \/ StartTrial \/ Narrow \/ StartStride \/ EndStride \/ Opt \/ Link
         \/ RunCode \/ RunBase \/ Record \/ NoTimes
  PROVE  SearchLeft' < SearchLeft
<1>0. RangeInv
  BY DEF SearchInv
<1> USE DEF Goto, script
<1>1. CASE NextRange
  <2>1. pc = "range" /\ UNCHANGED <<lo, hi, at, trial>> /\ at = 0 /\ trial = 0
    BY <1>0, <1>1 DEF NextRange, RangeInv
  <2>2. CASE pc' = "found"
    BY <1>0, <2>1, <2>2, Ended
  <2>3. CASE pc' = "trial"
    <3>1. Position = 0 /\ Position' = 1
      BY <2>1, <2>3, Magnitudes DEF Position, Stage, PerTrial, PerK
    <3> QED
      BY <1>0, <2>1, <2>3, <3>1, Forward
  <2> QED
    BY <1>1, <2>2, <2>3 DEF NextRange
<1>2. CASE StartTrial
  BY <1>0, <1>2, NextCommand DEF StartTrial, Searching, Stages, Stage
<1>3. CASE Narrow
  BY <1>0, <1>3, NarrowedRange, Shorter DEF Narrow
<1>4. CASE StartStride
  BY <1>0, <1>4, NextCommand DEF StartStride, Searching, Stages, Stage
<1>5. CASE EndStride
  BY <1>0, <1>5, NextCommand DEF EndStride, Searching, Stages, Stage
<1>6. CASE Opt
  <2>1. CASE pc' = "raised"
    BY <1>0, <1>6, <2>1, Ended DEF Opt, Raises
  <2>2. CASE pc' = "link"
    BY <1>0, <1>6, <2>2, NextCommand DEF Opt, Raises, Searching, Stages, Stage
  <2> QED
    BY <1>6, <2>1, <2>2 DEF Opt, Raises
<1>7. CASE Link
  <2>1. CASE pc' = "raised"
    BY <1>0, <1>7, <2>1, Ended DEF Link, Raises
  <2>2. CASE pc' = "run"
    BY <1>0, <1>7, <2>2, NextCommand DEF Link, Raises, Searching, Stages, Stage
  <2> QED
    BY <1>7, <2>1, <2>2 DEF Link, Raises
<1>8. CASE RunCode
  BY <1>0, <1>8, NextCommand DEF RunCode, Searching, Stages, Stage
<1>9. CASE RunBase
  BY <1>0, <1>9, NextCommand DEF RunBase, Searching, Stages, Stage
<1>10. CASE Record
  <2>1. UNCHANGED <<lo, hi>> /\ pc = "tail" /\ pc' = "trial"
    BY <1>10 DEF Record
  <2>2. \/ trial + 1 = MAX_TRIALS /\ at' = at + 1 /\ trial' = 0
        \/ at' = at /\ trial' = trial + 1
    BY <1>10 DEF Record
  <2>3. at \in Nat /\ trial \in Nat /\ at * PerK \in Nat /\ MAX_TRIALS \in Nat
    BY <1>0, Magnitudes, Products, ScriptConstants DEF RangeInv
  <2>4. Position = 1 + at * PerK + trial * 8 + 7
    BY <2>1 DEF Position, Stage, PerTrial
  <2>5. Position' = 1 + at' * PerK + trial' * 8 + 0
    BY <2>1 DEF Position, Stage, PerTrial, PerK
  <2>6. Position < Position'
    <3>1. CASE trial + 1 = MAX_TRIALS /\ at' = at + 1 /\ trial' = 0
      <4>1. at' * PerK = at * PerK + PerK /\ PerK = (trial + 1) * 8
        BY <2>3, <3>1, Magnitudes
      <4> QED
        BY <2>3, <2>4, <2>5, <3>1, <4>1
    <3>2. CASE at' = at /\ trial' = trial + 1
      <4>1. at' * PerK = at * PerK
        BY <3>2
      <4> QED
        BY <2>3, <2>4, <2>5, <3>2, <4>1
    <3> QED
      BY <2>2, <3>1, <3>2
  <2> QED
    BY <1>0, <2>1, <2>6, Forward
<1>11. CASE NoTimes
  BY <1>0, <1>11, Ended DEF NoTimes, Raises
<1> QED
  BY <1>1, <1>2, <1>3, <1>4, <1>5, <1>6, <1>7, <1>8, <1>9, <1>10, <1>11

\* Each of its commands leaves less of make profile, and so does its being started.
ProfilerTypes ==
  profiler \in {"idle", "clean", "clean_outputs", "clean_code", "bitcode", "base", "edges",
                "stride", "done", "stopped"}

LEMMA ProfilerTypesInit == RaceInit => ProfilerTypes
  BY DEF RaceInit, ProfilerTypes

LEMMA ProfilerTypesStep == ProfilerTypes /\ [RaceNext]_raceVars => ProfilerTypes'
  BY DEF ProfilerTypes, RaceNext, raceVars, NextRange, StartTrial, StartProfile, Narrow,
     StartStride, EndStride, Opt, Link, RunCode, RunBase, Record, NoTimes, Raises, Goto,
     ProfileStep, ProfileStops, Command

LEMMA ProfileSteps ==
  ASSUME ProfilerTypes, FilesInv
  PROVE  /\ ProfileStep \/ ProfileStops => ProfileLeft' < ProfileLeft /\ UNCHANGED <<pc, script>>
         /\ \/ NextRange \/ StartTrial \/ Narrow \/ StartStride \/ EndStride \/ Opt \/ Link
            \/ RunCode \/ RunBase \/ Record \/ NoTimes
            => ProfileLeft' <= ProfileLeft
<1>1. ProfileStep => ProfileLeft' < ProfileLeft /\ UNCHANGED <<pc, script>>
  BY DEF ProfileStep, Command, ProfileLeft
<1>2. ProfileStops => ProfileLeft' < ProfileLeft /\ UNCHANGED <<pc, script>>
  BY DEF ProfileStops, ProfilerTypes, ProfileLeft
<1>3. StartTrial => ProfileLeft' <= ProfileLeft
  <2>1. StartTrial => profiler' = profiler \/ (profiler = "idle" /\ profiler' = "clean")
    BY DEF StartTrial, StartProfile, FilesInv
  <2> QED
    BY <2>1 DEF ProfileLeft
<1>4. \/ NextRange \/ Narrow \/ StartStride \/ EndStride \/ Opt \/ Link
      \/ RunCode \/ RunBase \/ Record \/ NoTimes
      => profiler' = profiler
  BY DEF NextRange, Narrow, StartStride, EndStride, Opt, Link, RunCode, RunBase, Record,
         NoTimes, Raises, Goto
<1>5. profiler' = profiler => ProfileLeft' <= ProfileLeft
  BY DEF ProfileLeft
<1> QED
  BY <1>1, <1>2, <1>3, <1>4, <1>5

\* The search ends, and so does the profiling: whatever is measured and however the
\* two makes interleave, a run has no more than Most steps, each of which makes
\* what is left, a natural number no greater, smaller.
THEOREM RaceIsBounded == Spec => StepsCounted
<1>1. Spec => []ProfilerTypes
  BY ProfilerTypesInit, ProfilerTypesStep, PTL DEF Spec
<1>2. SearchInv => Left \in 0..Most
  BY LeftBounded DEF SearchInv
<1>3. SearchInv /\ SearchInv' /\ ProfilerTypes /\ RaceInv /\ [RaceNext]_raceVars
        => [Left' < Left]_raceVars
  <2> SUFFICES ASSUME SearchInv, SearchInv', ProfilerTypes, RaceInv, RaceNext
               PROVE  Left' < Left
    OBVIOUS
  <2>1. RangeInv /\ RangeInv' /\ FilesInv
    BY DEF SearchInv, RaceInv
  <2>2. SearchLeft \in Nat /\ ProfileLeft \in Nat
    BY <2>1, LeftBounded
  <2>3. SearchLeft' \in Int /\ ProfileLeft' \in Int
    BY <2>1, LeftBoundedNext
  <2> DEFINE a == SearchLeft'
             b == ProfileLeft'
             c == SearchLeft
             d == ProfileLeft
  <2>6. a \in Int /\ b \in Int /\ c \in Int /\ d \in Int
    BY <2>2, <2>3
  <2>7. a + b < c + d => Left' < Left
    BY DEF Left
  <2>4. CASE ProfileStep \/ ProfileStops
    <3>1. ProfileLeft' < ProfileLeft /\ UNCHANGED <<pc, script>>
      BY <2>1, <2>4, ProfileSteps
    <3>2. SearchLeft' = SearchLeft
      BY <3>1 DEF SearchLeft, Position, Stage, script, Slice, Longest, PerK, PerTrial
    <3>3. b < d /\ a = c
      BY <3>1, <3>2
    <3> HIDE DEF a, b, c, d
    <3> QED
      BY <2>6, <2>7, <3>3
  <2>5. CASE ~(ProfileStep \/ ProfileStops)
    <3>1. SearchLeft' < SearchLeft
      BY <2>1, <2>5, ScriptSteps DEF RaceNext
    <3>2. ProfileLeft' <= ProfileLeft
      BY <2>1, <2>5, ProfileSteps DEF RaceNext
    <3>3. a < c /\ b <= d
      BY <3>1, <3>2
    <3> HIDE DEF a, b, c, d
    <3> QED
      BY <2>6, <2>7, <3>3
  <2> QED
    BY <2>4, <2>5
<1>4. Spec => []SearchInv /\ []RaceInv /\ [][RaceNext]_raceVars
  BY SearchInvariant, RaceInvariant, PTL DEF Spec
<1>5. Spec => [](Left \in 0..Most)
  BY <1>2, <1>4, PTL
<1>6. Spec => [][Left' < Left]_raceVars
  BY <1>1, <1>3, <1>4, PTL
<1> QED
  BY <1>5, <1>6 DEF StepsCounted
===============================================================================
