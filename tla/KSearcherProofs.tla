---------------------------- MODULE KSearcherProofs ----------------------------
(* What is proved of the search for the distance, for every range, number of *)
(* partitions and trials, every set of speed-ups, and any number of failures *)
(* and kills: the invariant of the files, the range and the results, and a   *)
(* bound on the steps of a run.                                              *)
EXTENDS KSearcher, WellFoundedInduction, TLAPS

Result == [run : Run, performance : Performances]
Searching == {"modify", "write", "build", "trial"}
Labels == {"start", "backup", "range", "finally", "restore", "done"} \cup Searching

FileTypes ==
  /\ pc \in Labels
  /\ prefetch \in Ks \cup {Template, Empty}
  /\ orig \in Ks \cup {Template, Empty, NoFile}
  /\ pc # "start" => orig \in Ks \cup {Template, Empty}
  /\ kills \in Nat
  /\ failures \in Nat

\* What the search itself holds: points of the range, tried one after another.
SearchTypes ==
  /\ library \in Ks \cup {NoFile}
  /\ output \in Run \cup {NoFile}
  /\ lo \in Ks
  /\ hi \in Ks
  /\ lo <= hi
  /\ at \in Nat
  /\ best \in [Ks -> Result \cup {NoResult}]
  /\ runs \in [Ks -> SUBSET Run]

\* The source with the flag is in the file, in the back-up or in both.
FilesKept ==
  /\ kills = 0 /\ pc \in {"start", "backup", "done"} => prefetch = Template
  /\ kills = 0 /\ pc \notin {"start", "backup"} => orig = Template
  /\ RecoverableAfterOneKill

Trying ==
  /\ pc \in {"start", "backup", "range"} => at = 0
  /\ pc \in Searching => Points > 0 /\ at <= Points
  /\ pc \in {"write", "build", "trial"} => at < Points
  /\ pc = "build" => prefetch = Point(at)

\* Every point before the one being tried has been timed.
Ranked ==
  pc \in Searching => \A i \in 0 .. at - 1 : best[Point(i)] # NoResult

Measured ==
  failures = 0 =>
    /\ pc = "trial" => /\ library = Point(at)
                       /\ output = NoFile \/ output.k = Point(at)
    /\ \A k \in Ks : \A run \in runs[k] : run.k = k

IInv ==
  FileTypes /\ FilesKept /\ SearchTypes /\ Trying /\ Ranked /\ Measured /\ BestIsHighest

-------------------------------------------------------------------------------
\* Division rounds down.
LEMMA DivisionBound ==
  ASSUME NEW w \in Nat, NEW d \in Nat \ {0}
  PROVE  w \div d \in Nat /\ (w \div d) * d <= w
  OBVIOUS

\* The points that make_range lists lie in the range.
LEMMA PointInRange ==
  ASSUME lo \in Ks, hi \in Ks, lo <= hi
  PROVE  /\ Partition \in Nat
         /\ Points \in Nat
         /\ \A i \in Nat : i < Points => Point(i) \in Ks /\ lo <= Point(i) /\ Point(i) <= hi
<1>1. hi - lo \in Nat /\ K_PARTITIONS \in Nat \ {0} /\ lo \in Nat /\ hi \in Nat /\ hi <= INITIAL_K
      /\ INITIAL_K \in Nat
  BY SearcherAssumption DEF Ks
<1>2. Partition \in Nat
  BY <1>1, DivisionBound DEF Partition
<1>3. ASSUME Partition # 0
      PROVE  (hi - lo) \div Partition \in Nat /\ ((hi - lo) \div Partition) * Partition <= hi - lo
  BY <1>1, <1>2, <1>3, DivisionBound
<1>4. Points \in Nat
  BY <1>3 DEF Points
<1>5. ASSUME NEW i \in Nat, i < Points
      PROVE  Point(i) \in Ks /\ lo <= Point(i) /\ Point(i) <= hi
  <2> DEFINE last == (hi - lo) \div Partition
  <2>1. Partition # 0 /\ Points = last + 1
    BY <1>5 DEF Points
  <2>2. last \in Nat /\ last * Partition <= hi - lo
    BY <1>3, <2>1
  <2> HIDE DEF last
  <2>3. i <= last
    BY <2>1, <2>2, <1>5
  <2>4. i * Partition \in Nat /\ i * Partition <= last * Partition
    BY <2>2, <2>3, <1>2
  <2>5. i * Partition <= hi - lo
    BY <2>2, <2>4, <1>1, <1>2
  <2> QED
    BY <2>4, <2>5, <1>1 DEF Point, Ks
<1> QED
  BY <1>2, <1>4, <1>5

LEMMA PointTried ==
  ASSUME IInv, pc \in {"write", "build", "trial"}
  PROVE  at \in Nat /\ at < Points /\ Point(at) \in Ks
  BY PointInRange DEF IInv, SearchTypes, Trying

LEMMA RangeIsInteger ==
  0 \in Ks /\ INITIAL_K \in Ks /\ 0 <= INITIAL_K
  BY SearcherAssumption DEF Ks

-------------------------------------------------------------------------------
LEMMA InvInit == Init => IInv
<1> SUFFICES ASSUME Init PROVE IInv
  OBVIOUS
<1>1. FileTypes /\ FilesKept
  BY DEF Init, FileTypes, FilesKept, RecoverableAfterOneKill, Labels
<1>2. SearchTypes
  BY RangeIsInteger DEF Init, SearchTypes
<1>3. Trying /\ Ranked
  BY DEF Init, Trying, Ranked, Searching
<1>4. Measured /\ BestIsHighest
  BY DEF Init, Measured, BestIsHighest
<1> QED
  BY <1>1, <1>2, <1>3, <1>4 DEF IInv

\* What a trial can have put out, and what is done with it.
LEMMA TrialOutput ==
  ASSUME IInv, Trial
  PROVE  /\ pc = "trial"
         /\ at \in Nat /\ at < Points /\ Point(at) \in Ks
         /\ output' \in Run \cup {NoFile}
         /\ failures \in Nat /\ failures' \in Nat
         /\ failures' = 0 => /\ failures = 0
                             /\ output' = NoFile \/ output'.k = Point(at)
         /\ UNCHANGED <<prefetch, orig, library, kills>>
         /\ Diff(Point(at))
<1>1. pc = "trial" /\ failures \in Nat /\ library \in Ks \cup {NoFile} /\ output \in Run \cup {NoFile}
  BY DEF IInv, Trial, FileTypes, SearchTypes
<1>2. at \in Nat /\ at < Points /\ Point(at) \in Ks
  BY <1>1, PointTried
<1>3. output' \in Run \cup {NoFile} /\ failures' \in Nat
  BY <1>1 DEF Trial, Run
<1>4. ASSUME failures' = 0
      PROVE  failures = 0 /\ (output' = NoFile \/ output'.k = Point(at))
  <2>1. failures = 0
    BY <1>1, <1>4 DEF Trial
  <2>2. library = Point(at) /\ (output = NoFile \/ output.k = Point(at))
    BY <1>1, <2>1 DEF IInv, Measured
  <2> QED
    BY <2>1, <2>2 DEF Trial
<1> QED
  BY <1>1, <1>2, <1>3, <1>4 DEF Trial

LEMMA FileTypesStep == IInv /\ [Next]_vars => FileTypes'
<1> SUFFICES ASSUME IInv, [Next]_vars PROVE FileTypes'
  OBVIOUS
<1> USE DEF IInv, FileTypes, Labels, Searching, Goto, Unwind
<1>1. CASE UNCHANGED vars
  BY <1>1 DEF vars, files
<1>2. CASE OpenBackup
  BY <1>2 DEF OpenBackup
<1>3. CASE CopyToBackup
  BY <1>3 DEF CopyToBackup
<1>4. CASE NextRange
  BY <1>4 DEF NextRange, files
<1>5. CASE Modify
  BY <1>5 DEF Modify
<1>6. CASE Write
  <2>1. Point(at) \in Ks
    BY <1>6, PointTried DEF Write
  <2> QED
    BY <1>6, <2>1 DEF Write
<1>7. CASE Build
  BY <1>7 DEF Build
<1>8. CASE Trial
  BY <1>8, TrialOutput DEF Diff
<1>9. CASE Narrow
  BY <1>9 DEF Narrow, files
<1>10. CASE OpenSource
  BY <1>10 DEF OpenSource
<1>11. CASE Restore
  BY <1>11 DEF Restore
<1>12. CASE Kill
  BY <1>12 DEF Kill, files
<1> QED
  BY <1>1, <1>2, <1>3, <1>4, <1>5, <1>6, <1>7, <1>8, <1>9, <1>10, <1>11, <1>12 DEF Next, Step

LEMMA FilesKeptStep == IInv /\ [Next]_vars => FilesKept'
<1> SUFFICES ASSUME IInv, [Next]_vars PROVE FilesKept'
  OBVIOUS
<1>0. FileTypes /\ FilesKept
  BY DEF IInv
<1> USE DEF FilesKept, RecoverableAfterOneKill, FileTypes, Labels, Searching, Goto, Unwind
<1>1. CASE UNCHANGED vars
  BY <1>0, <1>1 DEF vars, files
<1>2. CASE OpenBackup
  BY <1>0, <1>2 DEF OpenBackup
<1>3. CASE CopyToBackup
  BY <1>0, <1>3 DEF CopyToBackup
<1>4. CASE NextRange
  BY <1>0, <1>4 DEF NextRange, files
<1>5. CASE Modify
  BY <1>0, <1>5 DEF Modify
<1>6. CASE Write
  BY <1>0, <1>6 DEF Write
<1>7. CASE Build
  BY <1>0, <1>7 DEF Build
<1>8. CASE Trial
  BY <1>0, <1>8, TrialOutput DEF Diff
<1>9. CASE Narrow
  BY <1>0, <1>9 DEF Narrow, files
<1>10. CASE OpenSource
  BY <1>0, <1>10 DEF OpenSource
<1>11. CASE Restore
  BY <1>0, <1>11 DEF Restore
<1>12. CASE Kill
  BY <1>0, <1>12 DEF Kill, files
<1> QED
  BY <1>1, <1>2, <1>3, <1>4, <1>5, <1>6, <1>7, <1>8, <1>9, <1>10, <1>11, <1>12 DEF Next, Step

\* A search forgotten, and one whose range is chosen anew, hold what they should.
LEMMA ForgottenTypes ==
  ASSUME ForgetSearch
  PROVE  /\ lo' \in Ks /\ hi' \in Ks /\ lo' <= hi' /\ at' \in Nat
         /\ best' \in [Ks -> Result \cup {NoResult}] /\ runs' \in [Ks -> SUBSET Run]
         /\ at' = 0
         /\ best' = [k \in Ks |-> NoResult] /\ runs' = [k \in Ks |-> {}]
  BY RangeIsInteger DEF ForgetSearch

\* A result kept for K is one of K's runs, with the highest of their speed-ups.
LEMMA AddKeepsHighest ==
  ASSUME best \in [Ks -> Result \cup {NoResult}], runs \in [Ks -> SUBSET Run],
         BestIsHighest, NEW k \in Ks, NEW run \in Run, Add(k, run)
  PROVE  /\ best' \in [Ks -> Result \cup {NoResult}]
         /\ runs' \in [Ks -> SUBSET Run]
         /\ runs' = [runs EXCEPT ![k] = @ \cup {run}]
         /\ best'[k] # NoResult
         /\ \A other \in Ks : best[other] # NoResult => best'[other] # NoResult
         /\ BestIsHighest'
<1> DEFINE kept == IF best[k] = NoResult THEN [run |-> run, performance |-> run.performance]
                   ELSE IF run.performance > best[k].performance
                        THEN [best[k] EXCEPT !.performance = run.performance]
                        ELSE best[k]
<1>1. best' = [best EXCEPT ![k] = kept] /\ runs' = [runs EXCEPT ![k] = runs[k] \cup {run}]
  BY DEF Add
<1>2. run.performance \in Performances /\ run.performance \in Int
  BY SearcherAssumption DEF Run
<1>3. best[k] # NoResult => best[k] \in Result /\ best[k].performance \in Int
  BY SearcherAssumption DEF Result
<1>4. NoResult \notin Result
  BY NoResultAssumption DEF Result
<1>5. kept \in Result /\ kept # NoResult
  BY <1>2, <1>3, <1>4 DEF Result
<1>6. best' \in [Ks -> Result \cup {NoResult}] /\ runs' \in [Ks -> SUBSET Run]
  BY <1>1, <1>5
<1>7. best'[k] = kept /\ runs'[k] = runs[k] \cup {run}
  BY <1>1
<1>8. \A other \in Ks : other # k => best'[other] = best[other] /\ runs'[other] = runs[other]
  BY <1>1
<1>9. /\ \E r \in runs'[k] : r.performance = kept.performance
      /\ \A r \in runs'[k] : r.performance <= kept.performance
  <2>1. CASE best[k] = NoResult
    <3>1. runs[k] = {} /\ kept.performance = run.performance
      BY <2>1 DEF BestIsHighest
    <3> QED
      BY <3>1, <1>2, <1>7
  <2>2. CASE best[k] # NoResult
    <3>1. /\ \E r \in runs[k] : r.performance = best[k].performance
          /\ \A r \in runs[k] : r.performance <= best[k].performance
      BY <2>2 DEF BestIsHighest
    <3>2. \A r \in runs[k] : r.performance \in Int
      <4>1. \A r \in Run : r.performance \in Int
        BY SearcherAssumption DEF Run
      <4>2. runs[k] \subseteq Run
        OBVIOUS
      <4> QED
        BY <4>1, <4>2
    <3>3. CASE run.performance > best[k].performance
      <4>1. kept.performance = run.performance
        BY <2>2, <3>3, <1>3 DEF Result
      <4> QED
        BY <3>1, <3>2, <3>3, <4>1, <1>2, <1>3, <1>7, <2>2
    <3>4. CASE ~ (run.performance > best[k].performance)
      <4>1. kept.performance = best[k].performance
        BY <2>2, <3>4
      <4> QED
        BY <3>1, <3>2, <3>4, <4>1, <1>2, <1>3, <1>7, <2>2
    <3> QED
      BY <3>3, <3>4
  <2> QED
    BY <2>1, <2>2
<1> HIDE DEF kept
<1>10. BestIsHighest'
  <2> SUFFICES ASSUME NEW other \in Ks
               PROVE  IF best'[other] = NoResult THEN runs'[other] = {}
                      ELSE /\ \E r \in runs'[other] : r.performance = best'[other].performance
                           /\ \A r \in runs'[other] : r.performance <= best'[other].performance
    BY DEF BestIsHighest
  <2>1. CASE other = k
    BY <2>1, <1>5, <1>7, <1>9
  <2>2. CASE other # k
    BY <2>2, <1>8 DEF BestIsHighest
  <2> QED
    BY <2>1, <2>2
<1> QED
  BY <1>1, <1>5, <1>6, <1>7, <1>8, <1>10

\* What a trial that put something out records.
LEMMA TrialRecords ==
  ASSUME IInv, Trial, output' # NoFile
  PROVE  /\ Add(Point(at), output')
         /\ best' \in [Ks -> Result \cup {NoResult}]
         /\ runs' \in [Ks -> SUBSET Run]
         /\ runs' = [runs EXCEPT ![Point(at)] = @ \cup {output'}]
         /\ best'[Point(at)] # NoResult
         /\ \A other \in Ks : best[other] # NoResult => best'[other] # NoResult
         /\ BestIsHighest'
         /\ UNCHANGED <<lo, hi>>
         /\ \/ pc' = "modify" /\ at' = at + 1
            \/ pc' = "trial" /\ at' = at
<1>1. output' \in Run /\ Point(at) \in Ks /\ pc = "trial" /\ Diff(Point(at))
  BY TrialOutput
<1>2. /\ Add(Point(at), output')
      /\ UNCHANGED <<lo, hi>>
      /\ \/ pc' = "modify" /\ at' = at + 1
         \/ pc' = "trial" /\ at' = at
  BY <1>1 DEF Diff, Goto
<1>3. best \in [Ks -> Result \cup {NoResult}] /\ runs \in [Ks -> SUBSET Run] /\ BestIsHighest
  BY DEF IInv, SearchTypes
<1> QED
  BY <1>1, <1>2, <1>3, AddKeepsHighest

\* What a trial without output does to the search.
LEMMA TrialFails ==
  ASSUME IInv, Trial, output' = NoFile
  PROVE  pc' = "finally" /\ ForgetSearch
  BY TrialOutput DEF Diff, Unwind, Goto

\* Steps that leave the range, the points done and what is recorded as they were.
LEMMA SearchUnchanged ==
  ASSUME UNCHANGED <<lo, hi, at>>
  PROVE  Points' = Points /\ Partition' = Partition /\ \A i : Point(i)' = Point(i)
  BY DEF Points, Partition, Point

\* There is a best window as soon as there are windows.
LEMMA LeastNatural ==
  ASSUME NEW T, T \subseteq Nat, T # {}
  PROVE  \E x \in T : \A y \in T : x <= y
<1>1. PICK x \in T : \A y \in T : ~ (<<y, x>> \in OpToRel(<, Nat))
  BY NatLessThanWellFounded, WFMin, Zenon
<1>2. \A y \in T : ~ (y < x)
  BY <1>1 DEF OpToRel
<1> QED
  BY <1>2

\* Of finitely many integers one is the greatest...
LEMMA GreatestExists ==
  ASSUME NEW n \in Nat, NEW f \in [0 .. n -> Int]
  PROVE  \E i \in 0 .. n : \A j \in 0 .. n : f[j] <= f[i]
<1> DEFINE Has(m) == \E i \in 0 .. m : \A j \in 0 .. m : f[j] <= f[i]
           Lacking == {m \in 0 .. n : ~Has(m)}
<1>1. SUFFICES ASSUME Lacking # {} PROVE FALSE
  <2>1. n \in 0 .. n
    OBVIOUS
  <2> QED
    BY <1>1, <2>1
<1>2. PICK m \in Lacking : \A k \in Lacking : m <= k
  <2>1. Lacking \subseteq Nat
    OBVIOUS
  <2> HIDE DEF Lacking
  <2> QED
    BY <1>1, <2>1, LeastNatural
<1>3. m \in 0 .. n /\ ~Has(m)
  OBVIOUS
<1>4. m # 0
  <2>1. Has(0)
    <3>1. 0 \in 0 .. 0 /\ \A j \in 0 .. 0 : j = 0
      OBVIOUS
    <3>2. f[0] \in Int
      OBVIOUS
    <3> QED
      BY <3>1, <3>2
  <2> QED
    BY <2>1, <1>3
<1>5. m - 1 \in 0 .. n /\ ~ (m <= m - 1)
  BY <1>3, <1>4
<1>6. Has(m - 1)
  BY <1>2, <1>5
<1>7. PICK i \in 0 .. m - 1 : \A j \in 0 .. m - 1 : f[j] <= f[i]
  BY <1>6
<1>8. i \in 0 .. m /\ m \in 0 .. m /\ f[i] \in Int /\ f[m] \in Int
  BY <1>3, <1>4
<1>9. \A j \in 0 .. m : f[j] \in Int /\ (j = m \/ j \in 0 .. m - 1)
  BY <1>3, <1>4
<1>10. CASE f[m] <= f[i]
  <2>1. \A j \in 0 .. m : f[j] <= f[i]
    BY <1>7, <1>9, <1>10
  <2> QED
    BY <2>1, <1>8, <1>3
<1>11. CASE ~ (f[m] <= f[i])
  <2>1. \A j \in 0 .. m : f[j] <= f[m]
    BY <1>7, <1>8, <1>9, <1>11
  <2> QED
    BY <2>1, <1>8, <1>3
<1> QED
  BY <1>10, <1>11

\* ... and among the greatest one is the first.
LEMMA FirstGreatestExists ==
  ASSUME NEW n \in Nat, NEW f \in [0 .. n -> Int]
  PROVE  \E i \in 0 .. n : \A j \in 0 .. n : f[j] <= f[i] /\ (j < i => f[j] < f[i])
<1>1. PICK top \in 0 .. n : \A j \in 0 .. n : f[j] <= f[top]
  BY GreatestExists
<1> DEFINE tops == {i \in 0 .. n : f[i] = f[top]}
<1>2. tops \subseteq Nat /\ tops # {}
  OBVIOUS
<1>3. \A j \in 0 .. n : f[j] \in Int /\ j \in Nat
  OBVIOUS
<1>4. PICK first \in tops : \A k \in tops : first <= k
  <2> HIDE DEF tops
  <2> QED
    BY <1>2, LeastNatural
<1>5. first \in 0 .. n /\ f[first] = f[top]
  OBVIOUS
<1>6. ASSUME NEW j \in 0 .. n
      PROVE  f[j] <= f[first] /\ (j < first => f[j] < f[first])
  <2>1. f[j] <= f[first]
    BY <1>1, <1>5
  <2>2. ASSUME j < first PROVE f[j] # f[first]
    <3>1. j \notin tops
      BY <1>4, <1>3, <1>5, <2>2
    <3> QED
      BY <3>1, <1>5
  <2> QED
    BY <2>1, <2>2, <1>3, <1>5
<1> QED
  BY <1>5, <1>6

LEMMA BestWindow ==
  ASSUME IInv, pc = "modify", at = Points, Windows # {}
  PROVE  /\ RangeBegin \in Windows
         /\ \A j \in Windows : WindowPerf(j) <= WindowPerf(RangeBegin)
<1>1. /\ Points \in Nat
      /\ \A i \in Nat : i < Points => Point(i) \in Ks
  BY PointInRange DEF IInv, SearchTypes
<1> DEFINE n == Points - CONSECUTIVE
           f == [i \in 0 .. n |-> WindowPerf(i)]
<1>2. n \in Nat /\ Windows = 0 .. n
  BY <1>1 DEF Windows, CONSECUTIVE
<1>3. ASSUME NEW i \in 0 .. Points - 1
      PROVE  Perf(i) \in Int
  <2>1. best[Point(i)] # NoResult
    BY <1>3 DEF IInv, Ranked, Searching
  <2>2. Point(i) \in Ks
    BY <1>1
  <2>3. best[Point(i)] \in Result
    BY <2>1, <2>2 DEF IInv, SearchTypes
  <2> QED
    BY <2>3, SearcherAssumption DEF Perf, Result
<1>4. ASSUME NEW i \in 0 .. n
      PROVE  WindowPerf(i) \in Int
  <2>1. i \in 0 .. Points - 1 /\ i + 1 \in 0 .. Points - 1 /\ i + 2 \in 0 .. Points - 1
    BY <1>1, <1>2 DEF CONSECUTIVE
  <2> QED
    BY <2>1, <1>3 DEF WindowPerf
<1>5. f \in [0 .. n -> Int]
  BY <1>4
<1>6. \A i \in 0 .. n : f[i] = WindowPerf(i)
  OBVIOUS
<1> HIDE DEF n, f
<1>7. PICK i \in 0 .. n : \A j \in 0 .. n : f[j] <= f[i] /\ (j < i => f[j] < f[i])
  BY <1>2, <1>5, FirstGreatestExists
<1>8. \A j \in 0 .. n : /\ WindowPerf(j) <= WindowPerf(i)
                        /\ j < i => WindowPerf(j) < WindowPerf(i)
  BY <1>6, <1>7
<1> QED
  BY <1>2, <1>8, Zenon DEF RangeBegin

\* The range a narrowing chooses.
LEMMA NarrowedRange ==
  ASSUME IInv, Narrow, Windows # {}
  PROVE  /\ lo' \in Ks /\ hi' \in Ks
         /\ lo <= lo' /\ hi' <= hi /\ lo' <= hi'
         /\ hi' - lo' = 2 * Partition
         /\ at' = 0 /\ best' = best /\ runs' = runs
         /\ pc' = "range"
         /\ UNCHANGED <<files, kills, failures>>
<1>1. /\ lo' = Point(RangeBegin) /\ hi' = Point(RangeBegin + 2)
      /\ at' = 0 /\ best' = best /\ runs' = runs /\ pc' = "range"
      /\ UNCHANGED <<files, kills, failures>>
      /\ pc = "modify" /\ at = Points
  BY DEF Narrow, CONSECUTIVE, Goto
<1>2. RangeBegin \in Windows
  BY <1>1, BestWindow
<1>3. /\ Partition \in Nat /\ Points \in Nat /\ lo \in Nat
      /\ \A i \in Nat : i < Points => Point(i) \in Ks /\ lo <= Point(i) /\ Point(i) <= hi
  BY PointInRange DEF IInv, SearchTypes, Ks
<1>4. /\ RangeBegin \in Nat /\ RangeBegin < Points
      /\ RangeBegin + 2 \in Nat /\ RangeBegin + 2 < Points
  BY <1>2, <1>3 DEF Windows, CONSECUTIVE
<1>5. /\ Point(RangeBegin) \in Ks /\ lo <= Point(RangeBegin)
      /\ Point(RangeBegin + 2) \in Ks /\ Point(RangeBegin + 2) <= hi
  BY <1>3, <1>4
<1>6. Point(RangeBegin + 2) = Point(RangeBegin) + 2 * Partition
  BY <1>3, <1>4 DEF Point
<1>7. Point(RangeBegin) \in Nat
  BY <1>5 DEF Ks
<1> QED
  BY <1>1, <1>3, <1>5, <1>6, <1>7

LEMMA NarrowFails ==
  ASSUME Narrow, Windows = {}
  PROVE  pc' = "finally" /\ ForgetSearch /\ UNCHANGED <<files, kills, failures>>
  BY DEF Narrow, Unwind, Goto

LEMMA SearchTypesStep == IInv /\ [Next]_vars => SearchTypes'
<1> SUFFICES ASSUME IInv, [Next]_vars PROVE SearchTypes'
  OBVIOUS
<1>0. SearchTypes
  BY DEF IInv
<1> USE DEF SearchTypes
<1>1. CASE UNCHANGED vars
  BY <1>0, <1>1 DEF vars, files, search
<1>2. CASE OpenBackup
  BY <1>0, <1>2 DEF OpenBackup, search
<1>3. CASE CopyToBackup
  BY <1>0, <1>3 DEF CopyToBackup, search
<1>4. CASE NextRange
  BY <1>0, <1>4, ForgottenTypes DEF NextRange, files, search, Unwind
<1>5. CASE Modify
  BY <1>0, <1>5, ForgottenTypes DEF Modify, search, Unwind
<1>6. CASE Write
  BY <1>0, <1>6 DEF Write, search
<1>7. CASE Build
  <2>1. prefetch \in Ks
    BY <1>7, PointTried DEF Build, IInv, Trying
  <2> QED
    BY <1>0, <1>7, <2>1 DEF Build
<1>8. CASE Trial
  <2>1. output' \in Run \cup {NoFile} /\ library' = library /\ at \in Nat
    BY <1>8, TrialOutput
  <2>2. CASE output' = NoFile
    BY <1>0, <1>8, <2>1, <2>2, TrialFails, ForgottenTypes
  <2>3. CASE output' # NoFile
    <3>1. /\ best' \in [Ks -> Result \cup {NoResult}] /\ runs' \in [Ks -> SUBSET Run]
          /\ UNCHANGED <<lo, hi>> /\ at' \in Nat
      BY <1>8, <2>1, <2>3, TrialRecords
    <3> QED
      BY <1>0, <2>1, <3>1
  <2> QED
    BY <2>2, <2>3
<1>9. CASE Narrow
  <2>1. UNCHANGED <<library, output>>
    BY <1>9 DEF Narrow, files
  <2>2. CASE Windows = {}
    BY <1>0, <1>9, <2>1, <2>2, NarrowFails, ForgottenTypes
  <2>3. CASE Windows # {}
    BY <1>0, <1>9, <2>1, <2>3, NarrowedRange
  <2> QED
    BY <2>2, <2>3
<1>10. CASE OpenSource
  BY <1>0, <1>10 DEF OpenSource, search
<1>11. CASE Restore
  BY <1>0, <1>11 DEF Restore, search
<1>12. CASE Kill
  BY <1>0, <1>12, ForgottenTypes DEF Kill, files
<1> QED
  BY <1>1, <1>2, <1>3, <1>4, <1>5, <1>6, <1>7, <1>8, <1>9, <1>10, <1>11, <1>12 DEF Next, Step

LEMMA TryingStep == IInv /\ [Next]_vars => Trying'
<1> SUFFICES ASSUME IInv, [Next]_vars PROVE Trying'
  OBVIOUS
<1>0. Trying /\ at \in Nat /\ Points \in Nat
  BY PointInRange DEF IInv, SearchTypes
<1> USE DEF Trying, Searching, Goto
<1>1. CASE UNCHANGED vars
  BY <1>0, <1>1, SearchUnchanged DEF vars, files, search
<1>2. CASE OpenBackup
  BY <1>0, <1>2 DEF OpenBackup, search
<1>3. CASE CopyToBackup
  <2>1. at = 0
    BY <1>3 DEF CopyToBackup, IInv
  <2> QED
    BY <1>3, <2>1 DEF CopyToBackup, search
<1>4. CASE NextRange
  <2>1. CASE lo < hi /\ Points > 0
    BY <1>0, <1>4, <2>1, SearchUnchanged DEF NextRange, search
  <2>2. CASE ~ (lo < hi /\ Points > 0)
    BY <1>4, <2>2 DEF NextRange, Unwind
  <2> QED
    BY <2>1, <2>2
<1>5. CASE Modify
  <2>1. CASE orig = Template
    BY <1>0, <1>5, <2>1, SearchUnchanged DEF Modify, search
  <2>2. CASE orig # Template
    BY <1>5, <2>2 DEF Modify, Unwind
  <2> QED
    BY <2>1, <2>2
<1>6. CASE Write
  BY <1>0, <1>6, SearchUnchanged DEF Write, search
<1>7. CASE Build
  BY <1>0, <1>7, SearchUnchanged DEF Build
<1>8. CASE Trial
  <2>1. CASE output' = NoFile
    BY <1>8, <2>1, TrialFails
  <2>2. CASE output' # NoFile
    <3>1. Points' = Points
      BY <1>8, <2>2, TrialRecords DEF Points, Partition
    <3>2. at \in Nat /\ at < Points
      BY <1>8, TrialOutput
    <3> QED
      BY <1>0, <1>8, <2>2, <3>1, <3>2, TrialRecords
  <2> QED
    BY <2>1, <2>2
<1>9. CASE Narrow
  BY <1>9, NarrowFails, NarrowedRange
<1>10. CASE OpenSource
  BY <1>10 DEF OpenSource
<1>11. CASE Restore
  BY <1>11 DEF Restore
<1>12. CASE Kill
  BY <1>12 DEF Kill, ForgetSearch
<1> QED
  BY <1>1, <1>2, <1>3, <1>4, <1>5, <1>6, <1>7, <1>8, <1>9, <1>10, <1>11, <1>12 DEF Next, Step

LEMMA RankedStep == IInv /\ [Next]_vars => Ranked'
<1> SUFFICES ASSUME IInv, [Next]_vars PROVE Ranked'
  OBVIOUS
<1>0. Ranked /\ at \in Nat
  BY DEF IInv, SearchTypes
<1> USE DEF Ranked, Searching, Goto
<1>1. CASE UNCHANGED vars
  BY <1>0, <1>1, SearchUnchanged DEF vars, files, search
<1>2. CASE OpenBackup
  BY <1>2 DEF OpenBackup
<1>3. CASE CopyToBackup
  BY <1>3 DEF CopyToBackup
<1>4. CASE NextRange
  <2>1. CASE lo < hi /\ Points > 0
    <3>1. at' = 0
      BY <1>4, <2>1 DEF NextRange, search, IInv, Trying
    <3> QED
      BY <3>1
  <2>2. CASE ~ (lo < hi /\ Points > 0)
    BY <1>4, <2>2 DEF NextRange, Unwind
  <2> QED
    BY <2>1, <2>2
<1>5. CASE Modify
  <2>1. CASE orig = Template
    BY <1>0, <1>5, <2>1, SearchUnchanged DEF Modify, search
  <2>2. CASE orig # Template
    BY <1>5, <2>2 DEF Modify, Unwind
  <2> QED
    BY <2>1, <2>2
<1>6. CASE Write
  BY <1>0, <1>6, SearchUnchanged DEF Write, search
<1>7. CASE Build
  BY <1>0, <1>7, SearchUnchanged DEF Build
<1>8. CASE Trial
  <2>1. CASE output' = NoFile
    BY <1>8, <2>1, TrialFails
  <2>2. CASE output' # NoFile
    <3>1. \A i : Point(i)' = Point(i)
      BY <1>8, <2>2, TrialRecords DEF Point, Partition
    <3>2. /\ pc = "trial" /\ at < Points
          /\ \A i \in Nat : i < Points => Point(i) \in Ks
          /\ Points \in Nat
      BY <1>8, TrialOutput, PointInRange DEF IInv, SearchTypes
    <3>3. \A i \in 0 .. at - 1 : best'[Point(i)] # NoResult
      BY <1>0, <1>8, <2>2, <3>2, TrialRecords
    <3>4. best'[Point(at)] # NoResult
      BY <1>8, <2>2, TrialRecords
    <3>5. at' = at \/ at' = at + 1
      BY <1>8, <2>2, TrialRecords
    <3>6. \A i \in 0 .. at' - 1 : i = at \/ i \in 0 .. at - 1
      BY <1>0, <3>5
    <3> QED
      BY <3>1, <3>3, <3>4, <3>6
  <2> QED
    BY <2>1, <2>2
<1>9. CASE Narrow
  BY <1>9, NarrowFails, NarrowedRange
<1>10. CASE OpenSource
  BY <1>10 DEF OpenSource
<1>11. CASE Restore
  BY <1>11 DEF Restore
<1>12. CASE Kill
  BY <1>12 DEF Kill
<1> QED
  BY <1>1, <1>2, <1>3, <1>4, <1>5, <1>6, <1>7, <1>8, <1>9, <1>10, <1>11, <1>12 DEF Next, Step

LEMMA MeasuredStep == IInv /\ [Next]_vars => Measured'
<1> SUFFICES ASSUME IInv, [Next]_vars, failures' = 0
             PROVE  /\ pc' = "trial" => /\ library' = Point(at)'
                                        /\ output' = NoFile \/ output'.k = Point(at)'
                    /\ \A k \in Ks : \A run \in runs'[k] : run.k = k
  BY DEF Measured
<1>0. /\ failures = 0 => /\ pc = "trial" => /\ library = Point(at)
                                            /\ output = NoFile \/ output.k = Point(at)
                         /\ \A k \in Ks : \A run \in runs[k] : run.k = k
      /\ failures \in Nat
  BY DEF IInv, Measured, FileTypes
<1> USE DEF Goto
<1>a. ASSUME ForgetSearch PROVE \A k \in Ks : \A run \in runs'[k] : run.k = k
  BY <1>a DEF ForgetSearch
<1>1. CASE UNCHANGED vars
  BY <1>0, <1>1, SearchUnchanged DEF vars, files, search
<1>2. CASE OpenBackup
  BY <1>0, <1>2 DEF OpenBackup, search
<1>3. CASE CopyToBackup
  BY <1>0, <1>3 DEF CopyToBackup, search
<1>4. CASE NextRange
  BY <1>0, <1>4, <1>a DEF NextRange, search, Unwind
<1>5. CASE Modify
  BY <1>0, <1>5, <1>a DEF Modify, search, Unwind
<1>6. CASE Write
  BY <1>0, <1>6 DEF Write, search
<1>7. CASE Build
  <2>1. prefetch = Point(at)
    BY <1>7 DEF Build, IInv, Trying
  <2>2. library' = prefetch /\ failures = 0
    BY <1>0, <1>7 DEF Build
  <2> QED
    BY <1>0, <1>7, <2>1, <2>2, SearchUnchanged DEF Build
<1>8. CASE Trial
  <2>1. /\ pc = "trial" /\ failures = 0 /\ library' = library
        /\ output' = NoFile \/ output'.k = Point(at)
        /\ Point(at) \in Ks
    BY <1>8, TrialOutput
  <2>2. CASE output' = NoFile
    BY <1>8, <1>a, <2>2, TrialFails
  <2>3. CASE output' # NoFile
    <3>1. pc' = "trial" => Point(at)' = Point(at)
      BY <1>8, <2>3, TrialRecords DEF Point, Partition
    <3>2. runs' = [runs EXCEPT ![Point(at)] = @ \cup {output'}] /\ runs \in [Ks -> SUBSET Run]
      BY <1>8, <2>3, TrialRecords DEF IInv, SearchTypes
    <3>3. ASSUME NEW k \in Ks, NEW run \in runs'[k]
          PROVE  run \in runs[k] \/ (k = Point(at) /\ run = output')
      <4>1. runs'[k] = IF k = Point(at) THEN runs[k] \cup {output'} ELSE runs[k]
        BY <3>2
      <4> QED
        BY <4>1
    <3>4. \A k \in Ks : \A run \in runs'[k] : run.k = k
      BY <1>0, <2>1, <2>3, <3>3
    <3> QED
      BY <1>0, <2>1, <2>3, <3>1, <3>4
  <2> QED
    BY <2>2, <2>3
<1>9. CASE Narrow
  BY <1>0, <1>9, <1>a, NarrowFails, NarrowedRange
<1>10. CASE OpenSource
  BY <1>0, <1>10 DEF OpenSource, search
<1>11. CASE Restore
  BY <1>0, <1>11 DEF Restore, search
<1>12. CASE Kill
  BY <1>0, <1>12, <1>a DEF Kill
<1> QED
  BY <1>1, <1>2, <1>3, <1>4, <1>5, <1>6, <1>7, <1>8, <1>9, <1>10, <1>11, <1>12 DEF Next, Step

LEMMA BestIsHighestStep == IInv /\ [Next]_vars => BestIsHighest'
<1> SUFFICES ASSUME IInv, [Next]_vars PROVE BestIsHighest'
  OBVIOUS
<1>0. BestIsHighest
  BY DEF IInv
<1>a. ASSUME ForgetSearch PROVE BestIsHighest'
  BY <1>a, ForgottenTypes DEF BestIsHighest
<1>b. ASSUME UNCHANGED <<best, runs>> PROVE BestIsHighest'
  BY <1>0, <1>b DEF BestIsHighest
<1>1. CASE UNCHANGED vars
  BY <1>1, <1>b DEF vars, search
<1>2. CASE OpenBackup
  BY <1>2, <1>b DEF OpenBackup, search
<1>3. CASE CopyToBackup
  BY <1>3, <1>b DEF CopyToBackup, search
<1>4. CASE NextRange
  BY <1>4, <1>a, <1>b DEF NextRange, search, Unwind
<1>5. CASE Modify
  BY <1>5, <1>a, <1>b DEF Modify, search, Unwind
<1>6. CASE Write
  BY <1>6, <1>b DEF Write, search
<1>7. CASE Build
  BY <1>7, <1>b DEF Build
<1>8. CASE Trial
  BY <1>8, <1>a, TrialFails, TrialRecords
<1>9. CASE Narrow
  BY <1>9, <1>a, <1>b, NarrowFails, NarrowedRange
<1>10. CASE OpenSource
  BY <1>10, <1>b DEF OpenSource, search
<1>11. CASE Restore
  BY <1>11, <1>b DEF Restore, search
<1>12. CASE Kill
  BY <1>12, <1>a DEF Kill
<1> QED
  BY <1>1, <1>2, <1>3, <1>4, <1>5, <1>6, <1>7, <1>8, <1>9, <1>10, <1>11, <1>12 DEF Next, Step

\* IInv is an invariant: the files, the range and the results as the code keeps
\* them between any two of its steps, whatever fails and whenever it is killed.
THEOREM SearchInvariant == Spec => []IInv
<1>1. Init => IInv
  BY InvInit
<1>2. IInv /\ [Next]_vars => IInv'
  <2>1. IInv /\ [Next]_vars => FileTypes' /\ FilesKept' /\ SearchTypes'
    BY FileTypesStep, FilesKeptStep, SearchTypesStep
  <2>2. IInv /\ [Next]_vars => Trying' /\ Ranked' /\ Measured' /\ BestIsHighest'
    BY TryingStep, RankedStep, MeasuredStep, BestIsHighestStep
  <2> QED
    BY <2>1, <2>2 DEF IInv
<1> QED
  BY <1>1, <1>2, PTL DEF Spec

\* The finally clause: a program that was not killed leaves the original source
\* in place and in its back-up, whatever build or run of it failed on the way.
THEOREM FinallyRestores == Spec => []RestoredUnlessKilled
<1>1. IInv => RestoredUnlessKilled
  BY DEF IInv, FilesKept, RestoredUnlessKilled
<1> QED
  BY <1>1, SearchInvariant, PTL

\* One kill, at any line, leaves the original in the source file or the back-up.
THEOREM OneKillIsRecoverable == Spec => []RecoverableAfterOneKill
<1>1. IInv => RecoverableAfterOneKill
  BY DEF IInv, FilesKept
<1> QED
  BY <1>1, SearchInvariant, PTL

\* Results.add over all the trials of all the ranges: the performance by which a
\* K is ranked is the best of the runs recorded for it.
THEOREM RankedByBestRun == Spec => []BestIsHighest
<1>1. IInv => BestIsHighest
  BY DEF IInv
<1> QED
  BY <1>1, SearchInvariant, PTL

\* domake before the trials of each K: as long as no command fails, what is
\* recorded for a K is a run of the pass built with it.
THEOREM RecordedRunsHaveTheirK == Spec => []MeasuredWithItsK
<1>1. IInv => MeasuredWithItsK
  BY DEF IInv, Measured, MeasuredWithItsK
<1> QED
  BY <1>1, SearchInvariant, PTL

\* Two parts of a range that is divided into three or more are shorter than it.
LEMMA TwoPartsFewer ==
  ASSUME K_PARTITIONS >= CONSECUTIVE, IInv, pc = "modify"
  PROVE  2 * Partition < hi - lo
<1>1. Partition \in Nat /\ Partition # 0
  BY PointInRange DEF IInv, SearchTypes, Trying, Searching, Points
<1>2. hi - lo \in Nat /\ K_PARTITIONS \in Nat \ {0}
  BY SearcherAssumption DEF IInv, SearchTypes, Ks
<1>3. Partition * K_PARTITIONS <= hi - lo
  BY <1>2, DivisionBound DEF Partition
<1>4. Partition * 3 <= Partition * K_PARTITIONS
  BY <1>1, <1>2 DEF CONSECUTIVE
<1> QED
  BY <1>1, <1>2, <1>3, <1>4

\* get_best_range_begin and the indices hi and lo are set from: divided into as
\* many parts as a window has points, or more, a range gives way to one that
\* lies within it and is strictly shorter.
THEOREM NarrowingShrinks ==
  ASSUME K_PARTITIONS >= CONSECUTIVE
  PROVE  Spec => RangeShrinks
<1> DEFINE Shrinks == pc = "modify" /\ pc' = "range" =>
                        lo <= lo' /\ hi' <= hi /\ hi' - lo' < hi - lo
<1>1. ASSUME IInv, [Next]_vars, pc = "modify", pc' = "range"
      PROVE  Narrow /\ Windows # {}
  <2>1. ~ UNCHANGED vars
    BY <1>1 DEF vars
  <2>2. Modify \/ Narrow \/ Kill
    BY <1>1, <2>1 DEF Next, Step, OpenBackup, CopyToBackup, NextRange, Write, Build, Trial,
                      OpenSource, Restore
  <2>3. ~Modify /\ ~Kill
    BY <1>1 DEF Modify, Kill, Unwind, Goto
  <2>4. Narrow => Windows # {}
    BY <1>1, NarrowFails
  <2> QED
    BY <2>2, <2>3, <2>4
<1>2. ASSUME IInv, [Next]_vars, pc = "modify", pc' = "range"
      PROVE  lo <= lo' /\ hi' <= hi /\ hi' - lo' < hi - lo
  <2>1. lo <= lo' /\ hi' <= hi /\ hi' - lo' = 2 * Partition
    BY <1>1, <1>2, NarrowedRange
  <2>2. 2 * Partition < hi - lo
    BY <1>2, TwoPartsFewer
  <2> QED
    BY <2>1, <2>2
<1>3. IInv /\ [Next]_vars => [Shrinks]_vars
  BY <1>2
<1>4. Spec => [][Shrinks]_vars
  BY <1>3, SearchInvariant, PTL DEF Spec
<1> QED
  BY <1>4 DEF RangeShrinks

-------------------------------------------------------------------------------
(* How much is left of a run of the program: a natural number that each of   *)
(* its steps makes smaller.  The positions of a range count the points tried *)
(* and the stages of each; Longest is as many as any range has.              *)
PerK == MAX_TRIALS + 3
Longest == 1 + (INITIAL_K + 1) * PerK
Slice == Longest + 1

Stage ==
  CASE pc = "write" -> 1
    [] pc = "build" -> 2
    [] pc = "trial" -> 3 + trial
    [] OTHER -> 0

Position == IF pc = "range" THEN 0 ELSE 1 + at * PerK + Stage

Top == 3 + INITIAL_K * Slice + Longest

Left ==
  CASE pc = "start" -> Top + 2
    [] pc = "backup" -> Top + 1
    [] pc = "finally" -> 2
    [] pc = "restore" -> 1
    [] pc = "done" -> 0
    [] OTHER -> 3 + (hi - lo) * Slice + (Longest - Position)

TrialCounted == pc = "trial" => trial \in 0 .. MAX_TRIALS - 1

\* Left is less after every step but a kill, which starts the program again.
StepsCounted ==
  /\ [](Left \in 0 .. Top + 2)
  /\ [][kills' = kills => Left' < Left]_vars

LEMMA Products ==
  ASSUME NEW w \in Nat, NEW v \in Nat, NEW d \in Nat
  PROVE  /\ w * d \in Nat
         /\ w <= v => w * d <= v * d
         /\ w < v => w * d + d <= v * d
<1>1. w * d \in Nat /\ v * d \in Nat
  OBVIOUS
<1>2. ASSUME w <= v PROVE w * d <= v * d
  <2>1. v - w \in Nat
    BY <1>2
  <2>2. (v - w) * d \in Nat
    BY <2>1
  <2>3. (v - w) * d = v * d - w * d
    OBVIOUS
  <2> QED
    BY <1>1, <2>2, <2>3
<1>3. ASSUME w < v PROVE w * d + d <= v * d
  <2>1. v - (w + 1) \in Nat
    BY <1>3
  <2>2. (v - (w + 1)) * d \in Nat
    BY <2>1
  <2>3. (v - (w + 1)) * d = v * d - (w * d + d)
    OBVIOUS
  <2> QED
    BY <1>1, <2>2, <2>3
<1> QED
  BY <1>1, <1>2, <1>3

LEMMA Magnitudes ==
  /\ PerK \in Nat /\ PerK >= 4 /\ Longest \in Nat /\ Slice \in Nat /\ Top \in Nat
  /\ Top = 3 + INITIAL_K * Slice + Longest
  /\ Slice = Longest + 1
<1>1. INITIAL_K \in Nat /\ INITIAL_K + 1 \in Nat /\ MAX_TRIALS \in Nat \ {0}
  BY SearcherAssumption
<1>2. PerK \in Nat /\ PerK >= 4
  BY <1>1 DEF PerK
<1>3. (INITIAL_K + 1) * PerK \in Nat
  BY <1>1, <1>2, Products
<1>4. Longest \in Nat /\ Slice \in Nat
  BY <1>3 DEF Longest, Slice
<1>5. INITIAL_K * Slice \in Nat
  BY <1>1, <1>4, Products
<1> QED
  BY <1>2, <1>4, <1>5 DEF Top, Slice

\* A range has no more points than integers.
LEMMA PointsBounded ==
  ASSUME lo \in Ks, hi \in Ks, lo <= hi
  PROVE  Points \in Nat /\ Points <= INITIAL_K + 1
<1>1. hi - lo \in Nat /\ hi - lo <= INITIAL_K /\ INITIAL_K \in Nat
  BY SearcherAssumption DEF Ks
<1>2. Partition \in Nat /\ Points \in Nat
  BY PointInRange
<1>3. ASSUME Partition # 0 PROVE (hi - lo) \div Partition <= hi - lo
  <2> DEFINE parts == (hi - lo) \div Partition
  <2>1. parts \in Nat /\ parts * Partition <= hi - lo
    BY <1>1, <1>2, <1>3, DivisionBound
  <2> HIDE DEF parts
  <2>2. 1 * parts <= Partition * parts
    BY <2>1, <1>2, <1>3, Products
  <2>3. Partition * parts = parts * Partition /\ 1 * parts = parts
    BY <2>1, <1>2
  <2>4. parts <= hi - lo
    BY <2>1, <2>2, <2>3, <1>1, <1>2
  <2> QED
    BY <2>4 DEF parts
<1> QED
  BY <1>1, <1>2, <1>3 DEF Points

LEMMA TrialCountedInit == Init => TrialCounted
  BY DEF Init, TrialCounted

LEMMA TrialCountedStep == IInv /\ TrialCounted /\ [Next]_vars => TrialCounted'
<1> SUFFICES ASSUME IInv, TrialCounted, [Next]_vars, pc' = "trial"
             PROVE  trial' \in 0 .. MAX_TRIALS - 1
  BY DEF TrialCounted
<1> USE SearcherAssumption DEF TrialCounted, Goto, Unwind
<1>1. CASE UNCHANGED vars
  BY <1>1 DEF vars, search
<1>2. CASE Build
  BY <1>2 DEF Build
<1>3. CASE Trial
  <2>1. pc = "trial" /\ Diff(Point(at))
    BY <1>3, TrialOutput
  <2>2. trial \in 0 .. MAX_TRIALS - 1 /\ trial' = trial + 1 /\ trial + 1 # MAX_TRIALS
    BY <2>1 DEF Diff
  <2> QED
    BY <2>2
<1>4. CASE OpenBackup \/ CopyToBackup \/ NextRange \/ Modify \/ Write \/ Narrow
           \/ OpenSource \/ Restore \/ Kill
  BY <1>4 DEF OpenBackup, CopyToBackup, NextRange, Modify, Write, Narrow, OpenSource,
              Restore, Kill
<1> QED
  BY <1>1, <1>2, <1>3, <1>4 DEF Next, Step

\* What is left while the search runs.
LEMMA LeftInSearch ==
  ASSUME IInv, TrialCounted, pc \in Searching \cup {"range"}
  PROVE  /\ Position \in Nat /\ Position <= Longest
         /\ hi - lo \in Nat /\ hi - lo <= INITIAL_K
         /\ (hi - lo) * Slice \in Nat /\ (hi - lo) * Slice <= INITIAL_K * Slice
         /\ Left = 3 + (hi - lo) * Slice + (Longest - Position)
         /\ Left \in 3 .. Top
<1>1. hi - lo \in Nat /\ hi - lo <= INITIAL_K /\ INITIAL_K \in Nat
  BY SearcherAssumption DEF IInv, SearchTypes, Ks
<1>2. (hi - lo) * Slice \in Nat /\ (hi - lo) * Slice <= INITIAL_K * Slice
      /\ INITIAL_K * Slice \in Nat
  BY <1>1, Magnitudes, Products
<1>3. Position \in Nat /\ Position <= Longest
  <2>1. CASE pc = "range"
    BY <2>1, Magnitudes DEF Position
  <2>2. CASE pc \in Searching
    <3>1. at \in Nat /\ at <= Points /\ Points <= INITIAL_K + 1 /\ Points \in Nat
      BY <2>2, PointsBounded DEF IInv, SearchTypes, Trying
    <3>2. Position = 1 + at * PerK + Stage
      BY <2>2 DEF Position, Searching
    <3>3. at * PerK \in Nat /\ at * PerK <= (INITIAL_K + 1) * PerK
          /\ (INITIAL_K + 1) * PerK \in Nat
      BY <1>1, <3>1, Magnitudes, Products
    <3>4. CASE pc = "modify"
      <4>1. Stage = 0
        BY <3>4 DEF Stage
      <4> QED
        BY <3>2, <3>3, <4>1 DEF Longest
    <3>5. CASE pc \in {"write", "build", "trial"}
      <4>1. at < INITIAL_K + 1
        BY <3>1, <3>5, <1>1 DEF IInv, Trying
      <4>2. at * PerK + PerK <= (INITIAL_K + 1) * PerK
        BY <4>1, <3>1, <1>1, Magnitudes, Products
      <4>3. Stage \in 0 .. PerK
        <5>1. MAX_TRIALS \in Nat \ {0}
          BY SearcherAssumption
        <5>2. pc = "trial" => trial \in 0 .. MAX_TRIALS - 1
          BY DEF TrialCounted
        <5> QED
          BY <3>5, <5>1, <5>2 DEF Stage, PerK
      <4> QED
        BY <3>2, <3>3, <4>2, <4>3, Magnitudes DEF Longest
    <3> QED
      BY <2>2, <3>4, <3>5 DEF Searching
  <2> QED
    BY <2>1, <2>2
<1>4. Left = 3 + (hi - lo) * Slice + (Longest - Position)
  BY DEF Left, Searching
<1> QED
  BY <1>1, <1>2, <1>3, <1>4, Magnitudes

LEMMA LeftBounded ==
  ASSUME IInv, TrialCounted
  PROVE  Left \in 0 .. Top + 2
<1>1. CASE pc \in Searching \cup {"range"}
  BY <1>1, LeftInSearch, Magnitudes
<1>2. CASE pc \notin Searching \cup {"range"}
  <2>1. pc \in {"start", "backup", "finally", "restore", "done"}
    BY <1>2 DEF IInv, FileTypes, Labels
  <2> QED
    BY <2>1, Magnitudes DEF Left
<1> QED
  BY <1>1, <1>2

\* The same after a step.
InSearch ==
  IInv /\ TrialCounted /\ pc \in Searching \cup {"range"} =>
    /\ Position \in Nat /\ Position <= Longest
    /\ hi - lo \in Nat
    /\ (hi - lo) * Slice \in Nat
    /\ Left = 3 + (hi - lo) * Slice + (Longest - Position)

LEMMA InSearchNext == InSearch'
<1>1. InSearch
  BY LeftInSearch DEF InSearch
<1> QED
  BY <1>1, PTL

\* A step of the search that keeps to the range goes forward in it...
LEMMA Forward ==
  ASSUME IInv, TrialCounted, IInv', TrialCounted',
         pc \in Searching \cup {"range"}, pc' \in Searching \cup {"range"},
         UNCHANGED <<lo, hi>>, Position < Position'
  PROVE  Left' < Left
<1>1. /\ Position \in Nat /\ Position <= Longest /\ (hi - lo) * Slice \in Nat
      /\ Left = 3 + (hi - lo) * Slice + (Longest - Position)
  BY LeftInSearch
<1>2. /\ Position' \in Nat
      /\ Left' = 3 + (hi' - lo') * Slice + (Longest - Position')
  BY InSearchNext, Magnitudes DEF InSearch, Slice, Longest, PerK, Searching
<1>3. (hi' - lo') * Slice = (hi - lo) * Slice
  OBVIOUS
<1> QED
  BY <1>1, <1>2, <1>3, Magnitudes

\* ... and one that takes up a shorter range has less of it.
LEMMA Shorter ==
  ASSUME IInv, TrialCounted, IInv', TrialCounted',
         pc \in Searching \cup {"range"}, pc' = "range", hi' - lo' < hi - lo
  PROVE  Left' < Left
<1>1. /\ Position \in Nat /\ Position <= Longest
      /\ hi - lo \in Nat /\ (hi - lo) * Slice \in Nat
      /\ Left = 3 + (hi - lo) * Slice + (Longest - Position)
  BY LeftInSearch
<1>2. /\ Position' = 0
      /\ hi' - lo' \in Nat
      /\ Left' = 3 + (hi' - lo') * Slice + (Longest - Position')
  BY InSearchNext DEF InSearch, Slice, Longest, PerK, Position
<1>3. (hi' - lo') * Slice + Slice <= (hi - lo) * Slice /\ (hi' - lo') * Slice \in Nat
  BY <1>1, <1>2, Magnitudes, Products
<1>4. Left' = 3 + (hi' - lo') * Slice + Longest
  BY <1>2, <1>3, Magnitudes
<1> QED
  BY <1>1, <1>3, <1>4, Magnitudes

LEMMA Steps ==
  ASSUME K_PARTITIONS >= CONSECUTIVE,
         IInv, TrialCounted, IInv', TrialCounted', Step
  PROVE  Left' < Left
<1>a. ASSUME pc \in Searching \cup {"range"}, pc' = "finally"
      PROVE  Left' < Left
  BY <1>a, LeftInSearch, Magnitudes DEF Left
<1> USE DEF Goto
<1>1. CASE OpenBackup
  <2>1. Left = Top + 2 /\ Left' = Top + 1
    BY <1>1 DEF OpenBackup, Left, Top, Slice, Longest, PerK
  <2> QED
    BY <2>1, Magnitudes
<1>2. CASE CopyToBackup
  <2>1. Left = Top + 1
    BY <1>2 DEF CopyToBackup, Left
  <2>2. Left' \in 3 .. Top
    <3>1. /\ (hi - lo) * Slice \in Nat /\ (hi - lo) * Slice <= INITIAL_K * Slice
          /\ INITIAL_K * Slice \in Nat
      <4>1. hi - lo \in Nat /\ hi - lo <= INITIAL_K /\ INITIAL_K \in Nat
        BY SearcherAssumption DEF IInv, SearchTypes, Ks
      <4> QED
        BY <4>1, Magnitudes, Products
    <3>2. Left' = 3 + (hi - lo) * Slice + Longest
      <4>1. pc' = "range" /\ hi' = hi /\ lo' = lo
        BY <1>2 DEF CopyToBackup, search
      <4>2. Left' = 3 + (hi - lo) * Slice + (Longest - 0)
        BY <4>1 DEF Left, Position, Slice, Longest, PerK
      <4> QED
        BY <4>2, <3>1, Magnitudes
    <3> DEFINE now == (hi - lo) * Slice
               most == INITIAL_K * Slice
    <3>3. now \in Nat /\ most \in Nat /\ now <= most /\ Left' = 3 + now + Longest
          /\ Top = 3 + most + Longest
      BY <3>1, <3>2, Magnitudes
    <3> HIDE DEF now, most
    <3> QED
      BY <3>3, Magnitudes
  <2> QED
    BY <2>1, <2>2, Magnitudes
<1>3. CASE NextRange
  <2>1. pc = "range" /\ at = 0
    BY <1>3 DEF NextRange, IInv, Trying
  <2>2. CASE pc' = "finally"
    BY <2>1, <2>2, <1>a
  <2>3. CASE pc' = "modify" /\ UNCHANGED <<lo, hi, at>>
    <3>1. Position = 0 /\ Position' = 1
      BY <2>1, <2>3, Magnitudes DEF Position, Stage, PerK
    <3> QED
      BY <2>1, <2>3, <3>1, Forward DEF Searching
  <2> QED
    BY <1>3, <2>2, <2>3 DEF NextRange, Unwind, search
<1>4. CASE Modify
  <2>1. pc = "modify" /\ at \in Nat /\ at * PerK \in Nat
    BY <1>4, Magnitudes, Products DEF Modify, IInv, SearchTypes
  <2>2. CASE pc' = "finally"
    BY <2>1, <2>2, <1>a DEF Searching
  <2>3. CASE pc' = "write" /\ UNCHANGED <<lo, hi, at>>
    <3>1. Position = 1 + at * PerK /\ Position' = 1 + at * PerK + 1
      BY <2>1, <2>3 DEF Position, Stage, PerK
    <3> QED
      BY <2>1, <2>3, <3>1, Forward DEF Searching
  <2> QED
    BY <1>4, <2>2, <2>3 DEF Modify, Unwind, search
<1>5. CASE Write
  <2>1. pc = "write" /\ pc' = "build" /\ UNCHANGED <<lo, hi, at>>
    BY <1>5 DEF Write, search
  <2>2. at * PerK \in Nat
    BY Magnitudes, Products DEF IInv, SearchTypes
  <2>3. Position = 1 + at * PerK + 1 /\ Position' = 1 + at * PerK + 2
    BY <2>1 DEF Position, Stage, PerK
  <2> QED
    BY <2>1, <2>2, <2>3, Forward DEF Searching
<1>6. CASE Build
  <2>1. pc = "build" /\ pc' = "trial" /\ trial' = 0 /\ UNCHANGED <<lo, hi, at>>
    BY <1>6 DEF Build
  <2>2. at * PerK \in Nat
    BY Magnitudes, Products DEF IInv, SearchTypes
  <2>3. Position = 1 + at * PerK + 2 /\ Position' = 1 + at * PerK + (3 + 0)
    BY <2>1 DEF Position, Stage, PerK
  <2> QED
    BY <2>1, <2>2, <2>3, Forward DEF Searching
<1>7. CASE Trial
  <2>1. pc = "trial" /\ trial \in 0 .. MAX_TRIALS - 1 /\ at \in Nat /\ MAX_TRIALS \in Nat
    BY <1>7, TrialOutput, SearcherAssumption DEF TrialCounted
  <2>2. CASE output' = NoFile
    BY <1>7, <2>1, <2>2, <1>a, TrialFails DEF Searching
  <2>3. CASE output' # NoFile
    <3>1. /\ UNCHANGED <<lo, hi>>
          /\ \/ pc' = "modify" /\ at' = at + 1
             \/ pc' = "trial" /\ at' = at /\ trial' = trial + 1
      BY <1>7, <2>1, <2>3, TrialOutput DEF Diff
    <3>2. at * PerK \in Nat /\ Position = 1 + at * PerK + (3 + trial)
      BY <2>1, Magnitudes, Products DEF Position, Stage
    <3>3. Position < Position'
      <4>1. CASE pc' = "modify" /\ at' = at + 1
        <5>1. Position' = 1 + (at + 1) * PerK + 0
          BY <4>1 DEF Position, Stage, PerK
        <5>2. (at + 1) * PerK = at * PerK + PerK
          BY <2>1, Magnitudes
        <5> QED
          BY <2>1, <3>2, <5>1, <5>2 DEF PerK
      <4>2. CASE pc' = "trial" /\ at' = at /\ trial' = trial + 1
        <5>1. Position' = 1 + at * PerK + (3 + (trial + 1))
          BY <4>2 DEF Position, Stage, PerK
        <5> QED
          BY <2>1, <3>2, <5>1
      <4> QED
        BY <3>1, <4>1, <4>2
    <3>4. pc' \in Searching /\ pc \in Searching
      BY <2>1, <3>1 DEF Searching
    <3> QED
      BY <3>1, <3>3, <3>4, Forward
  <2> QED
    BY <2>2, <2>3
<1>8. CASE Narrow
  <2>1. pc = "modify"
    BY <1>8 DEF Narrow
  <2>2. CASE Windows = {}
    BY <1>8, <2>1, <2>2, <1>a, NarrowFails DEF Searching
  <2>3. CASE Windows # {}
    <3>1. pc' = "range" /\ hi' - lo' = 2 * Partition
      BY <1>8, <2>3, NarrowedRange
    <3>2. 2 * Partition < hi - lo
      BY <2>1, TwoPartsFewer
    <3> QED
      BY <2>1, <3>1, <3>2, Shorter DEF Searching
  <2> QED
    BY <2>2, <2>3
<1>9. CASE OpenSource
  BY <1>9 DEF OpenSource, Left
<1>10. CASE Restore
  BY <1>10 DEF Restore, Left
<1> QED
  BY <1>1, <1>2, <1>3, <1>4, <1>5, <1>6, <1>7, <1>8, <1>9, <1>10 DEF Step

\* The loop of bin_find_optimal_k ends: whatever the speed-ups measured and
\* whatever fails, a run of the program has no more than Top + 2 steps, since
\* each of its steps makes what is left, a natural number no greater, smaller.
THEOREM SearchIsBounded ==
  ASSUME K_PARTITIONS >= CONSECUTIVE
  PROVE  Spec => StepsCounted
<1>1. Spec => []TrialCounted
  <2>1. Init => TrialCounted
    BY TrialCountedInit
  <2>2. IInv /\ TrialCounted /\ [Next]_vars => TrialCounted'
    BY TrialCountedStep
  <2> QED
    BY <2>1, <2>2, SearchInvariant, PTL DEF Spec
<1>2. IInv /\ TrialCounted => Left \in 0 .. Top + 2
  BY LeftBounded
<1>3. IInv /\ TrialCounted /\ IInv' /\ TrialCounted' /\ [Next]_vars
        => [kills' = kills => Left' < Left]_vars
  <2> SUFFICES ASSUME IInv, TrialCounted, IInv', TrialCounted', Next, kills' = kills
               PROVE  Left' < Left
    OBVIOUS
  <2>1. ~Kill
    BY DEF Kill, IInv, FileTypes
  <2> QED
    BY <2>1, Steps DEF Next
<1>4. Spec => []IInv /\ [][Next]_vars
  BY SearchInvariant, PTL DEF Spec
<1>5. Spec => [](Left \in 0 .. Top + 2)
  BY <1>1, <1>2, <1>4, PTL
<1>6. Spec => [][kills' = kills => Left' < Left]_vars
  BY <1>1, <1>3, <1>4, PTL
<1> QED
  BY <1>5, <1>6 DEF StepsCounted
===============================================================================
