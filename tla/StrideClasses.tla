---------------------------- MODULE StrideClasses -----------------------------
(***************************************************************************)
(* From a collector to a prefetching decision: the line                    *)
(* Stride_print_StrideProfile writes for a load                            *)
(* (proj_pass/tools/stride-profiler/stride_hooks.cxx), the loadInfo that   *)
(* StrideLoadProfile::runOnModule reads back                               *)
(* (proj_pass/lib/projpass/StrideLoadProfile.cpp), and the class that      *)
(* StridePrefetch::profile (strideprefetch.cpp) derives from it.           *)
(*                                                                         *)
(* Each is a function of the collector's state, so the module adds         *)
(* operators to LoadStride, and its invariants say that in every state a   *)
(* collector can be in, printing, reading and classifying give the class   *)
(* the recorded strides themselves deserve.                                *)
(***************************************************************************)
EXTENDS LoadStride

CONSTANTS NUM_TOP_FREQ,   \* frequencies in a line, 4 in the code
          IntWidth        \* width of an int, 32 in the code

ASSUME FormatAssumption == NUM_TOP_FREQ \in Nat \ {0} /\ IntWidth \in Nat \ {0}

\* The value left in an int by a conversion from a wider integer.
AsInt(x) == LET r == x % (2^IntWidth)
            IN  IF r >= 2^(IntWidth - 1) THEN r - 2^IntWidth ELSE r

-------------------------------------------------------------------------------
\* A line holds NUM_TOP_FREQ frequencies whatever the length of the list.
Padded(freqs) == [i \in 1..NUM_TOP_FREQ |-> IF i <= Len(freqs) THEN freqs[i] ELSE 0]

\* Stride_print_StrideProfile, for this load.
ProfileLine ==
  [num_strides     |-> NumberUniqueStrides,
   exec_count      |-> StrideExecCount,
   num_zero_diff   |-> strideZeroDifferenceCount,
   dominant_stride |-> DominantStride,
   freqs           |-> Padded([i \in DOMAIN topStrideValues |-> topStrideValues[i].second])]

\* Mutant: the frequencies stay in the order of the list.
Unsorted(freqs) == freqs

\* Where sorting downwards puts entry i.
Place(freqs, i) == Cardinality({j \in DOMAIN freqs : \/ freqs[j] > freqs[i]
                                                     \/ freqs[j] = freqs[i] /\ j <= i})

\* sort(top_freqs.rbegin(), top_freqs.rend()).
Descending(freqs) ==
  [k \in DOMAIN freqs |-> freqs[CHOOSE i \in DOMAIN freqs : Place(freqs, i) = k]]

\* What runOnModule makes of a line: ints, and sorted frequencies.
LoadInfo(line) ==
  [num_strides     |-> AsInt(line.num_strides),
   exec_count      |-> AsInt(line.exec_count),
   num_zero_diff   |-> AsInt(line.num_zero_diff),
   dominant_stride |-> AsInt(line.dominant_stride),
   top_freqs       |-> Descending(line.freqs)]

\* The thresholds of profilefeedback.h, in percent.
SSST_T == 70
PMST_T == 60
PMSTD_T == 35
WSST_T == 25
WSSTD_T == 10

\* (double) part / whole > percent / 100.
Above(part, whole, percent) == 100 * part > percent * whole

\* The loop that adds the frequencies up.
SumOf(freqs) == LET sum[i \in 0..Len(freqs)] == IF i = 0 THEN 0 ELSE sum[i - 1] + freqs[i]
                IN  sum[Len(freqs)]

\* The last part of StridePrefetch::profile.
Classify(info) ==
  LET freq1      == info.top_freqs[1]
      top_4_freq == SumOf(info.top_freqs)
      zeroDiff   == info.num_zero_diff
      n          == info.exec_count
  IN  IF n <= 0 THEN "none"
      ELSE IF Above(freq1, n, SSST_T) THEN "SSST"
      ELSE IF Above(top_4_freq, n, PMST_T) /\ Above(zeroDiff, n, PMSTD_T) THEN "PMST"
      ELSE IF Above(freq1, n, WSST_T) /\ Above(zeroDiff, n, WSSTD_T) THEN "WSST"
      ELSE "none"

Info == LoadInfo(ProfileLine)

-------------------------------------------------------------------------------
(* The class the sequence of recorded strides deserves.                    *)

Recorded == {strideValues[i] : i \in DOMAIN strideValues}

\* Occurrences of the strides of a set.
Share(S) == Cardinality({i \in DOMAIN strideValues : strideValues[i] \in S})

\* Some stride makes up more than the percentage.
OneAbove(percent) == \E s \in Recorded : Above(Share({s}), Len(strideValues), percent)

\* Some NUM_TOP_FREQ strides do, together.
FewAbove(percent) == \E S \in SUBSET Recorded :
                        /\ Cardinality(S) <= NUM_TOP_FREQ
                        /\ Above(Share(S), Len(strideValues), percent)

RepeatsAbove(percent) == Above(Cardinality(RepeatPositions), Len(strideValues), percent)

IsStrong == OneAbove(SSST_T)
IsPhased == ~IsStrong /\ FewAbove(PMST_T) /\ RepeatsAbove(PMSTD_T)
IsWeak   == ~IsStrong /\ ~IsPhased /\ OneAbove(WSST_T) /\ RepeatsAbove(WSSTD_T)

\* Counting incrementally, keeping only the top strides, printing, padding,
\* parsing and sorting lose nothing the classifier needs: the class it gives a
\* load is the one its whole sequence of strides deserves.
ClassIsDeserved == LET class == Classify(Info)
                   IN  /\ class = "SSST" <=> IsStrong
                       /\ class = "PMST" <=> IsPhased
                       /\ class = "WSST" <=> IsWeak

\* The stride that a strongly strided load is prefetched along is the one that
\* made it strong, as the reader finds it in the line.
StrongAlongDominant ==
  Classify(Info) = "SSST" =>
     \A s \in Recorded : Above(Share({s}), Len(strideValues), SSST_T) <=> s = Info.dominant_stride
===============================================================================
