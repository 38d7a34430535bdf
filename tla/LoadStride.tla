------------------------------ MODULE LoadStride ------------------------------
(***************************************************************************)
(* The per-load stride collector, class LoadStride of                      *)
(* proj_pass/tools/stride-profiler/loadstride.{hxx,cxx}.                   *)
(*                                                                         *)
(* One instance exists per profiled load.  The instrumented program calls  *)
(* addAddress with every sampled address and clearAddresses when a sampling *)
(* chunk ends.  The instance keeps the full sequence of non-zero strides,  *)
(* their histogram, and, maintained incrementally, the TOPCOUNT most       *)
(* frequent strides and the single most frequent one.  The incremental     *)
(* summaries are what the profile file holds, so their correctness against *)
(* the full sequence is the subject of this module.                        *)
(***************************************************************************)
EXTENDS Integers, Sequences, FiniteSets

CONSTANTS Addresses,       \* addresses the load may touch
          TOPCOUNT,        \* length of the list of top strides, 4 in the code
          MaxStrides,      \* model bound: strides recorded by one instance
          MaxZeroStrides   \* model bound: zero strides counted

ASSUME AddressesAssumption == Addresses \subseteq Nat
ASSUME TopCountAssumption  == TOPCOUNT \in Nat \ {0}
ASSUME BoundsAssumption    == MaxStrides \in Nat /\ MaxZeroStrides \in Nat

VARIABLES lastAddress, strideValues, strideValuesToCount, strideZeroCount,
          strideZeroDifferenceCount, topStrideValues, topStrideHolder

vars == <<lastAddress, strideValues, strideValuesToCount, strideZeroCount,
          strideZeroDifferenceCount, topStrideValues, topStrideHolder>>

\* What the strides recorded so far determine: everything but the address.
summary == <<strideValues, strideValuesToCount, strideZeroDifferenceCount,
             topStrideValues, topStrideHolder>>

NoAddress == -1    \* no address to take a stride from

\* The values `addr - last_address` can have.
Strides == {a - b : a \in Addresses, b \in Addresses}

\* pair<long, long>: a stride and how often it was seen.
Pair(value, count) == [first |-> value, second |-> count]

\* Addresses that differ in their last 4 bits only count as the same address.
isSameValue(value1, value2) == value1 \div 16 = value2 \div 16

\* strideValuesToCount[stride], 0 for a stride the map does not hold.
CountIn(map, stride) == IF stride \in DOMAIN map THEN map[stride] ELSE 0

\* Mutant: overwrites the count of a stride that is already in the map.
CountedResets(map, stride) ==
  [s \in DOMAIN map \cup {stride} |-> IF s = stride THEN 1 ELSE map[s]]

\* The map after `strideValuesToCount[stride]++` (or `= 1`).
Counted(map, stride) ==
  [s \in DOMAIN map \cup {stride} |->
      IF s = stride THEN CountIn(map, stride) + 1 ELSE map[s]]

-------------------------------------------------------------------------------
Init == /\ lastAddress = NoAddress
        /\ strideValues = <<>>
        /\ strideValuesToCount = [s \in {} |-> 0]
        /\ strideZeroCount = 0
        /\ strideZeroDifferenceCount = 0
        /\ topStrideValues = <<>>
        /\ topStrideHolder = Pair(-1, -1)

\* Mutant: never replaces the first most frequent stride it met.
KeepFirstHolder(value, count) ==
  topStrideHolder' = IF topStrideHolder.second = -1 \/ topStrideHolder.first = value
                     THEN Pair(value, count) ELSE topStrideHolder

(***************************************************************************)
(* updateTopStrideValues(value), with count the value's new total: first   *)
(* the most frequent stride, then the list of the TOPCOUNT top ones, which *)
(* either holds the value, has room for it, or gives up its lowest entry.  *)
(***************************************************************************)
UpdateHolder(value, count) ==
  topStrideHolder' = IF count > topStrideHolder.second
                     THEN Pair(value, count) ELSE topStrideHolder

IsTracked(value) == \E i \in DOMAIN topStrideValues : topStrideValues[i].first = value

RefreshTracked(value, count) ==
  /\ IsTracked(value)
  /\ \E i \in DOMAIN topStrideValues :
        /\ topStrideValues[i].first = value
        /\ \A j \in 1..(i-1) : topStrideValues[j].first # value
        /\ topStrideValues' = [topStrideValues EXCEPT ![i] = Pair(value, count)]

\* Mutant: the list grows one entry past its length.
AppendPastLimit(value, count) ==
  /\ ~IsTracked(value)
  /\ Len(topStrideValues) <= TOPCOUNT
  /\ topStrideValues' = Append(topStrideValues, Pair(value, count))

AppendUntracked(value, count) ==
  /\ ~IsTracked(value)
  /\ Len(topStrideValues) < TOPCOUNT
  /\ topStrideValues' = Append(topStrideValues, Pair(value, count))

\* The first position of the list that holds its lowest count.
IsLowest(i) ==
  /\ \A j \in DOMAIN topStrideValues : topStrideValues[i].second <= topStrideValues[j].second
  /\ \A j \in 1..(i-1) : topStrideValues[i].second < topStrideValues[j].second

\* Mutant: gives up the first entry whatever its count.
EvictFirst(value, count) ==
  /\ ~IsTracked(value)
  /\ Len(topStrideValues) >= TOPCOUNT
  /\ topStrideValues' = IF count > topStrideValues[1].second
                        THEN [topStrideValues EXCEPT ![1] = Pair(value, count)]
                        ELSE topStrideValues

\* Mutant: `>=` for `>`, a tie throws out an entry as frequent as the value.
EvictOnTie(value, count) ==
  /\ ~IsTracked(value)
  /\ Len(topStrideValues) >= TOPCOUNT
  /\ \E i \in DOMAIN topStrideValues :
        /\ IsLowest(i)
        /\ topStrideValues' = IF count >= topStrideValues[i].second
                              THEN [topStrideValues EXCEPT ![i] = Pair(value, count)]
                              ELSE topStrideValues

EvictLowest(value, count) ==
  /\ ~IsTracked(value)
  /\ Len(topStrideValues) >= TOPCOUNT
  /\ \E i \in DOMAIN topStrideValues :
        /\ IsLowest(i)
        /\ topStrideValues' = IF count > topStrideValues[i].second
                              THEN [topStrideValues EXCEPT ![i] = Pair(value, count)]
                              ELSE topStrideValues

UpdateTopStrideValues(value, count) ==
  /\ UpdateHolder(value, count)
  /\ IF value = 0     \* 0 is never listed
     THEN UNCHANGED topStrideValues
     ELSE \/ RefreshTracked(value, count)
          \/ AppendUntracked(value, count)
          \/ EvictLowest(value, count)

(***************************************************************************)
(* addAddress(addr): one disjunct for each way through the method.         *)
(***************************************************************************)
StrideTo(addr) == addr - lastAddress

SameAsLast(addr) == StrideTo(addr) = 0 \/ isSameValue(addr, lastAddress)

FirstAddress(addr) ==
  /\ lastAddress = NoAddress
  /\ lastAddress' = addr
  /\ UNCHANGED <<summary, strideZeroCount>>

ZeroStride(addr) ==
  /\ lastAddress # NoAddress
  /\ SameAsLast(addr)
  /\ strideZeroCount < MaxZeroStrides
  /\ lastAddress' = addr
  /\ strideZeroCount' = strideZeroCount + 1
  /\ UNCHANGED summary

RecordStride(stride) ==
  /\ Len(strideValues) < MaxStrides
  /\ strideValues' = Append(strideValues, stride)
  /\ strideValuesToCount' = Counted(strideValuesToCount, stride)
  /\ UpdateTopStrideValues(stride, CountIn(strideValuesToCount', stride))

\* The first recorded stride has no predecessor to differ from.
FirstStride(addr) ==
  /\ lastAddress # NoAddress
  /\ ~SameAsLast(addr)
  /\ strideValues = <<>>
  /\ RecordStride(StrideTo(addr))
  /\ lastAddress' = addr
  /\ UNCHANGED <<strideZeroCount, strideZeroDifferenceCount>>

\* Mutant: the difference is taken after the push, from the stride itself.
CountDifferenceAfterPush(stride) ==
  strideZeroDifferenceCount' = strideZeroDifferenceCount + 1

CountDifference(stride) ==
  strideZeroDifferenceCount' =
    strideZeroDifferenceCount + (IF stride = strideValues[Len(strideValues)] THEN 1 ELSE 0)

NextStride(addr) ==
  /\ lastAddress # NoAddress
  /\ ~SameAsLast(addr)
  /\ strideValues # <<>>
  /\ RecordStride(StrideTo(addr))
  /\ CountDifference(StrideTo(addr))
  /\ lastAddress' = addr
  /\ UNCHANGED strideZeroCount

AddAddress(addr) == \/ FirstAddress(addr)
                    \/ ZeroStride(addr)
                    \/ FirstStride(addr)
                    \/ NextStride(addr)

\* clearAddresses(): forgets the address but not the strides, so the first
\* stride after a gap is compared with the last one before it.
ClearAddresses == /\ lastAddress' = NoAddress
                  /\ UNCHANGED <<summary, strideZeroCount>>

Next == \/ \E addr \in Addresses : AddAddress(addr)
        \/ ClearAddresses

Spec == Init /\ [][Next]_vars

-------------------------------------------------------------------------------
(* What the profile file reads off an instance.                            *)

NumberUniqueStrides == Cardinality(DOMAIN strideValuesToCount)
StrideExecCount == Len(strideValues)
DominantStride == topStrideHolder.first

-------------------------------------------------------------------------------
(* Properties.                                                             *)

Positions(stride) == {i \in DOMAIN strideValues : strideValues[i] = stride}

RepeatPositions == {i \in DOMAIN strideValues :
                      i > 1 /\ strideValues[i] = strideValues[i - 1]}

Listed == {topStrideValues[i].first : i \in DOMAIN topStrideValues}

\* Every variable keeps its type, and the list of top strides its length.
TypeOK == /\ lastAddress \in Addresses \cup {NoAddress}
          /\ strideValues \in Seq(Strides)
          /\ DOMAIN strideValuesToCount \in SUBSET Strides
          /\ strideValuesToCount \in [DOMAIN strideValuesToCount -> Nat \ {0}]
          /\ strideZeroCount \in Nat
          /\ strideZeroDifferenceCount \in Nat
          /\ topStrideValues \in Seq([first : Strides, second : Nat \ {0}])
          /\ Len(topStrideValues) <= TOPCOUNT
          /\ topStrideHolder \in [first : Strides \cup {-1}, second : Nat \cup {-1}]

\* strideValuesToCount, updated by increments, is the histogram of strideValues:
\* each key's count is its number of occurrences, and no stride is missing.
HistogramExact ==
  /\ \A i \in DOMAIN strideValues : strideValues[i] \in DOMAIN strideValuesToCount
  /\ \A s \in DOMAIN strideValuesToCount :
        strideValuesToCount[s] = Cardinality(Positions(s))

\* The list maintained by refresh, append and evict is a correct top TOPCOUNT:
\* entries are distinct strides with their current counts, and a stride left
\* out of it is no more frequent than any stride in it, and only when full.
TopEntriesExact ==
  \A i \in DOMAIN topStrideValues :
     /\ topStrideValues[i].first \in DOMAIN strideValuesToCount
     /\ topStrideValues[i].second = strideValuesToCount[topStrideValues[i].first]

TopEntriesDistinct ==
  \A i, j \in DOMAIN topStrideValues :
     i # j => topStrideValues[i].first # topStrideValues[j].first

UnlistedNotHigher ==
  \A s \in DOMAIN strideValuesToCount \ Listed :
     /\ Len(topStrideValues) = TOPCOUNT
     /\ \A i \in DOMAIN topStrideValues :
           strideValuesToCount[s] <= topStrideValues[i].second

TopIsTop == TopEntriesExact /\ TopEntriesDistinct /\ UnlistedNotHigher

\* The dominant stride is a mode of everything recorded, its count is current,
\* and it is always one of the listed strides: the reader of the profile takes
\* the highest of the listed counts for the dominant stride's own.
DominantIsMode ==
  IF strideValues = <<>>
  THEN topStrideHolder = Pair(-1, -1)
  ELSE /\ topStrideHolder.first \in DOMAIN strideValuesToCount \cap Listed
       /\ topStrideHolder.second = strideValuesToCount[topStrideHolder.first]
       /\ \A s \in DOMAIN strideValuesToCount :
             strideValuesToCount[s] <= topStrideHolder.second

\* strideZeroDifferenceCount is the number of strides equal to the one recorded
\* before them, so the two classifier ratios built on it are at most 1.
ZeroDifferencesExact == strideZeroDifferenceCount = Cardinality(RepeatPositions)

\* The collector implements the abstract promise TopStrides: every way through
\* addAddress that records a stride is a Record step, and the summaries it
\* maintains incrementally are right answers after each one.
Abstract == INSTANCE TopStrides WITH
  Values   <- Strides,
  K        <- TOPCOUNT,
  seen     <- [s \in Strides |-> CountIn(strideValuesToCount, s)],
  top      <- Listed,
  dominant <- topStrideHolder.first

ImplementsTopStrides == Abstract!TSSpec
===============================================================================
