--------------------------- MODULE LoadStrideProofs ---------------------------
(***************************************************************************)
(* TLAPS proofs about LoadStride, for every set of addresses, every length *)
(* of the list of top strides and every bound.  The conjunction IInv of    *)
(* the module's invariants is inductive: the list is a correct top only    *)
(* because the histogram it is compared with is exact, and the dominant    *)
(* stride stays listed only because an eviction needs a strictly higher    *)
(* count than the lowest entry's.                                          *)
(*                                                                         *)
(* The second part is about StrideSampling, the code around the load that  *)
(* fills the collector, for all executions, chunks and widths of counters; *)
(* the third about StrideClasses, the way from the collector to the class. *)
(***************************************************************************)
EXTENDS StrideSampling, StrideClasses, FiniteSetTheorems, WellFoundedInduction, TLAPS

IInv == /\ TypeOK
        /\ HistogramExact
        /\ TopIsTop
        /\ DominantIsMode
        /\ ZeroDifferencesExact

\* What recording a stride sees and does, once the address bookkeeping of
\* addAddress is left out.
Recording(stride) == /\ stride \in Strides /\ stride # 0
                     /\ RecordStride(stride)

\* Two facts about sequences the proofs below cite by name.
LEMMA ElementOfSeq ==
  ASSUME NEW S, NEW seq \in Seq(S), NEW i \in DOMAIN seq
  PROVE  seq[i] \in S
  OBVIOUS

LEMMA AppendNotEmpty ==
  ASSUME NEW S, NEW seq \in Seq(S), NEW x \in S
  PROVE  Append(seq, x) # <<>>
  <1>1. Len(Append(seq, x)) = Len(seq) + 1 /\ Len(seq) \in Nat
    OBVIOUS
  <1>2. Len(<<>>) = 0
    OBVIOUS
  <1>3. QED BY <1>1, <1>2

LEMMA StridesAreInts == Strides \subseteq Int
  BY AddressesAssumption DEF Strides

\* A step of addAddress that records a stride records a non-zero one.
LEMMA StrideToRecorded ==
  ASSUME TypeOK, NEW addr \in Addresses, lastAddress # NoAddress, ~SameAsLast(addr)
  PROVE  StrideTo(addr) \in Strides /\ StrideTo(addr) # 0
  <1>1. lastAddress \in Addresses
    BY DEF TypeOK
  <1>2. StrideTo(addr) \in Strides
    BY <1>1 DEF StrideTo, Strides
  <1>3. QED BY <1>2 DEF SameAsLast

-------------------------------------------------------------------------------
(* The histogram.                                                          *)

\* Counting a stride raises its count by one and leaves the others alone.
LEMMA CountedCounts ==
  ASSUME TypeOK, NEW stride \in Strides,
         strideValuesToCount' = Counted(strideValuesToCount, stride)
  PROVE  /\ DOMAIN strideValuesToCount' = DOMAIN strideValuesToCount \cup {stride}
         /\ \A s \in DOMAIN strideValuesToCount \ {stride} :
               strideValuesToCount'[s] = strideValuesToCount[s]
         /\ strideValuesToCount'[stride] = CountIn(strideValuesToCount, stride) + 1
         /\ strideValuesToCount'[stride] = CountIn(strideValuesToCount', stride)
         /\ strideValuesToCount'[stride] \in Nat \ {0}
         /\ CountIn(strideValuesToCount, stride) \in Nat
         /\ stride \in DOMAIN strideValuesToCount =>
               strideValuesToCount'[stride] = strideValuesToCount[stride] + 1
         /\ stride \notin DOMAIN strideValuesToCount => strideValuesToCount'[stride] = 1
         /\ DOMAIN strideValuesToCount' \in SUBSET Strides
         /\ strideValuesToCount' \in [DOMAIN strideValuesToCount' -> Nat \ {0}]
  BY DEF TypeOK, Counted, CountIn

LEMMA PositionsFinite ==
  ASSUME strideValues \in Seq(Strides), NEW s
  PROVE  IsFiniteSet(Positions(s)) /\ Len(strideValues) + 1 \notin Positions(s)
  <1>1. IsFiniteSet(1..Len(strideValues))
    BY FS_Interval
  <1>2. Positions(s) \in SUBSET (1..Len(strideValues))
    BY DEF Positions
  <1>3. QED BY <1>1, <1>2, FS_Subset

\* The positions of a stride after another stride is pushed.
LEMMA PositionsAfterPush ==
  ASSUME strideValues \in Seq(Strides), NEW stride \in Strides, NEW s,
         strideValues' = Append(strideValues, stride)
  PROVE  Positions(s)' = IF s = stride THEN Positions(s) \cup {Len(strideValues) + 1}
                         ELSE Positions(s)
  BY DEF Positions

LEMMA HistogramStep ==
  ASSUME TypeOK, HistogramExact, NEW stride, Recording(stride)
  PROVE  HistogramExact'
  <1>1. /\ stride \in Strides
        /\ strideValues \in Seq(Strides)
        /\ strideValues' = Append(strideValues, stride)
        /\ strideValuesToCount' = Counted(strideValuesToCount, stride)
    BY DEF Recording, RecordStride, TypeOK
  <1>2. \A i \in DOMAIN strideValues' : strideValues'[i] \in DOMAIN strideValuesToCount'
    <2>1. DOMAIN strideValuesToCount' = DOMAIN strideValuesToCount \cup {stride}
      BY <1>1, CountedCounts
    <2>2. \A i \in DOMAIN strideValues' :
             \/ i \in DOMAIN strideValues /\ strideValues'[i] = strideValues[i]
             \/ strideValues'[i] = stride
      BY <1>1
    <2>3. QED BY <2>1, <2>2 DEF HistogramExact
  <1>3. ASSUME NEW s \in DOMAIN strideValuesToCount'
        PROVE  strideValuesToCount'[s] = Cardinality(Positions(s)')
    <2>1. CASE s # stride
      <3>1. s \in DOMAIN strideValuesToCount /\ Positions(s)' = Positions(s)
        BY <1>1, <2>1, CountedCounts, PositionsAfterPush
      <3>2. QED BY <1>1, <2>1, <3>1, CountedCounts DEF HistogramExact
    <2>2. CASE s = stride
      <3>1. Positions(s)' = Positions(s) \cup {Len(strideValues) + 1}
        BY <1>1, <2>2, PositionsAfterPush
      <3>2. Cardinality(Positions(s)') = Cardinality(Positions(s)) + 1
        BY <1>1, <3>1, PositionsFinite, FS_AddElement
      <3>3. CountIn(strideValuesToCount, s) = Cardinality(Positions(s))
        <4>1. CASE s \in DOMAIN strideValuesToCount
          BY <4>1 DEF CountIn, HistogramExact
        <4>2. CASE s \notin DOMAIN strideValuesToCount
          <5>1. Positions(s) = {}
            BY <4>2 DEF Positions, HistogramExact
          <5>2. QED BY <4>2, <5>1, FS_EmptySet DEF CountIn
        <4>3. QED BY <4>1, <4>2
      <3>4. QED BY <1>1, <2>2, <3>2, <3>3, CountedCounts
    <2>3. QED BY <2>1, <2>2
  <1>4. QED BY <1>2, <1>3 DEF HistogramExact

-------------------------------------------------------------------------------
(* The list of top strides and the dominant stride.                        *)

\* What updateTopStrideValues finds and what its three branches leave, in terms
\* of the recorded stride and its new count.
LEMMA TopUpdate ==
  ASSUME TypeOK, NEW stride, Recording(stride)
  PROVE  LET c == strideValuesToCount'[stride]
         IN  /\ UpdateHolder(stride, c)
             /\ \/ RefreshTracked(stride, c)
                \/ AppendUntracked(stride, c)
                \/ EvictLowest(stride, c)
  <1>1. /\ stride \in Strides /\ stride # 0
        /\ strideValuesToCount' = Counted(strideValuesToCount, stride)
        /\ UpdateTopStrideValues(stride, CountIn(strideValuesToCount', stride))
    BY DEF Recording, RecordStride
  <1>2. strideValuesToCount'[stride] = CountIn(strideValuesToCount', stride)
    BY <1>1, CountedCounts
  <1>3. QED BY <1>1, <1>2 DEF UpdateTopStrideValues

\* The list after a step, entry by entry: every branch leaves old entries of
\* other strides where they were, or replaces the lowest one.
LEMMA TopEntriesStep ==
  ASSUME TypeOK, TopIsTop, NEW stride, Recording(stride)
  PROVE  /\ TopEntriesExact'
         /\ TopEntriesDistinct'
         /\ topStrideValues' \in Seq([first : Strides, second : Nat \ {0}])
         /\ Len(topStrideValues') <= TOPCOUNT
  <1> DEFINE c == strideValuesToCount'[stride]
             e == Pair(stride, c)
  <1>1. /\ stride \in Strides
        /\ topStrideValues \in Seq([first : Strides, second : Nat \ {0}])
        /\ Len(topStrideValues) <= TOPCOUNT
        /\ TOPCOUNT \in Nat \ {0}
        /\ strideValuesToCount' = Counted(strideValuesToCount, stride)
    BY TopCountAssumption DEF Recording, RecordStride, TypeOK
  <1>2. /\ DOMAIN strideValuesToCount' = DOMAIN strideValuesToCount \cup {stride}
        /\ \A s \in DOMAIN strideValuesToCount \ {stride} :
              strideValuesToCount'[s] = strideValuesToCount[s]
        /\ c \in Nat \ {0}
    BY <1>1, CountedCounts
  <1>3. /\ e \in [first : Strides, second : Nat \ {0}]
        /\ e.first = stride /\ e.second = c
    BY <1>1, <1>2 DEF Pair
  <1>4. /\ TopEntriesExact /\ TopEntriesDistinct
    BY DEF TopIsTop
  <1> HIDE DEF c, e
  <1>5. CASE RefreshTracked(stride, c)
    <2>1. PICK i \in DOMAIN topStrideValues :
             /\ topStrideValues[i].first = stride
             /\ topStrideValues' = [topStrideValues EXCEPT ![i] = e]
      BY <1>5 DEF RefreshTracked, e
    <2>2. QED BY <1>1, <1>2, <1>3, <1>4, <2>1 DEF TopEntriesExact, TopEntriesDistinct, c
  <1>6. CASE AppendUntracked(stride, c)
    <2>1. topStrideValues' = Append(topStrideValues, e) /\ Len(topStrideValues) < TOPCOUNT
      BY <1>6 DEF AppendUntracked, e
    <2>2. \A i \in DOMAIN topStrideValues : topStrideValues[i].first # stride
      BY <1>6 DEF AppendUntracked, IsTracked
    <2>3. QED BY <1>1, <1>2, <1>3, <1>4, <2>1, <2>2 DEF TopEntriesExact, TopEntriesDistinct, c
  <1>7. CASE EvictLowest(stride, c)
    <2>1. PICK i \in DOMAIN topStrideValues :
             \/ topStrideValues' = [topStrideValues EXCEPT ![i] = e]
             \/ topStrideValues' = topStrideValues
      BY <1>7 DEF EvictLowest, e
    <2>2. \A j \in DOMAIN topStrideValues : topStrideValues[j].first # stride
      BY <1>7 DEF EvictLowest, IsTracked
    <2>3. CASE topStrideValues' = [topStrideValues EXCEPT ![i] = e]
      BY <1>1, <1>2, <1>3, <1>4, <2>2, <2>3 DEF TopEntriesExact, TopEntriesDistinct, c
    <2>4. CASE topStrideValues' = topStrideValues
      BY <1>1, <1>2, <1>4, <2>2, <2>4 DEF TopEntriesExact, TopEntriesDistinct
    <2>5. QED BY <2>1, <2>3, <2>4
  <1>8. QED BY <1>5, <1>6, <1>7, TopUpdate DEF c
\* After a step, a stride that is not listed is no more frequent than any that
\* is: it was already unlisted, or is the one evicted, or was not let in.
LEMMA UnlistedStep ==
  ASSUME TypeOK, TopIsTop, NEW stride, Recording(stride)
  PROVE  UnlistedNotHigher'
  <1> DEFINE c == strideValuesToCount'[stride]
             e == Pair(stride, c)
             D == DOMAIN strideValuesToCount
  <1>1. /\ stride \in Strides
        /\ topStrideValues \in Seq([first : Strides, second : Nat \ {0}])
        /\ Len(topStrideValues) <= TOPCOUNT
        /\ TOPCOUNT \in Nat \ {0}
        /\ strideValuesToCount' = Counted(strideValuesToCount, stride)
        /\ strideValuesToCount \in [D -> Nat \ {0}]
    BY TopCountAssumption DEF Recording, RecordStride, TypeOK
  <1>2. /\ DOMAIN strideValuesToCount' = D \cup {stride}
        /\ \A s \in D \ {stride} : strideValuesToCount'[s] = strideValuesToCount[s]
        /\ c \in Nat \ {0}
        /\ stride \in D => c = strideValuesToCount[stride] + 1
    BY <1>1, CountedCounts
  <1>3. /\ e \in [first : Strides, second : Nat \ {0}]
        /\ e.first = stride /\ e.second = c
    BY <1>1, <1>2 DEF Pair
  <1>4. \A s \in D \ Listed :
           /\ Len(topStrideValues) = TOPCOUNT
           /\ \A i \in DOMAIN topStrideValues :
                 strideValuesToCount[s] <= topStrideValues[i].second
    BY DEF TopIsTop, UnlistedNotHigher
  <1>5. \A i \in DOMAIN topStrideValues :
           /\ topStrideValues[i].first \in D
           /\ topStrideValues[i].second = strideValuesToCount[topStrideValues[i].first]
           /\ topStrideValues[i].second \in Nat
    BY <1>1 DEF TopIsTop, TopEntriesExact
  <1>6. SUFFICES ASSUME NEW s \in (D \cup {stride}) \ Listed',
                        NEW i \in DOMAIN topStrideValues'
                 PROVE  /\ Len(topStrideValues') = TOPCOUNT
                        /\ strideValuesToCount'[s] <= topStrideValues'[i].second
    <2>1. Len(topStrideValues') = TOPCOUNT \/ DOMAIN topStrideValues' # {}
      BY <1>1, TopUpdate DEF RefreshTracked, AppendUntracked, EvictLowest
    <2>2. QED BY <1>2, <1>6, <2>1 DEF UnlistedNotHigher
  <1> HIDE DEF c, e, D
  <1>7. CASE RefreshTracked(stride, c)
    <2>1. PICK k \in DOMAIN topStrideValues :
             /\ topStrideValues[k].first = stride
             /\ topStrideValues' = [topStrideValues EXCEPT ![k] = e]
      BY <1>7 DEF RefreshTracked, e
    <2>2. s # stride /\ s \in D \ Listed
      BY <1>1, <1>3, <1>6, <2>1 DEF Listed
    <2>3. topStrideValues[k].second + 1 = c
      BY <1>2, <1>5, <2>1
    <2>4. QED BY <1>1, <1>2, <1>3, <1>4, <1>5, <1>6, <2>1, <2>2, <2>3
  <1>8. CASE AppendUntracked(stride, c)
    <2>1. topStrideValues' = Append(topStrideValues, e) /\ Len(topStrideValues) < TOPCOUNT
      BY <1>8 DEF AppendUntracked, e
    <2>2. /\ \A j \in DOMAIN topStrideValues :
                j \in DOMAIN topStrideValues' /\ topStrideValues'[j] = topStrideValues[j]
          /\ \E j \in DOMAIN topStrideValues' : topStrideValues'[j].first = stride
      BY <1>1, <1>3, <2>1
    <2>3. s \in D \ Listed
      BY <1>6, <2>2 DEF Listed
    <2>4. QED BY <1>1, <1>4, <2>1, <2>3
  <1>9. CASE EvictLowest(stride, c)
    <2>1. PICK k \in DOMAIN topStrideValues :
             /\ IsLowest(k)
             /\ topStrideValues' = IF c > topStrideValues[k].second
                                   THEN [topStrideValues EXCEPT ![k] = e]
                                   ELSE topStrideValues
      BY <1>9 DEF EvictLowest, e
    <2>2. /\ Len(topStrideValues) = TOPCOUNT
          /\ \A j \in DOMAIN topStrideValues :
                /\ topStrideValues[j].first # stride
                /\ topStrideValues[k].second <= topStrideValues[j].second
      BY <1>1, <1>9, <2>1 DEF EvictLowest, IsTracked, IsLowest
    <2>3. CASE c > topStrideValues[k].second
      <3>1. topStrideValues' = [topStrideValues EXCEPT ![k] = e]
        BY <2>1, <2>3
      <3>2. s # stride
        BY <1>1, <1>3, <1>6, <3>1 DEF Listed
      <3>3. s \in D /\ strideValuesToCount[s] <= topStrideValues[k].second
        <4>1. CASE s \in Listed
          <5>1. s = topStrideValues[k].first
            BY <1>1, <1>6, <3>1, <4>1 DEF Listed
          <5>2. QED BY <1>5, <5>1
        <4>2. CASE s \notin Listed
          BY <1>4, <1>6, <3>2, <4>2
        <4>3. QED BY <4>1, <4>2
      <3>4. strideValuesToCount[s] \in Nat
        BY <1>1, <3>3
      <3>5. QED BY <1>1, <1>2, <1>3, <1>5, <1>6, <2>2, <2>3, <3>1, <3>2, <3>3, <3>4
    <2>4. CASE ~(c > topStrideValues[k].second)
      <3>1. topStrideValues' = topStrideValues /\ Listed' = Listed
        BY <2>1, <2>4 DEF Listed
      <3>2. CASE s = stride
        BY <1>2, <1>5, <1>6, <2>2, <2>4, <3>1, <3>2 DEF c
      <3>3. CASE s # stride
        BY <1>2, <1>4, <1>6, <2>2, <3>1, <3>3
      <3>4. QED BY <3>2, <3>3
    <2>5. QED BY <2>3, <2>4
  <1>10. QED BY <1>7, <1>8, <1>9, TopUpdate DEF c
\* The dominant stride is still a mode, and still listed: a list that gives up
\* an entry gives up one below the recorded stride, never the dominant one.
LEMMA DominantStep ==
  ASSUME TypeOK, TopIsTop, HistogramExact, DominantIsMode, NEW stride, Recording(stride)
  PROVE  /\ DominantIsMode'
         /\ topStrideHolder' \in [first : Strides \cup {-1}, second : Nat \cup {-1}]
  <1> DEFINE c == strideValuesToCount'[stride]
             e == Pair(stride, c)
             D == DOMAIN strideValuesToCount
  <1>1. /\ stride \in Strides
        /\ strideValues \in Seq(Strides)
        /\ strideValues' = Append(strideValues, stride)
        /\ topStrideValues \in Seq([first : Strides, second : Nat \ {0}])
        /\ TOPCOUNT \in Nat \ {0}
        /\ strideValuesToCount' = Counted(strideValuesToCount, stride)
        /\ strideValuesToCount \in [D -> Nat \ {0}]
        /\ topStrideHolder \in [first : Strides \cup {-1}, second : Nat \cup {-1}]
    BY TopCountAssumption DEF Recording, RecordStride, TypeOK
  <1>2. /\ DOMAIN strideValuesToCount' = D \cup {stride}
        /\ \A s \in D \ {stride} : strideValuesToCount'[s] = strideValuesToCount[s]
        /\ c \in Nat \ {0}
        /\ stride \in D => c = strideValuesToCount[stride] + 1
        /\ stride \notin D => c = 1
    BY <1>1, CountedCounts
  <1>3. /\ e \in [first : Strides, second : Nat \ {0}]
        /\ e.first = stride /\ e.second = c
    BY <1>1, <1>2 DEF Pair
  <1>4. topStrideHolder' = IF c > topStrideHolder.second THEN e ELSE topStrideHolder
    BY TopUpdate DEF UpdateHolder
  <1>5. \A s \in D : strideValuesToCount[s] <= topStrideHolder.second
    <2>1. CASE strideValues = <<>>
      <3>1. \A s \in D : Positions(s) = {}
        BY <2>1 DEF Positions
      <3>2. D = {}
        BY <1>1, <3>1, FS_EmptySet DEF HistogramExact
      <3>3. QED BY <3>2
    <2>2. CASE strideValues # <<>>
      BY <2>2 DEF DominantIsMode
    <2>3. QED BY <2>1, <2>2
  <1>6. \/ topStrideHolder = Pair(-1, -1)
        \/ /\ topStrideHolder.first \in D \cap Listed
           /\ topStrideHolder.second = strideValuesToCount[topStrideHolder.first]
    BY DEF DominantIsMode
  <1>7. \A i \in DOMAIN topStrideValues :
           topStrideValues[i].second = strideValuesToCount[topStrideValues[i].first]
    BY DEF TopIsTop, TopEntriesExact
  <1>8. topStrideHolder'.second \in Nat
    <2>1. CASE topStrideHolder = Pair(-1, -1)
      BY <1>2, <1>3, <1>4, <2>1 DEF Pair
    <2>2. CASE topStrideHolder.second = strideValuesToCount[topStrideHolder.first]
               /\ topStrideHolder.first \in D
      BY <1>1, <1>2, <1>3, <1>4, <2>2
    <2>3. QED BY <1>6, <2>1, <2>2
  <1> HIDE DEF c, e, D
  <1>9. \A s \in D \cup {stride} : strideValuesToCount'[s] <= topStrideHolder'.second
    <2>1. topStrideHolder.second \in Int
      BY <1>1
    <2>2. ASSUME NEW s \in D, s # stride
          PROVE  strideValuesToCount'[s] <= topStrideHolder'.second
      <3>1. strideValuesToCount'[s] \in Nat /\ strideValuesToCount'[s] <= topStrideHolder.second
        BY <1>1, <1>2, <1>5, <2>2
      <3>2. QED BY <1>2, <1>3, <1>4, <2>1, <3>1
    <2>3. c <= topStrideHolder'.second
      BY <1>2, <1>3, <1>4, <2>1
    <2>4. QED BY <2>2, <2>3 DEF c
  <1>10. /\ strideValues' # <<>>
         /\ topStrideHolder' \in [first : Strides \cup {-1}, second : Nat \cup {-1}]
    <2>1. strideValues' # <<>>
      BY <1>1, AppendNotEmpty
    <2>2. QED BY <1>1, <1>3, <1>4, <2>1
  <1>11. CASE c > topStrideHolder.second
    <2>1. topStrideHolder' = e
      BY <1>4, <1>11
    <2>2. stride \in Listed'
      <3>1. CASE RefreshTracked(stride, c)
        <4>1. PICK k \in DOMAIN topStrideValues :
                 topStrideValues' = [topStrideValues EXCEPT ![k] = e]
          BY <3>1 DEF RefreshTracked, e
        <4>2. k \in DOMAIN topStrideValues' /\ topStrideValues'[k] = e
          BY <1>1, <4>1
        <4>3. QED BY <1>3, <4>2 DEF Listed
      <3>2. CASE AppendUntracked(stride, c)
        <4>1. topStrideValues' = Append(topStrideValues, e)
          BY <3>2 DEF AppendUntracked, e
        <4>2. \E k \in DOMAIN topStrideValues' : topStrideValues'[k] = e
          BY <1>1, <1>3, <4>1
        <4>3. QED BY <1>3, <4>2 DEF Listed
      <3>3. CASE EvictLowest(stride, c)
        <4>1. PICK k \in DOMAIN topStrideValues :
                 topStrideValues' = IF c > topStrideValues[k].second
                                    THEN [topStrideValues EXCEPT ![k] = e]
                                    ELSE topStrideValues
          BY <3>3 DEF EvictLowest, e
        <4>2. topStrideValues[k] \in [first : Strides, second : Nat \ {0}]
          BY <1>1, ElementOfSeq
        <4>3. topStrideValues[k].first \in D
          BY DEF TopIsTop, TopEntriesExact, D
        <4>4. topStrideValues[k].second \in Nat
              /\ topStrideValues[k].second <= topStrideHolder.second
          BY <1>5, <1>7, <4>2, <4>3
        <4>5. c > topStrideValues[k].second
          BY <1>1, <1>2, <1>11, <4>4
        <4>6. k \in DOMAIN topStrideValues' /\ topStrideValues'[k] = e
          BY <1>1, <4>1, <4>5
        <4>7. QED BY <1>3, <4>6 DEF Listed
      <3>4. QED BY <3>1, <3>2, <3>3, TopUpdate DEF c
    <2>3. QED BY <1>2, <1>3, <1>9, <1>10, <2>1, <2>2 DEF DominantIsMode, c
  <1>12. CASE ~(c > topStrideHolder.second)
    <2>1. /\ topStrideHolder' = topStrideHolder
          /\ topStrideHolder.first \in D \cap Listed
          /\ topStrideHolder.second = strideValuesToCount[topStrideHolder.first]
      BY <1>2, <1>4, <1>6, <1>12 DEF Pair
    <2>2. topStrideHolder.first # stride
      BY <1>1, <1>2, <1>12, <2>1
    <2>3. PICK h \in DOMAIN topStrideValues : topStrideValues[h].first = topStrideHolder.first
      BY <2>1 DEF Listed
    <2>4. topStrideValues[h].second = topStrideHolder.second
      BY <1>7, <2>1, <2>3
    <2>5. h \in DOMAIN topStrideValues' /\ topStrideValues'[h] = topStrideValues[h]
      <3>1. CASE RefreshTracked(stride, c)
        <4>1. PICK k \in DOMAIN topStrideValues :
                 /\ topStrideValues[k].first = stride
                 /\ topStrideValues' = [topStrideValues EXCEPT ![k] = e]
          BY <3>1 DEF RefreshTracked, e
        <4>2. QED BY <1>1, <2>2, <2>3, <4>1
      <3>2. CASE AppendUntracked(stride, c)
        BY <1>1, <3>2 DEF AppendUntracked, Pair
      <3>3. CASE EvictLowest(stride, c)
        <4>1. PICK k \in DOMAIN topStrideValues :
                 topStrideValues' = IF c > topStrideValues[k].second
                                    THEN [topStrideValues EXCEPT ![k] = e]
                                    ELSE topStrideValues
          BY <3>3 DEF EvictLowest, e
        <4>2. k = h => topStrideValues' = topStrideValues
          BY <1>12, <2>4, <4>1
        <4>3. QED BY <1>1, <4>1, <4>2
      <3>4. QED BY <3>1, <3>2, <3>3, TopUpdate DEF c
    <2>6. topStrideHolder'.first \in Listed'
      BY <2>1, <2>3, <2>5 DEF Listed
    <2>7. QED BY <1>2, <1>9, <1>10, <2>1, <2>2, <2>6 DEF DominantIsMode, D
  <1>13. QED BY <1>10, <1>11, <1>12
-------------------------------------------------------------------------------
(* Zero differences.                                                       *)

\* Pushing a stride adds its position to the repeats when it equals the last one.
LEMMA RepeatsAfterPush ==
  ASSUME strideValues \in Seq(Strides), strideValues # <<>>, NEW stride \in Strides,
         strideValues' = Append(strideValues, stride)
  PROVE  RepeatPositions' = IF stride = strideValues[Len(strideValues)]
                            THEN RepeatPositions \cup {Len(strideValues) + 1}
                            ELSE RepeatPositions
  <1>1. Len(strideValues) \in Nat \ {0}
    OBVIOUS
  <1>2. /\ DOMAIN strideValues' = 1..(Len(strideValues) + 1)
        /\ DOMAIN strideValues = 1..Len(strideValues)
        /\ strideValues'[Len(strideValues) + 1] = stride
        /\ \A i \in DOMAIN strideValues : strideValues'[i] = strideValues[i]
    OBVIOUS
  <1>3. QED BY <1>1, <1>2 DEF RepeatPositions

LEMMA ZeroDifferencesStep ==
  ASSUME TypeOK, ZeroDifferencesExact, strideValues # <<>>, NEW stride,
         Recording(stride), CountDifference(stride)
  PROVE  ZeroDifferencesExact' /\ strideZeroDifferenceCount' \in Nat
  <1>1. /\ strideValues \in Seq(Strides) /\ stride \in Strides
        /\ strideValues' = Append(strideValues, stride)
        /\ strideZeroDifferenceCount \in Nat
    BY DEF TypeOK, Recording, RecordStride
  <1>2. IsFiniteSet(RepeatPositions) /\ Len(strideValues) + 1 \notin RepeatPositions
    <2>1. IsFiniteSet(1..Len(strideValues))
      BY <1>1, FS_Interval
    <2>2. RepeatPositions \in SUBSET (1..Len(strideValues))
      BY <1>1 DEF RepeatPositions
    <2>3. Len(strideValues) + 1 \notin 1..Len(strideValues)
      BY <1>1
    <2>4. QED BY <2>1, <2>2, <2>3, FS_Subset
  <1>3. CASE stride = strideValues[Len(strideValues)]
    <2>1. RepeatPositions' = RepeatPositions \cup {Len(strideValues) + 1}
      BY <1>1, <1>3, RepeatsAfterPush
    <2>2. Cardinality(RepeatPositions') = Cardinality(RepeatPositions) + 1
      BY <1>2, <2>1, FS_AddElement
    <2>3. QED BY <1>1, <1>3, <2>2 DEF CountDifference, ZeroDifferencesExact
  <1>4. CASE stride # strideValues[Len(strideValues)]
    <2>1. RepeatPositions' = RepeatPositions
      BY <1>1, <1>4, RepeatsAfterPush
    <2>2. QED BY <1>1, <1>4, <2>1 DEF CountDifference, ZeroDifferencesExact
  <1>5. QED BY <1>3, <1>4

-------------------------------------------------------------------------------
(* The inductive invariant.                                                *)

LEMMA InitIInv == Init => IInv
  <1> SUFFICES ASSUME Init PROVE IInv
    OBVIOUS
  <1>1. /\ TypeOK
        /\ TopIsTop
        /\ DominantIsMode
        /\ HistogramExact
    BY TopCountAssumption DEF Init, TypeOK, NoAddress, Pair, TopIsTop, TopEntriesExact,
         TopEntriesDistinct, UnlistedNotHigher, DominantIsMode, HistogramExact
  <1>2. ZeroDifferencesExact
    <2>1. RepeatPositions = {}
      BY DEF Init, RepeatPositions
    <2>2. QED BY <2>1, FS_EmptySet DEF Init, ZeroDifferencesExact
  <1>3. QED BY <1>1, <1>2 DEF IInv

\* Recording a stride preserves every conjunct except the zero differences,
\* which the two callers count differently.
LEMMA RecordingStep ==
  ASSUME IInv, NEW stride, Recording(stride)
  PROVE  /\ HistogramExact' /\ TopIsTop' /\ DominantIsMode'
         /\ strideValues' \in Seq(Strides)
         /\ DOMAIN strideValuesToCount' \in SUBSET Strides
         /\ strideValuesToCount' \in [DOMAIN strideValuesToCount' -> Nat \ {0}]
         /\ topStrideValues' \in Seq([first : Strides, second : Nat \ {0}])
         /\ Len(topStrideValues') <= TOPCOUNT
         /\ topStrideHolder' \in [first : Strides \cup {-1}, second : Nat \cup {-1}]
  <1>1. /\ TypeOK /\ HistogramExact /\ TopIsTop /\ DominantIsMode
        /\ stride \in Strides /\ strideValues \in Seq(Strides)
        /\ strideValues' = Append(strideValues, stride)
        /\ strideValuesToCount' = Counted(strideValuesToCount, stride)
    BY DEF IInv, TypeOK, Recording, RecordStride
  <1>2. HistogramExact'
    BY <1>1, HistogramStep
  <1>3. TopIsTop'
    BY <1>1, TopEntriesStep, UnlistedStep DEF TopIsTop
  <1>4. DominantIsMode'
    BY <1>1, DominantStep
  <1>5. strideValues' \in Seq(Strides)
    BY <1>1
  <1>6. QED BY <1>1, <1>2, <1>3, <1>4, <1>5, CountedCounts, TopEntriesStep, DominantStep

LEMMA NextIInv == IInv /\ [Next]_vars => IInv'
  <1> SUFFICES ASSUME IInv, [Next]_vars PROVE IInv'
    OBVIOUS
  <1>1. TypeOK
    BY DEF IInv
  <1>2. ASSUME UNCHANGED summary, lastAddress' \in Addresses \cup {NoAddress},
               strideZeroCount' \in Nat
        PROVE  IInv'
    <2>1. TypeOK'
      BY <1>1, <1>2 DEF TypeOK, summary
    <2>2. HistogramExact' /\ ZeroDifferencesExact'
      BY <1>2 DEF IInv, summary, HistogramExact, ZeroDifferencesExact, Positions, RepeatPositions
    <2>3. TopIsTop'
      BY <1>2 DEF IInv, summary, TopIsTop, TopEntriesExact, TopEntriesDistinct,
                  UnlistedNotHigher, Listed
    <2>4. DominantIsMode'
      BY <1>2 DEF IInv, summary, DominantIsMode, Listed
    <2>5. QED BY <2>1, <2>2, <2>3, <2>4 DEF IInv
  <1>3. ASSUME NEW addr \in Addresses, FirstAddress(addr)
        PROVE  IInv'
    BY <1>1, <1>2, <1>3 DEF FirstAddress, TypeOK
  <1>4. ASSUME NEW addr \in Addresses, ZeroStride(addr)
        PROVE  IInv'
    BY <1>1, <1>2, <1>4 DEF ZeroStride, TypeOK
  <1>5. ASSUME NEW addr \in Addresses, FirstStride(addr)
        PROVE  IInv'
    <2>1. Recording(StrideTo(addr))
      BY <1>1, <1>5, StrideToRecorded DEF FirstStride, Recording
    <2>2. ZeroDifferencesExact'
      <3>1. Len(strideValues') = 1
        BY <1>5 DEF FirstStride, RecordStride
      <3>2. RepeatPositions' = {} /\ RepeatPositions = {}
        BY <1>5, <3>1 DEF RepeatPositions, FirstStride, RecordStride
      <3>3. QED BY <1>5, <3>2 DEF IInv, ZeroDifferencesExact, FirstStride
    <2>3. TypeOK'
      BY <1>1, <1>5, <2>1, RecordingStep DEF TypeOK, FirstStride
    <2>4. QED BY <2>1, <2>2, <2>3, RecordingStep DEF IInv
  <1>6. ASSUME NEW addr \in Addresses, NextStride(addr)
        PROVE  IInv'
    <2>1. Recording(StrideTo(addr))
      BY <1>1, <1>6, StrideToRecorded DEF NextStride, Recording
    <2>2. ZeroDifferencesExact' /\ strideZeroDifferenceCount' \in Nat
      BY <1>1, <1>6, <2>1, ZeroDifferencesStep DEF NextStride, IInv
    <2>3. TypeOK'
      BY <1>1, <1>6, <2>1, <2>2, RecordingStep DEF TypeOK, NextStride
    <2>4. QED BY <2>1, <2>2, <2>3, RecordingStep DEF IInv
  <1>7. CASE ClearAddresses
    BY <1>1, <1>2, <1>7 DEF ClearAddresses, TypeOK
  <1>8. CASE UNCHANGED vars
    BY <1>1, <1>2, <1>8 DEF vars, summary, TypeOK
  <1>9. QED BY <1>3, <1>4, <1>5, <1>6, <1>7, <1>8 DEF Next, AddAddress

LEMMA Invariance == Spec => []IInv
  BY InitIInv, NextIInv, PTL DEF Spec

\* Every variable of a collector keeps its type, whatever the load touches.
THEOREM TypeCorrect == Spec => []TypeOK
  <1>1. IInv => TypeOK
    BY DEF IInv
  <1>2. QED BY <1>1, Invariance, PTL

\* The counts printed into the profile are the true ones.
THEOREM HistogramCorrect == Spec => []HistogramExact
  <1>1. IInv => HistogramExact
    BY DEF IInv
  <1>2. QED BY <1>1, Invariance, PTL

\* updateTopStrideValues keeps a correct top TOPCOUNT, for every TOPCOUNT.
THEOREM TopCorrect == Spec => []TopIsTop
  <1>1. IInv => TopIsTop
    BY DEF IInv
  <1>2. QED BY <1>1, Invariance, PTL

\* The dominant stride is a mode of the recorded strides and is listed.
THEOREM DominantCorrect == Spec => []DominantIsMode
  <1>1. IInv => DominantIsMode
    BY DEF IInv
  <1>2. QED BY <1>1, Invariance, PTL

\* The zero differences counted are the repeats in the sequence of strides.
THEOREM ZeroDifferencesCorrect == Spec => []ZeroDifferencesExact
  <1>1. IInv => ZeroDifferencesExact
    BY DEF IInv
  <1>2. QED BY <1>1, Invariance, PTL
-------------------------------------------------------------------------------
(* The refinement of TopStrides.                                           *)

SeenCounts == [s \in Strides |-> CountIn(strideValuesToCount, s)]

\* The list holds as many strides as it has entries.
LEMMA ListedCardinality ==
  ASSUME TypeOK, TopEntriesDistinct
  PROVE  IsFiniteSet(Listed) /\ Cardinality(Listed) = Len(topStrideValues)
  <1> DEFINE n == Len(topStrideValues)
             f == [i \in 1..n |-> topStrideValues[i].first]
  <1>1. n \in Nat /\ DOMAIN topStrideValues = 1..n
    BY DEF TypeOK
  <1>2. f \in [1..n -> Listed]
    BY <1>1 DEF Listed
  <1>3. f \in Injection(1..n, Listed)
    BY <1>1, <1>2 DEF TopEntriesDistinct, Injection, IsInjective
  <1>4. f \in Surjection(1..n, Listed)
    BY <1>1, <1>2 DEF Listed, Surjection
  <1>5. ExistsBijection(1..n, Listed)
    BY <1>3, <1>4 DEF ExistsBijection, Bijection
  <1> HIDE DEF n
  <1>6. IsFiniteSet(1..n) /\ Cardinality(1..n) = n
    <2>1. Cardinality(1..n) = IF 1 > n THEN 0 ELSE n - 1 + 1
      BY <1>1, FS_Interval
    <2>2. QED BY <1>1, <2>1, FS_Interval
  <1>7. QED BY <1>5, <1>6, FS_Bijection DEF n

LEMMA RecordsIn ==
  ASSUME TypeOK
  PROVE  /\ {s \in Strides : SeenCounts[s] > 0} = DOMAIN strideValuesToCount
         /\ \A s \in DOMAIN strideValuesToCount : SeenCounts[s] = strideValuesToCount[s]
         /\ SeenCounts \in [Strides -> Nat]
  <1> DEFINE D == DOMAIN strideValuesToCount
  <1>1. D \subseteq Strides /\ \A s \in D : strideValuesToCount[s] \in Nat \ {0}
    BY DEF TypeOK
  <1>2. \A s \in Strides : SeenCounts[s] = IF s \in D THEN strideValuesToCount[s] ELSE 0
    BY DEF SeenCounts, CountIn
  <1>3. DOMAIN SeenCounts = Strides /\ SeenCounts = [s \in Strides |-> SeenCounts[s]]
    BY DEF SeenCounts
  <1> HIDE DEF D
  <1>4. \A s \in Strides : SeenCounts[s] \in Nat
    BY <1>1, <1>2
  <1>5. SeenCounts \in [Strides -> Nat]
    BY <1>3, <1>4
  <1>6. {s \in Strides : SeenCounts[s] > 0} = D
    BY <1>1, <1>2
  <1>7. QED BY <1>1, <1>2, <1>5, <1>6 DEF D

\* The instance's copy of Cardinality is Cardinality.
LEMMA SameCardinality ==
  ASSUME NEW S
  PROVE  Abstract!Cardinality(S) = Cardinality(S)
  BY DEF Abstract!Cardinality, Cardinality

\* The listed strides are a right answer to "the TOPCOUNT most frequent ones".
LEMMA ListedIsTopSet ==
  ASSUME TypeOK, TopIsTop
  PROVE  Abstract!IsTopSet(Listed, SeenCounts)
  <1>1. Listed \subseteq DOMAIN strideValuesToCount
    BY DEF TopIsTop, TopEntriesExact, Listed
  <1>2. Cardinality(Listed) = Len(topStrideValues)
    BY ListedCardinality DEF TopIsTop
  <1>3. \A t \in Listed : \E i \in DOMAIN topStrideValues :
           topStrideValues[i].first = t /\ topStrideValues[i].second = strideValuesToCount[t]
    BY DEF TopIsTop, TopEntriesExact, Listed
  <1>4. ASSUME NEW u \in DOMAIN strideValuesToCount \ Listed
        PROVE  /\ Cardinality(Listed) = TOPCOUNT
               /\ \A t \in Listed : SeenCounts[u] <= SeenCounts[t]
    BY <1>1, <1>2, <1>3, <1>4, RecordsIn DEF TopIsTop, UnlistedNotHigher
  <1>5. Len(topStrideValues) <= TOPCOUNT
    BY DEF TypeOK
  <1>6. QED BY <1>1, <1>2, <1>4, <1>5, RecordsIn, SameCardinality DEF Abstract!IsTopSet, Abstract!Recorded

\* Pushing a stride counts it in the abstract histogram.
LEMMA SeenStep ==
  ASSUME TypeOK, NEW stride \in Strides,
         strideValuesToCount' = Counted(strideValuesToCount, stride)
  PROVE  SeenCounts' = [SeenCounts EXCEPT ![stride] = @ + 1]
  BY CountedCounts DEF SeenCounts, CountIn, Counted
\* How a recording step changes the set of listed strides: it adds at most the
\* recorded stride, and drops only a stride seen less often than that one.
LEMMA ListedStep ==
  ASSUME TypeOK, TopIsTop, NEW stride, Recording(stride)
  PROVE  /\ Listed' \subseteq Listed \cup {stride}
         /\ \A t \in Listed \ Listed' : SeenCounts[t] < strideValuesToCount'[stride]
  <1> DEFINE c == strideValuesToCount'[stride]
             e == Pair(stride, c)
  <1>1. /\ stride \in Strides
        /\ topStrideValues \in Seq([first : Strides, second : Nat \ {0}])
    BY DEF Recording, TypeOK
  <1>2. e.first = stride /\ e.second = c
    BY DEF Pair
  <1>3. \A i \in DOMAIN topStrideValues :
           /\ topStrideValues[i].first \in DOMAIN strideValuesToCount
           /\ topStrideValues[i].second = SeenCounts[topStrideValues[i].first]
    BY RecordsIn DEF TopIsTop, TopEntriesExact
  <1> HIDE DEF c, e
  <1>4. ASSUME NEW k \in DOMAIN topStrideValues,
               topStrideValues' = [topStrideValues EXCEPT ![k] = e]
        PROVE  /\ Listed' \subseteq Listed \cup {stride}
               /\ \A t \in Listed \ Listed' : t = topStrideValues[k].first
    <2>1. /\ DOMAIN topStrideValues' = DOMAIN topStrideValues
          /\ \A i \in DOMAIN topStrideValues :
                topStrideValues'[i] = IF i = k THEN e ELSE topStrideValues[i]
      BY <1>1, <1>4
    <2>2. QED BY <1>2, <2>1 DEF Listed
  <1>5. CASE RefreshTracked(stride, c)
    <2>1. PICK k \in DOMAIN topStrideValues :
             /\ topStrideValues[k].first = stride
             /\ topStrideValues' = [topStrideValues EXCEPT ![k] = e]
      BY <1>5 DEF RefreshTracked, e
    <2>2. stride \in Listed'
      <3>1. k \in DOMAIN topStrideValues' /\ topStrideValues'[k] = e
        BY <1>1, <2>1
      <3>2. QED BY <1>2, <3>1 DEF Listed
    <2>3. QED BY <1>4, <2>1, <2>2
  <1>6. CASE AppendUntracked(stride, c)
    <2>1. topStrideValues' = Append(topStrideValues, e)
      BY <1>6 DEF AppendUntracked, e
    <2>2. \A i \in DOMAIN topStrideValues :
             i \in DOMAIN topStrideValues' /\ topStrideValues'[i] = topStrideValues[i]
      BY <1>1, <2>1
    <2>3. \A i \in DOMAIN topStrideValues' :
             \/ i \in DOMAIN topStrideValues /\ topStrideValues'[i] = topStrideValues[i]
             \/ topStrideValues'[i] = e
      BY <1>1, <2>1
    <2>4. QED BY <1>2, <2>2, <2>3 DEF Listed
  <1>7. CASE EvictLowest(stride, c)
    <2>1. PICK k \in DOMAIN topStrideValues :
             topStrideValues' = IF c > topStrideValues[k].second
                                THEN [topStrideValues EXCEPT ![k] = e]
                                ELSE topStrideValues
      BY <1>7 DEF EvictLowest, e
    <2>2. CASE c > topStrideValues[k].second
      <3>1. topStrideValues[k].second \in Nat /\ c \in Nat
        <4>1. topStrideValues[k] \in [first : Strides, second : Nat \ {0}]
          BY <1>1, ElementOfSeq
        <4>2. c \in Nat
          BY CountedCounts DEF Recording, RecordStride, c
        <4>3. QED BY <4>1, <4>2
      <3>2. topStrideValues' = [topStrideValues EXCEPT ![k] = e]
        BY <2>1, <2>2
      <3>3. QED BY <1>3, <1>4, <2>2, <3>1, <3>2 DEF c
    <2>3. CASE ~(c > topStrideValues[k].second)
      BY <2>1, <2>3 DEF Listed
    <2>4. QED BY <2>2, <2>3
  <1>8. QED BY <1>5, <1>6, <1>7, TopUpdate DEF c

\* The same in both states of a step.
ListedIsRight == Abstract!IsTopSet(Listed, SeenCounts)

LEMMA ListedIsTopSetNext == IInv' => Abstract!IsTopSet(Listed', SeenCounts')
  <1>1. IInv => ListedIsRight
    BY ListedIsTopSet DEF IInv, ListedIsRight
  <1>2. IInv' => ListedIsRight'
    BY <1>1, PTL
  <1>3. QED BY <1>2 DEF ListedIsRight, Abstract!IsTopSet, Abstract!Recorded

LEMMA DominantSeen ==
  ASSUME IInv, NEW s \in Strides
  PROVE  s \in DOMAIN strideValuesToCount => SeenCounts[s] <= topStrideHolder.second
  <1>1. CASE strideValues = <<>>
    <2>1. \A t : Positions(t) = {}
      BY <1>1 DEF Positions
    <2>2. \A t \in DOMAIN strideValuesToCount : strideValuesToCount[t] = 0
      BY <2>1, FS_EmptySet DEF IInv, HistogramExact
    <2>3. QED BY <2>2 DEF IInv, TypeOK
  <1>2. CASE strideValues # <<>>
    BY <1>2, RecordsIn DEF IInv, DominantIsMode
  <1>3. QED BY <1>1, <1>2

\* A recording step is a Record step of TopStrides.
LEMMA RecordingRefines ==
  ASSUME IInv, IInv', NEW stride, Recording(stride)
  PROVE  Abstract!Record(stride)
  <1> DEFINE c == strideValuesToCount'[stride]
             h == topStrideHolder
  <1>1. /\ TypeOK /\ HistogramExact /\ TopIsTop /\ DominantIsMode
        /\ stride \in Strides
        /\ strideValues \in Seq(Strides)
        /\ strideValues' = Append(strideValues, stride)
        /\ strideValuesToCount' = Counted(strideValuesToCount, stride)
    BY DEF IInv, TypeOK, Recording, RecordStride
  <1>2. SeenCounts' = [SeenCounts EXCEPT ![stride] = @ + 1]
    BY <1>1, SeenStep
  <1>3. SeenCounts'[stride] = c /\ c \in Nat \ {0}
    BY <1>1, CountedCounts DEF SeenCounts
  <1>4. /\ Listed' \subseteq Listed \cup {stride}
        /\ \A t \in Listed \ Listed' : SeenCounts[t] < SeenCounts'[stride]
    BY <1>1, <1>3, ListedStep
  <1>5. Abstract!IsTopSet(Listed', SeenCounts')
    BY ListedIsTopSetNext
  <1>6. \A s \in Strides : SeenCounts'[s] = IF s \in DOMAIN strideValuesToCount'
                                            THEN strideValuesToCount'[s] ELSE 0
    BY DEF SeenCounts, CountIn
  <1>7. strideValues' # <<>>
    BY <1>1, AppendNotEmpty
  <1>8. /\ h'.first \in DOMAIN strideValuesToCount' \cap Listed'
        /\ h'.second = strideValuesToCount'[h'.first]
        /\ \A s \in DOMAIN strideValuesToCount' : strideValuesToCount'[s] <= h'.second
        /\ DOMAIN strideValuesToCount' \subseteq Strides
        /\ \A s \in DOMAIN strideValuesToCount' : strideValuesToCount'[s] \in Nat \ {0}
    BY <1>7 DEF IInv, DominantIsMode, TypeOK
  <1>9. Abstract!IsMode(h'.first, SeenCounts')
    BY <1>6, <1>8 DEF Abstract!IsMode, Abstract!Recorded
  <1>10. h' = IF c > h.second THEN Pair(stride, c) ELSE h
    BY <1>1, TopUpdate DEF UpdateHolder
  <1>11. h'.first \in {stride, h.first}
    BY <1>10 DEF Pair
  <1>12. ASSUME h'.first # h.first, NEW u \in Strides \ {stride}
         PROVE  SeenCounts'[u] < SeenCounts'[stride]
    <2>1. c > h.second /\ h.second \in Int
      BY <1>1, <1>10, <1>12 DEF TypeOK
    <2>2. SeenCounts'[u] = SeenCounts[u] /\ SeenCounts[u] \in Nat
      BY <1>1, <1>2, RecordsIn
    <2>3. CASE u \in DOMAIN strideValuesToCount
      BY <1>3, <2>1, <2>2, <2>3, DominantSeen
    <2>4. CASE u \notin DOMAIN strideValuesToCount
      <3>1. SeenCounts[u] = 0
        BY <2>4 DEF SeenCounts, CountIn
      <3>2. QED BY <1>3, <2>2, <3>1
    <2>5. QED BY <2>3, <2>4
  <1> HIDE DEF c, h
  <1>13. QED
    BY <1>2, <1>4, <1>5, <1>8, <1>9, <1>11, <1>12 DEF Abstract!Record, SeenCounts, h
LEMMA InitRefines == Init => Abstract!TSInit
  <1> SUFFICES ASSUME Init PROVE Abstract!TSInit
    OBVIOUS
  <1>1. Listed = {}
    BY DEF Init, Listed
  <1>2. [s \in Strides |-> CountIn(strideValuesToCount, s)] = [s \in Strides |-> 0]
    BY DEF Init, CountIn
  <1>3. topStrideHolder.first = -1
    BY DEF Init, Pair
  <1>4. QED BY <1>1, <1>2, <1>3 DEF Abstract!TSInit, Abstract!NoValue

LEMMA NextRefines ==
  ASSUME IInv, IInv', [Next]_vars
  PROVE  [Abstract!TSNext]_(Abstract!tsvars)
  <1>1. TypeOK
    BY DEF IInv
  <1>2. ASSUME UNCHANGED summary
        PROVE  UNCHANGED Abstract!tsvars
    BY <1>2 DEF summary, Abstract!tsvars, Listed, CountIn
  <1>3. ASSUME NEW addr \in Addresses, FirstAddress(addr) \/ ZeroStride(addr)
        PROVE  UNCHANGED Abstract!tsvars
    BY <1>2, <1>3 DEF FirstAddress, ZeroStride
  <1>4. ASSUME NEW addr \in Addresses, FirstStride(addr) \/ NextStride(addr)
        PROVE  Abstract!TSNext
    <2>1. Recording(StrideTo(addr)) /\ StrideTo(addr) \in Strides
      BY <1>1, <1>4, StrideToRecorded DEF FirstStride, NextStride, Recording
    <2>2. QED BY <2>1, RecordingRefines DEF Abstract!TSNext
  <1>5. CASE ClearAddresses
    BY <1>2, <1>5 DEF ClearAddresses
  <1>6. CASE UNCHANGED vars
    BY <1>2, <1>6 DEF vars, summary
  <1>7. QED BY <1>3, <1>4, <1>5, <1>6 DEF Next, AddAddress

\* The collector implements the abstract promise: whatever addresses a load
\* touches, the incremental summaries always answer the two questions rightly.
THEOREM Refinement == Spec => ImplementsTopStrides
  <1>1. Init => Abstract!TSInit
    BY InitRefines
  <1>2. IInv /\ IInv' /\ [Next]_vars => [Abstract!TSNext]_(Abstract!tsvars)
    BY NextRefines
  <1>3. QED BY <1>1, <1>2, Invariance, PTL DEF Spec, ImplementsTopStrides, Abstract!TSSpec

-------------------------------------------------------------------------------
(* The sampling around the load.                                           *)

\* Where the first round of skipping ends.
FirstSampled == N1 % (2^Width)

SampledTypes ==
  /\ executions \in Nat /\ heard \in Nat /\ sample \in Nat /\ number_profiled = 0
  /\ hasProfile \in BOOLEAN /\ Stride_initialized \in BOOLEAN
  /\ lastAddress \in Addresses \cup {NoAddress}
  /\ strideValues \in Seq(Strides) /\ strideZeroCount \in Nat

\* number_profiled stays 0, so that a chunk never ends, unless chunks are empty.
ChunkInv == IF N2 = 0 THEN ~hasProfile ELSE number_skipped = executions % (2^Width)

\* The collector has heard every execution it was told of, all in one sample.
HeardInv ==
  IF hasProfile
  THEN /\ Stride_initialized /\ heard > 0 /\ lastAddress # NoAddress
       /\ Len(strideValues) + strideZeroCount = heard - 1
       /\ FirstSampled + heard <= executions
       /\ sample > 0 /\ samples = 1
  ELSE /\ lastAddress = NoAddress /\ strideValues = <<>> /\ strideZeroCount = 0
       /\ heard = 0 /\ sample = 0 /\ samples = 0

SamplingInv == SampledTypes /\ ChunkInv /\ HeardInv /\ StridesAreConsecutive

\* A quotient and a remainder that fit are the quotient and the remainder.
LEMMA DivisionAlgorithm ==
  ASSUME NEW n \in Int, NEW M \in Nat \ {0}
  PROVE  /\ n \div M \in Int /\ n % M \in 0..(M - 1)
         /\ n = M * (n \div M) + (n % M)
  OBVIOUS

LEMMA SmallMultiple ==
  ASSUME NEW M \in Nat \ {0}, NEW d \in Int, d * M < M, 0 - M < d * M
  PROVE  d = 0
  <1>1. d >= 1 => d * M >= M
    OBVIOUS
  <1>2. d <= -1 => d * M <= 0 - M
    OBVIOUS
  <1>3. QED BY <1>1, <1>2

LEMMA RemainderIsUnique ==
  ASSUME NEW M \in Nat \ {0}, NEW q \in Int, NEW r \in 0..(M - 1), NEW n \in Int, n = M * q + r
  PROVE  n % M = r
  <1> DEFINE p == n \div M
             s == n % M
  <1>1. p \in Int /\ s \in 0..(M - 1) /\ n = M * p + s
    BY DivisionAlgorithm
  <1> HIDE DEF p, s
  <1>2. (p - q) * M = M * p - M * q
    BY <1>1
  <1>3. M * p - M * q = r - s
    BY <1>1
  <1>4. p - q \in Int /\ (p - q) * M < M /\ 0 - M < (p - q) * M
    BY <1>1, <1>2, <1>3
  <1>5. p - q = 0
    BY <1>4, SmallMultiple
  <1>6. p = q
    BY <1>1, <1>5
  <1>7. r = s
    BY <1>1, <1>6
  <1>8. QED BY <1>7 DEF s

\* Counting modulo M, one at a time.
LEMMA NextRemainder ==
  ASSUME NEW n \in Nat, NEW M \in Nat \ {0}
  PROVE  /\ n % M \in 0..n /\ n % M \in 0..(M - 1)
         /\ n < M => n % M = n
         /\ ((n % M) + 1) % M = (n + 1) % M
  <1> DEFINE q == n \div M
             r == n % M
  <1>1. q \in Int /\ r \in 0..(M - 1) /\ n = M * q + r
    BY DivisionAlgorithm
  <1>2. n < M => n = r
    OBVIOUS
  <1> HIDE DEF q, r
  <1>3. (q < 0 => M * q <= 0 - M) /\ (q >= 0 => M * q >= 0)
    BY <1>1
  <1>4. r <= n
    BY <1>1, <1>3
  <1>5. ASSUME r + 1 < M
        PROVE  (n + 1) % M = (r + 1) % M
    <2>1. (n + 1) % M = r + 1
      BY <1>1, <1>5, RemainderIsUnique
    <2>2. r + 1 = M * 0 + (r + 1)
      BY <1>1
    <2>3. (r + 1) % M = r + 1
      BY <1>1, <1>5, <2>2, RemainderIsUnique
    <2>4. QED BY <2>1, <2>3
  <1>6. ASSUME r + 1 = M
        PROVE  (n + 1) % M = (r + 1) % M
    <2>1. n + 1 = M * (q + 1) + 0 /\ r + 1 = M * 1 + 0
      BY <1>1, <1>6
    <2>2. (n + 1) % M = 0
      BY <1>1, <2>1, RemainderIsUnique
    <2>3. (r + 1) % M = 0
      BY <1>1, <2>1, RemainderIsUnique
    <2>4. QED BY <2>2, <2>3
  <1>7. (n + 1) % M = (r + 1) % M
    BY <1>1, <1>5, <1>6
  <1>8. QED BY <1>1, <1>2, <1>4, <1>7 DEF r

\* The counters of the sampling, modulo 2^Width.
LEMMA Counters ==
  /\ N1 \in Int /\ N2 \in Nat
  /\ FirstSampled \in Nat /\ FirstSampled < 2^Width
  /\ 0 <= N1 /\ N1 < 2^Width => FirstSampled = N1
  <1>1. N2 \in Nat
    BY CountsAssumption DEF N2, Lesser
  <1>2. N1 \in Int
    BY <1>1, CountsAssumption DEF N1
  <1> DEFINE M == 2^Width
             n == N1
  <1>3. M \in Nat \ {0} /\ n \in Int
    BY <1>2, WidthAssumption
  <1> HIDE DEF M, n
  <1>4. n % M \in 0..(M - 1)
    BY <1>3
  <1>5. 0 <= n /\ n < M => n % M = n
    BY <1>3
  <1>6. FirstSampled = n % M
    BY DEF FirstSampled, M, n
  <1>7. FirstSampled \in Nat /\ FirstSampled < M /\ (0 <= n /\ n < M => FirstSampled = n)
    BY <1>3, <1>4, <1>5, <1>6
  <1>8. QED BY <1>1, <1>2, <1>7 DEF M, n

LEMMA Wrapping ==
  ASSUME NEW n \in Nat
  PROVE  /\ n % (2^Width) \in Nat /\ n % (2^Width) <= n
         /\ n < 2^Width => n % (2^Width) = n
         /\ Increment(n % (2^Width)) = (n + 1) % (2^Width)
  <1> DEFINE M == 2^Width
  <1>1. M \in Nat \ {0}
    BY WidthAssumption
  <1> HIDE DEF M
  <1>2. /\ n % M \in 0..n
        /\ n < M => n % M = n
        /\ ((n % M) + 1) % M = (n + 1) % M
    BY <1>1, NextRemainder
  <1>3. n % M \in Nat /\ n % M <= n
    BY <1>2
  <1>4. QED BY <1>2, <1>3 DEF M, Increment

LEMMA SamplingInvInit == SamplingInit => SamplingInv
  <1> SUFFICES ASSUME SamplingInit PROVE SamplingInv
    OBVIOUS
  <1>1. 0 % (2^Width) = 0
    BY Wrapping
  <1>2. SampledTypes
    <2>1. <<>> \in Seq(Strides)
      OBVIOUS
    <2>2. QED BY <2>1 DEF SamplingInit, Init, SampledTypes
  <1>3. ChunkInv
    BY <1>1 DEF SamplingInit, ChunkInv
  <1>4. HeardInv /\ StridesAreConsecutive
    BY DEF SamplingInit, Init, HeardInv, StridesAreConsecutive, NoAddress
  <1>5. QED BY <1>2, <1>3, <1>4 DEF SamplingInv

\* What an address does to the collector, of which only the counts matter here.
LEMMA AddressHeard ==
  ASSUME SampledTypes, NEW addr \in Addresses, AddAddress(addr)
  PROVE  /\ lastAddress' = addr /\ addr # NoAddress
         /\ strideValues' \in Seq(Strides) /\ strideZeroCount' \in Nat
         /\ IF lastAddress = NoAddress
            THEN UNCHANGED <<strideValues, strideZeroCount>>
            ELSE Len(strideValues') + strideZeroCount' = Len(strideValues) + strideZeroCount + 1
  <1>1. addr # NoAddress /\ strideValues \in Seq(Strides) /\ strideZeroCount \in Nat
    BY AddressesAssumption DEF NoAddress, SampledTypes
  <1>2. CASE FirstAddress(addr)
    BY <1>1, <1>2 DEF FirstAddress, summary
  <1>3. CASE ZeroStride(addr)
    BY <1>1, <1>3 DEF ZeroStride, summary
  <1>4. CASE FirstStride(addr) \/ NextStride(addr)
    <2>1. lastAddress # NoAddress /\ lastAddress' = addr /\ strideZeroCount' = strideZeroCount
          /\ strideValues' = Append(strideValues, StrideTo(addr))
      BY <1>4 DEF FirstStride, NextStride, RecordStride
    <2>2. StrideTo(addr) \in Strides
      BY <2>1 DEF SampledTypes, StrideTo, Strides
    <2>3. QED BY <1>1, <2>1, <2>2
  <1>5. QED BY <1>2, <1>3, <1>4 DEF AddAddress

LEMMA SamplingInvStep == SamplingInv /\ [SamplingNext]_samplingVars => SamplingInv'
  <1> SUFFICES ASSUME SamplingInv, [SamplingNext]_samplingVars PROVE SamplingInv'
    OBVIOUS
  <1>1. CASE UNCHANGED samplingVars
    BY <1>1 DEF samplingVars, vars, history, sampling, SamplingInv, SampledTypes, ChunkInv, HeardInv,
       StridesAreConsecutive
  <1>2. CASE Stride_init
    BY <1>2 DEF Stride_init, vars, history, sampling, SamplingInv, SampledTypes, ChunkInv, HeardInv,
       StridesAreConsecutive
  <1>3. ASSUME NEW addr \in Addresses, ExecuteLoad(addr)
        PROVE  SamplingInv'
    <2>1. /\ executions' = executions + 1 /\ prevAddress' = addr
          /\ Stride_initialized' = Stride_initialized
          /\ executions \in Nat /\ heard \in Nat /\ number_profiled = 0
      BY <1>3 DEF ExecuteLoad, SamplingInv, SampledTypes
    <2>2. CASE Skips
      <3>1. UNCHANGED <<vars, hasProfile, number_profiled, heard, sample, samples>>
            /\ number_skipped' = Increment(number_skipped) /\ number_skipped < FirstSampled
        BY <1>3, <2>2 DEF ExecuteLoad, SkippingBB, Skips, FirstSampled, sampling
      <3>2. SampledTypes'
        BY <2>1, <3>1 DEF SamplingInv, SampledTypes, vars
      <3>3. ChunkInv'
        BY <2>1, <3>1, Wrapping DEF SamplingInv, ChunkInv
      <3>4. HeardInv'
        <4>1. /\ lastAddress' = lastAddress /\ strideValues' = strideValues
              /\ strideZeroCount' = strideZeroCount /\ heard' = heard
              /\ hasProfile' = hasProfile /\ sample' = sample /\ samples' = samples
          BY <3>1 DEF vars
        <4>2. CASE hasProfile
          <5>1. FirstSampled + heard <= executions + 1
            BY <2>1, <4>2, Counters DEF SamplingInv, HeardInv
          <5>2. FirstSampled + heard' <= executions'
            BY <2>1, <4>1, <5>1
          <5>3. QED BY <2>1, <4>1, <4>2, <5>2 DEF SamplingInv, HeardInv
        <4>3. CASE ~hasProfile
          BY <4>1, <4>3 DEF SamplingInv, HeardInv
        <4>4. QED BY <4>2, <4>3
      <3>5. StridesAreConsecutive'
        <4>1. CASE hasProfile
          <5>1. number_skipped = executions % (2^Width) /\ FirstSampled + heard <= executions
                /\ heard > 0
            BY <4>1 DEF SamplingInv, ChunkInv, HeardInv
          <5>2. FirstSampled <= executions
            BY <2>1, <5>1, Counters
          <5>3. executions % (2^Width) < FirstSampled
            BY <3>1, <5>1
          <5>4. ~ (executions < 2^Width)
            <6>1. SUFFICES ASSUME executions < 2^Width PROVE FALSE
              OBVIOUS
            <6>2. executions % (2^Width) = executions
              BY <2>1, <6>1, Wrapping
            <6>3. QED BY <2>1, <5>2, <5>3, <6>2, Counters
          <5>5. 2^Width \in Nat
            BY WidthAssumption
          <5>6. ~ (executions + 1 <= 2^Width)
            BY <2>1, <5>4, <5>5
          <5>7. QED BY <2>1, <5>6 DEF StridesAreConsecutive
        <4>2. CASE ~hasProfile
          BY <3>1, <4>2 DEF SamplingInv, HeardInv, StridesAreConsecutive, NoAddress, vars
        <4>3. QED BY <4>1, <4>2
      <3>6. QED BY <3>2, <3>3, <3>4, <3>5 DEF SamplingInv
    <2>3. CASE ~Skips /\ N2 = 0
      <3>1. ResetBB /\ ~hasProfile
        BY <1>3, <2>1, <2>3 DEF ExecuteLoad, ProfCheck, SamplingInv, ChunkInv
      <3>2. UNCHANGED <<vars, hasProfile, heard, sample, samples>> /\ number_profiled' = 0
        BY <3>1 DEF ResetBB, Stride_ClearAddresses, sampling
      <3>3. QED BY <2>1, <2>3, <3>1, <3>2
                DEF SamplingInv, SampledTypes, ChunkInv, HeardInv, StridesAreConsecutive, NoAddress,
                    vars
    <2>4. CASE ~Skips /\ N2 # 0
      <3>1. /\ number_skipped' = Increment(number_skipped) /\ number_profiled' = 0
            /\ Stride_StrideProfile(addr)
            /\ number_skipped = executions % (2^Width) /\ FirstSampled <= number_skipped
        <4>1. StrideBB(addr)
          BY <1>3, <2>1, <2>4 DEF ExecuteLoad, ProfCheck
        <4>2. number_skipped = executions % (2^Width)
          BY <2>4 DEF SamplingInv, ChunkInv
        <4>3. ~ (number_skipped < FirstSampled)
          BY <2>4 DEF Skips, FirstSampled
        <4>4. QED BY <2>1, <4>1, <4>2, <4>3, Counters DEF StrideBB
      <3>2. ChunkInv'
        BY <2>1, <2>4, <3>1, Wrapping DEF ChunkInv
      <3>3. FirstSampled <= executions
        BY <2>1, <3>1, Counters, Wrapping
      <3>4. CASE Stride_initialized
        <4>1. /\ hasProfile' = TRUE /\ AddAddress(addr)
              /\ heard' = heard + 1 /\ sample' = sample + 1
              /\ samples' = IF sample = 0 THEN samples + 1 ELSE samples
          BY <3>1, <3>4 DEF Stride_StrideProfile
        <4>2. /\ lastAddress' = addr /\ addr # NoAddress
              /\ strideValues' \in Seq(Strides) /\ strideZeroCount' \in Nat
              /\ IF lastAddress = NoAddress
                 THEN UNCHANGED <<strideValues, strideZeroCount>>
                 ELSE Len(strideValues') + strideZeroCount'
                        = Len(strideValues) + strideZeroCount + 1
          BY <4>1, AddressHeard DEF SamplingInv
        <4>3. SampledTypes'
          BY <2>1, <3>1, <4>1, <4>2 DEF SamplingInv, SampledTypes
        <4>4. HeardInv'
          <5>1. Len(strideValues') \in Nat /\ Len(strideValues) \in Nat /\ Len(<<>>) = 0
            BY <4>2 DEF SamplingInv, SampledTypes
          <5>2. CASE hasProfile
            <6>1. /\ Stride_initialized /\ heard > 0 /\ lastAddress # NoAddress
                  /\ Len(strideValues) + strideZeroCount = heard - 1
                  /\ FirstSampled + heard <= executions
                  /\ sample > 0 /\ samples = 1
              BY <5>2 DEF SamplingInv, HeardInv
            <6>2. Len(strideValues') + strideZeroCount' = heard' - 1
              BY <2>1, <4>1, <4>2, <6>1
            <6>3. sample' > 0 /\ samples' = 1
              BY <4>1, <6>1 DEF SamplingInv, SampledTypes
            <6>4. QED BY <2>1, <4>1, <4>2, <6>1, <6>2, <6>3, Counters DEF HeardInv
          <5>3. CASE ~hasProfile
            <6>1. /\ lastAddress = NoAddress /\ strideValues = <<>> /\ strideZeroCount = 0
                  /\ heard = 0 /\ sample = 0 /\ samples = 0
              BY <5>3 DEF SamplingInv, HeardInv
            <6>2. Len(strideValues') + strideZeroCount' = heard' - 1
              BY <2>1, <4>1, <4>2, <5>1, <6>1
            <6>3. QED BY <2>1, <3>3, <3>4, <4>1, <4>2, <6>1, <6>2, Counters DEF HeardInv
          <5>4. QED BY <5>2, <5>3
        <4>5. StridesAreConsecutive'
          BY <2>1, <4>2 DEF StridesAreConsecutive
        <4>6. QED BY <3>2, <4>3, <4>4, <4>5 DEF SamplingInv
      <3>5. CASE ~Stride_initialized
        <4>1. UNCHANGED <<vars, hasProfile, heard, sample, samples>> /\ ~hasProfile
          BY <3>1, <3>5 DEF Stride_StrideProfile, sampling, SamplingInv, HeardInv
        <4>2. SampledTypes' /\ HeardInv' /\ StridesAreConsecutive'
          BY <2>1, <3>1, <4>1 DEF SamplingInv, SampledTypes, HeardInv, StridesAreConsecutive,
             NoAddress, vars
        <4>3. QED BY <3>2, <4>2 DEF SamplingInv
      <3>6. QED BY <3>4, <3>5
    <2>5. QED BY <2>2, <2>3, <2>4
  <1>4. QED BY <1>1, <1>2, <1>3 DEF SamplingNext

LEMMA SamplingInvariance == SamplingSpec => []SamplingInv
  BY SamplingInvInit, SamplingInvStep, PTL DEF SamplingSpec

\* A stride is one between consecutive executions of the load, as long as
\* number_skipped has not gone through all the values of its type.
THEOREM ConsecutiveCorrect == SamplingSpec => []StridesAreConsecutive
  <1>1. SamplingInv => StridesAreConsecutive
    BY DEF SamplingInv
  <1>2. QED BY <1>1, SamplingInvariance, PTL

\* Every sampled execution but the first after a clearing is a recorded stride or a
\* zero stride, and none of the first N1 is sampled.  N1 is computed in an int, as wide as the counter
\* it is compared with.
THEOREM SamplesCorrect ==
  ASSUME N1 < 2^Width
  PROVE  SamplingSpec => []SamplesAccounted
  <1>1. SamplingInv => SamplesAccounted
    <2> SUFFICES ASSUME SamplingInv PROVE SamplesAccounted
      OBVIOUS
    <2>1. /\ executions \in Nat /\ heard \in Nat /\ N1 \in Int /\ hasProfile \in BOOLEAN
          /\ FirstSampled \in Nat /\ (N1 >= 0 => FirstSampled = N1)
      BY Counters DEF SamplingInv, SampledTypes
    <2>2. CASE hasProfile
      <3>1. heard > 0 /\ StrideExecCount + strideZeroCount = heard - samples
            /\ FirstSampled + heard <= executions
        BY <2>2 DEF SamplingInv, HeardInv, StrideExecCount
      <3>2. heard <= executions - Lesser(N1, executions)
        BY <2>1, <3>1 DEF Lesser
      <3>3. QED BY <2>2, <3>1, <3>2 DEF SamplesAccounted
    <2>3. CASE ~hasProfile
      <3>1. heard = 0
        BY <2>3 DEF SamplingInv, HeardInv
      <3>2. QED BY <2>1, <2>3, <3>1 DEF SamplesAccounted, Lesser
    <2>4. QED BY <2>2, <2>3
  <1>2. QED BY <1>1, SamplingInvariance, PTL

\* The sampling does nothing to the collector but call addAddress and clearAddresses:
\* all that is proved of a collector above holds of the one in a profiled program.
THEOREM SamplingUsesCollector == SamplingSpec => Spec
  <1>1. SamplingInit => Init
    BY DEF SamplingInit
  <1>2. [SamplingNext]_samplingVars => [Next]_vars
    <2> SUFFICES ASSUME [SamplingNext]_samplingVars PROVE [Next]_vars
      OBVIOUS
    <2>1. CASE UNCHANGED samplingVars
      BY <2>1 DEF samplingVars
    <2>2. CASE Stride_init
      BY <2>2 DEF Stride_init
    <2>3. ASSUME NEW addr \in Addresses, ExecuteLoad(addr)
          PROVE  [Next]_vars
      <3>1. SkippingBB \/ ResetBB \/ StrideBB(addr)
        BY <2>3 DEF ExecuteLoad, ProfCheck
      <3>2. QED BY <3>1 DEF SkippingBB, ResetBB, StrideBB, Stride_ClearAddresses,
                            Stride_StrideProfile, Next
    <2>4. QED BY <2>1, <2>2, <2>3 DEF SamplingNext
  <1>3. QED BY <1>1, <1>2, PTL DEF SamplingSpec, Spec

-------------------------------------------------------------------------------
(* StrideClasses.                                                          *)

\* Induction is by least counterexample.
LEMMA LeastOf ==
  ASSUME NEW T, T \subseteq Nat, T # {}
  PROVE  \E x \in T : \A y \in T : x <= y
  <1>1. PICK x \in T : \A y \in T : ~ (<<y, x>> \in OpToRel(<, Nat))
    BY NatLessThanWellFounded, WFMin, Zenon
  <1>2. \A y \in T : ~ (y < x)
    BY <1>1 DEF OpToRel
  <1>3. QED BY <1>2

\* Two entries never sort to one place, so that every place gets one.
Before(f, i) == {j \in DOMAIN f : f[j] > f[i] \/ (f[j] = f[i] /\ j <= i)}

LEMMA Places ==
  ASSUME NEW n \in Nat, NEW f \in [1..n -> Nat]
  PROVE  /\ \A i \in 1..n : Place(f, i) \in 1..n /\ IsFiniteSet(Before(f, i))
         /\ \A i, j \in 1..n : Place(f, i) = Place(f, j) => i = j
         /\ \A k \in 1..n : \E i \in 1..n : Place(f, i) = k
  <1>1. IsFiniteSet(1..n) /\ Cardinality(1..n) = n
    BY FS_Interval
  <1>2. ASSUME NEW i \in 1..n
        PROVE  /\ IsFiniteSet(Before(f, i)) /\ Place(f, i) = Cardinality(Before(f, i))
               /\ Place(f, i) \in 1..n
    <2>1. Before(f, i) \in SUBSET (1..n) /\ i \in Before(f, i)
      BY DEF Before
    <2>2. /\ IsFiniteSet(Before(f, i)) /\ Cardinality(Before(f, i)) <= n
          /\ Cardinality(Before(f, i)) \in Nat
      BY <1>1, <2>1, FS_Subset, FS_CardinalityType
    <2>3. Cardinality(Before(f, i)) # 0
      BY <2>1, <2>2, FS_EmptySet
    <2>4. Place(f, i) = Cardinality(Before(f, i))
      BY DEF Place, Before
    <2>5. QED BY <2>2, <2>3, <2>4
  <1>3. ASSUME NEW i \in 1..n, NEW j \in 1..n, f[i] > f[j] \/ (f[i] = f[j] /\ i < j)
        PROVE  Place(f, i) # Place(f, j)
    <2>1. Before(f, i) \in SUBSET Before(f, j)
      BY <1>3 DEF Before
    <2>2. j \in Before(f, j) /\ j \notin Before(f, i)
      BY <1>3 DEF Before
    <2>3. QED BY <1>2, <2>1, <2>2, FS_Subset
  <1>4. ASSUME NEW i \in 1..n, NEW j \in 1..n, Place(f, i) = Place(f, j), i # j
        PROVE  FALSE
    <2>1. \/ f[i] > f[j] \/ (f[i] = f[j] /\ i < j)
          \/ f[j] > f[i] \/ (f[j] = f[i] /\ j < i)
      BY <1>4
    <2>2. QED BY <1>3, <1>4, <2>1
  <1> DEFINE q == [i \in 1..n |-> Place(f, i)]
  <1>5. q \in Injection(1..n, 1..n)
    BY <1>2, <1>4 DEF Injection, IsInjective
  <1>6. q \in Surjection(1..n, 1..n)
    <2> HIDE DEF q
    <2>1. QED BY <1>1, <1>5, FS_Injection
  <1>7. \A k \in 1..n : \E i \in 1..n : q[i] = k
    <2> HIDE DEF q
    <2>1. QED BY <1>6 DEF Surjection
  <1>8. QED BY <1>2, <1>4, <1>7

\* Sorting permutes, and puts a largest entry first.
LEMMA Sorts ==
  ASSUME NEW n \in Nat, NEW f \in [1..n -> Nat]
  PROVE  \E p \in [1..n -> 1..n] :
            /\ \A i, j \in 1..n : p[i] = p[j] => i = j
            /\ \A i \in 1..n : \E k \in 1..n : p[k] = i
            /\ Descending(f) = [k \in 1..n |-> f[p[k]]]
            /\ n > 0 => \A i \in 1..n : f[i] <= f[p[1]]
  <1> DEFINE Is(k, i) == Place(f, i) = k
             p == [k \in 1..n |-> CHOOSE i \in 1..n : Place(f, i) = k]
  <1>1. ASSUME NEW k \in 1..n
        PROVE  p[k] \in 1..n /\ Place(f, p[k]) = k
    <2>1. \E i \in 1..n : Place(f, i) = k
      BY Places
    <2>2. QED BY <2>1
  <1>2. p \in [1..n -> 1..n]
    BY <1>1
  <1>3. Descending(f) = [k \in 1..n |-> f[p[k]]]
    BY DEF Descending
  <1> HIDE DEF p
  <1>4. \A i, j \in 1..n : p[i] = p[j] => i = j
    BY <1>1
  <1>5. \A i \in 1..n : \E k \in 1..n : p[k] = i
    <2>1. ASSUME NEW i \in 1..n
          PROVE  Place(f, i) \in 1..n /\ p[Place(f, i)] = i
      <3>1. Place(f, i) \in 1..n
        BY Places
      <3>2. Place(f, p[Place(f, i)]) = Place(f, i) /\ p[Place(f, i)] \in 1..n
        BY <1>1, <3>1
      <3>3. QED BY <3>1, <3>2, Places
    <2>2. QED BY <2>1
  <1>6. ASSUME n > 0, NEW i \in 1..n
        PROVE  f[i] <= f[p[1]]
    <2>1. 1 \in 1..n
      BY <1>6
    <2>2. p[1] \in 1..n /\ Place(f, p[1]) = 1
      BY <1>1, <2>1
    <2>3. IsFiniteSet(Before(f, p[1])) /\ Cardinality(Before(f, p[1])) = 1
      <3>1. IsFiniteSet(Before(f, p[1]))
        BY <2>2, Places
      <3>2. Place(f, p[1]) = Cardinality(Before(f, p[1]))
        BY DEF Place, Before
      <3>3. QED BY <2>2, <3>1, <3>2
    <2>4. PICK x : Before(f, p[1]) = {x}
      BY <2>3, FS_Singleton
    <2>5. p[1] \in Before(f, p[1])
      BY <2>2 DEF Before
    <2>6. i = p[1] \/ i \notin Before(f, p[1])
      BY <2>4, <2>5
    <2>7. f[i] \in Nat /\ f[p[1]] \in Nat
      BY <2>2
    <2>8. QED BY <2>2, <2>6, <2>7 DEF Before
  <1>7. QED BY <1>2, <1>3, <1>4, <1>5, <1>6

\* The loop adds up the sizes of disjoint sets to the size of their union.
Sums(g, n, f) == g = [i \in 0..n |-> IF i = 0 THEN 0 ELSE g[i - 1] + f[i]]

LEMMA SumsExist ==
  ASSUME NEW n \in Nat, NEW f
  PROVE  \E g : Sums(g, n, f)
  <1> DEFINE T == {m \in 0..n : ~ \E g : Sums(g, m, f)}
  <1>1. ASSUME T # {}
        PROVE  FALSE
    <2>1. PICK m \in T : \A other \in T : m <= other
      <3>1. T \subseteq Nat
        OBVIOUS
      <3> HIDE DEF T
      <3>2. QED BY <1>1, <3>1, LeastOf
    <2>2. m \in 0..n /\ ~ \E g : Sums(g, m, f)
      OBVIOUS
    <2>3. m # 0
      <3>1. Sums([i \in 0..0 |-> 0], 0, f)
        <4>1. \A i \in 0..0 : i = 0
          OBVIOUS
        <4>2. QED BY <4>1 DEF Sums
      <3>2. QED BY <2>2, <3>1
    <2>4. PICK h : Sums(h, m - 1, f)
      <3>1. m - 1 \in 0..n /\ ~ (m <= m - 1)
        BY <2>2, <2>3
      <3>2. m - 1 \notin T
        BY <2>1, <3>1
      <3>3. QED BY <3>1, <3>2
    <2> DEFINE g == [i \in 0..m |-> IF i = 0 THEN 0 ELSE h[i - 1] + f[i]]
    <2>5. ASSUME NEW i \in 0..(m - 1)
          PROVE  g[i] = h[i]
      <3>1. i \in 0..m
        BY <2>2, <2>5
      <3>2. QED BY <2>4, <3>1 DEF Sums
    <2>6. \A i \in 0..m : i = 0 \/ i - 1 \in 0..(m - 1)
      BY <2>2
    <2>7. g = [i \in 0..m |-> IF i = 0 THEN 0 ELSE g[i - 1] + f[i]]
      <3>1. \A i \in 0..m : (IF i = 0 THEN 0 ELSE h[i - 1] + f[i])
                              = (IF i = 0 THEN 0 ELSE g[i - 1] + f[i])
        <4> HIDE DEF g
        <4>1. QED BY <2>5, <2>6
      <3>2. g = [i \in 0..m |-> IF i = 0 THEN 0 ELSE h[i - 1] + f[i]]
        OBVIOUS
      <3> HIDE DEF g
      <3>3. QED BY <3>1, <3>2
    <2>8. Sums(g, m, f)
      BY <2>7 DEF Sums
    <2>9. QED BY <2>2, <2>8
  <1>2. QED
    <2>1. n \notin T
      BY <1>1
    <2>2. QED BY <2>1

Joined(B, n) == UNION {B[i] : i \in 1..n}

LEMMA SumOfSizes ==
  ASSUME NEW n \in Nat, NEW f, DOMAIN f = 1..n, Len(f) = n, NEW B,
         \A i \in 1..n : IsFiniteSet(B[i]) /\ Cardinality(B[i]) = f[i],
         \A i, j \in 1..n : i # j => B[i] \cap B[j] = {}
  PROVE  SumOf(f) = Cardinality(Joined(B, n))
  <1> DEFINE sum == CHOOSE g : Sums(g, n, f)
             Good(i) == IsFiniteSet(Joined(B, i)) /\ sum[i] = Cardinality(Joined(B, i))
             T == {i \in 0..n : ~Good(i)}
  <1>1. SumOf(f) = sum[n]
    BY DEF SumOf, Sums
  <1>2. Sums(sum, n, f)
    <2>1. \E g : Sums(g, n, f)
      BY SumsExist
    <2>2. QED BY <2>1, Zenon
  <1> HIDE DEF sum
  <1>3. /\ sum[0] = 0
        /\ \A i \in 1..n : sum[i] = sum[i - 1] + f[i]
    <2>1. 0 \in 0..n /\ \A i \in 1..n : i \in 0..n /\ i # 0
      OBVIOUS
    <2>2. QED BY <1>2, <2>1 DEF Sums
  <1>4. Good(0)
    <2>1. Joined(B, 0) = {}
      BY DEF Joined
    <2>2. QED BY <1>3, <2>1, FS_EmptySet
  <1>5. ASSUME NEW i \in 1..n, Good(i - 1)
        PROVE  Good(i)
    <2>1. Joined(B, i) = Joined(B, i - 1) \cup B[i]
      <3>1. \A j : j \in 1..i <=> j \in 1..(i - 1) \/ j = i
        OBVIOUS
      <3>2. QED BY <3>1 DEF Joined
    <2>2. Joined(B, i - 1) \cap B[i] = {}
      <3>1. \A j \in 1..(i - 1) : j \in 1..n /\ j # i
        OBVIOUS
      <3>2. QED BY <3>1 DEF Joined
    <2>3. IsFiniteSet(B[i]) /\ Cardinality(B[i]) = f[i] /\ IsFiniteSet(Joined(B, i - 1))
      BY <1>5
    <2>4. sum[i - 1] = Cardinality(Joined(B, i - 1)) /\ sum[i] = sum[i - 1] + f[i]
      BY <1>3, <1>5
    <2>5. /\ IsFiniteSet(Joined(B, i))
          /\ Cardinality(Joined(B, i)) = Cardinality(Joined(B, i - 1)) + Cardinality(B[i])
                                        - Cardinality(Joined(B, i - 1) \cap B[i])
      <3>1. /\ IsFiniteSet(Joined(B, i - 1) \cup B[i])
            /\ Cardinality(Joined(B, i - 1) \cup B[i]) = Cardinality(Joined(B, i - 1))
                 + Cardinality(B[i]) - Cardinality(Joined(B, i - 1) \cap B[i])
        BY <2>3, FS_Union
      <3>2. QED BY <2>1, <3>1
    <2>6. Cardinality(Joined(B, i - 1) \cap B[i]) = 0
      BY <2>2, FS_EmptySet
    <2>7. Cardinality(Joined(B, i - 1)) \in Nat /\ Cardinality(B[i]) \in Nat
      BY <2>3, FS_CardinalityType
    <2>8. QED BY <2>3, <2>4, <2>5, <2>6, <2>7
  <1> HIDE DEF Good
  <1>6. ASSUME T # {}
        PROVE  FALSE
    <2>1. PICK i \in T : \A other \in T : i <= other
      <3>1. T \subseteq Nat
        OBVIOUS
      <3> HIDE DEF T
      <3>2. QED BY <1>6, <3>1, LeastOf
    <2>2. i \in 1..n
      BY <1>4
    <2>3. i - 1 \in 0..n /\ ~ (i <= i - 1)
      BY <2>2
    <2>4. Good(i - 1)
      BY <2>1, <2>3
    <2>5. QED BY <1>5, <2>2, <2>4
  <1>7. Good(n)
    BY <1>6
  <1>8. QED BY <1>1, <1>7 DEF Good

-------------------------------------------------------------------------------
(* Shares of the recorded strides.                                         *)

PositionsIn(S) == {i \in DOMAIN strideValues : strideValues[i] \in S}

LEMMA Shares ==
  ASSUME TypeOK, HistogramExact
  PROVE  /\ \A S : /\ IsFiniteSet(PositionsIn(S)) /\ Share(S) = Cardinality(PositionsIn(S))
                  /\ Share(S) \in 0..Len(strideValues)
         /\ \A s : IsFiniteSet(Positions(s))
         /\ \A s \in Recorded : /\ s \in DOMAIN strideValuesToCount
                               /\ Share({s}) = strideValuesToCount[s]
                               /\ Cardinality(Positions(s)) = strideValuesToCount[s]
         /\ DOMAIN strideValuesToCount = Recorded
  <1>1. strideValues \in Seq(Strides)
    BY DEF TypeOK
  <1>2. /\ DOMAIN strideValues = 1..Len(strideValues) /\ Len(strideValues) \in Nat
        /\ IsFiniteSet(DOMAIN strideValues)
        /\ Cardinality(DOMAIN strideValues) = Len(strideValues)
    <2>1. DOMAIN strideValues = 1..Len(strideValues) /\ Len(strideValues) \in Nat
      BY <1>1
    <2>2. Cardinality(1..Len(strideValues)) = IF 1 > Len(strideValues) THEN 0
                                             ELSE Len(strideValues) - 1 + 1
      BY <2>1, FS_Interval
    <2>3. QED BY <2>1, <2>2, FS_Interval
  <1>3. ASSUME NEW S
        PROVE  /\ IsFiniteSet(PositionsIn(S)) /\ Share(S) = Cardinality(PositionsIn(S))
               /\ Share(S) \in 0..Len(strideValues)
    <2>1. PositionsIn(S) \in SUBSET DOMAIN strideValues
      BY DEF PositionsIn
    <2>2. Share(S) = Cardinality(PositionsIn(S))
      BY DEF Share, PositionsIn
    <2>3. IsFiniteSet(PositionsIn(S)) /\ Cardinality(PositionsIn(S)) <= Len(strideValues)
      BY <1>2, <2>1, FS_Subset
    <2>4. Cardinality(PositionsIn(S)) \in Nat
      BY <2>3, FS_CardinalityType
    <2>5. QED BY <1>2, <2>2, <2>3, <2>4
  <1>4. \A s : IsFiniteSet(Positions(s))
    BY <1>1, PositionsFinite
  <1>5. ASSUME NEW s \in Recorded
        PROVE  /\ s \in DOMAIN strideValuesToCount
               /\ Share({s}) = strideValuesToCount[s]
               /\ Cardinality(Positions(s)) = strideValuesToCount[s]
    <2>1. s \in DOMAIN strideValuesToCount
      BY DEF Recorded, HistogramExact
    <2>2. PositionsIn({s}) = Positions(s)
      BY DEF PositionsIn, Positions
    <2>3. QED BY <1>3, <2>1, <2>2 DEF HistogramExact
  <1>6. ASSUME NEW s \in DOMAIN strideValuesToCount
        PROVE  s \in Recorded
    <2>1. Cardinality(Positions(s)) # 0
      BY DEF HistogramExact, TypeOK
    <2>2. Positions(s) # {}
      BY <2>1, FS_EmptySet
    <2>3. QED BY <2>2 DEF Positions, Recorded
  <1>7. QED BY <1>3, <1>4, <1>5, <1>6

\* A set no larger than another can be mapped into it.
LEMMA InjectionExists ==
  ASSUME NEW S, NEW T, IsFiniteSet(S), IsFiniteSet(T), Cardinality(S) <= Cardinality(T)
  PROVE  \E f \in [S -> T] : \A x, y \in S : f[x] = f[y] => x = y
  <1> DEFINE m == Cardinality(S)
             n == Cardinality(T)
  <1>1. m \in Nat /\ n \in Nat /\ m <= n
    BY FS_CardinalityType
  <1>2. PICK a \in [1..m -> S] : a \in Injection(1..m, S) /\ a \in Surjection(1..m, S)
    BY FS_CardinalityType DEF ExistsBijection, Bijection, Injection
  <1>3. PICK b \in [1..n -> T] : b \in Injection(1..n, T)
    BY FS_CardinalityType DEF ExistsBijection, Bijection, Injection
  <1> HIDE DEF m, n
  <1>4. \A x \in S : \E i \in 1..m : a[i] = x
    BY <1>2 DEF Surjection
  <1>5. \A i, j \in 1..n : b[i] = b[j] => i = j
    BY <1>3 DEF Injection, IsInjective
  <1> DEFINE at  == [x \in S |-> CHOOSE i \in 1..m : a[i] = x]
             f == [x \in S |-> b[at[x]]]
  <1>6. \A x \in S : at[x] \in 1..m /\ a[at[x]] = x
    BY <1>4
  <1> HIDE DEF at
  <1>7. \A x \in S : at[x] \in 1..n
    BY <1>1, <1>6
  <1>8. f \in [S -> T]
    BY <1>3, <1>7
  <1>9. \A x, y \in S : f[x] = f[y] => x = y
    BY <1>5, <1>6, <1>7
  <1>10. QED BY <1>8, <1>9

\* No few strides together have more occurrences than the listed ones.
LEMMA ListedHaveMost ==
  ASSUME IInv, NEW S \in SUBSET Recorded, IsFiniteSet(S), Cardinality(S) <= TOPCOUNT
  PROVE  Share(S) <= Share(Listed)
  <1>1. TypeOK /\ HistogramExact /\ TopIsTop
    BY DEF IInv
  <1>2. /\ IsFiniteSet(Listed) /\ Cardinality(Listed) = Len(topStrideValues)
        /\ Listed \subseteq Recorded
        /\ \A u \in Recorded \ Listed : /\ Cardinality(Listed) = TOPCOUNT
                                       /\ \A t \in Listed : strideValuesToCount[u] <= strideValuesToCount[t]
    <2>1. IsFiniteSet(Listed) /\ Cardinality(Listed) = Len(topStrideValues)
      BY <1>1, ListedCardinality DEF TopIsTop
    <2>2. \A t \in Listed : \E i \in DOMAIN topStrideValues :
             /\ topStrideValues[i].first = t /\ topStrideValues[i].second = strideValuesToCount[t]
             /\ t \in DOMAIN strideValuesToCount
      BY <1>1 DEF TopIsTop, TopEntriesExact, Listed
    <2>3. DOMAIN strideValuesToCount = Recorded
      BY <1>1, Shares
    <2>4. QED BY <1>1, <2>1, <2>2, <2>3 DEF TopIsTop, UnlistedNotHigher
  <1>3. CASE S \subseteq Listed
    <2>1. PositionsIn(S) \in SUBSET PositionsIn(Listed)
      BY <1>3 DEF PositionsIn
    <2>2. Cardinality(PositionsIn(S)) <= Cardinality(PositionsIn(Listed))
      BY <1>1, <2>1, Shares, FS_Subset
    <2>3. QED BY <1>1, <2>2, Shares
  <1>4. CASE ~ (S \subseteq Listed)
    <2> DEFINE A == S \ Listed
               B == Listed \ S
    <2>1. Cardinality(Listed) = TOPCOUNT
      BY <1>2, <1>4
    <2>2. /\ IsFiniteSet(A) /\ IsFiniteSet(B) /\ Cardinality(A) <= Cardinality(B)
      <3>1. IsFiniteSet(A) /\ Cardinality(A) = Cardinality(S) - Cardinality(S \cap Listed)
        BY FS_Difference
      <3>2. IsFiniteSet(B) /\ Cardinality(B) = Cardinality(Listed) - Cardinality(Listed \cap S)
        BY <1>2, FS_Difference
      <3>3. Cardinality(S \cap Listed) = Cardinality(Listed \cap S)
        <4>1. S \cap Listed = Listed \cap S
          OBVIOUS
        <4>2. QED BY <4>1
      <3>4. /\ Cardinality(S) \in Nat /\ Cardinality(Listed) \in Nat
            /\ Cardinality(Listed \cap S) \in Nat
        BY <1>2, FS_CardinalityType, FS_Intersection
      <3> HIDE DEF A, B
      <3>5. QED BY <2>1, <3>1, <3>2, <3>3, <3>4
    <2>3. PICK g \in [A -> B] : \A x, y \in A : g[x] = g[y] => x = y
      <3> HIDE DEF A, B
      <3>1. QED BY <2>2, InjectionExists
    <2>4. ASSUME NEW s \in A
          PROVE  \E f \in [Positions(s) -> Positions(g[s])] :
                    \A i, j \in Positions(s) : f[i] = f[j] => i = j
      <3>1. s \in Recorded \ Listed /\ g[s] \in Listed /\ g[s] \in Recorded
        BY <1>2, <2>3
      <3>2. strideValuesToCount[s] <= strideValuesToCount[g[s]]
        BY <1>2, <3>1
      <3>3. Cardinality(Positions(s)) <= Cardinality(Positions(g[s]))
        BY <1>1, <3>1, <3>2, Shares
      <3>4. IsFiniteSet(Positions(s)) /\ IsFiniteSet(Positions(g[s]))
        BY <1>1, Shares
      <3>5. QED BY <3>3, <3>4, InjectionExists
    <2> DEFINE h == [s \in A |-> CHOOSE f \in [Positions(s) -> Positions(g[s])] :
                                   \A i, j \in Positions(s) : f[i] = f[j] => i = j]
               move == [i \in PositionsIn(S) |->
                          IF strideValues[i] \in Listed THEN i ELSE h[strideValues[i]][i]]
    <2>5. ASSUME NEW s \in A
          PROVE  /\ h[s] \in [Positions(s) -> Positions(g[s])]
                 /\ \A i, j \in Positions(s) : h[s][i] = h[s][j] => i = j
      <3>1. h[s] = CHOOSE f \in [Positions(s) -> Positions(g[s])] :
                                   \A i, j \in Positions(s) : f[i] = f[j] => i = j
        OBVIOUS
      <3> HIDE DEF h
      <3>2. QED BY <2>4, <3>1
    <2> HIDE DEF h
    <2>6. ASSUME NEW i \in PositionsIn(S)
          PROVE  /\ i \in DOMAIN strideValues /\ strideValues[i] \in S
                 /\ \/ strideValues[i] \in Listed /\ move[i] = i
                    \/ /\ strideValues[i] \in A /\ i \in Positions(strideValues[i])
                       /\ move[i] = h[strideValues[i]][i]
                       /\ move[i] \in DOMAIN strideValues
                       /\ strideValues[move[i]] = g[strideValues[i]]
                       /\ g[strideValues[i]] \in B
      <3>1. i \in DOMAIN strideValues /\ strideValues[i] \in S
        BY DEF PositionsIn
      <3>2. CASE strideValues[i] \in Listed
        BY <3>1, <3>2
      <3>3. CASE strideValues[i] \notin Listed
        <4>1. strideValues[i] \in A /\ i \in Positions(strideValues[i])
          BY <3>1, <3>3 DEF Positions
        <4>2. move[i] = h[strideValues[i]][i]
          BY <3>3
        <4>3. move[i] \in Positions(g[strideValues[i]])
          BY <2>5, <4>1, <4>2
        <4>4. g[strideValues[i]] \in B
          BY <2>3, <4>1
        <4>5. QED BY <3>1, <4>1, <4>2, <4>3, <4>4 DEF Positions
      <3>4. QED BY <3>2, <3>3
    <2> HIDE DEF move
    <2>7. move \in [PositionsIn(S) -> PositionsIn(Listed)]
      <3>1. \A i \in PositionsIn(S) : move[i] \in PositionsIn(Listed)
        BY <2>6 DEF PositionsIn
      <3>2. move = [i \in PositionsIn(S) |-> move[i]]
        BY DEF move
      <3>3. QED BY <3>1, <3>2
    <2>8. \A i, j \in PositionsIn(S) : move[i] = move[j] => i = j
      <3>1. SUFFICES ASSUME NEW i \in PositionsIn(S), NEW j \in PositionsIn(S), move[i] = move[j]
                     PROVE  i = j
        OBVIOUS
      <3> DEFINE v == strideValues[i]
                 w == strideValues[j]
      <3>2. CASE v \in Listed /\ w \in Listed
        BY <2>6, <3>1, <3>2
      <3>3. CASE v \in Listed /\ w \notin Listed
        <4>1. move[i] = i /\ strideValues[move[j]] = g[w] /\ g[w] \notin S /\ v \in S
          BY <2>6, <3>3
        <4>2. QED BY <3>1, <4>1
      <3>4. CASE v \notin Listed /\ w \in Listed
        <4>1. move[j] = j /\ strideValues[move[i]] = g[v] /\ g[v] \notin S /\ w \in S
          BY <2>6, <3>4
        <4>2. QED BY <3>1, <4>1
      <3>5. CASE v \notin Listed /\ w \notin Listed
        <4>1. /\ v \in A /\ w \in A /\ g[v] = g[w]
              /\ i \in Positions(v) /\ j \in Positions(w)
              /\ move[i] = h[v][i] /\ move[j] = h[w][j]
          BY <2>6, <3>1, <3>5
        <4>2. v = w
          BY <2>3, <4>1
        <4> HIDE DEF v, w
        <4>3. QED BY <2>5, <3>1, <4>1, <4>2
      <3>6. QED BY <3>2, <3>3, <3>4, <3>5
    <2>9. move \in Injection(PositionsIn(S), PositionsIn(Listed))
      BY <2>7, <2>8 DEF Injection, IsInjective
    <2>10. Cardinality(PositionsIn(S)) <= Cardinality(PositionsIn(Listed))
      BY <1>1, <2>9, Shares, FS_Injection
    <2>11. QED BY <1>1, <2>10, Shares
  <1>5. QED BY <1>3, <1>4

\* The frequencies of a line are the numbers of occurrences of the listed strides.
Frequencies == Padded([i \in DOMAIN topStrideValues |-> topStrideValues[i].second])

Block(i) == IF i \in DOMAIN topStrideValues THEN Positions(topStrideValues[i].first) ELSE {}

LEMMA FrequenciesCount ==
  ASSUME IInv, TOPCOUNT = NUM_TOP_FREQ
  PROVE  /\ Frequencies \in [1..TOPCOUNT -> Nat]
         /\ DOMAIN topStrideValues \subseteq 1..TOPCOUNT
         /\ \A i \in DOMAIN topStrideValues : Frequencies[i] = topStrideValues[i].second
         /\ \A i \in 1..TOPCOUNT : IsFiniteSet(Block(i)) /\ Cardinality(Block(i)) = Frequencies[i]
         /\ \A i, j \in 1..TOPCOUNT : i # j => Block(i) \cap Block(j) = {}
         /\ UNION {Block(i) : i \in 1..TOPCOUNT} = PositionsIn(Listed)
  <1>1. TypeOK /\ HistogramExact /\ TopIsTop /\ TOPCOUNT \in Nat /\ TOPCOUNT > 0
    BY TopCountAssumption DEF IInv
  <1> DEFINE n == Len(topStrideValues)
             seconds == [i \in DOMAIN topStrideValues |-> topStrideValues[i].second]
  <1>2. n \in 0..TOPCOUNT /\ DOMAIN topStrideValues = 1..n
    BY <1>1 DEF TypeOK
  <1>3. Len(seconds) = n /\ \A i \in 1..n : seconds[i] = topStrideValues[i].second
    BY <1>2
  <1>4. \A i \in 1..n : /\ topStrideValues[i].second \in Nat
                       /\ topStrideValues[i].second = Cardinality(Positions(topStrideValues[i].first))
    BY <1>1, <1>2 DEF TypeOK, TopIsTop, TopEntriesExact, HistogramExact
  <1>5. \A i \in 1..TOPCOUNT : Frequencies[i] = IF i \in 1..n THEN topStrideValues[i].second ELSE 0
    <2>1. Frequencies = [i \in 1..TOPCOUNT |-> IF i <= n THEN seconds[i] ELSE 0]
      <3>1. Frequencies = Padded(seconds)
        BY DEF Frequencies
      <3> HIDE DEF seconds, n
      <3>2. QED BY <1>3, <3>1 DEF Padded
    <2> HIDE DEF seconds, n
    <2>2. QED BY <1>2, <1>3, <2>1
  <1>6. Frequencies \in [1..TOPCOUNT -> Nat]
    <2>1. Frequencies = [i \in 1..TOPCOUNT |-> Frequencies[i]]
      BY DEF Frequencies, Padded
    <2> HIDE DEF n
    <2>2. QED BY <1>4, <1>5, <2>1
  <1> HIDE DEF seconds, n
  <1>7. \A i \in 1..TOPCOUNT : IsFiniteSet(Block(i)) /\ Cardinality(Block(i)) = Frequencies[i]
    <2>1. \A s : IsFiniteSet(Positions(s))
      BY <1>1, Shares
    <2>2. QED BY <1>2, <1>4, <1>5, <2>1, FS_EmptySet DEF Block
  <1>8. \A i, j \in 1..TOPCOUNT : i # j => Block(i) \cap Block(j) = {}
    <2>1. \A i, j \in 1..n : i # j => topStrideValues[i].first # topStrideValues[j].first
      BY <1>1, <1>2 DEF TopIsTop, TopEntriesDistinct
    <2>2. QED BY <1>2, <2>1 DEF Block, Positions
  <1>9. UNION {Block(i) : i \in 1..TOPCOUNT} = PositionsIn(Listed)
    <2>1. \A k : k \in PositionsIn(Listed) <=>
              \E i \in 1..n : k \in Positions(topStrideValues[i].first)
      BY <1>2 DEF PositionsIn, Listed, Positions
    <2>2. \A k : (\E i \in 1..n : k \in Positions(topStrideValues[i].first))
               <=> \E i \in 1..TOPCOUNT : k \in Block(i)
      <3>1. \A i \in 1..n : i \in 1..TOPCOUNT
        BY <1>1, <1>2
      <3>2. \A i : Block(i) = IF i \in 1..n THEN Positions(topStrideValues[i].first) ELSE {}
        BY <1>2 DEF Block
      <3>3. QED BY <3>1, <3>2
    <2>3. QED BY <2>1, <2>2
  <1>10. \A i \in DOMAIN topStrideValues :
            i \in 1..TOPCOUNT /\ Frequencies[i] = topStrideValues[i].second
    BY <1>1, <1>2, <1>5
  <1>11. QED BY <1>6, <1>7, <1>8, <1>9, <1>10

\* What the classifier takes from the sorted frequencies: the dominant stride's
\* share, and that of the listed strides together.
LEMMA SortedFrequencies ==
  ASSUME IInv, TOPCOUNT = NUM_TOP_FREQ
  PROVE  /\ SumOf(Descending(Frequencies)) = Share(Listed)
         /\ strideValues # <<>> => /\ topStrideHolder.first \in Recorded
                                  /\ Descending(Frequencies)[1] = Share({topStrideHolder.first})
                                  /\ \A s \in Recorded : Share({s}) <= Share({topStrideHolder.first})
  <1>1. TypeOK /\ HistogramExact /\ TopIsTop /\ DominantIsMode
    BY DEF IInv
  <1>2. TOPCOUNT \in Nat /\ TOPCOUNT > 0 /\ Frequencies \in [1..TOPCOUNT -> Nat]
    BY TopCountAssumption, FrequenciesCount
  <1>3. PICK p \in [1..TOPCOUNT -> 1..TOPCOUNT] :
            /\ \A i, j \in 1..TOPCOUNT : p[i] = p[j] => i = j
            /\ \A i \in 1..TOPCOUNT : \E k \in 1..TOPCOUNT : p[k] = i
            /\ Descending(Frequencies) = [k \in 1..TOPCOUNT |-> Frequencies[p[k]]]
            /\ \A i \in 1..TOPCOUNT : Frequencies[i] <= Frequencies[p[1]]
    BY <1>2, Sorts
  <1>4. SumOf(Descending(Frequencies)) = Share(Listed)
    <2> DEFINE f == Descending(Frequencies)
               B == [k \in 1..TOPCOUNT |-> Block(p[k])]
    <2>1. DOMAIN f = 1..TOPCOUNT /\ Len(f) = TOPCOUNT
      BY <1>2, <1>3
    <2>2. \A k \in 1..TOPCOUNT : IsFiniteSet(B[k]) /\ Cardinality(B[k]) = f[k]
      BY <1>3, FrequenciesCount
    <2>3. \A i, j \in 1..TOPCOUNT : i # j => B[i] \cap B[j] = {}
      <3>1. \A i, j \in 1..TOPCOUNT : i # j => p[i] # p[j] /\ p[i] \in 1..TOPCOUNT /\ p[j] \in 1..TOPCOUNT
        BY <1>3
      <3>2. \A i \in 1..TOPCOUNT : B[i] = Block(p[i])
        OBVIOUS
      <3> HIDE DEF B
      <3>3. QED BY <3>1, <3>2, FrequenciesCount
    <2>4. Joined(B, TOPCOUNT) = UNION {Block(i) : i \in 1..TOPCOUNT}
      <3>1. \A k \in 1..TOPCOUNT : B[k] = Block(p[k]) /\ p[k] \in 1..TOPCOUNT
        BY <1>3
      <3> HIDE DEF B
      <3>2. \A i \in 1..TOPCOUNT : \E k \in 1..TOPCOUNT : B[k] = Block(i)
        BY <1>3, <3>1
      <3>3. \A x : x \in Joined(B, TOPCOUNT) <=> \E k \in 1..TOPCOUNT : x \in B[k]
        BY DEF Joined
      <3>4. \A x : x \in UNION {Block(i) : i \in 1..TOPCOUNT}
                     <=> \E i \in 1..TOPCOUNT : x \in Block(i)
        OBVIOUS
      <3>5. \A x : (\E k \in 1..TOPCOUNT : x \in B[k]) <=> \E i \in 1..TOPCOUNT : x \in Block(i)
        BY <3>1, <3>2
      <3>6. QED BY <3>3, <3>4, <3>5
    <2> HIDE DEF f, B
    <2>5. SumOf(f) = Cardinality(Joined(B, TOPCOUNT))
      BY <1>2, <2>1, <2>2, <2>3, SumOfSizes
    <2>6. SumOf(f) = Cardinality(PositionsIn(Listed))
      BY <2>4, <2>5, FrequenciesCount
    <2>7. QED BY <1>1, <2>6, Shares DEF f
  <1>5. ASSUME strideValues # <<>>
        PROVE  /\ topStrideHolder.first \in Recorded
               /\ Descending(Frequencies)[1] = Share({topStrideHolder.first})
               /\ \A s \in Recorded : Share({s}) <= Share({topStrideHolder.first})
    <2> DEFINE d == topStrideHolder.first
    <2>1. /\ d \in Recorded /\ d \in Listed
          /\ \A s \in Recorded : strideValuesToCount[s] <= strideValuesToCount[d]
      <3>1. DOMAIN strideValuesToCount = Recorded
        BY <1>1, Shares
      <3>2. QED BY <1>1, <1>5, <3>1 DEF DominantIsMode
    <2>2. \A s \in Recorded : Share({s}) = strideValuesToCount[s]
      BY <1>1, Shares
    <2>3. Descending(Frequencies)[1] = Frequencies[p[1]] /\ 1 \in 1..TOPCOUNT /\ p[1] \in 1..TOPCOUNT
      BY <1>2, <1>3
    <2>4. PICK i \in DOMAIN topStrideValues : topStrideValues[i].first = d
      BY <2>1 DEF Listed
    <2>5. Frequencies[i] = Share({d}) /\ i \in 1..TOPCOUNT
      <3>1. topStrideValues[i].second = strideValuesToCount[d]
        BY <1>1, <2>4 DEF TopIsTop, TopEntriesExact
      <3>2. QED BY <2>1, <2>2, <3>1, FrequenciesCount
    <2>6. Frequencies[p[1]] <= Share({d})
      <3>1. CASE p[1] \in DOMAIN topStrideValues
        <4>1. /\ Frequencies[p[1]] = strideValuesToCount[topStrideValues[p[1]].first]
              /\ topStrideValues[p[1]].first \in DOMAIN strideValuesToCount
          BY <1>1, <3>1, FrequenciesCount DEF TopIsTop, TopEntriesExact
        <4>2. topStrideValues[p[1]].first \in Recorded
          BY <1>1, <4>1, Shares
        <4> HIDE DEF d
        <4>3. QED BY <2>1, <2>2, <4>1, <4>2
      <3>2. CASE p[1] \notin DOMAIN topStrideValues
        <4>1. Frequencies[p[1]] = Cardinality({})
          BY <2>3, <3>2, FrequenciesCount DEF Block
        <4>2. Share({d}) \in 0..Len(strideValues) /\ Len(strideValues) \in Nat
          BY <1>1, Shares DEF TypeOK
        <4>3. QED BY <4>1, <4>2, FS_EmptySet
      <3>3. QED BY <3>1, <3>2
    <2>7. Frequencies[i] <= Frequencies[p[1]]
      BY <1>3, <2>5
    <2>8. Frequencies[i] \in Nat /\ Frequencies[p[1]] \in Nat
      BY <1>2, <2>3, <2>5
    <2>9. Descending(Frequencies)[1] = Share({d})
      <3> HIDE DEF d
      <3>1. QED BY <2>3, <2>5, <2>6, <2>7, <2>8
    <2>10. \A s \in Recorded : Share({s}) <= Share({d})
      <3> HIDE DEF d
      <3>1. QED BY <2>1, <2>2
    <2>11. QED BY <2>1, <2>9, <2>10
  <1>6. QED BY <1>4, <1>5

-------------------------------------------------------------------------------
(* The class.                                                              *)

\* The ints of a loadInfo hold the strides and the numbers of a collector.
IntsFit == \A x \in Strides \cup {-1} \cup 0..MaxStrides : AsInt(x) = x

Bounded == Len(strideValues) <= MaxStrides

LEMMA BoundedStep == TypeOK /\ Bounded /\ [Next]_vars => Bounded'
  <1>1. SUFFICES ASSUME TypeOK, Bounded, [Next]_vars PROVE Bounded'
    OBVIOUS
  <1>2. strideValues \in Seq(Strides)
    BY <1>1 DEF TypeOK
  <1>3. ASSUME NEW addr \in Addresses, RecordStride(StrideTo(addr)), lastAddress # NoAddress,
               ~SameAsLast(addr)
        PROVE  Bounded'
    <2>1. StrideTo(addr) \in Strides
      BY <1>1, <1>3, StrideToRecorded
    <2>2. strideValues' = Append(strideValues, StrideTo(addr)) /\ Len(strideValues) < MaxStrides
      BY <1>3 DEF RecordStride
    <2>3. Len(strideValues') = Len(strideValues) + 1 /\ Len(strideValues) \in Nat
      BY <1>2, <2>1, <2>2
    <2>4. QED BY <2>2, <2>3, BoundsAssumption DEF Bounded
  <1>4. CASE UNCHANGED strideValues
    BY <1>1, <1>4 DEF Bounded
  <1>5. CASE Next /\ ~ UNCHANGED strideValues
    <2>1. PICK addr \in Addresses : FirstStride(addr) \/ NextStride(addr)
      BY <1>5 DEF Next, AddAddress, FirstAddress, ZeroStride, ClearAddresses, summary
    <2>2. QED BY <1>3, <2>1 DEF FirstStride, NextStride
  <1>6. QED BY <1>1, <1>4, <1>5 DEF vars

\* What the reader makes of the line.
LEMMA LineIsRead ==
  ASSUME IInv, Bounded, IntsFit
  PROVE  /\ Len(strideValues) \in Nat /\ Cardinality(RepeatPositions) \in Nat
         /\ Info.exec_count = Len(strideValues)
         /\ Info.num_zero_diff = Cardinality(RepeatPositions)
         /\ Info.dominant_stride = topStrideHolder.first
         /\ Info.top_freqs = Descending(Frequencies)
  <1>1. TypeOK /\ ZeroDifferencesExact /\ MaxStrides \in Nat
    BY BoundsAssumption DEF IInv
  <1>2. /\ DOMAIN strideValues = 1..Len(strideValues) /\ Len(strideValues) \in Nat
        /\ Cardinality(1..Len(strideValues)) = IF 1 > Len(strideValues) THEN 0
                                               ELSE Len(strideValues) - 1 + 1
        /\ IsFiniteSet(1..Len(strideValues))
    <2>1. strideValues \in Seq(Strides)
      BY <1>1 DEF TypeOK
    <2>2. DOMAIN strideValues = 1..Len(strideValues) /\ Len(strideValues) \in Nat
      BY <2>1
    <2>3. QED BY <2>2, FS_Interval
  <1>3. RepeatPositions \in SUBSET (1..Len(strideValues))
    BY <1>2 DEF RepeatPositions
  <1>4. /\ Cardinality(RepeatPositions) \in Nat
        /\ Cardinality(RepeatPositions) <= Len(strideValues)
    <2>1. /\ IsFiniteSet(RepeatPositions)
          /\ Cardinality(RepeatPositions) <= Cardinality(1..Len(strideValues))
      BY <1>2, <1>3, FS_Subset
    <2>2. Cardinality(RepeatPositions) \in Nat
      BY <2>1, FS_CardinalityType
    <2>3. Cardinality(1..Len(strideValues)) = Len(strideValues)
      BY <1>2
    <2>4. QED BY <2>1, <2>2, <2>3
  <1>5. AsInt(Len(strideValues)) = Len(strideValues)
    BY <1>1, <1>2 DEF IntsFit, Bounded
  <1>6. AsInt(strideZeroDifferenceCount) = Cardinality(RepeatPositions)
    BY <1>1, <1>2, <1>4 DEF IntsFit, Bounded, ZeroDifferencesExact
  <1>7. AsInt(topStrideHolder.first) = topStrideHolder.first
    BY <1>1 DEF IntsFit, TypeOK
  <1>8. QED
    BY <1>2, <1>4, <1>5, <1>6, <1>7
    DEF Info, LoadInfo, ProfileLine, StrideExecCount, DominantStride, Frequencies

LEMMA ClassHolds ==
  ASSUME IInv, Bounded, IntsFit, TOPCOUNT = NUM_TOP_FREQ
  PROVE  ClassIsDeserved
  <1> DEFINE n     == Len(strideValues)
             freq1 == Descending(Frequencies)[1]
             four  == SumOf(Descending(Frequencies))
             zero  == Cardinality(RepeatPositions)
  <1>1. TypeOK /\ HistogramExact /\ TopIsTop /\ TOPCOUNT \in Nat
    BY TopCountAssumption DEF IInv
  <1>2. Classify(Info) = IF n <= 0 THEN "none"
                         ELSE IF Above(freq1, n, SSST_T) THEN "SSST"
                         ELSE IF Above(four, n, PMST_T) /\ Above(zero, n, PMSTD_T) THEN "PMST"
                         ELSE IF Above(freq1, n, WSST_T) /\ Above(zero, n, WSSTD_T) THEN "WSST"
                         ELSE "none"
    BY LineIsRead DEF Classify
  <1>3. n \in Nat /\ zero \in Nat
    BY LineIsRead
  <1>4. \A S : Share(S) \in 0..n
    BY <1>1, Shares
  <1>5. CASE n <= 0
    <2>1. n = 0 /\ strideValues = <<>>
      BY <1>1, <1>3, <1>5 DEF TypeOK
    <2>2. Recorded = {}
      BY <2>1 DEF Recorded
    <2>3. \A percent \in Nat : ~OneAbove(percent)
      BY <2>2 DEF OneAbove
    <2>4. ~FewAbove(PMST_T)
      <3>1. \A S : Share(S) = 0
        BY <1>4, <2>1
      <3> HIDE DEF n
      <3>2. ~ Above(0, n, PMST_T)
        BY <2>1 DEF Above, PMST_T
      <3>3. QED BY <2>1, <3>1, <3>2 DEF FewAbove, n
    <2>5. Classify(Info) = "none"
      BY <1>2, <1>5
    <2>6. ~IsStrong /\ ~IsPhased /\ ~IsWeak
      BY <2>3, <2>4 DEF IsStrong, IsPhased, IsWeak, SSST_T, WSST_T
    <2>7. QED BY <2>5, <2>6 DEF ClassIsDeserved
  <1>6. CASE n > 0
    <2>1. /\ topStrideHolder.first \in Recorded
          /\ freq1 = Share({topStrideHolder.first})
          /\ \A s \in Recorded : Share({s}) <= freq1
          /\ four = Share(Listed)
      <3>1. strideValues # <<>>
        BY <1>6
      <3>2. QED BY <3>1, SortedFrequencies
    <2> HIDE DEF freq1, four
    <2>2. ASSUME NEW percent \in Nat
          PROVE  OneAbove(percent) <=> Above(freq1, n, percent)
      <3> DEFINE bar == percent * n
      <3>1. OneAbove(percent) <=> \E s \in Recorded : 100 * Share({s}) > bar
        BY DEF OneAbove, Above
      <3>2. Above(freq1, n, percent) <=> 100 * freq1 > bar
        BY DEF Above
      <3>3. bar \in Nat /\ freq1 \in Nat /\ \A s : Share({s}) \in Nat
        BY <1>3, <1>4, <2>1
      <3> HIDE DEF bar
      <3>4. ASSUME NEW s \in Recorded, 100 * Share({s}) > bar
            PROVE  100 * freq1 > bar
        <4>1. Share({s}) <= freq1 /\ Share({s}) \in Nat
          BY <2>1, <3>3
        <4>2. QED BY <3>3, <3>4, <4>1
      <3>5. QED BY <2>1, <3>1, <3>2, <3>4
    <2>3. FewAbove(PMST_T) <=> Above(four, n, PMST_T)
      <3>1. Listed \in SUBSET Recorded /\ Cardinality(Listed) <= NUM_TOP_FREQ
        <4>1. Cardinality(Listed) = Len(topStrideValues)
          BY <1>1, ListedCardinality DEF TopIsTop
        <4>2. Listed \subseteq DOMAIN strideValuesToCount
          BY <1>1 DEF TopIsTop, TopEntriesExact, Listed
        <4>3. QED BY <1>1, <4>1, <4>2, Shares DEF TypeOK
      <3>2. ASSUME NEW S \in SUBSET Recorded, Cardinality(S) <= NUM_TOP_FREQ,
                   Above(Share(S), n, PMST_T)
            PROVE  Above(four, n, PMST_T)
        <4>1. IsFiniteSet(S)
          <5>1. DOMAIN strideValues = 1..n /\ IsFiniteSet(1..n)
            <6>1. strideValues \in Seq(Strides)
              BY <1>1 DEF TypeOK
            <6>2. DOMAIN strideValues = 1..n
              BY <6>1
            <6> HIDE DEF n
            <6>3. QED BY <1>3, <6>2, FS_Interval
          <5> DEFINE at == [i \in DOMAIN strideValues |-> strideValues[i]]
          <5>2. at \in Surjection(DOMAIN strideValues, Recorded)
            BY DEF Surjection, Recorded
          <5>3. IsFiniteSet(Recorded)
            <6> HIDE DEF at
            <6>1. QED BY <5>1, <5>2, FS_Surjection
          <5>4. QED BY <5>3, FS_Subset
        <4>2. Share(S) <= four
          BY <2>1, <3>2, <4>1, ListedHaveMost
        <4>3. Share(S) \in Nat /\ four \in Nat
          BY <1>4, <2>1
        <4> HIDE DEF n
        <4>4. QED BY <1>3, <3>2, <4>2, <4>3 DEF Above, PMST_T
      <3>3. QED BY <2>1, <3>1, <3>2 DEF FewAbove
    <2>4. RepeatsAbove(PMSTD_T) <=> Above(zero, n, PMSTD_T)
      BY DEF RepeatsAbove
    <2>5. RepeatsAbove(WSSTD_T) <=> Above(zero, n, WSSTD_T)
      BY DEF RepeatsAbove
    <2>6. /\ OneAbove(SSST_T) <=> Above(freq1, n, SSST_T)
          /\ OneAbove(WSST_T) <=> Above(freq1, n, WSST_T)
      BY <2>2 DEF SSST_T, WSST_T
    <2>7. ~ (n <= 0)
      BY <1>3, <1>6
    <2> HIDE DEF n, zero
    <2>8. QED
      BY <1>2, <2>3, <2>4, <2>5, <2>6, <2>7
      DEF ClassIsDeserved, IsStrong, IsPhased, IsWeak
  <1>7. QED BY <1>3, <1>5, <1>6

LEMMA AlongDominantHolds ==
  ASSUME IInv, Bounded, IntsFit, TOPCOUNT = NUM_TOP_FREQ
  PROVE  StrongAlongDominant
  <1> DEFINE n == Len(strideValues)
             d == topStrideHolder.first
  <1>1. SUFFICES ASSUME Classify(Info) = "SSST"
                 PROVE  \A s \in Recorded : Above(Share({s}), n, SSST_T) <=> s = Info.dominant_stride
    BY DEF StrongAlongDominant
  <1>2. TypeOK /\ HistogramExact /\ n \in Nat /\ Info.dominant_stride = d
    BY LineIsRead DEF IInv
  <1>3. ~ (n <= 0) /\ Above(Descending(Frequencies)[1], n, SSST_T)
    BY <1>1, LineIsRead DEF Classify
  <1>4. d \in Recorded /\ Above(Share({d}), n, SSST_T)
    <2>1. strideValues # <<>>
      BY <1>2, <1>3
    <2>2. QED BY <1>3, <2>1, SortedFrequencies
  <1>5. ASSUME NEW s \in Recorded, Above(Share({s}), n, SSST_T), s # d
        PROVE  FALSE
    <2>1. PositionsIn({s}) \cap PositionsIn({d}) = {} /\ PositionsIn({s, d}) = PositionsIn({s}) \cup PositionsIn({d})
      BY <1>5 DEF PositionsIn
    <2>2. /\ IsFiniteSet(PositionsIn({s})) /\ IsFiniteSet(PositionsIn({d}))
          /\ Share({s}) = Cardinality(PositionsIn({s})) /\ Share({d}) = Cardinality(PositionsIn({d}))
          /\ Share({s, d}) = Cardinality(PositionsIn({s, d}))
          /\ Share({s}) \in 0..n /\ Share({d}) \in 0..n /\ Share({s, d}) \in 0..n
      BY <1>2, Shares
    <2>3. Cardinality(PositionsIn({s}) \cap PositionsIn({d})) = 0
      BY <2>1, FS_EmptySet
    <2>4. Share({s, d}) = Share({s}) + Share({d})
      <3>1. Cardinality(PositionsIn({s}) \cup PositionsIn({d})) =
              Cardinality(PositionsIn({s})) + Cardinality(PositionsIn({d}))
                - Cardinality(PositionsIn({s}) \cap PositionsIn({d}))
        BY <2>2, FS_Union
      <3>2. Cardinality(PositionsIn({s, d})) = Cardinality(PositionsIn({s}) \cup PositionsIn({d}))
        BY <2>1
      <3>3. Cardinality(PositionsIn({s})) \in Nat /\ Cardinality(PositionsIn({d})) \in Nat
        BY <2>2, FS_CardinalityType
      <3> HIDE DEF n, d
      <3>4. QED BY <2>2, <2>3, <3>1, <3>2, <3>3
    <2> HIDE DEF n, d
    <2>5. 100 * Share({s}) > 70 * n /\ 100 * Share({d}) > 70 * n
      BY <1>4, <1>5 DEF Above, SSST_T
    <2>6. QED BY <1>2, <1>3, <2>2, <2>4, <2>5
  <1>6. QED BY <1>2, <1>4, <1>5

LEMMA BoundedInvariance == Spec => [](IInv /\ Bounded)
  <1>1. Init => Bounded
    BY BoundsAssumption DEF Init, Bounded
  <1>2. IInv => TypeOK
    BY DEF IInv
  <1>3. QED BY <1>1, <1>2, Invariance, BoundedStep, PTL DEF Spec

\* Every reachable state of a collector prints, is read and is classified as its
\* recorded strides deserve, when a line has room for the whole list of top
\* strides, as it has (both are 4 in the code), and the numbers fit the ints.
THEOREM ClassCorrect ==
  ASSUME TOPCOUNT = NUM_TOP_FREQ, IntsFit
  PROVE  Spec => []ClassIsDeserved
  <1>1. IInv /\ Bounded => ClassIsDeserved
    BY ClassHolds
  <1>2. QED BY <1>1, BoundedInvariance, PTL

\* Every reachable state of a collector that is classified as strongly strided has
\* its dominant stride read as the only stride above the threshold.
THEOREM AlongDominantCorrect ==
  ASSUME TOPCOUNT = NUM_TOP_FREQ, IntsFit
  PROVE  Spec => []StrongAlongDominant
  <1>1. IInv /\ Bounded => StrongAlongDominant
    BY AlongDominantHolds
  <1>2. QED BY <1>1, BoundedInvariance, PTL
===============================================================================
