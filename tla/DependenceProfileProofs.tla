------------------------ MODULE DependenceProfileProofs ------------------------
(***************************************************************************)
(* Proofs about DependenceProfile and the loop stack it is filled from,    *)
(* for any loops, any depth of the stack, any size of its buffers and any  *)
(* sequence of calls.                                                      *)
(***************************************************************************)
EXTENDS DependenceProfile, FiniteSetTheorems, SequenceTheorems, WellFoundedInduction, TLAPS

-------------------------------------------------------------------------------
\* Least and greatest elements.

LEMMA LeastNatural ==
  ASSUME NEW T, T \subseteq Nat, T # {}
  PROVE  \E x \in T : \A y \in T : x <= y
<1>1. PICK x \in T : \A y \in T : ~ (<<y, x>> \in OpToRel(<, Nat))
  BY NatLessThanWellFounded, WFMin, Zenon
<1>2. \A y \in T : ~ (y < x)
  BY <1>1 DEF OpToRel
<1> QED
  BY <1>2

LEMMA GreatestNatural ==
  ASSUME NEW n \in Nat, NEW T, T \subseteq 0..n, T # {}
  PROVE  \E x \in T : \A y \in T : y <= x
<1> DEFINE gaps == {n - y : y \in T}
<1>1. gaps \subseteq Nat /\ gaps # {}
  <2>1. \A y \in T : n - y \in Nat
    OBVIOUS
  <2> QED
    BY <2>1
<1>2. PICK gap \in gaps : \A other \in gaps : gap <= other
  <2> HIDE DEF gaps
  <2> QED
    BY <1>1, LeastNatural
<1>3. PICK x \in T : gap = n - x
  OBVIOUS
<1>4. \A y \in T : n - x <= n - y
  BY <1>2, <1>3
<1> QED
  BY <1>4

-------------------------------------------------------------------------------
\* The circular buffer: what it holds and what push_back makes of it.

Times == Nat

Queues == [array : [0..(MaxDepDist - 1) -> Times], head : 0..(MaxDepDist - 1),
           tail : 0..(MaxDepDist - 1), contents_size : 0..MaxDepDist]

\* The slot n places after the head.
Slot(head, n) == IF head + n < MaxDepDist THEN head + n ELSE head + n - MaxDepDist

\* The next slot to be written comes right after the contents.
Sound(q) == q \in Queues /\ Wrapped(MaxDepDist, q.tail + 1) = Slot(q.head, q.contents_size)

\* The queue holds the last items of the sequence, as many as there is room for.
Holds(q, items) ==
  /\ q.contents_size = IF Len(items) < MaxDepDist THEN Len(items) ELSE MaxDepDist
  /\ \A n \in 0..(q.contents_size - 1) :
        q.array[Slot(q.head, n)] = items[Len(items) - q.contents_size + n + 1]

LEMMA SlotIsAt ==
  ASSUME NEW q \in Queues, NEW n \in 0..(MaxDepDist - 1)
  PROVE  At(q, MaxDepDist, n) = q.array[Slot(q.head, n)]
<1>1. MaxDepDist \in Nat /\ MaxDepDist >= 2 /\ q.head \in 0..(MaxDepDist - 1)
  BY SizesAssumption DEF Queues
<1>2. (n + q.head) % MaxDepDist = Slot(q.head, n)
  BY <1>1 DEF Slot
<1> QED
  BY <1>2 DEF At

LEMMA NewQueueSound ==
  /\ Sound(NewQueue(MaxDepDist, 0))
  /\ Holds(NewQueue(MaxDepDist, 0), <<>>)
BY SizesAssumption DEF Sound, Holds, NewQueue, Queues, Slot, Wrapped, Times

\* The member functions, field by field.
LEMMA FieldsCleared ==
  ASSUME NEW q \in Queues
  PROVE  /\ Clear(q).array = q.array /\ Clear(q).head = 1 /\ Clear(q).tail = 0
         /\ Clear(q).contents_size = 0 /\ Clear(q) \in Queues
<1>1. 1 \in 0..(MaxDepDist - 1) /\ 0 \in 0..(MaxDepDist - 1) /\ 0 \in 0..MaxDepDist
  BY SizesAssumption
<1> QED
  BY <1>1 DEF Queues, Clear

LEMMA HeadIncremented ==
  ASSUME NEW q \in Queues, q.contents_size # 0, NEW next, next = IncrementHead(q, MaxDepDist)
  PROVE  /\ next.array = q.array /\ next.tail = q.tail
         /\ next.head = Wrapped(MaxDepDist, q.head + 1)
         /\ next.contents_size = q.contents_size - 1 /\ next \in Queues
<1> DEFINE h == Wrapped(MaxDepDist, q.head + 1)
           c == q.contents_size - 1
<1>1. h \in 0..(MaxDepDist - 1) /\ c \in 0..MaxDepDist
  BY SizesAssumption DEF Queues, Wrapped
<1>2. next = [q EXCEPT !.head = h, !.contents_size = c]
  BY DEF IncrementHead
<1> HIDE DEF h, c
<1>3. /\ next.array = q.array /\ next.tail = q.tail /\ next.head = h /\ next.contents_size = c
      /\ next \in Queues
  BY <1>1, <1>2 DEF Queues
<1> QED
  BY <1>3 DEF h, c

LEMMA TailIncremented ==
  ASSUME NEW q \in Queues, q.contents_size # MaxDepDist,
         NEW next, next = IncrementTail(q, MaxDepDist)
  PROVE  /\ next.array = q.array /\ next.head = q.head
         /\ next.tail = Wrapped(MaxDepDist, q.tail + 1)
         /\ next.contents_size = q.contents_size + 1 /\ next \in Queues
<1> DEFINE t == Wrapped(MaxDepDist, q.tail + 1)
           c == q.contents_size + 1
<1>1. t \in 0..(MaxDepDist - 1) /\ c \in 0..MaxDepDist
  BY SizesAssumption DEF Queues, Wrapped
<1>2. next = [q EXCEPT !.tail = t, !.contents_size = c]
  BY DEF IncrementTail
<1> HIDE DEF t, c
<1>3. /\ next.array = q.array /\ next.head = q.head /\ next.tail = t /\ next.contents_size = c
      /\ next \in Queues
  BY <1>1, <1>2 DEF Queues
<1> QED
  BY <1>3 DEF t, c

LEMMA ClearSound ==
  ASSUME NEW q, Sound(q)
  PROVE  Sound(Clear(q)) /\ Holds(Clear(q), <<>>)
<1>1. /\ Clear(q).head = 1 /\ Clear(q).tail = 0 /\ Clear(q).contents_size = 0
      /\ Clear(q) \in Queues
  BY FieldsCleared DEF Sound
<1>2. Len(<<>>) = 0
  OBVIOUS
<1> QED
  BY <1>1, <1>2, SizesAssumption DEF Sound, Holds, Slot, Wrapped

LEMMA PushBackHolds ==
  ASSUME NEW q, Sound(q), NEW items \in Seq(Times), Holds(q, items), NEW item \in Times
  PROVE  /\ Sound(PushBack(q, MaxDepDist, item))
         /\ Holds(PushBack(q, MaxDepDist, item), Append(items, item))
<1> DEFINE D     == MaxDepDist
           size  == q.contents_size
           end   == Slot(q.head, size)
           after == PushBack(q, D, item)
           all   == Append(items, item)
<1>1. /\ D \in Nat /\ D >= 2 /\ q.head \in 0..(D - 1) /\ q.tail \in 0..(D - 1) /\ size \in 0..D
      /\ q.array \in [0..(D - 1) -> Times] /\ q \in Queues
      /\ Wrapped(D, q.tail + 1) = end
  BY SizesAssumption DEF Sound, Queues
<1>2. end \in 0..(D - 1)
  BY <1>1 DEF Slot
<1>3. /\ after.array = [q.array EXCEPT ![end] = item]
      /\ after.head = IF size = D THEN Wrapped(D, q.head + 1) ELSE q.head
      /\ after.tail = end
      /\ after.contents_size = IF size = D THEN D ELSE size + 1
      /\ after \in Queues
  <2> DEFINE put  == [q EXCEPT !.array[end] = item]
             room == IF size = D THEN IncrementHead(put, D) ELSE put
  <2>1. [q.array EXCEPT ![end] = item] \in [0..(D - 1) -> Times]
    BY <1>1, <1>2
  <2>2. /\ put.array = [q.array EXCEPT ![end] = item] /\ put.head = q.head
        /\ put.tail = q.tail /\ put.contents_size = size /\ put \in Queues
    <3> HIDE DEF end
    <3> QED
      BY <1>1, <2>1 DEF Queues
  <2>3. after = IncrementTail(room, D)
    BY <1>1 DEF PushBack
  <2> HIDE DEF put, end
  <2>4. /\ room.array = put.array /\ room.tail = put.tail /\ room \in Queues
        /\ room.head = IF size = D THEN Wrapped(D, q.head + 1) ELSE q.head
        /\ room.contents_size = IF size = D THEN D - 1 ELSE size
    BY <1>1, <2>2, HeadIncremented
  <2> HIDE DEF room
  <2>5. room.contents_size # D
    BY <1>1, <2>4
  <2>6. /\ after.array = room.array /\ after.head = room.head
        /\ after.tail = Wrapped(D, room.tail + 1)
        /\ after.contents_size = room.contents_size + 1 /\ after \in Queues
    BY <2>3, <2>4, <2>5, TailIncremented
  <2> HIDE DEF after
  <2> QED
    BY <1>1, <2>2, <2>4, <2>6
<1> HIDE DEF end, after
<1>4. Sound(after)
  <2>1. Wrapped(D, end + 1) = Slot(after.head, after.contents_size)
    <3> DEFINE h == q.head
    <3> HIDE DEF D, size, h
    <3>1. CASE size = D
      <4>1. end = h
        BY <1>1, <3>1 DEF Slot, end, D, h
      <4> QED
        BY <1>1, <1>2, <1>3, <3>1, <4>1 DEF Slot, Wrapped, D, h
    <3>2. CASE size # D
      <4>1. after.head = h /\ after.contents_size = size + 1
        BY <1>3, <3>2 DEF h
      <4>2. h \in 0..(D - 1) /\ size \in 0..(D - 1) /\ D \in Nat /\ D >= 2
        BY <1>1, <3>2 DEF h
      <4>3. end = IF h + size < D THEN h + size ELSE h + size - D
        BY DEF Slot, end, D, h
      <4>4. Wrapped(D, end + 1) = IF h + (size + 1) < D THEN h + (size + 1) ELSE h + (size + 1) - D
        BY <4>2, <4>3 DEF Wrapped
      <4> QED
        BY <4>1, <4>4 DEF Slot, D
    <3> QED
      BY <3>1, <3>2
  <2> QED
    BY <1>3, <2>1 DEF Sound
<1>4a. /\ after.array = [q.array EXCEPT ![end] = item]
       /\ after.head = IF size = D THEN Wrapped(D, q.head + 1) ELSE q.head
       /\ after.contents_size = IF size = D THEN D ELSE size + 1
  BY <1>3
<1>4b. /\ end \in 0..(D - 1) /\ after.array[end] = item
       /\ \A i \in 0..(D - 1) : i # end => after.array[i] = q.array[i]
  BY <1>1, <1>2, <1>4a
<1>5. /\ Len(items) \in Nat /\ Len(all) = Len(items) + 1 /\ all[Len(items) + 1] = item
      /\ \A k \in 1..Len(items) : all[k] = items[k]
  OBVIOUS
<1>6. /\ size = IF Len(items) < D THEN Len(items) ELSE D
      /\ \A n \in 0..(size - 1) : q.array[Slot(q.head, n)] = items[Len(items) - size + n + 1]
  BY DEF Holds
<1>7. after.contents_size = IF Len(all) < D THEN Len(all) ELSE D
  BY <1>1, <1>4a, <1>5, <1>6
<1>8. ASSUME NEW n \in 0..(after.contents_size - 1)
      PROVE  after.array[Slot(after.head, n)] = all[Len(all) - after.contents_size + n + 1]
  <2>1. CASE size = D
    <3>1. after.head = Wrapped(D, q.head + 1) /\ after.contents_size = D /\ end = q.head
      BY <1>1, <1>4a, <2>1 DEF Slot, end
    <3>2. CASE n = D - 1
      <4>1. Slot(after.head, n) = end
        BY <1>1, <3>1, <3>2 DEF Slot, Wrapped
      <4>2. Len(all) - D + n + 1 = Len(items) + 1
        BY <1>1, <1>5, <3>2
      <4> QED
        BY <1>4b, <1>5, <3>1, <4>1, <4>2
    <3>3. CASE n # D - 1
      <4>1. n + 1 \in 0..(size - 1) /\ Slot(after.head, n) = Slot(q.head, n + 1)
            /\ Slot(q.head, n + 1) # end /\ Slot(q.head, n + 1) \in 0..(D - 1)
        <5>1. n \in 0..(D - 1)
          BY <1>8, <3>1
        <5> DEFINE h == q.head
        <5>2. after.head = IF h + 1 = D THEN 0 ELSE h + 1
          BY <3>1 DEF Wrapped
        <5>3. h \in 0..(D - 1) /\ D \in Nat /\ D >= 2 /\ end = h
          BY <1>1, <3>1
        <5>4. n + 1 \in 0..(D - 1) /\ n + 1 # 0
          BY <5>1, <5>3, <3>3
        <5> HIDE DEF D, size, h
        <5>5. Slot(after.head, n) = Slot(h, n + 1)
          BY <5>1, <5>2, <5>3, <5>4 DEF Slot, D
        <5>6. Slot(h, n + 1) # h /\ Slot(h, n + 1) \in 0..(D - 1)
          BY <5>3, <5>4 DEF Slot, D
        <5> QED
          BY <2>1, <5>3, <5>4, <5>5, <5>6 DEF h
      <4>2. after.array[Slot(after.head, n)] = items[Len(items) - size + (n + 1) + 1]
        BY <1>4b, <1>6, <4>1
      <4>3. /\ Len(items) - size + (n + 1) + 1 = Len(all) - after.contents_size + n + 1
            /\ Len(items) - size + (n + 1) + 1 \in 1..Len(items)
        <5>1. n \in 0..(D - 1) /\ Len(items) >= D
          BY <1>1, <1>5, <1>6, <1>8, <2>1, <3>1
        <5> HIDE DEF D, size, all
        <5> QED
          BY <1>1, <1>5, <5>1, <2>1, <3>1, <3>3
      <4> QED
        BY <1>5, <4>2, <4>3
    <3> QED
      BY <3>2, <3>3
  <2>2. CASE size # D
    <3>1. after.head = q.head /\ after.contents_size = size + 1 /\ size = Len(items)
      BY <1>1, <1>4a, <1>5, <1>6, <2>2
    <3>2. CASE n = size
      <4>1. Slot(after.head, n) = end /\ Len(all) - after.contents_size + n + 1 = Len(items) + 1
        BY <1>1, <1>5, <3>1, <3>2 DEF end
      <4> QED
        BY <1>4b, <1>5, <4>1
    <3>3. CASE n # size
      <4>1. n \in 0..(size - 1) /\ Slot(q.head, n) # end /\ Slot(q.head, n) \in 0..(D - 1)
        BY <1>1, <2>2, <3>1, <3>3 DEF Slot, end
      <4>2. after.array[Slot(after.head, n)] = items[Len(items) - size + n + 1]
        BY <1>4b, <1>6, <3>1, <4>1
      <4>3. /\ Len(items) - size + n + 1 = Len(all) - after.contents_size + n + 1
            /\ Len(items) - size + n + 1 \in 1..Len(items)
        BY <1>1, <1>5, <3>1, <4>1
      <4> QED
        BY <1>5, <4>2, <4>3
    <3> QED
      BY <3>1, <3>2, <3>3, <1>1
  <2> QED
    BY <2>1, <2>2
<1> HIDE DEF after, all
<1>9. Holds(after, all)
  BY <1>7, <1>8 DEF Holds
<1> QED
  BY <1>4, <1>9 DEF after, all

-------------------------------------------------------------------------------
(***************************************************************************)
(* The inductive invariant: while the program runs, the level n of the     *)
(* stack is the n-th active invocation, and its buffer holds the last of   *)
(* the times the invocation iterated at, which do not decrease.            *)
(***************************************************************************)
Invocations == [loop : Nat, start : Times, iterations : Seq(Times)]
LevelInfos  == [iteration_time_stamps : Queues, invocation_time_stamp : Times, loop_id : Nat]

ProfileTypes ==
  /\ time \in Times
  /\ active \in Seq(Invocations)
  /\ loop_info \in [Levels -> LevelInfos]
  /\ lastStore # <<>> => lastStore[1].at \in Times

BuffersSound == \A l \in Levels : Sound(loop_info[l].iteration_time_stamps)

\* A depth of -1, at which no loop is active, wraps.
DepthIsActive ==
  outcome = "running" =>
    /\ Len(active) <= MaxLoopDepth
    /\ current_depth = IF Len(active) = 0 THEN DepthModulus - 1 ELSE Len(active) - 1

Linked(level, invocation) ==
  /\ level.invocation_time_stamp = invocation.start
  /\ level.loop_id = StoredId(invocation.loop)
  /\ Holds(level.iteration_time_stamps, invocation.iterations)

LevelsLinked ==
  outcome = "running" => \A n \in 1..Len(active) : Linked(loop_info[n - 1], active[n])

Sorted(times) == \A j, k \in 1..Len(times) : j <= k => times[j] <= times[k]
Before(times, now) == \A k \in 1..Len(times) : times[k] <= now

IterationsSorted ==
  \A n \in 1..Len(active) : Sorted(active[n].iterations) /\ Before(active[n].iterations, time)

\* Only the constructor enters loop 0.
RootStartsFirst == active # <<>> /\ active[1].loop = 0 => active[1].start = 0

IInv == /\ ProfileTypes /\ BuffersSound /\ DepthIsActive /\ LevelsLinked
        /\ IterationsSorted /\ RootStartsFirst /\ NoUnexpectedTimeStamp

LEMMA Depths ==
  /\ MaxLoopDepth \in Nat /\ MaxLoopDepth > 0
  /\ DepthModulus \in Nat /\ DepthModulus > MaxLoopDepth + 1
  /\ (-1) % DepthModulus = DepthModulus - 1
  /\ ((DepthModulus - 1) + 1) % DepthModulus = 0
  /\ \A d \in 0..(DepthModulus - 1) : d % DepthModulus = d
BY SizesAssumption

\* What sixteen bits hold of an id.
LEMMA StoredIdSound ==
  /\ \A loop \in Nat : StoredId(loop) \in Nat
  /\ StoredId(0) = 0
BY IdsAssumption DEF StoredId

LEMMA InitHolds == Init => IInv
<1> SUFFICES ASSUME Init PROVE IInv
  OBVIOUS
<1> USE DEF Init, LoopInit
<1> DEFINE root == [loop |-> 0, start |-> 0, iterations |-> <<>>]
<1>1. root \in Invocations /\ active = <<root>> /\ active[1] = root /\ Len(active) = 1
  BY DEF Invocations, Times
<1>2. 0 \in Levels /\ \A l \in Levels : Sound(loop_info[l].iteration_time_stamps)
  BY NewQueueSound, SizesAssumption DEF Levels
<1>3. ProfileTypes
  <2>1. [iteration_time_stamps |-> NewQueue(MaxDepDist, 0),
         invocation_time_stamp |-> 0, loop_id |-> 0] \in LevelInfos
    BY NewQueueSound DEF LevelInfos, Times, Sound
  <2> QED
    BY <1>1, <2>1 DEF ProfileTypes, Times
<1>4. DepthIsActive
  BY <1>1, Depths DEF DepthIsActive
<1>5. LevelsLinked
  BY <1>1, <1>2, NewQueueSound, StoredIdSound DEF LevelsLinked, Linked
<1>6. IterationsSorted
  BY <1>1 DEF IterationsSorted, Sorted, Before
<1> QED
  BY <1>1, <1>2, <1>3, <1>4, <1>5, <1>6
     DEF IInv, BuffersSound, RootStartsFirst, NoUnexpectedTimeStamp

\* The level a loop is entered at, field by field.
LEMMA LevelReset ==
  ASSUME NEW info \in LevelInfos, Sound(info.iteration_time_stamps),
         NEW loop \in Nat, NEW now \in Times,
         NEW invocation, invocation = [loop |-> loop, start |-> now, iterations |-> <<>>]
  PROVE  /\ Reset(info, loop, now) \in LevelInfos
         /\ Sound(Reset(info, loop, now).iteration_time_stamps)
         /\ Linked(Reset(info, loop, now), invocation)
<1> DEFINE q == Clear(info.iteration_time_stamps)
<1>1. Sound(q) /\ Holds(q, <<>>) /\ q \in Queues
  BY ClearSound DEF Sound
<1>2. Reset(info, loop, now) = [info EXCEPT !.loop_id = StoredId(loop), !.invocation_time_stamp = now,
                                            !.iteration_time_stamps = q]
  BY DEF Reset
<1> HIDE DEF q
<1>3. /\ Reset(info, loop, now) \in LevelInfos
      /\ Reset(info, loop, now).iteration_time_stamps = q
      /\ Reset(info, loop, now).loop_id = StoredId(loop)
      /\ Reset(info, loop, now).invocation_time_stamp = now
  BY <1>1, <1>2, StoredIdSound DEF LevelInfos
<1> QED
  BY <1>1, <1>3 DEF Linked

\* The level of an iteration and its invocation, field by field.
Iterate(info, now)        == [info EXCEPT !.iteration_time_stamps = PushBack(@, MaxDepDist, now)]
Iterated(invocation, now) == [invocation EXCEPT !.iterations = Append(@, now)]

LEMMA LevelIterated ==
  ASSUME NEW info \in LevelInfos, Sound(info.iteration_time_stamps), NEW now \in Times,
         NEW invocation \in Invocations, Linked(info, invocation)
  PROVE  /\ Iterate(info, now) \in LevelInfos
         /\ Sound(Iterate(info, now).iteration_time_stamps)
         /\ Iterated(invocation, now) \in Invocations
         /\ Linked(Iterate(info, now), Iterated(invocation, now))
         /\ Iterated(invocation, now).iterations = Append(invocation.iterations, now)
         /\ Iterated(invocation, now).loop = invocation.loop
         /\ Iterated(invocation, now).start = invocation.start
<1> DEFINE q == PushBack(info.iteration_time_stamps, MaxDepDist, now)
           i == Append(invocation.iterations, now)
           next == Iterate(info, now)
           same == Iterated(invocation, now)
<1>1. invocation.iterations \in Seq(Times) /\ i \in Seq(Times)
  BY DEF Invocations
<1>2. Sound(q) /\ Holds(q, i) /\ q \in Queues
  <2>1. Holds(info.iteration_time_stamps, invocation.iterations)
    BY DEF Linked
  <2>2. Sound(q) /\ Holds(q, i)
    BY <1>1, <2>1, PushBackHolds
  <2> QED
    BY <2>2 DEF Sound
<1>3. next = [info EXCEPT !.iteration_time_stamps = q] /\ same = [invocation EXCEPT !.iterations = i]
  BY DEF Iterate, Iterated
<1> HIDE DEF q, i, next, same
<1>4. /\ next \in LevelInfos /\ next.iteration_time_stamps = q
      /\ next.loop_id = info.loop_id /\ next.invocation_time_stamp = info.invocation_time_stamp
  BY <1>2, <1>3 DEF LevelInfos
<1>5. /\ same \in Invocations /\ same.iterations = i
      /\ same.loop = invocation.loop /\ same.start = invocation.start
  BY <1>1, <1>3 DEF Invocations
<1> QED
  BY <1>2, <1>4, <1>5 DEF Linked, next, same, i

LEMMA AppendKeepsSorted ==
  ASSUME NEW times \in Seq(Times), NEW now \in Times, Sorted(times), Before(times, now)
  PROVE  Sorted(Append(times, now)) /\ Before(Append(times, now), now)
<1> DEFINE all == Append(times, now)
<1>1. /\ Len(all) = Len(times) + 1 /\ all[Len(times) + 1] = now /\ Len(times) \in Nat
      /\ \A k \in 1..Len(times) : all[k] = times[k]
  OBVIOUS
<1> HIDE DEF all
<1>2. \A k \in 1..Len(all) : k \in 1..Len(times) \/ k = Len(times) + 1
  BY <1>1
<1>3. \A k \in 1..Len(all) : all[k] <= now
  BY <1>1, <1>2 DEF Before, Times
<1>4. \A j, k \in 1..Len(all) : j <= k => all[j] <= all[k]
  BY <1>1, <1>2, <1>3 DEF Sorted, Times
<1> QED
  BY <1>3, <1>4 DEF Sorted, Before, all

-------------------------------------------------------------------------------
\* Time passes, with or without a store.
LEMMA TickKeeps ==
  ASSUME IInv, Tick, (lastStore' # <<>> => lastStore'[1].at \in Times)
  PROVE  IInv'
<1> USE DEF Tick
<1>1. time \in Nat /\ time' = time + 1 /\ time' \in Times
  BY DEF IInv, ProfileTypes, Times
<1>2. ProfileTypes'
  BY <1>1 DEF IInv, ProfileTypes
<1>3. IterationsSorted'
  <2>1. ASSUME NEW n \in 1..Len(active)
        PROVE  Before(active[n].iterations, time')
    <3>1. Before(active[n].iterations, time) /\ active[n].iterations \in Seq(Times)
      <4>1. active[n] \in Invocations
        BY DEF IInv, ProfileTypes
      <4> QED
        BY <4>1 DEF IInv, IterationsSorted, Invocations
    <3>2. \A k \in 1..Len(active[n].iterations) : active[n].iterations[k] \in Nat
      BY <3>1 DEF Times
    <3> QED
      BY <1>1, <3>1, <3>2 DEF Before
  <2> QED
    BY <2>1 DEF IInv, IterationsSorted
<1> QED
  BY <1>2, <1>3 DEF IInv, BuffersSound, DepthIsActive, LevelsLinked, RootStartsFirst,
     NoUnexpectedTimeStamp

LEMMA EnterKeeps ==
  ASSUME IInv, NEW loop \in LoopIds, EnterLoop(loop), UNCHANGED lastStore
  PROVE  IInv'
<1> DEFINE depth == (current_depth + 1) % DepthModulus
           invocation == [loop |-> loop, start |-> time, iterations |-> <<>>]
           L == Len(active)
<1>1. /\ outcome = "running" /\ time' = time /\ time \in Times /\ loop \in Nat /\ loop # 0
      /\ current_depth' = depth /\ active \in Seq(Invocations) /\ L \in Nat
      /\ loop_info \in [Levels -> LevelInfos]
  BY LoopIdsAssumption DEF EnterLoop, LoopEvent, IInv, ProfileTypes
<1>2. depth = L /\ L <= MaxLoopDepth
  <2>1. /\ L <= MaxLoopDepth
        /\ current_depth = IF L = 0 THEN DepthModulus - 1 ELSE L - 1
    BY <1>1 DEF IInv, DepthIsActive
  <2> HIDE DEF L
  <2>2. CASE L = 0
    BY <2>1, <2>2, Depths
  <2>3. CASE L # 0
    <3>1. current_depth + 1 = L /\ L \in 0..(DepthModulus - 1)
      BY <1>1, <2>1, <2>3, Depths
    <3> QED
      BY <2>1, <3>1, Depths
  <2> QED
    BY <2>2, <2>3
<1>3. CASE depth \notin Levels
  <2>1. /\ outcome' = "out_of_range"
        /\ UNCHANGED <<loop_info, max_depth, active, time, lastStore>>
    BY <1>3 DEF EnterLoop, LoopEvent
  <2> QED
    BY <2>1 DEF IInv, ProfileTypes, BuffersSound, DepthIsActive, LevelsLinked, IterationsSorted,
       RootStartsFirst, NoUnexpectedTimeStamp
<1>4. CASE depth \in Levels
  <2> DEFINE level == Reset(loop_info[depth], loop, time)
  <2>1. /\ loop_info' = [loop_info EXCEPT ![depth] = level]
        /\ active' = Append(active, invocation) /\ outcome' = "running"
    BY <1>1, <1>4 DEF EnterLoop
  <2>2. /\ level \in LevelInfos /\ Sound(level.iteration_time_stamps)
        /\ Linked(level, invocation)
    <3>1. loop_info[depth] \in LevelInfos /\ Sound(loop_info[depth].iteration_time_stamps)
      BY <1>1, <1>4 DEF IInv, BuffersSound
    <3> HIDE DEF depth, invocation
    <3> QED
      BY <1>1, <3>1, LevelReset DEF invocation
  <2>3. invocation \in Invocations
    BY <1>1 DEF Invocations, Times
  <2> HIDE DEF level, depth, invocation, L
  <2>4. /\ active' \in Seq(Invocations) /\ Len(active') = L + 1 /\ active'[L + 1] = invocation
        /\ \A n \in 1..L : active'[n] = active[n]
    BY <1>1, <2>1, <2>3 DEF L
  <2>5. /\ loop_info' \in [Levels -> LevelInfos] /\ loop_info'[depth] = level
        /\ \A l \in Levels : l # depth => loop_info'[l] = loop_info[l]
    BY <1>1, <1>4, <2>1, <2>2
  <2>6. L < MaxLoopDepth
    BY <1>1, <1>2, <1>4, Depths DEF Levels
  <2>7. ProfileTypes'
    BY <1>1, <2>4, <2>5 DEF IInv, ProfileTypes
  <2>8. BuffersSound'
    BY <2>2, <2>5 DEF IInv, BuffersSound
  <2>9. DepthIsActive'
    BY <1>1, <1>2, <2>4, <2>6, Depths DEF DepthIsActive
  <2>10. LevelsLinked'
    <3>1. ASSUME NEW n \in 1..(L + 1)
          PROVE  Linked(loop_info'[n - 1], active'[n])
      <4>1. CASE n = L + 1
        BY <1>1, <1>2, <2>2, <2>4, <2>5, <4>1
      <4>2. CASE n # L + 1
        <5>1. n \in 1..L /\ n - 1 \in Levels /\ n - 1 # depth
          BY <1>1, <1>2, <2>6, <4>2, Depths DEF Levels
        <5>2. Linked(loop_info[n - 1], active[n])
          BY <1>1, <5>1 DEF IInv, LevelsLinked, L
        <5> QED
          BY <2>4, <2>5, <5>1, <5>2
      <4> QED
        BY <4>1, <4>2
    <3> QED
      BY <2>4, <3>1 DEF LevelsLinked
  <2>11. IterationsSorted'
    <3>1. ASSUME NEW n \in 1..(L + 1)
          PROVE  Sorted(active'[n].iterations) /\ Before(active'[n].iterations, time)
      <4>1. CASE n = L + 1
        <5>1. active'[n].iterations = <<>>
          BY <2>4, <4>1 DEF invocation
        <5> QED
          BY <5>1 DEF Sorted, Before
      <4>2. CASE n # L + 1
        <5>1. n \in 1..L
          BY <1>1, <4>2
        <5> QED
          BY <2>4, <5>1 DEF IInv, IterationsSorted, L
      <4> QED
        BY <4>1, <4>2
    <3> QED
      BY <1>1, <2>4, <3>1 DEF IterationsSorted
  <2>12. RootStartsFirst'
    <3>1. CASE L = 0
      BY <1>1, <2>4, <3>1 DEF RootStartsFirst, invocation
    <3>2. CASE L # 0
      <4>1. active'[1] = active[1] /\ active # <<>>
        BY <1>1, <2>4, <3>2 DEF L
      <4> QED
        BY <4>1 DEF IInv, RootStartsFirst
    <3> QED
      BY <3>1, <3>2
  <2>13. NoUnexpectedTimeStamp'
    BY <2>1 DEF NoUnexpectedTimeStamp
  <2> QED
    BY <2>7, <2>8, <2>9, <2>10, <2>11, <2>12, <2>13 DEF IInv
<1> QED
  BY <1>3, <1>4

LEMMA ExitKeeps ==
  ASSUME IInv, ExitLoop, UNCHANGED lastStore
  PROVE  IInv'
<1> DEFINE L == Len(active)
<1>1. /\ outcome = "running" /\ outcome' = outcome /\ time' = time /\ loop_info' = loop_info
      /\ active \in Seq(Invocations) /\ active # <<>>
      /\ active' = SubSeq(active, 1, L - 1)
      /\ current_depth' = (current_depth - 1) % DepthModulus
  BY DEF ExitLoop, LoopEvent, IInv, ProfileTypes
<1>2. L \in Nat /\ L # 0 /\ L <= MaxLoopDepth /\ current_depth = L - 1
  BY <1>1 DEF IInv, DepthIsActive
<1>3. /\ active' \in Seq(Invocations) /\ Len(active') = L - 1
      /\ \A n \in 1..(L - 1) : active'[n] = active[n]
  BY <1>1, <1>2
<1> HIDE DEF L
<1>4. ProfileTypes'
  BY <1>1, <1>3 DEF IInv, ProfileTypes
<1>5. DepthIsActive'
  <2>1. CASE L = 1
    BY <1>1, <1>2, <1>3, <2>1, Depths DEF DepthIsActive
  <2>2. CASE L # 1
    <3>1. current_depth - 1 = L - 2 /\ L - 2 \in 0..(DepthModulus - 1)
      BY <1>2, <2>2, Depths
    <3>2. current_depth' = L - 2
      BY <1>1, <3>1, Depths
    <3> QED
      BY <1>2, <1>3, <2>2, <3>2, Depths DEF DepthIsActive
  <2> QED
    BY <2>1, <2>2
<1>6. \A n \in 1..Len(active') : n \in 1..L /\ active'[n] = active[n]
  BY <1>2, <1>3
<1>7. LevelsLinked' /\ IterationsSorted'
  BY <1>1, <1>6 DEF IInv, LevelsLinked, IterationsSorted, L
<1>8. RootStartsFirst'
  <2>1. active' # <<>> => active'[1] = active[1]
    BY <1>2, <1>3
  <2> QED
    BY <1>1, <2>1 DEF IInv, RootStartsFirst
<1> QED
  BY <1>1, <1>4, <1>5, <1>7, <1>8 DEF IInv, BuffersSound, NoUnexpectedTimeStamp

LEMMA IterationKeeps ==
  ASSUME IInv, LoopIteration, UNCHANGED lastStore
  PROVE  IInv'
<1> DEFINE L == Len(active)
<1>1. /\ outcome = "running" /\ time' = time /\ time \in Times /\ current_depth' = current_depth
      /\ active \in Seq(Invocations) /\ L \in Nat /\ loop_info \in [Levels -> LevelInfos]
      /\ L <= MaxLoopDepth
      /\ current_depth = IF L = 0 THEN DepthModulus - 1 ELSE L - 1
  BY DEF LoopIteration, LoopEvent, IInv, ProfileTypes, DepthIsActive
<1>2. CASE current_depth \notin Levels
  <2>1. /\ outcome' = "out_of_range"
        /\ UNCHANGED <<loop_info, active, time, lastStore>>
    BY <1>2 DEF LoopIteration, LoopEvent
  <2> QED
    BY <2>1 DEF IInv, ProfileTypes, BuffersSound, DepthIsActive, LevelsLinked, IterationsSorted,
       RootStartsFirst, NoUnexpectedTimeStamp
<1>3. CASE current_depth \in Levels
  <2>1. L # 0 /\ current_depth = L - 1
    <3> HIDE DEF L
    <3> QED
      BY <1>1, <1>3, Depths DEF Levels
  <2> DEFINE level == Iterate(loop_info[L - 1], time)
             same  == Iterated(active[L], time)
  <2>2. /\ loop_info' = [loop_info EXCEPT ![L - 1] = level]
        /\ active' = [active EXCEPT ![L] = same]
        /\ outcome' = "running"
    BY <1>1, <1>3, <2>1 DEF LoopIteration, Iterate, Iterated
  <2>3. /\ loop_info[L - 1] \in LevelInfos /\ active[L] \in Invocations
        /\ Sound(loop_info[L - 1].iteration_time_stamps)
        /\ Linked(loop_info[L - 1], active[L])
        /\ Sorted(active[L].iterations) /\ Before(active[L].iterations, time)
    <3>1. L \in 1..L /\ L - 1 \in Levels
      BY <1>1, <1>3, <2>1
    <3> QED
      BY <1>1, <3>1 DEF IInv, BuffersSound, LevelsLinked, IterationsSorted
  <2>4. /\ level \in LevelInfos /\ Sound(level.iteration_time_stamps)
        /\ same \in Invocations /\ Linked(level, same)
        /\ same.iterations = Append(active[L].iterations, time)
        /\ same.loop = active[L].loop /\ same.start = active[L].start
    BY <1>1, <2>3, LevelIterated
  <2>5. Sorted(same.iterations) /\ Before(same.iterations, time)
    <3>1. active[L].iterations \in Seq(Times)
      BY <2>3 DEF Invocations
    <3> HIDE DEF same
    <3> QED
      BY <1>1, <2>3, <2>4, <3>1, AppendKeepsSorted
  <2> HIDE DEF level, same
  <2>6. /\ active' \in Seq(Invocations) /\ Len(active') = L /\ active'[L] = same
        /\ \A n \in 1..L : n # L => active'[n] = active[n]
    BY <1>1, <2>1, <2>2, <2>4
  <2>7. /\ loop_info' \in [Levels -> LevelInfos] /\ loop_info'[L - 1] = level
        /\ \A l \in Levels : l # L - 1 => loop_info'[l] = loop_info[l]
    BY <1>1, <1>3, <2>1, <2>2, <2>4
  <2>8. ProfileTypes'
    BY <1>1, <2>6, <2>7 DEF IInv, ProfileTypes
  <2>9. BuffersSound'
    BY <2>4, <2>7 DEF IInv, BuffersSound
  <2>10. DepthIsActive'
    BY <1>1, <2>6 DEF DepthIsActive
  <2>11. LevelsLinked'
    <3>1. ASSUME NEW n \in 1..L
          PROVE  Linked(loop_info'[n - 1], active'[n])
      <4>1. CASE n = L
        BY <2>4, <2>6, <2>7, <4>1
      <4>2. CASE n # L
        <5>1. n - 1 \in Levels /\ n - 1 # L - 1
          BY <1>1, <4>2, Depths DEF Levels
        <5> QED
          BY <1>1, <2>6, <2>7, <4>2, <5>1 DEF IInv, LevelsLinked
      <4> QED
        BY <4>1, <4>2
    <3> QED
      BY <2>6, <3>1 DEF LevelsLinked
  <2>12. IterationsSorted'
    <3>1. ASSUME NEW n \in 1..L
          PROVE  Sorted(active'[n].iterations) /\ Before(active'[n].iterations, time)
      BY <2>5, <2>6 DEF IInv, IterationsSorted
    <3> QED
      BY <1>1, <2>6, <3>1 DEF IterationsSorted
  <2>13. RootStartsFirst'
    <3>1. active # <<>> /\ active'[1].loop = active[1].loop /\ active'[1].start = active[1].start
      BY <1>1, <2>1, <2>4, <2>6
    <3> QED
      BY <3>1 DEF IInv, RootStartsFirst
  <2>14. NoUnexpectedTimeStamp'
    BY <2>2 DEF NoUnexpectedTimeStamp
  <2> QED
    BY <2>8, <2>9, <2>10, <2>11, <2>12, <2>13, <2>14 DEF IInv
<1> QED
  BY <1>2, <1>3

\* findLoop does not abort while the program's own level is active.
LEMMA LoadKeeps ==
  ASSUME IInv, NEW load \in Loads, NEW value \in Values, Load(load, value)
  PROVE  IInv'
<1> DEFINE at == lastStore[1].at
<1>1. /\ outcome = "running" /\ current_depth \in Levels /\ lastStore # <<>>
      /\ UNCHANGED <<loop_info, current_depth, time, active, lastStore>>
      /\ \/ Unexpected(at) /\ outcome' = "abort"
         \/ UNCHANGED outcome
  BY DEF Load
<1>2. at \in Nat
  BY <1>1 DEF IInv, ProfileTypes, Times
<1>3. ASSUME Unexpected(at), active # <<>>, active[1].loop = 0
      PROVE  FALSE
  <2>1. active \in Seq(Invocations) /\ 1 \in 1..Len(active)
    BY <1>3 DEF IInv, ProfileTypes
  <2>2. Linked(loop_info[1 - 1], active[1])
    BY <1>1, <2>1 DEF IInv, LevelsLinked
  <2>3. loop_info[0].invocation_time_stamp = 0
    BY <1>3, <2>2 DEF IInv, RootStartsFirst, Linked
  <2> HIDE DEF at
  <2> QED
    BY <1>2, <1>3, <2>3 DEF Unexpected
<1>4. NoUnexpectedTimeStamp'
  BY <1>1, <1>3 DEF NoUnexpectedTimeStamp
<1>5. DepthIsActive' /\ LevelsLinked'
  BY <1>1 DEF IInv, DepthIsActive, LevelsLinked
<1>6. ProfileTypes' /\ BuffersSound' /\ IterationsSorted' /\ RootStartsFirst'
  BY <1>1 DEF IInv, ProfileTypes, BuffersSound, IterationsSorted, RootStartsFirst
<1> QED
  BY <1>4, <1>5, <1>6 DEF IInv

LEMMA NextKeeps == IInv /\ [Next]_vars => IInv'
<1> SUFFICES ASSUME IInv, [Next]_vars PROVE IInv'
  OBVIOUS
<1>1. CASE UNCHANGED vars
  BY <1>1 DEF vars, loopVars, IInv, ProfileTypes, BuffersSound, DepthIsActive, LevelsLinked,
     IterationsSorted, RootStartsFirst, NoUnexpectedTimeStamp
<1>2. ASSUME NEW store \in Stores, Store(store)
      PROVE  IInv'
  <2>1. Tick /\ lastStore' = << [store |-> store, at |-> time'] >>
    BY <1>2 DEF Store
  <2>2. time' \in Times
    BY <2>1 DEF Tick, IInv, ProfileTypes, Times
  <2> QED
    BY <2>1, <2>2, TickKeeps
<1>3. CASE LoopStep
  <2>1. LoopNext /\ UNCHANGED lastStore
    BY <1>3 DEF LoopStep
  <2>2. CASE Tick
    BY <2>1, <2>2, TickKeeps DEF IInv, ProfileTypes
  <2> QED
    BY <2>1, <2>2, EnterKeeps, ExitKeeps, IterationKeeps DEF LoopNext
<1> QED
  BY <1>1, <1>2, <1>3, LoadKeeps DEF Next

\* In every reachable state the entries of the loop stack mirror the loops the
\* program is in, and their time stamps are the times of the events.
THEOREM LoopStackInvariant == Spec => []IInv
BY InitHolds, NextKeeps, PTL DEF Spec

\* While the program's own level is active findLoop never meets a store older
\* than all the loops, so its abort is out of reach: every level is its
\* invocation's, and that of the program began at time 0.
THEOREM NeverUnexpected == Spec => []NoUnexpectedTimeStamp
<1>1. IInv => NoUnexpectedTimeStamp
  BY DEF IInv
<1> QED
  BY <1>1, LoopStackInvariant, PTL

-------------------------------------------------------------------------------
\* The level findLoop chooses.
LEMMA InnermostOf ==
  ASSUME IInv, outcome = "running", active # <<>>, NEW store \in Times, store # 0
  PROVE  LET before == {n \in 1..Len(active) : active[n].start < store}
             level  == FindLoop(store)
         IN  /\ level \in 0..(Len(active) - 1)
             /\ level + 1 \in before \/ (before = {} /\ level = 0)
             /\ \A n \in before : n <= level + 1
             /\ loop_info[level].loop_id = StoredId(active[level + 1].loop)
<1> DEFINE before == {n \in 1..Len(active) : active[n].start < store}
           level  == FindLoop(store)
           L      == Len(active)
           found  == EnteredBefore(store)
<1>1. /\ L \in Nat /\ L # 0 /\ current_depth = L - 1
      /\ \A n \in 1..L : Linked(loop_info[n - 1], active[n])
  BY DEF IInv, ProfileTypes, DepthIsActive, LevelsLinked
<1>2. \A l \in 0..(L - 1) : loop_info[l].invocation_time_stamp = active[l + 1].start
                            /\ loop_info[l].loop_id = StoredId(active[l + 1].loop)
  <2>1. ASSUME NEW l \in 0..(L - 1)
        PROVE  Linked(loop_info[l], active[l + 1])
    <3>1. l + 1 \in 1..L /\ (l + 1) - 1 = l
      BY <1>1
    <3> QED
      BY <1>1, <3>1
  <2> QED
    BY <2>1 DEF Linked
<1>3. found = {l \in 1..(L - 1) : active[l + 1].start < store}
  <2>1. \A l \in 1..(L - 1) : loop_info[l].invocation_time_stamp = active[l + 1].start
    BY <1>1, <1>2
  <2> QED
    BY <1>1, <2>1 DEF EnteredBefore
<1> HIDE DEF L, found
<1>4. \A n \in before : n = 1 \/ n - 1 \in found
  <2>1. ASSUME NEW n \in before, n # 1 PROVE n - 1 \in found
    <3>1. n \in 1..L /\ active[n].start < store
      BY DEF L
    <3>2. n - 1 \in 1..(L - 1) /\ (n - 1) + 1 = n
      BY <1>1, <2>1, <3>1
    <3> QED
      BY <1>3, <3>1, <3>2
  <2> QED
    BY <2>1
<1>5. \A l \in found : l + 1 \in before
  <2>1. ASSUME NEW l \in found PROVE l + 1 \in 1..L /\ active[l + 1].start < store
    BY <1>1, <1>3
  <2> QED
    BY <2>1 DEF L
<1>6. CASE found = {}
  <2>1. level = 0
    BY <1>6 DEF FindLoop, found
  <2>2. \A n \in before : n = 1
    BY <1>4, <1>6
  <2> HIDE DEF level, before
  <2>3. level \in 0..(L - 1) /\ (before = {} \/ level + 1 \in before)
        /\ \A n \in before : n <= level + 1
    BY <1>1, <2>1, <2>2
  <2> QED
    BY <1>2, <2>1, <2>3 DEF level, before, L
<1>7. CASE found # {}
  <2>1. level = CHOOSE l \in found : \A m \in found : m <= l
    BY <1>7 DEF FindLoop, found
  <2>2. \E l \in found : \A m \in found : m <= l
    <3>1. found \subseteq 0..(L - 1) /\ L - 1 \in Nat
      BY <1>1, <1>3
    <3> QED
      BY <1>7, <3>1, GreatestNatural
  <2> HIDE DEF level, before
  <2>3. level \in found /\ \A m \in found : m <= level
    BY <2>1, <2>2, Zenon
  <2>4. level \in 0..(L - 1) /\ level \in 1..(L - 1)
    BY <1>1, <1>3, <2>3
  <2>5. \A n \in before : n <= level + 1
    <3>1. \A n \in before : n \in Nat
      BY DEF before
    <3> QED
      BY <1>4, <2>3, <2>4, <3>1
  <2> QED
    BY <1>2, <1>5, <2>3, <2>4, <2>5 DEF level, before, L
<1> QED
  BY <1>6, <1>7

\* A store is found in the innermost active loop entered before it, whatever
\* loops used the levels before: a level is reset when a loop is entered at it.
\* The loop_id found is what the field holds of the loop's id.
THEOREM InnermostFound == Spec => []InnermostLoopFound
<1>1. IInv => InnermostLoopFound
  <2> SUFFICES ASSUME IInv, outcome = "running", active # <<>>, NEW store \in 1..time
               PROVE  LET before == {n \in 1..Len(active) : active[n].start < store}
                          level  == FindLoop(store)
                      IN  /\ level + 1 \in before \/ (before = {} /\ level = 0)
                          /\ \A n \in before : n <= level + 1
                          /\ loop_info[level].loop_id = StoredId(active[level + 1].loop)
    BY DEF InnermostLoopFound
  <2>1. store \in Times /\ store # 0
    BY DEF IInv, ProfileTypes, Times
  <2> QED
    BY <2>1, InnermostOf
<1> QED
  BY <1>1, LoopStackInvariant, PTL

\* The last times of an invocation, counted from the window its buffer holds:
\* the latest that is not after the store is just before the earliest that is.
LEMMA DistanceOfWindow ==
  ASSUME NEW times \in Seq(Times), Sorted(times), NEW store \in Times, NEW level,
         loop_info[level].iteration_time_stamps \in Queues,
         Holds(loop_info[level].iteration_time_stamps, times)
  PROVE  LET later == {k \in 1..Len(times) : times[k] > store}
             count == IF later = {} THEN 0
                      ELSE Len(times) + 1 - (CHOOSE k \in later : \A j \in later : k <= j)
         IN  CalculateDistance(level, store) = IF count < MaxDepDist THEN count ELSE MaxDepDist
<1> DEFINE q      == loop_info[level].iteration_time_stamps
           later  == {k \in 1..Len(times) : times[k] > store}
           first  == CHOOSE k \in later : \A j \in later : k <= j
           count  == IF later = {} THEN 0 ELSE Len(times) + 1 - first
           L      == Len(times)
           size   == q.contents_size
           window == Contents(q, MaxDepDist)
           early  == {n \in 1..Len(window) : window[n] <= store}
           last   == CHOOSE n \in early : \A k \in early : k <= n
           D      == MaxDepDist
<1>1. /\ L \in Nat /\ D \in Nat /\ D >= 2 /\ size \in 0..D
      /\ size = (IF L < D THEN L ELSE D)
      /\ \A k \in 1..L : times[k] \in Nat
  <2>1. D \in Nat /\ D >= 2 /\ size \in 0..D
    BY SizesAssumption DEF Queues
  <2> QED
    BY <2>1 DEF Holds, Times
<1>2. Len(window) = size /\ \A n \in 1..size : window[n] = times[L - size + n]
  <2>1. Len(window) = size
    BY <1>1 DEF Contents
  <2>2. ASSUME NEW n \in 1..size
        PROVE  window[n] = times[L - size + n]
    <3>1. n - 1 \in 0..(size - 1) /\ n - 1 \in 0..(MaxDepDist - 1) /\ (n - 1) + 1 = n
      BY <1>1
    <3>2. window[n] = At(q, MaxDepDist, n - 1)
      BY DEF Contents
    <3>3. At(q, MaxDepDist, n - 1) = q.array[Slot(q.head, n - 1)]
      BY <3>1, SlotIsAt
    <3>4. q.array[Slot(q.head, n - 1)] = times[L - size + (n - 1) + 1]
      BY <3>1 DEF Holds
    <3>5. L - size + (n - 1) + 1 = L - size + n
      BY <1>1
    <3> QED
      BY <3>2, <3>3, <3>4, <3>5
  <2> QED
    BY <2>1, <2>2
<1>3. CalculateDistance(level, store) = IF early = {} THEN size ELSE size - last
  <2>1. CalculateDistance(level, store)
          = IF early = {} THEN Len(window) ELSE Len(window) - last
    BY Zenon DEF CalculateDistance
  <2> QED
    BY <1>2, <2>1
<1>4. \A j, k \in 1..L : j <= k => times[j] <= times[k]
  BY DEF Sorted
<1> HIDE DEF L, size, window, D, q
<1>5. \A n \in 1..size : L - size + n \in 1..L
  BY <1>1
<1>6. later = {k \in 1..L : times[k] > store}
      /\ early = {n \in 1..size : times[L - size + n] <= store}
  BY <1>2 DEF L
<1>7. later # {} => first \in later /\ \A j \in later : first <= j
  <2>1. later \subseteq Nat
    BY <1>6
  <2> HIDE DEF later
  <2>2. ASSUME later # {} PROVE \E k \in later : \A j \in later : k <= j
    BY <2>1, <2>2, LeastNatural
  <2> QED
    BY <2>2, Zenon
<1>8. early # {} => last \in early /\ \A k \in early : k <= last
  <2>1. early \subseteq 0..size /\ size \in Nat
    BY <1>1, <1>6
  <2> HIDE DEF early
  <2>2. ASSUME early # {} PROVE \E n \in early : \A k \in early : k <= n
    BY <2>1, <2>2, GreatestNatural
  <2> QED
    BY <2>2, Zenon
<1> HIDE DEF later, early, first, last
<1>9. count = IF later = {} THEN 0 ELSE L + 1 - first
  BY DEF L
<1> HIDE DEF count
<1>10. \A n \in 1..size : n \in early \/ L - size + n \in later
  BY <1>1, <1>5, <1>6 DEF Times
<1>11. ASSUME early = {}
       PROVE  CalculateDistance(level, store) = IF count < D THEN count ELSE D
  <2>1. CASE size = 0
    <3>1. later = {}
      BY <1>1, <1>6, <2>1
    <3> QED
      BY <1>1, <1>3, <1>9, <1>11, <2>1, <3>1
  <2>2. CASE size # 0
    <3>1. L - size + 1 \in later
      BY <1>1, <1>10, <1>11, <2>2
    <3>2. first \in 1..L /\ first <= L - size + 1
      BY <1>6, <1>7, <3>1
    <3>3. count = L + 1 - first /\ count >= size
      BY <1>1, <1>9, <3>1, <3>2
    <3> QED
      BY <1>1, <1>3, <1>11, <3>2, <3>3
  <2> QED
    BY <2>1, <2>2
<1>12. ASSUME early # {}
       PROVE  CalculateDistance(level, store) = IF count < D THEN count ELSE D
  <2>1. last \in 1..size /\ times[L - size + last] <= store
    BY <1>6, <1>8, <1>12
  <2>2. \A j \in 1..(L - size + last) : j \notin later
    <3>1. ASSUME NEW j \in 1..(L - size + last), j \in later PROVE FALSE
      <4>1. j \in 1..L /\ L - size + last \in 1..L /\ times[j] > store
        BY <1>5, <1>6, <2>1, <3>1
      <4>2. times[j] <= times[L - size + last]
        BY <1>4, <4>1
      <4>3. times[j] \in Nat /\ times[L - size + last] \in Nat /\ store \in Nat
        BY <1>1, <4>1 DEF Times
      <4> QED
        BY <2>1, <4>1, <4>2, <4>3
    <3> QED
      BY <3>1
  <2>3. CASE last = size
    <3>1. later = {}
      <4>1. \A j \in later : j \in 1..L
        BY <1>6
      <4>2. L - size + last = L
        BY <1>1, <2>3
      <4> QED
        BY <2>2, <4>1, <4>2
    <3> QED
      BY <1>1, <1>3, <1>9, <1>12, <2>3, <3>1
  <2>4. CASE last # size
    <3>1. last + 1 \in 1..size /\ last + 1 \notin early
      <4>1. last + 1 \in 1..size
        BY <1>1, <2>1, <2>4
      <4>2. ~ (last + 1 <= last)
        BY <2>1
      <4> QED
        BY <1>8, <1>12, <4>1, <4>2
    <3>2. L - size + (last + 1) \in later
      BY <1>10, <3>1
    <3>3. first \in 1..L /\ first <= L - size + (last + 1) /\ first \notin 1..(L - size + last)
      BY <1>6, <1>7, <2>2, <3>2
    <3>4. first = L - size + (last + 1)
      BY <1>1, <2>1, <3>3
    <3>5. count = size - last /\ count < D
      BY <1>1, <1>9, <2>1, <3>2, <3>4
    <3> QED
      BY <1>3, <1>12, <3>5
  <2> QED
    BY <2>3, <2>4
<1> QED
  BY <1>11, <1>12, Zenon DEF count, later, first, D, L

\* The distance is the number of iterations the loop began after the store, all
\* of the invocation's and none of an earlier one's, up to MaxDepDist: what
\* calculateDistance reads of the circular buffer is the end of the invocation's
\* iterations.
THEOREM DistancesAreExact == Spec => []DistanceExact
<1>1. IInv => DistanceExact
  <2> SUFFICES ASSUME IInv, outcome = "running", active # <<>>,
                      NEW store \in 1..time, NEW n \in 1..Len(active)
               PROVE  LET later == {k \in 1..Len(active[n].iterations) :
                                       active[n].iterations[k] > store}
                          count == IF later = {} THEN 0
                                   ELSE Len(active[n].iterations) + 1
                                        - (CHOOSE k \in later : \A j \in later : k <= j)
                      IN  CalculateDistance(n - 1, store)
                            = IF count < MaxDepDist THEN count ELSE MaxDepDist
    BY DEF DistanceExact
  <2>1. store \in Times
    BY DEF IInv, ProfileTypes, Times
  <2>2. active[n] \in Invocations /\ n - 1 \in Levels
    <3>1. active \in Seq(Invocations) /\ Len(active) <= MaxLoopDepth
      BY DEF IInv, ProfileTypes, DepthIsActive
    <3> QED
      BY <3>1, Depths DEF Levels
  <2>3. active[n].iterations \in Seq(Times) /\ Sorted(active[n].iterations)
    BY <2>2 DEF Invocations, IInv, IterationsSorted
  <2>4. loop_info[n - 1].iteration_time_stamps \in Queues
        /\ Holds(loop_info[n - 1].iteration_time_stamps, active[n].iterations)
    BY <2>2 DEF IInv, BuffersSound, Sound, LevelsLinked, Linked
  <2> QED
    BY <2>1, <2>3, <2>4, DistanceOfWindow
<1> QED
  BY <1>1, LoopStackInvariant, PTL

-------------------------------------------------------------------------------
(***************************************************************************)
(* The entries.  K is the set of positions of the recorded dependences an  *)
(* entry stands for.  Its slots hold the values in the order of their      *)
(* first uses, each with all its uses, and a value has no slot only if the *)
(* table was full before its first use.                                    *)
(***************************************************************************)
Slot0      == [value |-> 0, count |-> 0]
ValueSlots == [value : Nat, count : Nat]
Entries    == [loop : Nat, count : Nat, values : [1..MAX_VALUES -> ValueSlots]]

Dependences == [load : Loads, dist : Nat, store : Stores, loop : Nat, value : Values]

UsesIn(rec, K, v) == {k \in K : rec[k].value = v}
FirstUse(rec, K, v) == FirstOf(UsesIn(rec, K, v))

SlotsHold(slots, rec, K, m) ==
  /\ \A i \in 1..MAX_VALUES : i > m => slots[i] = Slot0
  /\ \A i \in 1..m : /\ UsesIn(rec, K, slots[i].value) # {}
                     /\ slots[i].count = Cardinality(UsesIn(rec, K, slots[i].value))
  /\ \A i, j \in 1..m : slots[i].value = slots[j].value => i = j
  /\ \A k \in K : \/ \E i \in 1..m : slots[i].value = rec[k].value
                  \/ m = MAX_VALUES /\ \A i \in 1..m : FirstUse(rec, K, slots[i].value) < k

EntryHolds(e, rec, K) ==
  /\ e.count = Cardinality(K)
  /\ K # {} => e.loop = rec[FirstOf(K)].loop
  /\ \E m \in 0..MAX_VALUES : SlotsHold(e.values, rec, K, m)

LEMMA FirstIs ==
  ASSUME NEW K, K \subseteq Nat, K # {}
  PROVE  FirstOf(K) \in K /\ \A j \in K : FirstOf(K) <= j
<1>1. \E i \in K : \A j \in K : i <= j
  BY LeastNatural
<1> QED
  BY <1>1, Zenon DEF FirstOf

\* A later element changes neither the first one nor, but by one, the size.
LEMMA FirstStays ==
  ASSUME NEW n \in Nat, NEW K, K \subseteq 1..n
  PROVE  /\ IsFiniteSet(K) /\ Cardinality(K) \in Nat
         /\ K # {} => FirstOf(K \cup {n + 1}) = FirstOf(K)
         /\ FirstOf({n + 1}) = n + 1
         /\ Cardinality(K \cup {n + 1}) = Cardinality(K) + 1
<1>1. IsFiniteSet(K) /\ Cardinality(K) \in Nat
  <2>1. IsFiniteSet(1..n) /\ K \in SUBSET (1..n)
    BY FS_Interval
  <2>2. IsFiniteSet(K)
    BY <2>1, FS_Subset
  <2> QED
    BY <2>2, FS_CardinalityType
<1>2. ASSUME K # {}
      PROVE  FirstOf(K \cup {n + 1}) = FirstOf(K)
  <2>1. FirstOf(K) \in K /\ \A j \in K : FirstOf(K) <= j
    <3>1. K \subseteq Nat
      OBVIOUS
    <3> QED
      BY <1>2, <3>1, FirstIs
  <2>2. /\ FirstOf(K \cup {n + 1}) \in K \cup {n + 1}
        /\ \A j \in K \cup {n + 1} : FirstOf(K \cup {n + 1}) <= j
    <3> DEFINE both == K \cup {n + 1}
    <3>1. both \subseteq Nat /\ both # {}
      OBVIOUS
    <3> HIDE DEF both
    <3>2. FirstOf(both) \in both /\ \A j \in both : FirstOf(both) <= j
      BY <3>1, FirstIs
    <3> QED
      BY <3>2 DEF both
  <2>3. FirstOf(K) \in 1..n /\ FirstOf(K \cup {n + 1}) \in 1..(n + 1)
    <3>1. \A k \in K : k \in 1..n /\ k \in 1..(n + 1)
      OBVIOUS
    <3>2. n + 1 \in 1..(n + 1)
      OBVIOUS
    <3> QED
      BY <2>1, <2>2, <3>1, <3>2
  <2>4. FirstOf(K \cup {n + 1}) <= FirstOf(K)
    BY <2>1, <2>2
  <2>5. FirstOf(K \cup {n + 1}) \in K
    <3>1. FirstOf(K \cup {n + 1}) # n + 1
      BY <2>3, <2>4
    <3> QED
      BY <2>2, <3>1
  <2> QED
    BY <2>1, <2>3, <2>4, <2>5
<1>3. FirstOf({n + 1}) = n + 1
  <2> DEFINE one == {n + 1}
  <2>1. one \subseteq Nat /\ one # {}
    OBVIOUS
  <2> HIDE DEF one
  <2>2. FirstOf(one) \in one
    BY <2>1, FirstIs
  <2> QED
    BY <2>2 DEF one
<1>4. Cardinality(K \cup {n + 1}) = Cardinality(K) + 1
  <2>1. n + 1 \notin K
    OBVIOUS
  <2> QED
    BY <1>1, <2>1, FS_AddElement
<1> QED
  BY <1>1, <1>2, <1>3, <1>4

LEMMA MaxValues == MAX_VALUES \in Nat /\ MAX_VALUES > 0 /\ Values \subseteq Nat
BY ProfileAssumption

\* What increment leaves in each slot, when one has the value already,
LEMMA IncrementSame ==
  ASSUME NEW e \in Entries, NEW v \in Nat, NEW i \in 1..MAX_VALUES,
         e.values[i].value = v, \A j \in 1..MAX_VALUES : j < i => e.values[j].value # v
  PROVE  LET after == Increment(e, v)
         IN  /\ after \in Entries /\ after.count = e.count + 1 /\ after.loop = e.loop
             /\ after.values[i] = [value |-> v, count |-> e.values[i].count + 1]
             /\ \A j \in 1..MAX_VALUES : j # i => after.values[j] = e.values[j]
<1> DEFINE same    == {j \in 1..MAX_VALUES : e.values[j].value = v}
           free    == {j \in 1..MAX_VALUES : e.values[j].count = 0}
           counted == [e EXCEPT !.count = @ + 1]
           after   == Increment(e, v)
<1>1. /\ counted \in Entries /\ counted.count = e.count + 1 /\ counted.loop = e.loop
      /\ counted.values = e.values /\ e.values[i] \in ValueSlots
      /\ e.values \in [1..MAX_VALUES -> ValueSlots] /\ e.values[i].count + 1 \in Nat
  <2>1. e.count \in Nat /\ e.loop \in Nat /\ e.values \in [1..MAX_VALUES -> ValueSlots]
    BY DEF Entries
  <2>2. e.values[i] \in ValueSlots /\ e.values[i].count \in Nat
    BY <2>1 DEF ValueSlots
  <2>3. counted \in Entries
    BY <2>1 DEF Entries
  <2>4. counted.count = e.count + 1 /\ counted.loop = e.loop /\ counted.values = e.values
    BY DEF Entries
  <2> QED
    BY <2>1, <2>2, <2>3, <2>4
<1>2. after = IF same # {} THEN [counted EXCEPT !.values[FirstOf(same)].count = @ + 1]
              ELSE IF free # {} THEN [counted EXCEPT !.values[FirstOf(free)] = [value |-> v, count |-> 1]]
              ELSE counted
  BY DEF Increment
<1>3. same \subseteq Nat /\ free \subseteq Nat
  OBVIOUS
<1>5. i \in same
  OBVIOUS
<1>6. FirstOf(same) = i
  <2>1. FirstOf(same) \in same /\ FirstOf(same) <= i
    <3> HIDE DEF same
    <3> QED
      BY <1>3, <1>5, FirstIs
  <2>2. FirstOf(same) \in 1..MAX_VALUES
    BY <2>1
  <2>3. ~ (FirstOf(same) < i)
    <3> DEFINE first == FirstOf(same)
    <3> HIDE DEF first
    <3>1. first \in 1..MAX_VALUES /\ first \in same
      BY <2>1, <2>2 DEF first
    <3> QED
      BY <3>1 DEF first
  <2> QED
    BY <2>1, <2>2, <2>3
<1>7. after = [counted EXCEPT !.values[i].count = @ + 1]
  BY <1>2, <1>5, <1>6
<1> HIDE DEF same, free, counted, after
<1>8. /\ after.count = counted.count /\ after.loop = counted.loop
      /\ after.values = [e.values EXCEPT ![i] = [e.values[i] EXCEPT !.count = @ + 1]]
      /\ after = [loop |-> after.loop, count |-> after.count, values |-> after.values]
  BY <1>1, <1>7 DEF Entries
<1>9. after.values[i] = [e.values[i] EXCEPT !.count = @ + 1]
      /\ \A j \in 1..MAX_VALUES : j # i => after.values[j] = e.values[j]
  BY <1>1, <1>8
<1>10. after.values[i] = [value |-> v, count |-> e.values[i].count + 1]
  BY <1>1, <1>9 DEF ValueSlots
<1>11. after \in Entries
  <2>1. [e.values[i] EXCEPT !.count = @ + 1] \in ValueSlots
    BY <1>1 DEF ValueSlots
  <2>2. after.values \in [1..MAX_VALUES -> ValueSlots]
    BY <1>1, <1>8, <2>1
  <2>3. after.count \in Nat /\ after.loop \in Nat
    BY <1>1, <1>8 DEF Entries
  <2> QED
    BY <1>8, <2>2, <2>3 DEF Entries
<1> QED
  BY <1>1, <1>5, <1>8, <1>9, <1>10, <1>11 DEF same, after

\* and when none has but one is free.
LEMMA IncrementFree ==
  ASSUME NEW e \in Entries, NEW v \in Nat, NEW i \in 1..MAX_VALUES,
         \A j \in 1..MAX_VALUES : e.values[j].value # v, e.values[i].count = 0,
         \A j \in 1..MAX_VALUES : j < i => e.values[j].count # 0
  PROVE  LET after == Increment(e, v)
         IN  /\ after \in Entries /\ after.count = e.count + 1 /\ after.loop = e.loop
             /\ after.values[i] = [value |-> v, count |-> 1]
             /\ \A j \in 1..MAX_VALUES : j # i => after.values[j] = e.values[j]
<1> DEFINE same    == {j \in 1..MAX_VALUES : e.values[j].value = v}
           free    == {j \in 1..MAX_VALUES : e.values[j].count = 0}
           counted == [e EXCEPT !.count = @ + 1]
           after   == Increment(e, v)
<1>1. /\ counted \in Entries /\ counted.count = e.count + 1 /\ counted.loop = e.loop
      /\ counted.values = e.values /\ e.values[i] \in ValueSlots
      /\ e.values \in [1..MAX_VALUES -> ValueSlots] /\ e.values[i].count + 1 \in Nat
  <2>1. e.count \in Nat /\ e.loop \in Nat /\ e.values \in [1..MAX_VALUES -> ValueSlots]
    BY DEF Entries
  <2>2. e.values[i] \in ValueSlots /\ e.values[i].count \in Nat
    BY <2>1 DEF ValueSlots
  <2>3. counted \in Entries
    BY <2>1 DEF Entries
  <2>4. counted.count = e.count + 1 /\ counted.loop = e.loop /\ counted.values = e.values
    BY DEF Entries
  <2> QED
    BY <2>1, <2>2, <2>3, <2>4
<1>2. after = IF same # {} THEN [counted EXCEPT !.values[FirstOf(same)].count = @ + 1]
              ELSE IF free # {} THEN [counted EXCEPT !.values[FirstOf(free)] = [value |-> v, count |-> 1]]
              ELSE counted
  BY DEF Increment
<1>3. same \subseteq Nat /\ free \subseteq Nat
  OBVIOUS
<1>5. same = {} /\ i \in free
  OBVIOUS
<1>6. FirstOf(free) = i
  <2>1. FirstOf(free) \in free /\ FirstOf(free) <= i
    <3> HIDE DEF free
    <3> QED
      BY <1>3, <1>5, FirstIs
  <2>2. FirstOf(free) \in 1..MAX_VALUES
    BY <2>1
  <2>3. ~ (FirstOf(free) < i)
    <3> DEFINE first == FirstOf(free)
    <3> HIDE DEF first
    <3>1. first \in 1..MAX_VALUES /\ first \in free
      BY <2>1, <2>2 DEF first
    <3> QED
      BY <3>1 DEF first
  <2> QED
    BY <2>1, <2>2, <2>3
<1>7. after = [counted EXCEPT !.values[i] = [value |-> v, count |-> 1]]
  BY <1>2, <1>5, <1>6
<1> HIDE DEF same, free, counted, after
<1>8. after \in Entries /\ after.count = counted.count /\ after.loop = counted.loop
  BY <1>1, <1>7 DEF Entries, ValueSlots
<1>9. after.values[i] = [value |-> v, count |-> 1]
      /\ \A j \in 1..MAX_VALUES : j # i => after.values[j] = e.values[j]
  BY <1>1, <1>7 DEF Entries
<1> QED
  BY <1>1, <1>5, <1>8, <1>9 DEF same, after

\* Counting the value of a dependence that is recorded keeps the entry right.
LEMMA IncrementHolds ==
  ASSUME NEW rec \in Seq(Dependences), NEW r \in Dependences, NEW K, K \subseteq 1..Len(rec),
         NEW e \in Entries, EntryHolds(e, rec, K), K = {} => e.loop = r.loop
  PROVE  /\ Increment(e, r.value) \in Entries
         /\ EntryHolds(Increment(e, r.value), Append(rec, r), K \cup {Len(rec) + 1})
<1> DEFINE n     == Len(rec)
           v     == r.value
           all   == Append(rec, r)
           K2    == K \cup {n + 1}
           after == Increment(e, v)
           S     == e.values
           S2    == after.values
<1>1. /\ n \in Nat /\ v \in Nat /\ v \in Values /\ MAX_VALUES \in Nat /\ MAX_VALUES > 0
      /\ \A k \in 1..n : all[k] = rec[k]
      /\ all[n + 1] = r
      /\ \A k \in K : k \in 1..n
      /\ K \subseteq Nat
  <2>1. v \in Values /\ v \in Nat
    BY MaxValues DEF Dependences
  <2>2. n \in Nat /\ K \subseteq Nat /\ \A k \in K : k \in 1..n
    OBVIOUS
  <2>3. (\A k \in 1..n : all[k] = rec[k]) /\ all[n + 1] = r
    BY AppendProperties
  <2> QED
    BY <2>1, <2>2, <2>3, MaxValues
<1>2. PICK m \in 0..MAX_VALUES : SlotsHold(S, rec, K, m)
  BY DEF EntryHolds
<1>3. S \in [1..MAX_VALUES -> ValueSlots] /\ e.count \in Nat
  BY DEF Entries
\* What the new dependence adds to the uses.
<1>4. /\ UsesIn(all, K2, v) = UsesIn(rec, K, v) \cup {n + 1}
      /\ \A w : w # v => UsesIn(all, K2, w) = UsesIn(rec, K, w)
      /\ \A w : UsesIn(rec, K, w) \subseteq 1..n
  <2>1. \A w : UsesIn(all, K2, w) = {k \in K2 : all[k].value = w}
               /\ UsesIn(rec, K, w) = {k \in K : rec[k].value = w}
    BY DEF UsesIn
  <2>2. \A k \in K : all[k] = rec[k] /\ k # n + 1
    BY <1>1
  <2> HIDE DEF all, n, v
  <2>3. all[n + 1].value = v
    BY <1>1 DEF v
  <2>4. \A w : UsesIn(rec, K, w) \subseteq 1..n
    BY <1>1, <2>1
  <2>5. \A w, k : k \in UsesIn(all, K2, w) <=> k \in UsesIn(rec, K, w) \/ (k = n + 1 /\ w = v)
    <3>1. ASSUME NEW w, NEW k
          PROVE  k \in UsesIn(all, K2, w) <=> k \in UsesIn(rec, K, w) \/ (k = n + 1 /\ w = v)
      <4>1. k \in UsesIn(all, K2, w) <=> (k \in K \/ k = n + 1) /\ all[k].value = w
        BY DEF UsesIn
      <4>2. k \in UsesIn(rec, K, w) <=> k \in K /\ rec[k].value = w
        BY DEF UsesIn
      <4> QED
        BY <2>2, <2>3, <4>1, <4>2
    <3> QED
      BY <3>1
  <2>6. UsesIn(all, K2, v) = UsesIn(rec, K, v) \cup {n + 1}
    BY <2>5
  <2>7. ASSUME NEW w, w # v
        PROVE  UsesIn(all, K2, w) = UsesIn(rec, K, w)
    <3>1. \A k : k \in UsesIn(all, K2, w) <=> k \in UsesIn(rec, K, w)
      BY <2>5, <2>7
    <3>2. UsesIn(all, K2, w) = {k \in K2 : all[k].value = w}
          /\ UsesIn(rec, K, w) = {k \in K : rec[k].value = w}
      BY DEF UsesIn
    <3> QED
      BY <3>1, <3>2
  <2> QED
    BY <2>4, <2>6, <2>7
<1> HIDE DEF n, v, all, after
<1>5. \A w : UsesIn(rec, K, w) # {} =>
               UsesIn(all, K2, w) # {} /\ FirstUse(all, K2, w) = FirstUse(rec, K, w)
  <2>1. ASSUME NEW w, UsesIn(rec, K, w) # {}
        PROVE  UsesIn(all, K2, w) # {} /\ FirstUse(all, K2, w) = FirstUse(rec, K, w)
    <3>1. FirstOf(UsesIn(rec, K, w) \cup {n + 1}) = FirstOf(UsesIn(rec, K, w))
      BY <1>1, <1>4, <2>1, FirstStays
    <3> QED
      BY <1>4, <2>1, <3>1 DEF FirstUse
  <2> QED
    BY <2>1
<1>6. /\ Cardinality(UsesIn(all, K2, v)) = Cardinality(UsesIn(rec, K, v)) + 1
      /\ \A w : w # v => Cardinality(UsesIn(all, K2, w)) = Cardinality(UsesIn(rec, K, w))
      /\ UsesIn(all, K2, v) # {}
  <2>1. Cardinality(UsesIn(rec, K, v) \cup {n + 1}) = Cardinality(UsesIn(rec, K, v)) + 1
    BY <1>1, <1>4, FirstStays
  <2> QED
    BY <1>4, <2>1
<1>7. /\ Cardinality(K2) = Cardinality(K) + 1
      /\ all[FirstOf(K2)].loop = IF K = {} THEN r.loop ELSE rec[FirstOf(K)].loop
  <2>1. Cardinality(K2) = Cardinality(K) + 1
    BY <1>1, FirstStays DEF n
  <2>2. CASE K = {}
    <3>1. K2 = {n + 1}
      BY <2>2
    <3>2. FirstOf(K2) = n + 1
      BY <1>1, <2>2, <3>1, FirstStays
    <3> QED
      BY <1>1, <2>1, <2>2, <3>2
  <2>3. CASE K # {}
    <3>1. FirstOf(K2) = FirstOf(K)
      BY <1>1, <2>3, FirstStays DEF n
    <3>2. FirstOf(K) \in K
      BY <1>1, <2>3, FirstIs
    <3> QED
      BY <1>1, <2>1, <2>3, <3>1, <3>2
  <2> QED
    BY <2>2, <2>3
\* It is enough that the slots hold.
<1>8. ASSUME after \in Entries, after.count = e.count + 1, after.loop = e.loop,
             NEW m2 \in 0..MAX_VALUES, SlotsHold(S2, all, K2, m2)
      PROVE  after \in Entries /\ EntryHolds(after, all, K2)
  <2>1. after.count = Cardinality(K2)
    BY <1>7, <1>8 DEF EntryHolds
  <2>2. after.loop = all[FirstOf(K2)].loop
    BY <1>7, <1>8 DEF EntryHolds
  <2> QED
    BY <1>8, <2>1, <2>2 DEF EntryHolds
\* The dependences recorded before keep their slots.
<1>9. ASSUME NEW k \in K, ~ \E i \in 1..m : S[i].value = rec[k].value
      PROVE  m = MAX_VALUES /\ \A i \in 1..m : FirstUse(all, K2, S[i].value) < k
  <2>1. m = MAX_VALUES /\ \A i \in 1..m : FirstUse(rec, K, S[i].value) < k
    BY <1>2, <1>9 DEF SlotsHold
  <2>2. \A i \in 1..m : UsesIn(rec, K, S[i].value) # {}
    BY <1>2 DEF SlotsHold
  <2> QED
    BY <1>5, <2>1, <2>2
<1>10. CASE \E i \in 1..m : S[i].value = v
  <2>1. PICK i \in 1..m : S[i].value = v
    BY <1>10
  <2>2. i \in 1..MAX_VALUES /\ \A j \in 1..MAX_VALUES : j < i => S[j].value # v
    <3>1. \A j, k \in 1..m : S[j].value = S[k].value => j = k
      BY <1>2 DEF SlotsHold
    <3>2. i \in 1..MAX_VALUES /\ \A j \in 1..MAX_VALUES : j < i => j \in 1..m /\ j # i
      BY <1>1
    <3> HIDE DEF S
    <3> QED
      BY <2>1, <3>1, <3>2
  <2>3. /\ after \in Entries /\ after.count = e.count + 1 /\ after.loop = e.loop
        /\ S2[i] = [value |-> v, count |-> S[i].count + 1]
        /\ \A j \in 1..MAX_VALUES : j # i => S2[j] = S[j]
    BY <1>1, <2>1, <2>2, IncrementSame DEF after
  <2> HIDE DEF S, S2, K2
  <2>4. \A j \in 1..m : S2[j].value = S[j].value
    <3>1. \A j \in 1..m : j \in 1..MAX_VALUES
      BY <1>1
    <3>2. S2[i].value = v
      BY <2>3
    <3> QED
      BY <2>1, <2>3, <3>1, <3>2
  <2>5. SlotsHold(S2, all, K2, m)
    <3>1. \A j \in 1..MAX_VALUES : j > m => S2[j] = Slot0
      BY <1>2, <2>1, <2>3 DEF SlotsHold
    <3>2. \A j \in 1..m : /\ UsesIn(all, K2, S2[j].value) # {}
                          /\ S2[j].count = Cardinality(UsesIn(all, K2, S2[j].value))
      <4>1. ASSUME NEW j \in 1..m
            PROVE  /\ UsesIn(all, K2, S2[j].value) # {}
                   /\ S2[j].count = Cardinality(UsesIn(all, K2, S2[j].value))
        <5>1. /\ UsesIn(rec, K, S[j].value) # {} /\ S2[j].value = S[j].value
              /\ S[j].count = Cardinality(UsesIn(rec, K, S[j].value))
          BY <1>2, <2>4 DEF SlotsHold
        <5>2. CASE j = i
          BY <1>6, <2>1, <2>3, <5>1, <5>2
        <5>3. CASE j # i
          <6>1. S[j].value # v /\ S2[j] = S[j]
            <7>1. \A k, l \in 1..m : S[k].value = S[l].value => k = l
              BY <1>2 DEF SlotsHold
            <7>2. j \in 1..MAX_VALUES
              BY <1>1
            <7> QED
              BY <2>1, <2>3, <5>3, <7>1, <7>2
          <6> QED
            BY <1>5, <1>6, <5>1, <6>1
        <5> QED
          BY <5>2, <5>3
      <4> QED
        BY <4>1
    <3>3. \A j, k \in 1..m : S2[j].value = S2[k].value => j = k
      BY <1>2, <2>4 DEF SlotsHold
    <3>4. \A k \in K2 : \/ \E j \in 1..m : S2[j].value = all[k].value
                        \/ m = MAX_VALUES /\ \A j \in 1..m : FirstUse(all, K2, S2[j].value) < k
      <4>1. ASSUME NEW k \in K
            PROVE  \/ \E j \in 1..m : S2[j].value = all[k].value
                   \/ m = MAX_VALUES /\ \A j \in 1..m : FirstUse(all, K2, S2[j].value) < k
        BY <1>1, <1>9, <2>4
      <4>2. S2[i].value = all[n + 1].value
        BY <1>1, <2>1, <2>4 DEF v
      <4> QED
        BY <2>1, <4>1, <4>2 DEF K2
    <3> QED
      BY <3>1, <3>2, <3>3, <3>4 DEF SlotsHold
  <2> QED
    BY <1>8, <2>3, <2>5 DEF S2, K2, after, v, all, n
<1>11. CASE ~ (\E i \in 1..m : S[i].value = v) /\ m < MAX_VALUES
  <2> DEFINE i == m + 1
  <2>1. /\ i \in 1..MAX_VALUES /\ S[i] = Slot0 /\ \A j \in 1..MAX_VALUES : j < i => j \in 1..m
        /\ \A j \in 1..MAX_VALUES : j > m => S[j] = Slot0
    <3>1. \A j \in 1..MAX_VALUES : j > m => S[j] = Slot0
      BY <1>2 DEF SlotsHold
    <3>2. i \in 1..MAX_VALUES /\ i > m /\ \A j \in 1..MAX_VALUES : j < i => j \in 1..m
      BY <1>1, <1>11
    <3> HIDE DEF S, i
    <3> QED
      BY <3>1, <3>2
  <2>2. UsesIn(rec, K, v) = {}
    <3>1. \A k \in K : \E j \in 1..m : S[j].value = rec[k].value
      BY <1>2, <1>11 DEF SlotsHold
    <3> QED
      BY <1>11, <3>1 DEF UsesIn
  <2>3. \A j \in 1..m : S[j].count # 0
    <3>1. \A j \in 1..m : /\ UsesIn(rec, K, S[j].value) # {}
                          /\ S[j].count = Cardinality(UsesIn(rec, K, S[j].value))
      BY <1>2 DEF SlotsHold
    <3>2. \A w : IsFiniteSet(UsesIn(rec, K, w))
      BY <1>1, <1>4, FirstStays
    <3> QED
      BY <3>1, <3>2, FS_EmptySet
  <2>4. /\ after \in Entries /\ after.count = e.count + 1 /\ after.loop = e.loop
        /\ S2[i] = [value |-> v, count |-> 1]
        /\ \A j \in 1..MAX_VALUES : j # i => S2[j] = S[j]
    <3>1. CASE v = 0
      <4>1. S[i].value = v /\ S[i].count = 0 /\ \A j \in 1..MAX_VALUES : j < i => S[j].value # v
        BY <1>11, <2>1, <3>1 DEF Slot0
      <4>2. /\ after \in Entries /\ after.count = e.count + 1 /\ after.loop = e.loop
            /\ S2[i] = [value |-> v, count |-> S[i].count + 1]
            /\ \A j \in 1..MAX_VALUES : j # i => S2[j] = S[j]
        <5> HIDE DEF i
        <5> QED
          BY <1>1, <2>1, <4>1, IncrementSame DEF after
      <4>3. S[i].count + 1 = 1
        BY <4>1
      <4> HIDE DEF i
      <4> QED
        BY <4>2, <4>3
    <3>2. CASE v # 0
      <4>1. \A j \in 1..MAX_VALUES : S[j].value # v
        BY <1>11, <2>1, <3>2 DEF Slot0
      <4>2. S[i].count = 0 /\ \A j \in 1..MAX_VALUES : j < i => S[j].count # 0
        BY <2>1, <2>3 DEF Slot0
      <4> HIDE DEF i
      <4> QED
        BY <1>1, <2>1, <4>1, <4>2, IncrementFree DEF after
    <3> QED
      BY <3>1, <3>2
  <2> HIDE DEF S, S2, K2
  <2>5. /\ \A j \in 1..m : j \in 1..MAX_VALUES /\ j # i /\ S2[j] = S[j]
        /\ S2[i].value = v
        /\ \A j \in 1..i : j \in 1..m \/ j = i
        /\ i \in 0..MAX_VALUES
    BY <1>1, <2>1, <2>4
  <2>6. SlotsHold(S2, all, K2, i)
    <3>1. \A j \in 1..MAX_VALUES : j > i => S2[j] = Slot0
      <4>1. \A j \in 1..MAX_VALUES : j > i => j > m /\ j # i
        BY <2>1
      <4> HIDE DEF i
      <4> QED
        BY <2>1, <2>4, <4>1
    <3> HIDE DEF i
    <3>2. ASSUME NEW j \in 1..i
          PROVE  /\ UsesIn(all, K2, S2[j].value) # {}
                 /\ S2[j].count = Cardinality(UsesIn(all, K2, S2[j].value))
      <4>1. CASE j = i
        <5>1. Cardinality(UsesIn(all, K2, v)) = 1
          BY <1>6, <2>2, FS_EmptySet
        <5> QED
          BY <1>6, <2>4, <2>5, <4>1, <5>1
      <4>2. CASE j \in 1..m
        <5>1. /\ UsesIn(rec, K, S[j].value) # {} /\ S2[j] = S[j] /\ S[j].value # v
              /\ S[j].count = Cardinality(UsesIn(rec, K, S[j].value))
          BY <1>2, <1>11, <2>5, <4>2 DEF SlotsHold
        <5> QED
          BY <1>5, <1>6, <5>1
      <4> QED
        BY <2>5, <4>1, <4>2
    <3>3. \A j, k \in 1..i : S2[j].value = S2[k].value => j = k
      <4>1. \A j, k \in 1..m : S[j].value = S[k].value => j = k
        BY <1>2 DEF SlotsHold
      <4> QED
        BY <1>11, <2>5, <4>1
    <3>4. \A k \in K2 : \E j \in 1..i : S2[j].value = all[k].value
      <4>1. ASSUME NEW k \in K
            PROVE  \E j \in 1..i : S2[j].value = all[k].value
        <5>1. PICK j \in 1..m : S[j].value = rec[k].value
          BY <1>2, <1>11 DEF SlotsHold
        <5>2. j \in 1..i
          BY <1>1 DEF i
        <5> QED
          BY <1>1, <2>5, <5>1, <5>2
      <4>2. S2[i].value = all[n + 1].value /\ i \in 1..i
        BY <1>1, <2>1, <2>5 DEF v
      <4> QED
        BY <4>1, <4>2 DEF K2
    <3> QED
      BY <3>1, <3>2, <3>3, <3>4 DEF SlotsHold
  <2> QED
    BY <1>8, <2>4, <2>5, <2>6 DEF S2, K2, after, v, all, n
<1>12. CASE ~ (\E i \in 1..m : S[i].value = v) /\ m = MAX_VALUES
  <2>1. \A j \in 1..MAX_VALUES : S[j].value # v /\ S[j].count # 0
    <3>1. \A j \in 1..m : /\ UsesIn(rec, K, S[j].value) # {}
                          /\ S[j].count = Cardinality(UsesIn(rec, K, S[j].value))
      BY <1>2 DEF SlotsHold
    <3>2. \A w : IsFiniteSet(UsesIn(rec, K, w))
      BY <1>1, <1>4, FirstStays
    <3> QED
      BY <1>12, <3>1, <3>2, FS_EmptySet
  <2>2. after \in Entries /\ after.count = e.count + 1 /\ after.loop = e.loop /\ S2 = S
    <3>1. after = [e EXCEPT !.count = @ + 1]
      BY <2>1 DEF Increment, after
    <3> QED
      BY <3>1 DEF Entries
  <2> HIDE DEF S, S2, K2
  <2>3. SlotsHold(S2, all, K2, m)
    <3>1. \A j \in 1..m : /\ UsesIn(rec, K, S[j].value) # {} /\ S[j].value # v
                          /\ S[j].count = Cardinality(UsesIn(rec, K, S[j].value))
      BY <1>2, <1>12 DEF SlotsHold
    <3>2. \A j \in 1..m : /\ UsesIn(all, K2, S[j].value) # {}
                          /\ S[j].count = Cardinality(UsesIn(all, K2, S[j].value))
      BY <1>5, <1>6, <3>1
    <3>3. \A j \in 1..m : FirstUse(all, K2, S[j].value) < n + 1
      <4>1. ASSUME NEW j \in 1..m
            PROVE  FirstUse(rec, K, S[j].value) \in 1..n
        <5>1. UsesIn(rec, K, S[j].value) \subseteq Nat
          BY <1>4
        <5> QED
          BY <1>4, <3>1, <5>1, FirstIs DEF FirstUse
      <4> QED
        BY <1>1, <1>5, <3>1, <4>1
    <3>4. ASSUME NEW k \in K2
          PROVE  \/ \E j \in 1..m : S[j].value = all[k].value
                 \/ m = MAX_VALUES /\ \A j \in 1..m : FirstUse(all, K2, S[j].value) < k
      <4>1. CASE k \in K
        BY <1>1, <1>9, <4>1
      <4>2. CASE k = n + 1
        BY <1>12, <3>3, <4>2
      <4> QED
        BY <4>1, <4>2 DEF K2
    <3> QED
      BY <1>2, <2>2, <3>2, <3>4 DEF SlotsHold
  <2> QED
    BY <1>8, <2>2, <2>3 DEF S2, K2, after, v, all, n
<1> QED
  BY <1>1, <1>10, <1>11, <1>12

-------------------------------------------------------------------------------
(* The table.                                                              *)

\* What a dependence is recorded under.
IsUnder(r, load, dist, store) ==
  /\ r.load = load /\ r.store = store
  /\ r.dist = dist \/ (r.dist > dist /\ dist = MaxTrackedDistance - 1)

TableTypes ==
  /\ recorded \in Seq(Dependences)
  /\ lastStore # <<>> => lastStore[1].store \in Stores
  /\ DOMAIN instructionInfo = Loads
  /\ \A load \in Loads : DOMAIN instructionInfo[load] = Distances

MapHolds(map, load, dist) ==
  /\ DOMAIN map \subseteq Stores
  /\ \A store \in Stores :
       /\ store \in DOMAIN map <=> RecordedUnder(load, dist, store) # {}
       /\ store \in DOMAIN map =>
            /\ map[store] \in Entries
            /\ EntryHolds(map[store], recorded, RecordedUnder(load, dist, store))

TableInv ==
  /\ TableTypes
  /\ \A load \in Loads, dist \in Distances : MapHolds(instructionInfo[load][dist], load, dist)

LEMMA TableInit == Init => TableInv
<1> SUFFICES ASSUME Init PROVE TableInv
  OBVIOUS
<1>1. recorded = <<>> /\ lastStore = <<>>
      /\ instructionInfo = [load \in Loads |-> [dist \in Distances |-> <<>>]]
  BY DEF Init
<1>2. recorded \in Seq(Dependences) /\ Len(recorded) = 0
  BY <1>1
<1>3. ASSUME NEW load \in Loads, NEW dist \in Distances
      PROVE  MapHolds(instructionInfo[load][dist], load, dist)
  <2>1. instructionInfo[load][dist] = <<>>
    BY <1>1
  <2>2. \A store : RecordedUnder(load, dist, store) = {}
    BY <1>2 DEF RecordedUnder
  <2>3. DOMAIN << >> = {}
    OBVIOUS
  <2> QED
    BY <2>1, <2>2, <2>3 DEF MapHolds
<1> QED
  BY <1>1, <1>2, <1>3 DEF TableInv, TableTypes

LEMMA TableUnchanged ==
  ASSUME TableInv, UNCHANGED <<instructionInfo, recorded>>,
         lastStore' # <<>> => lastStore'[1].store \in Stores
  PROVE  TableInv'
<1>1. instructionInfo' = instructionInfo /\ recorded' = recorded
  OBVIOUS
<1>2. \A load, dist, store : RecordedUnder(load, dist, store)' = RecordedUnder(load, dist, store)
  BY <1>1 DEF RecordedUnder
<1>3. \A load \in Loads, dist \in Distances : MapHolds(instructionInfo[load][dist], load, dist)'
  BY <1>1, <1>2 DEF TableInv, MapHolds
<1> QED
  BY <1>1, <1>3 DEF TableInv, TableTypes

\* findLoop chooses a level, and calculateDistance counts iterations.
LEMMA DistanceType ==
  ASSUME IInv, current_depth \in Levels, NEW store
  PROVE  /\ FindLoop(store) \in Levels
         /\ CalculateDistance(FindLoop(store), store) \in Nat
<1>1. current_depth \in Nat /\ \A l \in 0..current_depth : l \in Levels
  BY Depths DEF Levels
<1>2. FindLoop(store) \in Levels
  <2> DEFINE levels == EnteredBefore(store)
  <2>1. levels \subseteq 0..current_depth
    BY <1>1 DEF EnteredBefore
  <2>2. CASE store = 0 \/ levels = {}
    <3>1. FindLoop(store) = 0 /\ 0 \in 0..current_depth
      BY <1>1, <2>2 DEF FindLoop
    <3> QED
      BY <1>1, <3>1
  <2>3. CASE ~ (store = 0 \/ levels = {})
    <3>1. FindLoop(store) = CHOOSE l \in levels : \A m \in levels : m <= l
      BY <2>3 DEF FindLoop
    <3> HIDE DEF levels
    <3>2. \E l \in levels : \A m \in levels : m <= l
      BY <1>1, <2>1, <2>3, GreatestNatural
    <3>3. FindLoop(store) \in levels
      BY <3>1, <3>2, Zenon
    <3> QED
      BY <1>1, <2>1, <3>3
  <2> QED
    BY <2>2, <2>3
<1> DEFINE level == FindLoop(store)
           times == Contents(loop_info[level].iteration_time_stamps, MaxDepDist)
           early == {n \in 1..Len(times) : times[n] <= store}
<1>3. Len(times) \in Nat
  <2>1. loop_info[level] \in LevelInfos
    BY <1>2 DEF IInv, ProfileTypes
  <2>2. loop_info[level].iteration_time_stamps.contents_size \in Nat
    BY <2>1, SizesAssumption DEF LevelInfos, Queues
  <2> QED
    BY <2>2 DEF Contents
<1>4. CalculateDistance(level, store) = IF early = {} THEN Len(times)
        ELSE Len(times) - (CHOOSE n \in early : \A k \in early : k <= n)
  BY Zenon DEF CalculateDistance
<1>5. early \subseteq 1..Len(times)
  OBVIOUS
<1> HIDE DEF level, times, early
<1>6. CASE early # {}
  <2>1. early \subseteq 0..Len(times)
    BY <1>5
  <2>2. \E n \in early : \A k \in early : k <= n
    BY <1>3, <1>6, <2>1, GreatestNatural
  <2> DEFINE last == CHOOSE n \in early : \A k \in early : k <= n
  <2>3. last \in early
    BY <2>2, Zenon
  <2> HIDE DEF last
  <2>4. last \in 1..Len(times) /\ CalculateDistance(level, store) = Len(times) - last
    BY <1>4, <1>5, <1>6, <2>3 DEF last
  <2>5. CalculateDistance(level, store) \in Nat
    BY <1>3, <2>4
  <2> QED
    BY <1>2, <2>5 DEF level
<1>7. CASE early = {}
  BY <1>2, <1>3, <1>4, <1>7 DEF level
<1> QED
  BY <1>6, <1>7

LEMMA NewProfileHolds ==
  ASSUME NEW loop \in Nat, NEW rec
  PROVE  /\ NewProfile(loop) \in Entries /\ NewProfile(loop).loop = loop
         /\ EntryHolds(NewProfile(loop), rec, {})
<1> DEFINE e == NewProfile(loop)
<1>1. /\ e \in Entries /\ e.loop = loop /\ e.count = 0
      /\ \A i \in 1..MAX_VALUES : e.values[i] = Slot0
  BY DEF NewProfile, Entries, ValueSlots, Slot0
<1> HIDE DEF e
<1>2. SlotsHold(e.values, rec, {}, 0) /\ 0 \in 0..MAX_VALUES
  BY <1>1, MaxValues DEF SlotsHold
<1>3. e.count = Cardinality({})
  BY <1>1, FS_EmptySet
<1> QED
  BY <1>1, <1>2, <1>3 DEF EntryHolds, e

\* A load that records changes the one entry its dependence is under.
LEMMA TableLoad ==
  ASSUME IInv, TableInv, NEW load \in Loads, NEW value \in Values, Load(load, value)
  PROVE  TableInv'
<1> DEFINE store == lastStore[1].store
           at    == lastStore[1].at
           level == FindLoop(at)
           loop  == loop_info[level].loop_id
           cdist == CalculateDistance(level, at)
           dist  == TrackedDistance(cdist)
           map   == instructionInfo[load][dist]
           entry == Increment(GetProfile(map, store, loop), value)
           map2  == [s \in DOMAIN map \cup {store} |-> IF s = store THEN entry ELSE map[s]]
           r     == [load |-> load, dist |-> cdist, store |-> store, loop |-> loop, value |-> value]
<1>1. current_depth \in Levels /\ lastStore # <<>> /\ UNCHANGED lastStore
  BY DEF Load
<1>2. \/ UNCHANGED <<instructionInfo, recorded>>
      \/ /\ instructionInfo' = [instructionInfo EXCEPT ![load][dist] = map2]
         /\ recorded' = Append(recorded, r)
  BY DEF Load
<1>3. CASE UNCHANGED <<instructionInfo, recorded>>
  BY <1>1, <1>3, TableUnchanged DEF TableInv, TableTypes
<1>4. CASE /\ instructionInfo' = [instructionInfo EXCEPT ![load][dist] = map2]
           /\ recorded' = Append(recorded, r)
  <2>1. /\ store \in Stores /\ loop \in Nat /\ cdist \in Nat
    <3>1. level \in Levels /\ cdist \in Nat
      BY <1>1, DistanceType
    <3>2. loop_info[level] \in LevelInfos
      BY <3>1 DEF IInv, ProfileTypes
    <3> QED
      BY <1>1, <3>1, <3>2 DEF LevelInfos, TableInv, TableTypes
  <2>2. dist \in Distances /\ (\A d \in Distances : d = dist <=> cdist = d \/ (cdist > d /\ d = MaxTrackedDistance - 1))
    BY <2>1, ProfileAssumption DEF TrackedDistance, Distances
  <2>3. r \in Dependences /\ recorded \in Seq(Dependences)
    BY <2>1 DEF Dependences, TableInv, TableTypes
  <2>4. MapHolds(map, load, dist)
    BY <2>2 DEF TableInv
  <2> DEFINE n      == Len(recorded)
             old    == RecordedUnder(load, dist, store)
             before == GetProfile(map, store, loop)
  <2>5. /\ recorded' \in Seq(Dependences) /\ Len(recorded') = n + 1 /\ recorded'[n + 1] = r
        /\ n \in Nat /\ \A k \in 1..n : recorded'[k] = recorded[k]
    BY <1>4, <2>3
  <2> HIDE DEF cdist, loop, store, dist, level, at
  <2>6. ASSUME NEW l \in Loads, NEW d \in Distances, NEW s \in Stores
        PROVE  RecordedUnder(l, d, s)' = IF l = load /\ d = dist /\ s = store
                                         THEN RecordedUnder(l, d, s) \cup {n + 1}
                                         ELSE RecordedUnder(l, d, s)
    <3>1. IsUnder(r, l, d, s) <=> l = load /\ d = dist /\ s = store
      BY <2>2 DEF IsUnder
    <3> HIDE DEF r, n
    <3>2. RecordedUnder(l, d, s) = {k \in 1..n : IsUnder(recorded[k], l, d, s)}
      BY DEF RecordedUnder, IsUnder, n
    <3>3. RecordedUnder(l, d, s)' = {k \in 1..(n + 1) : IsUnder(recorded'[k], l, d, s)}
      BY <2>5 DEF RecordedUnder, IsUnder
    <3>4. \A k : k \in 1..(n + 1) <=> k \in 1..n \/ k = n + 1
      BY <2>5
    <3>5. n + 1 \notin 1..n
      BY <2>5
    <3> HIDE DEF IsUnder
    <3> QED
      BY <2>5, <3>1, <3>2, <3>3, <3>4, <3>5
  <2>7. /\ before \in Entries /\ EntryHolds(before, recorded, old)
        /\ old = {} => before.loop = r.loop
    <3>1. CASE store \in DOMAIN map
      <4>1. before = map[store] /\ old # {}
        BY <2>1, <2>4, <3>1 DEF GetProfile, MapHolds
      <4> QED
        BY <2>1, <2>4, <3>1, <4>1 DEF MapHolds
    <3>2. CASE store \notin DOMAIN map
      <4>1. before = NewProfile(loop) /\ old = {}
        BY <2>1, <2>4, <3>2 DEF GetProfile, MapHolds
      <4> QED
        BY <2>1, <4>1, NewProfileHolds
    <3> QED
      BY <3>1, <3>2
  <2>8. entry \in Entries /\ EntryHolds(entry, recorded', old \cup {n + 1})
    <3>1. old \subseteq 1..Len(recorded) /\ r.value = value
      BY DEF RecordedUnder
    <3> HIDE DEF old, before, r
    <3> QED
      BY <1>4, <2>3, <2>7, <3>1, IncrementHolds DEF before
  <2> HIDE DEF entry, r, n, old, before
\* The entries of the other dependences are as they were.
  <2>9. ASSUME NEW e, NEW K, K \subseteq 1..n, EntryHolds(e, recorded, K)
        PROVE  EntryHolds(e, recorded', K)
    <3>1. \A v : UsesIn(recorded', K, v) = UsesIn(recorded, K, v)
      BY <2>5, <2>9 DEF UsesIn
    <3>2. K # {} => FirstOf(K) \in K
      <4>1. K \subseteq Nat
        BY <2>9
      <4> QED
        BY <4>1, FirstIs
    <3>3. \A k \in K : recorded'[k] = recorded[k]
      BY <2>5, <2>9
    <3>4. ASSUME NEW m \in 0..MAX_VALUES, SlotsHold(e.values, recorded, K, m)
          PROVE  SlotsHold(e.values, recorded', K, m)
      BY <3>1, <3>3, <3>4 DEF SlotsHold, FirstUse
    <3> QED
      BY <2>9, <3>2, <3>3, <3>4 DEF EntryHolds
  <2>10. \A l \in Loads, d \in Distances : instructionInfo'[l][d] =
           IF l = load /\ d = dist THEN map2 ELSE instructionInfo[l][d]
    <3> HIDE DEF map2
    <3> QED
      BY <1>4, <2>2 DEF TableInv, TableTypes
  <2>11. DOMAIN instructionInfo' = Loads
         /\ \A l \in Loads : DOMAIN instructionInfo'[l] = Distances
    <3> HIDE DEF map2
    <3> QED
      BY <1>4 DEF TableInv, TableTypes
  <2>12. DOMAIN map2 = DOMAIN map \cup {store}
         /\ \A s \in DOMAIN map2 : map2[s] = IF s = store THEN entry ELSE map[s]
    OBVIOUS
  <2> HIDE DEF map2
  <2>13. ASSUME NEW l \in Loads, NEW d \in Distances
         PROVE  MapHolds(instructionInfo[l][d], l, d)'
    <3> DEFINE now == instructionInfo'[l][d]
               was == instructionInfo[l][d]
    <3>1. MapHolds(was, l, d)
      BY DEF TableInv
    <3>2. DOMAIN now = (IF l = load /\ d = dist THEN DOMAIN was \cup {store} ELSE DOMAIN was)
          /\ \A s \in DOMAIN now : now[s] = IF l = load /\ d = dist /\ s = store THEN entry ELSE was[s]
      BY <2>10, <2>12
    <3>3. DOMAIN now \subseteq Stores
      BY <2>1, <3>1, <3>2 DEF MapHolds
    <3>4. ASSUME NEW s \in Stores
          PROVE  /\ s \in DOMAIN now <=> RecordedUnder(l, d, s)' # {}
                 /\ s \in DOMAIN now =>
                      now[s] \in Entries /\ EntryHolds(now[s], recorded', RecordedUnder(l, d, s)')
      <4>1. CASE l = load /\ d = dist /\ s = store
        <5>1. RecordedUnder(l, d, s)' = old \cup {n + 1}
          BY <2>6, <4>1 DEF old
        <5>2. s \in DOMAIN now /\ now[s] = entry
          BY <3>2, <4>1
        <5> QED
          BY <2>8, <5>1, <5>2
      <4>2. CASE ~ (l = load /\ d = dist /\ s = store)
        <5>1. RecordedUnder(l, d, s)' = RecordedUnder(l, d, s)
          BY <2>6, <4>2
        <5>2. (s \in DOMAIN now <=> s \in DOMAIN was) /\ (s \in DOMAIN now => now[s] = was[s])
          BY <3>2, <4>2
        <5>3. RecordedUnder(l, d, s) \subseteq 1..n
          BY DEF RecordedUnder, n
        <5>4. /\ s \in DOMAIN was <=> RecordedUnder(l, d, s) # {}
              /\ s \in DOMAIN was =>
                   was[s] \in Entries /\ EntryHolds(was[s], recorded, RecordedUnder(l, d, s))
          BY <3>1 DEF MapHolds
        <5> QED
          BY <2>9, <5>1, <5>2, <5>3, <5>4
      <4> QED
        BY <4>1, <4>2
    <3> QED
      BY <3>3, <3>4 DEF MapHolds
  <2> QED
    BY <1>1, <2>5, <2>11, <2>13 DEF TableInv, TableTypes
<1> QED
  BY <1>2, <1>3, <1>4

LEMMA TableNext == IInv /\ TableInv /\ [Next]_vars => TableInv'
<1> SUFFICES ASSUME IInv, TableInv, [Next]_vars PROVE TableInv'
  OBVIOUS
<1>1. CASE UNCHANGED vars
  <2>1. UNCHANGED <<instructionInfo, recorded, lastStore>>
    BY <1>1 DEF vars
  <2> QED
    BY <2>1, TableUnchanged DEF TableInv, TableTypes
<1>2. ASSUME NEW store \in Stores, Store(store)
      PROVE  TableInv'
  <2>1. UNCHANGED <<instructionInfo, recorded>> /\ lastStore'[1].store \in Stores
    BY <1>2 DEF Store
  <2> QED
    BY <2>1, TableUnchanged
<1>3. CASE LoopStep
  <2>1. UNCHANGED <<instructionInfo, recorded, lastStore>>
    BY <1>3 DEF LoopStep
  <2> QED
    BY <2>1, TableUnchanged DEF TableInv, TableTypes
<1> QED
  BY <1>1, <1>2, <1>3, TableLoad DEF Next

\* The values that have slots are the first MAX_VALUES ones.
LEMMA SlotsAreFirst ==
  ASSUME NEW rec \in Seq(Dependences), NEW K, K \subseteq 1..Len(rec), NEW e \in Entries,
         EntryHolds(e, rec, K)
  PROVE  {<<s.value, s.count>> :
            s \in {e.values[i] : i \in {j \in 1..MAX_VALUES : e.values[j].count # 0}}}
         = {<<v, Cardinality(UsesIn(rec, K, v))>> :
            v \in {w \in Values : /\ UsesIn(rec, K, w) # {}
                                  /\ Cardinality({rec[k].value : k \in {j \in K : j <= FirstUse(rec, K, w)}})
                                       <= MAX_VALUES}}
<1> DEFINE S       == e.values
           n       == Len(rec)
           Upto(w) == {rec[k].value : k \in {j \in K : j <= FirstUse(rec, K, w)}}
           Early   == {w \in Values : UsesIn(rec, K, w) # {} /\ Cardinality(Upto(w)) <= MAX_VALUES}
<1>1. PICK m \in 0..MAX_VALUES : SlotsHold(S, rec, K, m)
  BY DEF EntryHolds
<1>2. /\ MAX_VALUES \in Nat /\ m \in Nat /\ n \in Nat /\ m <= MAX_VALUES
      /\ \A i \in 1..m : i \in 1..MAX_VALUES
      /\ S \in [1..MAX_VALUES -> ValueSlots]
  BY MaxValues DEF Entries
<1>3. /\ \A i \in 1..MAX_VALUES : i > m => S[i] = Slot0
      /\ \A i \in 1..m : /\ UsesIn(rec, K, S[i].value) # {}
                         /\ S[i].count = Cardinality(UsesIn(rec, K, S[i].value))
      /\ \A i, j \in 1..m : S[i].value = S[j].value => i = j
      /\ \A k \in K : \/ \E i \in 1..m : S[i].value = rec[k].value
                      \/ m = MAX_VALUES /\ \A i \in 1..m : FirstUse(rec, K, S[i].value) < k
  BY <1>1 DEF SlotsHold
<1>4. /\ \A w : UsesIn(rec, K, w) \subseteq 1..n /\ IsFiniteSet(UsesIn(rec, K, w))
      /\ \A k \in K : k \in 1..n /\ rec[k].value \in Values
      /\ \A w : UsesIn(rec, K, w) # {} =>
           /\ FirstUse(rec, K, w) \in K /\ rec[FirstUse(rec, K, w)].value = w
           /\ w \in Values
  <2>1. \A k \in K : k \in 1..n /\ rec[k] \in Dependences
    OBVIOUS
  <2>2. \A k \in K : k \in 1..n /\ rec[k].value \in Values
    BY <2>1 DEF Dependences
  <2>3. ASSUME NEW w
        PROVE  UsesIn(rec, K, w) \subseteq 1..n /\ IsFiniteSet(UsesIn(rec, K, w))
    <3>1. UsesIn(rec, K, w) \subseteq 1..n
      BY DEF UsesIn
    <3> HIDE DEF n
    <3> QED
      BY <1>2, <3>1, FirstStays
  <2>4. ASSUME NEW w, UsesIn(rec, K, w) # {}
        PROVE  FirstUse(rec, K, w) \in UsesIn(rec, K, w)
    <3>1. UsesIn(rec, K, w) \subseteq Nat
      BY <2>3
    <3> QED
      BY <2>4, <3>1, FirstIs DEF FirstUse
  <2>5. ASSUME NEW w, UsesIn(rec, K, w) # {}
        PROVE  FirstUse(rec, K, w) \in K /\ rec[FirstUse(rec, K, w)].value = w /\ w \in Values
    BY <2>2, <2>4, <2>5 DEF UsesIn
  <2> QED
    BY <2>2, <2>3, <2>5
<1> HIDE DEF S, n
<1> DEFINE slotted == {S[i].value : i \in 1..m}
<1>5. IsFiniteSet(slotted) /\ Cardinality(slotted) = m
  <2> DEFINE f == [i \in 1..m |-> S[i].value]
  <2>1. f \in Surjection(1..m, slotted) /\ f \in Injection(1..m, slotted)
    BY <1>3 DEF Surjection, Injection, IsInjective
  <2>2. IsFiniteSet(1..m) /\ Cardinality(1..m) = m
    <3>1. Cardinality(1..m) = IF 1 > m THEN 0 ELSE m - 1 + 1
      BY <1>2, FS_Interval
    <3> QED
      BY <1>2, <3>1, FS_Interval
  <2> HIDE DEF f, slotted
  <2> QED
    BY <2>1, <2>2, FS_Surjection
<1>6. ASSUME NEW w
      PROVE  IsFiniteSet(Upto(w))
  <2> DEFINE T == {j \in K : j <= FirstUse(rec, K, w)}
             f == [k \in T |-> rec[k].value]
  <2>1. T \subseteq 1..n
    BY <1>4
  <2>2. IsFiniteSet(T)
    <3> HIDE DEF T
    <3> QED
      BY <1>2, <2>1, FirstStays
  <2>3. f \in Surjection(T, Upto(w))
    BY DEF Surjection
  <2> HIDE DEF f, T, Upto
  <2> QED
    BY <2>2, <2>3, FS_Surjection
\* A value has a slot if and only if it is early.
<1>7. ASSUME NEW i \in 1..m
      PROVE  S[i].value \in Early
  <2> DEFINE w == S[i].value
  <2>1. UsesIn(rec, K, w) # {} /\ w \in Values
    BY <1>3, <1>4
  <2>2. Upto(w) \subseteq slotted
    <3>1. ASSUME NEW k \in K, k <= FirstUse(rec, K, w)
          PROVE  \E j \in 1..m : S[j].value = rec[k].value
      <4>1. FirstUse(rec, K, w) \in 1..n /\ k \in 1..n
        BY <1>4, <2>1
      <4>2. ~ (FirstUse(rec, K, w) < k)
        BY <1>2, <3>1, <4>1
      <4> QED
        BY <1>3, <4>2
    <3> QED
      BY <3>1
  <2>3. Cardinality(Upto(w)) <= m
    <3> HIDE DEF Upto, slotted
    <3> QED
      BY <1>5, <2>2, FS_Subset
  <2>4. Cardinality(Upto(w)) \in Nat
    <3> HIDE DEF Upto
    <3> QED
      BY <1>6, FS_CardinalityType
  <2> HIDE DEF Upto
  <2> QED
    BY <1>2, <2>1, <2>3, <2>4
<1>8. ASSUME NEW w \in Early
      PROVE  \E i \in 1..m : S[i].value = w
  <2>1. SUFFICES ASSUME ~ \E i \in 1..m : S[i].value = w
                 PROVE  FALSE
    OBVIOUS
  <2> DEFINE k == FirstUse(rec, K, w)
  <2>2. UsesIn(rec, K, w) # {} /\ Cardinality(Upto(w)) <= MAX_VALUES
    OBVIOUS
  <2>3. k \in K /\ rec[k].value = w /\ k \in 1..n
    BY <1>4, <2>2
  <2>4. m = MAX_VALUES /\ \A i \in 1..m : FirstUse(rec, K, S[i].value) < k
    BY <1>3, <2>1, <2>3
  <2>5. slotted \cup {w} \subseteq Upto(w)
    <3>1. ASSUME NEW i \in 1..m
          PROVE  S[i].value \in Upto(w)
      <4>1. FirstUse(rec, K, S[i].value) \in K /\ rec[FirstUse(rec, K, S[i].value)].value = S[i].value
            /\ FirstUse(rec, K, S[i].value) \in 1..n
        BY <1>3, <1>4
      <4>2. FirstUse(rec, K, S[i].value) <= k
        BY <1>2, <2>3, <2>4, <4>1
      <4> QED
        BY <4>1, <4>2
    <3>2. w \in Upto(w)
      BY <1>2, <2>3
    <3> QED
      BY <3>1, <3>2
  <2>6. Cardinality(slotted \cup {w}) = m + 1 /\ IsFiniteSet(slotted \cup {w})
    <3>1. w \notin slotted
      BY <2>1
    <3> HIDE DEF slotted
    <3> QED
      BY <1>5, <3>1, FS_AddElement
  <2>7. Cardinality(slotted \cup {w}) <= Cardinality(Upto(w)) /\ Cardinality(Upto(w)) \in Nat
    <3> HIDE DEF slotted, Upto
    <3> QED
      BY <1>6, <2>5, FS_Subset, FS_CardinalityType
  <2> HIDE DEF slotted, Upto, Early
  <2> QED
    BY <1>2, <2>2, <2>4, <2>6, <2>7
<1>9. \A i \in 1..MAX_VALUES : S[i].count # 0 <=> i \in 1..m
  <2>1. \A i \in 1..m : S[i].count # 0
    BY <1>3, <1>4, FS_EmptySet
  <2> QED
    BY <1>2, <1>3, <2>1 DEF Slot0
<1>10. ASSUME NEW x
       PROVE  (\E i \in 1..MAX_VALUES : S[i].count # 0 /\ x = <<S[i].value, S[i].count>>)
              <=> (\E v \in Early : x = <<v, Cardinality(UsesIn(rec, K, v))>>)
  <2> HIDE DEF Early
  <2> QED
    BY <1>2, <1>3, <1>7, <1>8, <1>9
<1>11. {<<s.value, s.count>> : s \in {S[i] : i \in {j \in 1..MAX_VALUES : S[j].count # 0}}}
       = {<<v, Cardinality(UsesIn(rec, K, v))>> : v \in Early}
  <2> HIDE DEF Early
  <2> QED
    BY <1>10
<1> QED
  BY <1>11 DEF S

\* In every reachable state the table of dependences holds what was recorded: an
\* entry counts every dependence it stands for, and lists the first MAX_VALUES
\* distinct values with all of their uses.
THEOREM ValuesAreExact == Spec => []ValuesExact
<1>1. TableInv => ValuesExact
  <2> SUFFICES ASSUME TableInv, NEW load \in Loads, NEW dist \in Distances, NEW store \in Stores
               PROVE  LET map     == instructionInfo[load][dist]
                          seen    == RecordedUnder(load, dist, store)
                          Uses(v) == {k \in seen : recorded[k].value = v}
                          Rank(v) == Cardinality({recorded[k].value : k \in {j \in seen : j <= FirstOf(Uses(v))}})
                      IN  /\ store \in DOMAIN map <=> seen # {}
                          /\ store \in DOMAIN map =>
                               /\ map[store].count = Cardinality(seen)
                               /\ map[store].loop = recorded[FirstOf(seen)].loop
                               /\ {<<s.value, s.count>> :
                                      s \in {map[store].values[i] : i \in {j \in 1..MAX_VALUES :
                                               map[store].values[j].count # 0}}}
                                  = {<<v, Cardinality(Uses(v))>> :
                                      v \in {w \in Values : Uses(w) # {} /\ Rank(w) <= MAX_VALUES}}
    BY DEF ValuesExact
  <2> DEFINE map  == instructionInfo[load][dist]
             seen == RecordedUnder(load, dist, store)
  <2>1. /\ store \in DOMAIN map <=> seen # {}
        /\ store \in DOMAIN map => map[store] \in Entries /\ EntryHolds(map[store], recorded, seen)
        /\ recorded \in Seq(Dependences) /\ seen \subseteq 1..Len(recorded)
    BY DEF TableInv, TableTypes, MapHolds, RecordedUnder
  <2> HIDE DEF map, seen
  <2>2. ASSUME store \in DOMAIN map
        PROVE  /\ map[store].count = Cardinality(seen)
               /\ map[store].loop = recorded[FirstOf(seen)].loop
    BY <2>1, <2>2 DEF EntryHolds
  <2>3. ASSUME store \in DOMAIN map
        PROVE  {<<s.value, s.count>> :
                  s \in {map[store].values[i] : i \in {j \in 1..MAX_VALUES : map[store].values[j].count # 0}}}
               = {<<v, Cardinality(UsesIn(recorded, seen, v))>> :
                  v \in {w \in Values : /\ UsesIn(recorded, seen, w) # {}
                                        /\ Cardinality({recorded[k].value :
                                             k \in {j \in seen : j <= FirstUse(recorded, seen, w)}})
                                             <= MAX_VALUES}}
    BY <2>1, <2>3, SlotsAreFirst
  <2> QED
    BY <2>1, <2>2, <2>3, Zenon DEF UsesIn, FirstUse, map, seen
<1>2. Init => IInv /\ TableInv
  BY InitHolds, TableInit
<1>3. IInv /\ TableInv /\ [Next]_vars => IInv' /\ TableInv'
  BY NextKeeps, TableNext
<1> QED
  BY <1>1, <1>2, <1>3, PTL DEF Spec
===============================================================================
