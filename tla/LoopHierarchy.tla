----------------------------- MODULE LoopHierarchy -----------------------------
(***************************************************************************)
(* The stack of active loop invocations of a profiled program              *)
(* (proj_pass/tools/utils/LoopHierarchy.hxx).  A level has the time of the *)
(* invocation and a circular buffer of the times of its last iterations;   *)
(* findLoop and calculateDistance say which loop carries a dependence on a *)
(* store made at a given time, and over how many iterations.  A level is   *)
(* reused by every loop entered at its depth.                              *)
(*                                                                         *)
(* The instrumentation that calls the class is not in the repository: here *)
(* it may enter, iterate and leave loops in any order, with a clock that   *)
(* does not go back.  current_depth is a uint32_t that starts at -1, so    *)
(* leaving more loops than were entered (a longjmp, a missing hook) wraps. *)
(***************************************************************************)
EXTENDS Integers, Sequences, CircularQueue

CONSTANTS LoopIds,          \* ids of the program's loops; 0 is the program's
          MaxLoopDepth,     \* maxLoopDepth, 1024 in the code
          MaxDepDist,       \* maxDepDist, 5 in the code
          DepthModulus,     \* 2^32 in the code
          IdModulus,        \* 2^16 in the code, of a loop_id
          MaxTime,          \* model bound: the clock
          MaxLoopEvents     \* model bound: loops entered, iterated or left

ASSUME LoopIdsAssumption == LoopIds \subseteq Nat \ {0}
ASSUME SizesAssumption ==
  /\ MaxDepDist \in Nat /\ MaxDepDist >= 2
  /\ MaxLoopDepth \in Nat \ {0}
  /\ DepthModulus \in Nat /\ DepthModulus > MaxLoopDepth + 1
ASSUME IdsAssumption == IdModulus \in Nat \ {0}
ASSUME LoopBoundsAssumption == MaxTime \in Nat /\ MaxLoopEvents \in Nat

VARIABLES loop_info, current_depth, max_depth,
          outcome,          \* "running", or how the program ended
          time,             \* the client's clock
          active,           \* history: the invocations not yet left, outermost first
          loopEvents        \* history: loops entered, iterated or left so far

loopVars == <<loop_info, current_depth, max_depth, outcome, time, active, loopEvents>>

Levels == 0..(MaxLoopDepth - 1)

\* loop_id is a uint16_t, the id given for it a uint64_t.
StoredId(loop) == loop % IdModulus

\* Mutant: the iterations of the level's previous loop stay.
ResetKeepsIterations(info, loop, now) ==
  [info EXCEPT !.loop_id = StoredId(loop), !.invocation_time_stamp = now]

Reset(info, loop, now) ==
  [info EXCEPT !.loop_id = StoredId(loop), !.invocation_time_stamp = now,
               !.iteration_time_stamps = Clear(@)]

-------------------------------------------------------------------------------
\* The constructor enters the program itself as loop 0.
LoopInit ==
  /\ loop_info = [l \in Levels |->
       [iteration_time_stamps |-> NewQueue(MaxDepDist, 0),
        invocation_time_stamp |-> 0, loop_id |-> 0]]
  /\ current_depth = 0
  /\ max_depth = 0
  /\ outcome = "running"
  /\ time = 0
  /\ active = << [loop |-> 0, start |-> 0, iterations |-> <<>>] >>
  /\ loopEvents = 0

\* An event of the loops, while the program runs.
LoopEvent == /\ outcome = "running"
             /\ loopEvents < MaxLoopEvents
             /\ loopEvents' = loopEvents + 1
             /\ UNCHANGED time

\* Mutant: the depth is not incremented.
EnterLoopSameDepth(loop) ==
  /\ LoopEvent
  /\ current_depth \in Levels
  /\ loop_info' = [loop_info EXCEPT ![current_depth] = Reset(@, loop, time)]
  /\ active' = Append(active, [loop |-> loop, start |-> time, iterations |-> <<>>])
  /\ UNCHANGED <<current_depth, max_depth, outcome>>

\* enterLoop: the depth is incremented before the vector's `at` checks it.
EnterLoop(loop) ==
  LET depth == (current_depth + 1) % DepthModulus
  IN  /\ LoopEvent
      /\ current_depth' = depth
      /\ \/ /\ depth \in Levels
            /\ loop_info' = [loop_info EXCEPT ![depth] = Reset(@, loop, time)]
            /\ max_depth' = IF depth > max_depth THEN depth ELSE max_depth
            /\ active' = Append(active, [loop |-> loop, start |-> time, iterations |-> <<>>])
            /\ UNCHANGED outcome
         \/ /\ depth \notin Levels
            /\ outcome' = "out_of_range"
            /\ UNCHANGED <<loop_info, max_depth, active>>

\* exitLoop: nothing checks that a loop was entered.  (A second exit too many
\* leaves the depth out of range as the first one did, and is left out.)
ExitLoop == /\ LoopEvent
            /\ active # <<>>
            /\ current_depth' = (current_depth - 1) % DepthModulus
            /\ active' = SubSeq(active, 1, Len(active) - 1)
            /\ UNCHANGED <<loop_info, max_depth, outcome>>

\* loopIteration, of the current loop; getCurrentLoop's second `at` throws.
LoopIteration ==
  /\ LoopEvent
  /\ \/ /\ current_depth \in Levels
        /\ loop_info' = [loop_info EXCEPT ![current_depth].iteration_time_stamps =
                           PushBack(@, MaxDepDist, time)]
        /\ active' = [active EXCEPT ![Len(active)].iterations = Append(@, time)]
        /\ UNCHANGED outcome
     \/ /\ current_depth \notin Levels
        /\ outcome' = "out_of_range"
        /\ UNCHANGED <<loop_info, active>>
  /\ UNCHANGED <<current_depth, max_depth>>

\* The client's clock.
Tick == /\ outcome = "running"
        /\ time < MaxTime
        /\ time' = time + 1
        /\ UNCHANGED <<loop_info, current_depth, max_depth, outcome, active, loopEvents>>

LoopNext == Tick \/ (\E loop \in LoopIds : EnterLoop(loop)) \/ ExitLoop \/ LoopIteration

-------------------------------------------------------------------------------
\* The levels above the root that were entered before the time, by findLoop's
\* test.
EnteredBefore(store) ==
  {l \in 1..current_depth : loop_info[l].invocation_time_stamp < store}

\* findLoop aborts when even the root was entered later.
Unexpected(store) == /\ store # 0 /\ EnteredBefore(store) = {}
                     /\ loop_info[0].invocation_time_stamp > store

\* Mutant: the outermost of them.
FindOutermost(store) ==
  LET levels == EnteredBefore(store)
  IN  IF store = 0 \/ levels = {} THEN 0
      ELSE CHOOSE l \in levels : \A m \in levels : l <= m

\* findLoop: the level of the innermost loop entered before the store.
FindLoop(store) ==
  LET levels == EnteredBefore(store)
  IN  IF store = 0 \/ levels = {} THEN 0
      ELSE CHOOSE l \in levels : \A m \in levels : m <= l

\* calculateDistance: from the latest iteration back to one not after the store.
CalculateDistance(level, store) ==
  LET q     == loop_info[level].iteration_time_stamps
      times == Contents(q, MaxDepDist)
      early == {n \in 1..Len(times) : times[n] <= store}
  IN  IF early = {} THEN Len(times)
      ELSE Len(times) - (CHOOSE n \in early : \A k \in early : k <= n)

-------------------------------------------------------------------------------
\* A store is found in the innermost active loop that was entered before it, or
\* else in the outermost one: whatever loops used the levels before.  The loop_id
\* found there is what sixteen bits hold of that loop's id.
InnermostLoopFound ==
  outcome = "running" /\ active # <<>> => \A store \in 1..time :
    LET before == {n \in 1..Len(active) : active[n].start < store}
        level  == FindLoop(store)
    IN  /\ level + 1 \in before \/ (before = {} /\ level = 0)
        /\ \A n \in before : n <= level + 1
        /\ loop_info[level].loop_id = StoredId(active[level + 1].loop)

\* The distance is the number of iterations the loop began after the store, all
\* of the invocation's and none of an earlier one's, up to MaxDepDist.
DistanceExact ==
  outcome = "running" /\ active # <<>> => \A store \in 1..time, n \in 1..Len(active) :
    LET later == {k \in 1..Len(active[n].iterations) : active[n].iterations[k] > store}
        count == IF later = {} THEN 0
                 ELSE Len(active[n].iterations) + 1 - (CHOOSE k \in later : \A j \in later : k <= j)
    IN  CalculateDistance(n - 1, store) = IF count < MaxDepDist THEN count ELSE MaxDepDist
===============================================================================
