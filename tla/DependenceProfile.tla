--------------------------- MODULE DependenceProfile ---------------------------
(***************************************************************************)
(* The profile of memory dependences of proj_pass/tools/utils: a           *)
(* KeyDistanceProfiler of ValueProfiles (Profile.hxx, ValueProfile.hxx)    *)
(* filled from a LoopHierarchy.  A load of what a store wrote is recorded  *)
(* under the load, the tracked distance and a key of store and loop, and   *)
(* counts the value.                                                       *)
(*                                                                         *)
(* ls_key_t's operator< compares the first 32 bits of the key, which are   *)
(* the store: the map holds one entry per store, with the loop the entry   *)
(* was made for.  The program that stores and loads is external; it uses   *)
(* one address.                                                            *)
(***************************************************************************)
EXTENDS LoopHierarchy, FiniteSets

CONSTANTS Loads, Stores, Values,
          MaxTrackedDistance,   \* maxTrackedDistance, 2 in the code
          MAX_VALUES,           \* 5 in the code
          MaxRecorded           \* model bound: loads executed

ASSUME ProfileAssumption == /\ MaxTrackedDistance \in Nat \ {0}
                            /\ MAX_VALUES \in Nat \ {0}
                            /\ Values \subseteq Nat /\ MaxRecorded \in Nat

VARIABLES instructionInfo,
          lastStore,    \* the store the address was last written by, and when
          recorded      \* history: the dependences recorded, in order

vars == <<loopVars, instructionInfo, lastStore, recorded>>

Distances == 0..(MaxTrackedDistance - 1)

TrackedDistance(dist) == IF dist >= MaxTrackedDistance THEN MaxTrackedDistance - 1 ELSE dist

\* A new ValueProfile: memset makes every slot hold the value 0, not counted.
NewProfile(loop) == [loop |-> loop, count |-> 0,
                     values |-> [i \in 1..MAX_VALUES |-> [value |-> 0, count |-> 0]]]

FirstOf(S) == CHOOSE i \in S : \A j \in S : i <= j

\* Mutant: a full table takes the new value in its last slot.
IncrementReplaces(profile, value) ==
  LET slots == profile.values
      same  == {i \in 1..MAX_VALUES : slots[i].value = value}
      free  == {i \in 1..MAX_VALUES : slots[i].count = 0}
      used  == IF same # {} THEN FirstOf(same)
               ELSE IF free # {} THEN FirstOf(free) ELSE MAX_VALUES
      count == IF same # {} THEN slots[used].count + 1 ELSE 1
  IN  [profile EXCEPT !.count = @ + 1, !.values[used] = [value |-> value, count |-> count]]

\* ValueProfile::increment: the first slot with the value, else the first free one.
Increment(profile, value) ==
  LET slots   == profile.values
      same    == {i \in 1..MAX_VALUES : slots[i].value = value}
      free    == {i \in 1..MAX_VALUES : slots[i].count = 0}
      counted == [profile EXCEPT !.count = @ + 1]
  IN  IF same # {} THEN [counted EXCEPT !.values[FirstOf(same)].count = @ + 1]
      ELSE IF free # {} THEN [counted EXCEPT !.values[FirstOf(free)] = [value |-> value, count |-> 1]]
      ELSE counted

\* getProfile: the key that is found is any one with the same store.
GetProfile(map, store, loop) == IF store \in DOMAIN map THEN map[store] ELSE NewProfile(loop)

-------------------------------------------------------------------------------
Init == /\ LoopInit
        /\ instructionInfo = [load \in Loads |-> [dist \in Distances |-> <<>>]]
        /\ lastStore = <<>>
        /\ recorded = <<>>

\* The program stores to the address, at a time of its own.
Store(store) == /\ Tick
                /\ lastStore' = << [store |-> store, at |-> time'] >>
                /\ UNCHANGED <<instructionInfo, recorded>>

\* The loops change, or time passes.
LoopStep == /\ LoopNext
            /\ UNCHANGED <<instructionInfo, lastStore, recorded>>

\* A load of the address: its dependence is found and the value counted.  (With
\* the depth out of range, findLoop would read outside the vector.)
Load(load, value) ==
  /\ outcome = "running" /\ current_depth \in Levels
  /\ lastStore # <<>> /\ Len(recorded) < MaxRecorded
  /\ LET store == lastStore[1].store
         at    == lastStore[1].at
         level == FindLoop(at)
         loop  == loop_info[level].loop_id
         dist  == TrackedDistance(CalculateDistance(level, at))
         map   == instructionInfo[load][dist]
         entry == Increment(GetProfile(map, store, loop), value)
     IN  \/ /\ Unexpected(at)
            /\ outcome' = "abort"
            /\ UNCHANGED <<instructionInfo, recorded>>
         \/ /\ ~Unexpected(at)
            /\ instructionInfo' = [instructionInfo EXCEPT ![load][dist] =
                 [s \in DOMAIN map \cup {store} |-> IF s = store THEN entry ELSE map[s]]]
            /\ recorded' = Append(recorded,
                 [load |-> load, dist |-> CalculateDistance(level, at), store |-> store,
                  loop |-> loop, value |-> value])
            /\ UNCHANGED outcome
  /\ UNCHANGED <<loop_info, current_depth, max_depth, time, active, loopEvents, lastStore>>

Next == (\E store \in Stores : Store(store)) \/ LoopStep
        \/ \E load \in Loads, value \in Values : Load(load, value)

Spec == Init /\ [][Next]_vars

-------------------------------------------------------------------------------
\* Where the recorded dependences are that an entry stands for.
RecordedUnder(load, dist, store) ==
  {k \in 1..Len(recorded) :
      /\ recorded[k].load = load /\ recorded[k].store = store
      /\ \/ recorded[k].dist = dist
         \/ recorded[k].dist > dist /\ dist = MaxTrackedDistance - 1}

\* Every recorded dependence is in the entry of its load, distance (those beyond
\* the last tracked one are in the last) and store, and nothing else is: the
\* entry counts them all, and of the first MAX_VALUES distinct values, each one.
\* Dependences of one store carried by different loops share an entry, which keeps
\* the loop of the first of them.
ValuesExact ==
  \A load \in Loads, dist \in Distances, store \in Stores :
    LET map     == instructionInfo[load][dist]
        seen    == RecordedUnder(load, dist, store)
        Uses(v) == {k \in seen : recorded[k].value = v}
        Rank(v) == Cardinality({recorded[k].value : k \in {j \in seen : j <= FirstOf(Uses(v))}})
    IN  /\ store \in DOMAIN map <=> seen # {}
        /\ store \in DOMAIN map =>
             /\ map[store].count = Cardinality(seen)
             /\ map[store].loop = recorded[FirstOf(seen)].loop
             /\ {<<s.value, s.count>> :
                    s \in {map[store].values[i] : i \in {j \in 1..MAX_VALUES :
                             map[store].values[j].count # 0}}}
                = {<<v, Cardinality(Uses(v))>> :
                    v \in {w \in Values : Uses(w) # {} /\ Rank(w) <= MAX_VALUES}}

\* findLoop's abort needs more exits than entries: while the program's own level
\* is active, every store is later than it.
NoUnexpectedTimeStamp ==
  active # <<>> /\ active[1].loop = 0 => outcome # "abort"
===============================================================================
