------------------------------ MODULE TopStrides ------------------------------
(***************************************************************************)
(* What a stride collector promises, without saying how.  It remembers how *)
(* often each stride was recorded, and at any moment it can name a most    *)
(* frequent stride and a set of at most K strides such that no other       *)
(* stride was recorded more often than one of them.                        *)
(***************************************************************************)
EXTENDS Integers, FiniteSets

CONSTANTS Values,     \* the strides
          K           \* how many top strides are kept

VARIABLES seen,       \* how often each stride was recorded
          top,        \* the set of top strides
          dominant    \* a most frequent stride, NoValue before the first

NoValue == -1

tsvars == <<seen, top, dominant>>

Recorded(count) == {v \in Values : count[v] > 0}

\* T is a right answer to "the K most frequent strides" under these counts.
IsTopSet(T, count) ==
  /\ T \subseteq Recorded(count)
  /\ Cardinality(T) <= K
  /\ \A u \in Recorded(count) \ T :
        Cardinality(T) = K /\ \A t \in T : count[u] <= count[t]

IsMode(v, count) == /\ v \in Recorded(count)
                    /\ \A u \in Values : count[u] <= count[v]

TSInit == /\ seen = [v \in Values |-> 0]
          /\ top = {}
          /\ dominant = NoValue

\* Recording a stride counts it and re-answers both questions.  Ties change
\* nothing: a stride loses its place among the top ones, or as the dominant one,
\* only to the recorded stride and only when that is strictly more frequent.
Record(v) == /\ seen' = [seen EXCEPT ![v] = @ + 1]
             /\ top' \subseteq top \cup {v}
             /\ IsTopSet(top', seen')
             /\ \A t \in top \ top' : seen[t] < seen'[v]
             /\ dominant' \in {v, dominant} \cap top'
             /\ IsMode(dominant', seen')
             /\ dominant' # dominant => \A u \in Values \ {v} : seen'[u] < seen'[v]

TSNext == \E v \in Values : Record(v)

TSSpec == TSInit /\ [][TSNext]_tsvars
===============================================================================
