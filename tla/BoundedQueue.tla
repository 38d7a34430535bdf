------------------------------ MODULE BoundedQueue ------------------------------
(***************************************************************************)
(* What the comment on circular_buffer (CircularQueue.hxx) promises of its *)
(* buffers: a sequence each, to which data is added at the end and removed *)
(* from the front, and, when it is as long as the buffer's limit, the      *)
(* oldest data is thrown away for new data.                                *)
(***************************************************************************)
EXTENDS Integers, Sequences

CONSTANTS Buffers, Items

VARIABLES items, limit

Init == items = [b \in Buffers |-> <<>>] /\ limit \in [Buffers -> Nat]

Holds(b, s) == items' = [items EXCEPT ![b] = s]

Push(b) == /\ \E item \in Items :
                Holds(b, Append(IF Len(items[b]) < limit[b] THEN items[b] ELSE Tail(items[b]), item))
           /\ UNCHANGED limit

Pop(b) == items[b] # <<>> /\ Holds(b, Tail(items[b])) /\ UNCHANGED limit

Clear(b) == Holds(b, <<>>) /\ UNCHANGED limit

\* A buffer is given a larger limit and keeps what is in it.
Reserve(b) == /\ limit' = [limit EXCEPT ![b] = limit'[b]] /\ limit'[b] > limit[b]
              /\ UNCHANGED items

\* A buffer comes to hold what another does, and has room for it.
Copy(b, c) == /\ Holds(b, items[c])
              /\ limit' = [limit EXCEPT ![b] = limit'[b]] /\ limit'[b] >= Len(items[c])

Swap(b, c) == /\ items' = [items EXCEPT ![b] = items[c], ![c] = items[b]]
              /\ limit' = [limit EXCEPT ![b] = limit[c], ![c] = limit[b]]

Next == \E b \in Buffers : \/ Push(b) \/ Pop(b) \/ Clear(b) \/ Reserve(b)
                           \/ \E c \in Buffers : Copy(b, c) \/ Swap(b, c)

Spec == Init /\ [][Next]_<<items, limit>>
===============================================================================
