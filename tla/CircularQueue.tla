----------------------------- MODULE CircularQueue -----------------------------
(***************************************************************************)
(* circular_buffer of proj_pass/tools/utils/CircularQueue.hxx, with its    *)
(* default policy, which accepts data when full: a record of the fields    *)
(* and an operator per member function.  A capacity of 1 is excluded: the  *)
(* initial head_ of 1 would be outside the array.                          *)
(***************************************************************************)
EXTENDS Integers, Sequences

\* The array is uninitialised memory: `garbage` stands for what is in it.
NewQueue(capacity, garbage) ==
  [array |-> [i \in 0..(capacity - 1) |-> garbage], head |-> 1, tail |-> 0,
   contents_size |-> 0]

\* An index one past the end of the array is its beginning.
Wrapped(capacity, n) == IF n = capacity THEN 0 ELSE n

IncrementHead(q, capacity) ==
  [q EXCEPT !.head = Wrapped(capacity, @ + 1), !.contents_size = @ - 1]

IncrementTail(q, capacity) ==
  [q EXCEPT !.tail = Wrapped(capacity, @ + 1), !.contents_size = @ + 1]

\* push_back: the oldest item of a full buffer is overwritten.
PushBack(q, capacity, item) ==
  LET put == [q EXCEPT !.array[Wrapped(capacity, q.tail + 1)] = item]
  IN  IncrementTail(IF q.contents_size = capacity THEN IncrementHead(put, capacity)
                                                  ELSE put, capacity)

\* clear: the items stay in the array.
Clear(q) == [q EXCEPT !.head = 1, !.tail = 0, !.contents_size = 0]

\* operator[].
At(q, capacity, n) == q.array[(n + q.head) % capacity]

\* What iterating from begin() to end() gives.
Contents(q, capacity) == [n \in 1..q.contents_size |-> At(q, capacity, n - 1)]
===============================================================================
