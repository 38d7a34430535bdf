----------------------------- MODULE CircularBuffer -----------------------------
(***************************************************************************)
(* Two circular buffers of proj_pass/tools/utils/CircularQueue.hxx, their  *)
(* public member functions called in any order, on any of the two, as a    *)
(* client of the class template may.  Beside the fields of CircularQueue   *)
(* the model keeps the places of each array where an element has been      *)
(* constructed and not yet destroyed.                                      *)
(***************************************************************************)
EXTENDS CircularQueue

CONSTANTS Items,            \* the elements
          DefaultCapacity,  \* default_capacity, 100 in the code
          MaxCapacity       \* model bound: the capacities asked for

ASSUME ItemsAssumption == Items \subseteq Nat \ {0}
ASSUME CapacityAssumption == DefaultCapacity \in 2..MaxCapacity /\ MaxCapacity \in Nat

Both == {1, 2}
Garbage == 0          \* what is in memory not yet written
Capacities == 2..MaxCapacity

VARIABLES buf,        \* the fields of the two buffers but for array_size_
          array_size, \* array_size_ of each
          built,      \* subscripts of each array with a constructed element
          astray      \* functions that constructed over an element, or destroyed none

bufferVars == <<buf, array_size, built, astray>>

Subscripts(q, capacity) == {(n + q.head) % capacity : n \in 0..(q.contents_size - 1)}

BuffersInit == /\ array_size \in [Both -> Capacities]
               /\ buf = [b \in Both |-> NewQueue(array_size[b], Garbage)]
               /\ built = [b \in Both |-> {}]
               /\ astray = {}

PopFront(q, capacity) == IncrementHead(q, capacity)

\* assign_into: push_back of all of s, after clear() if there is something.
Filled(q, capacity, s) ==
  LET after[n \in 0..Len(s)] ==     \* n calls of push_back
        IF n = 0 THEN (IF q.contents_size = 0 THEN q ELSE Clear(q))
                 ELSE PushBack(after[n - 1], capacity, s[n])
  IN  after[Len(s)]

\* What iterating over buffer b gives.
In(b) == Contents(buf[b], array_size[b])

\* Mutant: a buffer grows by a quarter, which 2 does not.
GrownByQuarter(capacity) == capacity + capacity \div 4

\* The capacity assign_into_reserving reserves when there is no more room.
Grown(capacity) == capacity + capacity \div 2

\* The capacity assign_into_reserving ends with, for n elements.
CapacityFor(capacity, n) ==
  LET grown[i \in 0..n] == IF i = 0 THEN capacity ELSE Grown(grown[i - 1])
      ends == {i \in 0..n : n <= grown[i] \/ Grown(grown[i]) = grown[i]}
  IN  grown[CHOOSE i \in ends : \A j \in ends : i <= j]

\* The buffer `b` becomes `q`, of the given capacity, made by construction alone.
Becomes(b, q, capacity) ==
  /\ buf' = [buf EXCEPT ![b] = q]
  /\ array_size' = [array_size EXCEPT ![b] = capacity]
  /\ built' = [built EXCEPT ![b] = Subscripts(q, capacity)]

-------------------------------------------------------------------------------
\* push_back constructs an element, or assigns to the oldest.
PushBackOn(b) ==
  LET next == Wrapped(array_size[b], buf[b].tail + 1)
      full == buf[b].contents_size = array_size[b]
  IN  /\ \E item \in Items : buf' = [buf EXCEPT ![b] = PushBack(@, array_size[b], item)]
      /\ built' = [built EXCEPT ![b] = @ \cup {next}]
      /\ astray' = IF full = (next \in built[b]) THEN astray ELSE astray \cup {"push_back"}
      /\ UNCHANGED array_size

\* Mutant: the element destroyed is the one at head_ after it was moved on.
PopFrontLate(b) ==
  /\ buf[b].contents_size > 0
  /\ buf' = [buf EXCEPT ![b] = PopFront(@, array_size[b])]
  /\ built' = [built EXCEPT ![b] = @ \ {buf'[b].head}]
  /\ astray' = IF buf'[b].head \in built[b] THEN astray ELSE astray \cup {"pop_front"}
  /\ UNCHANGED array_size

\* pop_front destroys the element at head_; the buffer must not be empty.
PopFrontOn(b) ==
  /\ buf[b].contents_size > 0
  /\ buf' = [buf EXCEPT ![b] = PopFront(@, array_size[b])]
  /\ built' = [built EXCEPT ![b] = @ \ {buf[b].head}]
  /\ astray' = IF buf[b].head \in built[b] THEN astray ELSE astray \cup {"pop_front"}
  /\ UNCHANGED array_size

ClearOn(b) ==
  /\ buf' = [buf EXCEPT ![b] = Clear(@)]
  /\ built' = [built EXCEPT ![b] = @ \ Subscripts(buf[b], array_size[b])]
  /\ astray' = IF Subscripts(buf[b], array_size[b]) \subseteq built[b] THEN astray ELSE astray \cup {"clear"}
  /\ UNCHANGED array_size

\* reserve fills a new, larger buffer and swaps it in.
Reserve(b) ==
  /\ \E n \in Capacities : /\ array_size[b] < n
                           /\ Becomes(b, Filled(NewQueue(n, Garbage), n, In(b)), n)
  /\ UNCHANGED astray

\* operator=: the copy constructor takes over head_, tail_ and contents_size_ and
\* assigns into the buffer so described, of which assign_into destroys elements that
\* were never constructed.  The copy is swapped in.
Assign(b, c) ==
  LET copy == [buf[c] EXCEPT !.array = NewQueue(array_size[c], Garbage).array]
  IN  /\ Becomes(b, Filled(copy, array_size[c], In(c)), array_size[c])
      /\ astray' = IF copy.contents_size = 0 THEN astray ELSE astray \cup {"copy"}

\* The constructor from a range, here what another buffer holds.
FromRange(b, c) ==
  LET n == CapacityFor(DefaultCapacity, buf[c].contents_size)
  IN  Becomes(b, Filled(NewQueue(n, Garbage), n, In(c)), n) /\ UNCHANGED astray

SwapThem == LET Swapped(f) == [b \in Both |-> f[3 - b]]
            IN  /\ buf' = Swapped(buf) /\ array_size' = Swapped(array_size) /\ built' = Swapped(built)
                /\ UNCHANGED astray

BuffersNext == \/ SwapThem
               \/ \E b \in Both : \/ PushBackOn(b) \/ PopFrontOn(b) \/ ClearOn(b) \/ Reserve(b)
                                  \/ \E c \in Both : Assign(b, c) \/ FromRange(b, c)

BuffersSpec == BuffersInit /\ [][BuffersNext]_bufferVars

-------------------------------------------------------------------------------
\* After any calls front() and back() are the ends of what the iterators give.
EndsAgree == \A b \in Both : In(b) # <<>> => /\ buf[b].array[buf[b].head] = In(b)[1]
                                             /\ buf[b].array[buf[b].tail] = In(b)[Len(In(b))]

\* The elements alive are those the buffer holds, and only the copy constructor
\* destroys what was not constructed.
BuiltAreHeld == /\ \A b \in Both : built[b] = Subscripts(buf[b], array_size[b])
                /\ astray \subseteq {"copy"}

\* Whatever was called before, on either buffer, its elements are sound.
BuffersSound == EndsAgree /\ BuiltAreHeld

\* The queues the fields stand for.
Promise == INSTANCE BoundedQueue WITH Buffers <- Both, limit <- array_size,
                                      items <- [b \in Both |-> In(b)]
===============================================================================
