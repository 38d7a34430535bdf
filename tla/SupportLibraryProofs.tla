---------------------------- MODULE SupportLibraryProofs --------------------------
(***************************************************************************)
(* Theorems about the library function wrappers and the circular buffer.   *)
(*                                                                         *)
(* LibraryHeap, for heaps and calls of any size: headers, blocks and their *)
(* owners agree, and so does what the profiler is told.  They rest on the  *)
(* allocator's blocks being apart (Apart), which is what lets one block be *)
(* freed, resized or moved and all others stay as told.                    *)
(*                                                                         *)
(* LibraryCalls, for buffers of any size and any number of descriptors:    *)
(* who can be at fault for what the profiler is not told.                  *)
(*                                                                         *)
(* CircularBuffer, for any items and capacities: the buffers implement     *)
(* BoundedQueue, since the next place to be written always comes right     *)
(* after the contents (SoundQueue).                                        *)
(***************************************************************************)
EXTENDS SupportLibrary, WellFoundedInduction, TLAPS

USE HeapAssumption

Blocks == /\ DOMAIN extent = held /\ DOMAIN header = held
          /\ held \subseteq Cells
          /\ \A s \in held : /\ extent[s] \in Sizes
                             /\ header[s] = extent[s]

\* The blocks with their headers are apart from each other.
Apart == \A s, t \in held : s # t => Block(s, extent[s]) \cap Block(t, extent[t]) = {}

\* The wrappers tell of all they write.
Told == unreported = {} /\ shrank \in BOOLEAN /\ grew \in BOOLEAN

\* ToldIsLive, block by block.
AllocatedInv == /\ ~shrank => \A c \in allocated : \E s \in held : c \in Data(s, extent[s])
                /\ ~grew => \A s \in held : Data(s, extent[s]) \subseteq allocated

HeapInv == Blocks /\ Apart /\ Told /\ AllocatedInv /\ heapStatus # "not_ours"

-------------------------------------------------------------------------------
LEMMA HeapInvInit == HeapInit => HeapInv
  BY DEF HeapInit, HeapInv, Blocks, Apart, Told, AllocatedInv

\* The properties follow from the invariant.
LEMMA HeapInvSuffices == HeapInv => BlocksAccounted /\ ProfilerTold
<1> SUFFICES ASSUME HeapInv PROVE BlocksAccounted /\ ProfilerTold
  OBVIOUS
<1> USE DEF HeapInv, Blocks
<1>1. BlocksAccounted
  BY DEF BlocksAccounted, HeadersTrue, NothingLeft, NoneTurnedAway
<1>2. ToldIsLive
  BY DEF ToldIsLive, AllocatedInv, Live
<1>3. WritesReported
  BY DEF WritesReported, Told
<1> QED
  BY <1>1, <1>2, <1>3 DEF ProfilerTold

\* Where there is room, no block is, with its header.
LEMMA RoomIsFree ==
  ASSUME HeapInv, NEW n \in Nat, NEW used, Used \subseteq used, NEW s \in Room(n, used),
         NEW t \in held
  PROVE  s \in Cells /\ Block(s, n) \cap Block(t, extent[t]) = {}
<1>1. Span(t) = Block(t, extent[t])
  BY DEF HeapInv, Blocks, Span, NoHeader, Sizes
<1>2. Block(t, extent[t]) \subseteq used
  BY <1>1 DEF Used, HeapInv, Blocks
<1> QED
  BY <1>2 DEF Room

-------------------------------------------------------------------------------
\* memprof_malloc, calloc and strdup end with a new block, of which as much is told
\* as was written.
LEMMA NewBlockStep ==
  ASSUME HeapInv, NEW n \in Sizes, NEW used, Used \subseteq used, NEW s \in Room(n, used),
         NEW written, NewBlock(s, n, written, written), heapStatus = "running"
  PROVE  HeapInv'
<1> USE DEF NewBlock, Sizes
<1>1. s \in Cells /\ s \notin held
  <2>1. s \in Cells /\ s \in Block(s, n)
    BY DEF Room, Block, Cells
  <2>2. \A t \in held : t \in Block(t, extent[t])
    BY DEF HeapInv, Blocks, Block, Cells
  <2> QED
    BY <2>1, <2>2, RoomIsFree
<1>2. Blocks'
  BY <1>1 DEF HeapInv, Blocks, With
<1>3. /\ extent'[s] = n
      /\ \A t \in held : extent'[t] = extent[t]
      /\ held' = held \cup {s}
  BY <1>1 DEF HeapInv, Blocks, With
<1>4. Apart'
  BY <1>3, RoomIsFree DEF HeapInv, Apart
<1>5. Told'
  BY DEF HeapInv, Told, Report
<1>6. AllocatedInv'
  BY <1>1, <1>3 DEF HeapInv, AllocatedInv
<1> QED
  BY <1>2, <1>4, <1>5, <1>6 DEF HeapInv

LEMMA FreeStep == HeapInv /\ heapStatus = "running" /\ Free => HeapInv'
<1> SUFFICES ASSUME HeapInv, heapStatus = "running", NEW s \in held,
                    extent' = Without(extent, s), header' = Without(header, s),
                    held' = held \ {s}, allocated' = allocated \ Data(s, header[s]),
                    unreported' = unreported \ Data(s, extent[s]),
                    UNCHANGED <<shrank, grew, heapStatus>>
             PROVE  HeapInv'
  BY DEF Free, HeapInv, Blocks, NoHeader, Sizes
<1>1. Blocks'
  BY DEF HeapInv, Blocks, Without
<1>2. \A t \in held' : extent'[t] = extent[t]
  BY DEF HeapInv, Blocks, Without
<1>3. Apart' /\ Told'
  BY <1>2 DEF HeapInv, Apart, Told
<1>4. \A t \in held' : Data(t, extent[t]) \cap Data(s, header[s]) = {}
  BY DEF HeapInv, Blocks, Apart, Block, Data, Cells, Sizes
<1>5. AllocatedInv'
  BY <1>2, <1>4 DEF HeapInv, AllocatedInv, Blocks
<1> QED
  BY <1>1, <1>3, <1>5 DEF HeapInv

-------------------------------------------------------------------------------
\* A block that is resized in place stays apart from the others, and only a growing
\* or a shrinking one sets the profiler wrong.
LEMMA ResizeStep ==
  ASSUME HeapInv, NEW s \in held, NEW n \in Sizes, ResizeInPlace(s, n), heapStatus = "running"
  PROVE  HeapInv'
<1> USE DEF ResizeInPlace, Sizes
<1>1. Blocks'
  BY DEF HeapInv, Blocks
<1>2. /\ extent'[s] = n
      /\ \A t \in held : t # s => extent'[t] = extent[t]
      /\ held' = held
  BY DEF HeapInv, Blocks
<1>3. ASSUME NEW t \in held, t # s PROVE Block(s, n) \cap Block(t, extent[t]) = {}
  <2>1. /\ Span(t) = Block(t, extent[t]) /\ Span(s) = Block(s, extent[s])
        /\ Block(s, extent[s]) \cap Block(t, extent[t]) = {}
    BY <1>3 DEF HeapInv, Blocks, Apart, Span, NoHeader
  <2>2. Block(t, extent[t]) \subseteq Used \ Span(s)
    BY <2>1 DEF Used, HeapInv, Blocks
  <2>3. Data(s, n) \cap Block(t, extent[t]) = {}
    BY <2>2
  <2>4. s \notin Block(t, extent[t])
    BY <2>1 DEF Block, HeapInv, Blocks, Cells
  <2> QED
    BY <2>3, <2>4 DEF Block, Data, Cells, HeapInv, Blocks
<1>4. Apart'
  BY <1>2, <1>3 DEF HeapInv, Apart
<1>5. Told'
  BY DEF HeapInv, Told
<1>6. /\ ~shrank' => ~shrank /\ extent[s] <= n
      /\ ~grew' => ~grew /\ n <= extent[s]
  <2>1. n \in Nat /\ extent[s] \in Nat
    BY DEF HeapInv, Blocks
  <2>2. /\ ~shrank' => ~shrank /\ ~(n < extent[s])
        /\ ~grew' => ~grew /\ ~(n > extent[s])
    BY Zenon
  <2> QED
    BY <2>1, <2>2
<1>7. /\ extent[s] <= n => Data(s, extent[s]) \subseteq Data(s, n)
      /\ n <= extent[s] => Data(s, n) \subseteq Data(s, extent[s])
  BY DEF Data, HeapInv, Blocks, Cells
<1>8. AllocatedInv'
  BY <1>2, <1>6, <1>7 DEF HeapInv, AllocatedInv
<1> QED
  BY <1>1, <1>4, <1>5, <1>8 DEF HeapInv

\* A block that moves takes its cells and what was told of them with it.
LEMMA MoveStep ==
  ASSUME HeapInv, NEW s \in held, NEW n \in Sizes, NEW t \in Room(n, Used), Move(s, t, n),
         heapStatus = "running"
  PROVE  HeapInv'
<1> USE DEF Move, Sizes
<1>1. CASE n <= header[s]
  BY <1>1 DEF HeapInv, Blocks, Apart, Told, AllocatedInv
<1>2. CASE ~(n <= header[s])
  <2>1. t \in Cells /\ t \notin held
    <3>1. t \in Cells /\ t \in Block(t, n)
      BY DEF Room, Block, Cells
    <3>2. \A u \in held : u \in Block(u, extent[u])
      BY DEF HeapInv, Blocks, Block, Cells
    <3> QED
      BY <3>1, <3>2, RoomIsFree
  <2>2. Blocks'
    BY <1>2, <2>1 DEF HeapInv, Blocks, With, Without
  <2>3. /\ extent'[t] = n
        /\ \A u \in held \ {s} : extent'[u] = extent[u]
        /\ held' = (held \ {s}) \cup {t}
    BY <1>2, <2>1 DEF HeapInv, Blocks, With, Without
  <2>4. Apart'
    BY <2>3, RoomIsFree DEF HeapInv, Apart
  <2>5. Told'
    <3>1. Data(t, header[s]) \subseteq Data(t, n)
      BY <1>2, <2>1 DEF Data, HeapInv, Blocks, Cells
    <3> QED
      BY <1>2, <3>1 DEF HeapInv, Told
  <2>6. \A u \in held' : Data(u, extent'[u]) \cap Data(s, extent[s]) = {}
    <3>1. Data(t, n) \cap Data(s, extent[s]) = {}
      BY <2>1, RoomIsFree DEF Block, Data, Cells, HeapInv, Blocks
    <3>2. \A u \in held \ {s} : Data(u, extent[u]) \cap Data(s, extent[s]) = {}
      BY DEF HeapInv, Blocks, Apart, Block, Data, Cells
    <3> QED
      BY <2>3, <3>1, <3>2
  <2>7. allocated' = (allocated \cup Data(t, n)) \ Data(s, extent[s])
    BY <1>2 DEF MovedFrom, HeapInv, Blocks
  <2>8. AllocatedInv'
    BY <1>2, <2>3, <2>6, <2>7 DEF HeapInv, AllocatedInv
  <2> QED
    BY <1>2, <2>2, <2>4, <2>5, <2>8 DEF HeapInv
<1> QED
  BY <1>1, <1>2

-------------------------------------------------------------------------------
LEMMA HeapInvStep == HeapInv /\ [HeapNext]_heapVars => HeapInv'
<1> SUFFICES ASSUME HeapInv, [HeapNext]_heapVars PROVE HeapInv'
  OBVIOUS
<1>1. ASSUME UNCHANGED heapVars PROVE HeapInv'
  BY <1>1 DEF heapVars, HeapInv, Blocks, Apart, Told, AllocatedInv
<1>2. ASSUME NullHeader PROVE HeapInv'
  BY <1>2 DEF NullHeader, HeapInv, Blocks, Apart, Told, AllocatedInv
<1>3. CASE heapStatus = "running" /\ Malloc
  BY <1>2, <1>3, NewBlockStep DEF Malloc
<1>4. CASE heapStatus = "running" /\ Calloc
  BY <1>2, <1>4, NewBlockStep DEF Calloc
<1>5. CASE heapStatus = "running" /\ Strdup
  BY <1>1, <1>2, <1>5, NewBlockStep DEF Strdup
<1>6. CASE heapStatus = "running" /\ Free
  BY <1>6, FreeStep
<1>7. CASE heapStatus = "running" /\ Realloc
  <2>1. PICK s \in held, n \in Sizes :
           \/ ResizeInPlace(s, n)
           \/ \E t \in Room(n, Used) : Move(s, t, n)
           \/ NullHeader
    BY <1>7 DEF Realloc, HeapInv, Blocks, NoHeader, Sizes
  <2> QED
    BY <1>2, <1>7, <2>1, ResizeStep, MoveStep
<1>8. CASE heapStatus = "running" /\ ProgramStores
  BY <1>8 DEF ProgramStores, Report, HeapInv, Blocks, Apart, Told, AllocatedInv
<1> QED
  BY <1>1, <1>3, <1>4, <1>5, <1>6, <1>7, <1>8 DEF HeapNext

\* In every reachable state of the allocation wrappers, what they reported covers
\* the blocks the program owns, and the blocks do not overlap.
THEOREM HeapInvariant == HeapSpec => []HeapInv
  BY HeapInvInit, HeapInvStep, PTL DEF HeapSpec

-------------------------------------------------------------------------------
\* Over any calls a header is its block's size, the program holds every block, and
\* no wrapper turns away what another handed out.
THEOREM BlocksAccountedCorrect == HeapSpec => []BlocksAccounted
  BY HeapInvariant, HeapInvSuffices, PTL

\* Every byte written is told of, and the allocated memory the profiler was told of
\* is the program's but for what realloc does in place.
THEOREM ProfilerToldCorrect == HeapSpec => []ProfilerTold
  BY HeapInvariant, HeapInvSuffices, PTL

-------------------------------------------------------------------------------
(***************************************************************************)
(* The wrappers of LibraryCalls.                                           *)
(***************************************************************************)

\* Who may be at fault for the last STORE told of the location, and for a LOAD.
MayStoreWrongly == IF watch \in Memory THEN InexactForMemory
                                       ELSE {"tmpfile", "fgets", "fflush", "ioctl"}
MayMiss         == IF watch \in Memory THEN InexactForMemory ELSE InexactForStreams

CallsInv == /\ nul \subseteq Memory
            /\ told \in {"exact"} \cup MayStoreWrongly
            /\ missed \in {"nothing"} \cup MayMiss

LEMMA CallsInvInit == CallsInit => CallsInv
  BY DEF CallsInit, CallsInv

\* Induction is by least counterexample.
LEMMA LeastOf ==
  ASSUME NEW T, T \subseteq Nat, T # {}
  PROVE  \E x \in T : \A y \in T : x <= y
<1>1. PICK x \in T : \A y \in T : ~ (<<y, x>> \in OpToRel(<, Nat))
  BY NatLessThanWellFounded, WFMin, Zenon
<1>2. \A y \in T : ~ (y < x)
  BY <1>1 DEF OpToRel
<1> QED
  BY <1>2

\* A string ends in the buffer it starts in.
LEMMA StringsEnd ==
  ASSUME nul \subseteq Memory, NEW a \in Strings
  PROVE  /\ a \in Memory /\ End(a) \in nul /\ a <= End(a)
         /\ a < Size <=> End(a) < Size
         /\ Length(a) \in 0..(Size - 1) /\ String(a) \subseteq Memory
<1> DEFINE after == {z \in nul : z >= a}
<1>1. Size \in Nat /\ Size > 0 /\ a \in Memory
  BY CallsAssumption DEF Strings
<1>2. PICK z \in nul : a <= z /\ (a < Size <=> z < Size)
  BY DEF Strings
<1>3. \E x \in after : \A y \in after : x <= y
  <2>1. after \subseteq Nat
    <3>1. Memory \subseteq Nat
      BY <1>1 DEF Memory
    <3> QED
      BY <3>1
  <2>2. z \in after
    <3>1. a \in Int /\ z \in Int
      BY <1>1, <1>2 DEF Memory
    <3> QED
      BY <1>2, <3>1
  <2> HIDE DEF after
  <2> QED
    BY <2>1, <2>2, LeastOf
<1>4. \E x \in nul : x >= a /\ \A y \in nul : y >= a => x <= y
  BY <1>3
<1>5. End(a) \in nul /\ End(a) >= a /\ \A y \in nul : y >= a => End(a) <= y
  BY <1>4, Zenon DEF End
<1>6. End(a) <= z /\ End(a) \in Memory /\ z \in Memory
  BY <1>1, <1>2, <1>5 DEF Memory
<1> QED
  BY <1>1, <1>2, <1>5, <1>6 DEF Memory, Length, String

\* A call keeps the invariant if what it tells is what the library does, or if it
\* is one of those that may not.
LEMMA DoesKeeps ==
  ASSUME CallsInv, nul' \subseteq Memory,
         NEW wrapper, NEW loads, NEW stores, NEW reads, NEW writes,
         Does(wrapper, loads, stores, reads, writes),
         watch \in reads \ loads => wrapper \in MayMiss,
         watch \in (stores \ writes) \cup (writes \ stores) => wrapper \in MayStoreWrongly
  PROVE  CallsInv'
<1>1. MayMiss' = MayMiss /\ MayStoreWrongly' = MayStoreWrongly /\ MayStoreWrongly \subseteq MayMiss
  BY DEF Does, MayMiss, MayStoreWrongly, InexactForStreams
<1>2. told' \in {"exact"} \cup MayStoreWrongly
  BY DEF Does, CallsInv
<1>3. missed' \in {"nothing"} \cup MayMiss
  BY <1>1 DEF Does, CallsInv
<1> QED
  BY <1>1, <1>2, <1>3 DEF CallsInv

LEMMA RegionInMemory == \A a, n : Region(a, n) \subseteq Memory
  BY DEF Region

LEMMA TokensApart ==
  /\ \A fd \in Fds : Token(fd) \notin Memory
  /\ RandToken \notin Memory
  /\ Buffers \subseteq Memory
  BY CallsAssumption DEF Fds, Token, RandToken, Memory, Buffers

LEMMA ExactKeeps ==
  ASSUME CallsInv, nul' \subseteq Memory,
         NEW wrapper, NEW loads, NEW stores, NEW reads,
         Does(wrapper, loads, stores, reads, stores), reads \subseteq loads
  PROVE  CallsInv'
  BY DoesKeeps

\* One that tells of memory wrongly, and of all else as it is.
LEMMA InexactKeeps ==
  ASSUME CallsInv, nul' \subseteq Memory,
         NEW wrapper \in InexactForMemory, NEW loads, NEW stores, NEW reads, NEW writes,
         Does(wrapper, loads, stores, reads, writes),
         (reads \ loads) \cup (stores \ writes) \cup (writes \ stores) \subseteq Memory
  PROVE  CallsInv'
  BY DoesKeeps DEF MayMiss, MayStoreWrongly

-------------------------------------------------------------------------------
\* What each call does with memory.

LEMMA ProgramStep == CallsInv /\ ProgramAccess => CallsInv'
<1> SUFFICES ASSUME CallsInv, ProgramAccess PROVE CallsInv'
  OBVIOUS
<1>1. PICK a \in Memory : \/ Loads("program", {a}) /\ UNCHANGED nul
                          \/ /\ Stores("program", {a})
                             /\ \E zero \in SUBSET {a} : Writes({a}, zero)
  BY DEF ProgramAccess
<1>2. nul' \subseteq Memory
  BY <1>1 DEF CallsInv, Writes
<1> QED
  BY <1>1, <1>2, ExactKeeps DEF Loads, Stores

LEMMA StringStep ==
  ASSUME CallsInv, StringQuery \/ Strncmp \/ Utimes \/ Getopt \/ Strcpy \/ Strncpy \/ Strcat \/ Strncat \/ Strtok
  PROVE  CallsInv'
<1>0. nul \subseteq Memory /\ Size \in Nat /\ Size > 0
  BY CallsAssumption DEF CallsInv
<1>1. CASE StringQuery
  <2>1. PICK a \in Strings : Loads("query", String(a)) /\ UNCHANGED nul
    BY <1>1 DEF StringQuery
  <2> QED
    BY <1>0, <2>1, ExactKeeps DEF Loads
<1>2. CASE Strncmp
  <2>1. PICK a \in Strings, n \in 0..Size :
          Does("strncmp", Region(a, n), {}, Region(a, n) \cap String(a), {}) /\ UNCHANGED nul
    BY <1>2 DEF Strncmp
  <2> QED
    BY <1>0, <2>1, ExactKeeps
<1>3. CASE Strcpy
  <2>1. PICK dest \in Buffers, src \in Strings :
          /\ Does("strcpy", String(src), Region(dest, Length(src) + 1),
                  String(src), Region(dest, Length(src) + 1))
          /\ Writes(Region(dest, Length(src) + 1), {dest + Length(src)})
    BY <1>3 DEF Strcpy
  <2>2. dest + Length(src) \in Memory
    BY <1>0, StringsEnd DEF Buffers, Memory
  <2>3. nul' \subseteq Memory
    BY <1>0, <2>1, <2>2 DEF Writes
  <2> QED
    BY <2>1, <2>3, ExactKeeps
<1>4. CASE Strncpy
  <2>1. PICK dest \in Buffers, src \in Strings, n \in 0..Size :
          LET end == IF Length(src) < n THEN Length(src) ELSE n
          IN  /\ Does("strncpy", Region(src, n), Region(dest, n),
                      Region(src, n) \cap String(src), Region(dest, n))
              /\ Writes(Region(dest, n), Region(dest + end, n - end))
    BY <1>4 DEF Strncpy
  <2>2. nul' \subseteq Memory
    BY <1>0, <2>1, RegionInMemory DEF Writes
  <2> QED
    BY <2>1, <2>2, ExactKeeps
<1>5. CASE Strcat
  <2>1. PICK s1 \in Buffers \cap Strings, s2 \in Strings :
          LET n == Length(s1) + Length(s2)
              written == Region(End(s1), Length(s2) + 1)
          IN  /\ n < Size
              /\ Does("strcat", String(s1) \cup String(s2), written,
                      String(s1) \cup String(s2), written)
              /\ Writes(written, {s1 + n})
    BY <1>5 DEF Strcat
  <2>2. s1 + (Length(s1) + Length(s2)) \in Memory
    BY <1>0, <2>1, StringsEnd DEF Buffers, Memory
  <2>3. nul' \subseteq Memory
    BY <1>0, <2>1, <2>2 DEF Writes
  <2> QED
    BY <2>1, <2>3, ExactKeeps
<1>6. CASE Strncat
  <2>1. PICK s1 \in Buffers \cap Strings, s2 \in Strings, n \in 0..Size :
          LET k == IF Length(s2) < n THEN Length(s2) ELSE n
              written == Region(End(s1), k + 1)
          IN  /\ Length(s1) + k < Size
              /\ Does("strncat", String(s1) \cup Region(s2, n), Region(End(s1) + k, n + 1),
                      String(s1) \cup (Region(s2, n) \cap String(s2)), written)
              /\ Writes(written, {End(s1) + k})
    BY <1>6 DEF Strncat
  <2> DEFINE k == IF Length(s2) < n THEN Length(s2) ELSE n
  <2>2. k \in Nat /\ s1 \in Memory /\ s1 \in Buffers /\ End(s1) = s1 + Length(s1)
        /\ Length(s1) \in Nat /\ Length(s1) + k < Size
    <3>1. Length(s1) \in 0..(Size - 1) /\ Length(s2) \in 0..(Size - 1) /\ s1 \in Memory
          /\ End(s1) \in Memory
      BY <1>0, StringsEnd
    <3> QED
      BY <1>0, <2>1, <3>1 DEF Length, Memory
  <2> HIDE DEF k
  <2>3. End(s1) + k \in Memory
    BY <1>0, <2>2 DEF Buffers, Memory
  <2>4. nul' \subseteq Memory
    BY <1>0, <2>1, <2>3 DEF Writes, k
  <2>5. "strncat" \in InexactForMemory
    BY DEF InexactForMemory
  <2>6. Does("strncat", String(s1) \cup Region(s2, n), Region(End(s1) + k, n + 1),
             String(s1) \cup (Region(s2, n) \cap String(s2)), Region(End(s1), k + 1))
    BY <2>1 DEF k
  <2> QED
    BY <2>4, <2>5, <2>6, RegionInMemory, InexactKeeps
<1>7. CASE Strtok
  <2>1. PICK from \in Strings : \E first, last \in String(from) :
           /\ first <= last
           /\ \/ first < last /\ Does("strtok", first..last, {}, from..last, {last} \ nul)
              \/ first = End(from) /\ Does("strtok", {}, {}, String(from), {})
           /\ nul' = IF first < last THEN nul \cup {last} ELSE nul
    BY <1>7 DEF Strtok
  <2>2. PICK first \in String(from), last \in String(from) :
           /\ first <= last
           /\ \/ first < last /\ Does("strtok", first..last, {}, from..last, {last} \ nul)
              \/ first = End(from) /\ Does("strtok", {}, {}, String(from), {})
           /\ nul' = IF first < last THEN nul \cup {last} ELSE nul
    BY <2>1
  <2>3. String(from) \subseteq Memory /\ nul' \subseteq Memory
    BY <1>0, <2>2, StringsEnd
  <2>4. from..last \subseteq Memory
    <3>1. from \in Memory /\ End(from) \in Memory /\ last \in from..End(from)
      BY <1>0, StringsEnd DEF String
    <3> QED
      BY <1>0, <3>1 DEF Memory
  <2>5. "strtok" \in InexactForMemory
    BY DEF InexactForMemory
  <2> QED
    BY <2>2, <2>3, <2>4, <2>5, InexactKeeps
<1>8. CASE Utimes
  <2>1. PICK tvp \in Buffers, n \in 1..(Size \div 2) :
          Does("utimes", Region(tvp, n), {}, Region(tvp, 2 * n), {}) /\ UNCHANGED nul
    BY <1>8 DEF Utimes
  <2>2. "utimes" \in InexactForMemory
    BY DEF InexactForMemory
  <2> QED
    BY <1>0, <2>1, <2>2, RegionInMemory, InexactKeeps
<1>9. CASE Getopt
  <2>1. PICK argv \in SUBSET Memory, moved \in SUBSET Memory, zero \in SUBSET Memory :
          zero \subseteq moved /\ Does("getopt", {}, {}, argv, moved) /\ Writes(moved, zero)
    <3>1. PICK argv \in {Region(b, Size) : b \in Buffers} : \E moved \in {{}, argv} : \E zero \in SUBSET moved :
            Does("getopt", {}, {}, argv, moved) /\ Writes(moved, zero)
      BY <1>9 DEF Getopt
    <3>2. argv \subseteq Memory
      BY RegionInMemory
    <3> QED
      BY <3>1, <3>2
  <2>2. moved \subseteq Memory /\ nul' \subseteq Memory
    BY <1>0, <2>1 DEF Writes
  <2>3. "getopt" \in InexactForMemory
    BY DEF InexactForMemory
  <2> QED
    BY <2>1, <2>2, <2>3, InexactKeeps
<1> QED
  BY <1>1, <1>2, <1>3, <1>4, <1>5, <1>6, <1>7, <1>8, <1>9

LEMMA FillStep ==
  ASSUME CallsInv, Memset \/ Memcpy \/ Memcmp \/ Fill \/ Getcwd \/ Strftime
  PROVE  CallsInv'
<1>0. nul \subseteq Memory /\ Size \in Nat /\ Size > 0
  BY CallsAssumption DEF CallsInv
<1>1. CASE Memset
  <2>1. PICK b \in Buffers, n \in 0..Size :
          /\ Stores("memset", Region(b, n))
          /\ \E zero \in {{}, Region(b, n)} : Writes(Region(b, n), zero)
    BY <1>1 DEF Memset
  <2>2. nul' \subseteq Memory
    BY <1>0, <2>1, RegionInMemory DEF Writes
  <2> QED
    BY <2>1, <2>2, ExactKeeps DEF Stores
<1>2. CASE Memcpy
  <2>1. PICK to \in Memory, from \in Buffers, n \in 0..Size :
          /\ Does("memcpy", Region(from, n), Region(to, n), Region(from, n), Region(to, n))
          /\ Writes(Region(to, n), {a \in Region(to, n) : a - to + from \in nul})
    BY <1>2 DEF Memcpy
  <2>2. nul' \subseteq Memory
    BY <1>0, <2>1, RegionInMemory DEF Writes
  <2> QED
    BY <2>1, <2>2, ExactKeeps
<1>3. CASE Memcmp
  <2>1. PICK b \in Buffers, n \in 0..Size : Loads("memcmp", Region(b, n)) /\ UNCHANGED nul
    BY <1>3 DEF Memcmp
  <2> QED
    BY <1>0, <2>1, ExactKeeps DEF Loads
<1>4. CASE Fill
  <2>1. PICK b \in Buffers, n \in 1..Size :
          \/ /\ Stores("fill", Region(b, n))
             /\ \E zero \in SUBSET Region(b, n) : Writes(Region(b, n), zero)
          \/ Does("fill", {}, Region(b, n), {}, {}) /\ UNCHANGED nul
          \/ /\ Does("fill", {}, {}, {}, Region(b, n))
             /\ \E zero \in SUBSET Region(b, n) : Writes(Region(b, n), zero)
    BY <1>4 DEF Fill
  <2>2. nul' \subseteq Memory
    BY <1>0, <2>1, RegionInMemory DEF Writes
  <2>3. "fill" \in InexactForMemory
    BY DEF InexactForMemory
  <2> QED
    BY <2>1, <2>2, <2>3, RegionInMemory, ExactKeeps, InexactKeeps DEF Stores
<1>5. CASE Getcwd
  <2>1. PICK b \in Buffers, n \in 0..(Size - 1) :
          /\ Does("getcwd", {}, Region(b, Size), {}, Region(b, n + 1))
          /\ Writes(Region(b, n + 1), {b + n})
    BY <1>5 DEF Getcwd
  <2>2. b + n \in Memory
    BY <1>0 DEF Buffers, Memory
  <2>3. nul' \subseteq Memory
    BY <1>0, <2>1, <2>2 DEF Writes
  <2>4. "getcwd" \in InexactForMemory
    BY DEF InexactForMemory
  <2> QED
    BY <2>1, <2>3, <2>4, RegionInMemory, InexactKeeps
<1>6. CASE Strftime
  <2>1. PICK b \in Buffers, n \in 0..(Size - 1), format \in Wholes :
          /\ Does("strftime", String(format), Region(b, n), String(format), Region(b, n + 1))
          /\ Writes(Region(b, n + 1), {b + n})
    BY <1>6 DEF Strftime
  <2>2. b + n \in Memory
    BY <1>0 DEF Buffers, Memory
  <2>3. nul' \subseteq Memory
    BY <1>0, <2>1, <2>2 DEF Writes
  <2>4. "strftime" \in InexactForMemory
    BY DEF InexactForMemory
  <2> QED
    BY <2>1, <2>3, <2>4, RegionInMemory, InexactKeeps
<1> QED
  BY <1>1, <1>2, <1>3, <1>4, <1>5, <1>6

\* What a printf reads and was not given is in memory.
LEMMA TakenBeyond == \A args \in PrintfArgs : \A taken \in Taken(args) : taken \ args \subseteq Memory
  BY DEF Taken

LEMMA PrintStep ==
  ASSUME CallsInv, Sprintf \/ Snprintf
  PROVE  CallsInv'
<1>0. nul \subseteq Memory /\ Size \in Nat /\ Size > 0
  BY CallsAssumption DEF CallsInv
<1>1. CASE Sprintf
  <2>1. PICK str \in Buffers, args \in PrintfArgs, size \in 0..(Size - 1) : \E taken \in Taken(args) :
          /\ Does("sprintf", args, Region(str, size), taken, Region(str, size + 1))
          /\ Writes(Region(str, size + 1), {str + size})
    BY <1>1 DEF Sprintf
  <2>2. str + size \in Memory
    BY <1>0 DEF Buffers, Memory
  <2>3. nul' \subseteq Memory
    BY <1>0, <2>1, <2>2 DEF Writes
  <2>4. "sprintf" \in InexactForMemory
    BY DEF InexactForMemory
  <2>5. PICK taken \in Taken(args) : Does("sprintf", args, Region(str, size), taken, Region(str, size + 1))
    BY <2>1
  <2> QED
    BY <2>3, <2>4, <2>5, RegionInMemory, TakenBeyond, InexactKeeps
<1>2. CASE Snprintf
  <2>1. PICK str \in Buffers, args \in PrintfArgs, n \in 0..Size, result \in 0..(Size + 1) :
          \E taken \in Taken(args) :
          LET end == IF result < n THEN result ELSE n - 1
          IN  /\ Does("snprintf", args, Region(str, result), taken, Region(str, end + 1))
              /\ Writes(Region(str, end + 1), IF n = 0 THEN {} ELSE {str + end})
    BY <1>2 DEF Snprintf
  <2> DEFINE end == IF result < n THEN result ELSE n - 1
  <2>2. n # 0 => str + end \in Memory
    <3>1. n # 0 => end \in 0..(Size - 1)
      BY <1>0
    <3> HIDE DEF end
    <3> QED
      BY <1>0, <3>1 DEF Buffers, Memory
  <2> HIDE DEF end
  <2>3. PICK taken \in Taken(args) :
           Does("snprintf", args, Region(str, result), taken, Region(str, end + 1))
        /\ Writes(Region(str, end + 1), IF n = 0 THEN {} ELSE {str + end})
    BY <2>1 DEF end
  <2>4. nul' \subseteq Memory
    BY <1>0, <2>2, <2>3 DEF Writes
  <2>5. "snprintf" \in InexactForMemory
    BY DEF InexactForMemory
  <2> QED
    BY <2>3, <2>4, <2>5, RegionInMemory, TakenBeyond, InexactKeeps
<1> QED
  BY <1>1, <1>2

\* The conversions of a scanf, from a string or a stream.
LEMMA ConvertedKeeps ==
  ASSUME CallsInv, NEW from, NEW token, Converted(from, from, token, token)
  PROVE  CallsInv'
<1>0. nul \subseteq Memory /\ Size \in Nat /\ Size > 0
  BY CallsAssumption DEF CallsInv
<1>1. PICK a \in Buffers, b \in Buffers :
     \/ \E z \in Region(a, Size) :
           /\ Does("scanf", from \cup Region(b, Size), token, from, token \cup (a..z))
           /\ Writes(a..z, {z})
     \/ /\ Does("scanf", from, token \cup {b}, from, token \cup {a})
        /\ \E zero \in SUBSET {a} : Writes({a}, zero)
     \/ Does("scanf", from, token \cup Region(b, Size), from, token \cup {a}) /\ Writes({a}, {})
     \/ Does("scanf", from, token \cup {b}, from, token) /\ UNCHANGED nul
  BY DEF Converted
<1>2. a \in Memory /\ b \in Memory /\ "scanf" \in InexactForMemory
  BY TokensApart DEF InexactForMemory
<1>3. ASSUME NEW z \in Region(a, Size),
             Does("scanf", from \cup Region(b, Size), token, from, token \cup (a..z)),
             Writes(a..z, {z})
      PROVE  CallsInv'
  <2>1. a..z \subseteq Memory /\ z \in Memory
    BY <1>0, <1>2 DEF Region, Memory
  <2>2. nul' \subseteq Memory
    BY <1>0, <1>3, <2>1 DEF Writes
  <2> QED
    BY <1>2, <1>3, <2>1, <2>2, InexactKeeps
<1>4. CASE /\ Does("scanf", from, token \cup {b}, from, token \cup {a})
           /\ \E zero \in SUBSET {a} : Writes({a}, zero)
  <2>1. nul' \subseteq Memory
    BY <1>0, <1>2, <1>4 DEF Writes
  <2>2. (token \cup {b}) \ (token \cup {a}) \subseteq Memory
        /\ (token \cup {a}) \ (token \cup {b}) \subseteq Memory
    BY <1>2
  <2> QED
    BY <1>2, <1>4, <2>1, <2>2, InexactKeeps
<1>5. CASE Does("scanf", from, token \cup Region(b, Size), from, token \cup {a}) /\ Writes({a}, {})
  <2>1. nul' \subseteq Memory
    BY <1>0, <1>5 DEF Writes
  <2>2. (token \cup Region(b, Size)) \ (token \cup {a}) \subseteq Memory
        /\ (token \cup {a}) \ (token \cup Region(b, Size)) \subseteq Memory
    BY <1>2, RegionInMemory
  <2> QED
    BY <1>2, <1>5, <2>1, <2>2, InexactKeeps
<1>6. CASE Does("scanf", from, token \cup {b}, from, token) /\ UNCHANGED nul
  BY <1>0, <1>2, <1>6, InexactKeeps
<1> QED
  BY <1>1, <1>3, <1>4, <1>5, <1>6

-------------------------------------------------------------------------------
\* The streams and the random generator.
LEMMA InputStep == CallsInv /\ Input => CallsInv'
<1> SUFFICES ASSUME CallsInv, Input PROVE CallsInv'
  OBVIOUS
<1>0. nul \subseteq Memory
  BY DEF CallsInv
<1>1. PICK fd \in open, b \in Buffers, n \in 0..Size :
        \E zero \in SUBSET Region(b, n) :
          LET data == Region(b, n)
              line == {a \in data : \A z \in zero : a <= z}
          IN  /\ Writes(data, zero)
              /\ \/ Read(fd, data)
                 \/ Uses("fread", fd, {}, Region(b, 2 * (n \div 2)), {}, data)
                 \/ n > 0 /\ b + n - 1 \in zero /\ Uses("fgets", fd, {}, line, {}, data)
                 \/ n = 0 /\ Does("fgets", {Token(fd)}, {}, {Token(fd)}, {Token(fd)})
  BY DEF Input
<1> DEFINE data  == Region(b, n)
           items == Region(b, 2 * (n \div 2))
           token == {Token(fd)}
<1>2. PICK zero \in SUBSET data :
        /\ Writes(data, zero)
        /\ \/ Does("read", token \cup {}, token \cup data, token \cup {}, token \cup data)
           \/ Does("fread", token \cup {}, token \cup items, token \cup {}, token \cup data)
           \/ \E line \in SUBSET data :
                 Does("fgets", token \cup {}, token \cup line, token \cup {}, token \cup data)
           \/ Does("fgets", token, {}, token, token)
  BY <1>1 DEF Read, Uses
<1>3. data \subseteq Memory /\ items \subseteq Memory
  BY RegionInMemory
<1>4. "fread" \in InexactForMemory /\ "fgets" \in InexactForMemory
      /\ "fgets" \in MayStoreWrongly /\ "fgets" \in MayMiss
  BY DEF InexactForMemory, MayStoreWrongly, MayMiss, InexactForStreams
<1> HIDE DEF data, items, token
<1>5. nul' \subseteq Memory
  BY <1>0, <1>2, <1>3 DEF Writes
<1>6. CASE Does("read", token \cup {}, token \cup data, token \cup {}, token \cup data)
  BY <1>5, <1>6, ExactKeeps
<1>7. CASE Does("fread", token \cup {}, token \cup items, token \cup {}, token \cup data)
  <2>1. ((token \cup {}) \ (token \cup {})) \cup ((token \cup items) \ (token \cup data))
          \cup ((token \cup data) \ (token \cup items)) \subseteq Memory
    BY <1>3
  <2> QED
    BY <1>4, <1>5, <1>7, <2>1, InexactKeeps
<1>8. ASSUME NEW line \in SUBSET data,
             Does("fgets", token \cup {}, token \cup line, token \cup {}, token \cup data)
      PROVE  CallsInv'
  <2>1. ((token \cup {}) \ (token \cup {})) \cup ((token \cup line) \ (token \cup data))
          \cup ((token \cup data) \ (token \cup line)) \subseteq Memory
    BY <1>3
  <2> QED
    BY <1>4, <1>5, <1>8, <2>1, InexactKeeps
<1>9. CASE Does("fgets", token, {}, token, token)
  BY <1>4, <1>5, <1>9, DoesKeeps
<1> QED
  BY <1>2, <1>6, <1>7, <1>8, <1>9

\* Calls that use a stream, and tell of memory wrongly or not.
LEMMA UsesKeeps ==
  ASSUME CallsInv, nul' \subseteq Memory,
         NEW wrapper \in InexactForMemory, NEW fd, NEW loads, NEW reads, NEW writes,
         Uses(wrapper, fd, loads, {}, reads, writes),
         reads \ loads \subseteq Memory, writes \subseteq Memory
  PROVE  CallsInv'
<1> DEFINE token == {Token(fd)}
<1>1. Does(wrapper, token \cup loads, token \cup {}, token \cup reads, token \cup writes)
  BY DEF Uses
<1>2. ((token \cup reads) \ (token \cup loads)) \cup ((token \cup {}) \ (token \cup writes))
        \cup ((token \cup writes) \ (token \cup {})) \subseteq Memory
  OBVIOUS
<1> HIDE DEF token
<1> QED
  BY <1>1, <1>2, InexactKeeps

LEMMA StreamStep ==
  ASSUME CallsInv, \/ Open \/ Tmpfile \/ Close \/ Output \/ Fprintf \/ Fscanf
                   \/ Position \/ Fcntl \/ Fflush \/ Terminal \/ Reset \/ StreamQuery \/ Random,
         open \subseteq Fds
  PROVE  CallsInv'
<1>0. nul \subseteq Memory
  BY DEF CallsInv
<1>1. CASE Open
  <2>1. PICK fd \in Fds \ open : Stores("open", {Token(fd)}) /\ UNCHANGED nul
    BY <1>1 DEF Open
  <2> QED
    BY <1>0, <2>1, ExactKeeps DEF Stores
<1>2. CASE Tmpfile
  <2>1. PICK fd \in Fds : Does("tmpfile", {Token(fd)}, {}, {}, {Token(fd)}) /\ UNCHANGED nul
    BY <1>2 DEF Tmpfile
  <2>2. watch \in {Token(fd)} => "tmpfile" \in MayStoreWrongly
    BY TokensApart DEF MayStoreWrongly
  <2> QED
    BY <1>0, <2>1, <2>2, DoesKeeps
<1>3. CASE Close
  <2>1. PICK fd \in Fds : Does("close", {}, {Token(fd)}, {Token(fd)}, {Token(fd)}) /\ UNCHANGED nul
    BY <1>3 DEF Close
  <2>2. watch \in {Token(fd)} => "close" \in MayMiss
    BY TokensApart DEF MayMiss, InexactForStreams
  <2> QED
    BY <1>0, <2>1, <2>2, DoesKeeps
<1>4. CASE Output
  <2>1. PICK fd \in open, b \in Buffers, n \in 0..Size :
           /\ \/ Uses("write", fd, Region(b, n), {}, Region(b, n), {})
              \/ Uses("fwrite", fd, Region(b, 2 * (n \div 2)), {}, Region(b, n), {})
           /\ UNCHANGED nul
    BY <1>4 DEF Output
  <2>2. CASE Uses("write", fd, Region(b, n), {}, Region(b, n), {})
    BY <1>0, <2>1, <2>2, ExactKeeps DEF Uses
  <2>3. CASE Uses("fwrite", fd, Region(b, 2 * (n \div 2)), {}, Region(b, n), {})
    <3>1. "fwrite" \in InexactForMemory
      BY DEF InexactForMemory
    <3> QED
      BY <1>0, <2>1, <2>3, <3>1, RegionInMemory, UsesKeeps
  <2> QED
    BY <2>1, <2>2, <2>3
<1>5. CASE Fprintf
  <2>1. PICK fd \in open, args \in PrintfArgs : \E taken \in Taken(args) :
           Uses("fprintf", fd, args, {}, taken, {}) /\ UNCHANGED nul
    BY <1>5 DEF Fprintf
  <2>2. "fprintf" \in InexactForMemory
    BY DEF InexactForMemory
  <2> QED
    BY <1>0, <2>1, <2>2, TakenBeyond, UsesKeeps
<1>6. CASE Fscanf
  BY <1>6, ConvertedKeeps DEF Fscanf
<1>7. CASE Position
  <2>1. PICK fd \in open : Uses("position", fd, {}, {}, {}, {}) /\ UNCHANGED nul
    BY <1>7 DEF Position
  <2> QED
    BY <1>0, <2>1, ExactKeeps DEF Uses
<1>8. CASE Reset
  <2>1. PICK fd \in Fds : Does("rewind", {}, {Token(fd)}, {Token(fd)}, {Token(fd)}) /\ UNCHANGED nul
    BY <1>8 DEF Reset
  <2>2. watch \in {Token(fd)} => "rewind" \in MayMiss
    BY TokensApart DEF MayMiss, InexactForStreams
  <2> QED
    BY <1>0, <2>1, <2>2, DoesKeeps
<1>9. CASE StreamQuery
  <2>1. PICK fd \in open : Loads("feof", {Token(fd)}) /\ UNCHANGED nul
    BY <1>9 DEF StreamQuery
  <2> QED
    BY <1>0, <2>1, ExactKeeps DEF Loads
<1>10. CASE Random
  BY <1>0, <1>10, ExactKeeps DEF Random, Stores
<1>11. CASE Fcntl
  <2>1. PICK fd \in open, lock \in SUBSET Memory, filled \in SUBSET Memory, zero \in SUBSET Memory :
           zero \subseteq filled /\ Uses("fcntl", fd, {}, {}, lock, filled) /\ Writes(filled, zero)
    <3>1. PICK fd \in open, lock \in {{}} \cup {Region(b, Size) : b \in Buffers} :
             \E filled \in {{}, lock} : \E zero \in SUBSET filled :
                Uses("fcntl", fd, {}, {}, lock, filled) /\ Writes(filled, zero)
      BY <1>11 DEF Fcntl
    <3>2. lock \subseteq Memory
      BY RegionInMemory
    <3> QED
      BY <3>1, <3>2
  <2>2. filled \subseteq Memory /\ nul' \subseteq Memory
    BY <1>0, <2>1 DEF Writes
  <2>3. "fcntl" \in InexactForMemory
    BY DEF InexactForMemory
  <2> QED
    BY <2>1, <2>2, <2>3, UsesKeeps
<1>12. CASE Fflush
  <2>1. PICK fd \in Fds : Does("fflush", {}, {}, {Token(fd)}, {Token(fd)}) /\ UNCHANGED nul
    BY <1>12 DEF Fflush
  <2>2. watch \in {Token(fd)} => "fflush" \in MayMiss /\ "fflush" \in MayStoreWrongly
    BY TokensApart DEF MayMiss, MayStoreWrongly, InexactForStreams
  <2> QED
    BY <1>0, <2>1, <2>2, DoesKeeps
<1>13. CASE Terminal
  <2>1. PICK filled \in SUBSET Memory, zero \in SUBSET Memory :
           /\ zero \subseteq filled /\ Writes(filled, zero)
           /\ \E reads, writes : Does("ioctl", {}, {}, reads, writes)
    <3>1. PICK fd \in open, found \in {{}} \cup {Region(b, Size) : b \in Buffers} :
             \E filled \in {{}, found}, set \in {{}, {Token(fd)}} : \E zero \in SUBSET filled :
                Does("ioctl", {}, {}, {Token(fd)} \cup found, set \cup filled) /\ Writes(filled, zero)
      BY <1>13 DEF Terminal
    <3>2. found \subseteq Memory
      BY RegionInMemory
    <3> QED
      BY <3>1, <3>2
  <2>2. filled \subseteq Memory /\ nul' \subseteq Memory
    BY <1>0, <2>1 DEF Writes
  <2>3. "ioctl" \in MayMiss /\ "ioctl" \in MayStoreWrongly
    BY DEF MayMiss, MayStoreWrongly, InexactForMemory, InexactForStreams
  <2> QED
    BY <2>1, <2>2, <2>3, DoesKeeps
<1> QED
  BY <1>1, <1>2, <1>3, <1>4, <1>5, <1>6, <1>7, <1>8, <1>9, <1>10, <1>11, <1>12, <1>13

LEMMA OpenStep == open \subseteq Fds /\ [CallsNext]_callVars => open' \subseteq Fds
<1> SUFFICES ASSUME open \subseteq Fds, [CallsNext]_callVars PROVE open' \subseteq Fds
  OBVIOUS
<1>1. CASE UNCHANGED callVars
  BY <1>1 DEF callVars
<1>2. CASE Open \/ Tmpfile \/ Close
  BY <1>2 DEF Open, Tmpfile, Close
<1>3. CASE ProgramAccess \/ MemoryCall \/ Input
  BY <1>3 DEF ProgramAccess, MemoryCall, Input
<1>4. CASE Output \/ Fprintf \/ Fscanf \/ Position \/ Reset \/ StreamQuery \/ Random
  BY <1>4 DEF Output, Fprintf, Fscanf, Position, Reset, StreamQuery, Random
<1>5. CASE PrintfFails \/ CallEnds
  BY <1>5 DEF PrintfFails, CallEnds, EndsIn
<1>6. CASE Fcntl \/ Fflush \/ Terminal
  BY <1>6 DEF Fcntl, Fflush, Terminal
<1> QED
  BY <1>1, <1>2, <1>3, <1>4, <1>5, <1>6 DEF CallsNext

LEMMA CallsInvStep == CallsInv /\ open \subseteq Fds /\ [CallsNext]_callVars => CallsInv'
<1> SUFFICES ASSUME CallsInv, open \subseteq Fds, [CallsNext]_callVars PROVE CallsInv'
  OBVIOUS
<1>1. ASSUME UNCHANGED <<watch, nul, told, missed>> PROVE CallsInv'
  BY <1>1 DEF CallsInv, MayStoreWrongly, MayMiss
<1>2. CASE UNCHANGED callVars
  BY <1>1, <1>2 DEF callVars
<1>3. CASE PrintfFails \/ CallEnds
  BY <1>1, <1>3 DEF PrintfFails, CallEnds, EndsIn
<1>4. CASE MemoryCall
  <2>1. CASE Sscanf
    BY <2>1, ConvertedKeeps DEF Sscanf
  <2> QED
    BY <1>4, <2>1, StringStep, FillStep, PrintStep DEF MemoryCall
<1> QED
  BY <1>2, <1>3, <1>4, ProgramStep, InputStep, StreamStep DEF CallsNext

\* In every reachable state of the call wrappers, only the calls of which it is
\* known report a wrong store or leave a load out, and only streams that exist are open.
THEOREM CallsInvariant == CallsSpec => [](CallsInv /\ open \subseteq Fds)
<1>1. CallsInit => CallsInv /\ open \subseteq Fds
  BY CallsInvInit DEF CallsInit
<1>2. CallsInv /\ open \subseteq Fds /\ [CallsNext]_callVars => (CallsInv /\ open \subseteq Fds)'
  BY CallsInvStep, OpenStep
<1> QED
  BY <1>1, <1>2, PTL DEF CallsSpec

\* Whatever calls were made before, what a wrapper loads leads the profiler to the
\* call that wrote the memory, unless a wrapper that InexactForMemory names is at fault.
THEOREM MemoryDependencesCorrect == CallsSpec => []MemoryDependencesSeen
<1>1. CallsInv => MemoryDependencesSeen
  BY DEF CallsInv, MayMiss, MemoryDependencesSeen
<1> QED
  BY <1>1, CallsInvariant, PTL

\* Calls on a stream or a random generator are seen to depend on one another, but
\* for those that InexactForStreams names: a tmpfile or fgets that tells of no store, a
\* close, fclose or rewind that tells of no load, an fflush or a terminal call that
\* tells of neither.
THEOREM StreamDependencesCorrect == CallsSpec => []StreamDependencesSeen
<1>1. CallsInv => StreamDependencesSeen
  BY DEF CallsInv, MayMiss, InexactForStreams, StreamDependencesSeen
<1> QED
  BY <1>1, CallsInvariant, PTL
-------------------------------------------------------------------------------
(* The circular buffers.                                                   *)

\* An array has at least two elements.
Sizable == Nat \ {0, 1}

\* A buffer whose array has D elements, each garbage until an item is put there.
Queues(D) == [array : [0..(D - 1) -> Items \cup {Garbage}], head : 0..(D - 1),
              tail : 0..(D - 1), contents_size : 0..D]

\* The place of the array n places after the head.
Slot(D, head, n) == IF head + n < D THEN head + n ELSE head + n - D

\* Items from the head on, and the next place to be written comes right after them.
SoundQueue(q, D) ==
  /\ q \in Queues(D)
  /\ Wrapped(D, q.tail + 1) = Slot(D, q.head, q.contents_size)
  /\ \A n \in 0..(q.contents_size - 1) : q.array[Slot(D, q.head, n)] \in Items

LEMMA SlotIsSubscript ==
  ASSUME NEW D \in Sizable, NEW head \in 0..(D - 1), NEW n \in 0..(D - 1)
  PROVE  Slot(D, head, n) \in 0..(D - 1) /\ (n + head) % D = Slot(D, head, n)
  BY DEF Slot, Sizable

LEMMA SlotsDiffer ==
  ASSUME NEW D \in Sizable, NEW head \in 0..(D - 1), NEW n \in 0..(D - 1), NEW m \in 0..(D - 1),
         n # m
  PROVE  Slot(D, head, n) # Slot(D, head, m)
  BY DEF Slot, Sizable

\* What the iterators give.
LEMMA ContentsAre ==
  ASSUME NEW D \in Sizable, NEW q, SoundQueue(q, D)
  PROVE  /\ Contents(q, D) \in Seq(Items) /\ Len(Contents(q, D)) = q.contents_size
         /\ \A n \in 1..q.contents_size : Contents(q, D)[n] = q.array[Slot(D, q.head, n - 1)]
<1>1. q.contents_size \in 0..D /\ q.head \in 0..(D - 1) /\ D \in Nat
  BY DEF SoundQueue, Queues, Sizable
<1>2. ASSUME NEW n \in 1..q.contents_size
      PROVE  At(q, D, n - 1) = q.array[Slot(D, q.head, n - 1)] /\ At(q, D, n - 1) \in Items
  <2>1. n - 1 \in 0..(D - 1) /\ n - 1 \in 0..(q.contents_size - 1)
    BY <1>1
  <2>2. At(q, D, n - 1) = q.array[Slot(D, q.head, n - 1)]
    BY <1>1, <2>1, SlotIsSubscript DEF At
  <2> QED
    BY <2>1, <2>2 DEF SoundQueue
<1>3. Contents(q, D) = [n \in 1..q.contents_size |-> At(q, D, n - 1)]
  BY DEF Contents
<1>4. Contents(q, D) \in [1..q.contents_size -> Items]
  BY <1>2, <1>3
<1> QED
  BY <1>1, <1>2, <1>3, <1>4

\* A sequence is what the iterators give if it agrees with the array.
LEMMA ContentsEqual ==
  ASSUME NEW D \in Sizable, NEW q, SoundQueue(q, D), NEW s \in Seq(Items),
         Len(s) = q.contents_size,
         \A n \in 1..Len(s) : s[n] = q.array[Slot(D, q.head, n - 1)]
  PROVE  Contents(q, D) = s
<1>1. /\ Contents(q, D) \in Seq(Items) /\ Len(Contents(q, D)) = Len(s)
      /\ \A n \in 1..Len(s) : Contents(q, D)[n] = s[n]
  BY ContentsAre
<1> DEFINE c == Contents(q, D)
<1> HIDE DEF c
<1>2. c \in Seq(Items) /\ Len(c) = Len(s) /\ \A n \in 1..Len(s) : c[n] = s[n]
  BY <1>1 DEF c
<1>3. c = s
  BY <1>2
<1> QED
  BY <1>3 DEF c

LEMMA SubscriptsAre ==
  ASSUME NEW D \in Sizable, NEW q, SoundQueue(q, D)
  PROVE  Subscripts(q, D) = {Slot(D, q.head, n) : n \in 0..(q.contents_size - 1)}
<1>1. q.contents_size \in 0..D /\ q.head \in 0..(D - 1) /\ D \in Nat
  BY DEF SoundQueue, Queues, Sizable
<1>2. ASSUME NEW n \in 0..(q.contents_size - 1)
      PROVE  (n + q.head) % D = Slot(D, q.head, n)
  <2>1. n \in 0..(D - 1)
    BY <1>1
  <2> QED
    BY <1>1, <2>1, SlotIsSubscript
<1> QED
  BY <1>2 DEF Subscripts

\* The member functions, field by field.
LEMMA HeadIncremented ==
  ASSUME NEW D \in Sizable, NEW q \in Queues(D), q.contents_size # 0,
         NEW next, next = IncrementHead(q, D)
  PROVE  /\ next.array = q.array /\ next.tail = q.tail
         /\ next.head = Wrapped(D, q.head + 1)
         /\ next.contents_size = q.contents_size - 1 /\ next \in Queues(D)
<1> DEFINE h == Wrapped(D, q.head + 1)
           c == q.contents_size - 1
<1>1. h \in 0..(D - 1) /\ c \in 0..D
  BY DEF Queues, Wrapped, Sizable
<1>2. next = [q EXCEPT !.head = h, !.contents_size = c]
  BY DEF IncrementHead
<1> HIDE DEF h, c
<1>3. /\ next.array = q.array /\ next.tail = q.tail /\ next.head = h /\ next.contents_size = c
      /\ next \in Queues(D)
  BY <1>1, <1>2 DEF Queues
<1> QED
  BY <1>3 DEF h, c

LEMMA TailIncremented ==
  ASSUME NEW D \in Sizable, NEW q \in Queues(D), q.contents_size # D,
         NEW next, next = IncrementTail(q, D)
  PROVE  /\ next.array = q.array /\ next.head = q.head
         /\ next.tail = Wrapped(D, q.tail + 1)
         /\ next.contents_size = q.contents_size + 1 /\ next \in Queues(D)
<1> DEFINE t == Wrapped(D, q.tail + 1)
           c == q.contents_size + 1
<1>1. t \in 0..(D - 1) /\ c \in 0..D
  BY DEF Queues, Wrapped, Sizable
<1>2. next = [q EXCEPT !.tail = t, !.contents_size = c]
  BY DEF IncrementTail
<1> HIDE DEF t, c
<1>3. /\ next.array = q.array /\ next.head = q.head /\ next.tail = t /\ next.contents_size = c
      /\ next \in Queues(D)
  BY <1>1, <1>2 DEF Queues
<1> QED
  BY <1>3 DEF t, c

LEMMA PushedBack ==
  ASSUME NEW D \in Sizable, NEW q, SoundQueue(q, D), NEW item \in Items,
         NEW after, after = PushBack(q, D, item),
         NEW end, end = Slot(D, q.head, q.contents_size)
  PROVE  /\ after \in Queues(D) /\ end \in 0..(D - 1)
         /\ after.array = [q.array EXCEPT ![end] = item]
         /\ after.head = IF q.contents_size = D THEN Wrapped(D, q.head + 1) ELSE q.head
         /\ after.tail = end
         /\ after.contents_size = IF q.contents_size = D THEN D ELSE q.contents_size + 1
<1> DEFINE size == q.contents_size
           put  == [q EXCEPT !.array[end] = item]
           room == IF size = D THEN IncrementHead(put, D) ELSE put
<1>1. /\ D \in Nat /\ D >= 2 /\ q.head \in 0..(D - 1) /\ q.tail \in 0..(D - 1) /\ size \in 0..D
      /\ q.array \in [0..(D - 1) -> Items \cup {Garbage}] /\ q \in Queues(D)
      /\ Wrapped(D, q.tail + 1) = end
  BY DEF SoundQueue, Queues, Sizable
<1>2. end \in 0..(D - 1)
  BY <1>1 DEF Slot
<1>3. [q.array EXCEPT ![end] = item] \in [0..(D - 1) -> Items \cup {Garbage}]
  BY <1>1, <1>2
<1>4. /\ put.array = [q.array EXCEPT ![end] = item] /\ put.head = q.head
      /\ put.tail = q.tail /\ put.contents_size = size /\ put \in Queues(D)
  BY <1>1, <1>3 DEF Queues
<1>5. after = IncrementTail(room, D)
  BY <1>1 DEF PushBack
<1> HIDE DEF put
<1>6. /\ room.array = put.array /\ room.tail = put.tail /\ room \in Queues(D)
      /\ room.head = IF size = D THEN Wrapped(D, q.head + 1) ELSE q.head
      /\ room.contents_size = IF size = D THEN D - 1 ELSE size
  BY <1>1, <1>4, HeadIncremented
<1> HIDE DEF room
<1>7. room.contents_size # D
  BY <1>1, <1>6
<1>8. /\ after.array = room.array /\ after.head = room.head
      /\ after.tail = Wrapped(D, room.tail + 1)
      /\ after.contents_size = room.contents_size + 1 /\ after \in Queues(D)
  BY <1>5, <1>6, <1>7, TailIncremented
<1> QED
  BY <1>1, <1>2, <1>4, <1>6, <1>8

\* push_back adds the item after the contents, and drops the first of D.
LEMMA PushBackSound ==
  ASSUME NEW D \in Sizable, NEW q, SoundQueue(q, D), NEW item \in Items,
         NEW after, after = PushBack(q, D, item)
  PROVE  /\ SoundQueue(after, D)
         /\ Contents(after, D) =
              Append(IF q.contents_size < D THEN Contents(q, D) ELSE Tail(Contents(q, D)), item)
<1> DEFINE size == q.contents_size
           h    == q.head
           end  == Slot(D, h, size)
           kept == IF size < D THEN Contents(q, D) ELSE Tail(Contents(q, D))
<1>1. /\ D \in Nat /\ D >= 2 /\ h \in 0..(D - 1) /\ size \in 0..D
      /\ q.array \in [0..(D - 1) -> Items \cup {Garbage}]
      /\ \A n \in 0..(size - 1) : q.array[Slot(D, h, n)] \in Items
  BY DEF SoundQueue, Queues, Sizable
<1>2. /\ after \in Queues(D) /\ end \in 0..(D - 1)
      /\ after.array = [q.array EXCEPT ![end] = item]
      /\ after.head = IF size = D THEN Wrapped(D, h + 1) ELSE h
      /\ after.tail = end
      /\ after.contents_size = IF size = D THEN D ELSE size + 1
  BY PushedBack
<1>3. after.array[end] = item /\ \A i \in 0..(D - 1) : i # end => after.array[i] = q.array[i]
  BY <1>1, <1>2
<1>4. /\ Contents(q, D) \in Seq(Items) /\ Len(Contents(q, D)) = size
      /\ \A n \in 1..size : Contents(q, D)[n] = q.array[Slot(D, h, n - 1)]
  BY ContentsAre
<1>5. kept \in Seq(Items) /\ Append(kept, item) \in Seq(Items)
  BY <1>1, <1>4
<1>6. ASSUME size = D
      PROVE  /\ Wrapped(D, end + 1) = Slot(D, after.head, after.contents_size)
             /\ Len(kept) = D - 1 /\ end = h
             /\ Slot(D, after.head, D - 1) = end
             /\ \A n \in 0..(D - 2) :
                   /\ Slot(D, after.head, n) = Slot(D, h, n + 1)
                   /\ Slot(D, h, n + 1) \in 0..(D - 1) /\ Slot(D, h, n + 1) # end
                   /\ kept[n + 1] = q.array[Slot(D, h, n + 1)]
  <2>1. after.head = (IF h + 1 = D THEN 0 ELSE h + 1) /\ after.contents_size = D /\ end = h
    BY <1>1, <1>2, <1>6 DEF Wrapped, Slot
  <2>2. Contents(q, D) # <<>> /\ kept = Tail(Contents(q, D))
    BY <1>1, <1>4, <1>6
  <2>3. Len(kept) = D - 1
    BY <1>1, <1>4, <1>6, <2>2
  <2>4. \A n \in 0..(D - 2) : kept[n + 1] = Contents(q, D)[n + 2]
    BY <1>1, <1>4, <1>6, <2>2
  <2> HIDE DEF kept, size, end
  <2>5. ASSUME NEW n \in 0..(D - 2)
        PROVE  kept[n + 1] = q.array[Slot(D, h, n + 1)]
    <3>1. n + 2 \in 1..size /\ (n + 2) - 1 = n + 1
      BY <1>1, <1>6
    <3> QED
      BY <1>4, <2>4, <3>1
  <2> HIDE DEF h
  <2>6. Wrapped(D, end + 1) = Slot(D, after.head, after.contents_size)
    BY <1>1, <2>1 DEF Wrapped, Slot
  <2>7. Slot(D, after.head, D - 1) = end
    BY <1>1, <2>1 DEF Slot
  <2>8. \A n \in 0..(D - 2) : Slot(D, after.head, n) = Slot(D, h, n + 1)
    BY <1>1, <2>1 DEF Slot
  <2>9. \A n \in 0..(D - 2) : Slot(D, h, n + 1) \in 0..(D - 1) /\ Slot(D, h, n + 1) # end
    BY <1>1, <2>1 DEF Slot
  <2> QED
    BY <2>1, <2>3, <2>5, <2>6, <2>7, <2>8, <2>9
<1>7. ASSUME size # D
      PROVE  /\ Wrapped(D, end + 1) = Slot(D, after.head, after.contents_size)
             /\ Len(kept) = size /\ after.head = h
             /\ \A n \in 0..(size - 1) :
                   /\ Slot(D, h, n) \in 0..(D - 1) /\ Slot(D, h, n) # end
                   /\ kept[n + 1] = q.array[Slot(D, h, n)]
  <2>1. after.head = h /\ after.contents_size = size + 1 /\ size < D
    BY <1>1, <1>2, <1>7
  <2>2. kept = Contents(q, D) /\ Len(kept) = size
    BY <1>4, <2>1
  <2>3. \A n \in 0..(size - 1) : kept[n + 1] = q.array[Slot(D, h, n)]
    <3> HIDE DEF size, h, kept
    <3> SUFFICES ASSUME NEW n \in 0..(size - 1) PROVE kept[n + 1] = q.array[Slot(D, h, n)]
      OBVIOUS
    <3>1. n + 1 \in 1..size /\ (n + 1) - 1 = n
      BY <1>1
    <3> QED
      BY <1>4, <2>2, <3>1
  <2> HIDE DEF size, h, kept
  <2>4. Wrapped(D, end + 1) = Slot(D, h, size + 1)
    BY <1>1, <2>1 DEF Wrapped, Slot
  <2>5. \A n \in 0..(size - 1) : Slot(D, h, n) \in 0..(D - 1) /\ Slot(D, h, n) # end
    BY <1>1, <2>1 DEF Slot
  <2> QED
    BY <2>1, <2>2, <2>3, <2>4, <2>5
<1> HIDE DEF kept, size, h, end
<1>8. Len(kept) = after.contents_size - 1 /\ after.contents_size \in 1..D
  BY <1>1, <1>2, <1>6, <1>7
<1>9. ASSUME NEW n \in 0..(after.contents_size - 1)
      PROVE  after.array[Slot(D, after.head, n)] = Append(kept, item)[n + 1]
  <2>1. Append(kept, item)[n + 1] = IF n + 1 <= Len(kept) THEN kept[n + 1] ELSE item
    BY <1>5, <1>8
  <2>2. CASE size = D
    <3>1. after.contents_size = D
      BY <1>2, <2>2
    <3>2. CASE n = D - 1
      <4>1. ~ (n + 1 <= Len(kept))
        BY <1>1, <1>6, <2>2, <3>2
      <4> QED
        BY <1>3, <1>6, <2>1, <2>2, <3>2, <4>1
    <3>3. CASE n # D - 1
      <4>1. n \in 0..(D - 2) /\ n + 1 <= Len(kept)
        BY <1>1, <1>6, <1>9, <2>2, <3>1, <3>3
      <4> QED
        BY <1>3, <1>6, <2>1, <2>2, <4>1
    <3> QED
      BY <3>2, <3>3
  <2>3. CASE size # D
    <3>1. after.contents_size = size + 1
      BY <1>2, <2>3
    <3>2. CASE n = size
      <4>1. ~ (n + 1 <= Len(kept)) /\ Slot(D, after.head, n) = end
        BY <1>1, <1>7, <2>3, <3>2 DEF end
      <4> QED
        BY <1>3, <2>1, <4>1
    <3>3. CASE n # size
      <4>1. n \in 0..(size - 1) /\ n + 1 <= Len(kept)
        BY <1>1, <1>7, <1>9, <2>3, <3>1, <3>3
      <4> QED
        BY <1>3, <1>7, <2>1, <2>3, <4>1
    <3> QED
      BY <3>2, <3>3
  <2> QED
    BY <2>2, <2>3
<1>10. SoundQueue(after, D)
  <2>1. Wrapped(D, after.tail + 1) = Slot(D, after.head, after.contents_size)
    BY <1>2, <1>6, <1>7
  <2>2. ASSUME NEW n \in 0..(after.contents_size - 1)
        PROVE  after.array[Slot(D, after.head, n)] \in Items
    <3>1. n + 1 \in 1..Len(Append(kept, item))
      BY <1>1, <1>5, <1>8
    <3> QED
      BY <1>5, <1>9, <3>1
  <2> QED
    BY <1>2, <2>1, <2>2 DEF SoundQueue
<1>11. Contents(after, D) = Append(kept, item)
  <2>1. Len(Append(kept, item)) = after.contents_size
    BY <1>1, <1>5, <1>8
  <2>2. ASSUME NEW n \in 1..Len(Append(kept, item))
        PROVE  Append(kept, item)[n] = after.array[Slot(D, after.head, n - 1)]
    <3>1. n - 1 \in 0..(after.contents_size - 1) /\ (n - 1) + 1 = n
      BY <1>8, <2>1
    <3> QED
      BY <1>9, <3>1
  <2> QED
    BY <1>5, <1>10, <2>1, <2>2, ContentsEqual
<1> QED
  BY <1>10, <1>11 DEF kept, size

\* The element push_back puts is new, but where the buffer was full.
LEMMA PushBackBuilds ==
  ASSUME NEW D \in Sizable, NEW q, SoundQueue(q, D), NEW item \in Items,
         NEW after, after = PushBack(q, D, item)
  PROVE  /\ Subscripts(after, D) = Subscripts(q, D) \cup {Wrapped(D, q.tail + 1)}
         /\ (q.contents_size = D) = (Wrapped(D, q.tail + 1) \in Subscripts(q, D))
<1> DEFINE size == q.contents_size
           h    == q.head
           end  == Slot(D, h, size)
<1>1. /\ D \in Nat /\ D >= 2 /\ h \in 0..(D - 1) /\ size \in 0..D
      /\ end = Wrapped(D, q.tail + 1)
  BY DEF SoundQueue, Queues, Sizable
<1>2. /\ after \in Queues(D) /\ end \in 0..(D - 1)
      /\ after.array = [q.array EXCEPT ![end] = item]
      /\ after.head = IF size = D THEN Wrapped(D, h + 1) ELSE h
      /\ after.tail = end
      /\ after.contents_size = IF size = D THEN D ELSE size + 1
  BY PushedBack
<1>3. SoundQueue(after, D)
  BY PushBackSound
<1>4. /\ Subscripts(q, D) = {Slot(D, h, n) : n \in 0..(size - 1)}
      /\ Subscripts(after, D) = {Slot(D, after.head, n) : n \in 0..(after.contents_size - 1)}
  BY <1>3, SubscriptsAre
<1> HIDE DEF size, h
<1>5. CASE size = D
  <2>1. after.head = (IF h + 1 = D THEN 0 ELSE h + 1) /\ after.contents_size = D
    BY <1>2, <1>5 DEF Wrapped
  <2>2. /\ Slot(D, h, 0) = end /\ Slot(D, after.head, D - 1) = end
        /\ \A n \in 0..(D - 2) : Slot(D, after.head, n) = Slot(D, h, n + 1)
    BY <1>1, <1>5, <2>1 DEF Slot
  <2>3. ASSUME NEW n \in 0..(D - 1)
        PROVE  /\ Slot(D, after.head, n) \in Subscripts(q, D)
               /\ Slot(D, h, n) \in Subscripts(after, D)
    <3>1. 0 \in 0..(D - 1) /\ D - 1 \in 0..(D - 1)
      BY <1>1
    <3>2. n # D - 1 => n \in 0..(D - 2) /\ n + 1 \in 0..(D - 1)
      BY <1>1
    <3>3. n # 0 => n - 1 \in 0..(D - 2) /\ n - 1 \in 0..(D - 1) /\ (n - 1) + 1 = n
      BY <1>1
    <3>4. Slot(D, after.head, n) \in Subscripts(q, D)
      BY <1>4, <1>5, <2>2, <3>1, <3>2
    <3>5. Slot(D, h, n) \in Subscripts(after, D)
      BY <1>4, <2>1, <2>2, <3>1, <3>3
    <3> QED
      BY <3>4, <3>5
  <2>4. Subscripts(after, D) = Subscripts(q, D)
    BY <1>4, <1>5, <2>1, <2>3
  <2>5. end \in Subscripts(q, D)
    <3>1. 0 \in 0..(size - 1)
      BY <1>1, <1>5
    <3> QED
      BY <1>4, <2>2, <3>1
  <2> QED
    BY <1>1, <1>5, <2>4, <2>5 DEF size
<1>6. CASE size # D
  <2>1. after.head = h /\ after.contents_size = size + 1 /\ size \in 0..(D - 1)
    BY <1>1, <1>2, <1>6
  <2>2. Subscripts(after, D) = Subscripts(q, D) \cup {end}
    <3>1. 0..((size + 1) - 1) = 0..(size - 1) \cup {size}
      BY <1>1
    <3> QED
      BY <1>4, <2>1, <3>1
  <2>3. end \notin Subscripts(q, D)
    <3>1. \A n \in 0..(size - 1) : n \in 0..(D - 1) /\ n # size
      BY <1>1
    <3> QED
      BY <1>1, <1>4, <2>1, <3>1, SlotsDiffer
  <2> QED
    BY <1>1, <1>6, <2>2, <2>3 DEF size
<1> QED
  BY <1>5, <1>6

\* pop_front takes the first item away, and the element at head_.
LEMMA PopFrontSound ==
  ASSUME NEW D \in Sizable, NEW q, SoundQueue(q, D), q.contents_size > 0,
         NEW after, after = PopFront(q, D)
  PROVE  /\ SoundQueue(after, D) /\ Contents(q, D) # <<>>
         /\ Contents(after, D) = Tail(Contents(q, D))
         /\ Subscripts(after, D) = Subscripts(q, D) \ {q.head} /\ q.head \in Subscripts(q, D)
<1> DEFINE size == q.contents_size
           h    == q.head
           rest == Tail(Contents(q, D))
<1>1. /\ D \in Nat /\ D >= 2 /\ h \in 0..(D - 1) /\ size \in 1..D /\ q \in Queues(D)
      /\ \A n \in 0..(size - 1) : q.array[Slot(D, h, n)] \in Items
      /\ Wrapped(D, q.tail + 1) = Slot(D, h, size)
  BY DEF SoundQueue, Queues, Sizable
<1>2. /\ after.array = q.array /\ after.tail = q.tail /\ after.head = Wrapped(D, h + 1)
      /\ after.contents_size = size - 1 /\ after \in Queues(D)
  BY <1>1, HeadIncremented DEF PopFront
<1>3. /\ Contents(q, D) \in Seq(Items) /\ Len(Contents(q, D)) = size
      /\ \A n \in 1..size : Contents(q, D)[n] = q.array[Slot(D, h, n - 1)]
  BY ContentsAre
<1>4. /\ Contents(q, D) # <<>> /\ rest \in Seq(Items) /\ Len(rest) = size - 1
      /\ \A n \in 1..(size - 1) : rest[n] = Contents(q, D)[n + 1]
  BY <1>1, <1>3
<1> HIDE DEF size, h, rest
<1>5. after.head = IF h + 1 = D THEN 0 ELSE h + 1
  BY <1>2 DEF Wrapped
<1>6. \A n \in 0..(size - 1) : Slot(D, after.head, n) = IF n = D - 1 THEN h ELSE Slot(D, h, n + 1)
  BY <1>1, <1>5 DEF Slot
<1>7. SoundQueue(after, D)
  <2>1. Wrapped(D, after.tail + 1) = Slot(D, after.head, after.contents_size)
    BY <1>1, <1>2, <1>5 DEF Slot
  <2>2. \A n \in 0..(after.contents_size - 1) :
           n # D - 1 /\ n \in 0..(size - 1) /\ n + 1 \in 0..(size - 1)
    BY <1>1, <1>2
  <2> QED
    BY <1>1, <1>2, <1>6, <2>1, <2>2 DEF SoundQueue
<1>8. Contents(after, D) = rest
  <2>1. Len(rest) = after.contents_size
    BY <1>2, <1>4
  <2>2. ASSUME NEW n \in 1..Len(rest)
        PROVE  rest[n] = after.array[Slot(D, after.head, n - 1)]
    <3>1. /\ n \in 1..(size - 1) /\ n + 1 \in 1..size /\ (n + 1) - 1 = n
          /\ n - 1 \in 0..(size - 1) /\ n - 1 # D - 1 /\ (n - 1) + 1 = n
      BY <1>1, <1>4
    <3> QED
      BY <1>2, <1>3, <1>4, <1>6, <3>1
  <2> QED
    BY <1>4, <1>7, <2>1, <2>2, ContentsEqual
<1>9. /\ Subscripts(q, D) = {Slot(D, h, n) : n \in 0..(size - 1)}
      /\ Subscripts(after, D) = {Slot(D, after.head, n) : n \in 0..(size - 2)}
  <2>1. (size - 1) - 1 = size - 2
    BY <1>1
  <2> QED
    BY <1>2, <1>7, <2>1, SubscriptsAre DEF size, h
<1>10. Slot(D, h, 0) = h /\ 0 \in 0..(size - 1) /\ 0 \in 0..(D - 1)
  BY <1>1 DEF Slot
<1>11. \A n \in 0..(size - 1) : n # 0 => n - 1 \in 0..(size - 2) /\ Slot(D, after.head, n - 1) = Slot(D, h, n)
  <2>1. \A n \in 0..(size - 1) : n # 0 => /\ n - 1 \in 0..(size - 2) /\ n - 1 \in 0..(size - 1)
                                          /\ n - 1 # D - 1 /\ (n - 1) + 1 = n
    BY <1>1
  <2> QED
    BY <1>6, <2>1
<1>12. ASSUME NEW n \in 0..(size - 2)
       PROVE  Slot(D, after.head, n) \in Subscripts(q, D) \ {h}
  <2>1. n \in 0..(size - 1) /\ n # D - 1 /\ n + 1 \in 0..(size - 1) /\ n + 1 \in 0..(D - 1) /\ n + 1 # 0
    BY <1>1
  <2>2. Slot(D, after.head, n) = Slot(D, h, n + 1)
    BY <1>6, <2>1
  <2>3. Slot(D, h, n + 1) # Slot(D, h, 0)
    BY <1>1, <1>10, <2>1, SlotsDiffer
  <2> QED
    BY <1>9, <1>10, <2>1, <2>2, <2>3
<1>13. Subscripts(after, D) = Subscripts(q, D) \ {h}
  BY <1>9, <1>10, <1>11, <1>12
<1> QED
  BY <1>4, <1>7, <1>8, <1>9, <1>10, <1>13 DEF rest, h

\* A buffer without items.
LEMMA EmptySound ==
  ASSUME NEW D \in Sizable, NEW q, SoundQueue(q, D), q.contents_size = 0
  PROVE  Contents(q, D) = <<>> /\ Subscripts(q, D) = {}
<1>1. Contents(q, D) = <<>>
  BY ContentsAre
<1>2. Subscripts(q, D) = {}
  BY DEF Subscripts
<1> QED
  BY <1>1, <1>2

LEMMA NewQueueSound ==
  ASSUME NEW D \in Sizable
  PROVE  SoundQueue(NewQueue(D, Garbage), D) /\ NewQueue(D, Garbage).contents_size = 0
  BY DEF SoundQueue, Queues, NewQueue, Slot, Wrapped, Sizable

LEMMA ClearSound ==
  ASSUME NEW D \in Sizable, NEW q \in Queues(D)
  PROVE  SoundQueue(Clear(q), D) /\ Clear(q).contents_size = 0
<1>1. 1 \in 0..(D - 1) /\ 0 \in 0..(D - 1) /\ 0 \in 0..D /\ D # 1 /\ D >= 2 /\ D \in Nat
  BY DEF Sizable
<1>3. /\ Clear(q).head = 1 /\ Clear(q).tail = 0 /\ Clear(q).contents_size = 0
      /\ Clear(q) \in Queues(D)
  BY <1>1 DEF Queues, Clear
<1>4. Wrapped(D, 0 + 1) = Slot(D, 1, 0)
  BY <1>1 DEF Slot, Wrapped
<1> QED
  BY <1>3, <1>4 DEF SoundQueue

\* assign_into: n calls of push_back, on an empty buffer.
Pushes(f, n, q, D, s) ==
  f = [i \in 0..n |-> IF i = 0 THEN q ELSE PushBack(f[i - 1], D, s[i])]

LEMMA PushesExist ==
  ASSUME NEW n \in Nat, NEW q, NEW D, NEW s
  PROVE  \E f : Pushes(f, n, q, D, s)
<1> DEFINE T == {m \in 0..n : ~ \E f : Pushes(f, m, q, D, s)}
<1>1. ASSUME T # {}
      PROVE  FALSE
  <2>1. PICK m \in T : \A other \in T : m <= other
    <3>1. T \subseteq Nat
      OBVIOUS
    <3> HIDE DEF T
    <3> QED
      BY <1>1, <3>1, LeastOf
  <2>2. m \in 0..n /\ ~ \E f : Pushes(f, m, q, D, s)
    OBVIOUS
  <2>3. m # 0
    <3>1. Pushes([i \in 0..0 |-> q], 0, q, D, s)
      <4>1. \A i \in 0..0 : i = 0
        OBVIOUS
      <4> QED
        BY <4>1 DEF Pushes
    <3> QED
      BY <2>2, <3>1
  <2>4. PICK f : Pushes(f, m - 1, q, D, s)
    <3>1. m - 1 \in 0..n /\ ~ (m <= m - 1)
      BY <2>2, <2>3
    <3>2. m - 1 \notin T
      BY <2>1, <3>1
    <3> QED
      BY <3>1, <3>2
  <2> DEFINE g == [i \in 0..m |-> IF i = 0 THEN q ELSE PushBack(f[i - 1], D, s[i])]
  <2>5. ASSUME NEW i \in 0..(m - 1)
        PROVE  g[i] = f[i]
    <3>1. i \in 0..m
      BY <2>2, <2>5
    <3> QED
      BY <2>4, <3>1 DEF Pushes
  <2>6. \A i \in 0..m : i = 0 \/ i - 1 \in 0..(m - 1)
    BY <2>2
  <2>7. g = [i \in 0..m |-> IF i = 0 THEN q ELSE PushBack(g[i - 1], D, s[i])]
    <3>1. \A i \in 0..m : (IF i = 0 THEN q ELSE PushBack(f[i - 1], D, s[i]))
                            = (IF i = 0 THEN q ELSE PushBack(g[i - 1], D, s[i]))
      <4> HIDE DEF g
      <4> QED
        BY <2>5, <2>6
    <3>2. g = [i \in 0..m |-> IF i = 0 THEN q ELSE PushBack(f[i - 1], D, s[i])]
      OBVIOUS
    <3> HIDE DEF g
    <3> QED
      BY <3>1, <3>2
  <2>8. Pushes(g, m, q, D, s)
    BY <2>7 DEF Pushes
  <2> QED
    BY <2>2, <2>8
<1> QED
  <2>1. n \notin T
    BY <1>1
  <2> QED
    BY <2>1

LEMMA FilledSound ==
  ASSUME NEW D \in Sizable, NEW q \in Queues(D), q.contents_size = 0 => SoundQueue(q, D), NEW s \in Seq(Items), Len(s) <= D,
         NEW filled, filled = Filled(q, D, s)
  PROVE  SoundQueue(filled, D) /\ Contents(filled, D) = s
<1> DEFINE n     == Len(s)
           start == IF q.contents_size = 0 THEN q ELSE Clear(q)
           after == CHOOSE f : Pushes(f, n, start, D, s)
<1>1. D \in Nat /\ D >= 2 /\ n \in 0..D
  BY DEF Sizable
<1>2. SoundQueue(start, D) /\ start.contents_size = 0
  BY ClearSound
<1>3. filled = after[n]
  BY DEF Filled, Pushes
<1>4. Pushes(after, n, start, D, s)
  <2> HIDE DEF start
  <2>1. n \in Nat
    OBVIOUS
  <2> HIDE DEF n
  <2>2. \E f : Pushes(f, n, start, D, s)
    BY <2>1, PushesExist
  <2> QED
    BY <2>2, Zenon
<1> HIDE DEF n, start, after
<1>5. /\ after[0] = start
      /\ \A i \in 1..n : after[i] = PushBack(after[i - 1], D, s[i])
  <2>1. 0 \in 0..n /\ \A i \in 1..n : i \in 0..n /\ i # 0
    BY <1>1
  <2> QED
    BY <1>4, <2>1 DEF Pushes
<1> DEFINE Good(i) == /\ SoundQueue(after[i], D) /\ after[i].contents_size = i
                      /\ Contents(after[i], D) = SubSeq(s, 1, i)
           T == {i \in 0..n : ~Good(i)}
<1>6. Good(0)
  <2>1. SubSeq(s, 1, 0) = <<>>
    OBVIOUS
  <2> QED
    BY <1>2, <1>5, <2>1, EmptySound
<1>7. ASSUME NEW i \in 1..n, Good(i - 1)
      PROVE  Good(i)
  <2>1. s[i] \in Items /\ i \in 1..Len(s) /\ i - 1 < D
    BY <1>1 DEF n
  <2>2. after[i] = PushBack(after[i - 1], D, s[i])
    BY <1>5
  <2>3. /\ SoundQueue(after[i], D)
        /\ Contents(after[i], D) = Append(Contents(after[i - 1], D), s[i])
    <3>1. SoundQueue(after[i - 1], D) /\ after[i - 1].contents_size < D
      BY <1>7, <2>1
    <3> QED
      BY <2>1, <2>2, <3>1, PushBackSound
  <2>4. Append(SubSeq(s, 1, i - 1), s[i]) = SubSeq(s, 1, i)
    BY <2>1
  <2>5. Contents(after[i], D) = SubSeq(s, 1, i)
    BY <1>7, <2>3, <2>4
  <2>6. after[i].contents_size = i
    <3>1. Len(Contents(after[i], D)) = after[i].contents_size
      BY <2>3, ContentsAre
    <3>2. Len(SubSeq(s, 1, i)) = i
      BY <2>1
    <3> QED
      BY <2>5, <3>1, <3>2
  <2> QED
    BY <2>3, <2>5, <2>6
<1> HIDE DEF Good
<1>8. ASSUME T # {}
      PROVE  FALSE
  <2>1. PICK i \in T : \A other \in T : i <= other
    <3>1. T \subseteq Nat
      BY <1>1
    <3> HIDE DEF T
    <3> QED
      BY <1>8, <3>1, LeastOf
  <2>2. i \in 1..n
    BY <1>1, <1>6
  <2>3. i - 1 \in 0..n /\ ~ (i <= i - 1)
    BY <1>1, <2>2
  <2>4. Good(i - 1)
    BY <2>1, <2>3
  <2> QED
    BY <1>7, <2>2, <2>4
<1>9. Good(n)
  <2>1. n \in 0..n
    BY <1>1
  <2> QED
    BY <1>8, <2>1
<1>10. SubSeq(s, 1, n) = s
  BY DEF n
<1> QED
  BY <1>3, <1>9, <1>10 DEF Good

\* assign_into_reserving: n growths.
Growth(f, n, c) == f = [i \in 0..n |-> IF i = 0 THEN c ELSE Grown(f[i - 1])]

LEMMA GrowthExists ==
  ASSUME NEW n \in Nat, NEW c
  PROVE  \E f : Growth(f, n, c)
<1> DEFINE T == {m \in 0..n : ~ \E f : Growth(f, m, c)}
<1>1. ASSUME T # {}
      PROVE  FALSE
  <2>1. PICK m \in T : \A other \in T : m <= other
    <3>1. T \subseteq Nat
      OBVIOUS
    <3> HIDE DEF T
    <3> QED
      BY <1>1, <3>1, LeastOf
  <2>2. m \in 0..n /\ ~ \E f : Growth(f, m, c)
    OBVIOUS
  <2>3. m # 0
    <3>1. Growth([i \in 0..0 |-> c], 0, c)
      <4>1. \A i \in 0..0 : i = 0
        OBVIOUS
      <4> QED
        BY <4>1 DEF Growth
    <3> QED
      BY <2>2, <3>1
  <2>4. PICK f : Growth(f, m - 1, c)
    <3>1. m - 1 \in 0..n /\ ~ (m <= m - 1)
      BY <2>2, <2>3
    <3>2. m - 1 \notin T
      BY <2>1, <3>1
    <3> QED
      BY <3>1, <3>2
  <2> DEFINE g == [i \in 0..m |-> IF i = 0 THEN c ELSE Grown(f[i - 1])]
  <2>5. ASSUME NEW i \in 0..(m - 1)
        PROVE  g[i] = f[i]
    <3>1. i \in 0..m
      BY <2>2, <2>5
    <3> QED
      BY <2>4, <3>1 DEF Growth
  <2>6. \A i \in 0..m : i = 0 \/ i - 1 \in 0..(m - 1)
    BY <2>2
  <2>7. g = [i \in 0..m |-> IF i = 0 THEN c ELSE Grown(g[i - 1])]
    <3>1. \A i \in 0..m : (IF i = 0 THEN c ELSE Grown(f[i - 1]))
                            = (IF i = 0 THEN c ELSE Grown(g[i - 1]))
      <4> HIDE DEF g
      <4> QED
        BY <2>5, <2>6
    <3>2. g = [i \in 0..m |-> IF i = 0 THEN c ELSE Grown(f[i - 1])]
      OBVIOUS
    <3> HIDE DEF g
    <3> QED
      BY <3>1, <3>2
  <2>8. Growth(g, m, c)
    BY <2>7 DEF Growth
  <2> QED
    BY <2>2, <2>8
<1> QED
  <2>1. n \notin T
    BY <1>1
  <2> QED
    BY <2>1

\* A capacity of 2 or more grows until there is room.
LEMMA CapacityForEnough ==
  ASSUME NEW c \in Sizable, NEW n \in Nat
  PROVE  CapacityFor(c, n) \in Sizable /\ n <= CapacityFor(c, n)
<1> DEFINE grown == CHOOSE f : Growth(f, n, c)
           ends  == {i \in 0..n : n <= grown[i] \/ Grown(grown[i]) = grown[i]}
           last  == CHOOSE i \in ends : \A j \in ends : i <= j
<1>1. CapacityFor(c, n) = grown[last]
  BY DEF CapacityFor, Growth
<1>2. Growth(grown, n, c)
  <2>1. \E f : Growth(f, n, c)
    BY GrowthExists
  <2> QED
    BY <2>1, Zenon
<1> HIDE DEF grown
<1>3. /\ grown[0] = c
      /\ \A i \in 1..n : grown[i] = Grown(grown[i - 1])
  <2>1. 0 \in 0..n /\ \A i \in 1..n : i \in 0..n /\ i # 0
    OBVIOUS
  <2> QED
    BY <1>2, <2>1 DEF Growth
<1>4. \A d \in Sizable : Grown(d) \in Sizable /\ Grown(d) >= d + 1
  BY DEF Grown, Sizable
<1> DEFINE Good(i) == grown[i] \in Sizable /\ grown[i] >= 2 + i
           T == {i \in 0..n : ~Good(i)}
<1>5. Good(0)
  BY <1>3 DEF Sizable
<1>6. ASSUME NEW i \in 1..n, Good(i - 1)
      PROVE  Good(i)
  <2>1. Grown(grown[i - 1]) \in Sizable /\ Grown(grown[i - 1]) >= grown[i - 1] + 1
    BY <1>4, <1>6
  <2>2. grown[i] \in Sizable /\ grown[i] >= grown[i - 1] + 1 /\ grown[i - 1] >= 2 + (i - 1)
        /\ grown[i - 1] \in Nat /\ grown[i] \in Nat
    BY <1>3, <1>6, <2>1 DEF Sizable
  <2> QED
    BY <2>2
<1> HIDE DEF Good
<1>7. ASSUME T # {}
      PROVE  FALSE
  <2>1. PICK i \in T : \A other \in T : i <= other
    <3>1. T \subseteq Nat
      OBVIOUS
    <3> HIDE DEF T
    <3> QED
      BY <1>7, <3>1, LeastOf
  <2>2. i \in 1..n
    BY <1>5
  <2>3. i - 1 \in 0..n /\ ~ (i <= i - 1)
    BY <2>2
  <2>4. Good(i - 1)
    BY <2>1, <2>3
  <2> QED
    BY <1>6, <2>2, <2>4
<1>8. \A i \in 0..n : grown[i] \in Sizable /\ grown[i] >= 2 + i /\ ~ (Grown(grown[i]) = grown[i])
  <2> SUFFICES ASSUME NEW i \in 0..n
               PROVE  grown[i] \in Sizable /\ grown[i] >= 2 + i /\ ~ (Grown(grown[i]) = grown[i])
    OBVIOUS
  <2>1. Good(i)
    BY <1>7
  <2>2. grown[i] \in Sizable /\ grown[i] >= 2 + i
    BY <2>1 DEF Good
  <2>3. ~ (Grown(grown[i]) = grown[i])
    BY <1>4, <2>2 DEF Sizable
  <2> QED
    BY <2>2, <2>3
<1>9. n \in ends
  <2>1. n \in 0..n
    OBVIOUS
  <2>2. n <= grown[n]
    BY <1>8, <2>1 DEF Sizable
  <2> QED
    BY <2>1, <2>2
<1>10. last \in ends
  <2>1. \E i \in ends : \A j \in ends : i <= j
    <3>1. ends \subseteq Nat /\ ends # {}
      BY <1>9
    <3> HIDE DEF ends
    <3> QED
      BY <3>1, LeastOf
  <2> HIDE DEF ends
  <2> QED
    BY <2>1
<1> HIDE DEF last
<1>11. last \in 0..n /\ n <= grown[last]
  BY <1>8, <1>10
<1> QED
  BY <1>1, <1>8, <1>11

-------------------------------------------------------------------------------
\* The fields of both buffers fit, and the elements alive are those they hold.
BuffersInv ==
  /\ array_size \in [Both -> Sizable]
  /\ DOMAIN buf = Both /\ DOMAIN built = Both
  /\ buf = [b \in Both |-> buf[b]] /\ built = [b \in Both |-> built[b]]
  /\ \A b \in Both : /\ SoundQueue(buf[b], array_size[b])
                     /\ built[b] = Subscripts(buf[b], array_size[b])
  /\ astray \subseteq {"copy"}

\* What the iterators of both give.
Given == [b \in Both |-> In(b)]

LEMMA BuffersInvInit == BuffersInit => BuffersInv /\ Promise!Init
<1> SUFFICES ASSUME BuffersInit PROVE BuffersInv /\ Promise!Init
  OBVIOUS
<1>1. array_size \in [Both -> Sizable]
  BY CapacityAssumption DEF BuffersInit, Capacities, Sizable
<1>2. ASSUME NEW b \in Both
      PROVE  /\ SoundQueue(buf[b], array_size[b]) /\ Subscripts(buf[b], array_size[b]) = {}
             /\ In(b) = <<>>
  <2>1. array_size[b] \in Sizable /\ buf[b] = NewQueue(array_size[b], Garbage)
    BY <1>1 DEF BuffersInit
  <2> QED
    BY <2>1, NewQueueSound, EmptySound DEF In
<1>3. BuffersInv
  BY <1>1, <1>2 DEF BuffersInit, BuffersInv
<1>4. Promise!Init
  <2>1. array_size \in [Both -> Nat]
    BY <1>1 DEF Sizable
  <2> QED
    BY <1>2, <2>1 DEF Promise!Init
<1> QED
  BY <1>3, <1>4

\* What the properties say of the state follows.
LEMMA BuffersInvSuffices == BuffersInv => BuffersSound
<1> SUFFICES ASSUME BuffersInv PROVE BuffersSound
  OBVIOUS
<1>1. BuiltAreHeld
  BY DEF BuffersInv, BuiltAreHeld
<1>2. ASSUME NEW b \in Both, In(b) # <<>>
      PROVE  /\ buf[b].array[buf[b].head] = In(b)[1]
             /\ buf[b].array[buf[b].tail] = In(b)[Len(In(b))]
  <2> DEFINE q == buf[b]
             D == array_size[b]
             size == q.contents_size
  <2>1. D \in Sizable /\ SoundQueue(q, D) /\ In(b) = Contents(q, D)
    BY DEF BuffersInv, In
  <2>2. /\ Contents(q, D) \in Seq(Items) /\ Len(Contents(q, D)) = size
        /\ \A n \in 1..size : Contents(q, D)[n] = q.array[Slot(D, q.head, n - 1)]
    BY <2>1, ContentsAre
  <2>3. /\ D \in Nat /\ D >= 2 /\ q.head \in 0..(D - 1) /\ q.tail \in 0..(D - 1) /\ size \in 0..D
        /\ Wrapped(D, q.tail + 1) = Slot(D, q.head, size)
    BY <2>1 DEF SoundQueue, Queues, Sizable
  <2> HIDE DEF q, D
  <2>4. size # 0
    BY <1>2, <2>1, <2>2
  <2>5. Slot(D, q.head, 0) = q.head /\ Slot(D, q.head, size - 1) = q.tail
    BY <2>3, <2>4 DEF Slot, Wrapped
  <2>6. 1 \in 1..size /\ size \in 1..size /\ 1 - 1 = 0
    BY <2>3, <2>4
  <2>7. /\ q.array[q.head] = Contents(q, D)[1]
        /\ q.array[q.tail] = Contents(q, D)[Len(Contents(q, D))]
    BY <2>2, <2>5, <2>6
  <2> QED
    BY <2>1, <2>7 DEF q
<1>3. EndsAgree
  BY <1>2 DEF EndsAgree
<1> QED
  BY <1>1, <1>3 DEF BuffersSound

\* A step that makes one buffer another queue.
LEMMA BufferReplaced ==
  ASSUME BuffersInv, NEW b \in Both, NEW D \in Sizable, NEW q, SoundQueue(q, D),
         buf' = [buf EXCEPT ![b] = q], array_size' = [array_size EXCEPT ![b] = D],
         built' = [built EXCEPT ![b] = Subscripts(q, D)], astray' \subseteq {"copy"}
  PROVE  BuffersInv' /\ Given' = [Given EXCEPT ![b] = Contents(q, D)]
<1>1. /\ DOMAIN buf = Both /\ DOMAIN built = Both /\ array_size \in [Both -> Sizable]
      /\ \A c \in Both : /\ SoundQueue(buf[c], array_size[c])
                         /\ built[c] = Subscripts(buf[c], array_size[c])
  BY DEF BuffersInv
<1>2. /\ buf'[b] = q /\ array_size'[b] = D /\ built'[b] = Subscripts(q, D)
      /\ \A c \in Both : c # b => /\ buf'[c] = buf[c] /\ array_size'[c] = array_size[c]
                                  /\ built'[c] = built[c]
  BY <1>1
<1>3. /\ array_size' \in [Both -> Sizable] /\ DOMAIN buf' = Both /\ DOMAIN built' = Both
      /\ buf' = [c \in Both |-> buf'[c]] /\ built' = [c \in Both |-> built'[c]]
  BY <1>1
<1>4. \A c \in Both : /\ SoundQueue(buf'[c], array_size'[c])
                      /\ built'[c] = Subscripts(buf'[c], array_size'[c])
  BY <1>1, <1>2
<1>5. BuffersInv'
  BY <1>3, <1>4 DEF BuffersInv
<1>6. \A c \in Both : In(c)' = IF c = b THEN Contents(q, D) ELSE In(c)
  BY <1>2 DEF In
<1>7. Given' = [Given EXCEPT ![b] = Contents(q, D)]
  BY <1>6 DEF Given
<1> QED
  BY <1>5, <1>7

\* Every call keeps the buffers sound and is what the class promises of it.
LEMMA PushBackKeeps ==
  ASSUME BuffersInv, NEW b \in Both, PushBackOn(b)
  PROVE  BuffersInv' /\ Promise!Push(b)
<1> DEFINE q == buf[b]
           D == array_size[b]
<1>1. PICK item \in Items : buf' = [buf EXCEPT ![b] = PushBack(q, D, item)]
  BY DEF PushBackOn
<1> DEFINE after == PushBack(q, D, item)
<1>2. D \in Sizable /\ SoundQueue(q, D) /\ built[b] = Subscripts(q, D)
  BY DEF BuffersInv
<1>3. /\ SoundQueue(after, D)
      /\ Contents(after, D) =
           Append(IF q.contents_size < D THEN Contents(q, D) ELSE Tail(Contents(q, D)), item)
      /\ Subscripts(after, D) = Subscripts(q, D) \cup {Wrapped(D, q.tail + 1)}
      /\ (q.contents_size = D) = (Wrapped(D, q.tail + 1) \in Subscripts(q, D))
  BY <1>2, PushBackSound, PushBackBuilds
<1>4. /\ built' = [built EXCEPT ![b] = Subscripts(after, D)] /\ astray' = astray
      /\ array_size' = [array_size EXCEPT ![b] = D]
  BY <1>2, <1>3 DEF PushBackOn, BuffersInv
<1>5. astray' \subseteq {"copy"}
  BY <1>4 DEF BuffersInv
<1> HIDE DEF after
<1>6. BuffersInv' /\ Given' = [Given EXCEPT ![b] = Contents(after, D)]
  <2>1. buf' = [buf EXCEPT ![b] = after]
    BY <1>1 DEF after
  <2> QED
    BY <1>2, <1>3, <1>4, <1>5, <2>1, BufferReplaced
<1>7. Len(Contents(q, D)) = q.contents_size
  BY <1>2, ContentsAre
<1>8. Given[b] = Contents(q, D)
  BY DEF Given, In
<1>9. Given' = [Given EXCEPT ![b] = Append(IF Len(Given[b]) < D THEN Given[b] ELSE Tail(Given[b]), item)]
  BY <1>3, <1>6, <1>7, <1>8
<1>10. Promise!Push(b)
  BY <1>9 DEF Promise!Push, Promise!Holds, Given, PushBackOn
<1> QED
  BY <1>6, <1>10

LEMMA PopFrontKeeps ==
  ASSUME BuffersInv, NEW b \in Both, PopFrontOn(b)
  PROVE  BuffersInv' /\ Promise!Pop(b)
<1> DEFINE q == buf[b]
           D == array_size[b]
           after == PopFront(q, D)
<1>1. D \in Sizable /\ SoundQueue(q, D) /\ built[b] = Subscripts(q, D) /\ q.contents_size > 0
  BY DEF BuffersInv, PopFrontOn
<1>2. /\ SoundQueue(after, D) /\ Contents(q, D) # <<>>
      /\ Contents(after, D) = Tail(Contents(q, D))
      /\ Subscripts(after, D) = Subscripts(q, D) \ {q.head} /\ q.head \in Subscripts(q, D)
  BY <1>1, PopFrontSound
<1>3. /\ built' = [built EXCEPT ![b] = Subscripts(after, D)] /\ astray' = astray
      /\ array_size' = [array_size EXCEPT ![b] = D] /\ buf' = [buf EXCEPT ![b] = after]
  BY <1>1, <1>2 DEF PopFrontOn, BuffersInv
<1>4. astray' \subseteq {"copy"}
  BY <1>3 DEF BuffersInv
<1> HIDE DEF after
<1>5. BuffersInv' /\ Given' = [Given EXCEPT ![b] = Contents(after, D)]
  BY <1>1, <1>2, <1>3, <1>4, BufferReplaced
<1>6. Given[b] = Contents(q, D)
  BY DEF Given, In
<1>7. Given' = [Given EXCEPT ![b] = Tail(Given[b])] /\ Given[b] # <<>>
  BY <1>2, <1>5, <1>6
<1>8. Promise!Pop(b)
  BY <1>7 DEF Promise!Pop, Promise!Holds, Given, PopFrontOn
<1> QED
  BY <1>5, <1>8

LEMMA ClearKeeps ==
  ASSUME BuffersInv, NEW b \in Both, ClearOn(b)
  PROVE  BuffersInv' /\ Promise!Clear(b)
<1> DEFINE q == buf[b]
           D == array_size[b]
           after == Clear(q)
<1>1. D \in Sizable /\ SoundQueue(q, D) /\ built[b] = Subscripts(q, D)
  BY DEF BuffersInv
<1>2. SoundQueue(after, D) /\ Contents(after, D) = <<>> /\ Subscripts(after, D) = {}
  <2>1. SoundQueue(after, D) /\ after.contents_size = 0
    BY <1>1, ClearSound DEF SoundQueue
  <2> QED
    BY <1>1, <2>1, EmptySound
<1>3. /\ built' = [built EXCEPT ![b] = Subscripts(after, D)] /\ astray' = astray
      /\ array_size' = [array_size EXCEPT ![b] = D] /\ buf' = [buf EXCEPT ![b] = after]
  BY <1>1, <1>2 DEF ClearOn, BuffersInv
<1>4. astray' \subseteq {"copy"}
  BY <1>3 DEF BuffersInv
<1> HIDE DEF after
<1>5. BuffersInv' /\ Given' = [Given EXCEPT ![b] = Contents(after, D)]
  BY <1>1, <1>2, <1>3, <1>4, BufferReplaced
<1>6. Promise!Clear(b)
  BY <1>2, <1>5 DEF Promise!Clear, Promise!Holds, Given, ClearOn
<1> QED
  BY <1>5, <1>6

\* A buffer that is made anew, of what one holds.
LEMMA BecomesKeeps ==
  ASSUME BuffersInv, NEW b \in Both, NEW c \in Both, NEW D \in Sizable, buf[c].contents_size <= D,
         NEW q \in Queues(D), q.contents_size = 0 => SoundQueue(q, D),
         Becomes(b, Filled(q, D, In(c)), D), astray' \subseteq {"copy"}
  PROVE  /\ BuffersInv' /\ Given' = [Given EXCEPT ![b] = Given[c]]
         /\ array_size' = [array_size EXCEPT ![b] = D] /\ D \in Nat /\ Len(Given[c]) <= D
<1> DEFINE filled == Filled(q, D, In(c))
<1>1. Given[c] = In(c) /\ In(c) \in Seq(Items) /\ Len(In(c)) <= D
  <2>1. SoundQueue(buf[c], array_size[c]) /\ array_size[c] \in Sizable
    BY DEF BuffersInv
  <2> QED
    BY <2>1, ContentsAre DEF Given, In
<1>2. SoundQueue(filled, D) /\ Contents(filled, D) = In(c)
  BY <1>1, FilledSound
<1>3. /\ buf' = [buf EXCEPT ![b] = filled] /\ array_size' = [array_size EXCEPT ![b] = D]
      /\ built' = [built EXCEPT ![b] = Subscripts(filled, D)]
  BY DEF Becomes
<1> HIDE DEF filled
<1>4. BuffersInv' /\ Given' = [Given EXCEPT ![b] = Contents(filled, D)]
  BY <1>2, <1>3, BufferReplaced
<1> QED
  BY <1>1, <1>2, <1>3, <1>4 DEF Sizable

LEMMA ReserveKeeps ==
  ASSUME BuffersInv, NEW b \in Both, Reserve(b)
  PROVE  BuffersInv' /\ Promise!Reserve(b)
<1>1. PICK n \in Capacities : /\ array_size[b] < n
                              /\ Becomes(b, Filled(NewQueue(n, Garbage), n, In(b)), n)
  BY DEF Reserve
<1>2. /\ n \in Sizable /\ array_size[b] \in Sizable /\ buf[b].contents_size <= array_size[b]
      /\ buf[b].contents_size \in Nat /\ astray' \subseteq {"copy"}
  BY CapacityAssumption DEF Capacities, Sizable, BuffersInv, SoundQueue, Queues, Reserve
<1>3. NewQueue(n, Garbage) \in Queues(n) /\ SoundQueue(NewQueue(n, Garbage), n)
  BY <1>2, NewQueueSound DEF SoundQueue
<1>4. buf[b].contents_size <= n
  BY <1>1, <1>2 DEF Sizable
<1>5. /\ BuffersInv' /\ Given' = [Given EXCEPT ![b] = Given[b]]
      /\ array_size' = [array_size EXCEPT ![b] = n]
  BY <1>1, <1>2, <1>3, <1>4, BecomesKeeps
<1>6. Given' = Given
  BY <1>5 DEF Given
<1>7. array_size'[b] = n /\ n > array_size[b]
  BY <1>1, <1>2, <1>5 DEF BuffersInv, Sizable
<1>8. Promise!Reserve(b)
  BY <1>5, <1>6, <1>7 DEF Promise!Reserve, Given
<1> QED
  BY <1>5, <1>8

\* The buffer that comes of copying one.
LEMMA CopyKeeps ==
  ASSUME BuffersInv, NEW b \in Both, NEW c \in Both, NEW D \in Sizable, buf[c].contents_size <= D,
         NEW q \in Queues(D), q.contents_size = 0 => SoundQueue(q, D),
         Becomes(b, Filled(q, D, In(c)), D), astray' \subseteq {"copy"}
  PROVE  BuffersInv' /\ Promise!Copy(b, c)
<1>1. /\ BuffersInv' /\ Given' = [Given EXCEPT ![b] = Given[c]]
      /\ array_size' = [array_size EXCEPT ![b] = D] /\ D \in Nat /\ Len(Given[c]) <= D
  BY BecomesKeeps
<1>2. array_size'[b] = D
  BY <1>1 DEF BuffersInv
<1>3. Promise!Copy(b, c)
  BY <1>1, <1>2 DEF Promise!Copy, Promise!Holds, Given
<1> QED
  BY <1>1, <1>3

LEMMA AssignKeeps ==
  ASSUME BuffersInv, NEW b \in Both, NEW c \in Both, Assign(b, c)
  PROVE  BuffersInv' /\ Promise!Copy(b, c)
<1> DEFINE D == array_size[c]
           fresh == NewQueue(D, Garbage).array
           copy == [buf[c] EXCEPT !.array = fresh]
<1>1. /\ D \in Sizable /\ SoundQueue(buf[c], D) /\ buf[c] \in Queues(D)
      /\ Becomes(b, Filled(copy, D, In(c)), D) /\ astray' \subseteq {"copy"}
  BY DEF BuffersInv, Assign, SoundQueue
<1>2. fresh \in [0..(D - 1) -> Items \cup {Garbage}]
  BY DEF NewQueue
<1> HIDE DEF fresh
<1>3. /\ copy \in Queues(D) /\ copy.head = buf[c].head /\ copy.tail = buf[c].tail
      /\ copy.contents_size = buf[c].contents_size
  BY <1>1, <1>2 DEF Queues
<1>4. buf[c].contents_size <= D /\ buf[c].contents_size \in Nat
  BY <1>1 DEF Queues, Sizable
<1> HIDE DEF copy
<1>5. copy.contents_size = 0 => SoundQueue(copy, D)
  <2> SUFFICES ASSUME copy.contents_size = 0 PROVE SoundQueue(copy, D)
    OBVIOUS
  <2>1. Wrapped(D, copy.tail + 1) = Slot(D, copy.head, copy.contents_size)
    BY <1>1, <1>3 DEF SoundQueue
  <2>2. 0..(copy.contents_size - 1) = {}
    OBVIOUS
  <2> QED
    BY <1>3, <2>1, <2>2 DEF SoundQueue
<1> HIDE DEF D
<1> QED
  BY <1>1, <1>3, <1>4, <1>5, CopyKeeps

LEMMA FromRangeKeeps ==
  ASSUME BuffersInv, NEW b \in Both, NEW c \in Both, FromRange(b, c)
  PROVE  BuffersInv' /\ Promise!Copy(b, c)
<1> DEFINE n == CapacityFor(DefaultCapacity, buf[c].contents_size)
<1>1. DefaultCapacity \in Sizable /\ buf[c].contents_size \in Nat
  BY CapacityAssumption DEF BuffersInv, SoundQueue, Queues, Sizable
<1>2. n \in Sizable /\ buf[c].contents_size <= n
  BY <1>1, CapacityForEnough
<1>3. Becomes(b, Filled(NewQueue(n, Garbage), n, In(c)), n) /\ astray' \subseteq {"copy"}
  BY DEF FromRange, BuffersInv
<1>4. NewQueue(n, Garbage) \in Queues(n) /\ SoundQueue(NewQueue(n, Garbage), n)
  BY <1>2, NewQueueSound DEF SoundQueue
<1> HIDE DEF n
<1> QED
  BY <1>2, <1>3, <1>4, CopyKeeps

LEMMA SwapKeeps ==
  ASSUME BuffersInv, SwapThem
  PROVE  BuffersInv' /\ Promise!Swap(1, 2)
<1>1. /\ array_size \in [Both -> Sizable]
      /\ \A b \in Both : /\ SoundQueue(buf[b], array_size[b])
                         /\ built[b] = Subscripts(buf[b], array_size[b])
  BY DEF BuffersInv
<1>2. /\ buf' = [b \in Both |-> buf[3 - b]] /\ array_size' = [b \in Both |-> array_size[3 - b]]
      /\ built' = [b \in Both |-> built[3 - b]] /\ astray' = astray
  BY DEF SwapThem
<1>3. 3 - 1 = 2 /\ 3 - 2 = 1 /\ 1 \in Both /\ 2 \in Both /\ \A b \in Both : 3 - b \in Both
  BY DEF Both
<1>4. BuffersInv'
  <2>1. array_size' \in [Both -> Sizable]
    BY <1>1, <1>2, <1>3
  <2>2. \A b \in Both : /\ buf'[b] = buf[3 - b] /\ array_size'[b] = array_size[3 - b]
                        /\ built'[b] = built[3 - b]
    BY <1>2
  <2>3. \A b \in Both : /\ SoundQueue(buf'[b], array_size'[b])
                        /\ built'[b] = Subscripts(buf'[b], array_size'[b])
    BY <1>1, <1>3, <2>2
  <2>4. /\ DOMAIN buf' = Both /\ DOMAIN built' = Both
        /\ buf' = [b \in Both |-> buf'[b]] /\ built' = [b \in Both |-> built'[b]]
    BY <1>2
  <2>5. astray' \subseteq {"copy"}
    BY <1>2 DEF BuffersInv
  <2> QED
    BY <2>1, <2>3, <2>4, <2>5 DEF BuffersInv
<1>5. \A b \in Both : In(b)' = In(3 - b)
  BY <1>2 DEF In
<1>6. Given' = [Given EXCEPT ![1] = Given[2], ![2] = Given[1]]
  <2>1. Given[1] = In(1) /\ Given[2] = In(2) /\ In(1)' = In(2) /\ In(2)' = In(1)
    BY <1>3, <1>5 DEF Given
  <2>2. Given = [b \in {1, 2} |-> In(b)] /\ Given' = [b \in {1, 2} |-> In(b)']
    BY DEF Given, Both
  <2> QED
    BY <2>1, <2>2
<1>7. array_size' = [array_size EXCEPT ![1] = array_size[2], ![2] = array_size[1]]
  BY <1>1, <1>2, <1>3 DEF Both
<1>8. Promise!Swap(1, 2)
  BY <1>6, <1>7 DEF Promise!Swap, Given
<1> QED
  BY <1>4, <1>8

LEMMA BuffersStep == BuffersInv /\ BuffersNext => BuffersInv' /\ Promise!Next
<1> SUFFICES ASSUME BuffersInv, BuffersNext PROVE BuffersInv' /\ Promise!Next
  OBVIOUS
<1>1. CASE SwapThem
  BY <1>1, SwapKeeps DEF Promise!Next, Both
<1>2. ASSUME NEW b \in Both, PushBackOn(b) \/ PopFrontOn(b) \/ ClearOn(b) \/ Reserve(b)
      PROVE  BuffersInv' /\ Promise!Next
  BY <1>2, PushBackKeeps, PopFrontKeeps, ClearKeeps, ReserveKeeps DEF Promise!Next
<1>3. ASSUME NEW b \in Both, NEW c \in Both, Assign(b, c) \/ FromRange(b, c)
      PROVE  BuffersInv' /\ Promise!Next
  BY <1>3, AssignKeeps, FromRangeKeeps DEF Promise!Next
<1> QED
  BY <1>1, <1>2, <1>3 DEF BuffersNext

LEMMA BuffersUnchanged == BuffersInv /\ UNCHANGED bufferVars => BuffersInv'
  BY DEF BuffersInv, bufferVars
-------------------------------------------------------------------------------
(* The four parts together.                                                *)

\* A behaviour of the library is one of each part.
THEOREM PartsApart == Spec => HeapSpec /\ CallsSpec /\ BuffersSpec /\ MapSpec
<1>1. Init => HeapInit /\ CallsInit /\ BuffersInit /\ MapInit
  BY DEF Init
<1>2. [Next]_libraryVars => /\ [HeapNext]_heapVars /\ [CallsNext]_callVars
                            /\ [BuffersNext]_bufferVars /\ [MapNext]_mapVars
  BY DEF Next, libraryVars
<1> QED
  BY <1>1, <1>2, PTL DEF Spec, HeapSpec, CallsSpec, BuffersSpec, MapSpec

LEMMA BuffersInvariance == BuffersSpec => []BuffersInv
<1>1. BuffersInit => BuffersInv
  BY BuffersInvInit
<1>2. BuffersInv /\ [BuffersNext]_bufferVars => BuffersInv'
  BY BuffersStep, BuffersUnchanged
<1> QED
  BY <1>1, <1>2, PTL DEF BuffersSpec

\* Whatever is called, on either buffer, the ends are those of what the iterators
\* give, and the elements alive are those held.
THEOREM BuffersCorrect == BuffersSpec => []BuffersSound
  BY BuffersInvariance, BuffersInvSuffices, PTL

\* The circular buffers implement what the comment on the class promises.
THEOREM QueueCorrect == Spec => IsBoundedQueue
<1>1. BuffersInit => Promise!Init
  BY BuffersInvInit
<1>2. BuffersInv /\ [Next]_libraryVars => [part = "buffers" => Promise!Next]_bufferVars
  <2> SUFFICES ASSUME BuffersInv, [Next]_libraryVars, part = "buffers", bufferVars' # bufferVars
               PROVE  Promise!Next
    OBVIOUS
  <2>1. BuffersNext
    BY DEF Next, libraryVars
  <2> QED
    BY <2>1, BuffersStep
<1>3. Spec => BuffersSpec
  BY PartsApart, PTL
<1> QED
  BY <1>1, <1>2, <1>3, BuffersInvariance, PTL DEF Spec, BuffersSpec, IsBoundedQueue
===============================================================================
