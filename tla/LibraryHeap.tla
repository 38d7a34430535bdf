------------------------------ MODULE LibraryHeap ------------------------------
(***************************************************************************)
(* The malloc family of proj_pass/tools/utils/profile_function_wrappers.h: *)
(* memprof_malloc, calloc, strdup, realloc and free keep a header before   *)
(* each block they hand out and tell a memory profiler, through ALLOCATE,  *)
(* DEALLOCATE and STORE, what becomes of the program's memory.             *)
(*                                                                         *)
(* A cell stands for a byte of data, and one cell for the 16 bytes of a    *)
(* header.  The allocator under the wrappers is external: it may place a   *)
(* block anywhere, resize it in place or move it, and run out of memory.   *)
(***************************************************************************)
EXTENDS Integers, FiniteSets

CONSTANTS MemorySize,   \* model bound: cells of the heap
          MaxSize       \* model bound: bytes asked for in a call

ASSUME HeapAssumption == {MemorySize, MaxSize} \subseteq Nat

Cells == 1..MemorySize
Sizes == 0..MaxSize

NoHeader == -1

VARIABLES extent,      \* the allocator's blocks: from their first cell, the bytes asked for
          header,      \* the headers in them: the size written beside 0xDEADBEEF, or NoHeader
          held,        \* blocks whose data the program has a pointer to
          allocated,   \* cells the profiler was told are allocated
          unreported,  \* history: cells with a write that no later STORE told of
          shrank, grew,\* history: some block was resized in place
          heapStatus   \* "running", or how the wrappers ended the program

heapVars == <<extent, header, held, allocated, unreported, shrank, grew, heapStatus>>

Data(start, n) == (start + 1)..(start + n)
Block(start, n) == start..(start + n)

\* The cells of a block; one without header holds nothing but the bytes asked for.
Span(s) == Block(s, IF header[s] = NoHeader THEN extent[s] - 1 ELSE extent[s])

Used == UNION {Span(s) : s \in DOMAIN extent}

\* The places the allocator may put a header and n bytes at.
Room(n, used) == {s \in Cells : Block(s, n) \subseteq Cells \ used}

HeapInit == /\ extent = [s \in {} |-> 0]
            /\ header = [s \in {} |-> 0]
            /\ held = {}
            /\ allocated = {}
            /\ unreported = {}
            /\ shrank = FALSE /\ grew = FALSE
            /\ heapStatus = "running"

With(f, s, v) == [x \in DOMAIN f \cup {s} |-> IF x = s THEN v ELSE f[x]]
Without(f, s) == [x \in DOMAIN f \ {s} |-> f[x]]

\* A call writes the cells of `written` and tells of a STORE to those of `stored`.
Report(written, stored) == unreported' = (unreported \cup written) \ stored

\* Without memory the wrappers write the header through a null pointer.
NullHeader == /\ heapStatus' = "no_memory"
              /\ UNCHANGED <<extent, header, held, allocated, unreported, shrank, grew>>

-------------------------------------------------------------------------------
\* memprof_malloc, once the allocator has found the place s; the caller writes
\* `written` of the new block.
NewBlock(s, n, written, stored) ==
  /\ extent' = With(extent, s, n)
  /\ header' = With(header, s, n)
  /\ held' = held \cup {s}
  /\ allocated' = allocated \cup Data(s, n)
  /\ Report(written, stored)
  /\ UNCHANGED <<shrank, grew, heapStatus>>

Malloc == \E n \in Sizes :
             \/ \E s \in Room(n, Used) : NewBlock(s, n, {}, {})
             \/ NullHeader

\* memprof_calloc: memprof_memset clears the block and tells of it.
Calloc == \E n \in Sizes :
             \/ \E s \in Room(n, Used) : NewBlock(s, n, Data(s, n), Data(s, n))
             \/ NullHeader

\* Mutant: the copy made by the library is returned.
StrdupOfLibrary ==
  \E n \in Sizes \ {0} : \E copy \in Room(n - 1, Used) :
     /\ extent' = With(extent, copy, n)
     /\ header' = With(header, copy, NoHeader)
     /\ held' = held \cup {copy}
     /\ UNCHANGED <<allocated, unreported, shrank, grew, heapStatus>>

\* memprof_strdup of a string of n bytes, its NUL among them: the library's own
\* copy, which has no header, is copied again into a block of memprof_malloc, and
\* freed.  It returns null when there is no memory for the first copy.
Strdup ==
  \E n \in Sizes \ {0} :
     \/ UNCHANGED heapVars
     \/ \E copy \in Room(n - 1, Used) :
           \/ \E s \in Room(n, Used \cup Block(copy, n - 1)) :
                 NewBlock(s, n, Data(s, n), Data(s, n))
           \/ NullHeader

\* memprof_free, of a block the program has; one without header ends the program.
\* The profiler is told of as many bytes as the header says.
Free == \E s \in held :
           IF header[s] = NoHeader
           THEN heapStatus' = "not_ours" /\ UNCHANGED <<extent, header, held, allocated, unreported, shrank, grew>>
           ELSE /\ extent' = Without(extent, s)
                /\ header' = Without(header, s)
                /\ held' = held \ {s}
                /\ allocated' = allocated \ Data(s, header[s])
                /\ unreported' = unreported \ Data(s, extent[s])
                /\ UNCHANGED <<shrank, grew, heapStatus>>

-------------------------------------------------------------------------------
\* memprof_realloc when the block stays where it is: only the header changes,
\* and the profiler hears nothing.
ResizeInPlace(s, n) ==
  /\ Data(s, n) \cap (Used \ Span(s)) = {} /\ Data(s, n) \subseteq Cells
  /\ extent' = [extent EXCEPT ![s] = n]
  /\ header' = [header EXCEPT ![s] = n]
  /\ shrank' = (shrank \/ n < extent[s])
  /\ grew' = (grew \/ n > extent[s])
  /\ unreported' = unreported \ (Data(s, extent[s]) \ Data(s, n))
  /\ UNCHANGED <<held, allocated, heapStatus>>

\* Mutant: the old block is not given back.
MovedFromKept(s) == {}

\* Its old place is no longer allocated.
MovedFrom(s) == Data(s, header[s])

\* When it has moved: the program ends unless it has grown; the new place is told
\* allocated, the bytes that came along stored, the ones after them too, and the
\* old place deallocated.
Move(s, t, n) ==
  IF n <= header[s]
  THEN heapStatus' = "moved" /\ UNCHANGED <<extent, header, held, allocated, unreported, shrank, grew>>
  ELSE LET old == header[s]
       IN  /\ extent' = With(Without(extent, s), t, n)
           /\ header' = With(Without(header, s), t, n)
           /\ held' = (held \ {s}) \cup {t}
           /\ allocated' = (allocated \cup Data(t, n)) \ MovedFrom(s)
           /\ unreported' = ((unreported \ Data(s, old)) \cup Data(t, old)) \ Data(t, n)
           /\ UNCHANGED <<shrank, grew, heapStatus>>

Realloc ==
  \E s \in held, n \in Sizes :
     IF header[s] = NoHeader
     THEN heapStatus' = "not_ours" /\ UNCHANGED <<extent, header, held, allocated, unreported, shrank, grew>>
     ELSE \/ ResizeInPlace(s, n)
          \/ \E t \in Room(n, Used) : Move(s, t, n)
          \/ NullHeader

\* The program's own stores, which its instrumentation tells of.
ProgramStores == /\ \E s \in held : \E c \in Data(s, extent[s]) : Report({c}, {c})
                 /\ UNCHANGED <<extent, header, held, allocated, shrank, grew, heapStatus>>

HeapNext == /\ heapStatus = "running"
            /\ Malloc \/ Calloc \/ Strdup \/ Free \/ Realloc \/ ProgramStores

HeapSpec == HeapInit /\ [][HeapNext]_heapVars

-------------------------------------------------------------------------------
\* Whatever was resized, moved or copied before, a header says how large its
\* block is: memprof_free and memprof_realloc go by nothing else.
HeadersTrue == \A s \in held : s \in DOMAIN header /\ header[s] = extent[s]

\* The program holds every block of the allocator: the wrappers leave behind none
\* of those they make on the way (memprof_strdup makes two).
NothingLeft == DOMAIN extent = held

\* No block the program got from a wrapper is turned away by another (the message
\* "Attempt to a memprof_free a pointer not allocated by memprof_malloc").
NoneTurnedAway == heapStatus # "not_ours"

\* Headers, blocks and their owners never come apart, over any calls.
BlocksAccounted == HeadersTrue /\ NothingLeft /\ NoneTurnedAway

Live == UNION {Data(s, extent[s]) : s \in held}

\* The profiler's allocated memory is the program's, but for what realloc did in
\* place, of which it hears nothing: without a block that shrank it has none too
\* many, without one that grew none too few.
ToldIsLive == /\ ~shrank => allocated \subseteq Live
              /\ ~grew => Live \subseteq allocated

\* Every byte a wrapper wrote or moved was told to the profiler as a STORE.
WritesReported == unreported \cap Live = {}

\* What the profiler was told of the heap is what became of it.
ProfilerTold == ToldIsLive /\ WritesReported
===============================================================================
