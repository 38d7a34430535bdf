------------------------------- MODULE MemoryMap -------------------------------
(***************************************************************************)
(* MemoryValueMap of proj_pass/tools/utils/MemoryMap.hxx: bytes written    *)
(* but not yet in memory, by page, each valid (with its value), invalid    *)
(* (given back), or unknown.  Several maps are filled independently, one   *)
(* per version of the program's memory, merged in the order of the         *)
(* versions into a base map, and committed to main memory.  Whoever makes  *)
(* the versions is not in the repository; here the versions interleave in  *)
(* every way, and a version is not written any more once it is merged.     *)
(*                                                                         *)
(* A value is its bytes as they lie in memory; the bit masks of a page are *)
(* sets of offsets.                                                        *)
(***************************************************************************)
EXTENDS Integers, Sequences, FiniteSets

CONSTANTS NumVersions, NumPages, PageSize,
          Byte,             \* contents of a byte of memory
          AccessSizes,      \* sizeof(T) of the types accessed
          MaxOperations     \* model bound: writes and invalidations

ASSUME ShapeAssumption == /\ NumVersions \in Nat /\ NumPages \in Nat /\ PageSize \in Nat \ {0}
                          /\ Byte \subseteq Nat /\ 0 \in Byte
ASSUME AccessAssumption == AccessSizes \subseteq 1..PageSize /\ MaxOperations \in Nat

VARIABLES maps,         \* each version's map, from page addresses to pages
          base,         \* the map the versions are merged into
          memory,       \* main memory
          mapOutcome,   \* "running", or "abort"
          merged,       \* the last version merged
          operations,   \* history: writes and invalidations so far
          log,          \* history: what each version did to each byte, in order
          committed     \* history: base was committed since the last merge

mapVars == <<maps, base, memory, mapOutcome, merged, operations, log, committed>>

Versions  == 1..NumVersions
Addresses == 0..(NumPages * PageSize - 1)
Offsets   == 0..(PageSize - 1)
PageAddrs == {PageSize * n : n \in 0..(NumPages - 1)}
Freed     == -1

am_offset(addr) == addr % PageSize

am_page_addr(addr) == addr - am_offset(addr)

\* The addresses of an access, and whether check_range refuses it.
Bytes(addr, size)       == addr..(addr + size - 1)
CrossesPage(addr, size) == am_page_addr(addr + size - 1) # am_page_addr(addr)

is_aligned(addr, size) == addr % size = 0

\* A page: the values of its bytes and the two bit masks, as sets of offsets.  At
\* first all bytes are unknown.
NewPage == [values |-> [o \in Offsets |-> 0], valid |-> {}, invalid |-> {}]

\* The page that get_or_create_node returns.
PageOf(map, page) == IF page \in DOMAIN map THEN map[page] ELSE NewPage

IsValid(map, addr)   == am_offset(addr) \in PageOf(map, am_page_addr(addr)).valid
IsInvalid(map, addr) == am_offset(addr) \in PageOf(map, am_page_addr(addr)).invalid
ByteAt(map, addr)    == PageOf(map, am_page_addr(addr)).values[am_offset(addr)]

-------------------------------------------------------------------------------
\* A write at its aligned address aborts over bytes that are all invalid; any
\* other goes byte by byte, and aborts at an invalid one.
WriteAborts(map, addr, size) ==
  IF is_aligned(addr, size) THEN \A a \in Bytes(addr, size) : IsInvalid(map, a)
                            ELSE \E a \in Bytes(addr, size) : IsInvalid(map, a)

\* Mutant: the bytes written stay invalid if they were.
WriteKeepsInvalid(map, addr, bytes) ==
  LET written == Bytes(addr, Len(bytes))
  IN  [page \in DOMAIN map \cup {am_page_addr(a) : a \in written} |->
        LET p    == PageOf(map, page)
            here == {o \in Offsets : page + o \in written}
        IN  [values  |-> [o \in Offsets |->
                            IF o \in here THEN bytes[page + o - addr + 1] ELSE p.values[o]],
             valid   |-> p.valid \cup here,
             invalid |-> p.invalid]]

\* Mutant: only the page the value begins in is written.
WriteFirstPage(map, addr, bytes) ==
  LET written == Bytes(addr, Len(bytes))
  IN  [page \in DOMAIN map \cup {am_page_addr(addr)} |->
        LET p    == PageOf(map, page)
            here == {o \in Offsets : page = am_page_addr(addr) /\ page + o \in written}
        IN  [values  |-> [o \in Offsets |->
                            IF o \in here THEN bytes[page + o - addr + 1] ELSE p.values[o]],
             valid   |-> p.valid \cup here,
             invalid |-> p.invalid \ here]]

\* write_value, which makes the pages it needs and the bytes valid.
WriteValue(map, addr, bytes) ==
  LET written == Bytes(addr, Len(bytes))
  IN  [page \in DOMAIN map \cup {am_page_addr(a) : a \in written} |->
        LET p    == PageOf(map, page)
            here == {o \in Offsets : page + o \in written}
        IN  [values  |-> [o \in Offsets |->
                            IF o \in here THEN bytes[page + o - addr + 1] ELSE p.values[o]],
             valid   |-> p.valid \cup here,
             invalid |-> p.invalid \ here]]

\* set_invalid: a valid byte becomes unknown, another one invalid.
SetInvalid(map, addr, size) ==
  [page \in DOMAIN map \cup {am_page_addr(addr)} |->
    LET p    == PageOf(map, page)
        here == {o \in Offsets : page + o \in Bytes(addr, size)}
    IN  [values  |-> p.values,
         valid   |-> p.valid \ here,
         invalid |-> (p.invalid \ (here \cap p.valid)) \cup (here \ p.valid)]]

\* read_value: an aligned value at once, any other byte by byte; it aborts at a
\* byte that is not valid.
ReadAborts(map, addr, size) == \E a \in Bytes(addr, size) : ~IsValid(map, a)
ReadValue(map, addr, size)  == [n \in 1..size |-> ByteAt(map, addr + n - 1)]

\* Mutant: only the later version's valid bytes are merged.
MergePageValidOnly(this, node) ==
  [values  |-> [o \in Offsets |-> IF o \in node.valid THEN node.values[o] ELSE this.values[o]],
   valid   |-> this.valid \cup node.valid,
   invalid |-> this.invalid \ node.valid]

\* Mutant: what is valid already is kept.
MergePageKeepsOlder(this, node) ==
  [values  |-> [o \in Offsets |->
                  IF o \in node.valid \ this.valid THEN node.values[o] ELSE this.values[o]],
   valid   |-> this.valid \cup node.valid,
   invalid |-> (this.invalid \ node.valid) \cup (node.invalid \ this.valid)]

\* BytePage::merge: the later version decides, except that a byte it does not
\* know keeps its state, and one that both gave back becomes unknown.
MergePage(this, node) ==
  LET dead == node.invalid \ node.valid
  IN  [values  |-> [o \in Offsets |-> IF o \in node.valid THEN node.values[o] ELSE this.values[o]],
       valid   |-> (this.valid \cup node.valid) \ dead,
       invalid |-> ((this.invalid \ node.valid) \ dead) \cup (dead \ this.invalid)]

\* MemoryValueMap::merge.
Merge(this, version) ==
  [page \in DOMAIN this \cup DOMAIN version |->
    IF page \in DOMAIN version THEN MergePage(PageOf(this, page), version[page]) ELSE this[page]]

-------------------------------------------------------------------------------
Empty == <<>>

MapInit == /\ maps = [v \in Versions |-> Empty]
           /\ base = Empty
           /\ memory = [a \in Addresses |-> 0]
           /\ mapOutcome = "running"
           /\ merged = 0
           /\ operations = 0
           /\ log = [v \in Versions |-> [a \in Addresses |-> <<>>]]
           /\ committed = FALSE

\* A version not merged yet does something to the bytes of a range.
Operation(v, addr, size) ==
  /\ mapOutcome = "running" /\ v > merged
  /\ Bytes(addr, size) \subseteq Addresses
  /\ operations < MaxOperations
  /\ operations' = operations + 1
  /\ UNCHANGED <<base, memory, merged, committed>>

\* What is logged, byte by byte: the byte written, or Freed.
Logged(v, addr, done) ==
  [log EXCEPT ![v] = [a \in Addresses |->
     IF a \in Bytes(addr, Len(done)) THEN Append(log[v][a], done[a - addr + 1]) ELSE log[v][a]]]

Abort == mapOutcome' = "abort" /\ UNCHANGED <<maps, log>>

\* write_value<T>.
Write(v, addr, bytes) ==
  /\ Operation(v, addr, Len(bytes))
  /\ IF WriteAborts(maps[v], addr, Len(bytes))
     THEN Abort
     ELSE /\ maps' = [maps EXCEPT ![v] = WriteValue(@, addr, bytes)]
          /\ log' = Logged(v, addr, bytes)
          /\ UNCHANGED mapOutcome

\* set_invalid<S>, whose page refuses a range that leaves it.
Invalidate(v, addr, size) ==
  /\ Operation(v, addr, size)
  /\ IF CrossesPage(addr, size)
     THEN Abort
     ELSE /\ maps' = [maps EXCEPT ![v] = SetInvalid(@, addr, size)]
          /\ log' = Logged(v, addr, [n \in 1..size |-> Freed])
          /\ UNCHANGED mapOutcome

\* The next version is merged, and its map cleared.
MergeNext == /\ mapOutcome = "running" /\ merged < NumVersions
             /\ merged' = merged + 1
             /\ base' = Merge(base, maps[merged + 1])
             /\ maps' = [maps EXCEPT ![merged + 1] = Empty]
             /\ committed' = FALSE
             /\ UNCHANGED <<memory, mapOutcome, operations, log>>

\* commit_to_main_memory.
Commit == /\ mapOutcome = "running"
          /\ memory' = [a \in Addresses |-> IF IsValid(base, a) THEN ByteAt(base, a) ELSE memory[a]]
          /\ committed' = TRUE
          /\ UNCHANGED <<maps, base, mapOutcome, merged, operations, log>>

MapNext == \/ \E v \in Versions, addr \in Addresses, size \in AccessSizes :
                \/ \E bytes \in [1..size -> Byte] : Write(v, addr, bytes)
                \/ Invalidate(v, addr, size)
           \/ MergeNext
           \/ Commit

MapSpec == MapInit /\ [][MapNext]_mapVars

-------------------------------------------------------------------------------
\* No byte of a page is both valid and invalid: set_offset_valid, _invalid and
\* _unknown each keep two bit masks in step, through writes and merges.
Exclusive(map) == \A page \in DOMAIN map : map[page].valid \cap map[page].invalid = {}
NeverBoth == Exclusive(base) /\ \A v \in Versions : Exclusive(maps[v])

Written(v, a) == log[v][a] # <<>> /\ log[v][a][Len(log[v][a])] # Freed

\* A version reads back what it wrote: when the last thing it did to each byte
\* of a range, aligned or across two pages, was to write it, reading the range
\* does not abort and gives those bytes.
ReadsLastWrite ==
  \A v \in (merged + 1)..NumVersions, addr \in Addresses, size \in AccessSizes :
    (\A a \in Bytes(addr, size) : a \in Addresses /\ Written(v, a)) =>
      /\ ~ReadAborts(maps[v], addr, size)
      /\ \A n \in 1..size :
           LET did == log[v][addr + n - 1] IN ReadValue(maps[v], addr, size)[n] = did[Len(did)]

\* The merged versions that did something to the byte.
Users(a) == {v \in 1..merged : log[v][a] # <<>>}
LastUser(a) == CHOOSE v \in Users(a) : \A w \in Users(a) : w <= v

\* Main memory after a commit is as if the merged versions had written it one
\* after the other, at every byte that none of them gave back, however their
\* writes were interleaved.
CommittedInOrder ==
  committed => \A a \in Addresses :
    (\A v \in Users(a) : \A i \in 1..Len(log[v][a]) : log[v][a][i] # Freed) =>
      memory[a] = IF Users(a) = {} THEN 0
                  ELSE LET did == log[LastUser(a)][a] IN did[Len(did)]

\* A byte that the last version to use it gave back, without having written it,
\* is not committed, whatever the versions before did with it.
FreedNotCommitted ==
  \A a \in Addresses :
    Users(a) # {} /\ (\A i \in 1..Len(log[LastUser(a)][a]) : log[LastUser(a)][a][i] = Freed)
      => ~IsValid(base, a)
===============================================================================
