---------------------------- MODULE MemoryMapProofs ----------------------------
(***************************************************************************)
(* Proofs about MemoryMap, for any numbers of versions, pages and bytes.   *)
(***************************************************************************)
EXTENDS MemoryMap, TLAPS

-------------------------------------------------------------------------------
\* Addresses and offsets.

LEMMA OffsetInPage ==
  ASSUME NEW a \in Nat
  PROVE  /\ am_offset(a) \in Offsets /\ am_page_addr(a) + am_offset(a) = a
         /\ am_offset(a) \in Int /\ am_page_addr(a) \in Int
  <1>1. a % PageSize \in 0..(PageSize - 1)
    BY ShapeAssumption
  <1> QED BY <1>1, ShapeAssumption DEF am_offset, am_page_addr, Offsets

-------------------------------------------------------------------------------
\* NeverBoth: each operation on a map keeps its pages' two sets of bytes apart.

LEMMA PageOfExclusive ==
  ASSUME NEW map, Exclusive(map), NEW page
  PROVE  PageOf(map, page).valid \cap PageOf(map, page).invalid = {}
  BY DEF Exclusive, PageOf, NewPage

LEMMA WriteExclusive ==
  ASSUME NEW map, Exclusive(map), NEW addr, NEW bytes
  PROVE  Exclusive(WriteValue(map, addr, bytes))
  <1> DEFINE new == WriteValue(map, addr, bytes)
  <1> SUFFICES ASSUME NEW page \in DOMAIN new
               PROVE  new[page].valid \cap new[page].invalid = {}
    BY DEF Exclusive
  <1> DEFINE here == {o \in Offsets : page + o \in Bytes(addr, Len(bytes))}
  <1>1. /\ new[page].valid = PageOf(map, page).valid \cup here
        /\ new[page].invalid = PageOf(map, page).invalid \ here
    BY DEF WriteValue
  <1>2. PageOf(map, page).valid \cap PageOf(map, page).invalid = {}
    BY PageOfExclusive
  <1> HIDE DEF new, here
  <1> QED BY <1>1, <1>2

LEMMA SetInvalidExclusive ==
  ASSUME NEW map, Exclusive(map), NEW addr, NEW size
  PROVE  Exclusive(SetInvalid(map, addr, size))
  <1> DEFINE new == SetInvalid(map, addr, size)
  <1> SUFFICES ASSUME NEW page \in DOMAIN new
               PROVE  new[page].valid \cap new[page].invalid = {}
    BY DEF Exclusive
  <1> DEFINE here == {o \in Offsets : page + o \in Bytes(addr, size)}
             p    == PageOf(map, page)
  <1>1. /\ new[page].valid = p.valid \ here
        /\ new[page].invalid = (p.invalid \ (here \cap p.valid)) \cup (here \ p.valid)
    BY DEF SetInvalid
  <1>2. p.valid \cap p.invalid = {}
    BY PageOfExclusive
  <1> HIDE DEF new, here, p
  <1> QED BY <1>1, <1>2

LEMMA MergeExclusive ==
  ASSUME NEW this, Exclusive(this), NEW version, Exclusive(version)
  PROVE  Exclusive(Merge(this, version))
  <1> DEFINE new == Merge(this, version)
  <1> SUFFICES ASSUME NEW page \in DOMAIN new
               PROVE  new[page].valid \cap new[page].invalid = {}
    BY DEF Exclusive
  <1>1. CASE page \in DOMAIN version
    <2> DEFINE p    == PageOf(this, page)
               node == version[page]
               dead == node.invalid \ node.valid
    <2>1. new[page] = MergePage(p, node)
      BY <1>1 DEF Merge
    <2>2. /\ new[page].valid = (p.valid \cup node.valid) \ dead
          /\ new[page].invalid = ((p.invalid \ node.valid) \ dead) \cup (dead \ p.invalid)
      BY <2>1 DEF MergePage
    <2>3. p.valid \cap p.invalid = {}
      BY PageOfExclusive
    <2> HIDE DEF new, p, node
    <2> QED BY <2>2, <2>3
  <1>2. CASE page \notin DOMAIN version
    <2>1. page \in DOMAIN this /\ new[page] = this[page]
      BY <1>2 DEF Merge
    <2> HIDE DEF new
    <2> QED BY <2>1 DEF Exclusive
  <1> QED BY <1>1, <1>2

\* What is inductive: there is a map for every version, the merged ones too.
ExclusiveInv == /\ DOMAIN maps = Versions /\ merged \in 0..NumVersions
                /\ NeverBoth

LEMMA InitExclusive == MapInit => ExclusiveInv
  BY ShapeAssumption DEF MapInit, ExclusiveInv, NeverBoth, Exclusive, Empty

LEMMA NextExclusive == ExclusiveInv /\ [MapNext]_mapVars => ExclusiveInv'
  <1> SUFFICES ASSUME ExclusiveInv, [MapNext]_mapVars PROVE ExclusiveInv'
    OBVIOUS
  <1>1. ASSUME NEW v \in Versions, NEW addr \in Addresses, NEW size \in AccessSizes,
               NEW bytes \in [1..size -> Byte], Write(v, addr, bytes)
        PROVE  ExclusiveInv'
    <2>1. Exclusive(WriteValue(maps[v], addr, bytes))
      BY WriteExclusive DEF ExclusiveInv, NeverBoth
    <2>2. /\ base' = base /\ merged' = merged
          /\ maps' = maps \/ maps' = [maps EXCEPT ![v] = WriteValue(@, addr, bytes)]
      BY <1>1 DEF Write, Operation, Abort
    <2> QED BY <2>1, <2>2 DEF ExclusiveInv, NeverBoth, Exclusive
  <1>2. ASSUME NEW v \in Versions, NEW addr \in Addresses, NEW size \in AccessSizes,
               Invalidate(v, addr, size)
        PROVE  ExclusiveInv'
    <2>1. Exclusive(SetInvalid(maps[v], addr, size))
      BY SetInvalidExclusive DEF ExclusiveInv, NeverBoth
    <2>2. /\ base' = base /\ merged' = merged
          /\ maps' = maps \/ maps' = [maps EXCEPT ![v] = SetInvalid(@, addr, size)]
      BY <1>2 DEF Invalidate, Operation, Abort
    <2> QED BY <2>1, <2>2 DEF ExclusiveInv, NeverBoth, Exclusive
  <1>3. ASSUME MergeNext
        PROVE  ExclusiveInv'
    <2>1. merged + 1 \in Versions /\ merged' = merged + 1
      BY <1>3, ShapeAssumption DEF MergeNext, ExclusiveInv, Versions
    <2>2. Exclusive(Merge(base, maps[merged + 1]))
      BY <2>1, MergeExclusive DEF ExclusiveInv, NeverBoth
    <2>3. base' = Merge(base, maps[merged + 1]) /\ maps' = [maps EXCEPT ![merged + 1] = Empty]
      BY <1>3 DEF MergeNext
    <2>4. Exclusive(Empty)
      BY DEF Exclusive, Empty
    <2>5. DOMAIN maps' = Versions /\ merged' \in 0..NumVersions
      BY <2>1, <2>3, ShapeAssumption DEF ExclusiveInv, Versions
    <2>6. ASSUME NEW v \in Versions PROVE Exclusive(maps'[v])
      BY <2>1, <2>3, <2>4 DEF ExclusiveInv, NeverBoth
    <2>7. Exclusive(base')
      BY <2>2, <2>3
    <2> QED BY <2>5, <2>6, <2>7 DEF ExclusiveInv, NeverBoth, Exclusive
  <1>4. ASSUME Commit \/ UNCHANGED mapVars
        PROVE  ExclusiveInv'
    BY <1>4 DEF Commit, mapVars, ExclusiveInv, NeverBoth, Exclusive
  <1> QED BY <1>1, <1>2, <1>3, <1>4 DEF MapNext

\* NeverBoth: no byte of any page is valid and invalid at once, whatever the
\* versions write and invalidate and in whatever order they are merged.
THEOREM NeverBothCorrect == MapSpec => []NeverBoth
  <1>1. ExclusiveInv => NeverBoth
    BY DEF ExclusiveInv
  <1> QED BY InitExclusive, NextExclusive, <1>1, PTL DEF MapSpec

-------------------------------------------------------------------------------
\* ReadsLastWrite: what an operation does to a byte inside and outside its range.

LEMMA WriteByte ==
  ASSUME NEW map, NEW addr \in Nat, NEW bytes, Len(bytes) \in Nat, NEW a \in Nat
  PROVE  LET new == WriteValue(map, addr, bytes)
         IN  IF a \in Bytes(addr, Len(bytes))
             THEN IsValid(new, a) /\ ByteAt(new, a) = bytes[a - addr + 1]
             ELSE /\ IsValid(new, a) <=> IsValid(map, a)
                  /\ IsInvalid(new, a) <=> IsInvalid(map, a)
                  /\ ByteAt(new, a) = ByteAt(map, a)
  <1> DEFINE new  == WriteValue(map, addr, bytes)
             page == am_page_addr(a)
             o    == am_offset(a)
             here == {x \in Offsets : page + x \in Bytes(addr, Len(bytes))}
  <1>1. o \in Offsets /\ page + o = a /\ o \in Int /\ page \in Int
    BY OffsetInPage
  <1>2. page \in DOMAIN new =>
          /\ new[page].values = [x \in Offsets |-> IF x \in here THEN bytes[page + x - addr + 1]
                                                                 ELSE PageOf(map, page).values[x]]
          /\ new[page].valid = PageOf(map, page).valid \cup here
          /\ new[page].invalid = PageOf(map, page).invalid \ here
    BY DEF WriteValue
  <1>3. page \in DOMAIN new <=> \/ page \in DOMAIN map
                                \/ \E x \in Bytes(addr, Len(bytes)) : am_page_addr(x) = page
    BY DEF WriteValue
  <1>4. CASE a \in Bytes(addr, Len(bytes))
    <2>1. page \in DOMAIN new
      BY <1>3, <1>4
    <2>2. o \in here
      BY <1>1, <1>4
    <2>3. new[page].values[o] = bytes[page + o - addr + 1] /\ o \in new[page].valid
      BY <1>1, <1>2, <2>1, <2>2
    <2>4. IsValid(new, a)
      BY <2>1, <2>3 DEF IsValid, PageOf
    <2>5. ByteAt(new, a) = bytes[page + o - addr + 1]
      BY <2>1, <2>3 DEF ByteAt, PageOf
    <2>6. page + o - addr + 1 = a - addr + 1
      <3> HIDE DEF page, o
      <3> QED BY <1>1
    <2>7. ByteAt(new, a) = bytes[a - addr + 1]
      BY <2>5, <2>6
    <2> QED BY <1>4, <2>4, <2>7, Zenon
  <1>5. CASE a \notin Bytes(addr, Len(bytes))
    <2>1. o \notin here
      BY <1>1, <1>5
    <2>2. CASE page \in DOMAIN new
      <3>1. /\ new[page].values[o] = PageOf(map, page).values[o]
            /\ o \in PageOf(map, page).valid <=> o \in new[page].valid
            /\ o \in PageOf(map, page).invalid <=> o \in new[page].invalid
        BY <1>1, <1>2, <2>1, <2>2
      <3>2. PageOf(new, page) = new[page]
        BY <2>2 DEF PageOf
      <3> HIDE DEF new, here
      <3> QED BY <1>5, <3>1, <3>2, Zenon DEF IsValid, IsInvalid, ByteAt, new
    <2>3. CASE page \notin DOMAIN new
      <3>1. PageOf(new, page) = PageOf(map, page)
        BY <1>3, <2>3 DEF PageOf
      <3> QED BY <1>5, <3>1, Zenon DEF IsValid, IsInvalid, ByteAt
    <2> QED BY <2>2, <2>3
  <1> QED BY <1>4, <1>5

LEMMA InvalidateOther ==
  ASSUME NEW map, NEW addr \in Nat, NEW size \in Nat, NEW a \in Nat, a \notin Bytes(addr, size)
  PROVE  /\ IsValid(SetInvalid(map, addr, size), a) <=> IsValid(map, a)
         /\ IsInvalid(SetInvalid(map, addr, size), a) <=> IsInvalid(map, a)
         /\ ByteAt(SetInvalid(map, addr, size), a) = ByteAt(map, a)
  <1> DEFINE new  == SetInvalid(map, addr, size)
             page == am_page_addr(a)
             o    == am_offset(a)
             here == {x \in Offsets : page + x \in Bytes(addr, size)}
  <1>1. o \notin here
    BY OffsetInPage
  <1>2. page \in DOMAIN new => /\ new[page].values = PageOf(map, page).values
                               /\ new[page].valid = PageOf(map, page).valid \ here
                               /\ new[page].invalid =
                                    (PageOf(map, page).invalid \ (here \cap PageOf(map, page).valid))
                                      \cup (here \ PageOf(map, page).valid)
    BY DEF SetInvalid
  <1>3. page \notin DOMAIN new => page \notin DOMAIN map
    BY DEF SetInvalid
  <1>4. CASE page \in DOMAIN new
    <2>1. PageOf(new, page) = new[page]
      BY <1>4 DEF PageOf
    <2> HIDE DEF new, here
    <2>2. ByteAt(new, a) = ByteAt(map, a)
      BY <1>2, <1>4, <2>1 DEF ByteAt
    <2>3. /\ o \in PageOf(map, page).valid <=> o \in PageOf(new, page).valid
          /\ o \in PageOf(map, page).invalid <=> o \in PageOf(new, page).invalid
      BY <1>1, <1>2, <1>4, <2>1
    <2>4. (IsValid(new, a) <=> IsValid(map, a)) /\ (IsInvalid(new, a) <=> IsInvalid(map, a))
      BY <2>3 DEF IsValid, IsInvalid
    <2> QED BY <2>2, <2>4 DEF new
  <1>5. CASE page \notin DOMAIN new
    <2>1. PageOf(new, page) = PageOf(map, page)
      BY <1>3, <1>5 DEF PageOf
    <2> QED BY <2>1 DEF IsValid, IsInvalid, ByteAt
  <1> QED BY <1>4, <1>5

\* What is inductive: each byte a version wrote last is valid, with the value.
LastWritten(v, a) == log[v][a][Len(log[v][a])]
HoldsLastWrite(v, a) ==
  Written(v, a) => IsValid(maps[v], a) /\ ByteAt(maps[v], a) = LastWritten(v, a)
ReadInv == /\ DOMAIN maps = Versions /\ merged \in 0..NumVersions
           /\ log \in [Versions -> [Addresses -> Seq(Byte \cup {Freed})]]
           /\ \A v \in (merged + 1)..NumVersions, a \in Addresses : HoldsLastWrite(v, a)

LEMMA InitRead == MapInit => ReadInv
  <1> SUFFICES ASSUME MapInit PROVE ReadInv
    OBVIOUS
  <1>1. DOMAIN maps = Versions /\ merged \in 0..NumVersions
    BY ShapeAssumption DEF MapInit
  <1>2. log \in [Versions -> [Addresses -> Seq(Byte \cup {Freed})]]
    BY DEF MapInit
  <1>3. ASSUME NEW v \in (merged + 1)..NumVersions, NEW a \in Addresses PROVE HoldsLastWrite(v, a)
    BY ShapeAssumption DEF MapInit, HoldsLastWrite, Written, Versions
  <1> QED BY <1>1, <1>2, <1>3 DEF ReadInv

LEMMA NextRead == ReadInv /\ [MapNext]_mapVars => ReadInv'
  <1> SUFFICES ASSUME ReadInv, [MapNext]_mapVars PROVE ReadInv'
    OBVIOUS
  <1> USE DEF ReadInv
  <1>1. ASSUME NEW v \in Versions, NEW addr \in Addresses, NEW size \in AccessSizes,
               NEW bytes \in [1..size -> Byte], Write(v, addr, bytes)
        PROVE  ReadInv'
    <2>1. CASE UNCHANGED <<maps, log, merged>>
      BY <2>1 DEF HoldsLastWrite, Written, LastWritten
    <2>2. CASE ~UNCHANGED <<maps, log, merged>>
      <3>1. size \in Nat /\ Len(bytes) = size /\ bytes \in Seq(Byte)
        BY AccessAssumption, ShapeAssumption
      <3>2. /\ maps' = [maps EXCEPT ![v] = WriteValue(@, addr, bytes)]
            /\ log' = Logged(v, addr, bytes) /\ merged' = merged
        BY <1>1, <2>2 DEF Write, Operation, Abort
      <3>3. \A a \in Bytes(addr, size) : bytes[a - addr + 1] \in Byte
        BY <3>1, ShapeAssumption DEF Bytes, Addresses
      <3>4. log' \in [Versions -> [Addresses -> Seq(Byte \cup {Freed})]]
        BY <3>1, <3>2, <3>3 DEF Logged
      <3>5. ASSUME NEW w \in (merged' + 1)..NumVersions, NEW a \in Addresses
            PROVE  HoldsLastWrite(w, a)'
        <4>1. w \in Versions /\ w \in (merged + 1)..NumVersions /\ addr \in Nat /\ a \in Nat
          BY <3>2, ShapeAssumption DEF Versions, Addresses
        <4>2. log[w][a] \in Seq(Byte \cup {Freed})
          BY <4>1
        <4>3. CASE w = v /\ a \in Bytes(addr, size)
          <5>1. log'[w][a] = Append(log[w][a], bytes[a - addr + 1])
            BY <3>1, <3>2, <4>1, <4>3 DEF Logged
          <5>2. LastWritten(w, a)' = bytes[a - addr + 1]
            BY <3>3, <4>2, <4>3, <5>1 DEF LastWritten
          <5>3. maps'[w] = WriteValue(maps[w], addr, bytes)
            BY <3>2, <4>1, <4>3
          <5>4. IsValid(maps'[w], a) /\ ByteAt(maps'[w], a) = bytes[a - addr + 1]
            BY <3>1, <4>1, <4>3, <5>3, WriteByte
          <5> QED BY <5>2, <5>4 DEF HoldsLastWrite
        <4>4. CASE ~(w = v /\ a \in Bytes(addr, size))
          <5>1. log'[w][a] = log[w][a]
            BY <3>1, <3>2, <4>1, <4>4 DEF Logged
          <5>2. maps'[w] = IF w = v THEN WriteValue(maps[w], addr, bytes) ELSE maps[w]
            BY <3>2, <4>1
          <5>3. /\ IsValid(maps[w], a) => IsValid(maps'[w], a)
                /\ ByteAt(maps'[w], a) = ByteAt(maps[w], a)
            BY <3>1, <4>1, <4>4, <5>2, WriteByte
          <5>4. HoldsLastWrite(w, a)
            BY <4>1
          <5> QED BY <5>1, <5>3, <5>4 DEF HoldsLastWrite, Written, LastWritten
        <4> QED BY <4>3, <4>4
      <3> QED BY <3>2, <3>4, <3>5
    <2> QED BY <2>1, <2>2
  <1>2. ASSUME NEW v \in Versions, NEW addr \in Addresses, NEW size \in AccessSizes,
               Invalidate(v, addr, size)
        PROVE  ReadInv'
    <2> DEFINE done == [n \in 1..size |-> Freed]
    <2>1. CASE UNCHANGED <<maps, log, merged>>
      BY <2>1 DEF HoldsLastWrite, Written, LastWritten
    <2>2. CASE ~UNCHANGED <<maps, log, merged>>
      <3>1. size \in Nat /\ Len(done) = size /\ done \in Seq({Freed})
        BY AccessAssumption, ShapeAssumption
      <3>2. /\ maps' = [maps EXCEPT ![v] = SetInvalid(@, addr, size)]
            /\ log' = Logged(v, addr, done) /\ merged' = merged
        BY <1>2, <2>2 DEF Invalidate, Operation, Abort
      <3>3. \A a \in Bytes(addr, size) : done[a - addr + 1] = Freed
        BY <3>1, ShapeAssumption DEF Bytes, Addresses
      <3> HIDE DEF done
      <3>4. log' \in [Versions -> [Addresses -> Seq(Byte \cup {Freed})]]
        BY <3>1, <3>2, <3>3 DEF Logged
      <3>5. ASSUME NEW w \in (merged' + 1)..NumVersions, NEW a \in Addresses
            PROVE  HoldsLastWrite(w, a)'
        <4>1. w \in Versions /\ w \in (merged + 1)..NumVersions /\ addr \in Nat /\ a \in Nat
          BY <3>2, ShapeAssumption DEF Versions, Addresses
        <4>2. log[w][a] \in Seq(Byte \cup {Freed})
          BY <4>1
        <4>3. CASE w = v /\ a \in Bytes(addr, size)
          <5>1. log'[w][a] = Append(log[w][a], Freed)
            BY <3>1, <3>2, <3>3, <4>1, <4>3 DEF Logged
          <5>2. ~Written(w, a)'
            BY <4>2, <5>1 DEF Written
          <5> QED BY <5>2 DEF HoldsLastWrite
        <4>4. CASE ~(w = v /\ a \in Bytes(addr, size))
          <5>1. log'[w][a] = log[w][a]
            BY <3>1, <3>2, <4>1, <4>4 DEF Logged
          <5>2. maps'[w] = IF w = v THEN SetInvalid(maps[w], addr, size) ELSE maps[w]
            BY <3>2, <4>1
          <5>3. /\ IsValid(maps[w], a) => IsValid(maps'[w], a)
                /\ ByteAt(maps'[w], a) = ByteAt(maps[w], a)
            BY <3>1, <4>1, <4>4, <5>2, InvalidateOther
          <5>4. HoldsLastWrite(w, a)
            BY <4>1
          <5> QED BY <5>1, <5>3, <5>4 DEF HoldsLastWrite, Written, LastWritten
        <4> QED BY <4>3, <4>4
      <3> QED BY <3>2, <3>4, <3>5
    <2> QED BY <2>1, <2>2
  <1>3. ASSUME MergeNext
        PROVE  ReadInv'
    <2>1. merged + 1 \in Versions /\ merged' = merged + 1 /\ merged' \in 0..NumVersions
      BY <1>3, ShapeAssumption DEF MergeNext, Versions
    <2>2. log' = log /\ maps' = [maps EXCEPT ![merged + 1] = Empty]
      BY <1>3 DEF MergeNext
    <2>3. ASSUME NEW w \in (merged' + 1)..NumVersions, NEW a \in Addresses
          PROVE  HoldsLastWrite(w, a)'
      <3>1. w \in (merged + 1)..NumVersions /\ w \in Versions /\ w # merged + 1
        BY <2>1, ShapeAssumption DEF Versions
      <3>2. maps'[w] = maps[w]
        BY <2>2, <3>1
      <3>3. HoldsLastWrite(w, a)
        BY <3>1
      <3> QED BY <2>2, <3>2, <3>3 DEF HoldsLastWrite, Written, LastWritten
    <2> QED BY <2>1, <2>2, <2>3
  <1>4. ASSUME Commit \/ UNCHANGED mapVars
        PROVE  ReadInv'
    <2>1. UNCHANGED <<maps, log, merged>>
      BY <1>4 DEF Commit, mapVars
    <2> QED BY <2>1 DEF HoldsLastWrite, Written, LastWritten
  <1> QED BY <1>1, <1>2, <1>3, <1>4 DEF MapNext

\* ReadsLastWrite: a version not merged yet reads back what it last wrote,
\* for accesses of any size, at any address, in any interleaving.
THEOREM ReadsLastWriteCorrect == MapSpec => []ReadsLastWrite
  <1>1. ReadInv => ReadsLastWrite
    <2> SUFFICES ASSUME ReadInv, NEW v \in (merged + 1)..NumVersions, NEW addr \in Addresses,
                        NEW size \in AccessSizes,
                        \A a \in Bytes(addr, size) : a \in Addresses /\ Written(v, a)
                 PROVE  /\ ~ReadAborts(maps[v], addr, size)
                        /\ \A n \in 1..size :
                             LET did == log[v][addr + n - 1]
                             IN  ReadValue(maps[v], addr, size)[n] = did[Len(did)]
      BY DEF ReadsLastWrite
    <2>1. \A a \in Bytes(addr, size) :
            IsValid(maps[v], a) /\ ByteAt(maps[v], a) = LastWritten(v, a)
      BY DEF ReadInv, HoldsLastWrite
    <2>2. \A n \in 1..size : addr + n - 1 \in Bytes(addr, size)
      BY ShapeAssumption, AccessAssumption DEF Bytes, Addresses
    <2>3. ~ReadAborts(maps[v], addr, size)
      BY <2>1 DEF ReadAborts
    <2> QED BY <2>1, <2>2, <2>3 DEF ReadValue, LastWritten
  <1> QED BY InitRead, NextRead, <1>1, PTL DEF MapSpec

-------------------------------------------------------------------------------
\* CommittedInOrder and FreedNotCommitted: what giving back and merging do to a byte.

\* An address in a page's range that begins and ends in one page lies in it.
LEMMA PageMonotone ==
  ASSUME NEW a \in Nat, NEW b \in Nat, a <= b
  PROVE  am_page_addr(a) <= am_page_addr(b)
  <1>1. /\ a = PageSize * (a \div PageSize) + (a % PageSize)
        /\ b = PageSize * (b \div PageSize) + (b % PageSize)
        /\ a \div PageSize \in Nat /\ b \div PageSize \in Nat
        /\ a % PageSize \in 0..(PageSize - 1) /\ b % PageSize \in 0..(PageSize - 1)
    BY ShapeAssumption
  <1> DEFINE qa == a \div PageSize
             qb == b \div PageSize
  <1>2. am_page_addr(a) = PageSize * qa /\ am_page_addr(b) = PageSize * qb
    <2>1. PageSize * qa \in Int /\ PageSize * qb \in Int
      BY <1>1, ShapeAssumption
    <2> QED BY <1>1, <2>1 DEF am_page_addr, am_offset
  <1>3. a % PageSize \in Int /\ b % PageSize \in Int /\ qa \in Nat /\ qb \in Nat
    BY <1>1, ShapeAssumption
  <1>4. qa <= qb
    <2> SUFFICES ASSUME qa >= qb + 1 PROVE FALSE
      BY <1>3
    <2>1. PageSize * qa >= PageSize * qb + PageSize
      BY <1>3, ShapeAssumption
    <2> DEFINE ra == a % PageSize
               rb == b % PageSize
               pa == PageSize * qa
               pb == PageSize * qb
    <2>2. a = pa + ra /\ b = pb + rb /\ ra \in 0..(PageSize - 1) /\ rb \in 0..(PageSize - 1)
          /\ pa >= pb + PageSize /\ pa \in Int /\ pb \in Int
      BY <1>1, <1>3, <2>1, ShapeAssumption
    <2> HIDE DEF ra, rb, pa, pb
    <2> QED BY <2>2, ShapeAssumption
  <1> HIDE DEF qa, qb
  <1> QED BY <1>2, <1>3, <1>4, ShapeAssumption

\* set_offset_unknown and set_offset_invalid: a byte given back is not valid, and
\* is invalid unless it was valid.
LEMMA InvalidateByte ==
  ASSUME NEW map, NEW addr \in Nat, NEW size \in Nat \ {0}, ~CrossesPage(addr, size),
         NEW a \in Bytes(addr, size)
  PROVE  LET new == SetInvalid(map, addr, size)
         IN  /\ ~IsValid(new, a)
             /\ ~IsValid(map, a) => IsInvalid(new, a)
  <1> DEFINE new  == SetInvalid(map, addr, size)
             page == am_page_addr(a)
             o    == am_offset(a)
             here == {x \in Offsets : page + x \in Bytes(addr, size)}
             p    == PageOf(map, page)
  <1>1. a \in Nat /\ addr + size - 1 \in Nat /\ addr <= a /\ a <= addr + size - 1
    BY DEF Bytes
  <1>2. o \in Offsets /\ page + o = a
    BY <1>1, OffsetInPage
  <1>3. page = am_page_addr(addr)
    <2>1. am_page_addr(addr) <= page /\ page <= am_page_addr(addr + size - 1)
      BY <1>1, PageMonotone
    <2>2. am_page_addr(addr + size - 1) = am_page_addr(addr)
      BY DEF CrossesPage
    <2>3. page \in Int /\ am_page_addr(addr) \in Int
      BY <1>1, OffsetInPage
    <2> HIDE DEF page
    <2> QED BY <2>1, <2>2, <2>3
  <1>4. page \in DOMAIN new
    BY <1>3 DEF SetInvalid
  <1>5. /\ new[page].valid = p.valid \ here
        /\ new[page].invalid = (p.invalid \ (here \cap p.valid)) \cup (here \ p.valid)
    BY <1>4 DEF SetInvalid
  <1>6. o \in here
    BY <1>2
  <1>7. PageOf(new, page) = new[page]
    BY <1>4 DEF PageOf
  <1> HIDE DEF new, here, p
  <1>8. o \notin PageOf(new, page).valid /\ (o \notin p.valid => o \in PageOf(new, page).invalid)
    BY <1>5, <1>6, <1>7
  <1> QED BY <1>8 DEF IsValid, IsInvalid, new, p

\* BytePage::merge, byte by byte: the later map decides, unless the byte is
\* unknown to it.
LEMMA MergeByte ==
  ASSUME NEW this, NEW version, NEW a \in Nat
  PROVE  LET new == Merge(this, version)
         IN  /\ IsValid(version, a) => IsValid(new, a) /\ ByteAt(new, a) = ByteAt(version, a)
             /\ ~IsValid(version, a) /\ IsInvalid(version, a) => ~IsValid(new, a)
             /\ ~IsValid(version, a) /\ ~IsInvalid(version, a) =>
                  (IsValid(new, a) <=> IsValid(this, a)) /\ ByteAt(new, a) = ByteAt(this, a)
  <1> DEFINE new  == Merge(this, version)
             page == am_page_addr(a)
             o    == am_offset(a)
             p    == PageOf(this, page)
             node == PageOf(version, page)
  <1>1. o \in Offsets
    BY OffsetInPage
  <1> SUFFICES /\ o \in node.valid =>
                    o \in PageOf(new, page).valid /\ PageOf(new, page).values[o] = node.values[o]
               /\ o \notin node.valid /\ o \in node.invalid => o \notin PageOf(new, page).valid
               /\ o \notin node.valid /\ o \notin node.invalid =>
                    /\ o \in PageOf(new, page).valid <=> o \in p.valid
                    /\ PageOf(new, page).values[o] = p.values[o]
    BY DEF IsValid, IsInvalid, ByteAt
  <1>2. CASE page \in DOMAIN version
    <2>1. PageOf(new, page) = MergePage(p, node)
      BY <1>2 DEF Merge, PageOf
    <2>2. /\ PageOf(new, page).valid = (p.valid \cup node.valid) \ (node.invalid \ node.valid)
          /\ PageOf(new, page).values =
               [x \in Offsets |-> IF x \in node.valid THEN node.values[x] ELSE p.values[x]]
      BY <2>1 DEF MergePage
    <2> HIDE DEF new, p, node
    <2> QED BY <1>1, <2>2
  <1>3. CASE page \notin DOMAIN version
    <2>1. PageOf(new, page) = p
      BY <1>3 DEF Merge, PageOf
    <2>2. node.valid = {} /\ node.invalid = {}
      BY <1>3 DEF PageOf, NewPage
    <2> HIDE DEF new, p, node
    <2> QED BY <2>1, <2>2
  <1> QED BY <1>2, <1>3

-------------------------------------------------------------------------------
\* What versions that are still to be merged know of a byte: nothing when they
\* never used it, and that it is invalid when they only gave it back.
AllFreed(v, a)  == log[v][a] # <<>> /\ \A i \in 1..Len(log[v][a]) : log[v][a][i] = Freed
NoneFreed(v, a) == \A i \in 1..Len(log[v][a]) : log[v][a][i] # Freed

KnowsUse(v, a) ==
  /\ log[v][a] = <<>> => ~IsValid(maps[v], a) /\ ~IsInvalid(maps[v], a)
  /\ AllFreed(v, a) => ~IsValid(maps[v], a) /\ IsInvalid(maps[v], a)

\* What the base knows of it, from the versions merged so far.
IsLastUser(v, a) == v \in Users(a) /\ \A w \in Users(a) : w <= v

BaseKnows(a) ==
  /\ Users(a) = {} => ~IsValid(base, a)
  /\ Users(a) # {} => IsLastUser(LastUser(a), a)
  /\ Users(a) # {} /\ (\A v \in Users(a) : NoneFreed(v, a)) =>
       IsValid(base, a) /\ ByteAt(base, a) = LastWritten(LastUser(a), a)
  /\ Users(a) # {} /\ AllFreed(LastUser(a), a) => ~IsValid(base, a)

KnowsInv  == \A v \in (merged + 1)..NumVersions, a \in Addresses : KnowsUse(v, a)
BaseInv   == \A a \in Addresses : BaseKnows(a)
MemoryInv == /\ \A a \in Addresses : Users(a) = {} => memory[a] = 0
             /\ CommittedInOrder

OrderInv == ReadInv /\ KnowsInv /\ BaseInv /\ MemoryInv

LEMMA InitOrder == MapInit => OrderInv
  <1> SUFFICES ASSUME MapInit PROVE OrderInv
    OBVIOUS
  <1>1. ReadInv
    BY InitRead
  <1>2. KnowsInv
    <2> SUFFICES ASSUME NEW v \in (merged + 1)..NumVersions, NEW a \in Addresses
                 PROVE  KnowsUse(v, a)
      BY DEF KnowsInv
    <2>1. v \in Versions /\ maps[v] = Empty /\ log[v][a] = <<>>
      BY ShapeAssumption DEF MapInit, Versions
    <2>2. ~IsValid(Empty, a) /\ ~IsInvalid(Empty, a)
      BY DEF IsValid, IsInvalid, PageOf, NewPage, Empty
    <2> QED BY <2>1, <2>2 DEF KnowsUse, AllFreed
  <1>3. \A a \in Addresses : Users(a) = {} /\ memory[a] = 0 /\ ~IsValid(base, a)
    BY DEF MapInit, Users, IsValid, PageOf, NewPage, Empty
  <1>4. BaseInv
    BY <1>3 DEF BaseInv, BaseKnows
  <1>5. MemoryInv
    BY <1>3 DEF MemoryInv, CommittedInOrder, MapInit
  <1> QED BY <1>1, <1>2, <1>4, <1>5 DEF OrderInv

\* What a version did before it was merged stays what it did.
LEMMA UsersKept ==
  ASSUME merged' = merged, \A w \in 1..merged : log'[w] = log[w], NEW a
  PROVE  Users(a)' = Users(a) /\ LastUser(a)' = LastUser(a)
  <1>1. Users(a)' = Users(a)
    BY DEF Users
  <1> DEFINE Last(S) == CHOOSE v \in S : \A w \in S : w <= v
  <1>2. LastUser(a) = Last(Users(a)) /\ LastUser(a)' = Last(Users(a)')
    BY DEF LastUser
  <1> HIDE DEF Last
  <1> QED BY <1>1, <1>2

\* Writing and giving back do nothing to the base and to memory, whose invariants
\* speak of merged versions only.
LEMMA OperationKeepsBase ==
  ASSUME OrderInv, UNCHANGED <<base, memory, merged, committed>>,
         \A w \in 1..merged : log'[w] = log[w]
  PROVE  BaseInv' /\ MemoryInv'
  <1>1. ASSUME NEW a \in Addresses
        PROVE  /\ Users(a)' = Users(a) /\ LastUser(a)' = LastUser(a)
               /\ \A v \in Users(a) : log'[v] = log[v]
    BY UsersKept DEF Users
  <1>2. ASSUME NEW a \in Addresses PROVE BaseKnows(a)'
    <2>1. BaseKnows(a)
      BY DEF OrderInv, BaseInv
    <2>2. IsLastUser(LastUser(a), a) => IsLastUser(LastUser(a), a)'
      BY <1>1 DEF IsLastUser
    <2>3. Users(a) # {} => log'[LastUser(a)] = log[LastUser(a)]
      BY <1>1, <2>1 DEF BaseKnows, IsLastUser
    <2>4. \A v \in Users(a) : NoneFreed(v, a)' <=> NoneFreed(v, a)
      BY <1>1 DEF NoneFreed
    <2>5. Users(a) # {} => /\ AllFreed(LastUser(a), a)' <=> AllFreed(LastUser(a), a)
                           /\ LastWritten(LastUser(a), a)' = LastWritten(LastUser(a), a)
      BY <1>1, <2>3 DEF AllFreed, LastWritten
    <2> QED BY <1>1, <2>1, <2>2, <2>4, <2>5 DEF BaseKnows
  <1>3. \A a \in Addresses : Users(a)' = {} => memory'[a] = 0
    BY <1>1 DEF OrderInv, MemoryInv
  <1>4. CommittedInOrder'
    <2> SUFFICES ASSUME committed, NEW a \in Addresses,
                        \A v \in Users(a)' : \A i \in 1..Len(log'[v][a]) : log'[v][a][i] # Freed
                 PROVE  memory'[a] = IF Users(a)' = {} THEN 0
                                     ELSE log'[LastUser(a)'][a][Len(log'[LastUser(a)'][a])]
      BY DEF CommittedInOrder
    <2>1. \A v \in Users(a) : \A i \in 1..Len(log[v][a]) : log[v][a][i] # Freed
      BY <1>1
    <2>2. memory[a] = IF Users(a) = {} THEN 0 ELSE log[LastUser(a)][a][Len(log[LastUser(a)][a])]
      BY <2>1 DEF OrderInv, MemoryInv, CommittedInOrder
    <2>3. Users(a) # {} => log'[LastUser(a)] = log[LastUser(a)]
      BY <1>1 DEF OrderInv, BaseInv, BaseKnows, IsLastUser
    <2> QED BY <1>1, <2>2, <2>3
  <1> QED BY <1>2, <1>3, <1>4 DEF BaseInv, MemoryInv

LEMMA WriteOrder ==
  ASSUME OrderInv, ReadInv', NEW v \in Versions, NEW addr \in Addresses, NEW size \in AccessSizes,
         NEW bytes \in [1..size -> Byte], Write(v, addr, bytes)
  PROVE  OrderInv'
  <1>1. CASE UNCHANGED <<maps, log>>
    <2>1. KnowsInv'
      BY <1>1 DEF Write, Operation, OrderInv, KnowsInv, KnowsUse, AllFreed
    <2>2. BaseInv' /\ MemoryInv'
      BY <1>1, OperationKeepsBase DEF Write, Operation
    <2> QED BY <2>1, <2>2 DEF OrderInv
  <1>2. CASE ~UNCHANGED <<maps, log>>
    <2>1. size \in Nat \ {0} /\ Len(bytes) = size /\ addr \in Nat
      BY AccessAssumption, ShapeAssumption DEF Addresses
    <2>2. /\ maps' = [maps EXCEPT ![v] = WriteValue(@, addr, bytes)]
          /\ log' = Logged(v, addr, bytes)
          /\ UNCHANGED <<base, memory, merged, committed>> /\ v > merged
      BY <1>2 DEF Write, Operation, Abort
    <2>3. DOMAIN maps = Versions /\ log \in [Versions -> [Addresses -> Seq(Byte \cup {Freed})]]
          /\ merged \in 0..NumVersions
      BY DEF OrderInv, ReadInv
    <2>4. \A w \in 1..merged : log'[w] = log[w]
      BY <2>2, <2>3, ShapeAssumption DEF Logged, Versions
    <2>5. BaseInv' /\ MemoryInv'
      BY <2>2, <2>4, OperationKeepsBase
    <2>6. ASSUME NEW w \in (merged' + 1)..NumVersions, NEW a \in Addresses
          PROVE  KnowsUse(w, a)'
      <3>1. w \in Versions /\ w \in (merged + 1)..NumVersions /\ a \in Nat
        BY <2>2, <2>3, ShapeAssumption DEF Versions, Addresses
      <3>2. log[w][a] \in Seq(Byte \cup {Freed})
        BY <2>3, <3>1
      <3>3. CASE w = v /\ a \in Bytes(addr, size)
        <4> DEFINE byte == bytes[a - addr + 1]
        <4>1. log'[w][a] = Append(log[w][a], byte)
          BY <2>1, <2>2, <2>3, <3>1, <3>3 DEF Logged
        <4>2. byte \in Byte /\ byte # Freed
          BY <2>1, <3>3, ShapeAssumption DEF Bytes, Freed
        <4> HIDE DEF byte
        <4>3. log'[w][a] # <<>> /\ log'[w][a][Len(log'[w][a])] = byte
              /\ Len(log'[w][a]) \in 1..Len(log'[w][a])
          BY <3>2, <4>1, <4>2
        <4>4. ~AllFreed(w, a)'
          BY <4>2, <4>3 DEF AllFreed
        <4> QED BY <4>3, <4>4 DEF KnowsUse
      <3>4. CASE ~(w = v /\ a \in Bytes(addr, size))
        <4>1. log'[w][a] = log[w][a]
          BY <2>1, <2>2, <2>3, <3>1, <3>4 DEF Logged
        <4>2. maps'[w] = IF w = v THEN WriteValue(maps[w], addr, bytes) ELSE maps[w]
          BY <2>2, <2>3, <3>1
        <4>3. /\ IsValid(maps[w], a) <=> IsValid(maps'[w], a)
              /\ IsInvalid(maps'[w], a) <=> IsInvalid(maps[w], a)
          BY <2>1, <3>1, <3>4, <4>2, WriteByte
        <4>4. KnowsUse(w, a)
          BY <3>1 DEF OrderInv, KnowsInv
        <4> QED BY <4>1, <4>3, <4>4 DEF KnowsUse, AllFreed
      <3> QED BY <3>3, <3>4
    <2> QED BY <2>5, <2>6 DEF OrderInv, KnowsInv
  <1> QED BY <1>1, <1>2

LEMMA InvalidateOrder ==
  ASSUME OrderInv, ReadInv', NEW v \in Versions, NEW addr \in Addresses, NEW size \in AccessSizes,
         Invalidate(v, addr, size)
  PROVE  OrderInv'
  <1> DEFINE done == [n \in 1..size |-> Freed]
  <1>1. CASE UNCHANGED <<maps, log>>
    <2>1. KnowsInv'
      BY <1>1 DEF Invalidate, Operation, OrderInv, KnowsInv, KnowsUse, AllFreed
    <2>2. BaseInv' /\ MemoryInv'
      BY <1>1, OperationKeepsBase DEF Invalidate, Operation
    <2> QED BY <2>1, <2>2 DEF OrderInv
  <1>2. CASE ~UNCHANGED <<maps, log>>
    <2>1. size \in Nat \ {0} /\ Len(done) = size /\ addr \in Nat
      BY AccessAssumption, ShapeAssumption DEF Addresses
    <2>2. /\ maps' = [maps EXCEPT ![v] = SetInvalid(@, addr, size)]
          /\ log' = Logged(v, addr, done)
          /\ UNCHANGED <<base, memory, merged, committed>> /\ v > merged
          /\ ~CrossesPage(addr, size)
      BY <1>2 DEF Invalidate, Operation, Abort
    <2>3. DOMAIN maps = Versions /\ log \in [Versions -> [Addresses -> Seq(Byte \cup {Freed})]]
          /\ merged \in 0..NumVersions
      BY DEF OrderInv, ReadInv
    <2>4. \A w \in 1..merged : log'[w] = log[w]
      BY <2>2, <2>3, ShapeAssumption DEF Logged, Versions
    <2>5. BaseInv' /\ MemoryInv'
      BY <2>2, <2>4, OperationKeepsBase
    <2>6. \A a \in Bytes(addr, size) : done[a - addr + 1] = Freed
      BY <2>1, ShapeAssumption DEF Bytes
    <2> HIDE DEF done
    <2>7. ASSUME NEW w \in (merged' + 1)..NumVersions, NEW a \in Addresses
          PROVE  KnowsUse(w, a)'
      <3>1. w \in Versions /\ w \in (merged + 1)..NumVersions /\ a \in Nat
        BY <2>2, <2>3, ShapeAssumption DEF Versions, Addresses
      <3>2. log[w][a] \in Seq(Byte \cup {Freed}) /\ KnowsUse(w, a)
        BY <2>3, <3>1 DEF OrderInv, KnowsInv
      <3>3. CASE w = v /\ a \in Bytes(addr, size)
        <4>1. log'[w][a] = Append(log[w][a], Freed)
          BY <2>1, <2>2, <2>3, <2>6, <3>1, <3>3 DEF Logged
        <4>2. log'[w][a] # <<>>
              /\ Len(log'[w][a]) = Len(log[w][a]) + 1 /\ Len(log[w][a]) \in Nat
              /\ \A i \in 1..Len(log[w][a]) : log'[w][a][i] = log[w][a][i]
          BY <3>2, <4>1
        <4>3. maps'[w] = SetInvalid(maps[w], addr, size)
          BY <2>2, <2>3, <3>1, <3>3
        <4>4. ~IsValid(maps'[w], a) /\ (~IsValid(maps[w], a) => IsInvalid(maps'[w], a))
          BY <2>1, <2>2, <3>3, <4>3, InvalidateByte
        <4>5. AllFreed(w, a)' => log[w][a] = <<>> \/ AllFreed(w, a)
          BY <4>2 DEF AllFreed
        <4> QED BY <3>2, <4>2, <4>4, <4>5 DEF KnowsUse
      <3>4. CASE ~(w = v /\ a \in Bytes(addr, size))
        <4>1. log'[w][a] = log[w][a]
          BY <2>1, <2>2, <2>3, <3>1, <3>4 DEF Logged
        <4>2. maps'[w] = IF w = v THEN SetInvalid(maps[w], addr, size) ELSE maps[w]
          BY <2>2, <2>3, <3>1
        <4>3. /\ IsValid(maps[w], a) <=> IsValid(maps'[w], a)
              /\ IsInvalid(maps'[w], a) <=> IsInvalid(maps[w], a)
          BY <2>1, <3>1, <3>4, <4>2, InvalidateOther
        <4> QED BY <3>2, <4>1, <4>3 DEF KnowsUse, AllFreed
      <3> QED BY <3>3, <3>4
    <2> QED BY <2>5, <2>7 DEF OrderInv, KnowsInv
  <1> QED BY <1>1, <1>2

LEMMA MergeOrder ==
  ASSUME OrderInv, ReadInv', MergeNext
  PROVE  OrderInv'
  <1> DEFINE v == merged + 1
  <1>1. /\ v \in Versions /\ v \in (merged + 1)..NumVersions /\ merged \in Nat
        /\ merged' = v /\ log' = log /\ memory' = memory /\ committed' = FALSE
        /\ base' = Merge(base, maps[v]) /\ maps' = [maps EXCEPT ![v] = Empty]
        /\ DOMAIN maps = Versions
    BY ShapeAssumption DEF MergeNext, OrderInv, ReadInv, Versions
  <1>2. KnowsInv'
    <2> SUFFICES ASSUME NEW w \in (merged' + 1)..NumVersions, NEW a \in Addresses
                 PROVE  KnowsUse(w, a)'
      BY DEF KnowsInv
    <2>1. w \in (merged + 1)..NumVersions /\ w # v /\ w \in Versions
      BY <1>1, ShapeAssumption DEF Versions
    <2>2. maps'[w] = maps[w] /\ KnowsUse(w, a)
      BY <1>1, <2>1 DEF OrderInv, KnowsInv
    <2> QED BY <1>1, <2>2 DEF KnowsUse, AllFreed
  <1>3. ASSUME NEW a \in Addresses
        PROVE  BaseKnows(a)' /\ (Users(a)' = {} => Users(a) = {})
    <2>1. /\ a \in Nat
          /\ BaseKnows(a)
          /\ KnowsUse(v, a)
          /\ HoldsLastWrite(v, a)
          /\ log[v][a] \in Seq(Byte \cup {Freed})
      <3>1. a \in Nat
        BY ShapeAssumption DEF Addresses
      <3>2. BaseKnows(a) /\ KnowsUse(v, a)
        BY <1>1 DEF OrderInv, BaseInv, KnowsInv
      <3>3. HoldsLastWrite(v, a) /\ log[v][a] \in Seq(Byte \cup {Freed})
        BY <1>1 DEF OrderInv, ReadInv
      <3> QED BY <3>1, <3>2, <3>3
    <2>2. Users(a)' = IF log[v][a] = <<>> THEN Users(a) ELSE Users(a) \cup {v}
      <3>1. 1..merged' = 1..merged \cup {v}
        BY <1>1
      <3> HIDE DEF v
      <3> QED BY <1>1, <3>1 DEF Users
    <2>3. v \notin Users(a) /\ \A w \in Users(a) : w <= v
      BY <1>1 DEF Users
    <2> DEFINE Last(S) == CHOOSE u \in S : \A w \in S : w <= u
    <2>4. LastUser(a) = Last(Users(a)) /\ LastUser(a)' = Last(Users(a)')
      BY DEF LastUser
    <2>5. CASE log[v][a] = <<>>
      <3>1. ~IsValid(maps[v], a) /\ ~IsInvalid(maps[v], a)
        BY <2>1, <2>5 DEF KnowsUse
      <3>2. (IsValid(base', a) <=> IsValid(base, a)) /\ ByteAt(base', a) = ByteAt(base, a)
        BY <1>1, <2>1, <3>1, MergeByte
      <3> HIDE DEF Last, v
      <3>3. Users(a)' = Users(a) /\ LastUser(a)' = LastUser(a)
        BY <2>2, <2>4, <2>5
      <3>4. BaseKnows(a)'
        BY <1>1, <2>1, <3>2, <3>3
           DEF BaseKnows, IsLastUser, NoneFreed, AllFreed, LastWritten
      <3> QED BY <3>3, <3>4
    <2>6. CASE log[v][a] # <<>>
      <3>1. v \in Users(a)' /\ \A w \in Users(a)' : w <= v
        BY <1>1, <2>2, <2>3, <2>6
      <3>2. LastUser(a)' = v
        <4>1. LastUser(a)' \in Users(a)' /\ \A w \in Users(a)' : w <= LastUser(a)'
          <5>1. \E u \in Users(a)' : \A w \in Users(a)' : w <= u
            BY <3>1
          <5> QED BY <2>4, <5>1, Zenon
        <4>2. LastUser(a)' <= v /\ v <= LastUser(a)' /\ LastUser(a)' \in Int
          BY <3>1, <4>1 DEF Users
        <4> QED BY <1>1, <4>2
      <3>3. AllFreed(v, a) => ~IsValid(base', a)
        BY <1>1, <2>1, MergeByte DEF KnowsUse
      <3>4. NoneFreed(v, a) => IsValid(base', a) /\ ByteAt(base', a) = LastWritten(v, a)
        <4>1. Len(log[v][a]) \in 1..Len(log[v][a])
          BY <2>1, <2>6
        <4>2. NoneFreed(v, a) => Written(v, a)
          BY <2>6, <4>1 DEF NoneFreed, Written
        <4> QED BY <1>1, <2>1, <4>2, MergeByte DEF HoldsLastWrite
      <3> HIDE DEF v
      <3>5. Users(a)' # {}
        BY <3>1
      <3>6. (\A w \in Users(a)' : NoneFreed(w, a)') => NoneFreed(v, a)
        BY <1>1, <3>1 DEF NoneFreed
      <3>8. IsLastUser(LastUser(a), a)'
        BY <3>1, <3>2 DEF IsLastUser
      <3>9. LastWritten(LastUser(a), a)' = LastWritten(v, a)
        BY <1>1, <3>2 DEF LastWritten
      <3>10. AllFreed(LastUser(a), a)' <=> AllFreed(v, a)
        BY <1>1, <3>2 DEF AllFreed
      <3>11. BaseKnows(a)'
        BY <3>3, <3>4, <3>5, <3>6, <3>8, <3>9, <3>10 DEF BaseKnows
      <3> QED BY <3>5, <3>11
    <2> QED BY <2>5, <2>6
  <1>4. MemoryInv'
    BY <1>1, <1>3 DEF OrderInv, MemoryInv, CommittedInOrder
  <1> QED BY <1>2, <1>3, <1>4 DEF OrderInv, BaseInv

LEMMA CommitOrder ==
  ASSUME OrderInv, ReadInv', Commit
  PROVE  OrderInv'
  <1>1. /\ UNCHANGED <<maps, base, merged, log>>
        /\ memory' = [a \in Addresses |-> IF IsValid(base, a) THEN ByteAt(base, a) ELSE memory[a]]
    BY DEF Commit
  <1>2. ASSUME NEW a \in Addresses
        PROVE  Users(a)' = Users(a) /\ LastUser(a)' = LastUser(a)
    BY <1>1, UsersKept
  <1>3. KnowsInv'
    BY <1>1 DEF OrderInv, KnowsInv, KnowsUse, AllFreed
  <1>4. BaseInv'
    <2> SUFFICES ASSUME NEW a \in Addresses PROVE BaseKnows(a)'
      BY DEF BaseInv
    <2>1. BaseKnows(a)
      BY DEF OrderInv, BaseInv
    <2> QED BY <1>1, <1>2, <2>1 DEF BaseKnows, IsLastUser, NoneFreed, AllFreed, LastWritten
  <1>5. ASSUME NEW a \in Addresses, Users(a) = {} PROVE memory'[a] = 0
    BY <1>1, <1>5 DEF OrderInv, BaseInv, BaseKnows, MemoryInv
  <1>6. ASSUME NEW a \in Addresses, Users(a) # {}, \A v \in Users(a) : NoneFreed(v, a)
        PROVE  memory'[a] = LastWritten(LastUser(a), a)
    BY <1>1, <1>6 DEF OrderInv, BaseInv, BaseKnows
  <1>7. CommittedInOrder'
    <2> SUFFICES ASSUME NEW a \in Addresses,
                        \A v \in Users(a) : \A i \in 1..Len(log[v][a]) : log[v][a][i] # Freed
                 PROVE  memory'[a] = IF Users(a) = {} THEN 0
                                     ELSE log[LastUser(a)][a][Len(log[LastUser(a)][a])]
      BY <1>1, <1>2 DEF CommittedInOrder
    <2>1. \A v \in Users(a) : NoneFreed(v, a)
      BY DEF NoneFreed
    <2> QED BY <2>1, <1>5, <1>6 DEF LastWritten
  <1> QED BY <1>2, <1>3, <1>4, <1>5, <1>7 DEF OrderInv, MemoryInv

LEMMA NextOrder == OrderInv /\ [MapNext]_mapVars => OrderInv'
  <1> SUFFICES ASSUME OrderInv, [MapNext]_mapVars PROVE OrderInv'
    OBVIOUS
  <1>1. ReadInv'
    BY NextRead DEF OrderInv
  <1>2. ASSUME UNCHANGED mapVars PROVE OrderInv'
    <2>1. UNCHANGED <<maps, base, memory, merged, log, committed>>
      BY <1>2 DEF mapVars
    <2>2. BaseInv' /\ MemoryInv'
      BY <2>1, OperationKeepsBase
    <2> QED BY <1>1, <2>1, <2>2 DEF OrderInv, KnowsInv, KnowsUse, AllFreed
  <1> QED BY <1>1, <1>2, WriteOrder, InvalidateOrder, MergeOrder, CommitOrder DEF MapNext

LEMMA OrderInvariant == MapSpec => []OrderInv
  BY InitOrder, NextOrder, PTL DEF MapSpec

\* CommittedInOrder: main memory after commit_to_main_memory is as if the merged
\* versions had run one after the other, at every byte none of them gave back.
THEOREM CommittedInOrderCorrect == MapSpec => []CommittedInOrder
  <1>1. OrderInv => CommittedInOrder
    BY DEF OrderInv, MemoryInv
  <1> QED BY OrderInvariant, <1>1, PTL

\* FreedNotCommitted: a byte that its last user only gave back is valid in no
\* base, so that commit_to_main_memory leaves it.
THEOREM FreedNotCommittedCorrect == MapSpec => []FreedNotCommitted
  <1>1. OrderInv => FreedNotCommitted
    <2> SUFFICES ASSUME OrderInv, NEW a \in Addresses, Users(a) # {},
                        \A i \in 1..Len(log[LastUser(a)][a]) : log[LastUser(a)][a][i] = Freed
                 PROVE  ~IsValid(base, a)
      BY DEF FreedNotCommitted
    <2>1. BaseKnows(a)
      BY DEF OrderInv, BaseInv
    <2>2. log[LastUser(a)][a] # <<>>
      BY <2>1 DEF BaseKnows, IsLastUser, Users
    <2> QED BY <2>1, <2>2 DEF BaseKnows, AllFreed
  <1> QED BY OrderInvariant, <1>1, PTL
===============================================================================
