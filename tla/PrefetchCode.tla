----------------------------- MODULE PrefetchCode -----------------------------
(***************************************************************************)
(* What the code that StridePrefetch inserts before a load does when the   *)
(* program runs (insertSSST, insertPMST and insertWSST of                  *)
(* proj_pass/lib/projpass/strideprefetch.cpp).                             *)
(*                                                                         *)
(* A step is one execution of the load with its inserted code, or an entry *)
(* to the function the load is in, which makes a new scratch slot.         *)
(***************************************************************************)
EXTENDS Integers

CONSTANTS LoadAddresses,     \* addresses the load may touch
          DominantStrides,   \* strides the profile may call dominant
          Distances,         \* values of K
          Classes,           \* classes of the load
          IntWidth,          \* width of the i32 the code computes in
          AddressWidth       \* width of an address

ASSUME LoadAddressesAssumption == LoadAddresses \subseteq 0..(2^AddressWidth - 1)
ASSUME DistancesAssumption == Distances \subseteq 1..8
ASSUME StridesAssumption   == DominantStrides \subseteq Int
ASSUME WidthsAssumption    == {2^IntWidth, 2^AddressWidth} \subseteq Nat \ {0}
ASSUME ClassesAssumption   == Classes \subseteq {"SSST", "PMST", "WSST"}

VARIABLES class, K, dominant_stride,   \* what the pass knew of the load
          scratch,    \* the slot for the last address
          address,    \* history: address of the last execution in this call, or None
          previous,   \* history: address of the execution before that, or None
          target      \* history: address prefetched by the last execution, or None

codeVars == <<class, K, dominant_stride, scratch, address, previous, target>>

None == -1

\* A value computed in, or converted to, an i32.
Int32(x) == x % 2^IntWidth

\* The bits of an unsigned int that are set.
Bits(n) == LET half[b \in 0..31] == IF b = 0 THEN n ELSE half[b - 1] \div 2
           IN  {b \in 0..31 : half[b] % 2 = 1}

\* The number with these bits, added up from the highest.
Number(S) == LET high[i \in 0..32] == IF i = 0 THEN 0
                                      ELSE 2 * high[i - 1] + IF 32 - i \in S THEN 1 ELSE 0
             IN  high[32]

\* n |= n >> s, for the n with the bits S.
Smeared(S, s) == S \cup {b \in 0..31 : b + s \in S}

\* K rounded up to a power of two: newK-- ; newK |= newK >> 1 ... ; newK++.
RoundUp(k) ==
  Number(Smeared(Smeared(Smeared(Smeared(Smeared(Bits(k - 1), 1), 2), 4), 8), 16)) + 1

\* 2^e, as a shift left by e multiplies by it.
Pow2[e \in 0..32] == IF e = 0 THEN 1 ELSE 2 * Pow2[e - 1]

\* (unsigned) log2(n) of a power of two.
Log2(n) == CHOOSE e \in 0..31 : Pow2[e] = n

CodeInit == /\ class \in Classes /\ K \in Distances /\ dominant_stride \in DominantStrides
            /\ scratch \in LoadAddresses
            /\ address = None /\ previous = None /\ target = None

\* The alloca of the slot is in the entry block and nothing initialises it.
EnterFunction == /\ scratch' \in LoadAddresses
                 /\ address' = None /\ previous' = None /\ target' = None
                 /\ UNCHANGED <<class, K, dominant_stride>>

\* Mutant: the slot is stored to before it is loaded.
StrideAfterStore(addr) == 0

\* scratchAndSub: the address minus the slot's, and the address to the slot.
Stride(addr) == Int32(Int32(addr) - Int32(scratch))

\* insertPrefetch without a stride: K times the dominant stride ahead.
AlongDominant(addr) == Int32(Int32(addr) + K * dominant_stride)

\* insertPrefetch with one: the stride, shifted left, ahead.
AlongStride(addr) == Int32(Int32(addr) + Stride(addr) * Pow2[Log2(RoundUp(K))])

\* The comparison that insertWSST puts before the prefetch: its operand is the
\* load's address, where the comment above the function speaks of its stride.
WeakGuard(addr) == Int32(addr) = Int32(dominant_stride)

Target(addr) == IF class = "SSST" THEN AlongDominant(addr)
                ELSE IF class = "PMST" \/ WeakGuard(addr) THEN AlongStride(addr)
                ELSE None

Execute(addr) == /\ target' = Target(addr)
                 /\ scratch' = IF class = "SSST" THEN scratch ELSE addr
                 /\ previous' = address
                 /\ address' = addr
                 /\ UNCHANGED <<class, K, dominant_stride>>

CodeNext == EnterFunction \/ \E addr \in LoadAddresses : Execute(addr)

CodeSpec == CodeInit /\ [][CodeNext]_codeVars

-------------------------------------------------------------------------------
IsAddress(a) == a \in 0..(2^AddressWidth - 1)

\* Where the load will be if it goes on as it does: K dominant strides on, or, of
\* the strides it just took, K rounded up to a power of two.
Ahead == IF class = "SSST" THEN address + K * dominant_stride
                           ELSE address + RoundUp(K) * (address - previous)

\* A prefetch is that of the address ahead, K to 2 K - 1 strides on, wherever that
\* is an address at all.  (In the first execution of a call there is no stride yet,
\* and a load with a stride of its own is prefetched from what the slot held.)
TargetsAhead ==
  target # None /\ (class = "SSST" \/ previous # None) =>
    /\ RoundUp(K) \in K..(2 * K - 1)
    /\ IsAddress(Ahead) => target = Ahead
===============================================================================
