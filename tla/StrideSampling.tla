---------------------------- MODULE StrideSampling ----------------------------
(***************************************************************************)
(* One instrumented load of the profiled program: the sampling control     *)
(* flow that StrideProfiler::doStrides builds around it                    *)
(* (proj_pass/lib/projpass/StrideProfiling.cpp), calling the run-time      *)
(* hooks of proj_pass/tools/stride-profiler/stride_hooks.cxx, which keep   *)
(* the load's collector, that of LoadStride.                               *)
(*                                                                         *)
(* Per execution of the load the generated code runs oldBB, then           *)
(* skippingBB, or profCheck and one of resetBB and strideBB; one step of   *)
(* this module is one such pass.  number_skipped and number_profiled are   *)
(* the two i32 globals of the load.                                        *)
(***************************************************************************)
EXTENDS LoadStride

CONSTANTS ExecCount,       \* edge-profiled executions of the load's block
          ChunkSize,       \* chunkSize, 30 in the code
          Width,           \* width of the counters, 32 in the code
          MaxExecutions    \* model bound: executions of the load

ASSUME CountsAssumption == ExecCount \in Nat /\ ChunkSize \in Nat \ {0}
\* (The last conjunct is arithmetic, which the provers do not know of powers.)
ASSUME WidthAssumption  == /\ Width \in Nat /\ MaxExecutions \in Nat
                           /\ 2^Width \in Nat \ {0}

VARIABLES number_skipped, number_profiled, Stride_initialized,
          hasProfile,      \* StrideProfiles.count(load_id)
          executions,      \* history: executions of the load so far
          heard,           \* history: executions the hook passed to the collector
          sample,          \* history: those since the addresses were last cleared
          samples,         \* history: samples, between clearings, that had any
          prevAddress      \* history: the address of the last execution

sampling == <<heard, sample, samples>>
history == <<executions, sampling, prevAddress>>
samplingVars == <<vars, number_skipped, number_profiled, Stride_initialized,
          hasProfile, history>>

Lesser(a, b) == IF a <= b THEN a ELSE b

\* `x + 1` on an i32.
Increment(x) == (x + 1) % (2^Width)

\* tmpN2: how many executions in a row to profile, a twentieth of them all but
\* one at least (all of them when that is none), and a chunk at most.
N2 == LET part == ExecCount \div 20
      IN  Lesser(IF part < 1 THEN ExecCount ELSE part, ChunkSize)

\* tmpN1: how many to skip first, three twentieths plus what the chunk left.
N1 == LET part == IF N2 = ExecCount THEN 0 ELSE (3 * ExecCount) \div 20
      IN  IF N2 = ChunkSize THEN part + ExecCount \div 20 - ChunkSize ELSE part

-------------------------------------------------------------------------------
SamplingInit == /\ Init
                /\ number_skipped = 0
                /\ number_profiled = 0
                /\ Stride_initialized = FALSE
                /\ hasProfile = FALSE
                /\ executions = 0
                /\ heard = 0 /\ sample = 0 /\ samples = 0
                /\ prevAddress = -1

\* Stride_init, called on entry to main.
Stride_init == /\ ~Stride_initialized
               /\ Stride_initialized' = TRUE
               /\ UNCHANGED <<vars, number_skipped, number_profiled, hasProfile, history>>

\* Stride_StrideProfile: nothing before Stride_init, otherwise the collector,
\* made on the first call, gets the address.
Stride_StrideProfile(addr) ==
  IF Stride_initialized
  THEN /\ hasProfile' = TRUE
       /\ AddAddress(addr)
       /\ heard' = heard + 1
       /\ sample' = sample + 1
       /\ samples' = IF sample = 0 THEN samples + 1 ELSE samples
  ELSE UNCHANGED <<vars, hasProfile, sampling>>

\* Stride_StrideProfile_ClearAddresses; the assertion that the load has a
\* profile is a conjunct, so a failing one stops the program.
Stride_ClearAddresses ==
  IF Stride_initialized
  THEN /\ hasProfile
       /\ ClearAddresses
       /\ sample' = 0
       /\ UNCHANGED <<hasProfile, heard, samples>>
  ELSE UNCHANGED <<vars, hasProfile, sampling>>

\* Mutant: one execution too few is skipped.
SkipsOneFewer == number_skipped + 1 < N1 % (2^Width)

\* oldBB's unsigned comparison.
Skips == number_skipped < N1 % (2^Width)

SkippingBB == /\ number_skipped' = Increment(number_skipped)
              /\ UNCHANGED <<vars, hasProfile, number_profiled, sampling>>

ResetBB == /\ number_profiled' = 0
           /\ number_skipped' = 0
           /\ Stride_ClearAddresses

\* Mutant: a new round of skipping after each sample, with no clearing.
StrideBBRestarts(addr) ==
  /\ number_skipped' = 0
  /\ Stride_StrideProfile(addr)
  /\ UNCHANGED number_profiled

\* The block that profiles adds one to number_skipped, not to number_profiled.
StrideBB(addr) == /\ number_skipped' = Increment(number_skipped)
                  /\ Stride_StrideProfile(addr)
                  /\ UNCHANGED number_profiled

ProfCheck(addr) == IF number_profiled = N2 THEN ResetBB ELSE StrideBB(addr)

\* loadBB, the load itself, follows each of the three.
ExecuteLoad(addr) == /\ executions < MaxExecutions
                     /\ IF Skips THEN SkippingBB ELSE ProfCheck(addr)
                     /\ executions' = executions + 1
                     /\ prevAddress' = addr
                     /\ UNCHANGED Stride_initialized

SamplingNext == Stride_init \/ \E addr \in Addresses : ExecuteLoad(addr)

SamplingSpec == SamplingInit /\ [][SamplingNext]_samplingVars

-------------------------------------------------------------------------------
\* A stride the collector takes is a stride between two consecutive executions
\* of the load, whatever the sampling leaves out: the address it holds is the
\* one of the last execution, or none.  That is so until number_skipped has gone
\* through all values of an i32: then skipping begins again, with no clearing.
StridesAreConsecutive == executions <= 2^Width => lastAddress \in {prevAddress, -1}

\* The profile accounts for every sampled execution: each but the first after a
\* clearing is one recorded stride or one zero stride, whenever Stride_init comes,
\* and none of the first N1 executions is among them.
SamplesAccounted ==
  /\ hasProfile <=> heard > 0
  /\ hasProfile => StrideExecCount + strideZeroCount = heard - samples
  /\ heard <= executions - Lesser(N1, executions)

\* What the comments on N2 and on resetBB and the report say of the sampling: a
\* sample is N2 executions, after which the addresses are cleared.  It does not
\* hold: strideBB never lets number_profiled reach N2.
SamplesEnd == sample <= N2
===============================================================================
