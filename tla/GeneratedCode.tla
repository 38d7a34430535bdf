----------------------------- MODULE GeneratedCode -----------------------------
(***************************************************************************)
(* A run of a program the compiler has put code around a load of: the      *)
(* profiled build, with the sampling of StrideSampling, or the optimised   *)
(* one, with the prefetch of PrefetchCode.  The makefiles of               *)
(* proj_pass/tests build the one and then the other from the same source,  *)
(* and nothing but the profile file passes between their runs.             *)
(***************************************************************************)
EXTENDS StrideSampling, PrefetchCode

VARIABLE build   \* the pass the program was built with

GeneratedInit == build \in {"stride_profile", "stride_prefetch"} /\ SamplingInit /\ CodeInit

GeneratedNext ==
  /\ \/ build = "stride_profile" /\ SamplingNext /\ UNCHANGED codeVars
     \/ build = "stride_prefetch" /\ CodeNext /\ UNCHANGED samplingVars
  /\ UNCHANGED build

GeneratedSpec == GeneratedInit /\ [][GeneratedNext]_<<build, samplingVars, codeVars>>
===============================================================================
