---------------------------- MODULE MCGeneratedCode ----------------------------
(* GeneratedCode.  Profiled: a load of 20 executions and chunks of one, so   *)
(* that N1 = 3 and N2 = 1, and counters of three bits; 16 and 24 share a     *)
(* 16-byte block.  Optimised: every K the pass computes, and addresses of    *)
(* nine bits, as many as the integers the inserted code computes in.         *)
EXTENDS GeneratedCode, Bitwise

MCAddresses == {16, 24, 56, 88}

MCLoadAddresses == {32, 40, 64, 96, 160}
MCStrides   == {-32, 8, 32}
MCDistances == 1..8

\* The rounding over sets of bits is that of the code's operators on integers.
ASSUME RoundUpIsBitwise ==
  \A k \in 1..300 : LET Spread(n, s) == n | shiftR(n, s)
                    IN  RoundUp(k) = Spread(Spread(Spread(Spread(Spread(k - 1, 1), 2), 4), 8), 16) + 1

\* One scratch slot and class is enough for the runs of the profiled build.
MCInit == /\ GeneratedInit
          /\ build = "stride_profile" =>
               class = "SSST" /\ K = 1 /\ dominant_stride = 8 /\ scratch = 32
MCSpec == MCInit /\ [][GeneratedNext]_<<build, samplingVars, codeVars>>
===============================================================================
