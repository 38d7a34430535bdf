---------------------------- MODULE MCStrideClasses ---------------------------
(* The collector and the classes of loads on a small address space: 16 and   *)
(* 24 share a 16-byte block (a zero stride), 24, 56, 88 form an arithmetic   *)
(* progression (a stride that repeats), and the other differences give more  *)
(* strides than the list of top strides, TOPCOUNT = 2, can hold.  Ints of    *)
(* eight bits hold every stride between the addresses.                       *)
EXTENDS StrideClasses

MCAddresses == {16, 24, 56, 88}
===============================================================================
