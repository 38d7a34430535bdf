--------------------------- MODULE MCLoadNumbering ----------------------------
(* LoadNumbering for every module of three functions of up to two loads.       *)
EXTENDS LoadNumbering
===============================================================================
