----------------------------- MODULE MCKSearcher ------------------------------
(* KSearcher with a range that is divided twice before it is too short: 0 to *)
(* 6 in steps of 2, then a window of width 4 in steps of 1.                  *)
EXTENDS KSearcher

MCPerformances == {-1, 1}
===============================================================================
