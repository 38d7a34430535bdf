--------------------------- MODULE MCStridePrefetch ---------------------------
(* StridePrefetch at the code's own thresholds, on shapes to either side of  *)
(* each: loops entered often or rarely, bodies that call for different       *)
(* distances, and blocks that ran FT times and once more.                    *)
EXTENDS StridePrefetch, TLC

Loop(header, preheader, body) == [header |-> header, preheader |-> preheader, body |-> body]
Load(count, class) == [count |-> count, class |-> class]

MCLoopShapes == {Loop(3000, 10, 50), Loop(3000, 30, 50), Loop(3000, 10, 150)}
MCLoadShapes == {Load(2000, "SSST"), Load(2001, "SSST"), Load(3000, "PMST"),
                 Load(3000, "WSST"), Load(3000, "none"), Load(3000, "noinfo")}

\* For the run about the distance: loops and loads that all get prefetches.
DistanceLoopShapes == {Loop(3000, 10, 20), Loop(3000, 10, 150), Loop(3000, 10, 250)}
DistanceLoadShapes == {Load(3000, "SSST")}

\* Nothing distinguishes one place of a Loop object from another.
PlaceSymmetry == Permutations(Places)
===============================================================================
