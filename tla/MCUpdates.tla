----------------------------- MODULE MCUpdates ------------------------------
(* Instances of Updates: an installed version 2 of two files, a newer         *)
(* release of both with a third file, an older one, and one nobody signed.   *)
EXTENDS Updates

CONSTANTS r1, r2, m2, m3, m1, mx, gw, br, app, tGw, tBr, tApp

MCManifests == {m1, m2, m3, mx}
MCVersion == [m \in MCManifests |-> CASE m = m1 -> 1 [] m = m2 -> 2 [] OTHER -> 3]

(* One install path for each artifact.                                       *)
MCListOf == [m \in MCManifests |-> IF m = m3 THEN <<app, gw, br>> ELSE <<gw, br>>]
MCTargetOf == [a \in {gw, br, app} |->
                  CASE a = gw -> tGw [] a = br -> tBr [] OTHER -> tApp]
MCTargets == {tGw, tBr, tApp}
=============================================================================
