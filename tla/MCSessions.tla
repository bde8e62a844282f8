---------------------------- MODULE MCSessions ----------------------------
(***************************************************************************)
(* Instances of Sessions for TLC. Sessions of one profile compete for its  *)
(* lock; sessions of two profiles share only the gateway. Sessions started  *)
(* for the same profile are interchangeable.                                *)
(***************************************************************************)
EXTENDS Sessions, TLC

CONSTANTS p1, p2, s1, s2, s3

SameProfile  == [s \in Sessions |-> p1]
TwoProfiles  == [s \in Sessions |-> IF s = s1 THEN p1 ELSE p2]

TwoProfilesSymmetry == Permutations({s2, s3})
=============================================================================
