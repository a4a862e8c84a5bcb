---------------------------- MODULE MCRideMatching ----------------------------
(***************************************************************************)
(* Small instances of RideMatching.                                        *)
(***************************************************************************)
EXTENDS RideClaims, TLC

CONSTANTS r1, r2, d1, d2, q1, q2

OneRide     == {r1}
TwoRides    == {r1, r2}
OneDriver   == {d1}
TwoDrivers  == {d1, d2}
OneRequest  == {q1}
TwoRequests == {q1, q2}

Symmetry    == Permutations(Drivers) \union Permutations(Requests)
RowSymmetry == Permutations(Rides) \union Permutations(Drivers)
=============================================================================
