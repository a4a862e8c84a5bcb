-------------------------- MODULE MCRideOfferService --------------------------
(***************************************************************************)
(* A small instance of RideOfferService.                                   *)
(***************************************************************************)
EXTENDS RideOfferService, TLC

CONSTANTS r1, d1, d2, k1, k2

OneRide    == {r1}
TwoDrivers == {d1, d2}
TwoCalls   == {k1, k2}

Symmetry == Permutations(Drivers) \union Permutations(Calls)
=============================================================================
