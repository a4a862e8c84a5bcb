------------------------------ MODULE MCRideRooms ------------------------------
(***************************************************************************)
(* A small instance of RideRooms.                                          *)
(***************************************************************************)
EXTENDS RideRooms, TLC

CONSTANTS r1, d1, d2, u1, q1, q2, m1

OneRide     == {r1}
TwoDrivers  == {d1, d2}
OneUser     == {u1}
TwoRequests == {q1, q2}
OneMessage  == {m1}
RiderOfRide == [r \in {r1} |-> u1]

\* Bound: at most one of the things that disturb a search.
OneDisturbance ==
  count.retries + count.rejects + count.faults + count.crashes + used.disconnects <= 1

Symmetry == Permutations(Drivers) \union Permutations(Requests)
=============================================================================
