---------------------------- MODULE RideAssignment ----------------------------
(***************************************************************************)
(* What the checks and writes of acceptRideOffer are there to promise:     *)
(* a requested ride gets a driver at most once, the driver is free until   *)
(* then and not free from then on.                                         *)
(***************************************************************************)
CONSTANTS Rides, Drivers, None

VARIABLES requested, assigned, free

Init ==
  /\ requested = {}
  /\ assigned = [r \in Rides |-> None]
  /\ free = Drivers

Request(r) ==
  /\ r \notin requested
  /\ requested' = requested \union {r}
  /\ UNCHANGED <<assigned, free>>

Assign(r, d) ==
  /\ r \in requested
  /\ assigned[r] = None
  /\ d \in free
  /\ assigned' = [assigned EXCEPT ![r] = d]
  /\ free' = free \ {d}
  /\ UNCHANGED requested

Next ==
  \/ \E r \in Rides : Request(r)
  \/ \E r \in Rides, d \in Drivers : Assign(r, d)

Spec == Init /\ [][Next]_<<requested, assigned, free>>
=============================================================================
