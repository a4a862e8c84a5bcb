------------------------- MODULE ContestedAssignment -------------------------
(***************************************************************************)
(* What acceptRideOffer keeps when accepts overlap: a driver gets a ride   *)
(* only by an accept that has found the ride without one.  So the driver   *)
(* of a ride may change while such accepts are still on their way, and     *)
(* never once the last of them is through.                                 *)
(***************************************************************************)
CONSTANTS Rides, Drivers, None

VARIABLES requested, assigned, checked

Init ==
  /\ requested = {}
  /\ assigned = [r \in Rides |-> None]
  /\ checked = {}

Request(r) ==
  /\ r \notin requested
  /\ requested' = requested \union {r}
  /\ UNCHANGED <<assigned, checked>>

\* An accept finds the ride without a driver.
Check(r, d) ==
  /\ r \in requested
  /\ assigned[r] = None
  /\ checked' = checked \union {<<r, d>>}
  /\ UNCHANGED <<requested, assigned>>

\* It writes, whatever the ride has become; the driver may have asked twice.
Assign(r, d) ==
  /\ r \in requested
  /\ <<r, d>> \in checked
  /\ assigned' = [assigned EXCEPT ![r] = d]
  /\ checked' \in {checked, checked \ {<<r, d>>}}
  /\ UNCHANGED requested

\* Accepts fail on their way.
GiveUp ==
  /\ checked' \subseteq checked
  /\ UNCHANGED <<requested, assigned>>

Next ==
  \/ \E r \in Rides : Request(r)
  \/ \E r \in Rides, d \in Drivers : Check(r, d) \/ Assign(r, d)
  \/ GiveUp

Spec == Init /\ [][Next]_<<requested, assigned, checked>>
=============================================================================
