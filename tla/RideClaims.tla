------------------------------ MODULE RideClaims ------------------------------
(***************************************************************************)
(* What the messages of the code say of ride matching, and the code does   *)
(* not keep when requests overlap, a call fails or the worker runs late.   *)
(***************************************************************************)
EXTENDS RideMatching

\* "Ride is already assigned to a driver", "Driver is not available": a driver is
\* assigned only to a ride that has none, and only one who has no ride himself.
AssignedAsChecked ==
  [][\A r \in Rides : ride'[r].driver # ride[r].driver =>
       ride[r].driver = None /\ \A s \in Rides : ride[s].driver # ride'[r].driver]_vars

\* "OFFER RETRIED": an offer the driver is sent again is one to answer, so its
\* row is not EXPIRED.
SentOfferIsOpen ==
  [][SendDriverOffer => offer[worker.ride][worker.driver].status # "EXPIRED"]_vars
=============================================================================
