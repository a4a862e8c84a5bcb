------------------------------ MODULE RideStore ------------------------------
(***************************************************************************)
(* The state that ride matching works on: the rows of the tables rides,    *)
(* ride_driver_offers and drivers, the delayed jobs of the BullMQ queue    *)
(* "ride-matching", the handler the worker is in, the requests in flight,  *)
(* and the clock.                                                          *)
(*                                                                         *)
(* PostgreSQL runs at READ COMMITTED and no entity has a version column:   *)
(* a handler reads a committed row in one step and writes it in a later    *)
(* one.  A flush writes the columns that differ from what was loaded,      *)
(* whatever the row has become meanwhile.                                  *)
(***************************************************************************)
EXTENDS Integers, FiniteSets

CONSTANTS
  Rides, Drivers,      \* rows that can exist
  Requests,            \* slots for HTTP and socket requests being served
  None,                \* SQL null in rides.driver_id
  Window,              \* MATCHING_WINDOW_MS   (30 s)
  Interval,            \* MATCHING_INTERVAL_MS (5 s)
  OfferTimeout,        \* OFFER_TIMEOUT_MS     (10 s)
  MaxTime,             \* bound: the clock stops here
  MaxRetries,          \* bound: POST rides/:rideId/retry calls
  MaxRejects,          \* bound: ride:reject messages
  MaxStatusChanges,    \* bound: PATCH drivers/status calls
  MaxFaults,           \* bound: failures of PostgreSQL, Redis or OSRM
  MaxCrashes           \* bound: crashes of the process

ASSUME NoneAssumption == None \notin Rides \union Drivers
ASSUME TimingAssumption ==
  /\ Window \in Nat \ {0}
  /\ Interval \in Nat \ {0}
  /\ OfferTimeout \in Nat \ {0}
  /\ MaxTime \in Nat
ASSUME BoundAssumption ==
  /\ MaxRetries \in Nat
  /\ MaxRejects \in Nat
  /\ MaxStatusChanges \in Nat
  /\ MaxFaults \in Nat
  /\ MaxCrashes \in Nat

VARIABLES
  now,         \* Date.now()
  ride,        \* table rides
  offer,       \* table ride_driver_offers, keyed by its unique (ride_id, driver_id)
  driver,      \* drivers.status
  matchJobs,   \* how many find-searching-rides jobs of a ride fall due at a time
  timeoutJob,  \* when job ride-offer-timeout-<offerId> falls due, or Null
  worker,      \* the handler MatchingWorker is in
  request,     \* the requests in flight
  sent,        \* the offers whose ride:offer event reached the driver
  announced,   \* the rides whose user was told of the assigned driver
  count        \* how much of each bound is used

rows  == <<ride, offer, driver>>
jobs  == <<matchJobs, timeoutJob>>
told  == <<sent, announced>>
vars  == <<now, ride, offer, driver, matchJobs, timeoutJob, worker, request,
           sent, announced, count>>

Null == -1             \* a null Date, an absent job
Time == 0 .. MaxTime

\* "none" stands for a row that has not been inserted.
RideStatuses   == {"none", "searching", "accepted"}
OfferStatuses  == {"none", "PENDING", "ACCEPTED", "REJECTED", "EXPIRED"}
DriverStatuses == {"OFFLINE", "AVAILABLE", "BUSY"}

\* search_started_at and search_expires_at are written together; the code only
\* tests the first for null, so "expires" stands for both.
RideRow  == [status : RideStatuses, driver : Drivers \union {None},
             expires : Time \union {Null}]
OfferRow == [status : OfferStatuses, expires : Time \union {Null}]

Earlier(a, b) == IF a <= b THEN a ELSE b
Later(a, b)   == IF a <= b THEN b ELSE a

\* getMatchingState(...).searching
Searching(r) == ride[r].status = "searching"

\* Searching and not assigned: what retryRide, createOffer and acceptRideOffer
\* ask of the ride they have read.
Open(r) == ride[r].status = "searching" /\ ride[r].driver = None

\* Mutant: only the presence of a window is checked.
InWindowUnchecked(r) == ride[r].expires # Null

\* The ride has a search window, and it is not over.
InWindow(r) == ride[r].expires # Null /\ now < ride[r].expires

\* An offer a driver may still answer.
Live(r, d) == offer[r][d].status = "PENDING" /\ now < offer[r][d].expires

\* What a handler is in the middle of.
WorkerSteps  == {"idle", "find", "loop", "offer", "write", "schedule",
                 "recover", "resume"}
RequestSteps == {"idle", "enqueue", "retry", "acceptOffer", "acceptCommit",
                 "acceptRoute", "rejectCommit", "status"}
Plans == {"none", "insert", "retry", "stale"}

IdleWorker  == [step |-> "idle", ride |-> None, driver |-> None, left |-> {},
                until |-> Null, plan |-> "none", final |-> Null]
IdleRequest == [step |-> "idle", ride |-> None, driver |-> None, at |-> Null,
                to |-> "none"]

Init ==
  /\ now = 0
  /\ ride = [r \in Rides |-> [status |-> "none", driver |-> None, expires |-> Null]]
  /\ offer = [r \in Rides |-> [d \in Drivers |-> [status |-> "none", expires |-> Null]]]
  /\ driver = [d \in Drivers |-> "AVAILABLE"]
  /\ matchJobs = [r \in Rides |-> [t \in Time |-> 0]]
  /\ timeoutJob = [r \in Rides |-> [d \in Drivers |-> Null]]
  /\ worker = IdleWorker
  /\ request = [q \in Requests |-> IdleRequest]
  /\ sent = {}
  /\ announced = {}
  /\ count = [retries |-> 0, rejects |-> 0, changes |-> 0, faults |-> 0, crashes |-> 0]

\* The clock runs while handlers and requests are anywhere in their code.
Tick ==
  /\ now < MaxTime
  /\ now' = now + 1
  /\ UNCHANGED <<rows, jobs, worker, request, told, count>>
=============================================================================
