--------------------------- MODULE RideOfferService ---------------------------
(***************************************************************************)
(* RideOfferService as a component: what its methods do to the rows of a   *)
(* ride and its offers, whoever calls them.  The worker calls createOffer  *)
(* and expireOfferIfPending, from one handler at a time.  acceptOffer,     *)
(* rejectOffer, findPendingOffer and handleOfferTimeout have no caller in  *)
(* the repository: the gateway accepts and rejects through RidesService,   *)
(* which RideRequests models, with other means and other results.  Here    *)
(* any number of drivers call them at once.                                *)
(*                                                                         *)
(* acceptOffer locks the row of the ride (SELECT ... FOR UPDATE) and holds *)
(* the lock until its transaction ends; every other answer to an offer is  *)
(* one UPDATE with the condition that the offer is still PENDING.          *)
(***************************************************************************)
EXTENDS Integers

CONSTANTS
  Rides, Drivers,
  Calls,               \* slots for calls of acceptOffer
  None,                \* SQL null in rides.driver_id, a lock nobody holds
  Window,              \* MATCHING_WINDOW_MS
  OfferTimeout,        \* OFFER_TIMEOUT_MS
  MaxTime              \* bound: the clock stops here

ASSUME NoneAssumption == None \notin Rides \union Drivers \union Calls
ASSUME TimingAssumption ==
  /\ Window \in Nat \ {0}
  /\ OfferTimeout \in Nat \ {0}
  /\ MaxTime \in Nat

VARIABLES
  now,
  ride,        \* table rides
  offer,       \* table ride_driver_offers
  creating,    \* the call of createOffer in progress
  call,        \* the calls of acceptOffer in progress
  lock         \* which of them holds the lock on the row of a ride

vars == <<now, ride, offer, creating, call, lock>>

Null == -1
Time == 0 .. MaxTime

RideStatuses  == {"none", "searching", "accepted"}
OfferStatuses == {"none", "PENDING", "ACCEPTED", "REJECTED", "EXPIRED"}

RideRow  == [status : RideStatuses, driver : Drivers \union {None},
             expires : Time \union {Null}]
OfferRow == [status : OfferStatuses, expires : Time \union {Null}]

NotCreating == [plan |-> "none", ride |-> None, driver |-> None, final |-> Null]
NoCall      == [step |-> "idle", ride |-> None, driver |-> None, at |-> Null]

Init ==
  /\ now = 0
  /\ ride = [r \in Rides |-> [status |-> "none", driver |-> None, expires |-> Null]]
  /\ offer = [r \in Rides |-> [d \in Drivers |-> [status |-> "none", expires |-> Null]]]
  /\ creating = NotCreating
  /\ call = [k \in Calls |-> NoCall]
  /\ lock = [r \in Rides |-> None]

Tick ==
  /\ now < MaxTime
  /\ now' = now + 1
  /\ UNCHANGED <<ride, offer, creating, call, lock>>

\* RidesService gives a ride a search window, when it is requested and again
\* when its user retries.  The update waits for the lock on the row.
SearchWindow(r) ==
  /\ lock[r] = None
  /\ now + Window <= MaxTime
  /\ ride' = IF ride[r].status = "none"
             THEN [ride EXCEPT ![r] = [status |-> "searching", driver |-> None,
                                       expires |-> now + Window]]
             ELSE [ride EXCEPT ![r].expires = now + Window]
  /\ UNCHANGED <<now, offer, creating, call, lock>>

Open(r) == ride[r].status = "searching" /\ ride[r].driver = None

PlanFor(row) ==
  CASE row.status = "none" -> "insert"
    [] row.status \in {"EXPIRED", "REJECTED"} -> "retry"
    [] row.status = "PENDING" /\ row.expires <= now -> "stale"
    [] OTHER -> "none"

\* Mutant: the offer may outlive the window.
CreateOfferUncapped(r, d) ==
  /\ creating = NotCreating
  /\ Open(r) /\ now < ride[r].expires
  /\ PlanFor(offer[r][d]) # "none"
  /\ creating' = [plan |-> PlanFor(offer[r][d]), ride |-> r, driver |-> d,
                  final |-> now + OfferTimeout]
  /\ UNCHANGED <<now, ride, offer, call, lock>>

\* createOffer reads the ride, without a lock, the driver, who is any here, and
\* their offer.
CreateOffer(r, d) ==
  /\ creating = NotCreating
  /\ Open(r) /\ now < ride[r].expires
  /\ PlanFor(offer[r][d]) # "none"
  /\ creating' = [plan |-> PlanFor(offer[r][d]), ride |-> r, driver |-> d,
                  final |-> IF now + OfferTimeout <= ride[r].expires
                            THEN now + OfferTimeout ELSE ride[r].expires]
  /\ UNCHANGED <<now, ride, call, offer, lock>>

\* Its insert, or the flush of a row found EXPIRED or REJECTED, by id.
WriteOffer ==
  /\ creating.plan \in {"insert", "retry"}
  /\ offer' = [offer EXCEPT ![creating.ride][creating.driver] =
                 [status |-> "PENDING", expires |-> creating.final]]
  /\ creating' = NotCreating
  /\ UNCHANGED <<now, ride, call, lock>>

\* A row found PENDING past its time becomes EXPIRED, if it is still PENDING;
\* the flush that follows writes only its new time.
WriteStaleOffer ==
  /\ creating.plan = "stale"
  /\ offer' = IF offer[creating.ride][creating.driver].status = "PENDING"
              THEN [offer EXCEPT ![creating.ride][creating.driver] =
                      [status |-> "EXPIRED", expires |-> creating.final]]
              ELSE offer
  /\ creating' = NotCreating
  /\ UNCHANGED <<now, ride, call, lock>>

\* PostgreSQL fails under createOffer, or the process dies.
CreateFails ==
  /\ creating # NotCreating
  /\ creating' = NotCreating
  /\ UNCHANGED <<now, ride, offer, call, lock>>

\* expireOfferIfPending, also by way of handleOfferTimeout, and findPendingOffer
\* when what it finds has run out.
ExpireOffer(r, d) ==
  /\ offer[r][d].status = "PENDING"
  /\ offer[r][d].expires <= now
  /\ offer' = [offer EXCEPT ![r][d].status = "EXPIRED"]
  /\ UNCHANGED <<now, ride, creating, call, lock>>

RejectOffer(r, d) ==
  /\ offer[r][d].status = "PENDING"
  /\ now < offer[r][d].expires
  /\ offer' = [offer EXCEPT ![r][d].status = "REJECTED"]
  /\ UNCHANGED <<now, ride, creating, call, lock>>

\* acceptOffer looks at the clock before it asks for the lock.
AcceptOffer(k, r, d) ==
  /\ call[k] = NoCall
  /\ offer[r][d].status # "none"
  /\ call' = [call EXCEPT ![k] = [step |-> "begin", ride |-> r, driver |-> d, at |-> now]]
  /\ UNCHANGED <<now, ride, offer, creating, lock>>

\* What acceptOffer asks of the ride it has read: a null window passes.
StillSearched(k) ==
  LET row == ride[call[k].ride]
  IN  Open(call[k].ride) /\ (row.expires = Null \/ call[k].at < row.expires)

\* Mutant: the ride is read without the lock.
AcceptLockNone(k) ==
  /\ call[k].step = "begin"
  /\ call' = [call EXCEPT ![k] = IF StillSearched(k) THEN [@ EXCEPT !.step = "locked"] ELSE NoCall]
  /\ UNCHANGED <<now, ride, offer, creating, lock>>

\* The row of the ride is read under its lock, once nobody else has it.  When
\* the ride is no longer searched for, the transaction ends with false.
AcceptLock(k) ==
  /\ call[k].step = "begin"
  /\ lock[call[k].ride] = None
  /\ IF StillSearched(k)
     THEN /\ lock' = [lock EXCEPT ![call[k].ride] = k]
          /\ call' = [call EXCEPT ![k].step = "locked"]
     ELSE /\ call' = [call EXCEPT ![k] = NoCall]
          /\ UNCHANGED lock
  /\ UNCHANGED <<now, ride, offer, creating>>

Unlock(k) ==
  /\ lock' = [r \in Rides |-> IF lock[r] = k THEN None ELSE lock[r]]
  /\ call' = [call EXCEPT ![k] = NoCall]

\* Mutant: the update of the offer has no condition on its status.
AcceptCommitAny(k) ==
  LET r == call[k].ride
      d == call[k].driver
  IN  /\ call[k].step = "locked"
      /\ offer' = [offer EXCEPT ![r][d].status = "ACCEPTED"]
      /\ ride' = [ride EXCEPT ![r].status = "accepted", ![r].driver = d]
      /\ Unlock(k)
      /\ UNCHANGED <<now, creating>>

\* The conditional update of the offer, the flush of the ride and the commit.
\* The window stays as it is.
AcceptCommit(k) ==
  LET r == call[k].ride
      d == call[k].driver
  IN  /\ call[k].step = "locked"
      /\ IF offer[r][d].status = "PENDING" /\ call[k].at < offer[r][d].expires
         THEN /\ offer' = [offer EXCEPT ![r][d].status = "ACCEPTED"]
              /\ ride' = [ride EXCEPT ![r].status = "accepted", ![r].driver = d]
         ELSE UNCHANGED <<offer, ride>>
      /\ Unlock(k)
      /\ UNCHANGED <<now, creating>>

\* PostgreSQL fails or the process dies: the transaction rolls back.
AcceptFails(k) ==
  /\ call[k].step # "idle"
  /\ Unlock(k)
  /\ UNCHANGED <<now, ride, offer, creating>>

Next ==
  \/ Tick
  \/ \E r \in Rides : SearchWindow(r)
  \/ \E r \in Rides, d \in Drivers :
       CreateOffer(r, d) \/ ExpireOffer(r, d) \/ RejectOffer(r, d)
  \/ WriteOffer \/ WriteStaleOffer \/ CreateFails
  \/ \E k \in Calls :
       \/ \E r \in Rides, d \in Drivers : AcceptOffer(k, r, d)
       \/ AcceptLock(k) \/ AcceptCommit(k) \/ AcceptFails(k)

Spec == Init /\ [][Next]_vars

-----------------------------------------------------------------------------
Creating == [plan : {"insert", "retry", "stale"}, ride : Rides, driver : Drivers, final : Time]
Call     == [step : {"begin", "locked"}, ride : Rides, driver : Drivers, at : Time]

\* Type invariant: rows the code can hold, and calls that name a ride, a driver
\* and a time.
TypeOK ==
  /\ now \in Time
  /\ ride \in [Rides -> RideRow]
  /\ offer \in [Rides -> [Drivers -> OfferRow]]
  /\ creating \in Creating \union {NotCreating}
  /\ call \in [Calls -> Call \union {NoCall}]
  /\ lock \in [Rides -> Calls \union {None}]

\* A call that has passed the checks of acceptOffer holds the lock, ...
LockHeld ==
  \A k \in Calls : call[k].step = "locked" => lock[call[k].ride] = k

\* ... so that what it has read of the ride still holds, ...
LockedIsOpen ==
  \A k \in Calls : call[k].step = "locked" => Open(call[k].ride)

\* ... and what createOffer is about to write over is an offer nobody has won:
\* only createOffer makes an offer PENDING, so none is won that was not.
PlanHolds ==
  creating.plan \in {"insert", "retry"} =>
    offer[creating.ride][creating.driver].status \in {"none", "EXPIRED", "REJECTED"}

\* An offer is ACCEPTED exactly when its driver is the driver of the ride,
\* however the calls of drivers, worker and timeouts overlap.  RidesService
\* keeps only half of this, AcceptedOfferHasAcceptedRide.
AcceptedIsAssigned ==
  \A r \in Rides, d \in Drivers :
    offer[r][d].status = "ACCEPTED" <=> ride[r].driver = d

OpenHasNoDriver ==
  \A r \in Rides : ride[r].status = "accepted" <=> ride[r].driver # None

\* The inductive invariant.
OfferInv == LockHeld /\ LockedIsOpen /\ PlanHolds /\ OpenHasNoDriver /\ AcceptedIsAssigned

-----------------------------------------------------------------------------
Answers == INSTANCE OfferAnswers WITH
  answer <- [r \in Rides |-> [d \in Drivers |->
               CASE offer[r][d].status = "PENDING"  -> "open"
                 [] offer[r][d].status = "ACCEPTED" -> "won"
                 [] OTHER -> "closed"]],
  assigned <- [r \in Rides |-> ride[r].driver]

\* At most one offer of a ride is ever won, for good, and its driver is the
\* driver of the ride: with the lock and the conditional updates every step of
\* the service is one of the steps of OfferAnswers, however calls overlap.
ImplementsOfferAnswers == Answers!Spec
=============================================================================
