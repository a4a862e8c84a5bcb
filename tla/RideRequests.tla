----------------------------- MODULE RideRequests -----------------------------
(***************************************************************************)
(* The requests that reach the rows of ride matching: RidesService behind  *)
(* POST rides, POST rides/:rideId/retry and the socket messages            *)
(* ride:accept and ride:reject, and DriversService.updateStatus behind     *)
(* PATCH drivers/status.  Each request is a read step and a write step,    *)
(* and any number of them are in flight together, beside the worker.       *)
(* A request that ends in an error without having written anything         *)
(* changes nothing and is no step, unless it had been read half-way.       *)
(***************************************************************************)
EXTENDS RideMatchingQueue

Begin(q, req) ==
  /\ request[q] = IdleRequest
  /\ request' = [request EXCEPT ![q] = req]

Continue(q, step) == request' = [request EXCEPT ![q].step = step]

End(q) == request' = [request EXCEPT ![q] = IdleRequest]

\* createRide: the row is committed before its first job is added.
CreateRide(q, r) ==
  /\ ride[r].status = "none"
  /\ now + Window <= MaxTime
  /\ ride' = [ride EXCEPT ![r] = [status |-> "searching", driver |-> None,
                                  expires |-> now + Window]]
  /\ Begin(q, [IdleRequest EXCEPT !.step = "enqueue", !.ride = r])
  /\ UNCHANGED <<now, offer, driver, jobs, worker, told, count>>

\* retryRide reads the ride; a window that is still open does not stop it.
RetryRide(q, r) ==
  /\ Open(r)
  /\ now + Window <= MaxTime
  /\ count.retries < MaxRetries
  /\ count' = [count EXCEPT !.retries = @ + 1]
  /\ Begin(q, [IdleRequest EXCEPT !.step = "retry", !.ride = r, !.at = now + Window])
  /\ UNCHANGED <<now, rows, jobs, worker, told>>

\* Mutant: the flush writes the status too.
RetryRideFlushStatus(q) ==
  /\ request[q].step = "retry"
  /\ ride' = [ride EXCEPT ![request[q].ride].expires = request[q].at,
                          ![request[q].ride].status = "searching"]
  /\ Continue(q, "enqueue")
  /\ UNCHANGED <<now, offer, driver, jobs, worker, told, count>>

\* Mutant: the flush writes the whole row as it was loaded.
RetryRideFlushRow(q) ==
  /\ request[q].step = "retry"
  /\ ride' = [ride EXCEPT ![request[q].ride] =
                [status |-> "searching", driver |-> None, expires |-> request[q].at]]
  /\ Continue(q, "enqueue")
  /\ UNCHANGED <<now, offer, driver, jobs, worker, told, count>>

\* Its flush writes the two search timestamps: the status it sets again is the
\* one it has loaded.
RetryRideFlush(q) ==
  /\ request[q].step = "retry"
  /\ ride' = [ride EXCEPT ![request[q].ride].expires = request[q].at]
  /\ Continue(q, "enqueue")
  /\ UNCHANGED <<now, offer, driver, jobs, worker, told, count>>

\* The last statement of createRide and retryRide.
Enqueue(q) ==
  /\ request[q].step = "enqueue"
  /\ AddMatchingJob(request[q].ride, 0)
  /\ End(q)
  /\ UNCHANGED <<now, rows, timeoutJob, worker, told, count>>

\* acceptRideOffer opens its transaction and reads the driver.  The driver app
\* learns the id of an offer from the ride:offer event.
AcceptRideOffer(q, r, d) ==
  /\ <<r, d>> \in sent
  /\ driver[d] = "AVAILABLE"
  /\ Begin(q, [IdleRequest EXCEPT !.step = "acceptOffer", !.ride = r, !.driver = d])
  /\ UNCHANGED <<now, rows, jobs, worker, told, count>>

\* Mutant: the ride joined to the offer is not checked.
AcceptReadOfferOnly(q) ==
  /\ request[q].step = "acceptOffer"
  /\ Live(request[q].ride, request[q].driver)
  /\ Continue(q, "acceptCommit")
  /\ UNCHANGED <<now, rows, jobs, worker, told, count>>

\* It reads the offer and, joined to it, the ride.
AcceptReadOffer(q) ==
  LET r == request[q].ride
      d == request[q].driver
  IN  /\ request[q].step = "acceptOffer"
      /\ Live(r, d) /\ Open(r) /\ InWindow(r)
      /\ Continue(q, "acceptCommit")
      /\ UNCHANGED <<now, rows, jobs, worker, told, count>>

\* A PENDING offer past its time: the flush of EXPIRED and the exception are in
\* one transaction, which rolls back.
AcceptExpired(q) ==
  LET row == offer[request[q].ride][request[q].driver]
  IN  /\ request[q].step = "acceptOffer"
      /\ row.status = "PENDING" /\ row.expires <= now
      /\ End(q)
      /\ UNCHANGED <<now, rows, jobs, worker, told, count>>

\* Every other check that fails.
AcceptRefused(q) ==
  LET r == request[q].ride
      d == request[q].driver
  IN  /\ request[q].step = "acceptOffer"
      /\ \/ offer[r][d].status # "PENDING"
         \/ Live(r, d) /\ ~(Open(r) /\ InWindow(r))
      /\ End(q)
      /\ UNCHANGED <<now, rows, jobs, worker, told, count>>

\* Mutant: the answer comes with the commit.
AcceptCommitAnswered(q) ==
  LET r == request[q].ride
      d == request[q].driver
  IN  /\ request[q].step = "acceptCommit"
      /\ offer' = [offer EXCEPT ![r][d].status = "ACCEPTED"]
      /\ ride' = [ride EXCEPT ![r] = [status |-> "accepted", driver |-> d, expires |-> Null]]
      /\ driver' = [driver EXCEPT ![d] = "BUSY"]
      /\ End(q)
      /\ UNCHANGED <<now, jobs, worker, told, count>>

\* Flush and commit.  The updates go by id, with no condition on what the rows
\* have become.  Two transactions that touch the same row commit one after the
\* other, so the three updates are one step.
AcceptCommit(q) ==
  LET r == request[q].ride
      d == request[q].driver
  IN  /\ request[q].step = "acceptCommit"
      /\ offer' = [offer EXCEPT ![r][d].status = "ACCEPTED"]
      /\ ride' = [ride EXCEPT ![r] = [status |-> "accepted", driver |-> d, expires |-> Null]]
      /\ driver' = [driver EXCEPT ![d] = "BUSY"]
      /\ Continue(q, "acceptRoute")
      /\ UNCHANGED <<now, jobs, worker, told, count>>

\* The two routes are there: the gateway tells the user and the ride's room.
AcceptAnnounce(q) ==
  /\ request[q].step = "acceptRoute"
  /\ announced' = announced \union {request[q].ride}
  /\ End(q)
  /\ UNCHANGED <<now, rows, jobs, worker, sent, count>>

\* rejectOffer reads the offer and decides what to write.
RejectOffer(q, r, d) ==
  /\ <<r, d>> \in sent
  /\ offer[r][d].status = "PENDING"
  /\ count.rejects < MaxRejects
  /\ count' = [count EXCEPT !.rejects = @ + 1]
  /\ Begin(q, [IdleRequest EXCEPT !.step = "rejectCommit", !.ride = r, !.driver = d,
                                  !.to = IF Live(r, d) THEN "REJECTED" ELSE "EXPIRED"])
  /\ UNCHANGED <<now, rows, jobs, worker, told>>

\* No transaction here: the EXPIRED of the error path is committed.  Nothing
\* resumes the search.
RejectCommit(q) ==
  /\ request[q].step = "rejectCommit"
  /\ offer' = [offer EXCEPT ![request[q].ride][request[q].driver].status = request[q].to]
  /\ End(q)
  /\ UNCHANGED <<now, ride, driver, jobs, worker, told, count>>

\* updateStatus: any status, whatever the driver is doing.  The same status
\* again is not a dirty column and writes nothing.
UpdateStatus(q, d, s) ==
  /\ driver[d] # s
  /\ count.changes < MaxStatusChanges
  /\ count' = [count EXCEPT !.changes = @ + 1]
  /\ Begin(q, [IdleRequest EXCEPT !.step = "status", !.driver = d, !.to = s])
  /\ UNCHANGED <<now, rows, jobs, worker, told>>

UpdateStatusFlush(q) ==
  /\ request[q].step = "status"
  /\ driver' = [driver EXCEPT ![request[q].driver] = request[q].to]
  /\ End(q)
  /\ UNCHANGED <<now, ride, offer, jobs, worker, told, count>>

\* PostgreSQL, Redis or OSRM fails under a request: it ends in an error, and
\* what it has committed stays.
RequestFails(q) ==
  /\ request[q].step # "idle"
  /\ count.faults < MaxFaults
  /\ count' = [count EXCEPT !.faults = @ + 1]
  /\ End(q)
  /\ UNCHANGED <<now, rows, jobs, worker, told>>

\* What clients may start.
RequestStart(q) ==
  \/ \E r \in Rides : CreateRide(q, r) \/ RetryRide(q, r)
  \/ \E r \in Rides, d \in Drivers : AcceptRideOffer(q, r, d) \/ RejectOffer(q, r, d)
  \/ \E d \in Drivers, s \in DriverStatuses : UpdateStatus(q, d, s)

\* What the server does with a request it has taken.
RequestStep(q) ==
  \/ RetryRideFlush(q)
  \/ Enqueue(q)
  \/ AcceptReadOffer(q)
  \/ AcceptExpired(q)
  \/ AcceptRefused(q)
  \/ AcceptCommit(q)
  \/ AcceptAnnounce(q)
  \/ RejectCommit(q)
  \/ UpdateStatusFlush(q)
=============================================================================
