----------------------------- MODULE RideMatching -----------------------------
(***************************************************************************)
(* Ride matching as a whole: the worker, the requests, the clock and the   *)
(* crash of the one process that runs them all, and what they promise.     *)
(***************************************************************************)
EXTENDS MatchingWorker, RideRequests

\* The process dies: requests and handler are gone, rows and jobs are not.
\* BullMQ finds the active job stalled and hands it out again, once.
Crash ==
  /\ count.crashes < MaxCrashes
  /\ count' = [count EXCEPT !.crashes = @ + 1]
  /\ request' = [q \in Requests |-> IdleRequest]
  /\ worker' = IdleWorker
  /\ CASE worker.step = "idle" -> UNCHANGED jobs
       [] worker.step = "resume" ->
            /\ timeoutJob' = [timeoutJob EXCEPT ![worker.ride][worker.driver] = now]
            /\ UNCHANGED matchJobs
       [] OTHER ->
            /\ AddMatchingJob(worker.ride, 0)
            /\ UNCHANGED timeoutJob
  /\ UNCHANGED <<now, rows, told>>

Next ==
  \/ Tick
  \/ WorkerStep
  \/ WorkerFault
  \/ \E q \in Requests : RequestStart(q) \/ RequestStep(q) \/ RequestFails(q)
  \/ Crash

Spec == Init /\ [][Next]_vars

(***************************************************************************)
(* Time passes, the worker takes what is due and ends what it has begun,   *)
(* and so does the server with a request.  No client has to do anything,   *)
(* and nothing has to fail.                                                *)
(***************************************************************************)
Fairness ==
  /\ WF_vars(Tick)
  /\ WF_vars(WorkerStep)
  /\ \A q \in Requests : WF_vars(RequestStep(q))

FairSpec == Spec /\ Fairness

-----------------------------------------------------------------------------
Worker == [step : WorkerSteps, ride : Rides \union {None}, driver : Drivers \union {None},
           left : SUBSET Drivers, until : Time \union {Null}, plan : Plans,
           final : Time \union {Null}]
Request == [step : RequestSteps, ride : Rides \union {None}, driver : Drivers \union {None},
            at : Time \union {Null}, to : OfferStatuses \union DriverStatuses]

RowsOK ==
  /\ ride \in [Rides -> RideRow]
  /\ offer \in [Rides -> [Drivers -> OfferRow]]
  /\ driver \in [Drivers -> DriverStatuses]

JobsOK ==
  /\ matchJobs \in [Rides -> [Time -> Nat]]
  /\ timeoutJob \in [Rides -> [Drivers -> Time \union {Null}]]

WorkerOK ==
  /\ worker \in Worker
  /\ worker.step # "idle" => worker.ride \in Rides
  /\ worker.step \in {"offer", "write", "schedule", "resume"} => worker.driver \in Drivers
  /\ worker.step \in {"write", "schedule"} => worker.final \in Time

RequestOK(q) ==
  /\ request[q].step \in {"enqueue", "retry"} => request[q].ride \in Rides
  /\ request[q].step = "retry" => request[q].at \in Time
  /\ request[q].step \in {"acceptOffer", "acceptCommit", "acceptRoute", "rejectCommit"} =>
       request[q].ride \in Rides /\ request[q].driver \in Drivers
  /\ request[q].step = "rejectCommit" => request[q].to \in {"REJECTED", "EXPIRED"}
  /\ request[q].step = "status" =>
       request[q].driver \in Drivers /\ request[q].to \in DriverStatuses

RequestsOK == request \in [Requests -> Request] /\ \A q \in Requests : RequestOK(q)

BooksOK ==
  /\ sent \subseteq Rides \X Drivers
  /\ announced \subseteq Rides
  /\ count \in [retries : Nat, rejects : Nat, changes : Nat, faults : Nat, crashes : Nat]

\* Type invariant: every row, job, handler and request is one the code can
\* hold, and a step that works on a ride, a driver or a time has one.
TypeOK == now \in Time /\ RowsOK /\ JobsOK /\ WorkerOK /\ RequestsOK /\ BooksOK

-----------------------------------------------------------------------------
(***************************************************************************)
(* What holds however requests, worker, faults and crashes interleave.     *)
(***************************************************************************)

\* A ride has a driver exactly when it is accepted, although retryRide and
\* acceptRideOffer write the same row from snapshots that may be stale: the
\* flush of retryRide must not write the status it has loaded.
AssignedIffAccepted ==
  \A r \in Rides : ride[r].status = "accepted" <=> ride[r].driver # None

\* An ACCEPTED offer belongs to an accepted ride: the rows are written by one
\* transaction, and nothing brings the ride back to the search.
AcceptedOfferHasAcceptedRide ==
  \A r \in Rides, d \in Drivers :
    offer[r][d].status = "ACCEPTED" => ride[r].status = "accepted"

-----------------------------------------------------------------------------
(***************************************************************************)
(* What holds while one chain of jobs drives each search.  A second chain  *)
(* comes with a retry by the user, a fault or a crash; a reject does not   *)
(* begin one, but it ends the one there is.                                *)
(***************************************************************************)
Steady == count.retries = 0 /\ count.faults = 0 /\ count.crashes = 0

Unrejected == count.rejects = 0

Undisturbed == Steady /\ Unrejected

\* The ride is offered to one driver at a time: the worker moves on to the next
\* driver only when the offer before has run out.  A reject brings no other driver
\* an offer.
OneOfferAtATime ==
  Steady =>
    \A r \in Rides : \A d, e \in Drivers :
      offer[r][d].status = "PENDING" /\ offer[r][e].status = "PENDING" => d = e

HasMatchingJob(r) == \E t \in Time : matchJobs[r][t] > 0

\* A ride in its search window is never forgotten: a matching job waits for it,
\* the worker is on it, the timeout of its PENDING offer will bring it back, or
\* createRide is about to add its first job.
SearchGoesOn ==
  Undisturbed =>
    \A r \in Rides : Searching(r) /\ InWindow(r) =>
      \/ HasMatchingJob(r)
      \/ worker.step # "idle" /\ worker.ride = r
      \/ \E d \in Drivers : offer[r][d].status = "PENDING" /\ timeoutJob[r][d] # Null
      \/ \E q \in Requests : request[q].step = "enqueue" /\ request[q].ride = r

\* The timeout of a PENDING offer never comes before the offer has run out:
\* a job that fires early changes nothing, and there is no second one.  The job that
\* a rejected offer leaves behind is not there when the driver is asked again.
TimeoutAfterExpiry ==
  Steady =>
    \A r \in Rides, d \in Drivers :
      offer[r][d].status = "PENDING" =>
        \/ timeoutJob[r][d] # Null /\ timeoutJob[r][d] >= offer[r][d].expires
        \/ worker.step = "schedule" /\ worker.ride = r /\ worker.driver = d

\* What keeps the search of a ride going: the request that is to add its first
\* job, a matching job, the timeout job of an offer, or the handler of the worker.
Carriers(r) ==
  {<<"request", q>> : q \in {p \in Requests : request[p].step = "enqueue" /\ request[p].ride = r}}
    \union {<<"job", t>> : t \in {u \in Time : matchJobs[r][u] > 0}}
    \union {<<"timeout", d>> : d \in {e \in Drivers : timeoutJob[r][e] # Null}}
    \union {<<"worker", s>> : s \in {w \in {r} : worker.step # "idle" /\ worker.ride = r}}

\* The strengthening of the three properties above: each search is handed from
\* one carrier to the next and there are never two, none before the ride is
\* requested, and, unless somebody has rejected, one while the window is open, ...
OneCarrier ==
  \A r \in Rides :
    /\ \A a, b \in Carriers(r) : a = b
    /\ \A t \in Time : matchJobs[r][t] <= 1
    /\ ride[r].status = "none" => Carriers(r) = {}
    /\ Unrejected /\ Searching(r) /\ InWindow(r) => Carriers(r) # {}

\* ... an offer is PENDING only while its timeout job is the carrier or is about
\* to be added, and that job is left over by an accept or a reject only, ...
OfferHasTimeout ==
  /\ \A r \in Rides, d \in Drivers :
       /\ offer[r][d].status = "PENDING" =>
            \/ timeoutJob[r][d] # Null /\ timeoutJob[r][d] >= offer[r][d].expires
            \/ /\ worker.step = "schedule" /\ worker.ride = r /\ worker.driver = d
               /\ worker.final = offer[r][d].expires
       /\ Unrejected /\ timeoutJob[r][d] # Null => offer[r][d].status \in {"PENDING", "ACCEPTED"}
  /\ Unrejected /\ worker.step = "schedule" =>
       offer[worker.ride][worker.driver].status \in {"PENDING", "ACCEPTED"}

\* ... and the worker, never in its error path or before a PENDING row that is past
\* its time, knows the window of the ride it works on.
WorkerOnTrack ==
  /\ worker.step # "recover"
  /\ worker.step = "write" => worker.plan \in {"insert", "retry"}
  /\ worker.step \in {"find", "loop", "offer", "write", "schedule"} /\ Searching(worker.ride) =>
       worker.until = ride[worker.ride].expires
  /\ \A q \in Requests : /\ request[q].step # "retry"
                         /\ Unrejected => request[q].step # "rejectCommit"

SearchInv == Steady => OneCarrier /\ OfferHasTimeout /\ WorkerOnTrack

\* No offer outlives the search of its ride, so that no timeout is the only
\* thing left of a search that is over.  Two retries at once may write their
\* windows in the wrong order.
OfferWithinWindow ==
  count.retries <= 1 =>
    \A r \in Rides, d \in Drivers :
      Searching(r) /\ offer[r][d].status = "PENDING" => offer[r][d].expires <= ride[r].expires

\* The strengthening of OfferWithinWindow that every step preserves: no handler
\* or request is on a ride that has not been requested, ...
NothingBeforeRide ==
  \A r \in Rides : ride[r].status = "none" =>
    /\ \A d \in Drivers : offer[r][d].status = "none"
    /\ worker.step # "idle" => worker.ride # r
    /\ \A q \in Requests : request[q].step \in {"retry", "rejectCommit"} => request[q].ride # r

\* ... no window, in the row or about to be written, is longer than Window, ...
WindowBounded ==
  /\ \A r \in Rides : Searching(r) => ride[r].expires \in Time /\ ride[r].expires <= now + Window
  /\ \A q \in Requests : request[q].step = "retry" =>
       request[q].at <= now + Window /\ count.retries >= 1

\* ... and a retry that is the only one can only move the end of the window on,
\* so that what createOffer has computed from the row it has read still holds.
WindowOnlyGrows ==
  count.retries <= 1 =>
    /\ \A p, q \in Requests : request[p].step = "retry" /\ request[q].step = "retry" => p = q
    /\ \A q \in Requests : request[q].step = "retry" /\ Searching(request[q].ride) =>
         ride[request[q].ride].expires <= request[q].at
    /\ worker.step \in {"write", "schedule"} /\ Searching(worker.ride) =>
         worker.final <= ride[worker.ride].expires

WindowInv == NothingBeforeRide /\ WindowBounded /\ WindowOnlyGrows /\ OfferWithinWindow

\* Every PENDING offer is answered or expires.
PendingResolves ==
  \A r \in Rides, d \in Drivers :
    Undisturbed /\ offer[r][d].status = "PENDING" ~>
      ~Undisturbed \/ offer[r][d].status # "PENDING"

\* The user of an accepted ride is told of the driver, unless something fails:
\* once the accept is committed a lost route or a crash leaves the ride accepted
\* and nobody told.
AssignmentIsAnnounced ==
  \A r \in Rides :
    ride[r].status = "accepted" ~> r \in announced \/ count.faults > 0 \/ count.crashes > 0

\* No handler goes on for ever: the clients' retries are bounded, so every search
\* window closes, and then the queue empties, whatever faults and crashes come.
QueueDrains ==
  <>[](\A r \in Rides : ~HasMatchingJob(r) /\ \A d \in Drivers : timeoutJob[r][d] = Null)

-----------------------------------------------------------------------------
(***************************************************************************)
(* What acceptRideOffer is for, as an abstract specification.  The code    *)
(* keeps to it while requests do not overlap, and to a weaker one however  *)
(* they do.                                                                *)
(***************************************************************************)
Assignment == INSTANCE RideAssignment WITH
  requested <- {r \in Rides : ride[r].status # "none"},
  assigned  <- [r \in Rides |-> ride[r].driver],
  free      <- {d \in Drivers : driver[d] = "AVAILABLE"}

\* Rides get one driver each, once, drivers one ride each, and an assigned
\* driver is not free: every step of the code is such an assignment, a new
\* ride, or nothing, as far as the ride and driver rows show.
ImplementsAssignment == Assignment!Spec

\* When requests do overlap, this is left: whatever the worker, retries, rejects,
\* faults and crashes do, a ride gets a driver, or another one, only by an accept
\* that has read it without a driver, and keeps the one it has when no such accept
\* is left.
Contest == INSTANCE ContestedAssignment WITH
  requested <- {r \in Rides : ride[r].status # "none"},
  assigned  <- [r \in Rides |-> ride[r].driver],
  checked   <- {<<request[q].ride, request[q].driver>> :
                  q \in {p \in Requests : request[p].step = "acceptCommit"}}

ImplementsContest == Contest!Spec
=============================================================================
