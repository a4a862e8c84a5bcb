---------------------------- MODULE MatchingWorker ----------------------------
(***************************************************************************)
(* MatchingWorker: one handler at a time (BullMQ concurrency 1), cut at    *)
(* the awaits where what it has read can go stale.  Reads that follow one  *)
(* another with no write between them are one step when what another       *)
(* request does between them could as well be done right after.            *)
(*                                                                         *)
(* worker.step says what comes next:                                       *)
(*   find      findNearbyDrivers          loop      the next driver, or    *)
(*   offer     createOffer reads                    the check after the    *)
(*   write     createOffer writes                   last one               *)
(*   schedule  scheduleExpiration, then the ride:offer event               *)
(*   recover   the catch block of handleRideMatching                       *)
(*   resume    an offer has expired: search on                             *)
(***************************************************************************)
EXTENDS RideMatchingQueue

\* handleRideMatching up to findNearbyDrivers: a job for a ride that is no
\* longer searched for, or whose window is over, ends here.
StartMatching(r, t) ==
  /\ worker.step = "idle"
  /\ DueMatchingJob(r, t)
  /\ TakeMatchingJob(r, t)
  /\ worker' = IF Searching(r) /\ InWindow(r)
               THEN [IdleWorker EXCEPT !.step = "find", !.ride = r, !.until = ride[r].expires]
               ELSE IdleWorker
  /\ UNCHANGED <<now, rows, timeoutJob, request, told, count>>

\* The candidates of findNearbyDrivers, for a ride still searching: available
\* drivers, some of which are near enough and have a fresh location.
CandidateDrivers(r) == IF Open(r) THEN {d \in Drivers : driver[d] = "AVAILABLE"} ELSE {}

\* findNearbyDrivers drops the candidates it has no route for: any of them.
FindNearbyDrivers ==
  /\ worker.step = "find"
  /\ \E matches \in SUBSET CandidateDrivers(worker.ride) :
       worker' = [worker EXCEPT !.step = "loop", !.left = matches]
  /\ UNCHANGED <<now, rows, jobs, request, told, count>>

\* The loop reads state and timing again before each driver.  Drivers come in
\* the order of their routes, which is any order here.
NextDriver ==
  /\ worker.step = "loop"
  /\ IF Searching(worker.ride) /\ InWindow(worker.ride)
     THEN \E d \in worker.left :
            worker' = [worker EXCEPT !.step = "offer", !.driver = d, !.left = @ \ {d}]
     ELSE worker.left # {} /\ worker' = IdleWorker
  /\ UNCHANGED <<now, rows, jobs, request, told, count>>

SkipDriver == [worker EXCEPT !.step = "loop", !.driver = None, !.plan = "none", !.final = Null]

\* No driver was found, or every one was skipped: look again after the
\* interval while the window read at the start of the handler lasts.
Reschedule ==
  /\ worker.step = "loop"
  /\ worker.left = {}
  /\ IF now < worker.until
     THEN AddMatchingJob(worker.ride, Earlier(Interval, worker.until - now))
     ELSE UNCHANGED matchJobs
  /\ worker' = IdleWorker
  /\ UNCHANGED <<now, rows, timeoutJob, request, told, count>>

\* What createOffer does with the row it has found.
PlanFor(row) ==
  CASE row.status = "none" -> "insert"
    [] row.status \in {"EXPIRED", "REJECTED"} -> "retry"
    [] row.status = "PENDING" /\ row.expires <= now -> "stale"
    [] OTHER -> "none"

\* Mutant: the offer's time is not cut at the end of the window.
CreateOfferReadUncapped ==
  /\ worker.step = "offer"
  /\ LET r == worker.ride
         d == worker.driver
         plan == PlanFor(offer[r][d])
     IN  worker' = IF Open(r) /\ InWindow(r) /\ driver[d] = "AVAILABLE" /\ plan # "none"
                   THEN [worker EXCEPT !.step = "write", !.plan = plan, !.final = now + OfferTimeout]
                   ELSE SkipDriver
  /\ UNCHANGED <<now, rows, jobs, request, told, count>>

\* createOffer reads the ride, the driver and their offer, and skips the driver
\* or fixes when the offer will expire.
CreateOfferRead ==
  /\ worker.step = "offer"
  /\ LET r == worker.ride
         d == worker.driver
         plan == PlanFor(offer[r][d])
     IN  worker' = IF Open(r) /\ InWindow(r) /\ driver[d] = "AVAILABLE" /\ plan # "none"
                   THEN [worker EXCEPT !.step = "write", !.plan = plan,
                                       !.final = Earlier(now + OfferTimeout, ride[r].expires)]
                   ELSE SkipDriver
  /\ UNCHANGED <<now, rows, jobs, request, told, count>>

\* The insert, or the flush that makes an EXPIRED or REJECTED row PENDING again.
WriteOffer ==
  /\ worker.step = "write"
  /\ worker.plan \in {"insert", "retry"}
  /\ offer' = [offer EXCEPT ![worker.ride][worker.driver] =
                 [status |-> "PENDING", expires |-> worker.final]]
  /\ worker' = [worker EXCEPT !.step = "schedule"]
  /\ UNCHANGED <<now, ride, driver, jobs, request, told, count>>

\* A PENDING row past its time: the conditional update makes it EXPIRED.  The
\* entity was loaded as PENDING and is set to PENDING again, so the flush finds
\* only expires_at changed and the row stays EXPIRED.
WriteStaleOffer ==
  /\ worker.step = "write"
  /\ worker.plan = "stale"
  /\ IF offer[worker.ride][worker.driver].status = "PENDING"
     THEN /\ offer' = [offer EXCEPT ![worker.ride][worker.driver] =
                         [status |-> "EXPIRED", expires |-> worker.final]]
          /\ worker' = [worker EXCEPT !.step = "schedule"]
     ELSE /\ worker' = SkipDriver
          /\ UNCHANGED offer
  /\ UNCHANGED <<now, ride, driver, jobs, request, told, count>>

\* Mutant: the loop goes on to the next driver after an offer.
SendDriverOfferGoOn ==
  /\ worker.step = "schedule"
  /\ ScheduleOfferTimeout(worker.ride, worker.driver, Later(now, worker.final))
  /\ sent' = sent \union {<<worker.ride, worker.driver>>}
  /\ worker' = SkipDriver
  /\ UNCHANGED <<now, rows, matchJobs, request, announced, count>>

\* Mutant: the timeout job is added without its delay.
SendDriverOfferNoDelay ==
  /\ worker.step = "schedule"
  /\ ScheduleOfferTimeout(worker.ride, worker.driver, now)
  /\ sent' = sent \union {<<worker.ride, worker.driver>>}
  /\ worker' = IdleWorker
  /\ UNCHANGED <<now, rows, matchJobs, request, announced, count>>

\* scheduleExpiration, then the ride:offer event; the handler ends, and the
\* search goes on only through the timeout job.
SendDriverOffer ==
  /\ worker.step = "schedule"
  /\ ScheduleOfferTimeout(worker.ride, worker.driver, Later(now, worker.final))
  /\ sent' = sent \union {<<worker.ride, worker.driver>>}
  /\ worker' = IdleWorker
  /\ UNCHANGED <<now, rows, matchJobs, request, announced, count>>

\* The catch block of handleRideMatching.
Recover ==
  /\ worker.step = "recover"
  /\ IF InWindow(worker.ride)
     THEN AddMatchingJob(worker.ride, Earlier(Interval, ride[worker.ride].expires - now))
     ELSE UNCHANGED matchJobs
  /\ worker' = IdleWorker
  /\ UNCHANGED <<now, rows, timeoutJob, request, told, count>>

\* Mutant: an offer that runs out at this moment is left for later.
ExpireOfferStrict(r, d) ==
  /\ worker.step = "idle"
  /\ DueTimeoutJob(r, d)
  /\ TakeTimeoutJob(r, d)
  /\ IF offer[r][d].status = "PENDING" /\ offer[r][d].expires < now
     THEN /\ offer' = [offer EXCEPT ![r][d].status = "EXPIRED"]
          /\ worker' = [IdleWorker EXCEPT !.step = "resume", !.ride = r, !.driver = d]
     ELSE UNCHANGED <<offer, worker>>
  /\ UNCHANGED <<now, ride, driver, matchJobs, request, told, count>>

\* handleOfferTimeoutJob and expireOfferIfPending: one conditional update.
ExpireOffer(r, d) ==
  /\ worker.step = "idle"
  /\ DueTimeoutJob(r, d)
  /\ TakeTimeoutJob(r, d)
  /\ IF offer[r][d].status = "PENDING" /\ offer[r][d].expires <= now
     THEN /\ offer' = [offer EXCEPT ![r][d].status = "EXPIRED"]
          /\ worker' = [IdleWorker EXCEPT !.step = "resume", !.ride = r, !.driver = d]
     ELSE UNCHANGED <<offer, worker>>
  /\ UNCHANGED <<now, ride, driver, matchJobs, request, told, count>>

\* The rest of handleOfferTimeoutJob: search on while the window lasts.
ResumeMatching ==
  /\ worker.step = "resume"
  /\ IF Searching(worker.ride) /\ InWindow(worker.ride)
     THEN AddMatchingJob(worker.ride, 0)
     ELSE UNCHANGED matchJobs
  /\ worker' = IdleWorker
  /\ UNCHANGED <<now, rows, timeoutJob, request, told, count>>

UseFault ==
  /\ count.faults < MaxFaults
  /\ count' = [count EXCEPT !.faults = @ + 1]

\* A read, a write or a call to Redis fails.  An error of createOffer skips the
\* driver, any other error of handleRideMatching goes to its catch block, and
\* errors of that block and of handleOfferTimeoutJob are only logged.
HandlerFails ==
  /\ worker.step # "idle"
  /\ UseFault
  /\ worker' = CASE worker.step \in {"find", "loop"} -> [worker EXCEPT !.step = "recover", !.left = {}]
                 [] worker.step \in {"offer", "write", "schedule"} -> SkipDriver
                 [] OTHER -> IdleWorker
  /\ UNCHANGED <<now, rows, jobs, request, told>>

\* The update of expireOfferIfPending fails: logged, and the job is complete.
ExpireOfferFails(r, d) ==
  /\ worker.step = "idle"
  /\ DueTimeoutJob(r, d)
  /\ UseFault
  /\ TakeTimeoutJob(r, d)
  /\ UNCHANGED <<now, rows, matchJobs, worker, request, told>>

WorkerStep ==
  \/ \E r \in Rides, t \in Time : StartMatching(r, t)
  \/ FindNearbyDrivers
  \/ NextDriver
  \/ Reschedule
  \/ CreateOfferRead
  \/ WriteOffer
  \/ WriteStaleOffer
  \/ SendDriverOffer
  \/ Recover
  \/ \E r \in Rides, d \in Drivers : ExpireOffer(r, d)
  \/ ResumeMatching

WorkerFault ==
  \/ HandlerFails
  \/ \E r \in Rides, d \in Drivers : ExpireOfferFails(r, d)
=============================================================================
