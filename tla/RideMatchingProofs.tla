-------------------------- MODULE RideMatchingProofs --------------------------
(***************************************************************************)
(* Theorems about RideMatching, for any rides, drivers and request slots,  *)
(* any timing and any number of retries, rejects, faults and crashes.      *)
(***************************************************************************)
EXTENDS RideMatching, TLAPS

\* Times are integers, and the first and the earlier of two times are times.
LEMMA TimeType == /\ Time \subseteq Nat
                  /\ \A t \in Time : t \in Int /\ 0 <= t
                  /\ Null \notin Time
                  /\ \A t \in Time, u \in Int : 0 <= u /\ u <= t => u \in Time
  BY TimingAssumption DEF Time, Null

LEMMA EarlierType == ASSUME NEW a \in Int, NEW b \in Int
                     PROVE  /\ Earlier(a, b) \in Int
                            /\ Earlier(a, b) = a \/ Earlier(a, b) = b
                            /\ Earlier(a, b) <= a
                            /\ Earlier(a, b) <= b
  BY DEF Earlier

LEMMA LaterType == ASSUME NEW a \in Time, NEW b \in Time
                   PROVE  Later(a, b) \in Time
  BY DEF Later

\* A job added within the clock's bound is one more job.
LEMMA AddMatchingJobType ==
  ASSUME matchJobs \in [Rides -> [Time -> Nat]], NEW r \in Rides, NEW delay,
         now + delay \in Time, AddMatchingJob(r, delay)
  PROVE  matchJobs' \in [Rides -> [Time -> Nat]]
<1> DEFINE row == [matchJobs[r] EXCEPT ![now + delay] = @ + 1]
<1>1. row \in [Time -> Nat]
  OBVIOUS
<1>2. matchJobs' = [matchJobs EXCEPT ![r] = row]
  BY DEF AddMatchingJob
<1> HIDE DEF row
<1> QED
  BY <1>1, <1>2

LEMMA TakeMatchingJobType ==
  ASSUME matchJobs \in [Rides -> [Time -> Nat]], NEW r \in Rides, NEW t \in Time,
         DueMatchingJob(r, t), TakeMatchingJob(r, t)
  PROVE  matchJobs' \in [Rides -> [Time -> Nat]]
<1> DEFINE row == [matchJobs[r] EXCEPT ![t] = @ - 1]
<1>1. row \in [Time -> Nat]
  BY DEF DueMatchingJob
<1>2. matchJobs' = [matchJobs EXCEPT ![r] = row]
  BY DEF TakeMatchingJob
<1> HIDE DEF row
<1> QED
  BY <1>1, <1>2

LEMMA IdleType == /\ IdleWorker \in Worker
                  /\ IdleWorker.step = "idle"
                  /\ IdleRequest \in Request
                  /\ IdleRequest.step = "idle"
  BY DEF IdleWorker, Worker, WorkerSteps, Plans, IdleRequest, Request, RequestSteps, OfferStatuses

-----------------------------------------------------------------------------
(***************************************************************************)
(* Type correctness, a part of TypeOK at a time.                           *)
(***************************************************************************)
LEMMA InitTypeOK == Init => TypeOK
<1> SUFFICES ASSUME Init PROVE TypeOK
  OBVIOUS
<1>1. now \in Time
  BY TimingAssumption DEF Init, Time
<1>2. RowsOK
  BY DEF Init, RowsOK, RideRow, OfferRow, RideStatuses, OfferStatuses, DriverStatuses
<1>3. JobsOK
  BY DEF Init, JobsOK
<1>4. WorkerOK
  BY IdleType DEF Init, WorkerOK
<1>5. RequestsOK
  BY IdleType DEF Init, RequestsOK, RequestOK
<1>6. BooksOK
  BY DEF Init, BooksOK
<1> QED
  BY <1>1, <1>2, <1>3, <1>4, <1>5, <1>6 DEF TypeOK

\* What a step leaves alone keeps its type.
LEMMA UnchangedParts ==
  /\ TypeOK /\ UNCHANGED rows => RowsOK'
  /\ TypeOK /\ UNCHANGED jobs => JobsOK'
  /\ TypeOK /\ UNCHANGED worker => WorkerOK'
  /\ TypeOK /\ UNCHANGED request => RequestsOK'
  /\ TypeOK /\ UNCHANGED <<told, count>> => BooksOK'
  /\ TypeOK /\ UNCHANGED now => (now \in Time)'
<1>1. TypeOK /\ UNCHANGED rows => RowsOK'
  BY DEF TypeOK, RowsOK, rows
<1>2. TypeOK /\ UNCHANGED jobs => JobsOK'
  BY DEF TypeOK, JobsOK, jobs, Time
<1>3. TypeOK /\ UNCHANGED worker => WorkerOK'
  BY DEF TypeOK, WorkerOK, Time
<1>4. TypeOK /\ UNCHANGED request => RequestsOK'
  BY DEF TypeOK, RequestsOK, RequestOK, Time
<1>5. TypeOK /\ UNCHANGED <<told, count>> => BooksOK'
  BY DEF TypeOK, BooksOK, told
<1>6. TypeOK /\ UNCHANGED now => (now \in Time)'
  BY DEF TypeOK, Time
<1> QED
  BY <1>1, <1>2, <1>3, <1>4, <1>5, <1>6

\* A new status in an offer row leaves a row.
LEMMA OfferStatusType ==
  ASSUME NEW f \in [Rides -> [Drivers -> OfferRow]], NEW r \in Rides, NEW d \in Drivers,
         NEW s \in OfferStatuses
  PROVE  [f EXCEPT ![r][d].status = s] \in [Rides -> [Drivers -> OfferRow]]
<1>1. f[r] \in [Drivers -> OfferRow] /\ f[r][d] \in OfferRow
  OBVIOUS
<1>2. [f[r][d] EXCEPT !.status = s] \in OfferRow
  BY <1>1 DEF OfferRow
<1>3. [f[r] EXCEPT ![d] = [f[r][d] EXCEPT !.status = s]] \in [Drivers -> OfferRow]
  BY <1>1, <1>2
<1>4. [f EXCEPT ![r][d].status = s]
        = [f EXCEPT ![r] = [f[r] EXCEPT ![d] = [f[r][d] EXCEPT !.status = s]]]
  OBVIOUS
<1> QED
  BY <1>3, <1>4

LEMMA StartMatchingTypeOK ==
  ASSUME TypeOK, NEW r \in Rides, NEW t \in Time, StartMatching(r, t)
  PROVE  TypeOK'
<1>1. JobsOK'
  BY TakeMatchingJobType DEF StartMatching, TypeOK, JobsOK
<1>2. WorkerOK'
  <2>1. ride[r].expires \in Time \union {Null}
    BY DEF TypeOK, RowsOK, RideRow
  <2> QED
    BY <2>1, IdleType DEF StartMatching, WorkerOK, IdleWorker, Worker, WorkerSteps, Plans
<1> QED
  BY <1>1, <1>2, UnchangedParts DEF StartMatching, TypeOK

LEMMA FindNearbyDriversTypeOK ==
  ASSUME TypeOK, FindNearbyDrivers
  PROVE  TypeOK'
<1>1. PICK matches \in SUBSET CandidateDrivers(worker.ride) :
        worker' = [worker EXCEPT !.step = "loop", !.left = matches]
  BY DEF FindNearbyDrivers
<1>2. matches \in SUBSET Drivers
  BY DEF CandidateDrivers
<1>3. worker \in Worker /\ worker.ride \in Rides
  BY DEF FindNearbyDrivers, TypeOK, WorkerOK
<1>4. WorkerOK'
  BY <1>1, <1>2, <1>3 DEF WorkerOK, Worker, WorkerSteps
<1> QED
  BY <1>4, UnchangedParts DEF FindNearbyDrivers, TypeOK

LEMMA NextDriverTypeOK ==
  ASSUME TypeOK, NextDriver
  PROVE  TypeOK'
<1>1. WorkerOK'
  BY IdleType DEF NextDriver, TypeOK, WorkerOK, Worker, WorkerSteps
<1> QED
  BY <1>1, UnchangedParts DEF NextDriver, TypeOK

LEMMA CreateOfferReadTypeOK ==
  ASSUME TypeOK, CreateOfferRead
  PROVE  TypeOK'
<1> DEFINE r == worker.ride
           plan == PlanFor(offer[r][worker.driver])
           final == Earlier(now + OfferTimeout, ride[r].expires)
<1>1. ASSUME InWindow(r) PROVE final \in Time
  <2>1. ride[r].expires \in Time
    BY <1>1 DEF CreateOfferRead, InWindow, TypeOK, RowsOK, WorkerOK, RideRow
  <2> QED
    <3>1. now \in Nat /\ ride[r].expires \in Nat /\ OfferTimeout \in Nat
      BY <2>1, TimeType, TimingAssumption DEF TypeOK
    <3>2. final \in Int /\ 0 <= final /\ final <= ride[r].expires
      BY <3>1 DEF Earlier
    <3> HIDE DEF final
    <3> QED
      BY <2>1, <3>2, TimeType
<1>2. plan \in Plans
  BY DEF PlanFor, Plans
<1>3. WorkerOK'
  <2>1. CASE worker' = SkipDriver
    BY <2>1 DEF CreateOfferRead, SkipDriver, TypeOK, WorkerOK, Worker, WorkerSteps, Plans
  <2>2. CASE InWindow(r) /\ worker' = [worker EXCEPT !.step = "write", !.plan = plan, !.final = final]
    <3> HIDE DEF plan, final
    <3> QED
      BY <1>1, <1>2, <2>2 DEF CreateOfferRead, TypeOK, WorkerOK, Worker, WorkerSteps
  <2> QED
    BY <2>1, <2>2 DEF CreateOfferRead
<1> QED
  BY <1>3, UnchangedParts DEF CreateOfferRead, TypeOK

\* The three places that add the next matching job and end the handler.
LEMMA MatchingGoesOnTypeOK ==
  ASSUME TypeOK, Reschedule \/ Recover \/ ResumeMatching
  PROVE  TypeOK'
<1>1. JobsOK'
  <2>1. matchJobs \in [Rides -> [Time -> Nat]] /\ now \in Time /\ worker.ride \in Rides
    BY DEF TypeOK, JobsOK, WorkerOK, Reschedule, Recover, ResumeMatching
  <2>2. CASE Reschedule
    <3>1. now < worker.until => now + Earlier(Interval, worker.until - now) \in Time
      BY <2>1, TimeType, EarlierType, TimingAssumption DEF TypeOK, WorkerOK, Worker, Null, Time, Earlier
    <3> QED
      BY <2>1, <2>2, <3>1, AddMatchingJobType, UnchangedParts DEF Reschedule, TypeOK, JobsOK
  <2>3. CASE Recover
    <3>1. ride[worker.ride].expires \in Time \union {Null}
      BY <2>1 DEF TypeOK, RowsOK, RideRow
    <3>2. InWindow(worker.ride) =>
            now + Earlier(Interval, ride[worker.ride].expires - now) \in Time
      <4> SUFFICES ASSUME InWindow(worker.ride)
                   PROVE  now + Earlier(Interval, ride[worker.ride].expires - now) \in Time
        OBVIOUS
      <4> DEFINE expires == ride[worker.ride].expires
      <4>1. expires \in Time /\ now < expires
        BY <3>1 DEF InWindow
      <4> HIDE DEF expires
      <4>2. Earlier(Interval, expires - now) \in Nat /\ Earlier(Interval, expires - now) <= expires - now
        BY <2>1, <4>1, TimingAssumption DEF Earlier, Time
      <4>3. now + Earlier(Interval, expires - now) \in Time
        BY <2>1, <4>1, <4>2, TimingAssumption DEF Time
      <4> QED
        BY <4>3 DEF expires
    <3> QED
      BY <2>1, <2>3, <3>2, AddMatchingJobType DEF Recover, TypeOK, JobsOK
  <2>4. CASE ResumeMatching
    <3>1. now + 0 \in Time
      BY <2>1, TimeType
    <3> QED
      BY <2>1, <2>4, <3>1, AddMatchingJobType DEF ResumeMatching, TypeOK, JobsOK
  <2> QED
    BY <2>2, <2>3, <2>4
<1>2. WorkerOK'
  BY IdleType DEF Reschedule, Recover, ResumeMatching, WorkerOK
<1> QED
  BY <1>1, <1>2, UnchangedParts DEF Reschedule, Recover, ResumeMatching, TypeOK

LEMMA WriteOfferTypeOK ==
  ASSUME TypeOK, WriteOffer \/ WriteStaleOffer
  PROVE  TypeOK'
<1> DEFINE r == worker.ride
           d == worker.driver
<1>1. r \in Rides /\ d \in Drivers /\ worker.final \in Time
  BY DEF WriteOffer, WriteStaleOffer, TypeOK, WorkerOK
<1>2. RowsOK'
  <2>1. offer' \in [Rides -> [Drivers -> OfferRow]]
    <3>1. \A s \in OfferStatuses : [status |-> s, expires |-> worker.final] \in OfferRow
      BY <1>1 DEF OfferRow
    <3>2. "PENDING" \in OfferStatuses /\ "EXPIRED" \in OfferStatuses
      BY DEF OfferStatuses
    <3> QED
      BY <1>1, <3>1, <3>2 DEF WriteOffer, WriteStaleOffer, TypeOK, RowsOK
  <2> QED
    BY <2>1 DEF WriteOffer, WriteStaleOffer, TypeOK, RowsOK
<1>3. WorkerOK'
  BY <1>1 DEF WriteOffer, WriteStaleOffer, SkipDriver, TypeOK, WorkerOK, Worker, WorkerSteps, Plans
<1> QED
  BY <1>2, <1>3, UnchangedParts DEF WriteOffer, WriteStaleOffer, TypeOK

LEMMA SendDriverOfferTypeOK ==
  ASSUME TypeOK, SendDriverOffer
  PROVE  TypeOK'
<1>1. worker.ride \in Rides /\ worker.driver \in Drivers /\ Later(now, worker.final) \in Time
  BY LaterType DEF SendDriverOffer, TypeOK, WorkerOK
<1>2. JobsOK'
  BY <1>1 DEF SendDriverOffer, ScheduleOfferTimeout, TypeOK, JobsOK
<1>3. WorkerOK'
  BY IdleType DEF SendDriverOffer, WorkerOK
<1>4. BooksOK'
  BY <1>1 DEF SendDriverOffer, TypeOK, BooksOK
<1> QED
  BY <1>2, <1>3, <1>4, UnchangedParts DEF SendDriverOffer, TypeOK

LEMMA UseFaultType == TypeOK /\ UseFault /\ UNCHANGED told => BooksOK'
  BY DEF UseFault, TypeOK, BooksOK, told

LEMMA ExpireOfferTypeOK ==
  ASSUME TypeOK, NEW r \in Rides, NEW d \in Drivers, ExpireOffer(r, d) \/ ExpireOfferFails(r, d)
  PROVE  TypeOK'
<1>1. JobsOK'
  <2>1. timeoutJob \in [Rides -> [Drivers -> Time \union {Null}]] /\ matchJobs \in [Rides -> [Time -> Nat]]
    BY DEF TypeOK, JobsOK
  <2>2. timeoutJob' = [timeoutJob EXCEPT ![r][d] = Null] /\ matchJobs' = matchJobs
    BY DEF ExpireOffer, ExpireOfferFails, TakeTimeoutJob
  <2>3. timeoutJob' \in [Rides -> [Drivers -> Time \union {Null}]]
    BY <2>1, <2>2
  <2> QED
    BY <2>1, <2>2, <2>3 DEF JobsOK, Time
<1>2. CASE ExpireOffer(r, d)
  <2>1. RowsOK'
    <3>1. /\ offer' = offer \/ offer' = [offer EXCEPT ![r][d].status = "EXPIRED"]
          /\ UNCHANGED <<ride, driver>>
      BY <1>2 DEF ExpireOffer
    <3>2. [offer EXCEPT ![r][d].status = "EXPIRED"] \in [Rides -> [Drivers -> OfferRow]]
      <4>1. "EXPIRED" \in OfferStatuses
        BY DEF OfferStatuses
      <4> QED
        BY <4>1, OfferStatusType DEF TypeOK, RowsOK
    <3> QED
      BY <3>1, <3>2 DEF TypeOK, RowsOK
  <2>2. WorkerOK'
    BY <1>2 DEF ExpireOffer, TypeOK, WorkerOK, IdleWorker, Worker, WorkerSteps, Plans
  <2> QED
    BY <1>1, <1>2, <2>1, <2>2, UnchangedParts DEF ExpireOffer, TypeOK
<1>3. CASE ExpireOfferFails(r, d)
  BY <1>1, <1>3, UseFaultType, UnchangedParts DEF ExpireOfferFails, TypeOK
<1> QED
  BY <1>2, <1>3

LEMMA HandlerFailsTypeOK ==
  ASSUME TypeOK, HandlerFails
  PROVE  TypeOK'
<1>1. WorkerOK'
  BY IdleType DEF HandlerFails, SkipDriver, TypeOK, WorkerOK, Worker, WorkerSteps, Plans
<1> QED
  BY <1>1, UseFaultType, UnchangedParts DEF HandlerFails, TypeOK

-----------------------------------------------------------------------------
\* A slot that is given a well-typed request keeps the slots well typed.
LEMMA RequestUpdate ==
  ASSUME RequestsOK, NEW q \in Requests, NEW req \in Request,
         request' = [request EXCEPT ![q] = req],
         /\ req.step \in {"enqueue", "retry"} => req.ride \in Rides
         /\ req.step = "retry" => req.at \in Time
         /\ req.step \in {"acceptOffer", "acceptCommit", "acceptRoute", "rejectCommit"} =>
              req.ride \in Rides /\ req.driver \in Drivers
         /\ req.step = "rejectCommit" => req.to \in {"REJECTED", "EXPIRED"}
         /\ req.step = "status" => req.driver \in Drivers /\ req.to \in DriverStatuses
  PROVE  RequestsOK'
<1>1. request' \in [Requests -> Request]
  BY DEF RequestsOK
<1>2. ASSUME NEW p \in Requests PROVE RequestOK(p)'
  <2>1. CASE p = q
    BY <2>1 DEF RequestsOK, RequestOK, Time
  <2>2. CASE p # q
    BY <2>2 DEF RequestsOK, RequestOK, Time
  <2> QED
    BY <2>1, <2>2
<1> QED
  BY <1>1, <1>2 DEF RequestsOK

LEMMA EndType ==
  ASSUME RequestsOK, NEW q \in Requests, End(q)
  PROVE  RequestsOK'
  BY RequestUpdate, IdleType DEF End

\* Going on to another step with the same ride, driver, time and status.
LEMMA ContinueType ==
  ASSUME RequestsOK, NEW q \in Requests, NEW step \in {"enqueue", "acceptCommit", "acceptRoute"},
         Continue(q, step),
         request[q].ride \in Rides, step # "enqueue" => request[q].driver \in Drivers
  PROVE  RequestsOK'
<1> DEFINE req == [request[q] EXCEPT !.step = step]
<1>1. request[q] \in Request
  BY DEF RequestsOK
<1>2. /\ req \in Request
      /\ req.step = step /\ req.ride = request[q].ride /\ req.driver = request[q].driver
  BY <1>1 DEF Request, RequestSteps
<1>3. request' = [request EXCEPT ![q] = req]
  BY DEF Continue
<1> HIDE DEF req
<1> QED
  BY <1>2, <1>3, RequestUpdate

LEMMA RequestStartTypeOK ==
  ASSUME TypeOK, NEW q \in Requests, RequestStart(q)
  PROVE  TypeOK'
<1>1. CASE \E r \in Rides : CreateRide(q, r)
  <2>1. PICK r \in Rides : CreateRide(q, r)
    BY <1>1
  <2>2. now + Window \in Time
    BY <2>1, TimeType, TimingAssumption DEF CreateRide, TypeOK, Time
  <2>3. RowsOK'
    <3>1. [status |-> "searching", driver |-> None, expires |-> now + Window] \in RideRow
      BY <2>2 DEF RideRow, RideStatuses
    <3> QED
      BY <2>1, <3>1 DEF CreateRide, TypeOK, RowsOK
  <2>4. RequestsOK'
    <3>1. [IdleRequest EXCEPT !.step = "enqueue", !.ride = r] \in Request
      BY DEF IdleRequest, Request, RequestSteps, OfferStatuses
    <3> QED
      BY <2>1, <3>1, RequestUpdate DEF CreateRide, Begin, TypeOK, IdleRequest
  <2> QED
    BY <2>1, <2>3, <2>4, UnchangedParts DEF CreateRide, TypeOK
<1>2. CASE \E r \in Rides : RetryRide(q, r)
  <2>1. PICK r \in Rides : RetryRide(q, r)
    BY <1>2
  <2>2. now + Window \in Time
    BY <2>1, TimeType, TimingAssumption DEF RetryRide, TypeOK, Time
  <2>3. RequestsOK'
    <3>1. [IdleRequest EXCEPT !.step = "retry", !.ride = r, !.at = now + Window] \in Request
      BY <2>2 DEF IdleRequest, Request, RequestSteps, OfferStatuses
    <3> QED
      BY <2>1, <2>2, <3>1, RequestUpdate DEF RetryRide, Begin, TypeOK, IdleRequest
  <2>4. BooksOK'
    BY <2>1 DEF RetryRide, TypeOK, BooksOK, told
  <2> QED
    BY <2>1, <2>3, <2>4, UnchangedParts DEF RetryRide, TypeOK
<1>3. CASE \E r \in Rides, d \in Drivers : AcceptRideOffer(q, r, d)
  <2>1. PICK r \in Rides, d \in Drivers : AcceptRideOffer(q, r, d)
    BY <1>3
  <2>2. RequestsOK'
    <3>1. [IdleRequest EXCEPT !.step = "acceptOffer", !.ride = r, !.driver = d] \in Request
      BY DEF IdleRequest, Request, RequestSteps, OfferStatuses
    <3> QED
      BY <2>1, <3>1, RequestUpdate DEF AcceptRideOffer, Begin, TypeOK, IdleRequest
  <2> QED
    BY <2>1, <2>2, UnchangedParts DEF AcceptRideOffer, TypeOK
<1>4. CASE \E r \in Rides, d \in Drivers : RejectOffer(q, r, d)
  <2>1. PICK r \in Rides, d \in Drivers : RejectOffer(q, r, d)
    BY <1>4
  <2> DEFINE to == IF Live(r, d) THEN "REJECTED" ELSE "EXPIRED"
  <2>2. to \in {"REJECTED", "EXPIRED"}
    OBVIOUS
  <2> HIDE DEF to
  <2>3. RequestsOK'
    <3> DEFINE req == [IdleRequest EXCEPT !.step = "rejectCommit", !.ride = r, !.driver = d, !.to = to]
    <3>1. req \in Request
      BY <2>2 DEF IdleRequest, Request, RequestSteps, OfferStatuses
    <3>2. request' = [request EXCEPT ![q] = req]
      BY <2>1 DEF RejectOffer, Begin, to
    <3> QED
      BY <2>2, <3>1, <3>2, RequestUpdate DEF TypeOK, IdleRequest
  <2>4. BooksOK'
    BY <2>1 DEF RejectOffer, TypeOK, BooksOK, told
  <2> QED
    BY <2>1, <2>3, <2>4, UnchangedParts DEF RejectOffer, TypeOK
<1>5. CASE \E d \in Drivers, s \in DriverStatuses : UpdateStatus(q, d, s)
  <2>1. PICK d \in Drivers, s \in DriverStatuses : UpdateStatus(q, d, s)
    BY <1>5
  <2>2. RequestsOK'
    <3>1. [IdleRequest EXCEPT !.step = "status", !.driver = d, !.to = s] \in Request
      BY DEF IdleRequest, Request, RequestSteps
    <3> QED
      BY <2>1, <3>1, RequestUpdate DEF UpdateStatus, Begin, TypeOK, IdleRequest
  <2>3. BooksOK'
    BY <2>1 DEF UpdateStatus, TypeOK, BooksOK, told
  <2> QED
    BY <2>1, <2>2, <2>3, UnchangedParts DEF UpdateStatus, TypeOK
<1> QED
  BY <1>1, <1>2, <1>3, <1>4, <1>5 DEF RequestStart

LEMMA RequestStepTypeOK ==
  ASSUME TypeOK, NEW q \in Requests, RequestStep(q) \/ RequestFails(q)
  PROVE  TypeOK'
<1> DEFINE r == request[q].ride
           d == request[q].driver
<1>a. RequestsOK /\ RequestOK(q) /\ request[q] \in Request
  BY DEF TypeOK, RequestsOK
<1>1. CASE RetryRideFlush(q)
  <2>1. r \in Rides /\ request[q].at \in Time
    BY <1>a, <1>1 DEF RetryRideFlush, RequestOK
  <2>2. RowsOK'
    <3>1. [ride[r] EXCEPT !.expires = request[q].at] \in RideRow
      BY <2>1 DEF TypeOK, RowsOK, RideRow
    <3>2. ride' = [ride EXCEPT ![r] = [ride[r] EXCEPT !.expires = request[q].at]]
      BY <1>1 DEF RetryRideFlush
    <3> QED
      BY <1>1, <2>1, <3>1, <3>2 DEF RetryRideFlush, TypeOK, RowsOK
  <2>3. RequestsOK'
    BY <1>a, <1>1, <2>1, ContinueType DEF RetryRideFlush
  <2> QED
    BY <1>1, <2>2, <2>3, UnchangedParts DEF RetryRideFlush, TypeOK
<1>2. CASE Enqueue(q)
  <2>1. r \in Rides /\ now + 0 \in Time
    BY <1>a, <1>2, TimeType DEF Enqueue, RequestOK, TypeOK
  <2>2. JobsOK'
    BY <1>2, <2>1, AddMatchingJobType DEF Enqueue, TypeOK, JobsOK
  <2>3. RequestsOK'
    BY <1>a, <1>2, EndType DEF Enqueue
  <2> QED
    BY <1>2, <2>2, <2>3, UnchangedParts DEF Enqueue, TypeOK
<1>3. CASE AcceptReadOffer(q)
  <2>1. RequestsOK'
    BY <1>a, <1>3, ContinueType DEF AcceptReadOffer, RequestOK
  <2> QED
    BY <1>3, <2>1, UnchangedParts DEF AcceptReadOffer, TypeOK
<1>4. CASE AcceptExpired(q) \/ AcceptRefused(q)
  <2>1. RequestsOK'
    BY <1>a, <1>4, EndType DEF AcceptExpired, AcceptRefused
  <2> QED
    BY <1>4, <2>1, UnchangedParts DEF AcceptExpired, AcceptRefused, TypeOK
<1>5. CASE AcceptCommit(q)
  <2>1. r \in Rides /\ d \in Drivers
    BY <1>a, <1>5 DEF AcceptCommit, RequestOK
  <2>2. offer' \in [Rides -> [Drivers -> OfferRow]]
    <3>1. "ACCEPTED" \in OfferStatuses
      BY DEF OfferStatuses
    <3> QED
      BY <1>5, <2>1, <3>1, OfferStatusType DEF AcceptCommit, TypeOK, RowsOK
  <2>3. ride' \in [Rides -> RideRow]
    <3>1. [status |-> "accepted", driver |-> d, expires |-> Null] \in RideRow
      BY <2>1 DEF RideRow, RideStatuses
    <3> QED
      BY <1>5, <2>1, <3>1 DEF AcceptCommit, TypeOK, RowsOK
  <2>4. driver' \in [Drivers -> DriverStatuses]
    BY <1>5, <2>1 DEF AcceptCommit, TypeOK, RowsOK, DriverStatuses
  <2>5. RequestsOK'
    BY <1>a, <1>5, <2>1, ContinueType DEF AcceptCommit
  <2> QED
    BY <1>5, <2>2, <2>3, <2>4, <2>5, UnchangedParts DEF AcceptCommit, TypeOK, RowsOK
<1>6. CASE AcceptAnnounce(q)
  <2>1. BooksOK'
    BY <1>a, <1>6 DEF AcceptAnnounce, RequestOK, TypeOK, BooksOK
  <2>2. RequestsOK'
    BY <1>a, <1>6, EndType DEF AcceptAnnounce
  <2> QED
    BY <1>6, <2>1, <2>2, UnchangedParts DEF AcceptAnnounce, TypeOK
<1>7. CASE RejectCommit(q)
  <2>1. offer' \in [Rides -> [Drivers -> OfferRow]]
    <3>1. r \in Rides /\ d \in Drivers /\ request[q].to \in OfferStatuses
      BY <1>a, <1>7 DEF RejectCommit, RequestOK, OfferStatuses
    <3> QED
      BY <1>7, <3>1, OfferStatusType DEF RejectCommit, TypeOK, RowsOK
  <2>2. RequestsOK'
    BY <1>a, <1>7, EndType DEF RejectCommit
  <2> QED
    BY <1>7, <2>1, <2>2, UnchangedParts DEF RejectCommit, TypeOK, RowsOK
<1>8. CASE UpdateStatusFlush(q)
  <2>1. driver' \in [Drivers -> DriverStatuses]
    BY <1>a, <1>8 DEF UpdateStatusFlush, RequestOK, TypeOK, RowsOK
  <2>2. RequestsOK'
    BY <1>a, <1>8, EndType DEF UpdateStatusFlush
  <2> QED
    BY <1>8, <2>1, <2>2, UnchangedParts DEF UpdateStatusFlush, TypeOK, RowsOK
<1>9. CASE RequestFails(q)
  <2>1. RequestsOK'
    BY <1>a, <1>9, EndType DEF RequestFails
  <2>2. BooksOK'
    BY <1>9 DEF RequestFails, TypeOK, BooksOK, told
  <2> QED
    BY <1>9, <2>1, <2>2, UnchangedParts DEF RequestFails, TypeOK
<1> QED
  BY <1>1, <1>2, <1>3, <1>4, <1>5, <1>6, <1>7, <1>8, <1>9 DEF RequestStep

LEMMA CrashTypeOK ==
  ASSUME TypeOK, Crash
  PROVE  TypeOK'
<1>1. JobsOK'
  <2>1. now \in Time /\ now + 0 \in Time /\ JobsOK
    BY TimeType DEF TypeOK
  <2>2. CASE worker.step = "idle"
    BY <2>1, <2>2 DEF Crash, JobsOK, jobs, Time
  <2>3. CASE worker.step = "resume"
    <3>1. worker.ride \in Rides /\ worker.driver \in Drivers
      BY <2>3 DEF TypeOK, WorkerOK
    <3>2. timeoutJob' = [timeoutJob EXCEPT ![worker.ride][worker.driver] = now] /\ UNCHANGED matchJobs
      BY <2>3 DEF Crash
    <3> QED
      BY <2>1, <3>1, <3>2 DEF JobsOK, Time
  <2>4. CASE worker.step # "idle" /\ worker.step # "resume"
    <3>1. worker.ride \in Rides
      BY <2>4 DEF TypeOK, WorkerOK
    <3>2. AddMatchingJob(worker.ride, 0) /\ UNCHANGED timeoutJob
      BY <2>4 DEF Crash
    <3> QED
      BY <2>1, <3>1, <3>2, AddMatchingJobType DEF JobsOK, Time
  <2> QED
    BY <2>2, <2>3, <2>4
<1>2. WorkerOK'
  BY IdleType DEF Crash, WorkerOK
<1>3. RequestsOK'
  BY IdleType DEF Crash, RequestsOK, RequestOK
<1>4. BooksOK'
  BY DEF Crash, TypeOK, BooksOK, told
<1> QED
  BY <1>1, <1>2, <1>3, <1>4, UnchangedParts DEF Crash, TypeOK

LEMMA TickTypeOK ==
  ASSUME TypeOK, Tick
  PROVE  TypeOK'
<1>1. now' \in Time
  BY TimingAssumption DEF Tick, TypeOK, Time
<1>2. (now \in Time)'
  BY <1>1 DEF Time
<1> QED
  BY <1>2, UnchangedParts DEF Tick, TypeOK

LEMMA NextTypeOK == TypeOK /\ [Next]_vars => TypeOK'
<1> SUFFICES ASSUME TypeOK, [Next]_vars PROVE TypeOK'
  OBVIOUS
<1>1. CASE Tick
  BY <1>1, TickTypeOK
<1>2. CASE WorkerStep
  BY <1>2, StartMatchingTypeOK, FindNearbyDriversTypeOK, NextDriverTypeOK, CreateOfferReadTypeOK,
     MatchingGoesOnTypeOK, WriteOfferTypeOK, SendDriverOfferTypeOK, ExpireOfferTypeOK
     DEF WorkerStep
<1>3. CASE WorkerFault
  BY <1>3, HandlerFailsTypeOK, ExpireOfferTypeOK DEF WorkerFault
<1>4. CASE \E q \in Requests : RequestStart(q) \/ RequestStep(q) \/ RequestFails(q)
  BY <1>4, RequestStartTypeOK, RequestStepTypeOK
<1>5. CASE Crash
  BY <1>5, CrashTypeOK
<1>6. CASE UNCHANGED vars
  BY <1>6, UnchangedParts DEF vars, rows, jobs, told, TypeOK
<1> QED
  BY <1>1, <1>2, <1>3, <1>4, <1>5, <1>6 DEF Next

\* Every state of the system is well typed: the rows, the jobs, the handler the
\* worker is in and the requests in flight.
THEOREM TypeCorrect == Spec => []TypeOK
  BY InitTypeOK, NextTypeOK, PTL DEF Spec

-----------------------------------------------------------------------------
(***************************************************************************)
(* Assignment.  Three kinds of step write a ride; every other step leaves  *)
(* the rides alone and makes no offer ACCEPTED.                            *)
(***************************************************************************)
NothingAccepted ==
  /\ UNCHANGED ride
  /\ \A r \in Rides, d \in Drivers :
       offer'[r][d].status = "ACCEPTED" => offer[r][d].status = "ACCEPTED"

LEMMA RideWriters ==
  ASSUME TypeOK, [Next]_vars
  PROVE  \/ NothingAccepted
         \/ \E q \in Requests, r \in Rides : CreateRide(q, r)
         \/ \E q \in Requests : RetryRideFlush(q) \/ AcceptCommit(q)
<1>1. CASE UNCHANGED <<ride, offer>>
  BY <1>1 DEF NothingAccepted
<1>2. CASE WorkerStep
  <2>1. CASE WriteOffer \/ WriteStaleOffer
    BY <2>1 DEF WriteOffer, WriteStaleOffer, NothingAccepted, TypeOK, RowsOK, WorkerOK
  <2>2. ASSUME NEW r \in Rides, NEW d \in Drivers, ExpireOffer(r, d)
        PROVE  NothingAccepted
    <3>1. /\ offer' = offer \/ offer' = [offer EXCEPT ![r][d].status = "EXPIRED"]
          /\ UNCHANGED ride
      BY <2>2 DEF ExpireOffer
    <3>2. offer \in [Rides -> [Drivers -> OfferRow]]
      BY DEF TypeOK, RowsOK
    <3>3. ASSUME offer' = [offer EXCEPT ![r][d].status = "EXPIRED"], NEW s \in Rides, NEW e \in Drivers
          PROVE  offer'[s][e].status = "ACCEPTED" => offer[s][e].status = "ACCEPTED"
      <4>1. CASE s = r /\ e = d
        BY <3>2, <3>3, <4>1 DEF OfferRow
      <4>2. CASE ~(s = r /\ e = d)
        BY <3>2, <3>3, <4>2
      <4> QED
        BY <4>1, <4>2
    <3> QED
      BY <3>1, <3>3 DEF NothingAccepted
  <2>3. CASE ~(WriteOffer \/ WriteStaleOffer) /\ ~\E r \in Rides, d \in Drivers : ExpireOffer(r, d)
    BY <1>1, <1>2, <2>3 DEF WorkerStep, StartMatching, FindNearbyDrivers, NextDriver, Reschedule,
       CreateOfferRead, SendDriverOffer, Recover, ResumeMatching, rows
  <2> QED
    BY <2>1, <2>2, <2>3
<1>3. ASSUME NEW q \in Requests, RequestStep(q), ~RetryRideFlush(q), ~AcceptCommit(q)
      PROVE  NothingAccepted
  <2>1. CASE RejectCommit(q)
    <3>1. request[q].to # "ACCEPTED"
      BY <2>1 DEF RejectCommit, TypeOK, RequestsOK, RequestOK
    <3> QED
      BY <2>1, <3>1 DEF RejectCommit, NothingAccepted, TypeOK, RowsOK
  <2>2. CASE ~RejectCommit(q)
    BY <1>3, <2>2 DEF RequestStep, Enqueue, AcceptReadOffer, AcceptExpired, AcceptRefused,
       AcceptAnnounce, UpdateStatusFlush, rows, NothingAccepted
  <2> QED
    BY <2>1, <2>2
<1>4. ASSUME NEW q \in Requests, RequestStart(q), ~\E r \in Rides : CreateRide(q, r)
      PROVE  UNCHANGED <<ride, offer>>
  BY <1>4 DEF RequestStart, RetryRide, AcceptRideOffer, RejectOffer, UpdateStatus, rows
<1>5. CASE Tick \/ WorkerFault \/ Crash \/ (\E q \in Requests : RequestFails(q)) \/ UNCHANGED vars
  BY <1>1, <1>5 DEF Tick, WorkerFault, HandlerFails, ExpireOfferFails, Crash, RequestFails, vars, rows
<1> QED
  BY <1>1, <1>2, <1>3, <1>4, <1>5 DEF Next

\* The inductive invariant: the two parts and the types.
AssignmentInv == TypeOK /\ AssignedIffAccepted /\ AcceptedOfferHasAcceptedRide

LEMMA InitAssignmentInv == Init => AssignmentInv
  BY InitTypeOK DEF Init, AssignmentInv, AssignedIffAccepted, AcceptedOfferHasAcceptedRide

LEMMA CreateRideAssignment ==
  ASSUME AssignmentInv, NEW q \in Requests, NEW r \in Rides, CreateRide(q, r)
  PROVE  AssignedIffAccepted' /\ AcceptedOfferHasAcceptedRide'
  BY DEF CreateRide, AssignmentInv, TypeOK, RowsOK, AssignedIffAccepted, AcceptedOfferHasAcceptedRide

LEMMA RetryRideFlushAssignment ==
  ASSUME AssignmentInv, NEW q \in Requests, RetryRideFlush(q)
  PROVE  /\ AssignedIffAccepted' /\ AcceptedOfferHasAcceptedRide'
         /\ \A r \in Rides : ride'[r].status = ride[r].status /\ ride'[r].driver = ride[r].driver
<1>1. \A r \in Rides : ride'[r].status = ride[r].status /\ ride'[r].driver = ride[r].driver
  BY DEF RetryRideFlush, AssignmentInv, TypeOK, RowsOK, RideRow
<1>2. UNCHANGED offer
  BY DEF RetryRideFlush
<1> QED
  BY <1>1, <1>2 DEF AssignmentInv, AssignedIffAccepted, AcceptedOfferHasAcceptedRide

LEMMA AcceptCommitAssignment ==
  ASSUME AssignmentInv, NEW q \in Requests, AcceptCommit(q)
  PROVE  /\ AssignedIffAccepted' /\ AcceptedOfferHasAcceptedRide'
         /\ \A r \in Rides : ride[r].driver # None => ride'[r].driver # None
<1> DEFINE r == request[q].ride
           d == request[q].driver
<1>1. r \in Rides /\ d \in Drivers /\ d # None
  BY NoneAssumption DEF AcceptCommit, AssignmentInv, TypeOK, RequestsOK, RequestOK
<1>2. /\ ride' = [ride EXCEPT ![r] = [status |-> "accepted", driver |-> d, expires |-> Null]]
      /\ ride \in [Rides -> RideRow]
  BY DEF AcceptCommit, AssignmentInv, TypeOK, RowsOK
<1>3. AssignedIffAccepted' /\ (\A s \in Rides : ride[s].driver # None => ride'[s].driver # None)
  BY <1>1, <1>2 DEF AssignmentInv, AssignedIffAccepted
<1>4. \A s \in Rides, e \in Drivers : s # r => offer'[s][e] = offer[s][e]
  BY <1>1 DEF AcceptCommit, AssignmentInv, TypeOK, RowsOK
<1>5. AcceptedOfferHasAcceptedRide'
  BY <1>1, <1>2, <1>4 DEF AssignmentInv, AcceptedOfferHasAcceptedRide
<1> QED
  BY <1>3, <1>5

LEMMA NextAssignmentInv == AssignmentInv /\ [Next]_vars => AssignmentInv'
<1> SUFFICES ASSUME AssignmentInv, [Next]_vars PROVE AssignmentInv'
  OBVIOUS
<1>1. TypeOK /\ TypeOK'
  BY NextTypeOK DEF AssignmentInv
<1>2. CASE NothingAccepted
  BY <1>1, <1>2 DEF NothingAccepted, AssignmentInv, AssignedIffAccepted, AcceptedOfferHasAcceptedRide
<1>3. ASSUME NEW q \in Requests, NEW r \in Rides, CreateRide(q, r) PROVE AssignmentInv'
  BY <1>1, <1>3, CreateRideAssignment DEF AssignmentInv
<1>4. ASSUME NEW q \in Requests, RetryRideFlush(q) \/ AcceptCommit(q) PROVE AssignmentInv'
  BY <1>1, <1>4, RetryRideFlushAssignment, AcceptCommitAssignment DEF AssignmentInv
<1> QED
  BY <1>1, <1>2, <1>3, <1>4, RideWriters

LEMMA AssignmentInvariant == Spec => []AssignmentInv
  BY InitAssignmentInv, NextAssignmentInv, PTL DEF Spec

\* However retries and accepts of the same ride interleave, the ride has a driver
\* exactly when it is accepted.
THEOREM AssignedTheorem == Spec => []AssignedIffAccepted
  BY AssignmentInvariant, PTL DEF AssignmentInv

\* The rows of an offer and its ride never tell different stories of an accept.
THEOREM AcceptedOfferTheorem == Spec => []AcceptedOfferHasAcceptedRide
  BY AssignmentInvariant, PTL DEF AssignmentInv

\* Once a ride has a driver it always has one, and it is never searched for
\* again, whichever retry or accept is still in flight.  A run sees it in
\* AssignedIffAccepted and ImplementsContest, which take no driver away.
AssignmentIsFinal ==
  [][\A r \in Rides : ride[r].driver # None =>
       ride'[r].driver # None /\ ride'[r].status = "accepted"]_vars

\* No step takes the driver of a ride away or brings it back to the search.
THEOREM AssignmentIsFinalTheorem == Spec => AssignmentIsFinal
<1> DEFINE Final == \A r \in Rides : ride[r].driver # None =>
                      ride'[r].driver # None /\ ride'[r].status = "accepted"
<1>1. AssignmentInv /\ AssignmentInv' /\ [Next]_vars => Final
  <2> SUFFICES ASSUME AssignmentInv, AssignmentInv', [Next]_vars, NEW r \in Rides, ride[r].driver # None
               PROVE  ride'[r].driver # None /\ ride'[r].status = "accepted"
    OBVIOUS
  <2>1. ride'[r].driver # None
    <3>1. CASE NothingAccepted
      BY <3>1 DEF NothingAccepted
    <3>2. ASSUME NEW q \in Requests, NEW s \in Rides, CreateRide(q, s) PROVE ride'[r].driver # None
      BY <3>2 DEF CreateRide, AssignmentInv, AssignedIffAccepted, TypeOK, RowsOK
    <3>3. ASSUME NEW q \in Requests, RetryRideFlush(q) \/ AcceptCommit(q) PROVE ride'[r].driver # None
      BY <3>3, RetryRideFlushAssignment, AcceptCommitAssignment
    <3> QED
      BY <3>1, <3>2, <3>3, RideWriters DEF AssignmentInv
  <2> QED
    BY <2>1 DEF AssignmentInv, AssignedIffAccepted
<1>2. AssignmentInv /\ AssignmentInv' /\ [Next]_vars => [Final]_vars
  BY <1>1
<1> QED
  BY <1>2, AssignmentInvariant, PTL DEF Spec, AssignmentIsFinal

-----------------------------------------------------------------------------
(***************************************************************************)
(* The search window.  A step that writes neither a ride nor an offer,     *)
(* begins no retry or reject and leaves the worker out of createOffer's    *)
(* writes, or where it was, keeps the invariant.                           *)
(***************************************************************************)
Calm ==
  /\ UNCHANGED <<ride, offer>>
  /\ now' >= now
  /\ count'.retries = count.retries
  /\ \/ worker' = worker
     \/ /\ worker'.step \notin {"write", "schedule"}
        /\ \/ worker'.step = "idle"
           \/ worker.step # "idle" /\ worker'.ride = worker.ride
           \/ worker'.ride \in Rides /\ Searching(worker'.ride)
  /\ \A q \in Requests :
       request'[q].step \in {"retry", "rejectCommit"} => request'[q] = request[q]

WindowTypeInv == TypeOK /\ WindowInv

LEMMA InitWindow == Init => WindowTypeInv
  BY InitTypeOK DEF Init, WindowTypeInv, WindowInv, NothingBeforeRide, WindowBounded, WindowOnlyGrows,
     OfferWithinWindow, Searching, IdleWorker, IdleRequest

LEMMA CalmKeepsWindow ==
  ASSUME WindowTypeInv, Calm, (now \in Time)'
  PROVE  WindowInv'
<1>1. NothingBeforeRide'
  BY DEF WindowTypeInv, WindowInv, NothingBeforeRide, Calm, Searching
<1>2. WindowBounded'
  <2>1. now \in Int /\ now' \in Int /\ Window \in Nat
    BY TimeType, TimingAssumption DEF WindowTypeInv, TypeOK, Time
  <2>2. \A r \in Rides : Searching(r) => ride[r].expires \in Int
    BY TimeType DEF WindowTypeInv, WindowInv, WindowBounded
  <2>3. \A q \in Requests : request[q].step = "retry" => request[q].at \in Int
    BY TimeType DEF WindowTypeInv, TypeOK, RequestsOK, RequestOK
  <2>4. \A r \in Rides : Searching(r)' =>
          (ride[r].expires)' \in Time' /\ (ride[r].expires)' <= now' + Window
    BY <2>1, <2>2 DEF WindowTypeInv, WindowInv, WindowBounded, Calm, Searching, Time
  <2>5. \A q \in Requests : (request[q].step)' = "retry" =>
          (request[q].at)' <= now' + Window /\ count'.retries >= 1
    BY <2>1, <2>3 DEF WindowTypeInv, WindowInv, WindowBounded, Calm
  <2> QED
    BY <2>4, <2>5 DEF WindowBounded
<1>3. WindowOnlyGrows'
  BY DEF WindowTypeInv, WindowInv, WindowOnlyGrows, Calm, Searching
<1>4. OfferWithinWindow'
  BY DEF WindowTypeInv, WindowInv, OfferWithinWindow, Calm, Searching
<1> QED
  BY <1>1, <1>2, <1>3, <1>4 DEF WindowInv

LEMMA CalmSteps ==
  ASSUME WindowTypeInv,
         \/ Tick \/ FindNearbyDrivers \/ NextDriver \/ Reschedule \/ SendDriverOffer \/ Recover
         \/ ResumeMatching \/ WorkerFault \/ Crash \/ UNCHANGED vars
         \/ \E r \in Rides, t \in Time : StartMatching(r, t)
         \/ \E q \in Requests :
              \/ Enqueue(q) \/ AcceptReadOffer(q) \/ AcceptExpired(q) \/ AcceptRefused(q)
              \/ AcceptAnnounce(q) \/ UpdateStatusFlush(q) \/ RequestFails(q)
              \/ \E r \in Rides, d \in Drivers : AcceptRideOffer(q, r, d)
              \/ \E d \in Drivers, st \in DriverStatuses : UpdateStatus(q, d, st)
  PROVE  Calm
<1>1. /\ now \in Int
      /\ worker.step # "idle" => worker.ride \in Rides
      /\ worker \in Worker
      /\ request \in [Requests -> Request]
      /\ count \in [retries : Nat, rejects : Nat, changes : Nat, faults : Nat, crashes : Nat]
  BY TimeType DEF WindowTypeInv, TypeOK, WorkerOK, RequestsOK, BooksOK
<1>2. IdleWorker.step = "idle" /\ IdleRequest.step = "idle"
  BY IdleType
<1>3. CASE Tick \/ UNCHANGED vars
  BY <1>1, <1>3 DEF Tick, Calm, vars, rows, jobs, told
<1>4. CASE FindNearbyDrivers \/ NextDriver
  <2>1. UNCHANGED <<now, ride, offer, request, count>> /\ worker.step # "idle"
    BY <1>4 DEF FindNearbyDrivers, NextDriver, rows
  <2>2. worker'.step \notin {"write", "schedule"} /\ (worker'.step = "idle" \/ worker'.ride = worker.ride)
    <3>1. CASE FindNearbyDrivers
      <4>1. PICK matches : worker' = [worker EXCEPT !.step = "loop", !.left = matches]
        BY <3>1 DEF FindNearbyDrivers
      <4> QED
        BY <1>1, <4>1 DEF Worker
    <3>2. CASE NextDriver
      <4>1. CASE worker' = IdleWorker
        BY <1>2, <4>1
      <4>2. CASE worker' # IdleWorker
        <5>1. PICK d : worker' = [worker EXCEPT !.step = "offer", !.driver = d, !.left = @ \ {d}]
          BY <3>2, <4>2 DEF NextDriver
        <5> QED
          BY <1>1, <5>1 DEF Worker
      <4> QED
        BY <4>1, <4>2
    <3> QED
      BY <1>4, <3>1, <3>2
  <2> QED
    BY <1>1, <2>1, <2>2 DEF Calm
<1>5. CASE Reschedule \/ SendDriverOffer \/ Recover \/ ResumeMatching
  BY <1>1, <1>2, <1>5 DEF Reschedule, SendDriverOffer, Recover, ResumeMatching, Calm, rows, told
<1>6. CASE WorkerFault
  <2>1. UNCHANGED <<now, ride, offer, request>> /\ count'.retries = count.retries
    BY <1>1, <1>6 DEF WorkerFault, HandlerFails, ExpireOfferFails, UseFault, rows
  <2>2. CASE HandlerFails
    <3>1. worker'.step \notin {"write", "schedule"} /\ (worker'.step = "idle" \/ worker'.ride = worker.ride)
      <4>1. CASE worker.step \in {"find", "loop"}
        BY <1>1, <2>2, <4>1 DEF HandlerFails, Worker
      <4>2. CASE worker.step \in {"offer", "write", "schedule"}
        BY <1>1, <2>2, <4>2 DEF HandlerFails, SkipDriver, Worker
      <4>3. CASE worker.step \notin {"find", "loop"} /\ worker.step \notin {"offer", "write", "schedule"}
        BY <1>2, <2>2, <4>3 DEF HandlerFails
      <4> QED
        BY <4>1, <4>2, <4>3
    <3> QED
      BY <1>1, <2>1, <2>2, <3>1 DEF HandlerFails, Calm
  <2>3. CASE worker' = worker
    BY <1>1, <2>1, <2>3 DEF Calm
  <2> QED
    BY <1>6, <2>2, <2>3 DEF WorkerFault, ExpireOfferFails
<1>7. CASE Crash
  BY <1>1, <1>2, <1>7 DEF Crash, Calm, rows, told
<1>8. ASSUME NEW r \in Rides, NEW t \in Time, StartMatching(r, t) PROVE Calm
  <2>1. UNCHANGED <<now, ride, offer, request, count>>
    BY <1>8 DEF StartMatching, rows, told
  <2>2. \/ worker' = IdleWorker
        \/ worker'.step = "find" /\ worker'.ride = r /\ Searching(r)
    BY <1>8 DEF StartMatching, IdleWorker
  <2> QED
    BY <1>1, <1>2, <2>1, <2>2 DEF Calm
<1>9. ASSUME NEW q \in Requests,
             \/ Enqueue(q) \/ AcceptReadOffer(q) \/ AcceptExpired(q) \/ AcceptRefused(q)
             \/ AcceptAnnounce(q) \/ UpdateStatusFlush(q)
      PROVE Calm
  <2>1. UNCHANGED <<now, ride, offer, worker, count>>
    BY <1>9 DEF Enqueue, AcceptReadOffer, AcceptExpired, AcceptRefused, AcceptAnnounce,
       UpdateStatusFlush, rows, told
  <2>2. End(q) \/ Continue(q, "acceptCommit")
    BY <1>9 DEF Enqueue, AcceptReadOffer, AcceptExpired, AcceptRefused, AcceptAnnounce,
       UpdateStatusFlush
  <2>3. \A p \in Requests : request'[p].step \in {"retry", "rejectCommit"} => request'[p] = request[p]
    BY <1>1, <1>2, <2>2 DEF End, Continue, Request
  <2> QED
    BY <1>1, <2>1, <2>3 DEF Calm
<1>10. ASSUME NEW q \in Requests, RequestFails(q) PROVE Calm
  BY <1>1, <1>2, <1>10 DEF RequestFails, End, Calm, rows, jobs, told
<1>11. ASSUME NEW q \in Requests,
              NEW req, req.step \notin {"retry", "rejectCommit"}, Begin(q, req)
       PROVE  \A p \in Requests : request'[p].step \in {"retry", "rejectCommit"} => request'[p] = request[p]
  BY <1>1, <1>11 DEF Begin
<1>12. ASSUME NEW q \in Requests, NEW r \in Rides, NEW d \in Drivers, AcceptRideOffer(q, r, d)
       PROVE Calm
  <2> DEFINE req == [IdleRequest EXCEPT !.step = "acceptOffer", !.ride = r, !.driver = d]
  <2>1. req.step = "acceptOffer"
    BY DEF IdleRequest
  <2>2. Begin(q, req) /\ UNCHANGED <<now, ride, offer, worker, count>>
    BY <1>12 DEF AcceptRideOffer, rows
  <2> HIDE DEF req
  <2> QED
    BY <1>1, <1>11, <2>1, <2>2 DEF Calm
<1>13. ASSUME NEW q \in Requests, NEW d \in Drivers, NEW st \in DriverStatuses, UpdateStatus(q, d, st)
       PROVE Calm
  <2> DEFINE req == [IdleRequest EXCEPT !.step = "status", !.driver = d, !.to = st]
  <2>1. req.step = "status"
    BY DEF IdleRequest
  <2>2. Begin(q, req) /\ UNCHANGED <<now, ride, offer, worker>> /\ count'.retries = count.retries
    BY <1>1, <1>13 DEF UpdateStatus, rows
  <2> HIDE DEF req
  <2> QED
    BY <1>1, <1>11, <2>1, <2>2 DEF Calm
<1> QED
  BY <1>3, <1>4, <1>5, <1>6, <1>7, <1>8, <1>9, <1>10, <1>12, <1>13

\* createOffer cuts the offer's time at the end of the window it has read.
LEMMA CreateOfferReadWindow ==
  ASSUME WindowTypeInv, CreateOfferRead
  PROVE  WindowInv'
<1> DEFINE r == worker.ride
<1>1. UNCHANGED <<now, ride, offer, request, count>> /\ worker \in Worker /\ r \in Rides
  BY DEF CreateOfferRead, rows, WindowTypeInv, TypeOK, WorkerOK
<1>2. worker'.ride = r /\ worker.step # "idle"
  BY <1>1 DEF CreateOfferRead, SkipDriver, Worker
<1>3. worker'.step \in {"write", "schedule"} => worker'.final <= ride[r].expires
  <2>1. CASE worker' = SkipDriver
    BY <1>1, <2>1 DEF SkipDriver, Worker
  <2>2. CASE worker' # SkipDriver
    <3>1. InWindow(r) /\ worker'.final = Earlier(now + OfferTimeout, ride[r].expires)
      BY <1>1, <2>2 DEF CreateOfferRead, Worker
    <3>2. ride[r].expires \in Int /\ now + OfferTimeout \in Int
      <4>1. ride[r] \in RideRow /\ now \in Time
        BY <1>1 DEF WindowTypeInv, TypeOK, RowsOK
      <4>2. ride[r].expires \in Time
        BY <3>1, <4>1 DEF InWindow, RideRow
      <4>3. ride[r].expires \in Int
        BY <4>2, TimeType
      <4>4. now \in Int /\ OfferTimeout \in Int
        BY <4>1, TimeType, TimingAssumption
      <4> QED
        BY <4>3, <4>4
    <3> QED
      BY <3>1, <3>2, EarlierType
  <2> QED
    BY <2>1, <2>2
<1>4. NothingBeforeRide' /\ WindowBounded' /\ OfferWithinWindow'
  BY <1>1, <1>2 DEF WindowTypeInv, WindowInv, NothingBeforeRide, WindowBounded, OfferWithinWindow,
     Searching, Time
<1>5. WindowOnlyGrows'
  BY <1>1, <1>2, <1>3 DEF WindowTypeInv, WindowInv, WindowOnlyGrows, Searching
<1> QED
  BY <1>4, <1>5 DEF WindowInv

LEMMA WriteOfferWindow ==
  ASSUME WindowTypeInv, WriteOffer \/ WriteStaleOffer
  PROVE  WindowInv'
<1> DEFINE r == worker.ride
           d == worker.driver
<1>1. /\ UNCHANGED <<now, ride, request, count>>
      /\ worker.step = "write" /\ worker \in Worker /\ r \in Rides /\ d \in Drivers
      /\ offer \in [Rides -> [Drivers -> OfferRow]]
  BY DEF WriteOffer, WriteStaleOffer, WindowTypeInv, TypeOK, WorkerOK, RowsOK
<1>2. /\ worker'.ride = r
      /\ worker'.step \in {"write", "schedule"} => worker'.final = worker.final
  BY <1>1 DEF WriteOffer, WriteStaleOffer, SkipDriver, Worker
<1>3. \A s \in Rides, e \in Drivers :
        \/ offer'[s][e] = offer[s][e]
        \/ s = r /\ (offer'[s][e].status = "PENDING" => offer'[s][e].expires = worker.final)
  BY <1>1 DEF WriteOffer, WriteStaleOffer
<1>4. NothingBeforeRide'
  BY <1>1, <1>2, <1>3 DEF WindowTypeInv, WindowInv, NothingBeforeRide
<1>5. WindowBounded' /\ WindowOnlyGrows'
  BY <1>1, <1>2 DEF WindowTypeInv, WindowInv, WindowBounded, WindowOnlyGrows, Searching, Time
<1>6. OfferWithinWindow'
  BY <1>1, <1>3 DEF WindowTypeInv, WindowInv, OfferWithinWindow, WindowOnlyGrows, Searching
<1> QED
  BY <1>4, <1>5, <1>6 DEF WindowInv

\* The two steps that only end an offer.
LEMMA OfferEndsWindow ==
  ASSUME WindowTypeInv, NEW r \in Rides, NEW d \in Drivers, NEW st \in {"EXPIRED", "REJECTED"},
         ride[r].status # "none",
         offer' = [offer EXCEPT ![r][d].status = st],
         UNCHANGED <<now, ride, count>>,
         worker' = worker \/ (worker'.step = "resume" /\ worker'.ride = r),
         \A q \in Requests : request'[q] = request[q] \/ request'[q].step = "idle"
  PROVE  WindowInv'
<1>1. offer \in [Rides -> [Drivers -> OfferRow]]
  BY DEF WindowTypeInv, TypeOK, RowsOK
<1>2. \A s \in Rides, e \in Drivers :
        \/ offer'[s][e] = offer[s][e]
        \/ s = r /\ offer'[s][e].status # "PENDING"
  BY <1>1
<1>3. NothingBeforeRide'
  BY <1>2 DEF WindowTypeInv, WindowInv, NothingBeforeRide
<1>4. WindowBounded' /\ WindowOnlyGrows'
  BY DEF WindowTypeInv, WindowInv, WindowBounded, WindowOnlyGrows, Searching, Time
<1>5. OfferWithinWindow'
  BY <1>2 DEF WindowTypeInv, WindowInv, OfferWithinWindow, Searching
<1> QED
  BY <1>3, <1>4, <1>5 DEF WindowInv

LEMMA ExpireOfferWindow ==
  ASSUME WindowTypeInv, NEW r \in Rides, NEW d \in Drivers, ExpireOffer(r, d)
  PROVE  WindowInv'
<1>1. CASE offer[r][d].status = "PENDING" /\ offer[r][d].expires <= now
  <2>1. ride[r].status # "none"
    BY <1>1 DEF WindowTypeInv, WindowInv, NothingBeforeRide
  <2>2. /\ offer' = [offer EXCEPT ![r][d].status = "EXPIRED"]
        /\ worker'.step = "resume" /\ worker'.ride = r
        /\ UNCHANGED <<now, ride, request, count>>
    BY <1>1 DEF ExpireOffer, IdleWorker
  <2> QED
    BY <2>1, <2>2, OfferEndsWindow
<1>2. CASE ~(offer[r][d].status = "PENDING" /\ offer[r][d].expires <= now)
  <2>1. UNCHANGED <<now, ride, offer, worker, request, count>>
    BY <1>2 DEF ExpireOffer
  <2> QED
    BY <2>1 DEF WindowTypeInv, WindowInv, NothingBeforeRide, WindowBounded, WindowOnlyGrows,
       OfferWithinWindow, Searching, Time
<1> QED
  BY <1>1, <1>2

LEMMA RejectCommitWindow ==
  ASSUME WindowTypeInv, NEW q \in Requests, RejectCommit(q)
  PROVE  WindowInv'
<1> DEFINE r == request[q].ride
           d == request[q].driver
           st == request[q].to
<1>1. r \in Rides /\ d \in Drivers /\ st \in {"EXPIRED", "REJECTED"}
  BY DEF RejectCommit, WindowTypeInv, TypeOK, RequestsOK, RequestOK
<1>2. ride[r].status # "none"
  BY <1>1 DEF RejectCommit, WindowTypeInv, WindowInv, NothingBeforeRide
<1>3. /\ offer' = [offer EXCEPT ![r][d].status = st]
      /\ UNCHANGED <<now, ride, worker, count>>
  BY DEF RejectCommit
<1>4. \A p \in Requests : request'[p] = request[p] \/ request'[p].step = "idle"
  BY IdleType DEF RejectCommit, End, WindowTypeInv, TypeOK, RequestsOK
<1> HIDE DEF r, d, st
<1> QED
  BY <1>1, <1>2, <1>3, <1>4, OfferEndsWindow

LEMMA CreateRideWindow ==
  ASSUME WindowTypeInv, NEW q \in Requests, NEW r \in Rides, CreateRide(q, r)
  PROVE  WindowInv'
<1>1. /\ ride[r].status = "none" /\ ride \in [Rides -> RideRow]
      /\ ride' = [ride EXCEPT ![r] = [status |-> "searching", driver |-> None,
                                      expires |-> now + Window]]
      /\ UNCHANGED <<now, offer, worker, count>>
      /\ now + Window \in Time
  BY TimeType, TimingAssumption DEF CreateRide, WindowTypeInv, TypeOK, RowsOK, Time
<1>2. \A p \in Requests : request'[p].step \in {"retry", "rejectCommit"} => request'[p] = request[p]
  BY DEF CreateRide, Begin, IdleRequest, WindowTypeInv, TypeOK, RequestsOK
<1>3. /\ \A d \in Drivers : offer[r][d].status = "none"
      /\ worker.step # "idle" => worker.ride # r
      /\ \A p \in Requests : request[p].step \in {"retry", "rejectCommit"} => request[p].ride # r
  BY <1>1 DEF WindowTypeInv, WindowInv, NothingBeforeRide
<1>4. \A s \in Rides : s # r => ride'[s] = ride[s]
  BY <1>1
<1>5. ride'[r].status = "searching" /\ ride'[r].expires = now + Window
  BY <1>1
<1>6. NothingBeforeRide'
  BY <1>1, <1>2, <1>4, <1>5 DEF WindowTypeInv, WindowInv, NothingBeforeRide
<1>7. WindowBounded'
  <2>1. now + Window <= now + Window
    BY <1>1, TimeType DEF Time
  <2> QED
    BY <1>1, <1>2, <1>4, <1>5, <2>1 DEF WindowTypeInv, WindowInv, WindowBounded, Searching, Time
<1>8. WindowOnlyGrows'
  <2>1. \A p \in Requests : request[p].step = "retry" => request[p].ride \in Rides
    BY DEF WindowTypeInv, TypeOK, RequestsOK, RequestOK
  <2>2. worker.step \in {"write", "schedule"} => worker.ride \in Rides
    BY DEF WindowTypeInv, TypeOK, WorkerOK
  <2> QED
    BY <1>1, <1>2, <1>3, <1>4, <2>1, <2>2 DEF WindowTypeInv, WindowInv, WindowOnlyGrows, Searching
<1>9. OfferWithinWindow'
  BY <1>1, <1>3, <1>4 DEF WindowTypeInv, WindowInv, OfferWithinWindow, Searching
<1> QED
  BY <1>6, <1>7, <1>8, <1>9 DEF WindowInv

\* A retry computes a window that ends no earlier than the one it has read.
LEMMA RetryRideWindow ==
  ASSUME WindowTypeInv, NEW q \in Requests, NEW r \in Rides, RetryRide(q, r)
  PROVE  WindowInv'
<1>1. /\ UNCHANGED <<now, ride, offer, worker>>
      /\ count'.retries = count.retries + 1 /\ count.retries \in Nat
      /\ ride[r].status = "searching"
      /\ now + Window \in Int
  BY TimeType, TimingAssumption DEF RetryRide, Open, rows, WindowTypeInv, TypeOK, BooksOK
<1>2. \A p \in Requests : p # q => request'[p] = request[p]
  BY DEF RetryRide, Begin, WindowTypeInv, TypeOK, RequestsOK
<1>3. /\ request'[q].step = "retry" /\ request'[q].ride = r /\ request'[q].at = now + Window
  BY DEF RetryRide, Begin, IdleRequest, WindowTypeInv, TypeOK, RequestsOK
<1>4. NothingBeforeRide'
  BY <1>1, <1>2, <1>3 DEF WindowTypeInv, WindowInv, NothingBeforeRide
<1>5. WindowBounded'
  <2>1. now + Window <= now + Window /\ count'.retries >= 1
    BY <1>1
  <2>2. \A p \in Requests : request'[p].step = "retry" => request'[p].at <= now' + Window
    BY <1>1, <1>2, <1>3, <2>1 DEF WindowTypeInv, WindowInv, WindowBounded
  <2> QED
    BY <1>1, <2>1, <2>2 DEF WindowTypeInv, WindowInv, WindowBounded, Searching, Time
<1>6. count'.retries <= 1 => count.retries = 0 /\ \A p \in Requests : request[p].step # "retry"
  BY <1>1 DEF WindowTypeInv, WindowInv, WindowBounded
<1>7. WindowOnlyGrows'
  <2>1. ride[r].expires <= now + Window
    BY <1>1 DEF WindowTypeInv, WindowInv, WindowBounded, Searching
  <2>2. count.retries = 0 => count.retries <= 1
    OBVIOUS
  <2> QED
    BY <1>1, <1>2, <1>3, <1>6, <2>1, <2>2 DEF WindowTypeInv, WindowInv, WindowOnlyGrows, Searching
<1>8. OfferWithinWindow'
  <2>1. count'.retries <= 1 => count.retries <= 1
    BY <1>1
  <2> QED
    BY <1>1, <2>1 DEF WindowTypeInv, WindowInv, OfferWithinWindow, Searching
<1> QED
  BY <1>4, <1>5, <1>7, <1>8 DEF WindowInv

LEMMA RetryRideFlushWindow ==
  ASSUME WindowTypeInv, NEW q \in Requests, RetryRideFlush(q)
  PROVE  WindowInv'
<1> DEFINE r == request[q].ride
           at == request[q].at
<1>1. /\ UNCHANGED <<now, offer, worker, count>>
      /\ request[q].step = "retry" /\ r \in Rides /\ at \in Time
      /\ request \in [Requests -> Request] /\ ride \in [Rides -> RideRow]
  BY DEF RetryRideFlush, WindowTypeInv, TypeOK, RequestsOK, RequestOK, RowsOK
<1>2. /\ \A s \in Rides : ride'[s].status = ride[s].status
      /\ \A s \in Rides : s # r => ride'[s].expires = ride[s].expires
      /\ ride'[r].expires = at
  BY <1>1 DEF RetryRideFlush, RideRow
<1>3. /\ \A p \in Requests : p # q => request'[p] = request[p]
      /\ request'[q].step = "enqueue"
  BY <1>1 DEF RetryRideFlush, Continue, Request
<1>4. NothingBeforeRide'
  BY <1>1, <1>2, <1>3 DEF WindowTypeInv, WindowInv, NothingBeforeRide
<1>5. WindowBounded'
  BY <1>1, <1>2, <1>3 DEF WindowTypeInv, WindowInv, WindowBounded, Searching, Time
<1>6. count.retries <= 1 /\ Searching(r) => ride[r].expires <= at
  BY <1>1 DEF WindowTypeInv, WindowInv, WindowOnlyGrows
<1>7. /\ Searching(r) => ride[r].expires \in Int
      /\ at \in Int
  BY <1>1, TimeType DEF WindowTypeInv, WindowInv, WindowBounded
<1>8. WindowOnlyGrows'
  <2> SUFFICES ASSUME count.retries <= 1 PROVE WindowOnlyGrows'
    BY <1>1 DEF WindowOnlyGrows
  <2>1. \A p \in Requests : request'[p].step # "retry"
    BY <1>1, <1>3 DEF WindowTypeInv, WindowInv, WindowOnlyGrows
  <2>2. ASSUME worker.step \in {"write", "schedule"}, Searching(worker.ride)'
        PROVE  worker.final <= ride'[worker.ride].expires
    <3>1. worker.ride \in Rides /\ worker.final \in Int
      BY <2>2, TimeType DEF WindowTypeInv, TypeOK, WorkerOK
    <3>2. Searching(worker.ride) /\ worker.final <= ride[worker.ride].expires
      BY <1>1, <1>2, <2>2, <3>1 DEF Searching, WindowTypeInv, WindowInv, WindowOnlyGrows
    <3> QED
      BY <1>2, <1>6, <1>7, <3>1, <3>2
  <2> QED
    BY <1>1, <2>1, <2>2 DEF WindowOnlyGrows
<1>9. OfferWithinWindow'
  <2> SUFFICES ASSUME count.retries <= 1, NEW s \in Rides, NEW d \in Drivers,
                      Searching(s)', offer[s][d].status = "PENDING"
               PROVE  offer[s][d].expires <= ride'[s].expires
    BY <1>1 DEF OfferWithinWindow
  <2>1. Searching(s) /\ offer[s][d].expires <= ride[s].expires
    BY <1>2 DEF Searching, WindowTypeInv, WindowInv, OfferWithinWindow
  <2>2. offer[s][d].expires \in Int
    <3>1. offer[s][d] \in OfferRow
      BY DEF WindowTypeInv, TypeOK, RowsOK
    <3>2. offer[s][d].expires \in Time \union {Null}
      BY <3>1 DEF OfferRow
    <3>3. CASE offer[s][d].expires \in Time
      BY <3>3, TimeType
    <3>4. CASE offer[s][d].expires = Null
      BY <3>4 DEF Null
    <3> QED
      BY <3>2, <3>3, <3>4
  <2> QED
    BY <1>2, <1>6, <1>7, <2>1, <2>2
<1> QED
  BY <1>4, <1>5, <1>8, <1>9 DEF WindowInv

LEMMA AcceptCommitWindow ==
  ASSUME WindowTypeInv, NEW q \in Requests, AcceptCommit(q)
  PROVE  WindowInv'
<1> DEFINE r == request[q].ride
           d == request[q].driver
<1>1. /\ UNCHANGED <<now, worker, count>> /\ r \in Rides /\ d \in Drivers
      /\ request \in [Requests -> Request] /\ ride \in [Rides -> RideRow]
      /\ offer \in [Rides -> [Drivers -> OfferRow]]
  BY DEF AcceptCommit, WindowTypeInv, TypeOK, RequestsOK, RequestOK, RowsOK
<1>2. /\ ride'[r].status = "accepted"
      /\ \A s \in Rides : s # r => ride'[s] = ride[s]
      /\ \A s \in Rides, e \in Drivers : s # r => offer'[s][e] = offer[s][e]
  BY <1>1 DEF AcceptCommit
<1>3. \A p \in Requests :
        request'[p].step \in {"retry", "rejectCommit"} => request'[p] = request[p]
  BY <1>1 DEF AcceptCommit, Continue, Request
<1>4. NothingBeforeRide'
  BY <1>1, <1>2, <1>3 DEF WindowTypeInv, WindowInv, NothingBeforeRide
<1>5. WindowBounded'
  BY <1>1, <1>2, <1>3 DEF WindowTypeInv, WindowInv, WindowBounded, Searching, Time
<1>6. WindowOnlyGrows'
  <2>1. \A p \in Requests : request[p].step = "retry" => request[p].ride \in Rides
    BY DEF WindowTypeInv, TypeOK, RequestsOK, RequestOK
  <2>2. worker.step \in {"write", "schedule"} => worker.ride \in Rides
    BY DEF WindowTypeInv, TypeOK, WorkerOK
  <2> QED
    BY <1>1, <1>2, <1>3, <2>1, <2>2 DEF WindowTypeInv, WindowInv, WindowOnlyGrows, Searching
<1>7. OfferWithinWindow'
  BY <1>1, <1>2 DEF WindowTypeInv, WindowInv, OfferWithinWindow, Searching
<1> QED
  BY <1>4, <1>5, <1>6, <1>7 DEF WindowInv

LEMMA RejectOfferWindow ==
  ASSUME WindowTypeInv, NEW q \in Requests, NEW r \in Rides, NEW d \in Drivers, RejectOffer(q, r, d)
  PROVE  WindowInv'
<1>1. /\ UNCHANGED <<now, ride, offer, worker>> /\ count'.retries = count.retries
      /\ offer[r][d].status = "PENDING"
  BY DEF RejectOffer, rows, WindowTypeInv, TypeOK, BooksOK
<1>2. /\ \A p \in Requests : p # q => request'[p] = request[p]
      /\ request'[q].step = "rejectCommit" /\ request'[q].ride = r
  BY DEF RejectOffer, Begin, IdleRequest, WindowTypeInv, TypeOK, RequestsOK
<1>3. NothingBeforeRide'
  BY <1>1, <1>2 DEF WindowTypeInv, WindowInv, NothingBeforeRide
<1>4. WindowBounded' /\ WindowOnlyGrows' /\ OfferWithinWindow'
  BY <1>1, <1>2 DEF WindowTypeInv, WindowInv, WindowBounded, WindowOnlyGrows, OfferWithinWindow,
     Searching, Time
<1> QED
  BY <1>3, <1>4 DEF WindowInv

LEMMA NextWindow == WindowTypeInv /\ [Next]_vars => WindowTypeInv'
<1> SUFFICES ASSUME WindowTypeInv, [Next]_vars PROVE WindowTypeInv'
  OBVIOUS
<1>1. TypeOK'
  BY NextTypeOK DEF WindowTypeInv
<1>2. Calm => WindowInv'
  BY <1>1, CalmKeepsWindow DEF TypeOK
<1>3. CASE Tick \/ WorkerFault \/ Crash \/ UNCHANGED vars
  BY <1>1, <1>2, <1>3, CalmSteps DEF WindowTypeInv
<1>4. CASE WorkerStep
  BY <1>1, <1>2, <1>4, CalmSteps, CreateOfferReadWindow, WriteOfferWindow, ExpireOfferWindow
     DEF WorkerStep, WindowTypeInv
<1>5. ASSUME NEW q \in Requests, RequestStart(q) PROVE WindowTypeInv'
  BY <1>1, <1>2, <1>5, CalmSteps, CreateRideWindow, RetryRideWindow, RejectOfferWindow
     DEF RequestStart, WindowTypeInv
<1>6. ASSUME NEW q \in Requests, RequestStep(q) \/ RequestFails(q) PROVE WindowTypeInv'
  BY <1>1, <1>2, <1>6, CalmSteps, RetryRideFlushWindow, AcceptCommitWindow, RejectCommitWindow
     DEF RequestStep, WindowTypeInv
<1> QED
  BY <1>3, <1>4, <1>5, <1>6 DEF Next

\* The window invariant, for any number of retries.
THEOREM WindowTheorem == Spec => []WindowInv
<1>1. WindowTypeInv => WindowInv
  BY DEF WindowTypeInv
<1> QED
  BY <1>1, InitWindow, NextWindow, PTL DEF Spec

\* As long as there has been one retry at most, no offer can be PENDING beyond
\* the search window of its ride.
THEOREM OfferWithinWindowTheorem == Spec => []OfferWithinWindow
<1>1. WindowInv => OfferWithinWindow
  BY DEF WindowInv
<1> QED
  BY <1>1, WindowTheorem, PTL

-----------------------------------------------------------------------------
(***************************************************************************)
(* Requests one at a time.  With a single slot, and drivers whose status   *)
(* only accepts change, what an accept has read of its driver and its ride *)
(* still holds when it writes them, whatever the worker does meanwhile.    *)
(***************************************************************************)
OneAtATime == (\A p, q \in Requests : p = q) /\ MaxStatusChanges = 0

StillAsRead(q) ==
  /\ request[q].step \in {"acceptOffer", "acceptCommit"} => driver[request[q].driver] = "AVAILABLE"
  /\ request[q].step = "acceptCommit" => Open(request[q].ride)
  /\ request[q].step # "status"

SequentialInv == TypeOK /\ \A q \in Requests : StillAsRead(q)

\* Two kinds of step write a driver.
LEMMA DriverWriters ==
  ASSUME [Next]_vars
  PROVE  UNCHANGED driver \/ \E q \in Requests : AcceptCommit(q) \/ UpdateStatusFlush(q)
<1>1. Tick \/ WorkerStep \/ WorkerFault \/ Crash \/ UNCHANGED vars => UNCHANGED driver
  BY DEF Tick, WorkerStep, StartMatching, FindNearbyDrivers, NextDriver, Reschedule,
     CreateOfferRead, WriteOffer, WriteStaleOffer, SendDriverOffer, Recover, ExpireOffer,
     ResumeMatching, WorkerFault, HandlerFails, ExpireOfferFails, Crash, rows, vars
<1>2. ASSUME NEW q \in Requests, RequestStart(q) \/ RequestFails(q) PROVE UNCHANGED driver
  BY <1>2 DEF RequestStart, CreateRide, RetryRide, AcceptRideOffer, RejectOffer, UpdateStatus,
     RequestFails, rows
<1>3. ASSUME NEW q \in Requests, RequestStep(q), ~AcceptCommit(q), ~UpdateStatusFlush(q)
      PROVE  UNCHANGED driver
  BY <1>3 DEF RequestStep, RetryRideFlush, Enqueue, AcceptReadOffer, AcceptExpired, AcceptRefused,
     AcceptAnnounce, RejectCommit, rows
<1> QED
  BY <1>1, <1>2, <1>3 DEF Next

LEMMA InitSequential == Init => SequentialInv
<1>1. IdleRequest.step = "idle"
  BY IdleType
<1> QED
  BY <1>1, InitTypeOK DEF Init, SequentialInv, StillAsRead

LEMMA SequentialStart ==
  ASSUME OneAtATime, SequentialInv, NEW q \in Requests, RequestStart(q)
  PROVE  StillAsRead(q)'
<1>1. /\ request \in [Requests -> Request]
      /\ count.changes \in Nat
  BY DEF SequentialInv, TypeOK, RequestsOK, BooksOK
<1>2. ASSUME NEW req, Begin(q, req), req.step \in {"enqueue", "retry", "rejectCommit"}
      PROVE  StillAsRead(q)'
  BY <1>1, <1>2 DEF Begin, StillAsRead
<1>3. ASSUME NEW r \in Rides, CreateRide(q, r) PROVE StillAsRead(q)'
  <2>1. PICK req : req = [IdleRequest EXCEPT !.step = "enqueue", !.ride = r]
    OBVIOUS
  <2>2. req.step = "enqueue"
    BY <2>1 DEF IdleRequest
  <2> QED
    BY <1>2, <1>3, <2>1, <2>2 DEF CreateRide
<1>4. ASSUME NEW r \in Rides, RetryRide(q, r) PROVE StillAsRead(q)'
  <2>1. PICK req : req = [IdleRequest EXCEPT !.step = "retry", !.ride = r, !.at = now + Window]
    OBVIOUS
  <2>2. req.step = "retry"
    BY <2>1 DEF IdleRequest
  <2> QED
    BY <1>2, <1>4, <2>1, <2>2 DEF RetryRide
<1>5. ASSUME NEW r \in Rides, NEW d \in Drivers, AcceptRideOffer(q, r, d) PROVE StillAsRead(q)'
  <2>1. PICK req : req = [IdleRequest EXCEPT !.step = "acceptOffer", !.ride = r, !.driver = d]
    OBVIOUS
  <2>2. req.step = "acceptOffer" /\ req.driver = d
    BY <2>1 DEF IdleRequest
  <2>3. request'[q] = req /\ driver[d] = "AVAILABLE" /\ UNCHANGED driver
    BY <1>1, <1>5, <2>1 DEF AcceptRideOffer, Begin, rows
  <2> QED
    BY <2>2, <2>3 DEF StillAsRead
<1>6. ASSUME NEW r \in Rides, NEW d \in Drivers, RejectOffer(q, r, d) PROVE StillAsRead(q)'
  <2>1. PICK req : req = [IdleRequest EXCEPT !.step = "rejectCommit", !.ride = r, !.driver = d,
                                             !.to = IF Live(r, d) THEN "REJECTED" ELSE "EXPIRED"]
    OBVIOUS
  <2>2. req.step = "rejectCommit"
    BY <2>1 DEF IdleRequest
  <2> QED
    BY <1>2, <1>6, <2>1, <2>2 DEF RejectOffer
<1>7. ASSUME NEW d \in Drivers, NEW s \in DriverStatuses PROVE ~UpdateStatus(q, d, s)
  BY <1>1 DEF UpdateStatus, OneAtATime
<1> QED
  BY <1>3, <1>4, <1>5, <1>6, <1>7 DEF RequestStart

LEMMA SequentialEnd ==
  ASSUME SequentialInv, NEW q \in Requests, RequestStep(q) \/ RequestFails(q)
  PROVE  StillAsRead(q)'
<1>1. /\ request \in [Requests -> Request] /\ request[q] \in Request /\ StillAsRead(q)
      /\ IdleRequest.step = "idle"
  BY IdleType DEF SequentialInv, TypeOK, RequestsOK
<1>2. CASE End(q)
  BY <1>1, <1>2 DEF End, StillAsRead
<1>3. CASE Continue(q, "enqueue") \/ Continue(q, "acceptRoute")
  <2>1. request'[q].step \in {"enqueue", "acceptRoute"}
    BY <1>1, <1>3 DEF Continue, Request
  <2> QED
    BY <2>1 DEF StillAsRead
<1>4. CASE AcceptReadOffer(q)
  <2>1. /\ request'[q].step = "acceptCommit" /\ request'[q].ride = request[q].ride
        /\ request'[q].driver = request[q].driver
    BY <1>1, <1>4 DEF AcceptReadOffer, Continue, Request
  <2>2. /\ Open(request[q].ride) /\ driver[request[q].driver] = "AVAILABLE"
        /\ UNCHANGED <<ride, driver>>
    BY <1>1, <1>4 DEF AcceptReadOffer, StillAsRead, rows
  <2> QED
    BY <2>1, <2>2 DEF StillAsRead, Open
<1> QED
  BY <1>2, <1>3, <1>4 DEF RequestStep, RequestFails, RetryRideFlush, Enqueue, AcceptExpired,
     AcceptRefused, AcceptCommit, AcceptAnnounce, RejectCommit, UpdateStatusFlush

LEMMA SequentialStep ==
  ASSUME OneAtATime, SequentialInv, [Next]_vars
  PROVE  SequentialInv'
<1>1. TypeOK'
  BY NextTypeOK DEF SequentialInv
<1> SUFFICES ASSUME NEW q \in Requests PROVE StillAsRead(q)'
  BY <1>1 DEF SequentialInv
<1>2. CASE UNCHANGED <<ride, driver, request>>
  BY <1>2 DEF SequentialInv, StillAsRead, Open
<1>3. Tick \/ WorkerStep \/ WorkerFault \/ UNCHANGED vars => UNCHANGED <<ride, driver, request>>
  BY DEF Tick, WorkerStep, StartMatching, FindNearbyDrivers, NextDriver, Reschedule,
     CreateOfferRead, WriteOffer, WriteStaleOffer, SendDriverOffer, Recover, ExpireOffer,
     ResumeMatching, WorkerFault, HandlerFails, ExpireOfferFails, rows, vars
<1>4. CASE Crash
  BY <1>4, IdleType DEF Crash, StillAsRead
<1>5. ASSUME NEW p \in Requests, RequestStart(p) \/ RequestStep(p) \/ RequestFails(p)
      PROVE  StillAsRead(q)'
  <2>1. p = q
    BY DEF OneAtATime
  <2> QED
    BY <1>5, <2>1, SequentialStart, SequentialEnd
<1> QED
  BY <1>2, <1>3, <1>4, <1>5 DEF Next

\* The state that RideAssignment sees.
Requested == {r \in Rides : ride[r].status # "none"}
Assigned  == [r \in Rides |-> ride[r].driver]
Free      == {d \in Drivers : driver[d] = "AVAILABLE"}

LEMMA AssignmentInit == Init => Assignment!Init
  BY DEF Init, Assignment!Init

\* An accept assigns a driver who is free to a ride that has none.
LEMMA AcceptAssigns ==
  ASSUME SequentialInv, NEW q \in Requests, AcceptCommit(q)
  PROVE  Assignment!Next
<1>1. PICK r \in Rides, d \in Drivers : r = request[q].ride /\ d = request[q].driver
  BY DEF AcceptCommit, SequentialInv, TypeOK, RequestsOK, RequestOK
<1>2. /\ Open(r) /\ driver[d] = "AVAILABLE"
      /\ ride \in [Rides -> RideRow] /\ driver \in [Drivers -> DriverStatuses]
  BY <1>1 DEF AcceptCommit, SequentialInv, StillAsRead, TypeOK, RowsOK
<1>3. /\ ride' = [ride EXCEPT ![r] = [status |-> "accepted", driver |-> d, expires |-> Null]]
      /\ driver' = [driver EXCEPT ![d] = "BUSY"]
  BY <1>1 DEF AcceptCommit
<1>4. Requested' = Requested /\ r \in Requested
  BY <1>2, <1>3 DEF Requested, Open
<1>5. Assigned' = [Assigned EXCEPT ![r] = d] /\ Assigned[r] = None
  BY <1>2, <1>3 DEF Assigned, Open
<1>6. Free' = Free \ {d} /\ d \in Free
  BY <1>2, <1>3 DEF Free
<1>7. Assignment!Assign(r, d)
  BY <1>4, <1>5, <1>6 DEF Assignment!Assign, Requested, Assigned, Free
<1> QED
  BY <1>7 DEF Assignment!Next

LEMMA AssignmentStep ==
  ASSUME AssignmentInv, SequentialInv, [Next]_vars
  PROVE  [Assignment!Next]_<<Requested, Assigned, Free>>
<1>1. TypeOK /\ ride \in [Rides -> RideRow] /\ \A q \in Requests : ~UpdateStatusFlush(q)
  BY DEF SequentialInv, StillAsRead, UpdateStatusFlush, TypeOK, RowsOK
<1>2. CASE \E q \in Requests : AcceptCommit(q)
  BY <1>2, AcceptAssigns
<1>3. CASE ~\E q \in Requests : AcceptCommit(q)
  <2>1. UNCHANGED driver
    BY <1>1, <1>3, DriverWriters
  <2>2. Free' = Free
    BY <2>1 DEF Free
  <2>3. CASE UNCHANGED ride
    BY <2>2, <2>3 DEF Requested, Assigned
  <2>4. ASSUME NEW q \in Requests, RetryRideFlush(q) PROVE UNCHANGED <<Requested, Assigned, Free>>
    <3>1. \A r \in Rides : ride'[r].status = ride[r].status /\ ride'[r].driver = ride[r].driver
      BY <2>4, RetryRideFlushAssignment
    <3> QED
      BY <2>2, <3>1 DEF Requested, Assigned
  <2>5. ASSUME NEW q \in Requests, NEW r \in Rides, CreateRide(q, r) PROVE Assignment!Next
    <3>1. ride[r].status = "none" /\ ride[r].driver = None
      BY <2>5 DEF CreateRide, AssignmentInv, AssignedIffAccepted
    <3>2. ride' = [ride EXCEPT ![r] = [status |-> "searching", driver |-> None, expires |-> now + Window]]
      BY <2>5 DEF CreateRide
    <3>3. r \notin Requested /\ Requested' = Requested \union {r}
      BY <1>1, <3>1, <3>2 DEF Requested
    <3>4. Assigned' = Assigned
      BY <1>1, <3>1, <3>2 DEF Assigned
    <3>5. Assignment!Request(r)
      BY <2>2, <3>3, <3>4 DEF Assignment!Request, Requested, Assigned, Free
    <3> QED
      BY <3>5 DEF Assignment!Next
  <2> QED
    BY <1>1, <1>3, <2>3, <2>4, <2>5, RideWriters DEF NothingAccepted
<1> QED
  BY <1>2, <1>3

\* While requests do not overlap and only accepts change the status of a driver,
\* ride matching implements RideAssignment: a ride gets a driver once, and a driver
\* who is free until then and not free from then on, whatever the worker, the clock,
\* retries, rejects, faults and crashes do.
THEOREM ImplementsAssignmentTheorem ==
  ASSUME OneAtATime
  PROVE  Spec => ImplementsAssignment
<1>1. Init => Assignment!Init
  BY AssignmentInit
<1>2. Init => SequentialInv
  BY InitSequential
<1>3. SequentialInv /\ [Next]_vars => SequentialInv'
  BY SequentialStep
<1>4. AssignmentInv /\ SequentialInv /\ [Next]_vars
        => [Assignment!Next]_<<Requested, Assigned, Free>>
  BY AssignmentStep
<1> QED
  BY <1>1, <1>2, <1>3, <1>4, AssignmentInvariant, PTL
     DEF Spec, ImplementsAssignment, Assignment!Spec, Requested, Assigned, Free

-----------------------------------------------------------------------------
(***************************************************************************)
(* Requests that overlap.  All that an accept knows when it writes is that *)
(* it has once read the ride without a driver.                             *)
(***************************************************************************)
Checked == {<<request[q].ride, request[q].driver>> :
              q \in {p \in Requests : request[p].step = "acceptCommit"}}

\* An accept that has passed is for a ride that has been requested.
ContestInv ==
  /\ AssignmentInv
  /\ \A q \in Requests : request[q].step = "acceptCommit" => ride[request[q].ride].status # "none"

\* Only AcceptReadOffer lets an accept pass.
LEMMA OthersPassNothing ==
  ASSUME TypeOK, [Next]_vars, \A q \in Requests : ~AcceptReadOffer(q), NEW p \in Requests,
         request'[p].step = "acceptCommit"
  PROVE  request'[p] = request[p]
<1>1. request \in [Requests -> Request] /\ IdleRequest.step = "idle"
  BY IdleType DEF TypeOK, RequestsOK
<1>2. Tick \/ WorkerStep \/ WorkerFault \/ UNCHANGED vars => UNCHANGED request
  BY DEF Tick, WorkerStep, StartMatching, FindNearbyDrivers, NextDriver, Reschedule,
     CreateOfferRead, WriteOffer, WriteStaleOffer, SendDriverOffer, Recover, ExpireOffer,
     ResumeMatching, WorkerFault, HandlerFails, ExpireOfferFails, vars
<1>3. ~Crash
  BY <1>1 DEF Crash
<1>4. ASSUME NEW q \in Requests, RequestStep(q) \/ RequestFails(q) PROVE request'[p] = request[p]
  <2>1. \/ End(q) \/ Continue(q, "enqueue") \/ Continue(q, "acceptRoute")
    BY <1>4 DEF RequestStep, RequestFails, RetryRideFlush, Enqueue, AcceptExpired,
       AcceptRefused, AcceptCommit, AcceptAnnounce, RejectCommit, UpdateStatusFlush
  <2>2. request'[q].step # "acceptCommit" /\ (p # q => request'[p] = request[p])
    BY <1>1, <2>1 DEF End, Continue, Request
  <2> QED
    BY <2>2
<1>5. ASSUME NEW q \in Requests, NEW req, Begin(q, req), req.step # "acceptCommit"
      PROVE  request'[p] = request[p]
  BY <1>1, <1>5 DEF Begin
<1>6. ASSUME NEW q \in Requests, RequestStart(q) PROVE request'[p] = request[p]
  <2>1. ASSUME NEW r \in Rides, CreateRide(q, r) PROVE request'[p] = request[p]
    <3>1. PICK req : req = [IdleRequest EXCEPT !.step = "enqueue", !.ride = r]
      OBVIOUS
    <3>2. req.step = "enqueue"
      BY <3>1 DEF IdleRequest
    <3> QED
      BY <1>5, <2>1, <3>1, <3>2 DEF CreateRide
  <2>2. ASSUME NEW r \in Rides, RetryRide(q, r) PROVE request'[p] = request[p]
    <3>1. PICK req : req = [IdleRequest EXCEPT !.step = "retry", !.ride = r, !.at = now + Window]
      OBVIOUS
    <3>2. req.step = "retry"
      BY <3>1 DEF IdleRequest
    <3> QED
      BY <1>5, <2>2, <3>1, <3>2 DEF RetryRide
  <2>3. ASSUME NEW r \in Rides, NEW d \in Drivers, AcceptRideOffer(q, r, d) PROVE request'[p] = request[p]
    <3>1. PICK req : req = [IdleRequest EXCEPT !.step = "acceptOffer", !.ride = r, !.driver = d]
      OBVIOUS
    <3>2. req.step = "acceptOffer"
      BY <3>1 DEF IdleRequest
    <3> QED
      BY <1>5, <2>3, <3>1, <3>2 DEF AcceptRideOffer
  <2>4. ASSUME NEW r \in Rides, NEW d \in Drivers, RejectOffer(q, r, d) PROVE request'[p] = request[p]
    <3>1. PICK req : req = [IdleRequest EXCEPT !.step = "rejectCommit", !.ride = r, !.driver = d,
                                               !.to = IF Live(r, d) THEN "REJECTED" ELSE "EXPIRED"]
      OBVIOUS
    <3>2. req.step = "rejectCommit"
      BY <3>1 DEF IdleRequest
    <3> QED
      BY <1>5, <2>4, <3>1, <3>2 DEF RejectOffer
  <2>5. ASSUME NEW d \in Drivers, NEW st \in DriverStatuses, UpdateStatus(q, d, st) PROVE request'[p] = request[p]
    <3>1. PICK req : req = [IdleRequest EXCEPT !.step = "status", !.driver = d, !.to = st]
      OBVIOUS
    <3>2. req.step = "status"
      BY <3>1 DEF IdleRequest
    <3> QED
      BY <1>5, <2>5, <3>1, <3>2 DEF UpdateStatus
  <2> QED
    BY <1>6, <2>1, <2>2, <2>3, <2>4, <2>5 DEF RequestStart
<1> QED
  BY <1>2, <1>3, <1>4, <1>6 DEF Next

LEMMA AcceptReadChecks ==
  ASSUME TypeOK, NEW q \in Requests, AcceptReadOffer(q)
  PROVE  Contest!Next
<1>1. PICK r \in Rides, d \in Drivers : r = request[q].ride /\ d = request[q].driver
  BY DEF AcceptReadOffer, TypeOK, RequestsOK, RequestOK
<1>2. Open(r) /\ UNCHANGED ride /\ request \in [Requests -> Request]
  BY <1>1 DEF AcceptReadOffer, rows, TypeOK, RequestsOK
<1>3. /\ request'[q].step = "acceptCommit" /\ request'[q].ride = r /\ request'[q].driver = d
      /\ \A p \in Requests : p # q => request'[p] = request[p]
      /\ request[q].step # "acceptCommit"
  BY <1>1, <1>2 DEF AcceptReadOffer, Continue, Request
<1>4. Checked' = Checked \union {<<r, d>>}
  BY <1>3 DEF Checked
<1>5. r \in Requested /\ Assigned[r] = None /\ UNCHANGED <<Requested, Assigned>>
  BY <1>2 DEF Requested, Assigned, Open
<1>6. Contest!Check(r, d)
  BY <1>4, <1>5 DEF Contest!Check, Requested, Assigned, Checked
<1> QED
  BY <1>6 DEF Contest!Next

LEMMA AcceptCommitContest ==
  ASSUME ContestInv, NEW q \in Requests, AcceptCommit(q)
  PROVE  Contest!Next
<1>1. PICK r \in Rides, d \in Drivers : r = request[q].ride /\ d = request[q].driver
  BY DEF AcceptCommit, ContestInv, AssignmentInv, TypeOK, RequestsOK, RequestOK
<1>2. ride \in [Rides -> RideRow] /\ request \in [Requests -> Request]
  BY DEF ContestInv, AssignmentInv, TypeOK, RowsOK, RequestsOK
<1>3. /\ request[q].step = "acceptCommit" /\ request'[q].step # "acceptCommit"
      /\ \A p \in Requests : p # q => request'[p] = request[p]
      /\ ride' = [ride EXCEPT ![r] = [status |-> "accepted", driver |-> d, expires |-> Null]]
  BY <1>1, <1>2 DEF AcceptCommit, Continue, Request
<1>4. <<r, d>> \in Checked /\ Checked' \in {Checked, Checked \ {<<r, d>>}}
  <2>1. <<r, d>> \in Checked
    BY <1>1, <1>3 DEF Checked
  <2>2. Checked' \subseteq Checked
    BY <1>3 DEF Checked
  <2>3. ASSUME NEW x \in Checked, x # <<r, d>> PROVE x \in Checked'
    BY <1>1, <1>3, <2>3 DEF Checked
  <2> QED
    BY <2>1, <2>2, <2>3
<1>5. r \in Requested
  BY <1>1, <1>3 DEF ContestInv, Requested
<1>6. Requested' = Requested
  BY <1>2, <1>3, <1>5 DEF Requested
<1>7. Assigned' = [Assigned EXCEPT ![r] = d]
  BY <1>2, <1>3 DEF Assigned
<1>8. Contest!Assign(r, d)
  BY <1>4, <1>5, <1>6, <1>7 DEF Contest!Assign, Requested, Assigned, Checked
<1> QED
  BY <1>8 DEF Contest!Next

\* A ride once requested stays so, ...
LEMMA RequestedStays ==
  ASSUME AssignmentInv, [Next]_vars, NEW r \in Rides, ride[r].status # "none"
  PROVE  ride'[r].status # "none"
<1>1. TypeOK /\ ride \in [Rides -> RideRow]
  BY DEF AssignmentInv, TypeOK, RowsOK
<1>2. ASSUME NEW q \in Requests, NEW s \in Rides, CreateRide(q, s) PROVE ride'[r].status # "none"
  BY <1>1, <1>2 DEF CreateRide
<1>3. ASSUME NEW q \in Requests, RetryRideFlush(q) PROVE ride'[r].status # "none"
  BY <1>1, <1>3, RetryRideFlushAssignment
<1>4. ASSUME NEW q \in Requests, AcceptCommit(q) PROVE ride'[r].status # "none"
  BY <1>1, <1>4 DEF AcceptCommit
<1> QED
  BY <1>1, <1>2, <1>3, <1>4, RideWriters DEF NothingAccepted

LEMMA ContestInvStep == ContestInv /\ [Next]_vars => ContestInv'
<1> SUFFICES ASSUME ContestInv, [Next]_vars PROVE ContestInv'
  OBVIOUS
<1>1. AssignmentInv /\ TypeOK /\ AssignmentInv'
  BY NextAssignmentInv DEF ContestInv, AssignmentInv
<1>2. ASSUME NEW p \in Requests, request'[p].step = "acceptCommit"
      PROVE  ride'[request'[p].ride].status # "none"
  <2>1. CASE request'[p] = request[p]
    <3>1. request[p].ride \in Rides /\ ride[request[p].ride].status # "none"
      BY <1>1, <1>2, <2>1 DEF ContestInv, TypeOK, RequestsOK, RequestOK
    <3> QED
      BY <1>1, <2>1, <3>1, RequestedStays
  <2>2. ASSUME NEW q \in Requests, AcceptReadOffer(q), request'[p] # request[p]
        PROVE  ride'[request'[p].ride].status # "none"
    <3>1. request'[p].ride = request[p].ride /\ p = q
      BY <1>1, <2>2 DEF AcceptReadOffer, Continue, TypeOK, RequestsOK, Request
    <3> QED
      BY <2>2, <3>1 DEF AcceptReadOffer, Open, rows
  <2> QED
    BY <1>1, <1>2, <2>1, <2>2, OthersPassNothing
<1> QED
  BY <1>1, <1>2 DEF ContestInv

LEMMA ContestStep ==
  ASSUME ContestInv, [Next]_vars
  PROVE  [Contest!Next]_<<Requested, Assigned, Checked>>
<1>1. AssignmentInv /\ TypeOK /\ ride \in [Rides -> RideRow]
  BY DEF ContestInv, AssignmentInv, TypeOK, RowsOK
<1>2. CASE \E q \in Requests : AcceptReadOffer(q) \/ AcceptCommit(q)
  BY <1>1, <1>2, AcceptReadChecks, AcceptCommitContest
<1>3. CASE ~\E q \in Requests : AcceptReadOffer(q) \/ AcceptCommit(q)
  <2>1. Checked' \subseteq Checked
    BY <1>1, <1>3, OthersPassNothing DEF Checked
  <2>2. CASE UNCHANGED <<Requested, Assigned>>
    <3>1. Contest!GiveUp
      BY <2>1, <2>2 DEF Contest!GiveUp, Requested, Assigned, Checked
    <3> QED
      BY <3>1 DEF Contest!Next
  <2>3. CASE UNCHANGED ride
    BY <2>2, <2>3 DEF Requested, Assigned
  <2>4. ASSUME NEW q \in Requests, RetryRideFlush(q) PROVE UNCHANGED <<Requested, Assigned>>
    <3>1. \A r \in Rides : ride'[r].status = ride[r].status /\ ride'[r].driver = ride[r].driver
      BY <1>1, <2>4, RetryRideFlushAssignment
    <3> QED
      BY <3>1 DEF Requested, Assigned
  <2>5. ASSUME NEW q \in Requests, NEW r \in Rides, CreateRide(q, r) PROVE Contest!Next
    <3>1. ride[r].status = "none" /\ ride[r].driver = None
      BY <1>1, <2>5 DEF CreateRide, AssignmentInv, AssignedIffAccepted
    <3>2. ride' = [ride EXCEPT ![r] = [status |-> "searching", driver |-> None, expires |-> now + Window]]
      BY <2>5 DEF CreateRide
    <3>3. r \notin Requested /\ Requested' = Requested \union {r} /\ Assigned' = Assigned
      BY <1>1, <3>1, <3>2 DEF Requested, Assigned
    <3>4. Checked' = Checked
      <4>1. PICK req : req = [IdleRequest EXCEPT !.step = "enqueue", !.ride = r]
        OBVIOUS
      <4>2. Begin(q, req) /\ req.step = "enqueue"
        BY <2>5, <4>1 DEF CreateRide, IdleRequest
      <4>3. request \in [Requests -> Request]
        BY <1>1 DEF TypeOK, RequestsOK
      <4>4. /\ request[q].step = "idle" /\ request'[q].step = "enqueue"
            /\ \A p \in Requests : p # q => request'[p] = request[p]
        BY <4>2, <4>3, IdleType DEF Begin
      <4> QED
        BY <4>4 DEF Checked
    <3>5. Contest!Request(r)
      BY <3>3, <3>4 DEF Contest!Request, Requested, Assigned, Checked
    <3> QED
      BY <3>5 DEF Contest!Next
  <2> QED
    BY <1>1, <1>3, <2>2, <2>3, <2>4, <2>5, RideWriters DEF NothingAccepted
<1> QED
  BY <1>2, <1>3

\* However requests, the worker, retries, rejects, faults and crashes overlap, a ride
\* gets a driver, or another one, only by an accept that has read it without one.
THEOREM ImplementsContestTheorem == Spec => ImplementsContest
<1>1. Init => Contest!Init
  BY IdleType DEF Init, Contest!Init
<1>2. Init => ContestInv
  BY InitAssignmentInv, IdleType DEF Init, ContestInv
<1>3. ContestInv /\ [Next]_vars => ContestInv'
  BY ContestInvStep
<1>4. ContestInv /\ [Next]_vars => [Contest!Next]_<<Requested, Assigned, Checked>>
  BY ContestStep
<1> QED
  BY <1>1, <1>2, <1>3, <1>4, PTL
     DEF Spec, ImplementsContest, Contest!Spec, Requested, Assigned, Checked
=============================================================================
