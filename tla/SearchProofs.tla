---------------------------- MODULE SearchProofs ----------------------------
(***************************************************************************)
(* Theorems about the search for a driver, as long as nothing but the      *)
(* drivers' own behaviour disturbs it: for any rides, drivers and request  *)
(* slots, and any timing.                                                  *)
(***************************************************************************)
EXTENDS RideMatchingProofs

\* The inductive invariant: SearchInv, and what is known of rides, windows and
\* accepts from the invariants proved before.
SearchTypeInv == WindowTypeInv /\ AssignmentInv /\ SearchInv

LEMMA Shapes ==
  ASSUME TypeOK
  PROVE  /\ now \in Time /\ now \in Int
         /\ matchJobs \in [Rides -> [Time -> Nat]]
         /\ timeoutJob \in [Rides -> [Drivers -> Time \union {Null}]]
         /\ ride \in [Rides -> RideRow]
         /\ offer \in [Rides -> [Drivers -> OfferRow]]
         /\ worker \in Worker
         /\ request \in [Requests -> Request]
         /\ worker.step # "idle" => worker.ride \in Rides
         /\ worker.step \in {"offer", "write", "schedule", "resume"} => worker.driver \in Drivers
         /\ worker.step \in {"write", "schedule"} => worker.final \in Time
  BY TimeType DEF TypeOK, RowsOK, JobsOK, WorkerOK, RequestsOK

\* The carriers of a ride, kind by kind.
CarrierKinds ==
  \A r \in Rides :
    /\ \A x \in Carriers(r) : \/ \E q \in Requests : x = <<"request", q>>
                              \/ \E t \in Time : x = <<"job", t>>
                              \/ \E d \in Drivers : x = <<"timeout", d>>
                              \/ x = <<"worker", r>>
    /\ \A q \in Requests : <<"request", q>> \in Carriers(r)
                             <=> request[q].step = "enqueue" /\ request[q].ride = r
    /\ \A t \in Time : <<"job", t>> \in Carriers(r) <=> matchJobs[r][t] > 0
    /\ \A d \in Drivers : <<"timeout", d>> \in Carriers(r) <=> timeoutJob[r][d] # Null
    /\ <<"worker", r>> \in Carriers(r) <=> worker.step # "idle" /\ worker.ride = r

LEMMA CarrierMembers == CarrierKinds /\ CarrierKinds'
<1>1. CarrierKinds
  BY DEF CarrierKinds, Carriers
<1>2. CarrierKinds'
  BY DEF CarrierKinds, Carriers
<1> QED
  BY <1>1, <1>2

LEMMA RequestCarrier ==
  ASSUME NEW r \in Rides, NEW q \in Requests
  PROVE  /\ <<"request", q>> \in Carriers(r) <=> request[q].step = "enqueue" /\ request[q].ride = r
         /\ <<"request", q>> \in Carriers(r)' <=> request'[q].step = "enqueue" /\ request'[q].ride = r
<1>1. <<"request", q>> \in Carriers(r) <=> request[q].step = "enqueue" /\ request[q].ride = r
  BY CarrierMembers DEF CarrierKinds
<1>2. <<"request", q>> \in Carriers(r)' <=> request'[q].step = "enqueue" /\ request'[q].ride = r
  BY CarrierMembers DEF CarrierKinds
<1> QED
  BY <1>1, <1>2

LEMMA JobCarrier ==
  ASSUME NEW r \in Rides, NEW t \in Time
  PROVE  /\ <<"job", t>> \in Carriers(r) <=> matchJobs[r][t] > 0
         /\ <<"job", t>> \in Carriers(r)' <=> matchJobs'[r][t] > 0
<1>1. <<"job", t>> \in Carriers(r) <=> matchJobs[r][t] > 0
  BY CarrierMembers DEF CarrierKinds
<1>2. <<"job", t>> \in Carriers(r)' <=> matchJobs'[r][t] > 0
  BY CarrierMembers DEF CarrierKinds, Time
<1> QED
  BY <1>1, <1>2

LEMMA TimeoutCarrier ==
  ASSUME NEW r \in Rides, NEW d \in Drivers
  PROVE  /\ <<"timeout", d>> \in Carriers(r) <=> timeoutJob[r][d] # Null
         /\ <<"timeout", d>> \in Carriers(r)' <=> timeoutJob'[r][d] # Null
<1>1. <<"timeout", d>> \in Carriers(r) <=> timeoutJob[r][d] # Null
  BY CarrierMembers DEF CarrierKinds
<1>2. <<"timeout", d>> \in Carriers(r)' <=> timeoutJob'[r][d] # Null
  BY CarrierMembers DEF CarrierKinds, Null
<1> QED
  BY <1>1, <1>2

LEMMA WorkerCarrier ==
  ASSUME NEW r \in Rides
  PROVE  /\ <<"worker", r>> \in Carriers(r) <=> worker.step # "idle" /\ worker.ride = r
         /\ <<"worker", r>> \in Carriers(r)' <=> worker'.step # "idle" /\ worker'.ride = r
<1>1. <<"worker", r>> \in Carriers(r) <=> worker.step # "idle" /\ worker.ride = r
  BY CarrierMembers DEF CarrierKinds
<1>2. <<"worker", r>> \in Carriers(r)' <=> worker'.step # "idle" /\ worker'.ride = r
  BY CarrierMembers DEF CarrierKinds
<1> QED
  BY <1>1, <1>2

\* A carrier that was none before is a request, a job or a handler that has changed.
LEMMA NewCarrier ==
  ASSUME NEW r \in Rides, NEW x \in Carriers(r)', x \notin Carriers(r)
  PROVE  \/ \E q \in Requests : /\ x = <<"request", q>>
                               /\ request'[q].step = "enqueue" /\ request'[q].ride = r
                               /\ request'[q] # request[q]
         \/ \E t \in Time : x = <<"job", t>> /\ matchJobs'[r][t] # matchJobs[r][t] /\ matchJobs'[r][t] > 0
         \/ \E d \in Drivers : /\ x = <<"timeout", d>>
                              /\ timeoutJob'[r][d] # timeoutJob[r][d] /\ timeoutJob'[r][d] # Null
         \/ x = <<"worker", r>> /\ worker'.step # "idle" /\ worker'.ride = r
<1>1. \/ \E q \in Requests : x = <<"request", q>>
      \/ \E t \in Time : x = <<"job", t>>
      \/ \E d \in Drivers : x = <<"timeout", d>>
      \/ x = <<"worker", r>>
  BY CarrierMembers DEF CarrierKinds, Time
<1>2. ASSUME NEW q \in Requests, x = <<"request", q>>
      PROVE  request'[q].step = "enqueue" /\ request'[q].ride = r /\ request'[q] # request[q]
  BY <1>2, RequestCarrier
<1>3. ASSUME NEW t \in Time, x = <<"job", t>>
      PROVE  matchJobs'[r][t] # matchJobs[r][t] /\ matchJobs'[r][t] > 0
  BY <1>3, JobCarrier
<1>4. ASSUME NEW d \in Drivers, x = <<"timeout", d>>
      PROVE  timeoutJob'[r][d] # timeoutJob[r][d] /\ timeoutJob'[r][d] # Null
  BY <1>4, TimeoutCarrier
<1>5. x = <<"worker", r>> => worker'.step # "idle" /\ worker'.ride = r
  BY WorkerCarrier
<1> QED
  BY <1>1, <1>2, <1>3, <1>4, <1>5

\* What a step does not touch carries on.
LEMMA SameCarriers ==
  ASSUME NEW r \in Rides,
         matchJobs'[r] = matchJobs[r],
         timeoutJob'[r] = timeoutJob[r],
         worker'.step # "idle" /\ worker'.ride = r <=> worker.step # "idle" /\ worker.ride = r,
         \A q \in Requests : request'[q].step = "enqueue" /\ request'[q].ride = r
                               <=> request[q].step = "enqueue" /\ request[q].ride = r
  PROVE  Carriers(r)' = Carriers(r)
  BY DEF Carriers

\* The search of r is handed from carrier a to carrier b, or ends with a.
Handed(r, a, b) ==
  /\ a \in Carriers(r)
  /\ \A x \in Carriers(r)' : x = b \/ (x \in Carriers(r) /\ x # a)
  /\ \A s \in Rides : s # r => Carriers(s)' = Carriers(s)

LEMMA HandedOver ==
  ASSUME OneCarrier, Unrejected' => Unrejected, NEW r \in Rides, NEW a, NEW b, Handed(r, a, b),
         \A s \in Rides, t \in Time : matchJobs'[s][t] <= 1,
         UNCHANGED <<now, ride>>,
         Unrejected /\ Searching(r) /\ InWindow(r) => b \in Carriers(r)'
  PROVE  OneCarrier'
<1> SUFFICES ASSUME NEW s \in Rides
             PROVE  /\ \A x, y \in Carriers(s)' : x = y
                    /\ \A t \in Time : matchJobs'[s][t] <= 1
                    /\ ride'[s].status = "none" => Carriers(s)' = {}
                    /\ Unrejected' /\ Searching(s)' /\ InWindow(s)' => Carriers(s)' # {}
  BY DEF OneCarrier, Time
<1>1. Searching(s)' = Searching(s) /\ InWindow(s)' = InWindow(s) /\ ride'[s] = ride[s]
  BY DEF Searching, InWindow
<1>2. /\ \A x, y \in Carriers(s) : x = y
      /\ ride[s].status = "none" => Carriers(s) = {}
      /\ Unrejected /\ Searching(s) /\ InWindow(s) => Carriers(s) # {}
  BY DEF OneCarrier
<1>3. CASE s = r
  BY <1>1, <1>2, <1>3 DEF Handed
<1>4. CASE s # r
  BY <1>1, <1>2, <1>4 DEF Handed
<1> QED
  BY <1>3, <1>4

\* No carrier changes, and no search begins.
LEMMA CarriersStay ==
  ASSUME OneCarrier, Unrejected' => Unrejected, \A s \in Rides : Carriers(s)' = Carriers(s),
         UNCHANGED matchJobs,
         \A s \in Rides : /\ ride'[s].status = "none" => ride[s].status = "none"
                          /\ Searching(s)' /\ InWindow(s)' => Searching(s) /\ InWindow(s)
  PROVE  OneCarrier'
  BY DEF OneCarrier, Time

-----------------------------------------------------------------------------
(***************************************************************************)
(* Steps that leave rows, jobs and the worker alone, and steps of the      *)
(* worker that only move it on within its handler.                         *)
(***************************************************************************)
Aside ==
  /\ UNCHANGED <<ride, offer, matchJobs, timeoutJob, worker>>
  /\ now' >= now
  /\ \A q \in Requests :
       /\ request'[q].step \in {"enqueue", "retry", "rejectCommit"} => request'[q] = request[q]
       /\ request[q].step = "enqueue" => request'[q] = request[q]

LEMMA AsideKeeps ==
  ASSUME SearchTypeInv, Steady, Unrejected' => Unrejected, TypeOK', Aside
  PROVE  OneCarrier' /\ OfferHasTimeout' /\ WorkerOnTrack'
<1>1. OneCarrier /\ OfferHasTimeout /\ WorkerOnTrack /\ TypeOK
  BY DEF SearchTypeInv, SearchInv, WindowTypeInv
<1>2. \A s \in Rides : Carriers(s)' = Carriers(s)
  BY SameCarriers DEF Aside
<1>3. \A s \in Rides : InWindow(s)' => InWindow(s)
  <2> SUFFICES ASSUME NEW s \in Rides, InWindow(s)' PROVE InWindow(s)
    OBVIOUS
  <2>1. now \in Int /\ now' \in Int
    BY <1>1, Shapes, TimeType DEF TypeOK, Time
  <2>2. ride'[s] = ride[s] /\ ride[s].expires \in Time \union {Null}
    BY <1>1, Shapes DEF Aside, RideRow
  <2> QED
    BY <2>1, <2>2, TimeType DEF Aside, InWindow, Null
<1>4. OneCarrier'
  BY <1>1, <1>2, <1>3, CarriersStay DEF Aside, Searching
<1>5. OfferHasTimeout'
  BY <1>1 DEF OfferHasTimeout, Aside
<1>6. WorkerOnTrack'
  BY <1>1 DEF WorkerOnTrack, Aside, Searching
<1> QED
  BY <1>4, <1>5, <1>6

LEMMA AsideSteps ==
  ASSUME TypeOK,
         \/ Tick \/ UNCHANGED vars
         \/ \E q \in Requests :
              \/ AcceptReadOffer(q) \/ AcceptExpired(q) \/ AcceptRefused(q)
              \/ AcceptAnnounce(q) \/ UpdateStatusFlush(q)
              \/ \E r \in Rides, d \in Drivers : AcceptRideOffer(q, r, d)
              \/ \E d \in Drivers, st \in DriverStatuses : UpdateStatus(q, d, st)
  PROVE  Aside
<1>1. now \in Int /\ request \in [Requests -> Request] /\ IdleRequest.step = "idle"
  BY Shapes, IdleType
<1>2. CASE Tick \/ UNCHANGED vars
  BY <1>1, <1>2 DEF Tick, Aside, vars, rows, jobs
<1>3. ASSUME NEW q \in Requests,
             \/ AcceptReadOffer(q) \/ AcceptExpired(q) \/ AcceptRefused(q)
             \/ AcceptAnnounce(q) \/ UpdateStatusFlush(q)
      PROVE Aside
  <2>1. UNCHANGED <<now, ride, offer, matchJobs, timeoutJob, worker>>
    BY <1>3 DEF AcceptReadOffer, AcceptExpired, AcceptRefused, AcceptAnnounce,
       UpdateStatusFlush, rows, jobs
  <2>2. request[q].step # "enqueue" /\ (End(q) \/ Continue(q, "acceptCommit"))
    BY <1>3 DEF AcceptReadOffer, AcceptExpired, AcceptRefused, AcceptAnnounce, UpdateStatusFlush
  <2>3. \A p \in Requests : p # q => request'[p] = request[p]
    BY <1>1, <2>2 DEF End, Continue
  <2>4. request'[q].step \in {"idle", "acceptCommit"}
    BY <1>1, <2>2 DEF End, Continue, Request
  <2> QED
    BY <1>1, <2>1, <2>2, <2>3, <2>4 DEF Aside
<1>4. ASSUME NEW q \in Requests, NEW req, req.step \notin {"enqueue", "retry", "rejectCommit"},
             Begin(q, req), UNCHANGED <<now, ride, offer, matchJobs, timeoutJob, worker>>
      PROVE  Aside
  <2>1. request[q].step = "idle" /\ \A p \in Requests : request'[p] = IF p = q THEN req ELSE request[p]
    BY <1>1, <1>4 DEF Begin
  <2> QED
    BY <1>1, <1>4, <2>1 DEF Aside
<1>5. ASSUME NEW q \in Requests, NEW r \in Rides, NEW d \in Drivers, AcceptRideOffer(q, r, d)
      PROVE Aside
  <2> DEFINE req == [IdleRequest EXCEPT !.step = "acceptOffer", !.ride = r, !.driver = d]
  <2>1. req.step = "acceptOffer"
    BY DEF IdleRequest
  <2>2. Begin(q, req) /\ UNCHANGED <<now, ride, offer, matchJobs, timeoutJob, worker>>
    BY <1>5 DEF AcceptRideOffer, rows, jobs
  <2> HIDE DEF req
  <2> QED
    BY <1>4, <2>1, <2>2
<1>6. ASSUME NEW q \in Requests, NEW d \in Drivers, NEW st \in DriverStatuses, UpdateStatus(q, d, st)
      PROVE Aside
  <2> DEFINE req == [IdleRequest EXCEPT !.step = "status", !.driver = d, !.to = st]
  <2>1. req.step = "status"
    BY DEF IdleRequest
  <2>2. Begin(q, req) /\ UNCHANGED <<now, ride, offer, matchJobs, timeoutJob, worker>>
    BY <1>6 DEF UpdateStatus, rows, jobs
  <2> HIDE DEF req
  <2> QED
    BY <1>4, <2>1, <2>2
<1> QED
  BY <1>2, <1>3, <1>5, <1>6

\* The worker moves on and keeps what it knows of the ride.
MovesOn ==
  /\ UNCHANGED <<now, ride, offer, matchJobs, timeoutJob, request>>
  /\ worker.step \in {"find", "loop", "offer"}
  /\ worker'.step \in {"loop", "offer", "write"}
  /\ worker'.ride = worker.ride
  /\ worker'.until = worker.until
  /\ worker'.step = "write" => worker'.plan \in {"insert", "retry"}

LEMMA MovesOnKeeps ==
  ASSUME SearchTypeInv, Steady, Unrejected' => Unrejected, MovesOn
  PROVE  OneCarrier' /\ OfferHasTimeout' /\ WorkerOnTrack'
<1>1. OneCarrier /\ OfferHasTimeout /\ WorkerOnTrack /\ TypeOK
  BY DEF SearchTypeInv, SearchInv, WindowTypeInv
<1>2. \A s \in Rides : Carriers(s)' = Carriers(s)
  BY SameCarriers DEF MovesOn
<1>3. OneCarrier'
  BY <1>1, <1>2, CarriersStay DEF MovesOn, Searching, InWindow
<1>4. OfferHasTimeout'
  BY <1>1 DEF OfferHasTimeout, MovesOn
<1>5. WorkerOnTrack'
  BY <1>1 DEF WorkerOnTrack, MovesOn, Searching
<1> QED
  BY <1>3, <1>4, <1>5

\* While the worker is on a ride and has not written an offer, none is PENDING.
LEMMA NothingPending ==
  ASSUME SearchTypeInv, Steady, worker.step \in {"find", "loop", "offer", "write"}, NEW d \in Drivers
  PROVE  /\ offer[worker.ride][d].status # "PENDING"
         /\ timeoutJob[worker.ride][d] = Null
<1>1. OneCarrier /\ OfferHasTimeout /\ worker.ride \in Rides
  BY Shapes DEF SearchTypeInv, SearchInv, WindowTypeInv
<1>2. PICK r \in Rides : r = worker.ride
  BY <1>1
<1>3. <<"worker", r>> \in Carriers(r)
  BY <1>2, WorkerCarrier
<1>4. <<"timeout", d>> # <<"worker", r>>
  OBVIOUS
<1>5. timeoutJob[r][d] = Null
  <2>1. \A x, y \in Carriers(r) : x = y
    BY <1>1 DEF OneCarrier
  <2>2. <<"timeout", d>> \notin Carriers(r)
    BY <1>3, <1>4, <2>1
  <2> QED
    BY <2>2, TimeoutCarrier
<1>6. offer[r][d].status # "PENDING"
  BY <1>1, <1>5 DEF OfferHasTimeout
<1> QED
  BY <1>2, <1>5, <1>6

LEMMA MovesOnSteps ==
  ASSUME SearchTypeInv, Steady, Unrejected' => Unrejected,
         \/ FindNearbyDrivers \/ (NextDriver /\ worker' # IdleWorker) \/ CreateOfferRead
  PROVE  MovesOn
<1>1. worker \in Worker
  BY Shapes DEF SearchTypeInv, WindowTypeInv
<1>2. CASE FindNearbyDrivers
  <2>1. PICK matches : worker' = [worker EXCEPT !.step = "loop", !.left = matches]
    BY <1>2 DEF FindNearbyDrivers
  <2> QED
    BY <1>1, <1>2, <2>1 DEF FindNearbyDrivers, MovesOn, Worker, rows, jobs
<1>3. CASE NextDriver /\ worker' # IdleWorker
  <2>1. PICK d : worker' = [worker EXCEPT !.step = "offer", !.driver = d, !.left = @ \ {d}]
    BY <1>3 DEF NextDriver
  <2> QED
    BY <1>1, <1>3, <2>1 DEF NextDriver, MovesOn, Worker, rows, jobs
<1>4. CASE CreateOfferRead
  <2>1. worker.step = "offer" /\ UNCHANGED <<now, ride, offer, matchJobs, timeoutJob, request>>
    BY <1>4 DEF CreateOfferRead, rows, jobs
  <2>2. worker.ride \in Rides /\ worker.driver \in Drivers
    BY <2>1, Shapes DEF SearchTypeInv, WindowTypeInv
  <2>3. offer[worker.ride][worker.driver].status # "PENDING"
    BY <2>1, <2>2, NothingPending
  <2>4. PlanFor(offer[worker.ride][worker.driver]) \in {"insert", "retry", "none"}
    BY <2>3 DEF PlanFor
  <2>5. CASE worker' = SkipDriver
    BY <1>1, <2>1, <2>5 DEF MovesOn, SkipDriver, Worker
  <2>6. CASE worker' # SkipDriver
    <3>1. PICK plan, final : /\ worker' = [worker EXCEPT !.step = "write", !.plan = plan, !.final = final]
                             /\ plan = PlanFor(offer[worker.ride][worker.driver])
                             /\ plan # "none"
      BY <1>4, <2>6 DEF CreateOfferRead
    <3> QED
      BY <1>1, <2>1, <2>4, <3>1 DEF MovesOn, Worker
  <2> QED
    BY <2>5, <2>6
<1> QED
  BY <1>2, <1>3, <1>4

-----------------------------------------------------------------------------
(***************************************************************************)
(* Steps that hand a search from one carrier to the next.                  *)
(***************************************************************************)

\* A job added for r at a time with none is one more job, and the only change.
LEMMA JobAdded ==
  ASSUME TypeOK, OneCarrier, NEW r \in Rides, NEW t \in Time,
         <<"job", t>> \notin Carriers(r),
         matchJobs' = [matchJobs EXCEPT ![r][t] = @ + 1]
  PROVE  /\ matchJobs'[r][t] > 0
         /\ \A s \in Rides, u \in Time : s # r \/ u # t => matchJobs'[s][u] = matchJobs[s][u]
         /\ \A s \in Rides, u \in Time : matchJobs'[s][u] <= 1
         /\ \A s \in Rides : s # r => matchJobs'[s] = matchJobs[s]
<1>1. matchJobs \in [Rides -> [Time -> Nat]]
  BY Shapes
<1>2. matchJobs[r][t] = 0
  <2>1. ~(matchJobs[r][t] > 0)
    BY JobCarrier
  <2>2. matchJobs[r][t] \in Nat
    BY <1>1
  <2> QED
    BY <2>1, <2>2
<1>3. matchJobs'[r][t] = 1
  BY <1>1, <1>2
<1>4. \A s \in Rides, u \in Time : s # r \/ u # t => matchJobs'[s][u] = matchJobs[s][u]
  BY <1>1
<1>5. \A s \in Rides : s # r => matchJobs'[s] = matchJobs[s]
  BY <1>1
<1> QED
  BY <1>1, <1>3, <1>4, <1>5 DEF OneCarrier

\* The worker ends its handler on r and leaves nothing behind, ...
LEMMA WorkerEnds ==
  ASSUME TypeOK, worker.step # "idle", worker' = IdleWorker,
         UNCHANGED <<matchJobs, timeoutJob, request>>, NEW b
  PROVE  Handed(worker.ride, <<"worker", worker.ride>>, b)
<1>1. PICK r \in Rides : r = worker.ride
  BY Shapes
<1>2. worker'.step = "idle"
  BY IdleType
<1>3. \A s \in Rides : s # r => Carriers(s)' = Carriers(s)
  BY <1>1, <1>2, SameCarriers
<1>4. <<"worker", r>> \in Carriers(r) /\ <<"worker", r>> \notin Carriers(r)'
  BY <1>1, <1>2, WorkerCarrier
<1>5. \A x \in Carriers(r)' : x \in Carriers(r) \/ x = <<"worker", r>>
  BY NewCarrier
<1>6. Handed(r, <<"worker", r>>, b)
  BY <1>3, <1>4, <1>5 DEF Handed
<1> QED
  BY <1>1, <1>6

\* ... or a matching job.
LEMMA WorkerAddsJob ==
  ASSUME TypeOK, OneCarrier, Unrejected' => Unrejected, worker.step # "idle", worker' = IdleWorker, NEW t \in Time,
         matchJobs' = [matchJobs EXCEPT ![worker.ride][t] = @ + 1],
         UNCHANGED <<now, ride, timeoutJob, request>>
  PROVE  OneCarrier'
<1>1. PICK r \in Rides : r = worker.ride
  BY Shapes
<1>2. worker'.step = "idle"
  BY IdleType
<1>3. <<"worker", r>> \in Carriers(r) /\ <<"worker", r>> \notin Carriers(r)'
  BY <1>1, <1>2, WorkerCarrier
<1>4. <<"job", t>> \notin Carriers(r)
  <2>1. \A x, y \in Carriers(r) : x = y
    BY DEF OneCarrier
  <2>2. <<"job", t>> # <<"worker", r>>
    OBVIOUS
  <2> QED
    BY <1>3, <2>1, <2>2
<1>5. /\ matchJobs'[r][t] > 0
      /\ \A s \in Rides, u \in Time : s # r \/ u # t => matchJobs'[s][u] = matchJobs[s][u]
      /\ \A s \in Rides, u \in Time : matchJobs'[s][u] <= 1
      /\ \A s \in Rides : s # r => matchJobs'[s] = matchJobs[s]
  BY <1>1, <1>4, JobAdded
<1>6. \A s \in Rides : s # r => Carriers(s)' = Carriers(s)
  BY <1>1, <1>2, <1>5, SameCarriers
<1>7. \A x \in Carriers(r)' : x = <<"job", t>> \/ x \in Carriers(r) \/ x = <<"worker", r>>
  BY <1>5, NewCarrier
<1>8. Handed(r, <<"worker", r>>, <<"job", t>>)
  BY <1>3, <1>6, <1>7 DEF Handed
<1>9. <<"job", t>> \in Carriers(r)'
  BY <1>5, JobCarrier
<1> QED
  BY <1>5, <1>8, <1>9, HandedOver

\* The worker ends without a new job only when nothing is left to search for.
LEMMA WorkerEndsSearch ==
  ASSUME TypeOK, OneCarrier, Unrejected' => Unrejected, worker.step # "idle", worker' = IdleWorker,
         UNCHANGED <<now, ride, matchJobs, timeoutJob, request>>,
         ~(Searching(worker.ride) /\ InWindow(worker.ride))
  PROVE  OneCarrier'
<1>1. PICK r \in Rides : r = worker.ride
  BY Shapes
<1>2. Handed(r, <<"worker", r>>, <<"worker", r>>)
  BY <1>1, WorkerEnds
<1>3. \A s \in Rides, u \in Time : matchJobs'[s][u] <= 1
  BY DEF OneCarrier
<1> QED
  BY <1>1, <1>2, <1>3, HandedOver

\* With the worker idle, and offers and timeouts as they were, the other two parts
\* of the invariant stay.
LEMMA IdleKeeps ==
  ASSUME SearchTypeInv, Steady, Unrejected' => Unrejected,
         worker.step # "schedule", worker'.step \in {"idle", "find"},
         worker'.step = "find" /\ Searching(worker'.ride) => worker'.until = ride[worker'.ride].expires,
         UNCHANGED <<now, ride, offer, timeoutJob>>,
         \A q \in Requests : request'[q].step \in {"retry", "rejectCommit"} =>
           request'[q].step = request[q].step
  PROVE  OfferHasTimeout' /\ WorkerOnTrack'
<1>1. OfferHasTimeout /\ WorkerOnTrack
  BY DEF SearchTypeInv, SearchInv
<1>2. OfferHasTimeout'
  BY <1>1 DEF OfferHasTimeout
<1>3. WorkerOnTrack'
  BY <1>1 DEF WorkerOnTrack, Searching
<1> QED
  BY <1>2, <1>3

LEMMA StartMatchingSearch ==
  ASSUME SearchTypeInv, Steady, Unrejected' => Unrejected,
         NEW r \in Rides, NEW t \in Time, StartMatching(r, t)
  PROVE  OneCarrier' /\ OfferHasTimeout' /\ WorkerOnTrack'
<1>1. TypeOK /\ OneCarrier
  BY DEF SearchTypeInv, SearchInv, WindowTypeInv
<1>2. /\ worker.step = "idle"
      /\ matchJobs' = [matchJobs EXCEPT ![r][t] = @ - 1]
      /\ matchJobs[r][t] > 0
      /\ UNCHANGED <<now, ride, offer, timeoutJob, request>>
  BY DEF StartMatching, DueMatchingJob, TakeMatchingJob, rows
<1>3. \/ worker' = IdleWorker /\ ~(Searching(r) /\ InWindow(r))
      \/ worker'.step = "find" /\ worker'.ride = r /\ worker'.until = ride[r].expires
  BY DEF StartMatching, IdleWorker
<1>4. OfferHasTimeout' /\ WorkerOnTrack'
  BY <1>2, <1>3, IdleType, IdleKeeps
<1>5. matchJobs \in [Rides -> [Time -> Nat]]
  BY <1>1, Shapes
<1>6. matchJobs[r][t] = 1
  BY <1>1, <1>2, <1>5 DEF OneCarrier
<1>7. /\ matchJobs'[r][t] = 0
      /\ \A s \in Rides, u \in Time : s # r \/ u # t => matchJobs'[s][u] = matchJobs[s][u]
      /\ \A s \in Rides : s # r => matchJobs'[s] = matchJobs[s]
  BY <1>2, <1>5, <1>6
<1>8. \A s \in Rides, u \in Time : matchJobs'[s][u] <= 1
  BY <1>1, <1>7 DEF OneCarrier
<1>9. \A s \in Rides : s # r => Carriers(s)' = Carriers(s)
  BY <1>2, <1>3, <1>7, IdleType, SameCarriers
<1>10. <<"job", t>> \in Carriers(r) /\ <<"job", t>> \notin Carriers(r)'
  BY <1>2, <1>7, JobCarrier
<1>11. \A x \in Carriers(r)' : x = <<"worker", r>> \/ x \in Carriers(r)
  BY <1>2, <1>7, NewCarrier
<1>12. Handed(r, <<"job", t>>, <<"worker", r>>)
  BY <1>9, <1>10, <1>11 DEF Handed
<1>13. Searching(r) /\ InWindow(r) => <<"worker", r>> \in Carriers(r)'
  BY <1>3, WorkerCarrier
<1> QED
  BY <1>1, <1>2, <1>4, <1>8, <1>12, <1>13, HandedOver

\* The loop ends because the search is over, or the handler adds the next job.
LEMMA LoopEndsSearch ==
  ASSUME SearchTypeInv, Steady, Unrejected' => Unrejected,
         (NextDriver /\ worker' = IdleWorker) \/ Reschedule \/ ResumeMatching
  PROVE  OneCarrier' /\ OfferHasTimeout' /\ WorkerOnTrack'
<1>1. TypeOK /\ OneCarrier /\ WorkerOnTrack
  BY DEF SearchTypeInv, SearchInv, WindowTypeInv
<1>2. /\ worker.step \in {"loop", "resume"} /\ worker' = IdleWorker
      /\ UNCHANGED <<now, ride, offer, timeoutJob, request>>
  BY DEF NextDriver, Reschedule, ResumeMatching, rows, jobs
<1>3. OfferHasTimeout' /\ WorkerOnTrack'
  BY <1>2, IdleType, IdleKeeps
<1>4. OneCarrier'
  <2>1. CASE UNCHANGED matchJobs /\ ~(Searching(worker.ride) /\ InWindow(worker.ride))
    BY <1>1, <1>2, <2>1, WorkerEndsSearch
  <2>2. CASE \E t \in Time : matchJobs' = [matchJobs EXCEPT ![worker.ride][t] = @ + 1]
    BY <1>1, <1>2, <2>2, WorkerAddsJob
  <2>3. CASE NextDriver /\ worker' = IdleWorker
    <3>1. ~(Searching(worker.ride) /\ InWindow(worker.ride)) /\ UNCHANGED matchJobs
      <4>1. IdleWorker.step # "offer"
        BY IdleType
      <4>2. ASSUME Searching(worker.ride) /\ InWindow(worker.ride) PROVE FALSE
        <5>1. PICK d : worker' = [worker EXCEPT !.step = "offer", !.driver = d, !.left = @ \ {d}]
          BY <2>3, <4>2 DEF NextDriver
        <5>2. worker \in Worker
          BY <1>1, Shapes
        <5> QED
          BY <1>2, <4>1, <5>1, <5>2 DEF Worker
      <4> QED
        BY <2>3, <4>2 DEF NextDriver, jobs
    <3> QED
      BY <2>1, <3>1
  <2>4. CASE Reschedule
    <3>1. worker.step = "loop" /\ worker.ride \in Rides
      BY <1>1, <2>4, Shapes DEF Reschedule
    <3>2. Searching(worker.ride) => worker.until = ride[worker.ride].expires
      BY <1>1, <3>1 DEF WorkerOnTrack
    <3>3. CASE now < worker.until
      <4>1. worker.until \in Time \union {Null} /\ now \in Time /\ now \in Int
        BY <1>1, Shapes DEF Worker
      <4>2. worker.until \in Time /\ worker.until \in Int
        <5>1. 0 <= now
          BY <4>1, TimeType
        <5>2. worker.until # Null
          BY <3>3, <4>1, <5>1 DEF Null
        <5> QED
          BY <4>1, <5>2, TimeType
      <4>3. PICK delay : delay = Earlier(Interval, worker.until - now)
        OBVIOUS
      <4>4. delay \in Int /\ 0 <= delay /\ delay <= worker.until - now
        BY <3>3, <4>1, <4>2, <4>3, TimingAssumption DEF Earlier
      <4>5. PICK t \in Time : t = now + delay
        <5>1. now + delay \in Int /\ 0 <= now + delay /\ now + delay <= worker.until
          BY <4>1, <4>2, <4>4, TimeType
        <5> QED
          BY <4>2, <5>1, TimeType
      <4>6. matchJobs' = [matchJobs EXCEPT ![worker.ride][t] = @ + 1]
        BY <2>4, <3>3, <4>3, <4>5 DEF Reschedule, AddMatchingJob
      <4> QED
        BY <2>2, <4>6
    <3>4. CASE ~(now < worker.until)
      BY <2>1, <2>4, <3>2, <3>4 DEF Reschedule, InWindow
    <3> QED
      BY <3>3, <3>4
  <2>5. CASE ResumeMatching
    <3>1. CASE Searching(worker.ride) /\ InWindow(worker.ride)
      <4>1. PICK t \in Time : t = now + 0
        BY <1>1, Shapes
      <4>2. matchJobs' = [matchJobs EXCEPT ![worker.ride][t] = @ + 1]
        BY <2>5, <3>1, <4>1 DEF ResumeMatching, AddMatchingJob
      <4> QED
        BY <2>2, <4>2
    <3>2. CASE ~(Searching(worker.ride) /\ InWindow(worker.ride))
      BY <2>1, <2>5, <3>2 DEF ResumeMatching
    <3> QED
      BY <3>1, <3>2
  <2> QED
    BY <2>3, <2>4, <2>5
<1> QED
  BY <1>3, <1>4

\* The first carrier of a ride is the request that creates it.
LEMMA CreateRideSearch ==
  ASSUME SearchTypeInv, Steady, Unrejected' => Unrejected,
         NEW q \in Requests, NEW r \in Rides, CreateRide(q, r)
  PROVE  OneCarrier' /\ OfferHasTimeout' /\ WorkerOnTrack'
<1>1. TypeOK /\ OneCarrier /\ OfferHasTimeout /\ WorkerOnTrack /\ NothingBeforeRide
  BY DEF SearchTypeInv, SearchInv, WindowTypeInv, WindowInv
<1>2. PICK req : req = [IdleRequest EXCEPT !.step = "enqueue", !.ride = r]
  OBVIOUS
<1>3. /\ UNCHANGED <<offer, matchJobs, timeoutJob, worker>>
      /\ ride[r].status = "none"
      /\ \A s \in Rides : s # r => ride'[s] = ride[s]
      /\ ride'[r].status = "searching"
      /\ UNCHANGED now
  BY <1>1, Shapes DEF CreateRide, jobs
<1>4. request \in [Requests -> Request] /\ Begin(q, req)
  BY <1>1, <1>2, Shapes DEF CreateRide
<1>5. /\ request[q].step = "idle"
      /\ request'[q] = req
      /\ \A p \in Requests : p # q => request'[p] = request[p]
  BY <1>4, IdleType DEF Begin
<1>6. req.step = "enqueue" /\ req.ride = r
  BY <1>2 DEF IdleRequest
<1>7. Carriers(r) = {}
  BY <1>1, <1>3 DEF OneCarrier
<1>8. \A x \in Carriers(r)' : x = <<"request", q>>
  <2> SUFFICES ASSUME NEW x \in Carriers(r)' PROVE x = <<"request", q>>
    OBVIOUS
  <2>1. worker.step # "idle" => worker.ride # r
    BY <1>1, <1>3 DEF NothingBeforeRide
  <2> QED
    BY <1>3, <1>5, <1>7, <2>1, NewCarrier
<1>9. \A s \in Rides : s # r => Carriers(s)' = Carriers(s)
  <2>1. \A s \in Rides, p \in Requests : s # r =>
          (request'[p].step = "enqueue" /\ request'[p].ride = s
             <=> request[p].step = "enqueue" /\ request[p].ride = s)
    BY <1>5, <1>6
  <2> QED
    BY <1>3, <2>1, SameCarriers
<1>10. <<"request", q>> \in Carriers(r)'
  BY <1>5, <1>6, RequestCarrier
<1>11. OneCarrier'
  <2> SUFFICES ASSUME NEW s \in Rides
               PROVE  /\ \A x, y \in Carriers(s)' : x = y
                      /\ \A t \in Time : matchJobs'[s][t] <= 1
                      /\ ride'[s].status = "none" => Carriers(s)' = {}
                      /\ Unrejected' /\ Searching(s)' /\ InWindow(s)' => Carriers(s)' # {}
    BY DEF OneCarrier, Time
  <2>1. CASE s = r
    BY <1>1, <1>3, <1>8, <1>10, <2>1 DEF OneCarrier
  <2>2. CASE s # r
    BY <1>1, <1>3, <1>9, <2>2 DEF OneCarrier, Searching, InWindow
  <2> QED
    BY <2>1, <2>2
<1>12. OfferHasTimeout'
  BY <1>1, <1>3 DEF OfferHasTimeout
<1>13. WorkerOnTrack'
  <2>1. worker.step # "idle" => ride'[worker.ride] = ride[worker.ride]
    BY <1>1, <1>3, Shapes DEF NothingBeforeRide
  <2>2. \A p \in Requests : /\ request'[p].step # "retry"
                            /\ Unrejected => request'[p].step # "rejectCommit"
    BY <1>1, <1>5, <1>6 DEF WorkerOnTrack
  <2> QED
    BY <1>1, <1>3, <2>1, <2>2 DEF WorkerOnTrack, Searching
<1> QED
  BY <1>11, <1>12, <1>13

LEMMA EnqueueSearch ==
  ASSUME SearchTypeInv, Steady, Unrejected' => Unrejected, NEW q \in Requests, Enqueue(q)
  PROVE  OneCarrier' /\ OfferHasTimeout' /\ WorkerOnTrack'
<1>1. TypeOK /\ OneCarrier /\ OfferHasTimeout /\ WorkerOnTrack
  BY DEF SearchTypeInv, SearchInv, WindowTypeInv
<1>2. PICK r \in Rides : r = request[q].ride
  BY <1>1 DEF Enqueue, TypeOK, RequestsOK, RequestOK
<1>3. PICK t \in Time : t = now + 0
  BY <1>1, Shapes
<1>4. /\ matchJobs' = [matchJobs EXCEPT ![r][t] = @ + 1]
      /\ UNCHANGED <<now, ride, offer, timeoutJob, worker>>
      /\ request[q].step = "enqueue"
  BY <1>2, <1>3 DEF Enqueue, AddMatchingJob, rows
<1>5. /\ request'[q].step = "idle"
      /\ \A p \in Requests : p # q => request'[p] = request[p]
  BY <1>1, Shapes, IdleType DEF Enqueue, End
<1>6. <<"request", q>> \in Carriers(r) /\ <<"request", q>> \notin Carriers(r)'
  BY <1>2, <1>4, <1>5, RequestCarrier
<1>7. <<"job", t>> \notin Carriers(r)
  <2>1. \A x, y \in Carriers(r) : x = y
    BY <1>1 DEF OneCarrier
  <2>2. <<"job", t>> # <<"request", q>>
    OBVIOUS
  <2> QED
    BY <1>6, <2>1, <2>2
<1>8. /\ matchJobs'[r][t] > 0
      /\ \A s \in Rides, u \in Time : s # r \/ u # t => matchJobs'[s][u] = matchJobs[s][u]
      /\ \A s \in Rides, u \in Time : matchJobs'[s][u] <= 1
      /\ \A s \in Rides : s # r => matchJobs'[s] = matchJobs[s]
  BY <1>1, <1>4, <1>7, JobAdded
<1>9. \A s \in Rides : s # r => Carriers(s)' = Carriers(s)
  BY <1>2, <1>4, <1>5, <1>8, SameCarriers
<1>10. \A x \in Carriers(r)' : x = <<"job", t>> \/ x \in Carriers(r)
  <2> SUFFICES ASSUME NEW x \in Carriers(r)', x \notin Carriers(r) PROVE x = <<"job", t>>
    OBVIOUS
  <2>1. ASSUME NEW p \in Requests PROVE ~(request'[p].step = "enqueue" /\ request'[p] # request[p])
    BY <1>5
  <2>2. x # <<"worker", r>>
    BY <1>4, WorkerCarrier
  <2> QED
    BY <1>4, <1>8, <2>1, <2>2, NewCarrier
<1>11. Handed(r, <<"request", q>>, <<"job", t>>)
  BY <1>6, <1>9, <1>10 DEF Handed
<1>12. <<"job", t>> \in Carriers(r)'
  BY <1>8, JobCarrier
<1>13. OneCarrier'
  BY <1>1, <1>4, <1>8, <1>11, <1>12, HandedOver
<1>14. OfferHasTimeout'
  BY <1>1, <1>4 DEF OfferHasTimeout
<1>15. WorkerOnTrack'
  BY <1>1, <1>4, <1>5 DEF WorkerOnTrack, Searching
<1> QED
  BY <1>13, <1>14, <1>15

\* createOffer makes the only PENDING offer of the ride.
LEMMA WriteOfferSearch ==
  ASSUME SearchTypeInv, Steady, Unrejected' => Unrejected, WriteOffer
  PROVE  OneCarrier' /\ OfferHasTimeout' /\ WorkerOnTrack'
<1>1. TypeOK /\ OneCarrier /\ OfferHasTimeout /\ WorkerOnTrack
  BY DEF SearchTypeInv, SearchInv, WindowTypeInv
<1>2. worker.step = "write" /\ worker \in Worker
  BY <1>1, Shapes DEF WriteOffer
<1>3. PICK r \in Rides, d \in Drivers : r = worker.ride /\ d = worker.driver
  BY <1>1, <1>2, Shapes
<1>4. /\ UNCHANGED <<now, ride, matchJobs, timeoutJob, request>>
      /\ worker'.step = "schedule" /\ worker'.ride = r /\ worker'.driver = d
      /\ worker'.final = worker.final /\ worker'.until = worker.until
  BY <1>2, <1>3 DEF WriteOffer, Worker, jobs
<1>5. /\ offer'[r][d].status = "PENDING" /\ offer'[r][d].expires = worker.final
      /\ \A s \in Rides, e \in Drivers : s # r \/ e # d => offer'[s][e] = offer[s][e]
  BY <1>1, <1>3, Shapes DEF WriteOffer
<1>6. \A e \in Drivers : offer[r][e].status # "PENDING" /\ timeoutJob[r][e] = Null
  BY <1>2, <1>3, NothingPending
<1>7. OneCarrier'
  <2>1. \A s \in Rides : Carriers(s)' = Carriers(s)
    BY <1>2, <1>3, <1>4, SameCarriers
  <2> QED
    BY <1>1, <1>4, <2>1, CarriersStay DEF Searching, InWindow
<1>8. OfferHasTimeout'
  <2> SUFFICES ASSUME NEW s \in Rides, NEW e \in Drivers
               PROVE  /\ offer'[s][e].status = "PENDING" =>
                           \/ timeoutJob'[s][e] # Null /\ timeoutJob'[s][e] >= offer'[s][e].expires
                           \/ /\ worker'.step = "schedule" /\ worker'.ride = s /\ worker'.driver = e
                              /\ worker'.final = offer'[s][e].expires
                      /\ Unrejected' /\ timeoutJob'[s][e] # Null => offer'[s][e].status \in {"PENDING", "ACCEPTED"}
    BY <1>4, <1>5 DEF OfferHasTimeout, Null
  <2>1. CASE s = r /\ e = d
    BY <1>4, <1>5, <2>1
  <2>2. CASE ~(s = r /\ e = d)
    BY <1>1, <1>2, <1>4, <1>5, <2>2 DEF OfferHasTimeout
  <2> QED
    BY <2>1, <2>2
<1>9. WorkerOnTrack'
  BY <1>1, <1>2, <1>3, <1>4 DEF WorkerOnTrack, Searching
<1> QED
  BY <1>7, <1>8, <1>9

\* The timeout job is added and becomes the carrier.
LEMMA SendDriverOfferSearch ==
  ASSUME SearchTypeInv, Steady, Unrejected' => Unrejected, SendDriverOffer
  PROVE  OneCarrier' /\ OfferHasTimeout' /\ WorkerOnTrack'
<1>1. TypeOK /\ OneCarrier /\ OfferHasTimeout /\ WorkerOnTrack
  BY DEF SearchTypeInv, SearchInv, WindowTypeInv
<1>2. worker.step = "schedule" /\ worker \in Worker /\ worker' = IdleWorker /\ worker'.step = "idle"
  BY <1>1, Shapes, IdleType DEF SendDriverOffer
<1>3. PICK r \in Rides, d \in Drivers : r = worker.ride /\ d = worker.driver
  BY <1>1, <1>2, Shapes
<1>4. <<"worker", r>> \in Carriers(r) /\ <<"worker", r>> \notin Carriers(r)'
  BY <1>2, <1>3, WorkerCarrier
<1>5. timeoutJob[r][d] = Null
  <2>1. \A x, y \in Carriers(r) : x = y
    BY <1>1 DEF OneCarrier
  <2>2. <<"timeout", d>> # <<"worker", r>>
    OBVIOUS
  <2> QED
    BY <1>4, <2>1, <2>2, TimeoutCarrier
<1>6. PICK due \in Time : due = Later(now, worker.final) /\ due >= worker.final
  <2>1. now \in Time /\ worker.final \in Time
    BY <1>1, <1>2, Shapes
  <2>2. now \in Int /\ worker.final \in Int
    BY <2>1, TimeType
  <2> QED
    BY <2>1, <2>2, LaterType DEF Later
<1>7. /\ UNCHANGED <<now, ride, offer, matchJobs, request>>
      /\ timeoutJob'[r][d] = due
      /\ \A s \in Rides, e \in Drivers : s # r \/ e # d => timeoutJob'[s][e] = timeoutJob[s][e]
      /\ \A s \in Rides : s # r => timeoutJob'[s] = timeoutJob[s]
  BY <1>1, <1>3, <1>5, <1>6, Shapes DEF SendDriverOffer, ScheduleOfferTimeout, rows
<1>8. due # Null
  BY TimeType
<1>9. \A s \in Rides : s # r => Carriers(s)' = Carriers(s)
  BY <1>2, <1>3, <1>7, SameCarriers
<1>10. \A x \in Carriers(r)' : x = <<"timeout", d>> \/ x \in Carriers(r)
  BY <1>2, <1>7, NewCarrier
<1>11. Handed(r, <<"worker", r>>, <<"timeout", d>>)
  BY <1>4, <1>9, <1>10 DEF Handed
<1>12. <<"timeout", d>> \in Carriers(r)'
  BY <1>7, <1>8, TimeoutCarrier
<1>13. OneCarrier'
  <2>1. \A s \in Rides, t \in Time : matchJobs'[s][t] <= 1
    BY <1>1, <1>7 DEF OneCarrier
  <2> QED
    BY <1>1, <1>7, <1>11, <1>12, <2>1, HandedOver
<1>14. OfferHasTimeout'
  <2> SUFFICES ASSUME NEW s \in Rides, NEW e \in Drivers
               PROVE  /\ offer'[s][e].status = "PENDING" =>
                           timeoutJob'[s][e] # Null /\ timeoutJob'[s][e] >= offer'[s][e].expires
                      /\ Unrejected' /\ timeoutJob'[s][e] # Null => offer'[s][e].status \in {"PENDING", "ACCEPTED"}
    BY <1>2 DEF OfferHasTimeout, Null
  <2>1. CASE s = r /\ e = d
    BY <1>1, <1>2, <1>3, <1>5, <1>6, <1>7, <1>8, <2>1 DEF OfferHasTimeout
  <2>2. CASE ~(s = r /\ e = d)
    BY <1>1, <1>3, <1>7, <2>2 DEF OfferHasTimeout
  <2> QED
    BY <2>1, <2>2
<1>15. WorkerOnTrack'
  BY <1>1, <1>2, <1>7 DEF WorkerOnTrack
<1> QED
  BY <1>13, <1>14, <1>15

\* The timeout job finds its offer run out and hands the search to the handler, or
\* it finds the ride accepted or the offer rejected.
LEMMA ExpireOfferSearch ==
  ASSUME SearchTypeInv, Steady, Unrejected' => Unrejected,
         NEW r \in Rides, NEW d \in Drivers, ExpireOffer(r, d)
  PROVE  OneCarrier' /\ OfferHasTimeout' /\ WorkerOnTrack'
<1>1. TypeOK /\ OneCarrier /\ OfferHasTimeout /\ WorkerOnTrack /\ AcceptedOfferHasAcceptedRide
  BY DEF SearchTypeInv, SearchInv, WindowTypeInv, AssignmentInv
<1>2. /\ worker.step = "idle"
      /\ timeoutJob[r][d] # Null /\ timeoutJob[r][d] <= now
      /\ UNCHANGED <<now, ride, matchJobs, request>>
      /\ timeoutJob'[r][d] = Null
      /\ \A s \in Rides, e \in Drivers : s # r \/ e # d => timeoutJob'[s][e] = timeoutJob[s][e]
      /\ \A s \in Rides : s # r => timeoutJob'[s] = timeoutJob[s]
  BY <1>1, Shapes DEF ExpireOffer, DueTimeoutJob, TakeTimeoutJob
<1>3. \/ /\ offer[r][d].status = "PENDING"
         /\ offer' = [offer EXCEPT ![r][d].status = "EXPIRED"]
         /\ worker'.step = "resume" /\ worker'.ride = r
      \/ /\ offer[r][d].status # "PENDING"
         /\ Unrejected => offer[r][d].status = "ACCEPTED"
         /\ UNCHANGED <<offer, worker>>
  <2>1. Unrejected => offer[r][d].status \in {"PENDING", "ACCEPTED"}
    BY <1>1, <1>2 DEF OfferHasTimeout
  <2>2. CASE offer[r][d].status = "PENDING"
    <3>1. timeoutJob[r][d] >= offer[r][d].expires
      BY <1>1, <1>2, <2>2 DEF OfferHasTimeout
    <3>2. timeoutJob[r][d] \in Int /\ now \in Int /\ offer[r][d].expires \in Int
      <4>1. /\ timeoutJob[r][d] \in Time \union {Null}
            /\ offer[r][d].expires \in Time \union {Null}
            /\ now \in Int
        BY <1>1, Shapes DEF OfferRow
      <4>2. Null \in Int /\ \A t \in Time : t \in Int
        BY TimeType DEF Null
      <4> QED
        BY <4>1, <4>2
    <3>3. offer[r][d].expires <= now
      BY <1>2, <3>1, <3>2
    <3>4. /\ offer' = [offer EXCEPT ![r][d].status = "EXPIRED"]
          /\ worker' = [IdleWorker EXCEPT !.step = "resume", !.ride = r, !.driver = d]
      BY <2>2, <3>3 DEF ExpireOffer
    <3> QED
      BY <2>2, <3>4 DEF IdleWorker
  <2>3. CASE offer[r][d].status # "PENDING"
    BY <2>1, <2>3 DEF ExpireOffer
  <2> QED
    BY <2>2, <2>3
<1>4. /\ \A s \in Rides, e \in Drivers : s # r \/ e # d => offer'[s][e] = offer[s][e]
      /\ offer'[r][d].status # "PENDING"
  <2>1. offer \in [Rides -> [Drivers -> OfferRow]]
    BY <1>1, Shapes
  <2>2. CASE offer' = [offer EXCEPT ![r][d].status = "EXPIRED"]
    <3>1. \A s \in Rides, e \in Drivers : s # r \/ e # d => offer'[s][e] = offer[s][e]
      BY <2>1, <2>2
    <3>2. offer'[r][d].status = "EXPIRED"
      BY <2>1, <2>2 DEF OfferRow
    <3> QED
      BY <3>1, <3>2
  <2> QED
    BY <1>3, <2>2
<1>5. <<"timeout", d>> \in Carriers(r) /\ <<"timeout", d>> \notin Carriers(r)'
  BY <1>2, TimeoutCarrier
<1>6. \A s \in Rides : s # r => Carriers(s)' = Carriers(s)
  BY <1>2, <1>3, SameCarriers
<1>7. \A x \in Carriers(r)' : x = <<"worker", r>> \/ x \in Carriers(r)
  BY <1>2, NewCarrier
<1>8. Handed(r, <<"timeout", d>>, <<"worker", r>>)
  BY <1>5, <1>6, <1>7 DEF Handed
<1>9. Unrejected /\ Searching(r) /\ InWindow(r) => <<"worker", r>> \in Carriers(r)'
  <2>1. offer[r][d].status = "ACCEPTED" => ~Searching(r)
    BY <1>1 DEF AcceptedOfferHasAcceptedRide, Searching
  <2>2. worker'.step = "resume" /\ worker'.ride = r => <<"worker", r>> \in Carriers(r)'
    BY WorkerCarrier
  <2> QED
    BY <1>3, <2>1, <2>2
<1>10. OneCarrier'
  <2>1. \A s \in Rides, t \in Time : matchJobs'[s][t] <= 1
    BY <1>1, <1>2 DEF OneCarrier
  <2> QED
    BY <1>1, <1>2, <1>8, <1>9, <2>1, HandedOver
<1>11. OfferHasTimeout'
  <2> SUFFICES ASSUME NEW s \in Rides, NEW e \in Drivers
               PROVE  /\ offer'[s][e].status = "PENDING" =>
                           timeoutJob'[s][e] # Null /\ timeoutJob'[s][e] >= offer'[s][e].expires
                      /\ Unrejected' /\ timeoutJob'[s][e] # Null => offer'[s][e].status \in {"PENDING", "ACCEPTED"}
    BY <1>2, <1>3 DEF OfferHasTimeout, Null
  <2>1. CASE s = r /\ e = d
    BY <1>2, <1>4, <2>1
  <2>2. CASE ~(s = r /\ e = d)
    BY <1>1, <1>2, <1>4, <2>2 DEF OfferHasTimeout
  <2> QED
    BY <2>1, <2>2
<1>12. WorkerOnTrack'
  BY <1>1, <1>2, <1>3 DEF WorkerOnTrack
<1> QED
  BY <1>10, <1>11, <1>12

\* An accept ends the search and leaves its carrier to find that out.
LEMMA AcceptCommitSearch ==
  ASSUME SearchTypeInv, Steady, Unrejected' => Unrejected, NEW q \in Requests, AcceptCommit(q)
  PROVE  OneCarrier' /\ OfferHasTimeout' /\ WorkerOnTrack'
<1>1. TypeOK /\ OneCarrier /\ OfferHasTimeout /\ WorkerOnTrack
  BY DEF SearchTypeInv, SearchInv, WindowTypeInv
<1>2. PICK r \in Rides, d \in Drivers : r = request[q].ride /\ d = request[q].driver
  BY <1>1 DEF AcceptCommit, TypeOK, RequestsOK, RequestOK
<1>3. /\ UNCHANGED <<now, matchJobs, timeoutJob, worker>>
      /\ request[q].step = "acceptCommit"
      /\ ride'[r].status = "accepted"
      /\ \A s \in Rides : s # r => ride'[s] = ride[s]
  BY <1>1, <1>2, Shapes DEF AcceptCommit, jobs
<1>4. /\ request'[q].step = "acceptRoute"
      /\ \A p \in Requests : p # q => request'[p] = request[p]
  BY <1>1, Shapes DEF AcceptCommit, Continue, Request
<1>5. offer'[r][d].status = "ACCEPTED"
  <2>1. offer' = [offer EXCEPT ![r][d].status = "ACCEPTED"]
    BY <1>2 DEF AcceptCommit
  <2>2. offer[r][d] \in OfferRow /\ offer \in [Rides -> [Drivers -> OfferRow]]
    BY <1>1, Shapes
  <2> QED
    BY <2>1, <2>2 DEF OfferRow
<1>6. \A s \in Rides, e \in Drivers : s # r \/ e # d => offer'[s][e] = offer[s][e]
  BY <1>1, <1>2, Shapes DEF AcceptCommit
<1>7. OneCarrier'
  <2>1. \A s \in Rides : Carriers(s)' = Carriers(s)
    BY <1>3, <1>4, SameCarriers
  <2>2. \A s \in Rides : /\ ride'[s].status = "none" => ride[s].status = "none"
                         /\ Searching(s)' /\ InWindow(s)' => Searching(s) /\ InWindow(s)
    BY <1>3 DEF Searching, InWindow
  <2> QED
    BY <1>1, <1>3, <2>1, <2>2, CarriersStay
<1>8. OfferHasTimeout'
  <2>1. worker.step = "schedule" => worker.ride \in Rides /\ worker.driver \in Drivers
    BY <1>1, Shapes
  <2>2. \A s \in Rides, e \in Drivers :
          \/ offer'[s][e] = offer[s][e]
          \/ offer'[s][e].status = "ACCEPTED"
    BY <1>5, <1>6
  <2> QED
    BY <1>1, <1>3, <2>1, <2>2 DEF OfferHasTimeout, Null
<1>9. WorkerOnTrack'
  <2>1. worker.step # "idle" => worker.ride \in Rides
    BY <1>1, Shapes
  <2> QED
    BY <1>1, <1>3, <1>4, <2>1 DEF WorkerOnTrack, Searching
<1> QED
  BY <1>7, <1>8, <1>9

\* A reject takes an offer back and leaves its carrier to end the search.
LEMMA RejectOfferSearch ==
  ASSUME SearchTypeInv, Steady, NEW q \in Requests,
         NEW r \in Rides, NEW d \in Drivers, RejectOffer(q, r, d)
  PROVE  OneCarrier' /\ OfferHasTimeout' /\ WorkerOnTrack'
<1>1. TypeOK /\ OneCarrier /\ OfferHasTimeout /\ WorkerOnTrack
  BY DEF SearchTypeInv, SearchInv, WindowTypeInv
<1>2. PICK to : Begin(q, [IdleRequest EXCEPT !.step = "rejectCommit", !.ride = r, !.driver = d, !.to = to])
  BY DEF RejectOffer
<1>3. UNCHANGED <<now, ride, offer, matchJobs, timeoutJob, worker>>
  BY DEF RejectOffer, rows, jobs
<1>4. ~Unrejected'
  <2>1. count \in [retries : Nat, rejects : Nat, changes : Nat, faults : Nat, crashes : Nat]
    BY <1>1 DEF TypeOK, BooksOK
  <2> QED
    BY <2>1 DEF RejectOffer, Unrejected
<1>5. request[q].step = "idle" /\ request'[q].step = "rejectCommit"
  BY <1>1, <1>2, Shapes DEF Begin, IdleRequest
<1>6. \A p \in Requests : p # q => request'[p] = request[p]
  BY <1>1, <1>2, Shapes DEF Begin
<1>7. OneCarrier'
  <2>1. \A s \in Rides : Carriers(s)' = Carriers(s)
    BY <1>3, <1>5, <1>6, SameCarriers
  <2> QED
    BY <1>1, <1>3, <1>4, <2>1, CarriersStay DEF Searching, InWindow
<1>8. OfferHasTimeout'
  BY <1>1, <1>3, <1>4 DEF OfferHasTimeout
<1>9. WorkerOnTrack'
  BY <1>1, <1>3, <1>4, <1>5, <1>6 DEF WorkerOnTrack, Searching
<1> QED
  BY <1>7, <1>8, <1>9

LEMMA RejectCommitSearch ==
  ASSUME SearchTypeInv, Steady, Unrejected' => Unrejected, NEW q \in Requests, RejectCommit(q)
  PROVE  OneCarrier' /\ OfferHasTimeout' /\ WorkerOnTrack'
<1>1. TypeOK /\ OneCarrier /\ OfferHasTimeout /\ WorkerOnTrack
  BY DEF SearchTypeInv, SearchInv, WindowTypeInv
<1>2. PICK r \in Rides, d \in Drivers : r = request[q].ride /\ d = request[q].driver
  BY <1>1 DEF RejectCommit, TypeOK, RequestsOK, RequestOK
<1>3. /\ UNCHANGED <<now, ride, matchJobs, timeoutJob, worker>>
      /\ request[q].step = "rejectCommit"
  BY DEF RejectCommit, jobs
<1>4. ~Unrejected /\ ~Unrejected'
  BY <1>1, <1>3 DEF WorkerOnTrack
<1>5. /\ request'[q].step = "idle"
      /\ \A p \in Requests : p # q => request'[p] = request[p]
  BY <1>1, Shapes, IdleType DEF RejectCommit, End
<1>6. \A s \in Rides, e \in Drivers : offer'[s][e] = offer[s][e] \/ offer'[s][e].status # "PENDING"
  <2>1. offer \in [Rides -> [Drivers -> OfferRow]]
    BY <1>1, Shapes
  <2>2. request[q].to \in {"REJECTED", "EXPIRED"}
    BY <1>1, <1>3 DEF TypeOK, RequestsOK, RequestOK
  <2>3. offer' = [offer EXCEPT ![r][d].status = request[q].to]
    BY <1>2 DEF RejectCommit
  <2>4. offer'[r][d].status = request[q].to
    BY <2>1, <2>3 DEF OfferRow
  <2>5. \A s \in Rides, e \in Drivers : s # r \/ e # d => offer'[s][e] = offer[s][e]
    BY <2>1, <2>3
  <2> QED
    BY <2>2, <2>4, <2>5
<1>7. OneCarrier'
  <2>1. \A s \in Rides : Carriers(s)' = Carriers(s)
    BY <1>3, <1>5, SameCarriers
  <2> QED
    BY <1>1, <1>3, <2>1, CarriersStay DEF Searching, InWindow
<1>8. OfferHasTimeout'
  BY <1>1, <1>3, <1>4, <1>6 DEF OfferHasTimeout
<1>9. WorkerOnTrack'
  BY <1>1, <1>3, <1>4, <1>5 DEF WorkerOnTrack, Searching
<1> QED
  BY <1>7, <1>8, <1>9

-----------------------------------------------------------------------------
(***************************************************************************)
(* Every step is one of those above, or a disturbance, after which nothing *)
(* is claimed.                                                             *)
(***************************************************************************)
LEMMA Disturbances ==
  ASSUME TypeOK,
         \/ WorkerFault \/ Crash
         \/ \E q \in Requests :
              \/ RequestFails(q)
              \/ \E r \in Rides : RetryRide(q, r)
  PROVE  ~Steady'
<1>1. count \in [retries : Nat, rejects : Nat, changes : Nat, faults : Nat, crashes : Nat]
  BY DEF TypeOK, BooksOK
<1>2. CASE count' = [count EXCEPT !.faults = @ + 1]
  BY <1>1, <1>2 DEF Steady
<1>3. CASE count' = [count EXCEPT !.crashes = @ + 1]
  BY <1>1, <1>3 DEF Steady
<1>4. CASE count' = [count EXCEPT !.retries = @ + 1]
  BY <1>1, <1>4 DEF Steady
<1> QED
  BY <1>2, <1>3, <1>4 DEF WorkerFault, HandlerFails, ExpireOfferFails, UseFault, Crash,
     RequestFails, RetryRide

\* What is counted is not uncounted.
Calmer == (Steady' => Steady) /\ (Unrejected' => Unrejected)

LEMMA StaysSteady == TypeOK /\ [Next]_vars => Calmer
<1> SUFFICES ASSUME TypeOK, [Next]_vars PROVE Calmer
  OBVIOUS
<1>1. count \in [retries : Nat, rejects : Nat, changes : Nat, faults : Nat, crashes : Nat]
  BY DEF TypeOK, BooksOK
<1>2. CASE UNCHANGED count
  BY <1>2 DEF Calmer, Steady, Unrejected
<1>3. CASE \/ count' = [count EXCEPT !.retries = @ + 1]
           \/ count' = [count EXCEPT !.rejects = @ + 1]
           \/ count' = [count EXCEPT !.changes = @ + 1]
           \/ count' = [count EXCEPT !.faults = @ + 1]
           \/ count' = [count EXCEPT !.crashes = @ + 1]
  BY <1>1, <1>3 DEF Calmer, Steady, Unrejected
<1>4. CASE Tick \/ WorkerStep \/ UNCHANGED vars
  BY <1>2, <1>4 DEF Tick, WorkerStep, StartMatching, FindNearbyDrivers, NextDriver, Reschedule,
     CreateOfferRead, WriteOffer, WriteStaleOffer, SendDriverOffer, Recover, ExpireOffer,
     ResumeMatching, vars
<1>5. CASE WorkerFault \/ Crash
  BY <1>3, <1>5 DEF WorkerFault, HandlerFails, ExpireOfferFails, UseFault, Crash
<1>6. ASSUME NEW q \in Requests, RequestStep(q) PROVE Calmer
  BY <1>2, <1>6 DEF RequestStep, RetryRideFlush, Enqueue, AcceptReadOffer, AcceptExpired, AcceptRefused,
     AcceptCommit, AcceptAnnounce, RejectCommit, UpdateStatusFlush
<1>7. ASSUME NEW q \in Requests, RequestStart(q) \/ RequestFails(q) PROVE Calmer
  BY <1>2, <1>3, <1>7 DEF RequestStart, CreateRide, RetryRide, AcceptRideOffer, RejectOffer, UpdateStatus,
     RequestFails
<1> QED
  BY <1>2, <1>4, <1>5, <1>6, <1>7 DEF Next

LEMMA SearchStep == SearchTypeInv /\ [Next]_vars => SearchInv'
<1> SUFFICES ASSUME SearchTypeInv, [Next]_vars, Steady'
             PROVE  OneCarrier' /\ OfferHasTimeout' /\ WorkerOnTrack'
  BY DEF SearchInv
<1>1. TypeOK /\ TypeOK' /\ Steady /\ (Unrejected' => Unrejected) /\ WorkerOnTrack
  BY NextTypeOK, StaysSteady DEF SearchTypeInv, WindowTypeInv, SearchInv, Calmer
<1> DEFINE Goal == OneCarrier' /\ OfferHasTimeout' /\ WorkerOnTrack'
<1>2. CASE Tick \/ UNCHANGED vars
  BY <1>1, <1>2, AsideSteps, AsideKeeps
<1>3. CASE WorkerStep
  <2>1. ~Recover /\ ~WriteStaleOffer
    BY <1>1 DEF WorkerOnTrack, Recover, WriteStaleOffer
  <2>2. CASE FindNearbyDrivers \/ NextDriver \/ CreateOfferRead \/ Reschedule \/ ResumeMatching
    BY <1>1, <2>2, MovesOnSteps, MovesOnKeeps, LoopEndsSearch
  <2>3. CASE \E r \in Rides, t \in Time : StartMatching(r, t)
    BY <1>1, <2>3, StartMatchingSearch
  <2>4. CASE WriteOffer \/ SendDriverOffer \/ \E r \in Rides, d \in Drivers : ExpireOffer(r, d)
    BY <1>1, <2>4, WriteOfferSearch, SendDriverOfferSearch, ExpireOfferSearch
  <2> QED
    BY <1>3, <2>1, <2>2, <2>3, <2>4 DEF WorkerStep
<1>4. CASE WorkerFault \/ Crash \/ \E q \in Requests : RequestFails(q)
  BY <1>1, <1>4, Disturbances
<1>5. ASSUME NEW q \in Requests, RequestStart(q) PROVE Goal
  <2>1. CASE \E r \in Rides : CreateRide(q, r)
    BY <1>1, <2>1, CreateRideSearch
  <2>2. CASE \/ \E r \in Rides, d \in Drivers : AcceptRideOffer(q, r, d)
             \/ \E d \in Drivers, st \in DriverStatuses : UpdateStatus(q, d, st)
    BY <1>1, <2>2, AsideSteps, AsideKeeps
  <2>3. CASE \E r \in Rides, d \in Drivers : RejectOffer(q, r, d)
    BY <1>1, <2>3, RejectOfferSearch
  <2> QED
    BY <1>1, <1>5, <2>1, <2>2, <2>3, Disturbances DEF RequestStart
<1>6. ASSUME NEW q \in Requests, RequestStep(q) PROVE Goal
  <2>1. ~RetryRideFlush(q)
    BY <1>1 DEF WorkerOnTrack, RetryRideFlush
  <2>2. CASE Enqueue(q) \/ AcceptCommit(q) \/ RejectCommit(q)
    BY <1>1, <2>2, EnqueueSearch, AcceptCommitSearch, RejectCommitSearch
  <2>3. CASE \/ AcceptReadOffer(q) \/ AcceptExpired(q) \/ AcceptRefused(q)
             \/ AcceptAnnounce(q) \/ UpdateStatusFlush(q)
    BY <1>1, <2>3, AsideSteps, AsideKeeps
  <2> QED
    BY <1>6, <2>1, <2>2, <2>3 DEF RequestStep
<1> QED
  BY <1>2, <1>3, <1>4, <1>5, <1>6 DEF Next

LEMMA InitSearch == Init => SearchInv
<1> SUFFICES ASSUME Init PROVE OneCarrier /\ OfferHasTimeout /\ WorkerOnTrack
  BY DEF SearchInv
<1>1. /\ \A r \in Rides : ride[r].status = "none" /\ \A t \in Time : matchJobs[r][t] = 0
      /\ \A r \in Rides, d \in Drivers : timeoutJob[r][d] = Null /\ offer[r][d].status = "none"
      /\ worker.step = "idle" /\ \A q \in Requests : request[q].step = "idle"
  BY IdleType DEF Init
<1>2. \A r \in Rides : Carriers(r) = {}
  BY <1>1 DEF Carriers
<1>3. OneCarrier
  BY <1>1, <1>2 DEF OneCarrier, Searching
<1>4. OfferHasTimeout /\ WorkerOnTrack
  BY <1>1 DEF OfferHasTimeout, WorkerOnTrack
<1> QED
  BY <1>3, <1>4

LEMMA SearchTypeInvariant == Spec => []SearchTypeInv
<1>1. Init => SearchTypeInv
  BY InitWindow, InitAssignmentInv, InitSearch DEF SearchTypeInv
<1>2. SearchTypeInv /\ [Next]_vars => SearchTypeInv'
  BY NextWindow, NextAssignmentInv, SearchStep DEF SearchTypeInv
<1> QED
  BY <1>1, <1>2, PTL DEF Spec

\* Without retries, faults and crashes a search is carried by at most one request,
\* job or handler at any time, whatever drivers accept or reject, and before the
\* first reject by exactly one while its window is open.
THEOREM SearchTheorem == Spec => []SearchInv
<1>1. SearchTypeInv => SearchInv
  BY DEF SearchTypeInv
<1> QED
  BY <1>1, SearchTypeInvariant, PTL

\* No ride in its window is forgotten.
THEOREM SearchGoesOnTheorem == Spec => []SearchGoesOn
<1>1. SearchTypeInv => SearchGoesOn
  <2> SUFFICES ASSUME SearchTypeInv, Undisturbed, NEW r \in Rides, Searching(r), InWindow(r)
               PROVE  \/ HasMatchingJob(r)
                      \/ worker.step # "idle" /\ worker.ride = r
                      \/ \E d \in Drivers : offer[r][d].status = "PENDING" /\ timeoutJob[r][d] # Null
                      \/ \E q \in Requests : request[q].step = "enqueue" /\ request[q].ride = r
    BY DEF SearchGoesOn
  <2>1. OneCarrier /\ OfferHasTimeout /\ AcceptedOfferHasAcceptedRide /\ Unrejected
    BY DEF SearchTypeInv, SearchInv, AssignmentInv, Undisturbed
  <2>2. PICK x : x \in Carriers(r)
    BY <2>1 DEF OneCarrier
  <2>3. CASE \E q \in Requests : x = <<"request", q>>
    BY <2>2, <2>3, RequestCarrier
  <2>4. CASE \E t \in Time : x = <<"job", t>>
    BY <2>2, <2>4, JobCarrier DEF HasMatchingJob
  <2>5. CASE \E d \in Drivers : x = <<"timeout", d>>
    <3>1. PICK d \in Drivers : timeoutJob[r][d] # Null
      BY <2>2, <2>5, TimeoutCarrier
    <3>2. offer[r][d].status # "ACCEPTED"
      BY <2>1 DEF AcceptedOfferHasAcceptedRide, Searching
    <3> QED
      BY <2>1, <3>1, <3>2 DEF OfferHasTimeout
  <2>6. CASE x = <<"worker", r>>
    BY <2>2, <2>6, WorkerCarrier
  <2>7. \/ \E q \in Requests : x = <<"request", q>>
        \/ \E t \in Time : x = <<"job", t>>
        \/ \E d \in Drivers : x = <<"timeout", d>>
        \/ x = <<"worker", r>>
    BY <2>2, CarrierMembers DEF CarrierKinds
  <2> QED
    BY <2>3, <2>4, <2>5, <2>6, <2>7
<1> QED
  BY <1>1, SearchTypeInvariant, PTL

\* The ride is offered to one driver at a time, whatever they accept or reject.
THEOREM OneOfferTheorem == Spec => []OneOfferAtATime
<1>1. SearchTypeInv => OneOfferAtATime
  <2> SUFFICES ASSUME SearchTypeInv, Steady, NEW r \in Rides, NEW d \in Drivers, NEW e \in Drivers,
                      offer[r][d].status = "PENDING", offer[r][e].status = "PENDING"
               PROVE  d = e
    BY DEF OneOfferAtATime
  <2>1. OfferHasTimeout /\ \A x, y \in Carriers(r) : x = y
    BY DEF SearchTypeInv, SearchInv, OneCarrier
  <2>2. \A c \in Drivers : offer[r][c].status = "PENDING" =>
          \/ <<"timeout", c>> \in Carriers(r)
          \/ <<"worker", r>> \in Carriers(r) /\ worker.driver = c
    BY <2>1, TimeoutCarrier, WorkerCarrier DEF OfferHasTimeout
  <2>3. \A c, f \in Drivers : <<"timeout", c>> # <<"worker", r>> /\ (<<"timeout", c>> = <<"timeout", f>> => c = f)
    OBVIOUS
  <2> QED
    BY <2>1, <2>2, <2>3
<1> QED
  BY <1>1, SearchTypeInvariant, PTL

\* No timeout job finds its offer still open.
THEOREM TimeoutTheorem == Spec => []TimeoutAfterExpiry
<1>1. SearchTypeInv => TimeoutAfterExpiry
  BY DEF SearchTypeInv, SearchInv, OfferHasTimeout, TimeoutAfterExpiry
<1> QED
  BY <1>1, SearchTypeInvariant, PTL
=============================================================================
