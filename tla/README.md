# easy_ride in TLA+

easy_ride is a NestJS server (PostgreSQL through MikroORM, BullMQ on Redis,
Socket.IO, OSRM).  Its core is ride matching: a user asks for a ride, a worker
offers it to one near driver after another for 30 seconds, and a driver accepts.
Beside it stands authentication by one-time passwords, with sessions whose refresh tokens
rotate, a second factor, and the change of the phone that identifies an account.
A socket gateway tells users and drivers what becomes of rides and offers, and an upload
keeps files in a bucket and their rows in the database.
This directory holds TLA+ models of these, the TLC runs that check them, and
TLAPS proofs of their main invariants for every value of the constants.

## The system

| component | state | operations | talks to |
|---|---|---|---|
| rides service (`rides/rides.service.ts`) | table `rides` | `createRide`, `retryRide`, `acceptRideOffer`, `rejectOffer` | queue (adds jobs), routing, gateway (called by) |
| ride offers (`shared/matching/ride-offer.service.ts`) | table `ride_driver_offers` | `createOffer`, `expireOfferIfPending`, `scheduleExpiration`; called by nothing: `acceptOffer`, `rejectOffer`, `findPendingOffer`, `handleOfferTimeout` | queue |
| matching queue (`ride-matching.queue.ts`) | delayed jobs in Redis | `addMatchingJob`, `scheduleOfferTimeout` | BullMQ |
| matching worker (`matching.worker.ts`) | the job it is in | `handleRideMatching`, `handleOfferTimeoutJob` | all of the above, socket service |
| driver search (`matching.service.ts`) | none | `findNearbyDrivers`, `getMatchingState`, `getRideMatchingTiming` | PostGIS, OSRM |
| drivers service (`drivers/drivers.service.ts`) | table `drivers` | `updateStatus`, `updateLocation`, profile, phone change | OTP |
| gateway and socket service (`socket/`) | connections and rooms, in memory | connect, disconnect, `ride:accept`, `ride:reject`, `ride:join`, `ride:leave`, `driver:location_update`; the events of offers, assignments and locations | rides and drivers services; called by the worker |
| authentication (`users/auth`, `drivers/auth`, guards, strategies, `shared/otp.service.ts`) | sessions, security actions, two-factor rows, OTPs in memory | register, login, refresh, logout, two-factor | OTP provider |
| profile (`users/profile`, `shared/profile-helper.service.ts`) | table `users` | name, change of the phone | OTP |
| attachments, object storage (`attachment/`, `shared/object-storage.ts`) | table `attachments`, a bucket | upload; `AttachmentClaimService.claim` is called by nothing | S3 |
| routing (`routing/`) | none | route of two points | OSRM |

What is hard here: requests, worker and clock interleave at every `await`;
transactions run at READ COMMITTED with neither locks nor versions; a search
lives in a chain of delayed jobs in which every handler must leave exactly one
successor; a Redis or OSRM failure can hit between a commit and what should follow it;
OTPs are in the memory of the process and the rows that wait for them are not; an answer
with a new refresh token may never arrive; an event reaches whoever is in a room at
that moment, between a write and the next; bucket and database have no transaction in common.
`PROJECT.json` lists each of these hazards at its line.

What makes each part correct:

* rides service: a ride gets one driver, once; a driver has one ride; a search that
  was accepted is never reopened; what was committed is announced;
* ride offers: one live offer per ride at a time, none outlives the search window,
  each is answered or expires;
* queue and worker: the search goes on while its window lasts, and ends;
* gateway: who is in the room of a ride is one of its parties; what is told was stored; the
  user knows the driver of the ride, and the apps of the drivers show the offers the table has;
* attachments: what a client was given is there, and a failed upload leaves nothing behind;
* authentication: an OTP and a challenge work once; a revoked session stays revoked; a
  client keeps the token of its session unless two of its refreshes overlap or an answer is lost; who has a second factor is asked
  for it; a phone is proved before it is an account's, and is one account's only.

## Modules

    RideStore            tables, jobs, worker, requests, clock; Init
      RideMatchingQueue  the two kinds of delayed job
        MatchingWorker   the handlers of the worker
        RideRequests     the HTTP and socket requests
          RideMatching   the composition, crashes, the properties
            RideClaims   what the code's own messages say and the code does not keep
              MCRideMatching   small instances for TLC
            RideRooms        the sockets laid over the composition
              MCRideRooms      a small instance for TLC
            RideMatchingProofs theorems about rows, windows and assignments
              SearchProofs     theorems about the search for a driver
                RideRoomsProofs  theorems about the sockets (with RideRooms)
    RideAssignment       abstract specification RideMatching is checked against, one request at a time
    ContestedAssignment  what is left of it when requests overlap

    RideOfferService     all methods of the class of that name, called by anybody
      MCRideOfferService small instance for TLC
      RideOfferServiceProofs theorems
    OfferAnswers         abstract specification RideOfferService implements

    Attachments          the upload, the bucket and the table
      MCAttachments      small instance for TLC
      AttachmentsProofs  theorems

    AuthStore            accounts, sessions, actions, OTPs, tokens, requests; Init
      OtpService         the list of OTPs in memory
        AuthService      registration, login, second factor, refresh, logout
          PhoneChange    the change of a phone, of users and of drivers
            Authentication   the composition, failures, restarts, the properties
              AuthClaims     what a message says and overlapping requests break
                MCAuthentication   small instances for TLC
              AuthProofs     theorems about sessions and their OTPs
                AccountProofs  theorems about second factors, tokens and phones

Matching and authentication share no variable: the one reads `drivers.status`, the other writes
`phone`, and a dirty-column update of the one does not touch the other.  Attachments stand
alone: no code refers from another table to one.

### Ride matching

**Rows.** `ride[r]`, `offer[r][d]` and `driver[d]` are the columns that decide
anything: status, `driver_id`, `search_expires_at`, the offer's status and
`expires_at`, the driver's status.  Status "none" is a row not inserted yet.
`search_started_at` is written and cleared together with `search_expires_at`
and only tested for null.

**Reads and writes.** A handler reads committed rows in one step and writes in a
later one.  `em.flush()` updates by primary key the columns that differ from
what was loaded, so `RetryRideFlush` writes the window and nothing else: the
status it assigns is the one it had loaded.  `WriteStaleOffer` is the same effect the other
way round: `nativeUpdate` sets the row EXPIRED behind the loaded entity, whose
status goes PENDING, EXPIRED, PENDING and is not dirty at the flush.
A flush runs in one database transaction, and `acceptRideOffer` commits its flush with its
own transaction, so a write step is atomic.  Reads that follow each other with no write
between are one step where a write of somebody else that falls between them
gives the same result as one that comes just before or just after.  Where it does not,
they are two: the driver and the offer in `acceptRideOffer` (`AcceptRideOffer`, `AcceptReadOffer`).

**Jobs.** `matchJobs[r][t]` counts the matching jobs of a ride that fall due at t: every
`addMatchingJob` has an id of its own.  (The id ends in the millisecond of the call: BullMQ would drop
a second call for a ride in the same millisecond, which is finer than a tick and is left out.)  `timeoutJob[r][d]` is the one timeout job
an offer can have, its id being the offer's.  A due job may be taken at any
later time, in any order, but the worker has one handler at a time: the processor sets
no concurrency, and BullMQ's default is 1.

**Worker.** `worker.step` names the next piece of the handler:
`find` → `loop` → `offer` → `write` → `schedule`, with `recover` for the catch
block and `resume` for the second half of the timeout handler.

**Requests.** `request[q]` is a request being served.  A request that is refused
before it has written anything is no step; one refused after its first read
ends in `AcceptExpired` or `AcceptRefused`.  A driver can answer an offer only after its event was
sent, because nothing else tells him its id.

**Time.** One tick stands for five seconds, except where a run says otherwise: the window of 30 s, the
interval of 5 s and the offer's 10 s are the constants Window, Interval and
OfferTimeout, any positive numbers for the proofs.

**Faults.** `HandlerFails`, `ExpireOfferFails` and `RequestFails` are errors of
PostgreSQL, Redis or OSRM at any await, with what the catch blocks do.  `Crash`
is the death of the process; BullMQ finds the active job stalled and hands it out
once more.  A matching job handed out again starts from the beginning; a timeout job too, and
it finds the offer no longer PENDING if its update had been made.

**Start.** No ride, no offer, no job, every driver AVAILABLE: a driver is
made AVAILABLE by the `updateStatus` the model has too.

### The offer service by itself

`MatchingWorker` models `createOffer` and `expireOfferIfPending` as the worker calls them, and
`RideRequests` the accept and the reject of `RidesService`, which the gateway calls.
`RideOfferService` has an accept and a reject of its own that nothing calls: one with
`SELECT ... FOR UPDATE` on the ride and updates with the condition `status = PENDING`.
The module `RideOfferService` models the class with all its methods, called by any number of
drivers beside one `createOffer` at a time (`creating`: the worker has one handler at a time).

`AcceptOffer` looks at the clock, `AcceptLock` reads the ride once nobody else holds `lock[r]`,
`AcceptCommit` does the conditional update of the offer, the flush of the ride and the commit;
`AcceptFails` is a rollback, or the death of the process.  `SearchWindow` is what `RidesService`
does to the row at the request of a ride and at a retry; its update waits for the lock.
`createOffer` reads without a lock, so it may write an offer of a ride that is being
accepted: `PlanHolds` says why it never writes over the offer that was won.
Conditional updates are one step, as in PostgreSQL.  The driver's own status is not
looked at by this accept, and left out; so a driver may win two rides here.

`OfferAnswers` says what all of this comes to: an offer is open, closed or won, one of a ride is
won at most, for good, and its driver is the ride's.  `ImplementsOfferAnswers` is the refinement;
the accept that the gateway really uses does not keep it (`claim_assigned_as_checked`).

### Sockets and rooms

`RideRooms` takes every step of `RideMatching` and adds what it emits and to whom; a step
that emits nothing is a `SilentStep`.  Two things are narrower than there: a driver answers on his
socket and what his app was shown (`AnswerSent`), and his status is changed by accepts only
(`updateStatus` emits nothing, and is left out).

**Rooms.** `online` are the clients whose socket is connected; each has one, which joins
`driver:<id>` or `user:<id>` and no ride's room when it connects.  `member` has who is in which ride's
room.  `joinRide` and `leaveRide` read the ride (`Allowed`), then await the socket
(`JoinRoom`, `LeaveRoom`); socket.io ignores both for a closed socket.

**Events.** An event is emitted in the step that leads to it when no await is between, and
otherwise leaves a record in `notices`, which `NotifyOffer` emits: after the update of
`expireOfferIfPending` and after the flush of a reject.  `screen[r][d]` is the last event of an offer
on the driver's app, lost to who is not online.  `ride:accepted` goes to `user:<id>` (`informed`), after the routes.

**Locations.** `driver:location_update` reads the ride, writes `drivers.location`
(`stored`) and tells the room (`shown`); a number stands for the coordinates.

`drove`, `stored` and `informed` remember, so that properties can speak of the past.

### Attachments

`create` draws a key (`Create`), uploads (`Upload`), inserts the row (`InsertRow`), answers
(`Answer`); after a failed insert it deletes the object (`DeleteObject`) and swallows an error of that.
A request to bucket or database may fail without effect (`RequestFails`) or have effect and fail for
the caller (`AnswerLost`): a commit whose acknowledgement is lost is the second.
`Crash` forgets all calls.  Keys are random, hence drawn once.

### Authentication

**One side at a time.** `users/auth/auth.service.ts` and `drivers/auth/auth.service.ts` are the
same code on tables of their own, and each side has an `OtpService` of its own
(`DriverAuthModule` gets the one of `DriversModule`), so the two sides share no state.
`start.side` says which one a behaviour is about; it matters in the phone change only,
which the two sides have written differently (`UserChange`, `DriverChange`).  `start` also
has the accounts, second factors and sessions there are at the beginning.

**Rows.** `phone[a]` is the account, None while it is not there; its column is unique.
`twoFactor[a]` is the setup whose secret the two-factor row holds, `NoSecret` without a row;
`user_id` is unique there.  `actions` are the security actions in the order of insertion.
`session[s].iat` stands for `refresh_token_hash`.  The fields
`otp` of an action, and `otp`, `challenge` and `secured` of a session, are no columns: they
remember how the row came about, so that properties can speak of it.

**Tokens.** `refreshTokens` and `accessTokens` are what clients were answered with.  A
refresh token is its session and the second it was signed in, because that is all that
differs between two of them: two tokens of a session signed in one second are the same text.
`kept[s]` is the one the client of a session keeps, the last it was answered with; a refresh may still be asked for with any
other.  Two histories that no guard reads: `lost`, the sessions with an answer that did not arrive, and
`contested`, those of which a refresh began before another had been answered.

**OTPs.** `otps` is the list of `OtpService`, in order of creation.  `verifyOtp` looks at the newest
unverified OTP of the phone and purpose, which need not be the one the client has:
an OTP is in the list before the provider has sent it.  The index of an OTP stands for its code;
codes are not guessed, and two of them do not coincide.  A wrong code changes nothing
(`OtpService` counts no attempts).  Search and mark have no await between
them, so `VerifyOtp` is one step.

**Requests.** As in ride matching: `request[q].step` is where the handler waits, a step ends
where another request could make a difference, and a handler refused by its first
read is no step.  `Refused` is the error after a first await; it writes nothing, because
each handler flushes once, at its end.  The unique columns are guards of the flushes, and a
violated one makes the flush fail as a whole.

**Faults.** `RequestFails` ends a request at any await: PostgreSQL or the provider fails, or
an answer does not arrive (`lost`).  `Restart` ends all requests and forgets the OTPs that are not verified yet;
the verified ones stay in `otps` as history, which no action can use.

## Runs

Deadlock is not checked: when the clients ask for nothing more, the queue is empty and
the clock has reached its bound, nothing is left to do, and that is how it should be.

| run | instance | shows |
|---|---|---|
| matching_core | 1 ride, 2 drivers, 2 requests, Window 3, OfferTimeout 2, MaxTime 4; one retry, one reject, one status change | type invariant, the consistency of ride, offer and driver, one offer at a time, search goes on, offers within the window, with `SearchInv` and `WindowInv`; refinement of ContestedAssignment |
| matching_sequential | 2 rides, 2 drivers, 1 request slot | refinement of RideAssignment when requests do not overlap |
| matching_liveness | 1 ride, 2 drivers, 1 request, Window 2, OfferTimeout 1, MaxTime 3; one retry, one fault, one crash; fair | offers are resolved, the queue empties, the user is told of the driver |
| rooms | 1 ride, 1 user, 2 drivers, 2 requests, 1 message at a time of 2, Window 2, OfferTimeout 1, MaxTime 2; one reject, disconnect, fault or crash | who is in the room, what it is told, whether the user knows the driver and the apps show the table, with `RoomInv` |
| offer_service | 1 ride, 2 drivers, 2 calls of acceptOffer, Window 2, OfferTimeout 2, MaxTime 4 | ACCEPTED exactly when the driver of the ride, the inductive invariant, refinement of OfferAnswers |
| attachments | 3 keys, 2 calls; two failures, one lost answer, one crash | what a client was given is there, a row has its object, one failure is undone |
| auth_sessions | 1 account, 2 sessions, 2 requests, MaxTime 2; 2 OTPs, 2 refreshes, one failure, one restart | type invariant, one session per OTP, the client keeps the token its session holds, revoked is for good |
| auth_two_factor | 1 account with a session, 2 sessions, 2 requests, MaxTime 1; 2 OTPs, 3 actions, one failure | `OtpInv`, the second factor is asked for, the secret is a confirmed one, with `TwoFactorInv` |
| auth_phones | 2 accounts, 3 phones, 1 session, 2 requests, MaxTime 1; nobody, a user or a driver logged in; 2 OTPs, 2 actions, one failure | phones are unique and proved, one OTP changes one thing, with `PhoneInv` |
| claim_* | the smallest instance that shows it | a message in the code that its behaviour contradicts |

A property whose name ends in `Inv` is the strengthening that the proof of the properties beside it
needs; a run checks it on its instance before the theorem says it of all.
The safety of ride matching under faults and crashes is proved (`TypeCorrect`, `AssignedTheorem`,
`AcceptedOfferTheorem`, `AssignmentIsFinalTheorem` hold of a specification that has them); TLC fires them
in matching_liveness and rooms.

**Bounds.** `MaxTime` ends the clock, and no ride is requested or retried whose window would
not close by then, so every window in a run does close.  `MaxRetries`, `MaxRejects` and
`MaxStatusChanges` bound what clients do, `MaxFaults` and `MaxCrashes` what fails.
Two drivers and two requests are the least in which two accepts, an accept and a retry, or an accept
and a reject overlap beside the worker; Window 3 with OfferTimeout 2 lets a first
offer run out and a second be cut at the end of the window.  Two rides are in the runs whose
property relates two of them.  The symmetry sets are used by safety runs only.

Rooms: the sockets multiply the states of ride matching, so the window is two
rounds of the shortest offer, and the constraint `OneDisturbance` admits at most one of a reject, a lost
connection, a fault and a crash per behaviour (retries are not in this run).
Two accepts overlap each other, the worker, and a message in either order; a client
that lost its connection may come back.  One ride is enough, since no event of one goes to the
room of another.  `MaxMessages` 2 lets one join, or move, after another has.

Offer service: Window 2, OfferTimeout 2 and MaxTime 4 let an offer be cut at the end of its window,
run out, be made again after a retry of the search, and be stale when
`createOffer` finds it.  Attachments: two failures are the least in which the compensation fails
too; the third key is for a call that comes after both.

Authentication: with two requests any two handlers overlap, in every order of
their steps.  Two OTPs, two sessions and two or three actions are the least in which one
could be used for the other.  `MaxTime` 1 with an OTP's life of 1 lets every OTP expire,
and `MaxTime` 2 lets the tokens and sessions do so as well; a session that opens late may outlive the run.
auth_phones begins with nobody for the registrations, and with one logged-in account
for changes that race a registration of the same phone.

**Conditions.** `KeptTokenIsStored` is stated for the sessions that have lost no answer and of which no two
refreshes have overlapped, and needs both: the hash is replaced before the client has the new token, and two
refreshes that overlap both pass the check, so that the client of the first to be saved, or one that gets
the two answers in the other order, is left with a dead token and must log in again.  `OneSessionPerOtp` leaves out
two answers to one challenge, which is a finding.  `RowHasObject` holds until an answer is lost, and
`FailureIsUndone` for one failure: nothing in the code looks for what a second one leaves.
`DriverIsAnnounced` is stated while nothing failed and nobody lost a connection: an event is sent once.
`ScreenMatchesTable` is stated for an `Undisturbed` search with all connected: after a reject its event and the
worker's come in no order, and the next round of an offer has the id of the last.

`OneOfferAtATime` and `TimeoutAfterExpiry` are stated for a `Steady` search: no retry, fault or crash so
far.  A retry starts a second chain of jobs, so that two drivers hold offers at once, and a driver who
has rejected may be asked again while the job of his first offer waits; a fault or crash between two writes
loses a job or does it twice.  `SearchGoesOn` is stated for an `Undisturbed` one, without
rejects too, since a reject leaves no job.  The hazards say where each of these is in the code.  Accepts, rejects
(but for `SearchGoesOn`), status changes, and every interleaving of them with the worker are in.  `OfferWithinWindow` holds for
up to one retry: two retries at once may write their windows in the wrong order.

**Fairness.** `FairSpec` has weak fairness of the clock, of the worker (its
steps and the taking of due jobs: BullMQ promotes delayed jobs and Node runs every
continuation) and of each request once begun.  No client has to act, and no fault has to
happen.  That the search for drivers ends is an assumption about OSRM: the client's
ten seconds bound the wait for the headers of its answer, not for the body (a hazard).
Nothing must happen in authentication, in the rooms or in the upload but what a client asks for, so they
have no liveness property and no fairness.

**Abstract specification.** `RideAssignment` says that a requested ride gets one
driver, once, who was free and is not free afterwards.  The code keeps to it
as long as one request is served at a time, which `matching_sequential` checks beside a worker that
interleaves with it; with two requests it does not, which is what `claim_assigned_as_checked` shows.
That one request at a time is enough is proved (`ImplementsAssignmentTheorem`).
`ContestedAssignment` says what is left when requests overlap: a ride gets a driver, or another one, only by an accept that
has found it without one (`checked`), so that its driver is final when no such accept is left.  Every
step of the code keeps to that, whatever overlaps or fails (`ImplementsContest`, `ImplementsContestTheorem`).
`OfferAnswers` is the other one, see above.

## Findings

Three runs are expected to fail.  Each states what a message of the code says.

| run | the code says | what happens |
|---|---|---|
| claim_assigned_as_checked | `Ride is already assigned to a driver` (rides.service.ts:302), `Driver is not available` (rides.service.ts:225) | two accepts at once of one ride: the second replaces the driver of the first |
| claim_offer_retried | `OFFER RETRIED` (ride-offer.service.ts:251) | the row stays EXPIRED, and the driver cannot accept what he is offered |
| claim_challenge_used | `Invalid or expired authentication request` (users/auth/auth.service.ts:663) | two answers to one challenge at once both find it unused, and both open a session |

The second half of `AssignedAsChecked` fails by itself as well: with two rides, one driver, Window 2
and MaxTime 3, a driver who accepts both at once gets both.

Other things the code does that its readers may not expect are in the hazards and in the
conditions of the properties: a late accept answers `Ride offer has expired`
and rolls back the EXPIRED it has just flushed; an accept whose routes cannot be read is committed
and answered with an error; a reject leaves a search without a next job; the
second round of an offer keeps the timeout job of the first; a driver whom a second accept has
replaced stays in the room of the ride and may not leave it; an insert of an attachment whose acknowledgement is lost
costs the row its object; a refresh
whose answer is lost, or which loses a race, leaves its client with a dead token.

## Proofs

Every invariant and action property of the passing runs is a theorem, and so are both refinements, for any
finite or infinite sets and any values of the other constants that satisfy the
assumptions named in the modules.  Those of `RideStore` say that None is no ride and no driver, that
the times are positive numbers and that the bounds are natural ones.

`RideMatchingProofs`:

* `TypeCorrect`: `Spec => []TypeOK`, one lemma per action;
* `AssignedTheorem`, `AcceptedOfferTheorem`: `AssignedIffAccepted` and
  `AcceptedOfferHasAcceptedRide`, inductive relative to `TypeOK`: three kinds of step write a
  ride (`RideWriters`);
* `AssignmentIsFinalTheorem`: once accepted a ride stays so and keeps having a driver, from the same invariants (the
  runs see it as `AssignedIffAccepted` with `ImplementsContest`);
* `WindowTheorem`, `OfferWithinWindowTheorem`: `OfferWithinWindow` is not
  inductive: the offer's expiry was computed from a window read earlier, and a retry may be
  about to write another one.  `WindowInv` adds that no window, in the row or on
  its way to it, is longer than Window from now (`WindowBounded`); that with one
  retry there is one write on its way, which moves the end on, and that the
  worker's expiry is within the window of the row (`WindowOnlyGrows`); and that nothing refers
  to a ride before it exists (`NothingBeforeRide`);
* `ImplementsAssignmentTheorem`: `Spec => ImplementsAssignment`, with the hypothesis `OneAtATime`: there is at most
  one request slot, and `MaxStatusChanges` is 0.  Without it the formula is false (`claim_assigned_as_checked`).
  What an accept has read of driver and ride still holds when it writes (`StillAsRead`), for
  the worker writes neither, nor do faults and a crash; so its commit is `Assign`, the
  insert of a ride is `Request`, and every other step stutters;
* `ImplementsContestTheorem`: `Spec => ImplementsContest`, with no hypothesis.  The accepts that have passed
  their checks are the requests before their commit; only `AcceptReadOffer` adds one (`OthersPassNothing`),
  which is `Check`, the commit is `Assign`, and all else gives up accepts or leaves them.  That
  `Assign` is of a requested ride needs that no ride is ever taken back (`ContestInv`, `RequestedStays`).

`SearchProofs`, of a search that nobody retries and in which nothing fails:

* `SearchTheorem`: `SearchInv`.  What keeps a search going is its `Carriers`: a request about to add
  the first job, a matching job, the worker, or the timeout job of an offer.  `OneCarrier` says that there are
  never two and, until somebody rejects and while the window is open, never none.  A step leaves the carriers of every ride
  as they are (`SameCarriers`), or hands one search from one carrier to another or ends it (`Handed`,
  `HandedOver`).  That the worker ends a search only when its window is over needs that it
  knows the window (`WorkerOnTrack`); that a timeout job finds its offer run out needs that the job is not
  older than the offer (`OfferHasTimeout`).  Retries, faults and crashes end the
  claim (`Disturbances`); accepts and status changes do not, and a reject ends only the part that says
  that there is a carrier: the one there is finds the offer rejected and stops;
* `SearchGoesOnTheorem`, `OneOfferTheorem`, `TimeoutTheorem`: the three properties, from `SearchInv`.

`RideRoomsProofs`, also for any users and messages, where nobody is both user and driver:

* every step of `RoomSpec` is one of `Spec`, or leaves its variables alone but for the count of
  faults (`TableSteps`), so that `SearchInv` and all before it hold here too (`TableStep`);
* `RoomTypeTheorem`: `RoomTypeOK`, with nobody in a room, or about to be put into one, who is not connected;
* `OnlyPartiesTheorem`, `ShownWasStoredTheorem`: the check of `joinRide` is older than the join, and that of
  `driverLocation` older than the event.  `PartiesAreKnown` carries them over: whoever is about to join asked
  for the ride or has had it, who is about to tell has had it and, after the update, has
  stored the place; and what a ride has had only grows (`TracesGrow`);
* `DriverIsAnnouncedTheorem`: with several accepts of one ride at once it must be the ride's driver whose accept is
  still to be announced, not just any (`AcceptsAreAnnounced`), and the user must still be there (`EveryoneIsOnline`);
* `ScreenMatchesTheorem`: while the event of an expired offer is to come, the worker waits in `resume` on
  that very offer (`NoticesInOrder`), and by `OneCarrier` that offer is then not PENDING again
  (`ResumeNotPending`), so the event never takes an offer off the screen that is to be answered;
* `RoomTheorem`: `RoomInv`, the four strengthenings just named.

`AuthProofs`, for any accounts, phones, sessions and request slots, any beginning
that `AccountsAssumption` allows (phones and sessions are one account's each, who has a second factor
or a session is registered), any positive times to live and any bounds:

* `TypeCorrect`: `Spec => []TypeOK`.  Rows are never deleted (`Grows`), so what a request or a token
  names stays there; the lemmas treat alike the steps that touch the same rows;
* `OtpInvariant`: `OtpInv`, which follows a verified OTP.  `OneSessionPerOtp` is
  not inductive, since the OTP of a session was with a request, or with a challenge, before.
  `OtpInv` says that whoever has an OTP has a verified one (`OtpsAreSpent`), that it is with one request, one
  session or the challenges (`OtpsAreApart`), and that what a challenge has opened has the OTP
  of a challenge (`ChallengesHaveOtps`).  `verifyOtp` hands out OTPs that
  were not verified before, hence with nobody (`FreshOtp`); every other step keeps
  the OTPs where they are (`KeptOtpInv`) or moves one on;
* `OneSession`: `OneSessionPerOtp`, from `OtpInv`;
* `RevokedForGood`: the action property: only `OpenSession`, `RefreshSave` and `LogoutSave`
  write sessions, the first an unused id, the others one column.

`AccountProofs`, under the same assumptions:

* `TwoFactorInvariant`, `SecondFactorTheorem`, `ConfirmedSecretTheorem`: `TwoFactorInv` says where a request is that has
  seen the second factor: at the read that decides (and then the second factor is still there, for nothing takes
  one away) or on the way to or from a challenge; and that a setup is saved for the account that began it;
* `KeptTokenTheorem`: `KeptTokenIsStored` is not inductive, for a second refresh or a second answer could be anywhere.
  `KeptInv` adds that an undisturbed session has at most one request that may still rotate its token
  (`Rotates`), that an answer on its way has the token that was stored, and that without one the client
  has it.  `Turned` says what all but four kinds of step do to a request, and those four (`OpenSession`, `RefreshSave`, `Answer`, and
  what loses an answer) have a lemma each;
* `PhoneInvariant`, `PhoneTheorem`, `OneChangeTheorem`: `PhoneInv` follows the OTP of a registration or change from the request that
  verified it to the action that request marks used: an action in work is for the request's own phone and
  account (`ActionsMatch`), the OTP was sent to that phone for that purpose
  (`ChangesHaveProof`), it is with one request or one action (`ProofsAreApart`), and a phone that was
  written has its used action (`PhonesAreOwn`).

`RideOfferServiceProofs`, for any rides, drivers and calls and any timing:

* `TypeCorrect`: `Spec => []TypeOK`;
* `OfferInvariant`, `AcceptedTheorem`: `AcceptedIsAssigned` is not inductive.  `OfferInv` adds that a call past
  its checks holds the lock (`LockHeld`), so that the ride it has read is still open when it commits
  (`LockedIsOpen`): `SearchWindow` and other calls wait for the lock, and nothing else writes rides; and
  that `createOffer` is never about to write over a won offer (`PlanHolds`): only it makes offers
  PENDING, so what it found closed is not won before it writes;
* `RefinementTheorem`: `Spec => ImplementsOfferAnswers`, one step per action: the write of `createOffer` opens,
  expiry, reject and the stale write close, the commit of an accept wins, all else stutters.

`AttachmentsProofs`, for any keys and calls and any bounds:

* `TypeCorrect`: `Spec => []TypeOK`, with keys apart;
* `AttachmentsSafe`, `AnsweredTheorem`, `RowTheorem`, `FailureTheorem`: `AttachmentInv`, which adds to the three safety properties where the key
  of a call is at each of its steps (`CallInv`), and the three from it.

Only model-checked: the liveness properties `PendingResolves`, `AssignmentIsAnnounced` and `QueueDrains`, since liveness
under fairness is out of the prover's reach, and the three claims that the code does not keep, which
a counterexample settles.

## Not modelled

Of ride matching: coordinates, distances, prices, routes and the order of the drivers (any subset
of the available drivers, in any order, may be found), and `removeMatchingJob` and `removeOfferTimeout` of
`RideMatchingQueue`, which nothing calls.

Of the sockets: the payloads of events and the routes sent with them, the session behind a socket (it is
looked up when the socket connects, so a logout does not end it: a hazard, of which the code says nothing),
several sockets of one client, `isDriverConnected` and its like, and the guards for sockets, which nothing uses.
`PATCH drivers/location` writes the same column as `driver:location_update` and tells nobody.

Of attachments: `AttachmentClaimService.claim`, which nothing calls, the types and sizes the validation
asks for, and the reading of objects.

Of authentication: the signatures of tokens, the codes of the second factor and the hashes (each is right,
or the request is refused), the answer of `enableTwoFactor` to who has a second factor already
(it only reads), and names.

Not at all: routing (a pure function of two points by way of OSRM; its failures and delays are
steps of the worker and of requests), wiring of modules, controllers beyond what they call, DTOs, and entities
left from earlier versions.  These keep no state or change none.  `PROJECT.json` lists
every component with the reason.

## Plan

Every component that keeps state has its module, and every safety property that a run checks its theorem.
What is left:

1. a bound on the timeout job of a later round of an offer, in place of `TimeoutAfterExpiry`, once a
   search has been retried;
2. which of the two chains of jobs that a retry leaves ends, and when, as an invariant for one retry;
3. what a client of the sockets may still rely on after a reject, in place of `ScreenMatchesTable`.
