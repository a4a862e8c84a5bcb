------------------------------- MODULE RideRooms -------------------------------
(***************************************************************************)
(* The socket namespace /rides laid over RideMatching: who is connected,   *)
(* who is in the room of a ride, which events a driver's app has been      *)
(* shown, and the messages ride:join, ride:leave and                       *)
(* driver:location_update.                                                 *)
(*                                                                         *)
(* Every step of RideMatching is a step here, with what it emits: a step   *)
(* that writes a row and then emits leaves the event in "notices", for the *)
(* answer of PostgreSQL comes between the two.  A client has one socket,   *)
(* whose own room (user:<id>, driver:<id>) it is in from the connection on,*)
(* so that being online and being in that room are one.  An event sent to  *)
(* a room is seen by those who are in it at that moment, and by nobody     *)
(* later.                                                                  *)
(***************************************************************************)
EXTENDS RideMatching

CONSTANTS
  Users,
  RiderOf,             \* rides.user_id
  Messages,            \* slots for the messages above being handled
  MaxMessages,         \* bound: such messages
  MaxDisconnects       \* bound: connections lost

ASSUME RiderAssumption == RiderOf \in [Rides -> Users]
ASSUME ClientAssumption == None \notin Users /\ Users \intersect Drivers = {}
ASSUME RoomBoundAssumption == MaxMessages \in Nat /\ MaxDisconnects \in Nat

VARIABLES
  online,      \* the clients whose socket is connected
  member,      \* who is in the room of which ride
  message,     \* the messages being handled
  notices,     \* events of offers that follow a committed write
  screen,      \* the last event of an offer that its driver's app was shown
  informed,    \* the drivers that ride:accepted named to the user's app
  stored,      \* every location such messages wrote to drivers.location
  shown,       \* the last location told to the room of a ride
  drove,       \* every driver a ride has had
  used         \* how much of the two bounds is used

sockets  == <<online, member, message>>
places   == <<stored, shown>>
roomVars == <<online, member, message, notices, screen, informed, stored, shown,
              drove, used>>
allVars  == <<vars, roomVars>>

Clients == Users \union Drivers

IdleMessage == [step |-> "idle", client |-> None, ride |-> None, place |-> 0]
NoPlace     == [driver |-> None, place |-> 0]

RoomInit ==
  /\ Init
  /\ online = Clients
  /\ member = {}
  /\ message = [m \in Messages |-> IdleMessage]
  /\ notices = {}
  /\ screen = [r \in Rides |-> [d \in Drivers |-> "none"]]
  /\ informed = [r \in Rides |-> {}]
  /\ stored = {}
  /\ shown = [r \in Rides |-> NoPlace]
  /\ drove = [r \in Rides |-> {}]
  /\ used = [messages |-> 0, disconnects |-> 0]

-----------------------------------------------------------------------------
(***************************************************************************)
(* Connections.                                                            *)
(***************************************************************************)

\* handleConnection: the socket joins the room of its identity, and no other.
Connect(c) ==
  /\ c \notin online
  /\ online' = online \union {c}
  /\ UNCHANGED <<vars, member, message, notices, screen, informed, places, drove, used>>

\* Mutant: the handlers of a closed socket go on as if it were open.
DisconnectOnly(c) ==
  /\ c \in online
  /\ used.disconnects < MaxDisconnects
  /\ used' = [used EXCEPT !.disconnects = @ + 1]
  /\ online' = online \ {c}
  /\ member' = {p \in member : p[1] # c}
  /\ UNCHANGED <<vars, message, notices, screen, informed, places, drove>>

\* A socket that closes leaves its rooms; a handler that makes it join or leave
\* one afterwards has no effect.
Disconnect(c) ==
  /\ c \in online
  /\ used.disconnects < MaxDisconnects
  /\ used' = [used EXCEPT !.disconnects = @ + 1]
  /\ online' = online \ {c}
  /\ member' = {p \in member : p[1] # c}
  /\ message' = [m \in Messages |->
                   IF message[m].client = c /\ message[m].step \in {"join", "leave"}
                   THEN IdleMessage ELSE message[m]]
  /\ UNCHANGED <<vars, notices, screen, informed, places, drove>>

-----------------------------------------------------------------------------
(***************************************************************************)
(* Messages about the room of a ride.                                      *)
(***************************************************************************)
Receive(m, msg) ==
  /\ message[m] = IdleMessage
  /\ msg.client \in online
  /\ used.messages < MaxMessages
  /\ used' = [used EXCEPT !.messages = @ + 1]
  /\ message' = [message EXCEPT ![m] = msg]

Done(m) == message' = [message EXCEPT ![m] = IdleMessage]

\* Mutant: whoever was offered the ride may join.
AllowedOffered(c, r) ==
  ride[r].status # "none" /\ (RiderOf[r] = c \/ <<r, c>> \in sent)

\* The ride is one of the client's: what joinRide and leaveRide ask.
Allowed(c, r) == ride[r].status # "none" /\ (RiderOf[r] = c \/ ride[r].driver = c)

\* joinRide and leaveRide read the ride first.
JoinRide(m, c, r) ==
  /\ Allowed(c, r)
  /\ Receive(m, [IdleMessage EXCEPT !.step = "join", !.client = c, !.ride = r])
  /\ UNCHANGED <<vars, online, member, notices, screen, informed, places, drove>>

LeaveRide(m, c, r) ==
  /\ Allowed(c, r)
  /\ Receive(m, [IdleMessage EXCEPT !.step = "leave", !.client = c, !.ride = r])
  /\ UNCHANGED <<vars, online, member, notices, screen, informed, places, drove>>

JoinRoom(m) ==
  /\ message[m].step = "join"
  /\ member' = member \union {<<message[m].client, message[m].ride>>}
  /\ Done(m)
  /\ UNCHANGED <<vars, online, notices, screen, informed, places, drove, used>>

LeaveRoom(m) ==
  /\ message[m].step = "leave"
  /\ member' = member \ {<<message[m].client, message[m].ride>>}
  /\ Done(m)
  /\ UNCHANGED <<vars, online, notices, screen, informed, places, drove, used>>

\* Mutant: any driver may tell where he is.
DriverLocationOfAnyone(m, d, r) ==
  /\ ride[r].status = "accepted"
  /\ Receive(m, [step |-> "write", client |-> d, ride |-> r, place |-> used.messages + 1])
  /\ UNCHANGED <<vars, online, member, notices, screen, informed, places, drove>>

\* driverLocation reads the ride, ...
DriverLocation(m, d, r) ==
  /\ ride[r].driver = d /\ ride[r].status = "accepted"
  /\ Receive(m, [step |-> "write", client |-> d, ride |-> r, place |-> used.messages + 1])
  /\ UNCHANGED <<vars, online, member, notices, screen, informed, places, drove>>

\* ... writes the location, ...
WriteLocation(m) ==
  /\ message[m].step = "write"
  /\ stored' = stored \union {<<message[m].client, message[m].place>>}
  /\ message' = [message EXCEPT ![m].step = "tell"]
  /\ UNCHANGED <<vars, online, member, notices, screen, informed, shown, drove, used>>

\* Mutant: the room is told while the location is being written.
NotifyDriverLocationEarly(m) ==
  /\ message[m].step \in {"write", "tell"}
  /\ shown' = [shown EXCEPT ![message[m].ride] =
                 [driver |-> message[m].client, place |-> message[m].place]]
  /\ Done(m)
  /\ UNCHANGED <<vars, online, member, notices, screen, informed, stored, drove, used>>

\* ... and tells the room, whoever drives the ride by then.
NotifyDriverLocation(m) ==
  /\ message[m].step = "tell"
  /\ shown' = [shown EXCEPT ![message[m].ride] =
                 [driver |-> message[m].client, place |-> message[m].place]]
  /\ Done(m)
  /\ UNCHANGED <<vars, online, member, notices, screen, informed, stored, drove, used>>

\* PostgreSQL fails under a message: the client gets an error.
MessageFails(m) ==
  /\ message[m].step = "write"
  /\ UseFault
  /\ Done(m)
  /\ UNCHANGED <<now, rows, jobs, worker, request, told, online, member, notices,
                 screen, informed, places, drove, used>>

-----------------------------------------------------------------------------
(***************************************************************************)
(* Steps of RideMatching that emit.                                        *)
(***************************************************************************)
Notice(r, d, event) == [ride |-> r, driver |-> d, event |-> event]

\* What an event to the room driver:<id> leaves on the app.
Show(r, d, event) ==
  screen' = IF d \in online THEN [screen EXCEPT ![r][d] = event] ELSE screen

OfferSent ==
  /\ SendDriverOffer
  /\ Show(worker.ride, worker.driver, "offer")
  /\ UNCHANGED <<sockets, notices, informed, places, drove, used>>

\* The update of expireOfferIfPending; its handler will emit if it was done.
OfferExpired(r, d) ==
  /\ ExpireOffer(r, d)
  /\ notices' = IF worker'.step = "resume"
                THEN notices \union {Notice(r, d, "expired")} ELSE notices
  /\ UNCHANGED <<sockets, screen, informed, places, drove, used>>

\* ride:offer_expired, ride:offer_cancelled, or the error that answers a reject
\* which came too late.
NotifyOffer(n) ==
  /\ n \in notices
  /\ notices' = notices \ {n}
  /\ Show(n.ride, n.driver, IF n.event = "cancelled" THEN "cancelled" ELSE "expired")
  /\ UNCHANGED <<vars, sockets, informed, places, drove, used>>

\* Mutant: the search goes on while the event is still to be emitted.
SearchResumedEarly ==
  /\ ResumeMatching
  /\ UNCHANGED roomVars

\* handleOfferTimeoutJob searches on after its event.
SearchResumed ==
  /\ Notice(worker.ride, worker.driver, "expired") \notin notices
  /\ ResumeMatching
  /\ UNCHANGED roomVars

\* The handler fails, perhaps before its event.
HandlerFailed ==
  /\ HandlerFails
  /\ notices' = notices \ {Notice(worker.ride, worker.driver, "expired")}
  /\ UNCHANGED <<sockets, screen, informed, places, drove, used>>

\* rejectOffer returns, and rejectRide emits ride:offer_cancelled; or it throws.
OfferRejected(q) ==
  /\ RejectCommit(q)
  /\ notices' = notices \union
       {Notice(request[q].ride, request[q].driver,
               IF request[q].to = "REJECTED" THEN "cancelled" ELSE "late")}
  /\ UNCHANGED <<sockets, screen, informed, places, drove, used>>

\* Mutant: the user is told of a driver only once.
RideAnnouncedOnce(q) ==
  /\ AcceptAnnounce(q)
  /\ informed' = IF RiderOf[request[q].ride] \in online /\ request[q].ride \notin announced
                 THEN [informed EXCEPT ![request[q].ride] = @ \union {request[q].driver}]
                 ELSE informed
  /\ UNCHANGED <<sockets, notices, screen, places, drove, used>>

\* acceptRide: ride:accepted names the driver whose accept it answers.
RideAnnounced(q) ==
  /\ AcceptAnnounce(q)
  /\ informed' = IF RiderOf[request[q].ride] \in online
                 THEN [informed EXCEPT ![request[q].ride] = @ \union {request[q].driver}]
                 ELSE informed
  /\ UNCHANGED <<sockets, notices, screen, places, drove, used>>

RideAccepted(q) ==
  /\ AcceptCommit(q)
  /\ drove' = [drove EXCEPT ![request[q].ride] = @ \union {request[q].driver}]
  /\ UNCHANGED <<sockets, notices, screen, informed, places, used>>

\* A driver answers on his socket, and an offer that his app was shown.
AnswerSent(q, r, d) ==
  /\ d \in online
  /\ screen[r][d] # "none"
  /\ AcceptRideOffer(q, r, d) \/ RejectOffer(q, r, d)
  /\ UNCHANGED roomVars

\* The sockets die with the process.
ServerCrash ==
  /\ Crash
  /\ online' = {}
  /\ member' = {}
  /\ message' = [m \in Messages |-> IdleMessage]
  /\ notices' = {}
  /\ UNCHANGED <<screen, informed, places, drove, used>>

\* The steps that emit nothing.
SilentStep ==
  \/ Tick
  \/ \E r \in Rides, t \in Time : StartMatching(r, t)
  \/ FindNearbyDrivers \/ NextDriver \/ Reschedule
  \/ CreateOfferRead \/ WriteOffer \/ WriteStaleOffer
  \/ Recover
  \/ \E r \in Rides, d \in Drivers : ExpireOfferFails(r, d)
  \/ \E q \in Requests :
       \/ \E r \in Rides : CreateRide(q, r) \/ RetryRide(q, r)
       \/ RetryRideFlush(q) \/ Enqueue(q)
       \/ AcceptReadOffer(q) \/ AcceptExpired(q) \/ AcceptRefused(q)
       \/ RequestFails(q)

RoomNext ==
  \/ \E c \in Clients : Connect(c) \/ Disconnect(c)
  \/ \E m \in Messages :
       \/ \E c \in Clients, r \in Rides : JoinRide(m, c, r) \/ LeaveRide(m, c, r)
       \/ \E d \in Drivers, r \in Rides : DriverLocation(m, d, r)
       \/ JoinRoom(m) \/ LeaveRoom(m) \/ WriteLocation(m) \/ NotifyDriverLocation(m)
       \/ MessageFails(m)
  \/ SilentStep /\ UNCHANGED roomVars
  \/ OfferSent \/ SearchResumed \/ HandlerFailed
  \/ \E r \in Rides, d \in Drivers : OfferExpired(r, d)
  \/ \E n \in notices : NotifyOffer(n)
  \/ \E q \in Requests :
       \/ \E r \in Rides, d \in Drivers : AnswerSent(q, r, d)
       \/ RideAccepted(q) \/ RideAnnounced(q) \/ OfferRejected(q)
  \/ ServerCrash

RoomSpec == RoomInit /\ [][RoomNext]_allVars

-----------------------------------------------------------------------------
Place   == 1 .. MaxMessages
Message == [step : {"join", "leave"}, client : Clients, ride : Rides, place : {0}]
             \union [step : {"write", "tell"}, client : Drivers, ride : Rides, place : Place]

\* Type invariant of what this module adds.  Nobody is in a room without being
\* connected, and no join or leave of a closed socket is still to take effect.
RoomTypeOK ==
  /\ online \subseteq Clients
  /\ member \subseteq online \X Rides
  /\ message \in [Messages -> Message \union {IdleMessage}]
  /\ \A m \in Messages : message[m].step \in {"join", "leave"} => message[m].client \in online
  /\ notices \subseteq [ride : Rides, driver : Drivers, event : {"expired", "cancelled", "late"}]
  /\ screen \in [Rides -> [Drivers -> {"none", "offer", "expired", "cancelled"}]]
  /\ informed \in [Rides -> SUBSET Drivers]
  /\ stored \subseteq Drivers \X Place
  /\ shown \in [Rides -> [driver : Drivers, place : Place] \union {NoPlace}]
  /\ drove \in [Rides -> SUBSET Drivers]
  /\ used \in [messages : 0 .. MaxMessages, disconnects : 0 .. MaxDisconnects]

\* Only the user of a ride and drivers who have had it are in its room or tell
\* it a location, although the check comes before the await of the join.  Two
\* accepts at once may have replaced such a driver: he stays in the room, and
\* leaveRide refuses to let him out.
OnlyPartiesInRoom ==
  /\ \A p \in member : p[1] = RiderOf[p[2]] \/ p[1] \in drove[p[2]]
  /\ \A r \in Rides : shown[r] # NoPlace => shown[r].driver \in drove[r]

\* No room is told a location that was not stored, also when the update fails.
ShownWasStored ==
  \A r \in Rides : shown[r] # NoPlace => <<shown[r].driver, shown[r].place>> \in stored

NothingFailed == count.faults = 0 /\ count.crashes = 0

\* Once no accept of a ride is in progress its user knows of the driver it has,
\* if the user stayed connected and nothing failed: with two accepts at once the
\* one that commits last is announced too, though perhaps not last.
DriverIsAnnounced ==
  NothingFailed /\ used.disconnects = 0 =>
    \A r \in Rides : ride[r].driver # None =>
      \/ ride[r].driver \in informed[r]
      \/ \E q \in Requests : request[q].step = "acceptRoute" /\ request[q].ride = r

\* While nothing but the drivers' accepts disturbs a search, the screens follow
\* the table: an offer that waits for its driver is on his screen from the event
\* on, since the next round of a search begins only after the event that ended
\* the one before; and an offer on a screen is one to answer, or was accepted,
\* or the event that takes it off is on its way.  A reject breaks both: its event
\* comes in no order with the worker's, and the offer of the next round has the
\* id of the offer it answers.
ScreenMatchesTable ==
  Undisturbed /\ used.disconnects = 0 =>
    \A r \in Rides, d \in Drivers :
      /\ offer[r][d].status = "PENDING" =>
           \/ screen[r][d] = "offer"
           \/ worker.step = "schedule" /\ worker.ride = r /\ worker.driver = d
      /\ screen[r][d] = "offer" =>
           \/ offer[r][d].status \in {"PENDING", "ACCEPTED"}
           \/ Notice(r, d, "expired") \in notices

\* What the safety properties above need beside them to be preserved by every step.
\* Whoever drives a ride or is about to tell its room a location has had the ride,
\* whoever is about to join it has had the ride or asked for it, and a location
\* about to be told is stored, ...
PartiesAreKnown ==
  /\ \A r \in Rides : ride[r].driver # None => ride[r].driver \in drove[r]
  /\ \A m \in Messages :
       LET msg == message[m]
       IN  /\ msg.step = "join" => msg.client = RiderOf[msg.ride] \/ msg.client \in drove[msg.ride]
           /\ msg.step \in {"write", "tell"} => msg.client \in drove[msg.ride]
           /\ msg.step = "tell" => <<msg.client, msg.place>> \in stored

\* ... nobody leaves but by a lost connection or a crash, and a driver who is still
\* to be announced has an accept of his own in progress, ...
EveryoneIsOnline == used.disconnects = 0 /\ count.crashes = 0 => online = Clients
AcceptsAreAnnounced ==
  NothingFailed /\ used.disconnects = 0 =>
    \A r \in Rides : ride[r].driver # None =>
      \/ ride[r].driver \in informed[r]
      \/ \E q \in Requests : /\ request[q].step = "acceptRoute" /\ request[q].ride = r
                             /\ request[q].driver = ride[r].driver

\* ... and the worker waits for the event of the offer it has made EXPIRED.
NoticesInOrder ==
  Undisturbed =>
    \A n \in notices : /\ n.event = "expired" /\ worker.step = "resume"
                       /\ worker.ride = n.ride /\ worker.driver = n.driver

RoomInv == PartiesAreKnown /\ EveryoneIsOnline /\ AcceptsAreAnnounced /\ NoticesInOrder
=============================================================================
