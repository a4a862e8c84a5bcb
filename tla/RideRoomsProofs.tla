--------------------------- MODULE RideRoomsProofs ---------------------------
(***************************************************************************)
(* Theorems about the sockets over ride matching: for any rides, drivers,  *)
(* users, slots and bounds.                                                *)
(***************************************************************************)
EXTENDS RideRooms, SearchProofs

(***************************************************************************)
(* The tables under the sockets.  Every step here is one of RideMatching,  *)
(* with what it emits, or leaves its variables alone but for the fault     *)
(* that a message met with.                                                *)
(***************************************************************************)
MessageFault == UseFault /\ UNCHANGED <<now, rows, jobs, worker, request, told>>

LEMMA SilentSteps == SilentStep => Next
<1> SUFFICES ASSUME SilentStep PROVE Next
  OBVIOUS
<1>1. CASE \/ \E r \in Rides, t \in Time : StartMatching(r, t)
           \/ FindNearbyDrivers \/ NextDriver \/ Reschedule
           \/ CreateOfferRead \/ WriteOffer \/ WriteStaleOffer \/ Recover
  BY <1>1 DEF Next, WorkerStep
<1>2. CASE \E r \in Rides, d \in Drivers : ExpireOfferFails(r, d)
  BY <1>2 DEF Next, WorkerFault
<1>3. ASSUME NEW q \in Requests, NEW r \in Rides, CreateRide(q, r) \/ RetryRide(q, r)
      PROVE  Next
  BY <1>3 DEF Next, RequestStart
<1>4. ASSUME NEW q \in Requests,
             \/ RetryRideFlush(q) \/ Enqueue(q) \/ RequestFails(q)
             \/ AcceptReadOffer(q) \/ AcceptExpired(q) \/ AcceptRefused(q)
      PROVE  Next
  BY <1>4 DEF Next, RequestStep
<1>5. CASE Tick
  BY <1>5 DEF Next
<1> QED
  BY <1>1, <1>2, <1>3, <1>4, <1>5 DEF SilentStep

\* The steps of the sockets that are none of RideMatching.
SocketStep ==
  \/ \E c \in Clients : Connect(c) \/ Disconnect(c)
  \/ \E m \in Messages :
       \/ \E c \in Clients, r \in Rides : JoinRide(m, c, r) \/ LeaveRide(m, c, r)
       \/ \E d \in Drivers, r \in Rides : DriverLocation(m, d, r)
       \/ JoinRoom(m) \/ LeaveRoom(m) \/ WriteLocation(m) \/ NotifyDriverLocation(m)
  \/ \E n \in notices : NotifyOffer(n)

LEMMA SocketSteps == SocketStep \/ UNCHANGED allVars => UNCHANGED vars
  BY DEF SocketStep, Connect, Disconnect, JoinRide, LeaveRide, DriverLocation, JoinRoom, LeaveRoom,
     WriteLocation, NotifyDriverLocation, NotifyOffer, allVars

\* The steps that are steps of RideMatching and emit something, or answer.
EmittingStep ==
  \/ OfferSent \/ SearchResumed \/ HandlerFailed
  \/ \E r \in Rides, d \in Drivers : OfferExpired(r, d)
  \/ \E q \in Requests :
       \/ \E r \in Rides, d \in Drivers : AnswerSent(q, r, d)
       \/ RideAccepted(q) \/ RideAnnounced(q) \/ OfferRejected(q)
  \/ ServerCrash

LEMMA EmittingSteps == EmittingStep => Next
<1> SUFFICES ASSUME EmittingStep PROVE Next
  OBVIOUS
<1>1. CASE OfferSent \/ SearchResumed \/ HandlerFailed \/ ServerCrash
  BY <1>1 DEF OfferSent, SearchResumed, HandlerFailed, ServerCrash, Next, WorkerStep, WorkerFault
<1>2. ASSUME NEW r \in Rides, NEW d \in Drivers, OfferExpired(r, d)
      PROVE  Next
  BY <1>2 DEF OfferExpired, Next, WorkerStep
<1>3. ASSUME NEW q \in Requests, NEW r \in Rides, NEW d \in Drivers, AnswerSent(q, r, d)
      PROVE  Next
  BY <1>3 DEF AnswerSent, Next, RequestStart
<1>4. ASSUME NEW q \in Requests, RideAccepted(q) \/ RideAnnounced(q) \/ OfferRejected(q)
      PROVE  Next
  BY <1>4 DEF RideAccepted, RideAnnounced, OfferRejected, Next, RequestStep
<1> QED
  BY <1>1, <1>2, <1>3, <1>4 DEF EmittingStep

LEMMA RoomSteps ==
  ASSUME [RoomNext]_allVars
  PROVE  \/ SocketStep
         \/ \E m \in Messages : MessageFails(m)
         \/ SilentStep /\ UNCHANGED roomVars
         \/ EmittingStep
         \/ UNCHANGED allVars
  BY DEF RoomNext, SocketStep, EmittingStep

LEMMA TableSteps == [RoomNext]_allVars => [Next]_vars \/ MessageFault
  BY RoomSteps, SilentSteps, SocketSteps, EmittingSteps DEF MessageFails, MessageFault

LEMMA MessageFaultKeeps == SearchTypeInv /\ MessageFault => SearchTypeInv' /\ ~Steady'
<1> SUFFICES ASSUME SearchTypeInv, MessageFault PROVE SearchTypeInv' /\ ~Steady'
  OBVIOUS
<1>1. TypeOK /\ AssignmentInv /\ WindowTypeInv
  BY DEF SearchTypeInv, WindowTypeInv
<1>2. /\ UNCHANGED <<now, ride, offer, driver, matchJobs, timeoutJob, worker, request, sent, announced>>
      /\ count' = [count EXCEPT !.faults = @ + 1]
  BY DEF MessageFault, UseFault, rows, jobs, told
<1>3. count \in [retries : Nat, rejects : Nat, changes : Nat, faults : Nat, crashes : Nat]
  BY <1>1 DEF TypeOK, BooksOK
<1>4. TypeOK'
  BY <1>1, UnchangedParts, UseFaultType DEF MessageFault, TypeOK
<1>5. AssignmentInv'
  BY <1>1, <1>2, <1>4 DEF AssignmentInv, AssignedIffAccepted, AcceptedOfferHasAcceptedRide
<1>6. Calm
  <2>1. now \in Int
    BY <1>1, Shapes
  <2> QED
    BY <1>2, <1>3, <2>1 DEF Calm
<1>7. WindowTypeInv'
  BY <1>1, <1>4, <1>6, CalmKeepsWindow DEF WindowTypeInv, TypeOK
<1>8. ~Steady'
  BY <1>2, <1>3 DEF Steady
<1> QED
  BY <1>5, <1>7, <1>8 DEF SearchTypeInv, SearchInv

LEMMA TableStep == SearchTypeInv /\ [RoomNext]_allVars => SearchTypeInv'
  BY TableSteps, MessageFaultKeeps, NextWindow, NextAssignmentInv, SearchStep DEF SearchTypeInv

-----------------------------------------------------------------------------
(***************************************************************************)
(* Types, in three parts: the sockets and their messages, the events of    *)
(* offers and accepts, and the places told and the bounds.                 *)
(***************************************************************************)
SocketsOK ==
  /\ online \subseteq Clients
  /\ member \subseteq online \X Rides
  /\ message \in [Messages -> Message \union {IdleMessage}]
  /\ \A m \in Messages : message[m].step \in {"join", "leave"} => message[m].client \in online

EventsOK ==
  /\ notices \subseteq [ride : Rides, driver : Drivers, event : {"expired", "cancelled", "late"}]
  /\ screen \in [Rides -> [Drivers -> {"none", "offer", "expired", "cancelled"}]]
  /\ informed \in [Rides -> SUBSET Drivers]

PlacesOK ==
  /\ stored \subseteq Drivers \X Place
  /\ shown \in [Rides -> [driver : Drivers, place : Place] \union {NoPlace}]
  /\ drove \in [Rides -> SUBSET Drivers]

UsedOK == used \in [messages : 0 .. MaxMessages, disconnects : 0 .. MaxDisconnects]

LEMMA RoomTypeParts ==
  /\ RoomTypeOK <=> SocketsOK /\ EventsOK /\ PlacesOK /\ UsedOK
  /\ RoomTypeOK' <=> SocketsOK' /\ EventsOK' /\ PlacesOK' /\ UsedOK'
<1>1. RoomTypeOK <=> SocketsOK /\ EventsOK /\ PlacesOK /\ UsedOK
  BY DEF RoomTypeOK, SocketsOK, EventsOK, PlacesOK, UsedOK
<1>2. RoomTypeOK' <=> SocketsOK' /\ EventsOK' /\ PlacesOK' /\ UsedOK'
  BY DEF RoomTypeOK, SocketsOK, EventsOK, PlacesOK, UsedOK
<1> QED
  BY <1>1, <1>2

\* What a message is, by the step it is at.
LEMMA MessageShape ==
  ASSUME SocketsOK, NEW m \in Messages
  PROVE  /\ message \in [Messages -> Message \union {IdleMessage}]
         /\ message[m] \in Message \union {IdleMessage}
         /\ message[m].step \in {"join", "leave"} =>
              /\ message[m] \in [step : {"join", "leave"}, client : Clients, ride : Rides, place : {0}]
              /\ message[m].client \in online /\ message[m].ride \in Rides
         /\ message[m].step \in {"write", "tell"} =>
              /\ message[m] \in [step : {"write", "tell"}, client : Drivers, ride : Rides, place : Place]
              /\ message[m].client \in Drivers /\ message[m].ride \in Rides /\ message[m].place \in Place
<1>1. message \in [Messages -> Message \union {IdleMessage}] /\ message[m] \in Message \union {IdleMessage}
  BY DEF SocketsOK
<1>2. message[m] \in [step : {"join", "leave"}, client : Clients, ride : Rides, place : {0}] =>
        message[m].step \in {"join", "leave"} /\ message[m].ride \in Rides
  OBVIOUS
<1>3. message[m] \in [step : {"write", "tell"}, client : Drivers, ride : Rides, place : Place] =>
        /\ message[m].step \in {"write", "tell"}
        /\ message[m].client \in Drivers /\ message[m].ride \in Rides /\ message[m].place \in Place
  OBVIOUS
<1>4. message[m] = IdleMessage => message[m].step = "idle"
  BY DEF IdleMessage
<1>5. message[m].step \in {"join", "leave"} => message[m].client \in online
  BY DEF SocketsOK
<1> QED
  BY <1>1, <1>2, <1>3, <1>4, <1>5 DEF Message

LEMMA InitRoomTypeOK == RoomInit => RoomTypeOK
<1> SUFFICES ASSUME RoomInit PROVE SocketsOK /\ EventsOK /\ PlacesOK /\ UsedOK
  BY RoomTypeParts
<1>1. SocketsOK
  BY DEF RoomInit, SocketsOK, IdleMessage
<1>2. EventsOK /\ PlacesOK
  BY DEF RoomInit, EventsOK, PlacesOK
<1>3. UsedOK
  BY RoomBoundAssumption DEF RoomInit, UsedOK
<1> QED
  BY <1>1, <1>2, <1>3

\* A slot that is given a well-typed message keeps the slots well typed.
LEMMA MessageUpdate ==
  ASSUME SocketsOK, NEW m \in Messages, NEW msg \in Message \union {IdleMessage},
         msg.step \in {"join", "leave"} => msg.client \in online,
         message' = [message EXCEPT ![m] = msg],
         online' = online, member' \subseteq online \X Rides
  PROVE  SocketsOK'
<1>1. message' \in [Messages -> Message \union {IdleMessage}]
  BY DEF SocketsOK
<1>2. ASSUME NEW p \in Messages
      PROVE  message'[p].step \in {"join", "leave"} => message'[p].client \in online'
  BY DEF SocketsOK
<1> QED
  BY <1>1, <1>2 DEF SocketsOK, Message, Clients, Place

LEMMA DoneSockets ==
  ASSUME SocketsOK, NEW m \in Messages, Done(m), online' = online, member' \subseteq online \X Rides
  PROVE  SocketsOK'
<1>1. IdleMessage.step = "idle"
  BY DEF IdleMessage
<1> QED
  BY <1>1, MessageUpdate DEF Done

\* The connections.
LEMMA ConnectionSockets ==
  ASSUME SocketsOK, NEW c \in Clients, Connect(c) \/ Disconnect(c)
  PROVE  SocketsOK'
<1>1. CASE Connect(c)
  BY <1>1 DEF Connect, SocketsOK, Message, Clients, Place
<1>2. CASE Disconnect(c)
  <2>1. /\ online' = online \ {c} /\ member' = {p \in member : p[1] # c}
        /\ message' = [m \in Messages |->
                        IF message[m].client = c /\ message[m].step \in {"join", "leave"}
                        THEN IdleMessage ELSE message[m]]
    BY <1>2 DEF Disconnect
  <2>2. online' \subseteq Clients /\ member' \subseteq online' \X Rides
    <3>1. ASSUME NEW p \in member' PROVE p \in online' \X Rides
      <4>1. p \in online \X Rides /\ p[1] # c
        BY <2>1, <3>1 DEF SocketsOK
      <4> QED
        BY <2>1, <4>1
    <3> QED
      BY <2>1, <3>1 DEF SocketsOK
  <2>3. message' \in [Messages -> Message \union {IdleMessage}]
    BY <2>1 DEF SocketsOK
  <2>4. ASSUME NEW m \in Messages, message'[m].step \in {"join", "leave"}
        PROVE  message'[m].client \in online'
    <3>1. message'[m] = message[m] /\ message[m].client # c
      BY <2>1, <2>4 DEF IdleMessage
    <3> QED
      BY <2>1, <2>4, <3>1 DEF SocketsOK
  <2> QED
    BY <2>2, <2>3, <2>4 DEF SocketsOK, Message, Clients, Place
<1> QED
  BY <1>1, <1>2

\* The messages.
LEMMA ReceiveSockets ==
  ASSUME RoomTypeOK, NEW m \in Messages, NEW r \in Rides,
         \/ \E c \in Clients : JoinRide(m, c, r) \/ LeaveRide(m, c, r)
         \/ \E d \in Drivers : DriverLocation(m, d, r)
  PROVE  SocketsOK' /\ UsedOK'
<1>1. SocketsOK /\ UsedOK
  BY RoomTypeParts
<1>2. /\ used.messages < MaxMessages /\ used' = [used EXCEPT !.messages = @ + 1]
      /\ UNCHANGED <<online, member>>
  BY DEF JoinRide, LeaveRide, DriverLocation, Receive
<1>3. used.messages + 1 \in Place /\ UsedOK'
  BY <1>1, <1>2, RoomBoundAssumption DEF UsedOK, Place
<1>4. member' \subseteq online \X Rides
  BY <1>1, <1>2 DEF SocketsOK
<1>5. ASSUME NEW c \in Clients, NEW s \in {"join", "leave"},
             Receive(m, [IdleMessage EXCEPT !.step = s, !.client = c, !.ride = r])
      PROVE  SocketsOK'
  <2>1. PICK msg : msg = [IdleMessage EXCEPT !.step = s, !.client = c, !.ride = r]
    OBVIOUS
  <2>2. msg \in Message /\ msg.client = c
    BY <2>1 DEF IdleMessage, Message
  <2>3. msg.client \in online /\ message' = [message EXCEPT ![m] = msg]
    BY <1>5, <2>1 DEF Receive
  <2> QED
    BY <1>1, <1>2, <1>4, <2>2, <2>3, MessageUpdate
<1>6. ASSUME NEW d \in Drivers,
             Receive(m, [step |-> "write", client |-> d, ride |-> r, place |-> used.messages + 1])
      PROVE  SocketsOK'
  <2>1. PICK msg : msg = [step |-> "write", client |-> d, ride |-> r, place |-> used.messages + 1]
    OBVIOUS
  <2>2. msg \in Message /\ msg.step = "write"
    BY <1>3, <2>1 DEF Message
  <2>3. message' = [message EXCEPT ![m] = msg]
    BY <1>6, <2>1 DEF Receive
  <2> QED
    BY <1>1, <1>2, <1>4, <2>2, <2>3, MessageUpdate
<1> QED
  BY <1>3, <1>5, <1>6 DEF JoinRide, LeaveRide, DriverLocation

LEMMA MessageSockets ==
  ASSUME SocketsOK, NEW m \in Messages,
         \/ JoinRoom(m) \/ LeaveRoom(m) \/ WriteLocation(m) \/ NotifyDriverLocation(m) \/ MessageFails(m)
  PROVE  SocketsOK'
<1>1. member \subseteq online \X Rides
  BY DEF SocketsOK
<1>2. CASE JoinRoom(m)
  <2>1. <<message[m].client, message[m].ride>> \in online \X Rides
    BY <1>2, MessageShape DEF JoinRoom
  <2> QED
    BY <1>1, <1>2, <2>1, DoneSockets DEF JoinRoom
<1>3. CASE LeaveRoom(m)
  BY <1>1, <1>3, DoneSockets DEF LeaveRoom
<1>4. CASE WriteLocation(m)
  <2>1. PICK msg : msg = [message[m] EXCEPT !.step = "tell"]
    OBVIOUS
  <2>2. message[m] \in [step : {"write", "tell"}, client : Drivers, ride : Rides, place : Place]
    BY <1>4, MessageShape DEF WriteLocation
  <2>3. msg \in Message /\ msg.step = "tell"
    BY <2>1, <2>2 DEF Message
  <2>4. message' = [message EXCEPT ![m] = msg] /\ UNCHANGED <<online, member>>
    BY <1>4, <2>1 DEF WriteLocation
  <2> QED
    BY <1>1, <2>3, <2>4, MessageUpdate
<1>5. CASE NotifyDriverLocation(m) \/ MessageFails(m)
  BY <1>1, <1>5, DoneSockets DEF NotifyDriverLocation, MessageFails
<1> QED
  BY <1>2, <1>3, <1>4, <1>5

\* The events.
LEMMA ShowEvents ==
  ASSUME EventsOK, NEW r \in Rides, NEW d \in Drivers, NEW event \in {"offer", "expired", "cancelled"},
         Show(r, d, event)
  PROVE  screen' \in [Rides -> [Drivers -> {"none", "offer", "expired", "cancelled"}]]
  BY DEF Show, EventsOK

LEMMA RequestShape ==
  ASSUME TypeOK, NEW q \in Requests,
         request[q].step \in {"acceptOffer", "acceptCommit", "acceptRoute", "rejectCommit"}
  PROVE  request[q].ride \in Rides /\ request[q].driver \in Drivers
  BY DEF TypeOK, RequestsOK, RequestOK

LEMMA EmittingEvents ==
  ASSUME SearchTypeInv, RoomTypeOK, EmittingStep
  PROVE  EventsOK'
<1>1. EventsOK /\ TypeOK
  BY RoomTypeParts DEF SearchTypeInv, WindowTypeInv
<1>2. CASE SearchResumed \/ HandlerFailed \/ ServerCrash
  BY <1>1, <1>2 DEF SearchResumed, HandlerFailed, ServerCrash, EventsOK, roomVars
<1>3. CASE OfferSent
  <2>1. worker.ride \in Rides /\ worker.driver \in Drivers
    BY <1>1, <1>3, Shapes DEF OfferSent, SendDriverOffer
  <2> QED
    BY <1>1, <1>3, <2>1, ShowEvents DEF OfferSent, EventsOK
<1>4. ASSUME NEW r \in Rides, NEW d \in Drivers, OfferExpired(r, d) PROVE EventsOK'
  BY <1>1, <1>4 DEF OfferExpired, EventsOK, Notice
<1>5. ASSUME NEW q \in Requests, NEW r \in Rides, NEW d \in Drivers, AnswerSent(q, r, d) PROVE EventsOK'
  BY <1>1, <1>5 DEF AnswerSent, EventsOK, roomVars
<1>6. ASSUME NEW q \in Requests, RideAccepted(q) PROVE EventsOK'
  BY <1>1, <1>6 DEF RideAccepted, EventsOK
<1>7. ASSUME NEW q \in Requests, RideAnnounced(q) PROVE EventsOK'
  <2>1. request[q].ride \in Rides /\ request[q].driver \in Drivers
    BY <1>1, <1>7, RequestShape DEF RideAnnounced, AcceptAnnounce
  <2>2. UNCHANGED <<notices, screen>>
    BY <1>7 DEF RideAnnounced
  <2>3. \/ UNCHANGED informed
        \/ informed' = [informed EXCEPT ![request[q].ride] = @ \union {request[q].driver}]
    BY <1>7 DEF RideAnnounced
  <2>4. informed' \in [Rides -> SUBSET Drivers]
    BY <1>1, <2>1, <2>3 DEF EventsOK
  <2> QED
    BY <1>1, <2>2, <2>4 DEF EventsOK
<1>8. ASSUME NEW q \in Requests, OfferRejected(q) PROVE EventsOK'
  <2>1. request[q].ride \in Rides /\ request[q].driver \in Drivers
    BY <1>1, <1>8, RequestShape DEF OfferRejected, RejectCommit
  <2> QED
    BY <1>1, <1>8, <2>1 DEF OfferRejected, EventsOK, Notice
<1> QED
  BY <1>2, <1>3, <1>4, <1>5, <1>6, <1>7, <1>8 DEF EmittingStep

LEMMA SocketEvents ==
  ASSUME EventsOK, SocketStep \/ \E m \in Messages : MessageFails(m)
  PROVE  EventsOK'
<1>1. CASE \E n \in notices : NotifyOffer(n)
  <2>1. PICK n \in notices : NotifyOffer(n)
    BY <1>1
  <2>2. n.ride \in Rides /\ n.driver \in Drivers
    BY <2>1 DEF EventsOK
  <2> QED
    BY <2>1, <2>2, ShowEvents DEF NotifyOffer, EventsOK
<1>2. CASE UNCHANGED <<notices, screen, informed>>
  BY <1>2 DEF EventsOK
<1> QED
  BY <1>1, <1>2 DEF SocketStep, Connect, Disconnect, JoinRide, LeaveRide, DriverLocation, JoinRoom,
     LeaveRoom, WriteLocation, NotifyDriverLocation, MessageFails

\* The places and the bounds.
LEMMA RoomPlaces ==
  ASSUME SearchTypeInv, RoomTypeOK, [RoomNext]_allVars
  PROVE  PlacesOK'
<1>1. PlacesOK /\ SocketsOK /\ TypeOK
  BY RoomTypeParts DEF SearchTypeInv, WindowTypeInv
<1>2. ASSUME NEW m \in Messages, WriteLocation(m) PROVE PlacesOK'
  <2>1. message[m].client \in Drivers /\ message[m].place \in Place
    BY <1>1, <1>2, MessageShape DEF WriteLocation
  <2> QED
    BY <1>1, <1>2, <2>1 DEF WriteLocation, PlacesOK, Place
<1>3. ASSUME NEW m \in Messages, NotifyDriverLocation(m) PROVE PlacesOK'
  <2>1. message[m].client \in Drivers /\ message[m].place \in Place
    BY <1>1, <1>3, MessageShape DEF NotifyDriverLocation
  <2> QED
    BY <1>1, <1>3, <2>1 DEF NotifyDriverLocation, PlacesOK, Place
<1>4. ASSUME NEW q \in Requests, RideAccepted(q) PROVE PlacesOK'
  <2>1. request[q].ride \in Rides /\ request[q].driver \in Drivers
    BY <1>1, <1>4, RequestShape DEF RideAccepted, AcceptCommit
  <2> QED
    BY <1>1, <1>4, <2>1 DEF RideAccepted, PlacesOK, Place, places
<1>5. CASE UNCHANGED <<stored, shown, drove>>
  BY <1>1, <1>5 DEF PlacesOK, Place
<1>6. SocketStep => \/ \E m \in Messages : WriteLocation(m) \/ NotifyDriverLocation(m)
                    \/ UNCHANGED <<stored, shown, drove>>
  BY DEF SocketStep, Connect, Disconnect, JoinRide, LeaveRide, DriverLocation, JoinRoom, LeaveRoom,
     NotifyOffer, places
<1>7. EmittingStep => \/ \E q \in Requests : RideAccepted(q)
                      \/ UNCHANGED <<stored, shown, drove>>
  BY DEF EmittingStep, OfferSent, SearchResumed, HandlerFailed, OfferExpired, AnswerSent,
     RideAnnounced, OfferRejected, ServerCrash, places, roomVars
<1> QED
  BY <1>2, <1>3, <1>4, <1>5, <1>6, <1>7, RoomSteps DEF MessageFails, places, roomVars, allVars

LEMMA RoomUsed ==
  ASSUME SearchTypeInv, RoomTypeOK, [RoomNext]_allVars
  PROVE  UsedOK'
<1>1. UsedOK
  BY RoomTypeParts
<1>2. ASSUME NEW c \in Clients, Disconnect(c) PROVE UsedOK'
  BY <1>1, <1>2, RoomBoundAssumption DEF Disconnect, UsedOK
<1>3. CASE UNCHANGED used
  BY <1>1, <1>3 DEF UsedOK
<1>4. SocketStep => \/ \E c \in Clients : Disconnect(c)
                    \/ \E m \in Messages, r \in Rides :
                         \/ \E c \in Clients : JoinRide(m, c, r) \/ LeaveRide(m, c, r)
                         \/ \E d \in Drivers : DriverLocation(m, d, r)
                    \/ UNCHANGED used
  BY DEF SocketStep, Connect, JoinRoom, LeaveRoom, WriteLocation, NotifyDriverLocation, NotifyOffer
<1>5. EmittingStep => UNCHANGED used
  BY DEF EmittingStep, OfferSent, SearchResumed, HandlerFailed, OfferExpired, AnswerSent,
     RideAccepted, RideAnnounced, OfferRejected, ServerCrash, roomVars
<1> QED
  BY <1>2, <1>3, <1>4, <1>5, RoomSteps, ReceiveSockets DEF MessageFails, roomVars, allVars

LEMMA RoomSockets ==
  ASSUME SearchTypeInv, RoomTypeOK, [RoomNext]_allVars
  PROVE  SocketsOK'
<1>1. SocketsOK
  BY RoomTypeParts
<1>2. CASE UNCHANGED sockets
  BY <1>1, <1>2 DEF sockets, SocketsOK, Message, Clients, Place
<1>3. CASE ServerCrash
  BY <1>3 DEF ServerCrash, SocketsOK, IdleMessage
<1>4. EmittingStep => ServerCrash \/ UNCHANGED sockets
  BY DEF EmittingStep, OfferSent, SearchResumed, HandlerFailed, OfferExpired, AnswerSent,
     RideAccepted, RideAnnounced, OfferRejected, roomVars, sockets
<1>5. ASSUME SocketStep \/ \E m \in Messages : MessageFails(m)
      PROVE  SocketsOK'
  <2>1. CASE \E n \in notices : NotifyOffer(n)
    BY <1>2, <2>1 DEF NotifyOffer
  <2> QED
    BY <1>1, <1>5, <2>1, ConnectionSockets, ReceiveSockets, MessageSockets DEF SocketStep
<1> QED
  BY <1>2, <1>3, <1>4, <1>5, RoomSteps DEF roomVars, allVars, sockets

LEMMA RoomTypeStep == SearchTypeInv /\ RoomTypeOK /\ [RoomNext]_allVars => RoomTypeOK'
<1> SUFFICES ASSUME SearchTypeInv, RoomTypeOK, [RoomNext]_allVars PROVE EventsOK'
  BY RoomTypeParts, RoomSockets, RoomPlaces, RoomUsed
<1>1. EventsOK
  BY RoomTypeParts
<1>2. CASE UNCHANGED roomVars
  BY <1>1, <1>2 DEF roomVars, EventsOK
<1> QED
  BY <1>1, <1>2, RoomSteps, EmittingEvents, SocketEvents DEF allVars

-----------------------------------------------------------------------------
(***************************************************************************)
(* Who is in a room and what it is told.  What a ride has had, what was    *)
(* stored and who was named to the user only grows.                        *)
(***************************************************************************)
TracesGrow ==
  /\ \A r \in Rides : drove[r] \subseteq drove'[r] /\ informed[r] \subseteq informed'[r]
  /\ stored \subseteq stored'

LEMMA TracesGrowSteps ==
  ASSUME SearchTypeInv, RoomTypeOK, [RoomNext]_allVars
  PROVE  TracesGrow
<1>1. PlacesOK /\ EventsOK /\ TypeOK
  BY RoomTypeParts DEF SearchTypeInv, WindowTypeInv
<1>2. drove \in [Rides -> SUBSET Drivers] /\ informed \in [Rides -> SUBSET Drivers]
  BY <1>1 DEF PlacesOK, EventsOK
<1>3. CASE UNCHANGED <<stored, drove, informed>>
  BY <1>3 DEF TracesGrow
<1>4. ASSUME NEW m \in Messages, WriteLocation(m) PROVE TracesGrow
  BY <1>4 DEF WriteLocation, TracesGrow
<1>5. ASSUME NEW q \in Requests, RideAccepted(q) PROVE TracesGrow
  BY <1>2, <1>5 DEF RideAccepted, places, TracesGrow
<1>6. ASSUME NEW q \in Requests, RideAnnounced(q) PROVE TracesGrow
  BY <1>2, <1>6 DEF RideAnnounced, places, TracesGrow
<1>7. SocketStep => (\E m \in Messages : WriteLocation(m)) \/ UNCHANGED <<stored, drove, informed>>
  BY DEF SocketStep, Connect, Disconnect, JoinRide, LeaveRide, DriverLocation, JoinRoom, LeaveRoom,
     NotifyDriverLocation, NotifyOffer, places
<1>8. EmittingStep => \/ \E q \in Requests : RideAccepted(q) \/ RideAnnounced(q)
                      \/ UNCHANGED <<stored, drove, informed>>
  BY DEF EmittingStep, OfferSent, SearchResumed, HandlerFailed, OfferExpired, AnswerSent,
     OfferRejected, ServerCrash, places, roomVars
<1> QED
  BY <1>3, <1>4, <1>5, <1>6, <1>7, <1>8, RoomSteps DEF MessageFails, places, roomVars, allVars

\* The steps that write a ride, as the sockets see them.
LEMMA RoomRideWriters ==
  ASSUME SearchTypeInv, [RoomNext]_allVars
  PROVE  \/ UNCHANGED ride
         \/ \E q \in Requests, r \in Rides : CreateRide(q, r)
         \/ \E q \in Requests : RetryRideFlush(q) \/ RideAccepted(q)
<1>1. TypeOK
  BY DEF SearchTypeInv, WindowTypeInv
<1>2. SocketStep \/ UNCHANGED allVars => UNCHANGED ride
  BY SocketSteps DEF vars
<1>3. (\E m \in Messages : MessageFails(m)) => UNCHANGED ride
  BY DEF MessageFails, rows
<1>4. EmittingStep => (\E q \in Requests : RideAccepted(q)) \/ UNCHANGED ride
  BY DEF EmittingStep, OfferSent, SendDriverOffer, SearchResumed, ResumeMatching, HandlerFailed,
     HandlerFails, OfferExpired, ExpireOffer, AnswerSent, AcceptRideOffer, RejectOffer,
     RideAnnounced, AcceptAnnounce, OfferRejected, RejectCommit, ServerCrash, Crash, rows
<1>5. SilentStep => \/ \E q \in Requests, r \in Rides : CreateRide(q, r)
                    \/ \E q \in Requests : RetryRideFlush(q)
                    \/ UNCHANGED ride
  BY DEF SilentStep, Tick, StartMatching, FindNearbyDrivers, NextDriver, Reschedule, CreateOfferRead,
     WriteOffer, WriteStaleOffer, Recover, ExpireOfferFails, RetryRide, Enqueue, AcceptReadOffer,
     AcceptExpired, AcceptRefused, RequestFails, rows
<1> QED
  BY <1>2, <1>3, <1>4, <1>5, RoomSteps

RideDriversKnown == \A r \in Rides : ride[r].driver # None => ride[r].driver \in drove[r]

LEMMA RideDriversStep ==
  ASSUME SearchTypeInv, RoomTypeOK, RideDriversKnown, [RoomNext]_allVars
  PROVE  RideDriversKnown'
<1>1. TypeOK /\ ride \in [Rides -> RideRow] /\ drove \in [Rides -> SUBSET Drivers] /\ AssignmentInv
  BY Shapes, RoomTypeParts DEF SearchTypeInv, WindowTypeInv, PlacesOK
<1>2. TracesGrow
  BY TracesGrowSteps
<1>3. CASE UNCHANGED ride
  BY <1>2, <1>3 DEF RideDriversKnown, TracesGrow
<1>4. ASSUME NEW q \in Requests, NEW r \in Rides, CreateRide(q, r) PROVE RideDriversKnown'
  BY <1>1, <1>2, <1>4 DEF CreateRide, RideDriversKnown, TracesGrow
<1>5. ASSUME NEW q \in Requests, RetryRideFlush(q) PROVE RideDriversKnown'
  BY <1>1, <1>2, <1>5, RetryRideFlushAssignment DEF RideDriversKnown, TracesGrow
<1>6. ASSUME NEW q \in Requests, RideAccepted(q) PROVE RideDriversKnown'
  <2>1. request[q].ride \in Rides /\ request[q].driver \in Drivers
    BY <1>1, <1>6, RequestShape DEF RideAccepted, AcceptCommit
  <2>2. ride' = [ride EXCEPT ![request[q].ride] =
                   [status |-> "accepted", driver |-> request[q].driver, expires |-> Null]]
    BY <1>6 DEF RideAccepted, AcceptCommit
  <2>3. drove' = [drove EXCEPT ![request[q].ride] = @ \union {request[q].driver}]
    BY <1>6 DEF RideAccepted
  <2>4. \A r \in Rides : r # request[q].ride => ride'[r] = ride[r] /\ drove'[r] = drove[r]
    BY <1>1, <2>2, <2>3
  <2>5. /\ ride'[request[q].ride].driver = request[q].driver
        /\ request[q].driver \in drove'[request[q].ride]
    BY <1>1, <2>1, <2>2, <2>3
  <2> QED
    BY <2>4, <2>5 DEF RideDriversKnown
<1> QED
  BY <1>3, <1>4, <1>5, <1>6, RoomRideWriters

\* What is known of the client of a message.
KnownClient(m) ==
  /\ message[m].step = "join" =>
       message[m].client = RiderOf[message[m].ride] \/ message[m].client \in drove[message[m].ride]
  /\ message[m].step \in {"write", "tell"} => message[m].client \in drove[message[m].ride]
  /\ message[m].step = "tell" => <<message[m].client, message[m].place>> \in stored

LEMMA PartiesParts ==
  /\ PartiesAreKnown <=> RideDriversKnown /\ \A m \in Messages : KnownClient(m)
  /\ PartiesAreKnown' <=> RideDriversKnown' /\ \A m \in Messages : KnownClient(m)'
<1>1. PartiesAreKnown <=> RideDriversKnown /\ \A m \in Messages : KnownClient(m)
  BY DEF PartiesAreKnown, RideDriversKnown, KnownClient
<1>2. PartiesAreKnown' <=> RideDriversKnown' /\ \A m \in Messages : KnownClient(m)'
  BY DEF PartiesAreKnown, RideDriversKnown, KnownClient
<1> QED
  BY <1>1, <1>2

LEMMA SameMessage ==
  ASSUME SocketsOK, TracesGrow, NEW m \in Messages, KnownClient(m),
         message'[m] = message[m] \/ message'[m] = IdleMessage
  PROVE  KnownClient(m)'
<1>1. CASE message'[m] = IdleMessage
  BY <1>1 DEF KnownClient, IdleMessage
<1>2. CASE message'[m] = message[m]
  BY <1>2, MessageShape DEF KnownClient, TracesGrow
<1> QED
  BY <1>1, <1>2

LEMMA ReceivedMessage ==
  ASSUME SearchTypeInv, RoomTypeOK, PartiesAreKnown, TracesGrow, NEW m \in Messages, NEW r \in Rides,
         \/ \E c \in Clients : JoinRide(m, c, r) \/ LeaveRide(m, c, r)
         \/ \E d \in Drivers : DriverLocation(m, d, r)
  PROVE  \A p \in Messages : KnownClient(p)'
<1>1. /\ SocketsOK /\ RideDriversKnown /\ \A p \in Messages : KnownClient(p)
      /\ message \in [Messages -> Message \union {IdleMessage}]
  BY RoomTypeParts, PartiesParts DEF SocketsOK
<1>2. UNCHANGED <<drove, stored>>
  BY DEF JoinRide, LeaveRide, DriverLocation, places
<1>3. \A p \in Messages : p # m => message'[p] = message[p]
  BY <1>1 DEF JoinRide, LeaveRide, DriverLocation, Receive
<1>4. ASSUME NEW c \in Clients, JoinRide(m, c, r) PROVE KnownClient(m)'
  <2>1. c # None /\ (RiderOf[r] = c \/ c \in drove[r])
    BY <1>1, <1>4, NoneAssumption, ClientAssumption DEF JoinRide, Allowed, RideDriversKnown, Clients
  <2>2. message'[m] = [IdleMessage EXCEPT !.step = "join", !.client = c, !.ride = r]
    BY <1>1, <1>4 DEF JoinRide, Receive
  <2>3. message'[m].step = "join" /\ message'[m].client = c /\ message'[m].ride = r
    BY <2>2 DEF IdleMessage
  <2> QED
    BY <1>2, <2>1, <2>3 DEF KnownClient
<1>5. ASSUME NEW c \in Clients, LeaveRide(m, c, r) PROVE KnownClient(m)'
  <2>1. message'[m] = [IdleMessage EXCEPT !.step = "leave", !.client = c, !.ride = r]
    BY <1>1, <1>5 DEF LeaveRide, Receive
  <2>2. message'[m].step = "leave"
    BY <2>1 DEF IdleMessage
  <2> QED
    BY <2>2 DEF KnownClient
<1>6. ASSUME NEW d \in Drivers, DriverLocation(m, d, r) PROVE KnownClient(m)'
  <2>1. d \in drove[r]
    BY <1>1, <1>6, NoneAssumption DEF DriverLocation, RideDriversKnown
  <2>2. message'[m] = [step |-> "write", client |-> d, ride |-> r, place |-> used.messages + 1]
    BY <1>1, <1>6 DEF DriverLocation, Receive
  <2>3. message'[m].step = "write" /\ message'[m].client = d /\ message'[m].ride = r
    BY <2>2
  <2> QED
    BY <1>2, <2>1, <2>3 DEF KnownClient
<1> QED
  BY <1>1, <1>3, <1>4, <1>5, <1>6, SameMessage

LEMMA MovedMessage ==
  ASSUME RoomTypeOK, PartiesAreKnown, TracesGrow, NEW m \in Messages,
         JoinRoom(m) \/ LeaveRoom(m) \/ WriteLocation(m) \/ NotifyDriverLocation(m) \/ MessageFails(m)
  PROVE  \A p \in Messages : KnownClient(p)'
<1>1. /\ SocketsOK /\ \A p \in Messages : KnownClient(p)
      /\ message \in [Messages -> Message \union {IdleMessage}]
  BY RoomTypeParts, PartiesParts DEF SocketsOK
<1>2. CASE Done(m)
  BY <1>1, <1>2, SameMessage DEF Done
<1>3. CASE WriteLocation(m)
  <2>1. \A p \in Messages : p # m => message'[p] = message[p]
    BY <1>1, <1>3 DEF WriteLocation
  <2>2. message[m] \in [step : {"write", "tell"}, client : Drivers, ride : Rides, place : Place]
    BY <1>1, <1>3, MessageShape DEF WriteLocation
  <2>3. /\ message'[m].step = "tell" /\ message'[m].client = message[m].client
        /\ message'[m].ride = message[m].ride /\ message'[m].place = message[m].place
    BY <1>1, <1>3, <2>2 DEF WriteLocation
  <2>4. message[m].client \in drove[message[m].ride] /\ UNCHANGED drove
    BY <1>1, <1>3 DEF WriteLocation, KnownClient
  <2>5. <<message[m].client, message[m].place>> \in stored'
    BY <1>3 DEF WriteLocation
  <2>6. KnownClient(m)'
    BY <2>3, <2>4, <2>5 DEF KnownClient
  <2> QED
    BY <1>1, <2>1, <2>6, SameMessage
<1> QED
  BY <1>2, <1>3 DEF JoinRoom, LeaveRoom, NotifyDriverLocation, MessageFails

LEMMA PartiesStep ==
  ASSUME SearchTypeInv, RoomTypeOK, PartiesAreKnown, [RoomNext]_allVars
  PROVE  PartiesAreKnown'
<1>1. TracesGrow /\ SocketsOK /\ \A p \in Messages : KnownClient(p)
  BY TracesGrowSteps, RoomTypeParts, PartiesParts
<1>2. RideDriversKnown'
  BY RideDriversStep, PartiesParts
<1> SUFFICES \A m \in Messages : KnownClient(m)'
  BY <1>2, PartiesParts
<1>3. CASE UNCHANGED message
  BY <1>1, <1>3, SameMessage
<1>4. CASE ServerCrash
  BY <1>1, <1>4, SameMessage DEF ServerCrash
<1>5. ASSUME NEW c \in Clients, Disconnect(c) PROVE \A m \in Messages : KnownClient(m)'
  BY <1>1, <1>5, SameMessage DEF Disconnect
<1>6. EmittingStep => ServerCrash \/ UNCHANGED message
  BY DEF EmittingStep, OfferSent, SearchResumed, HandlerFailed, OfferExpired, AnswerSent,
     RideAccepted, RideAnnounced, OfferRejected, roomVars, sockets
<1>7. CASE \E n \in notices : NotifyOffer(n)
  BY <1>3, <1>7 DEF NotifyOffer, sockets
<1>8. CASE \E c \in Clients : Connect(c)
  BY <1>3, <1>8 DEF Connect
<1>9. CASE SocketStep \/ \E m \in Messages : MessageFails(m)
  BY <1>1, <1>5, <1>7, <1>8, <1>9, ReceivedMessage, MovedMessage DEF SocketStep
<1> QED
  BY <1>3, <1>4, <1>6, <1>9, RoomSteps DEF roomVars, allVars

\* The two properties of the rooms.
LEMMA MembersStep ==
  ASSUME SearchTypeInv, RoomTypeOK, PartiesAreKnown, OnlyPartiesInRoom, [RoomNext]_allVars
  PROVE  \A p \in member' : p[1] = RiderOf[p[2]] \/ p[1] \in drove'[p[2]]
<1>1. TracesGrow /\ SocketsOK /\ \A m \in Messages : KnownClient(m)
  BY TracesGrowSteps, RoomTypeParts, PartiesParts
<1>2. ASSUME NEW p \in member PROVE p[1] = RiderOf[p[2]] \/ p[1] \in drove'[p[2]]
  <2>1. p[2] \in Rides
    BY <1>1 DEF SocketsOK
  <2> QED
    BY <1>1, <2>1 DEF OnlyPartiesInRoom, TracesGrow
<1>3. CASE member' \subseteq member
  BY <1>2, <1>3
<1>4. ASSUME NEW m \in Messages, JoinRoom(m), NEW p \in member'
      PROVE  p[1] = RiderOf[p[2]] \/ p[1] \in drove'[p[2]]
  <2>1. /\ message[m].client = RiderOf[message[m].ride] \/ message[m].client \in drove[message[m].ride]
        /\ UNCHANGED drove
    BY <1>1, <1>4 DEF JoinRoom, KnownClient
  <2>2. p \in member \/ p = <<message[m].client, message[m].ride>>
    BY <1>4 DEF JoinRoom
  <2> QED
    BY <1>2, <2>1, <2>2
<1>5. SocketStep => (\E m \in Messages : JoinRoom(m)) \/ member' \subseteq member
  BY DEF SocketStep, Connect, Disconnect, JoinRide, LeaveRide, DriverLocation, LeaveRoom,
     WriteLocation, NotifyDriverLocation, NotifyOffer, sockets
<1>6. EmittingStep => member' \subseteq member
  BY DEF EmittingStep, OfferSent, SearchResumed, HandlerFailed, OfferExpired, AnswerSent,
     RideAccepted, RideAnnounced, OfferRejected, ServerCrash, roomVars, sockets
<1> QED
  BY <1>3, <1>4, <1>5, <1>6, RoomSteps DEF MessageFails, roomVars, allVars

LEMMA ShownStep ==
  ASSUME SearchTypeInv, RoomTypeOK, PartiesAreKnown, OnlyPartiesInRoom, ShownWasStored,
         [RoomNext]_allVars, NEW r \in Rides, shown'[r] # NoPlace
  PROVE  /\ shown'[r].driver \in drove'[r]
         /\ <<shown'[r].driver, shown'[r].place>> \in stored'
<1>1. TracesGrow /\ SocketsOK /\ PlacesOK /\ \A m \in Messages : KnownClient(m)
  BY TracesGrowSteps, RoomTypeParts, PartiesParts
<1>2. CASE shown'[r] = shown[r]
  BY <1>1, <1>2 DEF OnlyPartiesInRoom, ShownWasStored, TracesGrow
<1>3. ASSUME NEW m \in Messages, NotifyDriverLocation(m), shown'[r] # shown[r]
      PROVE  /\ shown'[r].driver \in drove'[r]
             /\ <<shown'[r].driver, shown'[r].place>> \in stored'
  <2>1. /\ message[m].client \in drove[message[m].ride]
        /\ <<message[m].client, message[m].place>> \in stored
    BY <1>1, <1>3 DEF NotifyDriverLocation, KnownClient
  <2>2. shown \in [Rides -> [driver : Drivers, place : Place] \union {NoPlace}]
    BY <1>1 DEF PlacesOK
  <2>3. r = message[m].ride /\ shown'[r] = [driver |-> message[m].client, place |-> message[m].place]
    BY <1>3, <2>2 DEF NotifyDriverLocation
  <2> QED
    BY <1>1, <2>1, <2>3 DEF TracesGrow
<1>4. SocketStep => (\E m \in Messages : NotifyDriverLocation(m)) \/ UNCHANGED shown
  BY DEF SocketStep, Connect, Disconnect, JoinRide, LeaveRide, DriverLocation, JoinRoom, LeaveRoom,
     WriteLocation, NotifyOffer, places
<1>5. EmittingStep => UNCHANGED shown
  BY DEF EmittingStep, OfferSent, SearchResumed, HandlerFailed, OfferExpired, AnswerSent,
     RideAccepted, RideAnnounced, OfferRejected, ServerCrash, places, roomVars
<1> QED
  BY <1>2, <1>3, <1>4, <1>5, RoomSteps DEF MessageFails, places, roomVars, allVars

-----------------------------------------------------------------------------
(***************************************************************************)
(* What the user of a ride is told.  Failures and lost connections are     *)
(* counted, and no step takes one back.                                    *)
(***************************************************************************)
LEMMA FailuresStay ==
  ASSUME SearchTypeInv, RoomTypeOK, [RoomNext]_allVars
  PROVE  /\ count'.faults = 0 => count.faults = 0
         /\ count'.crashes = 0 => count.crashes = 0
         /\ used'.disconnects = 0 => used.disconnects = 0
<1>1. /\ count \in [retries : Nat, rejects : Nat, changes : Nat, faults : Nat, crashes : Nat]
      /\ used \in [messages : 0 .. MaxMessages, disconnects : 0 .. MaxDisconnects]
  BY RoomTypeParts DEF SearchTypeInv, WindowTypeInv, TypeOK, BooksOK, UsedOK
<1> DEFINE Counted == \/ count' = count
                      \/ count' = [count EXCEPT !.retries = @ + 1]
                      \/ count' = [count EXCEPT !.rejects = @ + 1]
                      \/ count' = [count EXCEPT !.changes = @ + 1]
                      \/ count' = [count EXCEPT !.faults = @ + 1]
                      \/ count' = [count EXCEPT !.crashes = @ + 1]
<1>2. Counted => (count'.faults = 0 => count.faults = 0) /\ (count'.crashes = 0 => count.crashes = 0)
  BY <1>1
<1>3. MessageFault => Counted
  BY DEF MessageFault, UseFault
<1>4. [Next]_vars => Counted
  <2>1. Tick \/ WorkerStep \/ UNCHANGED vars => count' = count
    BY DEF Tick, WorkerStep, StartMatching, FindNearbyDrivers, NextDriver, Reschedule,
       CreateOfferRead, WriteOffer, WriteStaleOffer, SendDriverOffer, Recover, ExpireOffer,
       ResumeMatching, vars
  <2>2. WorkerFault \/ Crash => Counted
    BY DEF WorkerFault, HandlerFails, ExpireOfferFails, UseFault, Crash
  <2>3. ASSUME NEW q \in Requests, RequestStep(q) PROVE count' = count
    BY <2>3 DEF RequestStep, RetryRideFlush, Enqueue, AcceptReadOffer, AcceptExpired, AcceptRefused,
       AcceptCommit, AcceptAnnounce, RejectCommit, UpdateStatusFlush
  <2>4. ASSUME NEW q \in Requests, RequestStart(q) \/ RequestFails(q) PROVE Counted
    BY <2>4 DEF RequestStart, CreateRide, RetryRide, AcceptRideOffer, RejectOffer, UpdateStatus,
       RequestFails
  <2> QED
    BY <2>1, <2>2, <2>3, <2>4 DEF Next
<1> HIDE DEF Counted
<1>5. \/ used' = used
      \/ used' = [used EXCEPT !.messages = @ + 1]
      \/ used' = [used EXCEPT !.disconnects = @ + 1]
  <2>1. SocketStep => \/ used' = used
                      \/ used' = [used EXCEPT !.messages = @ + 1]
                      \/ used' = [used EXCEPT !.disconnects = @ + 1]
    BY DEF SocketStep, Connect, Disconnect, JoinRide, LeaveRide, DriverLocation, Receive, JoinRoom,
       LeaveRoom, WriteLocation, NotifyDriverLocation, NotifyOffer
  <2>2. EmittingStep => used' = used
    BY DEF EmittingStep, OfferSent, SearchResumed, HandlerFailed, OfferExpired, AnswerSent,
       RideAccepted, RideAnnounced, OfferRejected, ServerCrash, roomVars
  <2> QED
    BY <2>1, <2>2, RoomSteps DEF MessageFails, roomVars, allVars
<1>6. used'.disconnects = 0 => used.disconnects = 0
  BY <1>1, <1>5
<1> QED
  BY <1>2, <1>3, <1>4, <1>6, TableSteps

LEMMA OnlineStep ==
  ASSUME SearchTypeInv, RoomTypeOK, EveryoneIsOnline, [RoomNext]_allVars
  PROVE  EveryoneIsOnline'
<1> SUFFICES ASSUME used'.disconnects = 0, count'.crashes = 0 PROVE online' = Clients
  BY DEF EveryoneIsOnline, Clients
<1>1. online = Clients
  BY FailuresStay DEF EveryoneIsOnline
<1>2. /\ count \in [retries : Nat, rejects : Nat, changes : Nat, faults : Nat, crashes : Nat]
      /\ used \in [messages : 0 .. MaxMessages, disconnects : 0 .. MaxDisconnects]
  BY RoomTypeParts DEF SearchTypeInv, WindowTypeInv, TypeOK, BooksOK, UsedOK
<1>3. ~ServerCrash
  BY <1>2 DEF ServerCrash, Crash
<1>4. ~\E c \in Clients : Disconnect(c)
  BY <1>2 DEF Disconnect
<1>5. SocketStep => online' = online
  BY <1>1, <1>4 DEF SocketStep, Connect, JoinRide, LeaveRide, DriverLocation, JoinRoom, LeaveRoom,
     WriteLocation, NotifyDriverLocation, NotifyOffer, sockets
<1>6. EmittingStep => online' = online
  BY <1>3 DEF EmittingStep, OfferSent, SearchResumed, HandlerFailed, OfferExpired, AnswerSent,
     RideAccepted, RideAnnounced, OfferRejected, roomVars, sockets
<1> QED
  BY <1>1, <1>5, <1>6, RoomSteps DEF MessageFails, roomVars, allVars

\* An accept that is committed goes on to its announcement, unless something fails.
LEMMA AnnouncingStays ==
  ASSUME SearchTypeInv, [RoomNext]_allVars, NothingFailed', NEW q \in Requests,
         request[q].step = "acceptRoute"
  PROVE  request'[q] = request[q] \/ RideAnnounced(q)
<1>1. /\ request \in [Requests -> Request]
      /\ count \in [retries : Nat, rejects : Nat, changes : Nat, faults : Nat, crashes : Nat]
      /\ IdleRequest.step = "idle"
  BY IdleType DEF SearchTypeInv, WindowTypeInv, TypeOK, RequestsOK, BooksOK
<1>2. CASE UNCHANGED request
  BY <1>2
<1>3. ASSUME NEW p \in Requests, NEW req, Begin(p, req) PROVE request'[q] = request[q]
  BY <1>1, <1>3 DEF Begin
<1>4. ASSUME NEW p \in Requests, request[p].step # "acceptRoute",
             End(p) \/ \E st \in RequestSteps : Continue(p, st)
      PROVE  request'[q] = request[q]
  BY <1>1, <1>4 DEF End, Continue
<1>5. SocketStep \/ UNCHANGED allVars => UNCHANGED request
  BY SocketSteps DEF vars
<1>6. CASE SilentStep
  <2>1. ASSUME NEW p \in Requests PROVE ~RequestFails(p)
    BY <1>1 DEF RequestFails, NothingFailed
  <2>2. ASSUME NEW p \in Requests, NEW r \in Rides, CreateRide(p, r) \/ RetryRide(p, r)
        PROVE  request'[q] = request[q]
    BY <1>3, <2>2 DEF CreateRide, RetryRide
  <2>3. ASSUME NEW p \in Requests,
               \/ RetryRideFlush(p) \/ Enqueue(p)
               \/ AcceptReadOffer(p) \/ AcceptExpired(p) \/ AcceptRefused(p)
        PROVE  request'[q] = request[q]
    BY <1>4, <2>3 DEF RetryRideFlush, Enqueue, AcceptReadOffer, AcceptExpired, AcceptRefused,
       RequestSteps
  <2>4. CASE \/ Tick
             \/ \E r \in Rides, t \in Time : StartMatching(r, t)
             \/ FindNearbyDrivers \/ NextDriver \/ Reschedule
             \/ CreateOfferRead \/ WriteOffer \/ WriteStaleOffer \/ Recover
             \/ \E r \in Rides, d \in Drivers : ExpireOfferFails(r, d)
    BY <1>2, <2>4 DEF Tick, StartMatching, FindNearbyDrivers, NextDriver, Reschedule,
       CreateOfferRead, WriteOffer, WriteStaleOffer, Recover, ExpireOfferFails
  <2> QED
    BY <1>6, <2>1, <2>2, <2>3, <2>4 DEF SilentStep
<1>7. CASE EmittingStep
  <2>1. ~ServerCrash
    BY <1>1 DEF ServerCrash, Crash, NothingFailed
  <2>2. OfferSent \/ SearchResumed \/ HandlerFailed => UNCHANGED request
    BY DEF OfferSent, SendDriverOffer, SearchResumed, ResumeMatching, HandlerFailed, HandlerFails
  <2>3. (\E r \in Rides, d \in Drivers : OfferExpired(r, d)) => UNCHANGED request
    BY DEF OfferExpired, ExpireOffer
  <2>4. ASSUME NEW p \in Requests, NEW r \in Rides, NEW d \in Drivers, AnswerSent(p, r, d)
        PROVE  request'[q] = request[q]
    BY <1>3, <2>4 DEF AnswerSent, AcceptRideOffer, RejectOffer
  <2>5. ASSUME NEW p \in Requests, RideAccepted(p) \/ OfferRejected(p)
        PROVE  request'[q] = request[q]
    BY <1>4, <2>5 DEF RideAccepted, AcceptCommit, OfferRejected, RejectCommit, RequestSteps
  <2>6. ASSUME NEW p \in Requests, p # q, RideAnnounced(p) PROVE request'[q] = request[q]
    BY <1>1, <2>6 DEF RideAnnounced, AcceptAnnounce, End
  <2> QED
    BY <1>2, <1>7, <2>1, <2>2, <2>3, <2>4, <2>5, <2>6 DEF EmittingStep
<1> QED
  BY <1>2, <1>5, <1>6, <1>7, RoomSteps DEF MessageFails

LEMMA AnnouncedStep ==
  ASSUME SearchTypeInv, RoomTypeOK, EveryoneIsOnline, AcceptsAreAnnounced, [RoomNext]_allVars
  PROVE  AcceptsAreAnnounced'
<1> SUFFICES ASSUME NothingFailed', used'.disconnects = 0, NEW r \in Rides, ride'[r].driver # None
             PROVE  \/ ride'[r].driver \in informed'[r]
                    \/ \E q \in Requests : /\ request'[q].step = "acceptRoute" /\ request'[q].ride = r
                                           /\ request'[q].driver = ride'[r].driver
  BY DEF AcceptsAreAnnounced
<1>1. NothingFailed /\ used.disconnects = 0 /\ online = Clients
  BY FailuresStay DEF NothingFailed, EveryoneIsOnline
<1>2. /\ TypeOK /\ AssignmentInv /\ ride \in [Rides -> RideRow] /\ informed \in [Rides -> SUBSET Drivers]
      /\ request \in [Requests -> Request]
  BY Shapes, RoomTypeParts DEF SearchTypeInv, WindowTypeInv, EventsOK
<1>3. TracesGrow
  BY TracesGrowSteps
<1>4. CASE ride'[r].driver = ride[r].driver
  <2>1. CASE ride[r].driver \in informed[r]
    BY <1>3, <1>4, <2>1 DEF TracesGrow
  <2>2. ASSUME NEW q \in Requests, request[q].step = "acceptRoute", request[q].ride = r,
               request[q].driver = ride[r].driver
        PROVE  \/ ride'[r].driver \in informed'[r]
               \/ /\ request'[q].step = "acceptRoute" /\ request'[q].ride = r
                  /\ request'[q].driver = ride'[r].driver
    <3>1. CASE request'[q] = request[q]
      BY <1>4, <2>2, <3>1
    <3>2. CASE RideAnnounced(q)
      <4>1. RiderOf[r] \in online
        BY <1>1, RiderAssumption DEF Clients
      <4>2. informed' = [informed EXCEPT ![r] = @ \union {ride[r].driver}]
        BY <2>2, <3>2, <4>1 DEF RideAnnounced
      <4> QED
        BY <1>2, <1>4, <4>2
    <3> QED
      BY <2>2, <3>1, <3>2, AnnouncingStays
  <2> QED
    BY <1>1, <1>4, <2>1, <2>2 DEF AcceptsAreAnnounced
<1>5. CASE ride'[r].driver # ride[r].driver
  <2>1. ASSUME NEW q \in Requests, NEW s \in Rides, CreateRide(q, s) PROVE FALSE
    BY <1>2, <1>5, <2>1 DEF CreateRide
  <2>2. ASSUME NEW q \in Requests, RetryRideFlush(q) PROVE FALSE
    BY <1>2, <1>5, <2>2, RetryRideFlushAssignment
  <2>3. ASSUME NEW q \in Requests, RideAccepted(q)
        PROVE  /\ request'[q].step = "acceptRoute" /\ request'[q].ride = r
               /\ request'[q].driver = ride'[r].driver
    <3>1. /\ ride' = [ride EXCEPT ![request[q].ride] =
                        [status |-> "accepted", driver |-> request[q].driver, expires |-> Null]]
          /\ request' = [request EXCEPT ![q].step = "acceptRoute"]
      BY <2>3 DEF RideAccepted, AcceptCommit, Continue
    <3>2. r = request[q].ride /\ ride'[r].driver = request[q].driver
      BY <1>2, <1>5, <3>1
    <3>3. request[q] \in Request
      BY <1>2
    <3>4. /\ request'[q].step = "acceptRoute" /\ request'[q].ride = request[q].ride
          /\ request'[q].driver = request[q].driver
      BY <1>2, <3>1, <3>3 DEF Request
    <3> QED
      BY <3>2, <3>4
  <2> QED
    BY <1>5, <2>1, <2>2, <2>3, RoomRideWriters
<1> QED
  BY <1>4, <1>5

-----------------------------------------------------------------------------
(***************************************************************************)
(* What the apps of the drivers show, as long as nothing disturbs the      *)
(* search.  The steps that matter: the worker moves on before an offer is  *)
(* written, writes it, sends it, makes it EXPIRED and goes on once the     *)
(* event of that is sent; and an accept.                                   *)
(***************************************************************************)
ScreensAside ==
  /\ UNCHANGED <<offer, notices, screen>>
  /\ worker' = worker \/ worker.step \notin {"schedule", "resume"}

LEMMA ScreenSteps ==
  ASSUME SearchTypeInv, Undisturbed, Undisturbed', [RoomNext]_allVars
  PROVE  \/ ScreensAside
         \/ WriteOffer /\ UNCHANGED roomVars
         \/ OfferSent \/ SearchResumed
         \/ \E r \in Rides, d \in Drivers : OfferExpired(r, d)
         \/ \E n \in notices : NotifyOffer(n)
         \/ \E q \in Requests : RideAccepted(q)
<1>1. TypeOK /\ WorkerOnTrack
  BY DEF SearchTypeInv, WindowTypeInv, SearchInv, Undisturbed
<1>2. ~WorkerFault /\ ~Crash /\ \A q \in Requests : ~RequestFails(q)
  BY <1>1, Disturbances DEF Undisturbed
<1>3. ~\E m \in Messages : MessageFails(m)
  BY MessageFaultKeeps DEF Undisturbed, MessageFails, MessageFault
<1>4. ~Recover /\ ~WriteStaleOffer /\ \A q \in Requests : ~RetryRideFlush(q) /\ ~OfferRejected(q)
  BY <1>1 DEF WorkerOnTrack, Recover, WriteStaleOffer, RetryRideFlush, OfferRejected, RejectCommit,
     Undisturbed
<1>5. ~HandlerFailed /\ ~ServerCrash
  BY <1>2 DEF HandlerFailed, ServerCrash, WorkerFault
<1>6. SocketStep => (\E n \in notices : NotifyOffer(n)) \/ ScreensAside
  <2>1. SocketStep => UNCHANGED <<offer, worker>>
    BY SocketSteps DEF vars
  <2> QED
    BY <2>1 DEF SocketStep, Connect, Disconnect, JoinRide, LeaveRide, DriverLocation, JoinRoom,
       LeaveRoom, WriteLocation, NotifyDriverLocation, ScreensAside
<1>7. SilentStep /\ UNCHANGED roomVars => (WriteOffer /\ UNCHANGED roomVars) \/ ScreensAside
  <2> SUFFICES ASSUME SilentStep, UNCHANGED roomVars, ~WriteOffer PROVE ScreensAside
    OBVIOUS
  <2>1. ~\E r \in Rides, d \in Drivers : ExpireOfferFails(r, d)
    BY <1>2 DEF WorkerFault
  <2>2. UNCHANGED <<notices, screen>>
    BY DEF roomVars
  <2>3. CASE \/ \E r \in Rides, t \in Time : StartMatching(r, t)
             \/ FindNearbyDrivers \/ NextDriver \/ Reschedule \/ CreateOfferRead
    BY <2>2, <2>3 DEF StartMatching, FindNearbyDrivers, NextDriver, Reschedule, CreateOfferRead,
       rows, ScreensAside
  <2>4. CASE Tick
    BY <2>2, <2>4 DEF Tick, rows, ScreensAside
  <2>5. ASSUME NEW q \in Requests, NEW r \in Rides, CreateRide(q, r) \/ RetryRide(q, r)
        PROVE  ScreensAside
    BY <2>2, <2>5 DEF CreateRide, RetryRide, rows, ScreensAside
  <2>6. ASSUME NEW q \in Requests,
               Enqueue(q) \/ AcceptReadOffer(q) \/ AcceptExpired(q) \/ AcceptRefused(q)
        PROVE  ScreensAside
    BY <2>2, <2>6 DEF Enqueue, AcceptReadOffer, AcceptExpired, AcceptRefused, rows, ScreensAside
  <2> QED
    BY <1>2, <1>4, <2>1, <2>3, <2>4, <2>5, <2>6 DEF SilentStep
<1>8. ASSUME NEW q \in Requests, NEW r \in Rides, NEW d \in Drivers, AnswerSent(q, r, d)
      PROVE  ScreensAside
  BY <1>8 DEF AnswerSent, AcceptRideOffer, RejectOffer, roomVars, rows, ScreensAside
<1>9. ASSUME NEW q \in Requests, RideAnnounced(q) PROVE ScreensAside
  BY <1>9 DEF RideAnnounced, AcceptAnnounce, rows, ScreensAside
<1>10. UNCHANGED allVars => ScreensAside
  BY DEF allVars, vars, roomVars, ScreensAside
<1> QED
  BY <1>3, <1>4, <1>5, <1>6, <1>7, <1>8, <1>9, <1>10, RoomSteps DEF EmittingStep

LEMMA NoticeFields ==
  ASSUME EventsOK, NEW n \in notices, n.event = "expired"
  PROVE  n = Notice(n.ride, n.driver, "expired") /\ n.ride \in Rides /\ n.driver \in Drivers
  BY DEF EventsOK, Notice

LEMMA NoticesStep ==
  ASSUME SearchTypeInv, RoomTypeOK, NoticesInOrder, [RoomNext]_allVars
  PROVE  NoticesInOrder'
<1> DEFINE Ordered(n) == /\ n.event = "expired" /\ worker.step = "resume"
                         /\ worker.ride = n.ride /\ worker.driver = n.driver
<1> SUFFICES ASSUME Undisturbed', NEW n \in notices'
             PROVE  /\ n.event = "expired" /\ worker'.step = "resume"
                    /\ worker'.ride = n.ride /\ worker'.driver = n.driver
  BY DEF NoticesInOrder
<1>1. Undisturbed /\ TypeOK /\ EventsOK
  BY TableSteps, MessageFaultKeeps, StaysSteady, RoomTypeParts
  DEF SearchTypeInv, WindowTypeInv, Undisturbed, Calmer
<1>2. \A x \in notices : Ordered(x)
  BY <1>1 DEF NoticesInOrder
<1>3. CASE ScreensAside
  BY <1>2, <1>3 DEF ScreensAside
<1>4. CASE WriteOffer /\ UNCHANGED roomVars
  BY <1>2, <1>4 DEF WriteOffer, roomVars
<1>5. CASE OfferSent
  BY <1>2, <1>5 DEF OfferSent, SendDriverOffer
<1>6. CASE SearchResumed
  <2>1. n \in notices /\ Ordered(n)
    BY <1>2, <1>6 DEF SearchResumed, roomVars
  <2>2. n = Notice(worker.ride, worker.driver, "expired")
    BY <1>1, <2>1, NoticeFields
  <2> QED
    BY <1>6, <2>1, <2>2 DEF SearchResumed
<1>7. ASSUME NEW r \in Rides, NEW d \in Drivers, OfferExpired(r, d)
      PROVE  /\ n.event = "expired" /\ worker'.step = "resume"
             /\ worker'.ride = n.ride /\ worker'.driver = n.driver
  <2>1. worker.step = "idle" /\ notices = {}
    BY <1>2, <1>7 DEF OfferExpired, ExpireOffer
  <2>2. n = Notice(r, d, "expired") /\ worker'.step = "resume"
    BY <1>7, <2>1 DEF OfferExpired
  <2>3. worker' = [IdleWorker EXCEPT !.step = "resume", !.ride = r, !.driver = d]
    BY <1>7, <2>1, <2>2 DEF OfferExpired, ExpireOffer
  <2>4. worker'.ride = r /\ worker'.driver = d
    BY <2>3 DEF IdleWorker
  <2> QED
    BY <2>2, <2>4 DEF Notice
<1>8. CASE \E x \in notices : NotifyOffer(x)
  <2>1. n \in notices /\ worker' = worker
    BY <1>8 DEF NotifyOffer, vars
  <2> QED
    BY <1>2, <2>1
<1>9. ASSUME NEW q \in Requests, RideAccepted(q)
      PROVE  /\ n.event = "expired" /\ worker'.step = "resume"
             /\ worker'.ride = n.ride /\ worker'.driver = n.driver
  BY <1>2, <1>9 DEF RideAccepted, AcceptCommit
<1> QED
  BY <1>1, <1>3, <1>4, <1>5, <1>6, <1>7, <1>8, <1>9, ScreenSteps

\* The offer that the worker has made EXPIRED is not PENDING while it searches on.
LEMMA ResumeNotPending ==
  ASSUME SearchTypeInv, Steady, worker.step = "resume"
  PROVE  offer[worker.ride][worker.driver].status # "PENDING"
<1>1. OneCarrier /\ OfferHasTimeout /\ worker.ride \in Rides /\ worker.driver \in Drivers
  BY Shapes DEF SearchTypeInv, SearchInv, WindowTypeInv
<1>2. PICK r \in Rides, d \in Drivers : r = worker.ride /\ d = worker.driver
  BY <1>1
<1>3. <<"worker", r>> \in Carriers(r) /\ <<"timeout", d>> # <<"worker", r>>
  BY <1>2, WorkerCarrier
<1>4. \A x, y \in Carriers(r) : x = y
  BY <1>1 DEF OneCarrier
<1>5. timeoutJob[r][d] = Null
  BY <1>3, <1>4, TimeoutCarrier
<1> QED
  BY <1>1, <1>2, <1>5 DEF OfferHasTimeout

\* The two halves of ScreenMatchesTable.
OfferIsShown(r, d) ==
  offer[r][d].status = "PENDING" =>
    screen[r][d] = "offer" \/ (worker.step = "schedule" /\ worker.ride = r /\ worker.driver = d)

ShownIsOffered(r, d) ==
  screen[r][d] = "offer" =>
    offer[r][d].status \in {"PENDING", "ACCEPTED"} \/ Notice(r, d, "expired") \in notices

ScreensMatch == \A r \in Rides, d \in Drivers : OfferIsShown(r, d) /\ ShownIsOffered(r, d)

LEMMA ScreenParts ==
  /\ ScreenMatchesTable <=> (Undisturbed /\ used.disconnects = 0 => ScreensMatch)
  /\ ScreenMatchesTable' <=> (Undisturbed' /\ used'.disconnects = 0 => ScreensMatch')
<1>1. ScreenMatchesTable <=> (Undisturbed /\ used.disconnects = 0 => ScreensMatch)
  BY DEF ScreenMatchesTable, ScreensMatch, OfferIsShown, ShownIsOffered
<1>2. ScreenMatchesTable' <=> (Undisturbed' /\ used'.disconnects = 0 => ScreensMatch')
  BY DEF ScreenMatchesTable, ScreensMatch, OfferIsShown, ShownIsOffered
<1> QED
  BY <1>1, <1>2

LEMMA WriteOfferScreens ==
  ASSUME TypeOK, ScreensMatch, WriteOffer, UNCHANGED roomVars
  PROVE  ScreensMatch'
<1>1. /\ worker.step = "write" /\ worker.ride \in Rides /\ worker.driver \in Drivers
      /\ offer \in [Rides -> [Drivers -> OfferRow]] /\ worker \in Worker
  BY Shapes DEF WriteOffer
<1>2. /\ offer' = [offer EXCEPT ![worker.ride][worker.driver] =
                     [status |-> "PENDING", expires |-> worker.final]]
      /\ worker' = [worker EXCEPT !.step = "schedule"]
      /\ UNCHANGED <<screen, notices>>
  BY DEF WriteOffer, roomVars
<1>3. worker'.step = "schedule" /\ worker'.ride = worker.ride /\ worker'.driver = worker.driver
  BY <1>1, <1>2 DEF Worker
<1>4. ASSUME NEW r \in Rides, NEW d \in Drivers PROVE OfferIsShown(r, d)' /\ ShownIsOffered(r, d)'
  <2>1. CASE r = worker.ride /\ d = worker.driver
    <3>1. offer'[r][d].status = "PENDING"
      BY <1>1, <1>2, <2>1
    <3> QED
      BY <1>3, <2>1, <3>1 DEF OfferIsShown, ShownIsOffered
  <2>2. CASE ~(r = worker.ride /\ d = worker.driver)
    <3>1. offer'[r][d] = offer[r][d]
      BY <1>1, <1>2, <2>2
    <3>2. OfferIsShown(r, d) /\ ShownIsOffered(r, d)
      BY DEF ScreensMatch
    <3> QED
      BY <1>1, <1>2, <3>1, <3>2 DEF OfferIsShown, ShownIsOffered
  <2> QED
    BY <2>1, <2>2
<1> QED
  BY <1>4 DEF ScreensMatch

LEMMA OfferSentScreens ==
  ASSUME SearchTypeInv, Undisturbed, RoomTypeOK, online = Clients, ScreensMatch, OfferSent
  PROVE  ScreensMatch'
<1>1. /\ worker.step = "schedule" /\ worker.ride \in Rides /\ worker.driver \in Drivers
      /\ screen \in [Rides -> [Drivers -> {"none", "offer", "expired", "cancelled"}]]
      /\ offer[worker.ride][worker.driver].status \in {"PENDING", "ACCEPTED"}
  BY Shapes, RoomTypeParts DEF OfferSent, SendDriverOffer, SearchTypeInv, WindowTypeInv, EventsOK,
     SearchInv, OfferHasTimeout, Undisturbed
<1>2. /\ screen' = [screen EXCEPT ![worker.ride][worker.driver] = "offer"]
      /\ UNCHANGED <<offer, notices>>
  BY <1>1 DEF OfferSent, SendDriverOffer, Show, Clients, rows
<1>3. ASSUME NEW r \in Rides, NEW d \in Drivers PROVE OfferIsShown(r, d)' /\ ShownIsOffered(r, d)'
  <2>1. CASE r = worker.ride /\ d = worker.driver
    <3>1. screen'[r][d] = "offer"
      BY <1>1, <1>2, <2>1
    <3> QED
      BY <1>1, <1>2, <2>1, <3>1 DEF OfferIsShown, ShownIsOffered
  <2>2. CASE ~(r = worker.ride /\ d = worker.driver)
    <3>1. screen'[r][d] = screen[r][d]
      BY <1>1, <1>2, <2>2
    <3>2. OfferIsShown(r, d) /\ ShownIsOffered(r, d)
      BY DEF ScreensMatch
    <3> QED
      BY <1>2, <2>2, <3>1, <3>2 DEF OfferIsShown, ShownIsOffered
  <2> QED
    BY <2>1, <2>2
<1> QED
  BY <1>3 DEF ScreensMatch

LEMMA OfferExpiredScreens ==
  ASSUME TypeOK, ScreensMatch, NEW s \in Rides, NEW e \in Drivers, OfferExpired(s, e)
  PROVE  ScreensMatch'
<1>1. worker.step = "idle" /\ UNCHANGED screen /\ offer \in [Rides -> [Drivers -> OfferRow]]
  BY Shapes DEF OfferExpired, ExpireOffer
<1>2. CASE UNCHANGED <<offer, worker>>
  <2>1. UNCHANGED notices
    BY <1>1, <1>2 DEF OfferExpired
  <2> QED
    BY <1>1, <1>2, <2>1 DEF ScreensMatch, OfferIsShown, ShownIsOffered
<1>3. CASE /\ offer' = [offer EXCEPT ![s][e].status = "EXPIRED"]
           /\ worker' = [IdleWorker EXCEPT !.step = "resume", !.ride = s, !.driver = e]
  <2>1. worker'.step = "resume"
    BY <1>3 DEF IdleWorker
  <2>2. notices' = notices \union {Notice(s, e, "expired")}
    BY <2>1 DEF OfferExpired
  <2>3. ASSUME NEW r \in Rides, NEW d \in Drivers PROVE OfferIsShown(r, d)' /\ ShownIsOffered(r, d)'
    <3>1. CASE r = s /\ d = e
      <4>1. offer'[r][d].status = "EXPIRED"
        BY <1>1, <1>3, <3>1 DEF OfferRow
      <4> QED
        BY <2>2, <3>1, <4>1 DEF OfferIsShown, ShownIsOffered
    <3>2. CASE ~(r = s /\ d = e)
      <4>1. offer'[r][d] = offer[r][d]
        BY <1>1, <1>3, <3>2
      <4>2. OfferIsShown(r, d) /\ ShownIsOffered(r, d)
        BY DEF ScreensMatch
      <4>3. screen'[r][d] = screen[r][d] /\ notices \subseteq notices'
        BY <1>1, <2>2
      <4>4. OfferIsShown(r, d)'
        BY <1>1, <4>1, <4>2, <4>3 DEF OfferIsShown
      <4>5. ShownIsOffered(r, d)'
        BY <4>1, <4>2, <4>3 DEF ShownIsOffered, Notice
      <4> QED
        BY <4>4, <4>5
    <3> QED
      BY <3>1, <3>2
  <2> QED
    BY <2>3 DEF ScreensMatch
<1> QED
  BY <1>2, <1>3 DEF OfferExpired, ExpireOffer

LEMMA NotifyOfferScreens ==
  ASSUME SearchTypeInv, Undisturbed, RoomTypeOK, NoticesInOrder, online = Clients, ScreensMatch,
         NEW n \in notices, NotifyOffer(n)
  PROVE  ScreensMatch'
<1>1. /\ n.event = "expired" /\ worker.step = "resume" /\ EventsOK
      /\ worker.ride = n.ride /\ worker.driver = n.driver
      /\ screen \in [Rides -> [Drivers -> {"none", "offer", "expired", "cancelled"}]]
  BY RoomTypeParts DEF NoticesInOrder, EventsOK
<1>2. n = Notice(n.ride, n.driver, "expired") /\ n.ride \in Rides /\ n.driver \in Drivers
  BY <1>1, NoticeFields
<1>3. offer[n.ride][n.driver].status # "PENDING"
  BY <1>1, ResumeNotPending DEF Undisturbed
<1>4. /\ screen' = [screen EXCEPT ![n.ride][n.driver] = "expired"]
      /\ notices' = notices \ {n}
      /\ UNCHANGED <<offer, worker>>
  BY <1>1, <1>2 DEF NotifyOffer, Show, Clients, vars
<1>5. ASSUME NEW r \in Rides, NEW d \in Drivers PROVE OfferIsShown(r, d)' /\ ShownIsOffered(r, d)'
  <2>1. CASE r = n.ride /\ d = n.driver
    <3>1. screen'[r][d] = "expired"
      BY <1>1, <1>2, <1>4, <2>1
    <3> QED
      BY <1>3, <1>4, <2>1, <3>1 DEF OfferIsShown, ShownIsOffered
  <2>2. CASE ~(r = n.ride /\ d = n.driver)
    <3>1. screen'[r][d] = screen[r][d]
      BY <1>1, <1>2, <1>4, <2>2
    <3>2. OfferIsShown(r, d) /\ ShownIsOffered(r, d)
      BY DEF ScreensMatch
    <3>3. Notice(r, d, "expired") # n
      BY <1>2, <2>2 DEF Notice
    <3>4. OfferIsShown(r, d)'
      BY <1>4, <3>1, <3>2 DEF OfferIsShown
    <3>5. ShownIsOffered(r, d)'
      BY <1>4, <3>1, <3>2, <3>3 DEF ShownIsOffered, Notice
    <3> QED
      BY <3>4, <3>5
  <2> QED
    BY <2>1, <2>2
<1> QED
  BY <1>5 DEF ScreensMatch

LEMMA RideAcceptedScreens ==
  ASSUME TypeOK, ScreensMatch, NEW q \in Requests, RideAccepted(q)
  PROVE  ScreensMatch'
<1>1. /\ request[q].ride \in Rides /\ request[q].driver \in Drivers
      /\ offer \in [Rides -> [Drivers -> OfferRow]]
  BY Shapes, RequestShape DEF RideAccepted, AcceptCommit
<1>2. /\ offer' = [offer EXCEPT ![request[q].ride][request[q].driver].status = "ACCEPTED"]
      /\ UNCHANGED <<screen, notices, worker>>
  BY DEF RideAccepted, AcceptCommit
<1>3. ASSUME NEW r \in Rides, NEW d \in Drivers PROVE OfferIsShown(r, d)' /\ ShownIsOffered(r, d)'
  <2>1. offer'[r][d] = offer[r][d] \/ offer'[r][d].status = "ACCEPTED"
    <3>1. CASE r = request[q].ride /\ d = request[q].driver
      BY <1>1, <1>2, <3>1 DEF OfferRow
    <3>2. CASE ~(r = request[q].ride /\ d = request[q].driver)
      BY <1>1, <1>2, <3>2
    <3> QED
      BY <3>1, <3>2
  <2>2. OfferIsShown(r, d) /\ ShownIsOffered(r, d)
    BY DEF ScreensMatch
  <2> QED
    BY <1>2, <2>1, <2>2 DEF OfferIsShown, ShownIsOffered
<1> QED
  BY <1>3 DEF ScreensMatch

LEMMA ScreensStep ==
  ASSUME SearchTypeInv, RoomTypeOK, EveryoneIsOnline, NoticesInOrder, ScreenMatchesTable,
         [RoomNext]_allVars
  PROVE  ScreenMatchesTable'
<1> SUFFICES ASSUME Undisturbed', used'.disconnects = 0 PROVE ScreensMatch'
  BY ScreenParts
<1>1. Undisturbed /\ TypeOK /\ used.disconnects = 0
  BY TableSteps, MessageFaultKeeps, StaysSteady, FailuresStay
  DEF SearchTypeInv, WindowTypeInv, Undisturbed, Calmer
<1>2. ScreensMatch /\ online = Clients
  BY <1>1, ScreenParts DEF EveryoneIsOnline, Undisturbed, Steady
<1>3. CASE ScreensAside
  BY <1>2, <1>3 DEF ScreensAside, ScreensMatch, OfferIsShown, ShownIsOffered
<1>4. CASE SearchResumed
  BY <1>2, <1>4 DEF SearchResumed, ResumeMatching, rows, roomVars, ScreensMatch, OfferIsShown,
     ShownIsOffered
<1> QED
  BY <1>1, <1>2, <1>3, <1>4, ScreenSteps, WriteOfferScreens, OfferSentScreens, OfferExpiredScreens,
     NotifyOfferScreens, RideAcceptedScreens

-----------------------------------------------------------------------------
\* The inductive invariant: that of the tables, the types, the properties and RoomInv.
RoomTypeInv ==
  /\ SearchTypeInv /\ RoomTypeOK /\ RoomInv
  /\ OnlyPartiesInRoom /\ ShownWasStored /\ ScreenMatchesTable

LEMMA InitRoom == RoomInit => RoomTypeInv
<1> SUFFICES ASSUME RoomInit PROVE RoomTypeInv
  OBVIOUS
<1>1. Init => SearchTypeInv
  BY InitWindow, InitAssignmentInv, InitSearch DEF SearchTypeInv
<1>2. SearchTypeInv /\ RoomTypeOK
  BY <1>1, InitRoomTypeOK DEF RoomInit
<1>3. \A r \in Rides : ride[r].driver = None
  BY DEF RoomInit, Init
<1>4. PartiesAreKnown
  BY <1>3 DEF PartiesAreKnown, RoomInit, IdleMessage
<1>5. OnlyPartiesInRoom /\ ShownWasStored
  BY DEF OnlyPartiesInRoom, ShownWasStored, RoomInit
<1>6. EveryoneIsOnline /\ AcceptsAreAnnounced
  BY <1>3 DEF EveryoneIsOnline, AcceptsAreAnnounced, RoomInit
<1>7. NoticesInOrder /\ ScreenMatchesTable
  BY DEF NoticesInOrder, ScreenMatchesTable, RoomInit, Init
<1> QED
  BY <1>2, <1>4, <1>5, <1>6, <1>7 DEF RoomTypeInv, RoomInv

LEMMA RoomStep == RoomTypeInv /\ [RoomNext]_allVars => RoomTypeInv'
<1> SUFFICES ASSUME RoomTypeInv, [RoomNext]_allVars PROVE RoomTypeInv'
  OBVIOUS
<1>1. /\ SearchTypeInv /\ RoomTypeOK /\ RoomInv
      /\ OnlyPartiesInRoom /\ ShownWasStored /\ ScreenMatchesTable
  BY DEF RoomTypeInv
<1>2. SearchTypeInv' /\ RoomTypeOK'
  BY <1>1, TableStep, RoomTypeStep
<1>3. PartiesAreKnown'
  BY <1>1, PartiesStep DEF RoomInv
<1>4. OnlyPartiesInRoom' /\ ShownWasStored'
  <2>1. \A p \in member' : p[1] = RiderOf[p[2]] \/ p[1] \in drove'[p[2]]
    BY <1>1, MembersStep DEF RoomInv
  <2>2. \A r \in Rides : shown'[r] # NoPlace =>
          shown'[r].driver \in drove'[r] /\ <<shown'[r].driver, shown'[r].place>> \in stored'
    BY <1>1, ShownStep DEF RoomInv
  <2> QED
    BY <2>1, <2>2 DEF OnlyPartiesInRoom, ShownWasStored, NoPlace
<1>5. EveryoneIsOnline' /\ AcceptsAreAnnounced'
  BY <1>1, OnlineStep, AnnouncedStep DEF RoomInv
<1>6. NoticesInOrder' /\ ScreenMatchesTable'
  BY <1>1, NoticesStep, ScreensStep DEF RoomInv
<1> QED
  BY <1>2, <1>3, <1>4, <1>5, <1>6 DEF RoomTypeInv, RoomInv

LEMMA RoomTypeInvariant == RoomSpec => []RoomTypeInv
  BY InitRoom, RoomStep, PTL DEF RoomSpec

\* Every connection, room, message, event and place told is one the gateway can
\* hold, and a socket that has closed is in no room and will not be put into one.
THEOREM RoomTypeTheorem == RoomSpec => []RoomTypeOK
<1>1. RoomTypeInv => RoomTypeOK
  BY DEF RoomTypeInv
<1> QED
  BY <1>1, RoomTypeInvariant, PTL

\* A message to a ride's room is from a party of the ride, a location about to be told
\* is stored, a driver not yet announced has an accept of his own in progress, and the
\* worker waits for the event of the offer it has made EXPIRED.
THEOREM RoomTheorem == RoomSpec => []RoomInv
<1>1. RoomTypeInv => RoomInv
  BY DEF RoomTypeInv
<1> QED
  BY <1>1, RoomTypeInvariant, PTL

\* Only the user of a ride and drivers who have had it are in its room or tell it
\* a location, although the ride is read before the socket joins.
THEOREM OnlyPartiesTheorem == RoomSpec => []OnlyPartiesInRoom
<1>1. RoomTypeInv => OnlyPartiesInRoom
  BY DEF RoomTypeInv
<1> QED
  BY <1>1, RoomTypeInvariant, PTL

\* No room is told a location that was not stored.
THEOREM ShownWasStoredTheorem == RoomSpec => []ShownWasStored
<1>1. RoomTypeInv => ShownWasStored
  BY DEF RoomTypeInv
<1> QED
  BY <1>1, RoomTypeInvariant, PTL

\* Once the accepts of a ride are over, its user has been told of the driver it has,
\* unless something failed or a connection was lost.
THEOREM DriverIsAnnouncedTheorem == RoomSpec => []DriverIsAnnounced
<1>1. RoomTypeInv => DriverIsAnnounced
  BY DEF RoomTypeInv, RoomInv, AcceptsAreAnnounced, DriverIsAnnounced
<1> QED
  BY <1>1, RoomTypeInvariant, PTL

\* While nothing disturbs the search, the drivers' screens and the table of offers
\* tell the same, but for the event that is on its way.
THEOREM ScreenMatchesTheorem == RoomSpec => []ScreenMatchesTable
<1>1. RoomTypeInv => ScreenMatchesTable
  BY DEF RoomTypeInv
<1> QED
  BY <1>1, RoomTypeInvariant, PTL
=============================================================================
