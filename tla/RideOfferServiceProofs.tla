------------------------ MODULE RideOfferServiceProofs ------------------------
(***************************************************************************)
(* Theorems about RideOfferService, for any rides and drivers, any number  *)
(* of calls of acceptOffer at once, and any timing: it implements          *)
(* OfferAnswers.                                                           *)
(***************************************************************************)
EXTENDS RideOfferService, TLAPS

LEMMA TypeInit == Init => TypeOK
  BY TimingAssumption DEF Init, TypeOK, Time, Null, RideRow, OfferRow,
     RideStatuses, OfferStatuses, NotCreating, NoCall

LEMMA TypeStep == TypeOK /\ [Next]_vars => TypeOK'
<1> SUFFICES ASSUME TypeOK, [Next]_vars PROVE TypeOK'
  OBVIOUS
<1> USE NoneAssumption, TimingAssumption
    DEF TypeOK, Time, RideRow, OfferRow, RideStatuses, OfferStatuses
<1>1. CASE Tick
  BY <1>1 DEF Tick
<1>2. ASSUME NEW r \in Rides, SearchWindow(r) PROVE TypeOK'
  <2>1. now + Window \in Time
    BY <1>2 DEF SearchWindow
  <2>2. ride[r] \in RideRow
    OBVIOUS
  <2> DEFINE new == IF ride[r].status = "none"
                    THEN [status |-> "searching", driver |-> None, expires |-> now + Window]
                    ELSE [ride[r] EXCEPT !.expires = now + Window]
  <2>3. new \in RideRow
    BY <2>1, <2>2
  <2>4. ride' = [ride EXCEPT ![r] = new]
    BY <1>2 DEF SearchWindow
  <2> HIDE DEF new
  <2>5. ride' \in [Rides -> RideRow]
    BY <2>3, <2>4
  <2> QED
    BY <1>2, <2>5 DEF SearchWindow
<1>3. ASSUME NEW r \in Rides, NEW d \in Drivers, CreateOffer(r, d) PROVE TypeOK'
  <2>1. PlanFor(offer[r][d]) \in {"insert", "retry", "stale"}
    BY <1>3 DEF CreateOffer, PlanFor
  <2>2. ride[r].expires \in Time
    BY <1>3 DEF CreateOffer, Null
  <2>3. creating' \in Creating
    BY <1>3, <2>1, <2>2 DEF CreateOffer, Creating
  <2> QED
    BY <1>3, <2>3 DEF CreateOffer
<1>4. CASE WriteOffer
  <2>1. creating \in Creating
    BY <1>4 DEF WriteOffer, NotCreating
  <2> QED
    BY <1>4, <2>1 DEF WriteOffer, Creating
<1>5. CASE WriteStaleOffer
  <2>1. creating \in Creating
    BY <1>5 DEF WriteStaleOffer, NotCreating
  <2> QED
    BY <1>5, <2>1 DEF WriteStaleOffer, Creating
<1>6. CASE CreateFails
  BY <1>6 DEF CreateFails
<1>7. ASSUME NEW r \in Rides, NEW d \in Drivers, ExpireOffer(r, d) PROVE TypeOK'
  BY <1>7 DEF ExpireOffer
<1>8. ASSUME NEW r \in Rides, NEW d \in Drivers, RejectOffer(r, d) PROVE TypeOK'
  BY <1>8 DEF RejectOffer
<1>9. ASSUME NEW k \in Calls, NEW r \in Rides, NEW d \in Drivers, AcceptOffer(k, r, d)
      PROVE TypeOK'
  BY <1>9 DEF AcceptOffer, Call
<1>10. ASSUME NEW k \in Calls, AcceptLock(k) PROVE TypeOK'
  <2>1. call[k] \in Call
    BY <1>10 DEF AcceptLock, NoCall
  <2>2. CASE StillSearched(k)
    <3>1. [call[k] EXCEPT !.step = "locked"] \in Call
      BY <2>1 DEF Call
    <3>2. call' = [call EXCEPT ![k] = [call[k] EXCEPT !.step = "locked"]]
      BY <1>10, <2>2 DEF AcceptLock
    <3>5. lock' = [lock EXCEPT ![call[k].ride] = k]
      BY <1>10, <2>2 DEF AcceptLock
    <3>3. lock' \in [Rides -> Calls \union {None}]
      BY <3>5, <2>1 DEF Call
    <3>4. call' \in [Calls -> Call \union {NoCall}]
      BY <3>1, <3>2
    <3> QED
      BY <1>10, <3>3, <3>4 DEF AcceptLock
  <2>3. CASE ~StillSearched(k)
    BY <1>10, <2>1, <2>3 DEF AcceptLock, Call
  <2> QED
    BY <2>2, <2>3
<1>11. ASSUME NEW k \in Calls, AcceptCommit(k) PROVE TypeOK'
  <2>1. call[k] \in Call
    BY <1>11 DEF AcceptCommit, NoCall
  <2> QED
    <3> DEFINE r == call[k].ride
               d == call[k].driver
    <3>1. r \in Rides /\ d \in Drivers
      BY <2>1 DEF Call
    <3>2. /\ lock' \in [Rides -> Calls \union {None}]
          /\ call' \in [Calls -> Call \union {NoCall}]
      BY <1>11 DEF AcceptCommit, Unlock
    <3>3. CASE offer[r][d].status = "PENDING" /\ call[k].at < offer[r][d].expires
      <4>1. /\ offer' = [offer EXCEPT ![r][d].status = "ACCEPTED"]
            /\ ride' = [ride EXCEPT ![r].status = "accepted", ![r].driver = d]
        BY <1>11, <3>3 DEF AcceptCommit
      <4>2. ride' \in [Rides -> RideRow] /\ offer' \in [Rides -> [Drivers -> OfferRow]]
        BY <3>1, <4>1
      <4> QED
        BY <1>11, <3>2, <4>2 DEF AcceptCommit
    <3>4. CASE ~(offer[r][d].status = "PENDING" /\ call[k].at < offer[r][d].expires)
      BY <1>11, <3>2, <3>4 DEF AcceptCommit
    <3> QED
      BY <3>3, <3>4
<1>12. ASSUME NEW k \in Calls, AcceptFails(k) PROVE TypeOK'
  BY <1>12 DEF AcceptFails, Unlock
<1>13. CASE UNCHANGED vars
  BY <1>13 DEF vars
<1> QED
  BY <1>1, <1>2, <1>3, <1>4, <1>5, <1>6, <1>7, <1>8, <1>9, <1>10, <1>11, <1>12, <1>13 DEF Next

\* Rows and calls are well-formed.
THEOREM TypeCorrect == Spec => []TypeOK
  BY TypeInit, TypeStep, PTL DEF Spec

-----------------------------------------------------------------------------
LEMMA OfferInit == Init => OfferInv
  BY NoneAssumption DEF Init, OfferInv, LockHeld, LockedIsOpen, PlanHolds, OpenHasNoDriver,
     AcceptedIsAssigned, NotCreating, NoCall

\* What the invariants need of the types.
LEMMA Shapes ==
  ASSUME TypeOK
  PROVE  /\ ride \in [Rides -> RideRow]
         /\ offer \in [Rides -> [Drivers -> OfferRow]]
         /\ lock \in [Rides -> Calls \union {None}]
         /\ \A k \in Calls : call[k].step \in {"begin", "locked"} =>
              call[k].ride \in Rides /\ call[k].driver \in Drivers
         /\ call = [k \in Calls |-> call[k]]
         /\ creating.plan \in {"none", "insert", "retry", "stale"}
         /\ creating.plan # "none" => creating.ride \in Rides /\ creating.driver \in Drivers
  BY DEF TypeOK, Call, NoCall, Creating, NotCreating

LEMMA OfferStep == TypeOK /\ OfferInv /\ [Next]_vars => OfferInv'
<1> SUFFICES ASSUME TypeOK, OfferInv, [Next]_vars PROVE OfferInv'
  OBVIOUS
<1> USE NoneAssumption, Shapes
    DEF OfferInv, LockHeld, LockedIsOpen, PlanHolds, OpenHasNoDriver, AcceptedIsAssigned,
        Open, RideRow, OfferRow, NotCreating, NoCall
<1>1. CASE Tick
  BY <1>1 DEF Tick
<1>2. ASSUME NEW r \in Rides, SearchWindow(r) PROVE OfferInv'
  BY <1>2 DEF SearchWindow
<1>3. ASSUME NEW r \in Rides, NEW d \in Drivers, CreateOffer(r, d) PROVE OfferInv'
  BY <1>3 DEF CreateOffer, PlanFor
<1>4. CASE WriteOffer
  BY <1>4 DEF WriteOffer
<1>5. CASE WriteStaleOffer
  BY <1>5 DEF WriteStaleOffer
<1>6. CASE CreateFails
  BY <1>6 DEF CreateFails
<1>7. ASSUME NEW r \in Rides, NEW d \in Drivers, ExpireOffer(r, d) PROVE OfferInv'
  BY <1>7 DEF ExpireOffer
<1>8. ASSUME NEW r \in Rides, NEW d \in Drivers, RejectOffer(r, d) PROVE OfferInv'
  BY <1>8 DEF RejectOffer
<1>9. ASSUME NEW k \in Calls, NEW r \in Rides, NEW d \in Drivers, AcceptOffer(k, r, d)
      PROVE OfferInv'
  BY <1>9 DEF AcceptOffer
<1>10. ASSUME NEW k \in Calls, AcceptLock(k) PROVE OfferInv'
  <2>1. CASE StillSearched(k)
    <3>1. /\ lock' = [lock EXCEPT ![call[k].ride] = k]
          /\ call' = [call EXCEPT ![k].step = "locked"]
          /\ lock[call[k].ride] = None /\ call[k].step = "begin"
          /\ UNCHANGED <<ride, offer, creating>>
      BY <1>10, <2>1 DEF AcceptLock
    <3>2. \A j \in Calls : call'[j].step = IF j = k THEN "locked" ELSE call[j].step
      BY <3>1
    <3>3. \A j \in Calls : call'[j].ride = call[j].ride
      BY <3>1
    <3>4. Open(call[k].ride) /\ call[k].ride \in Rides
      BY <2>1, <3>1 DEF StillSearched
    <3>5. LockHeld'
      <4> SUFFICES ASSUME NEW j \in Calls, call'[j].step = "locked"
                   PROVE  lock'[call[j].ride] = j
        BY <3>3
      <4>1. CASE j = k
        BY <4>1, <3>1, <3>4
      <4>2. CASE j # k
        <5>1. lock[call[j].ride] = j /\ j # None
          BY <4>2, <3>2
        <5> QED
          BY <5>1, <3>1
      <4> QED
        BY <4>1, <4>2
    <3>6. LockedIsOpen'
      BY <3>1, <3>2, <3>3, <3>4
    <3> QED
      BY <3>1, <3>5, <3>6
  <2>2. CASE ~StillSearched(k)
    <3>1. /\ \A j \in Calls : j # k => call'[j] = call[j]
          /\ call'[k].step = "idle"
          /\ UNCHANGED <<lock, ride, offer, creating>>
      BY <1>10, <2>2 DEF AcceptLock
    <3>2. \A j \in Calls : call'[j].step = "locked" =>
             call[j].step = "locked" /\ call'[j].ride = call[j].ride
      BY <3>1
    <3>3. LockHeld'
      BY <3>1, <3>2
    <3>4. LockedIsOpen'
      BY <3>1, <3>2
    <3>5. PlanHolds' /\ OpenHasNoDriver' /\ AcceptedIsAssigned'
      BY <3>1
    <3> QED
      BY <3>3, <3>4, <3>5
  <2> QED
    BY <2>1, <2>2
<1>11. ASSUME NEW k \in Calls, AcceptCommit(k) PROVE OfferInv'
  <2> DEFINE r == call[k].ride
             d == call[k].driver
  <2>1. /\ r \in Rides /\ d \in Drivers
        /\ lock[r] = k /\ Open(r)
        /\ \A e \in Drivers : offer[r][e].status # "ACCEPTED"
    BY <1>11 DEF AcceptCommit
  <2>2. /\ lock' = [q \in Rides |-> IF lock[q] = k THEN None ELSE lock[q]]
        /\ \A j \in Calls : j # k => call'[j] = call[j]
        /\ call'[k].step = "idle"
        /\ creating' = creating
    BY <1>11 DEF AcceptCommit, Unlock
  <2>3. LockHeld'
    BY <2>2
  <2>4. CASE offer[r][d].status = "PENDING" /\ call[k].at < offer[r][d].expires
    <3>1. /\ offer' = [offer EXCEPT ![r][d].status = "ACCEPTED"]
          /\ ride' = [ride EXCEPT ![r].status = "accepted", ![r].driver = d]
      BY <1>11, <2>4 DEF AcceptCommit
    <3> HIDE DEF r, d
    <3>2. /\ \A q \in Rides : q # r => ride'[q] = ride[q]
          /\ ride'[r].status = "accepted" /\ ride'[r].driver = d
      BY <2>1, <3>1
    <3>3. \A q \in Rides, e \in Drivers :
            offer'[q][e].status = IF q = r /\ e = d THEN "ACCEPTED" ELSE offer[q][e].status
      BY <2>1, <3>1
    <3>4. \A j \in Calls : j # k /\ call[j].step = "locked" => call[j].ride # r
      BY <2>1
    <3>5. LockedIsOpen'
      <4> SUFFICES ASSUME NEW j \in Calls, call'[j].step = "locked"
                   PROVE  ride'[call'[j].ride].status = "searching" /\ ride'[call'[j].ride].driver = None
        OBVIOUS
      <4>1. j # k /\ call'[j] = call[j]
        BY <2>2
      <4>2. call[j].ride \in Rides /\ call[j].ride # r /\ Open(call[j].ride)
        BY <3>4, <4>1
      <4>3. ride'[call[j].ride] = ride[call[j].ride]
        BY <3>2, <4>2
      <4> QED
        BY <4>1, <4>2, <4>3
    <3>6. PlanHolds'
      <4> SUFFICES ASSUME creating.plan \in {"insert", "retry"}
                   PROVE  offer'[creating.ride][creating.driver].status
                            \in {"none", "EXPIRED", "REJECTED"}
        BY <2>2
      <4>1. /\ creating.ride \in Rides /\ creating.driver \in Drivers
            /\ offer[creating.ride][creating.driver].status \in {"none", "EXPIRED", "REJECTED"}
        OBVIOUS
      <4>2. ~(creating.ride = r /\ creating.driver = d)
        BY <2>4, <4>1
      <4> QED
        BY <3>3, <4>1, <4>2
    <3>7. OpenHasNoDriver'
      <4> SUFFICES ASSUME NEW q \in Rides
                   PROVE  ride'[q].status = "accepted" <=> ride'[q].driver # None
        OBVIOUS
      <4>1. CASE q = r
        BY <2>1, <3>2, <4>1
      <4>2. CASE q # r
        BY <3>2, <4>2
      <4> QED
        BY <4>1, <4>2
    <3>8. AcceptedIsAssigned'
      <4> SUFFICES ASSUME NEW q \in Rides, NEW e \in Drivers
                   PROVE  offer'[q][e].status = "ACCEPTED" <=> ride'[q].driver = e
        OBVIOUS
      <4>1. CASE q = r
        BY <2>1, <3>2, <3>3, <4>1
      <4>2. CASE q # r
        BY <3>2, <3>3, <4>2
      <4> QED
        BY <4>1, <4>2
    <3> QED
      BY <2>3, <3>5, <3>6, <3>7, <3>8
  <2>5. CASE ~(offer[r][d].status = "PENDING" /\ call[k].at < offer[r][d].expires)
    <3>1. UNCHANGED <<offer, ride>>
      BY <1>11, <2>5 DEF AcceptCommit
    <3>2. LockedIsOpen'
      BY <2>2, <3>1
    <3> QED
      BY <2>2, <2>3, <3>1, <3>2
  <2> QED
    BY <2>4, <2>5
<1>12. ASSUME NEW k \in Calls, AcceptFails(k) PROVE OfferInv'
  BY <1>12 DEF AcceptFails, Unlock
<1>13. CASE UNCHANGED vars
  BY <1>13 DEF vars
<1> QED
  BY <1>1, <1>2, <1>3, <1>4, <1>5, <1>6, <1>7, <1>8, <1>9, <1>10, <1>11, <1>12, <1>13 DEF Next

\* Calls that passed their checks hold the locks, and an offer is ACCEPTED exactly
\* when its driver is the driver of the ride.
THEOREM OfferInvariant == Spec => []OfferInv
  BY TypeInit, TypeStep, OfferInit, OfferStep, PTL DEF Spec

\* An offer is ACCEPTED exactly when its driver is the driver of the ride.
THEOREM AcceptedTheorem == Spec => []AcceptedIsAssigned
<1>1. OfferInv => AcceptedIsAssigned
  BY DEF OfferInv
<1> QED
  BY <1>1, OfferInvariant, PTL

-----------------------------------------------------------------------------
\* The offers and the drivers of rides as OfferAnswers sees them.
Answer == [r \in Rides |-> [d \in Drivers |->
             CASE offer[r][d].status = "PENDING"  -> "open"
               [] offer[r][d].status = "ACCEPTED" -> "won"
               [] OTHER -> "closed"]]

Assigned == [r \in Rides |-> ride[r].driver]

\* Steps that leave the offers' kinds and the drivers alone are stutters.
Stutters ==
  /\ \A r \in Rides, d \in Drivers : offer'[r][d].status = offer[r][d].status
  /\ \A r \in Rides : ride'[r].driver = ride[r].driver

LEMMA StutterStep == Stutters => UNCHANGED <<Answer, Assigned>>
  BY DEF Stutters, Answer, Assigned

\* A step that changes the status of one offer changes one answer.
LEMMA OneAnswer ==
  ASSUME NEW r \in Rides, NEW d \in Drivers, NEW new,
         \A q \in Rides, e \in Drivers :
           offer'[q][e].status = IF q = r /\ e = d THEN new ELSE offer[q][e].status
  PROVE  /\ new = "PENDING" => Answer' = [Answer EXCEPT ![r][d] = "open"]
         /\ new = "ACCEPTED" => Answer' = [Answer EXCEPT ![r][d] = "won"]
         /\ new \in {"REJECTED", "EXPIRED"} => Answer' = [Answer EXCEPT ![r][d] = "closed"]
<1> DEFINE Set(a) == [q \in Rides |-> [e \in Drivers |->
                        IF q = r /\ e = d THEN a ELSE Answer[q][e]]]
<1>1. Answer' = Set(CASE new = "PENDING"  -> "open"
                      [] new = "ACCEPTED" -> "won"
                      [] OTHER -> "closed")
  BY DEF Answer
<1>2. \A a : [Answer EXCEPT ![r][d] = a] = Set(a)
  BY DEF Answer
<1> HIDE DEF Set
<1>3. new = "PENDING" => Answer' = Set("open")
  BY <1>1
<1>4. new = "ACCEPTED" => Answer' = Set("won")
  BY <1>1
<1>5. new \in {"REJECTED", "EXPIRED"} => Answer' = Set("closed")
  BY <1>1
<1> QED
  BY <1>2, <1>3, <1>4, <1>5

LEMMA AnswersInit == Init => Answers!Init
  BY DEF Init, Answers!Init

LEMMA AnswersStep ==
  ASSUME TypeOK, OfferInv, [Next]_vars
  PROVE  [Answers!Next]_<<Answer, Assigned>>
<1> USE Shapes DEF RideRow, OfferRow
<1>1. ASSUME NEW r \in Rides, SearchWindow(r) PROVE Stutters
  BY <1>1 DEF SearchWindow, Stutters, OfferInv, OpenHasNoDriver
<1>2. CASE \/ Tick \/ CreateFails \/ UNCHANGED vars
           \/ \E r \in Rides, d \in Drivers : CreateOffer(r, d)
           \/ \E k \in Calls, r \in Rides, d \in Drivers : AcceptOffer(k, r, d)
           \/ \E k \in Calls : AcceptLock(k) \/ AcceptFails(k)
  <2>1. UNCHANGED <<offer, ride>>
    BY <1>2 DEF Tick, CreateFails, vars, CreateOffer, AcceptOffer, AcceptLock, AcceptFails
  <2> QED
    BY <2>1, StutterStep DEF Stutters
<1>3. CASE WriteOffer
  <2>0. PICK r \in Rides, d \in Drivers : r = creating.ride /\ d = creating.driver
    BY <1>3 DEF WriteOffer
  <2>1. /\ offer' = [offer EXCEPT ![r][d] = [status |-> "PENDING", expires |-> creating.final]]
        /\ ride' = ride
        /\ offer[r][d].status \in {"none", "EXPIRED", "REJECTED"}
    BY <1>3, <2>0 DEF WriteOffer, OfferInv, PlanHolds
  <2>2. \A q \in Rides, e \in Drivers :
          offer'[q][e].status = IF q = r /\ e = d THEN "PENDING" ELSE offer[q][e].status
    BY <2>1
  <2>3. Answer' = [Answer EXCEPT ![r][d] = "open"]
    BY <2>1, <2>2, OneAnswer
  <2>4. Answer[r][d] = "closed" /\ Assigned' = Assigned
    BY <2>1 DEF Answer, Assigned
  <2>5. Answers!Offer(r, d)
    BY <2>3, <2>4 DEF Answers!Offer, Answer, Assigned
  <2> QED
    BY <2>1, <2>5 DEF Answers!Next
<1>4. ASSUME NEW r \in Rides, NEW d \in Drivers, NEW new \in {"REJECTED", "EXPIRED"},
             offer[r][d].status = "PENDING",
             \A q \in Rides, e \in Drivers :
               offer'[q][e].status = IF q = r /\ e = d THEN new ELSE offer[q][e].status,
             ride' = ride
      PROVE  Answers!Next
  <2>1. Answer' = [Answer EXCEPT ![r][d] = "closed"]
    BY <1>4, OneAnswer
  <2>2. Answer[r][d] = "open" /\ Assigned' = Assigned
    BY <1>4 DEF Answer, Assigned
  <2>3. Answers!Close(r, d)
    BY <2>1, <2>2 DEF Answers!Close, Answer, Assigned
  <2> QED
    BY <2>3 DEF Answers!Next
<1>5. ASSUME NEW r \in Rides, NEW d \in Drivers, ExpireOffer(r, d) PROVE Answers!Next
  <2>1. \A q \in Rides, e \in Drivers :
          offer'[q][e].status = IF q = r /\ e = d THEN "EXPIRED" ELSE offer[q][e].status
    BY <1>5 DEF ExpireOffer
  <2> QED
    BY <1>4, <1>5, <2>1 DEF ExpireOffer
<1>6. ASSUME NEW r \in Rides, NEW d \in Drivers, RejectOffer(r, d) PROVE Answers!Next
  <2>1. \A q \in Rides, e \in Drivers :
          offer'[q][e].status = IF q = r /\ e = d THEN "REJECTED" ELSE offer[q][e].status
    BY <1>6 DEF RejectOffer
  <2> QED
    BY <1>4, <1>6, <2>1 DEF RejectOffer
<1>7. CASE WriteStaleOffer
  <2> DEFINE r == creating.ride
             d == creating.driver
  <2>1. r \in Rides /\ d \in Drivers /\ ride' = ride
    BY <1>7 DEF WriteStaleOffer
  <2>2. CASE offer[r][d].status = "PENDING"
    <3>1. offer' = [offer EXCEPT ![r][d] = [status |-> "EXPIRED", expires |-> creating.final]]
      BY <1>7, <2>2 DEF WriteStaleOffer
    <3> HIDE DEF r, d
    <3>2. \A q \in Rides, e \in Drivers :
            offer'[q][e].status = IF q = r /\ e = d THEN "EXPIRED" ELSE offer[q][e].status
      BY <2>1, <3>1
    <3> QED
      BY <1>4, <2>1, <2>2, <3>2
  <2>3. CASE offer[r][d].status # "PENDING"
    <3>1. offer' = offer
      BY <1>7, <2>3 DEF WriteStaleOffer
    <3> QED
      BY <2>1, <3>1, StutterStep DEF Stutters
  <2> QED
    BY <2>2, <2>3
<1>8. ASSUME NEW k \in Calls, AcceptCommit(k) PROVE Answers!Next \/ Stutters
  <2>0. PICK r \in Rides, d \in Drivers : r = call[k].ride /\ d = call[k].driver
    BY <1>8 DEF AcceptCommit
  <2>1. ride[r].driver = None
    BY <1>8, <2>0 DEF AcceptCommit, OfferInv, LockedIsOpen, Open
  <2>2. CASE offer[r][d].status = "PENDING" /\ call[k].at < offer[r][d].expires
    <3>1. /\ offer' = [offer EXCEPT ![r][d].status = "ACCEPTED"]
          /\ ride' = [ride EXCEPT ![r].status = "accepted", ![r].driver = d]
          /\ offer[r][d].status = "PENDING"
      BY <1>8, <2>0, <2>2 DEF AcceptCommit
    <3>2. \A q \in Rides, e \in Drivers :
            offer'[q][e].status = IF q = r /\ e = d THEN "ACCEPTED" ELSE offer[q][e].status
      BY <2>1, <3>1
    <3>3. Answer' = [Answer EXCEPT ![r][d] = "won"]
      BY <2>1, <3>2, OneAnswer
    <3>4. Assigned' = [Assigned EXCEPT ![r] = d]
      BY <2>1, <3>1 DEF Assigned
    <3>5. Answer[r][d] = "open" /\ Assigned[r] = None
      BY <2>1, <3>1 DEF Answer, Assigned
    <3>6. Answers!Win(r, d)
      BY <3>3, <3>4, <3>5 DEF Answers!Win, Answer, Assigned
    <3> QED
      BY <2>1, <3>6 DEF Answers!Next
  <2>3. CASE ~(offer[r][d].status = "PENDING" /\ call[k].at < offer[r][d].expires)
    <3>1. UNCHANGED <<offer, ride>>
      BY <1>8, <2>0, <2>3 DEF AcceptCommit
    <3> QED
      BY <3>1 DEF Stutters
  <2> QED
    BY <2>2, <2>3
<1> QED
  BY <1>1, <1>2, <1>3, <1>5, <1>6, <1>7, <1>8, StutterStep DEF Next

\* The service implements OfferAnswers: an offer is open, closed or won, one offer of
\* a ride is won at most, for good, and the ride has its driver.
THEOREM RefinementTheorem == Spec => ImplementsOfferAnswers
<1>1. Init => Answers!Init
  BY AnswersInit
<1>2. TypeOK /\ OfferInv /\ [Next]_vars => [Answers!Next]_<<Answer, Assigned>>
  BY AnswersStep
<1> QED
  BY <1>1, <1>2, TypeCorrect, OfferInvariant, PTL
     DEF Spec, ImplementsOfferAnswers, Answers!Spec, Answer, Assigned
=============================================================================
