----------------------------- MODULE OfferAnswers -----------------------------
(***************************************************************************)
(* What the answers to ride offers come to, whoever gives them and at      *)
(* whatever time: an offer is open until it is closed or won, at most one  *)
(* offer of a ride is ever won, and the driver of a ride is the one who    *)
(* won it.                                                                 *)
(***************************************************************************)
CONSTANTS Rides, Drivers, None

VARIABLES answer, assigned

Init ==
  /\ answer = [r \in Rides |-> [d \in Drivers |-> "closed"]]
  /\ assigned = [r \in Rides |-> None]

Offer(r, d) ==
  /\ answer[r][d] = "closed"
  /\ answer' = [answer EXCEPT ![r][d] = "open"]
  /\ UNCHANGED assigned

Close(r, d) ==
  /\ answer[r][d] = "open"
  /\ answer' = [answer EXCEPT ![r][d] = "closed"]
  /\ UNCHANGED assigned

Win(r, d) ==
  /\ answer[r][d] = "open"
  /\ assigned[r] = None
  /\ answer' = [answer EXCEPT ![r][d] = "won"]
  /\ assigned' = [assigned EXCEPT ![r] = d]

Next == \E r \in Rides, d \in Drivers : Offer(r, d) \/ Close(r, d) \/ Win(r, d)

Spec == Init /\ [][Next]_<<answer, assigned>>
=============================================================================
