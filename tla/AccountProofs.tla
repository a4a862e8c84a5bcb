---------------------------- MODULE AccountProofs ----------------------------
(***************************************************************************)
(* Theorems about what an account has: its second factor, its phone and    *)
(* its tokens, for any accounts, phones, sessions and request slots, any   *)
(* times to live and any bounds.                                           *)
(***************************************************************************)
EXTENDS AuthProofs

(***************************************************************************)
(* How a request moves on: r is what it was, n what it has become.         *)
(***************************************************************************)
Carried(r, n) ==
  /\ n.account = r.account /\ n.phone = r.phone /\ n.action = r.action
  /\ n.challenge = r.challenge /\ n.secured = r.secured

Begun(n) == ~n.secured /\ ~n.challenge
WorksOn(n) == n.action \in DOMAIN actions /\ actions[n.action].phone = n.phone

MovedInRegistration(r, n) ==
  \/ n.step = "registrationOtp" /\ Begun(n) /\ WorksOn(n)
  \/ /\ r.step = "registrationOtp" /\ n.step = "registrationCheck" /\ Carried(r, n)
     /\ VerifyOtp(n.otp, r.phone, "REGISTRATION")
  \/ r.step = "registrationCheck" /\ n.step = "saveAccount" /\ Carried(r, n) /\ n.otp = r.otp
  \/ /\ r.step = "saveAccount" /\ n.step = "openSession"
     /\ n.challenge = r.challenge /\ n.secured = r.secured

MovedInLogin(r, n) ==
  \/ /\ r.step = "loginOtp" /\ n.step = "loginTwoFactor"
     /\ n.account = r.account /\ n.challenge = r.challenge
     /\ n.secured = (twoFactor[r.account] # NoSecret)
  \/ /\ r.step = "loginTwoFactor" /\ n.step = "openSession" /\ Carried(r, n)
     /\ twoFactor[r.account] = NoSecret
  \/ n.step = "challengeSave" /\ n.challenge /\ n.secured
  \/ r.step = "challengeSave" /\ n.step = "openSession" /\ Carried(r, n)
  \/ r.step \in {"openSession", "refreshSave"} /\ n.step = "answer" /\ Carried(r, n)

MovedInChange(r, n) ==
  \/ /\ n.step = "setupCheck" /\ Begun(n) /\ n.action \in DOMAIN actions
     /\ actions[n.action].account = n.account
  \/ r.step = "setupCheck" /\ n.step = "setupSave" /\ Carried(r, n)
  \/ /\ n.step = "changeOtp" /\ Begun(n) /\ WorksOn(n)
     /\ actions[n.action].account = n.account
  \/ /\ r.step = "changeOtp" /\ n.step = "changeCheck" /\ Carried(r, n)
     /\ VerifyOtp(n.otp, r.phone, "PHONE_CHANGE")
  \/ r.step = "changeCheck" /\ n.step = "changeSave" /\ Carried(r, n) /\ n.otp = r.otp

\* A refresh of the session that begins is the only one, or they are noted.
MayRotate(s) == s \in contested' \/ \A p \in Requests : ~Rotates(p, s)

Moved(r, n) ==
  \/ n = r
  \/ n = IdleRequest
  \/ /\ n.step \in {"sendRegistration", "sendLogin", "sendChange", "loginOtp", "logoutSave"}
     /\ Begun(n)
  \/ /\ r.step \in {"sendRegistration", "sendChange"}
     /\ n.step \in {"saveRegistration", "saveChange"} /\ Carried(r, n)
  \/ n.step = "refreshSign" /\ Begun(n) /\ MayRotate(n.sid)
  \/ r.step = "refreshSign" /\ n.step = "refreshSave" /\ Carried(r, n) /\ n.sid = r.sid
  \/ MovedInRegistration(r, n) \/ MovedInLogin(r, n) \/ MovedInChange(r, n)

\* One request moves, and the others stay what they are.
Moves(q) ==
  /\ Moved(request[q], request'[q])
  /\ \A p \in Requests : p # q => request'[p] = request[p]

LEMMA PlacedMoves ==
  ASSUME TypeOK, NEW q \in Requests, NEW n, request' = [request EXCEPT ![q] = n],
         Moved(request[q], n)
  PROVE  Moves(q)
<1>1. request'[q] = n /\ \A p \in Requests : p # q => request'[p] = request[p]
  BY DEF TypeOK, RequestsOK
<1> QED
  BY <1>1 DEF Moves

LEMMA EndMoves ==
  ASSUME TypeOK, NEW q \in Requests, End(q)
  PROVE  Moves(q)
<1>1. PICK n : n = IdleRequest
  OBVIOUS
<1> QED
  BY <1>1, PlacedMoves DEF End, Moved

\* A request that begins.
LEMMA BeginMoves ==
  ASSUME TypeOK, NEW q \in Requests, NEW n, Begin(q, n), Moved(request[q], n)
  PROVE  Moves(q)
  BY PlacedMoves DEF Begin

LEMMA StartMoves ==
  ASSUME TypeOK, NEW q \in Requests, RequestStart(q)
  PROVE  Moves(q)
<1> DEFINE First == {"sendRegistration", "sendLogin", "sendChange", "loginOtp", "logoutSave"}
<1>1. ASSUME NEW n, Begin(q, n), n.step \in First, ~n.secured, ~n.challenge
      PROVE  Moves(q)
  BY <1>1, BeginMoves DEF Moved, Begun
<1>2. ASSUME NEW p \in Phones, Register(q, p) PROVE Moves(q)
  <2>1. PICK n : n = [IdleRequest EXCEPT !.step = "sendRegistration", !.phone = p,
                                         !.created = now, !.otp = Len(otps) + 1]
    OBVIOUS
  <2>2. n.step = "sendRegistration" /\ ~n.secured /\ ~n.challenge
    BY <2>1 DEF IdleRequest
  <2> QED
    BY <1>1, <1>2, <2>1, <2>2 DEF Register
<1>3. ASSUME NEW p \in Phones, Login(q, p) PROVE Moves(q)
  <2>1. PICK n : n = [IdleRequest EXCEPT !.step = "sendLogin", !.otp = Len(otps) + 1]
    OBVIOUS
  <2>2. n.step = "sendLogin" /\ ~n.secured /\ ~n.challenge
    BY <2>1 DEF IdleRequest
  <2> QED
    BY <1>1, <1>3, <2>1, <2>2 DEF Login
<1>4. ASSUME NEW p \in Phones, NEW i \in DOMAIN actions, VerifyRegistration(q, p, i) PROVE Moves(q)
  <2>1. PICK n : n = [IdleRequest EXCEPT !.step = "registrationOtp", !.phone = p, !.action = i]
    OBVIOUS
  <2>2. n.step = "registrationOtp" /\ ~n.secured /\ ~n.challenge /\ n.action = i /\ n.phone = p
    BY <2>1 DEF IdleRequest
  <2>3. actions[i].phone = p
    BY <1>4 DEF VerifyRegistration, Newest, Registrations
  <2>4. Begin(q, n)
    BY <1>4, <2>1 DEF VerifyRegistration
  <2> QED
    BY <2>2, <2>3, <2>4, BeginMoves DEF Moved, MovedInRegistration, Begun, WorksOn
<1>5. ASSUME NEW a \in Accounts, VerifyLogin(q, a) PROVE Moves(q)
  <2>1. PICK n : n = [IdleRequest EXCEPT !.step = "loginOtp", !.account = a, !.phone = phone[a]]
    OBVIOUS
  <2>2. n.step = "loginOtp" /\ ~n.secured /\ ~n.challenge
    BY <2>1 DEF IdleRequest
  <2> QED
    BY <1>1, <1>5, <2>1, <2>2 DEF VerifyLogin
<1>6. ASSUME NEW a \in Accounts, EnableTwoFactor(q, a) PROVE Moves(q)
  BY <1>6 DEF EnableTwoFactor, Moves, Moved
<1>7. ASSUME NEW i \in DOMAIN actions, VerifyTwoFactor(q, i) PROVE Moves(q)
  <2>1. PICK n : n = [IdleRequest EXCEPT !.step = "challengeSave", !.account = actions[i].account,
                     !.phone = phone[actions[i].account], !.action = i, !.otp = actions[i].otp,
                     !.challenge = TRUE, !.secured = TRUE]
    OBVIOUS
  <2>2. n.step = "challengeSave" /\ n.challenge /\ n.secured
    BY <2>1 DEF IdleRequest
  <2>3. Begin(q, n)
    BY <1>7, <2>1 DEF VerifyTwoFactor
  <2> QED
    BY <2>2, <2>3, BeginMoves DEF Moved, MovedInLogin
<1>8. ASSUME NEW i \in DOMAIN actions, VerifyTwoFactorSetup(q, i) PROVE Moves(q)
  <2>1. PICK n : n = [IdleRequest EXCEPT !.step = "setupCheck", !.account = actions[i].account,
                        !.action = i]
    OBVIOUS
  <2>2. n.step = "setupCheck" /\ ~n.secured /\ ~n.challenge /\ n.action = i
        /\ n.account = actions[i].account
    BY <2>1 DEF IdleRequest
  <2>3. Begin(q, n)
    BY <1>8, <2>1 DEF VerifyTwoFactorSetup
  <2> QED
    BY <2>2, <2>3, BeginMoves DEF Moved, MovedInChange, Begun
<1>9. ASSUME NEW t \in refreshTokens, Refresh(q, t) PROVE Moves(q)
  <2>1. PICK n : n = [IdleRequest EXCEPT !.step = "refreshSign", !.sid = t.sid, !.created = t.iat,
                        !.account = session[t.sid].account, !.phone = phone[session[t.sid].account]]
    OBVIOUS
  <2>2. n.step = "refreshSign" /\ ~n.secured /\ ~n.challenge /\ n.sid = t.sid
    BY <2>1 DEF IdleRequest
  <2>3. Begin(q, n)
    BY <1>9, <2>1 DEF Refresh
  <2>4. MayRotate(n.sid)
    BY <1>9, <2>2 DEF Refresh, Contest, MayRotate
  <2> QED
    BY <2>2, <2>3, <2>4, BeginMoves DEF Moved, Begun
<1>10. ASSUME NEW s \in Sids, Logout(q, s) PROVE Moves(q)
  <2>1. PICK n : n = [IdleRequest EXCEPT !.step = "logoutSave", !.sid = s]
    OBVIOUS
  <2>2. n.step = "logoutSave" /\ ~n.secured /\ ~n.challenge
    BY <2>1 DEF IdleRequest
  <2> QED
    BY <1>1, <1>10, <2>1, <2>2 DEF Logout
<1>11. ASSUME NEW a \in Accounts, NEW p \in Phones, RequestPhoneChange(q, a, p) PROVE Moves(q)
  <2>1. PICK n : n = [IdleRequest EXCEPT !.step = "sendChange", !.account = a, !.phone = p,
                                  !.created = now, !.otp = Len(otps) + 1]
    OBVIOUS
  <2>2. n.step = "sendChange" /\ ~n.secured /\ ~n.challenge
    BY <2>1 DEF IdleRequest
  <2> QED
    BY <1>1, <1>11, <2>1, <2>2 DEF RequestPhoneChange
<1>12. ASSUME NEW a \in Accounts, NEW i \in DOMAIN actions, VerifyPhoneChange(q, a, i)
       PROVE  Moves(q)
  <2>1. PICK n : n = [IdleRequest EXCEPT !.step = "changeOtp", !.account = a, !.action = i,
                                  !.phone = actions[i].phone, !.from = phone[a]]
    OBVIOUS
  <2>2. /\ n.step = "changeOtp" /\ ~n.secured /\ ~n.challenge /\ n.action = i
        /\ n.account = a /\ n.phone = actions[i].phone
    BY <2>1 DEF IdleRequest
  <2>3. actions[i].account = a
    BY <1>12 DEF VerifyPhoneChange, UserChange, DriverChange, Newest, Changes
  <2>4. Begin(q, n)
    BY <1>12, <2>1 DEF VerifyPhoneChange
  <2> QED
    BY <2>2, <2>3, <2>4, BeginMoves DEF Moved, MovedInChange, Begun, WorksOn
<1> QED
  BY <1>2, <1>3, <1>4, <1>5, <1>6, <1>7, <1>8, <1>9, <1>10, <1>11, <1>12 DEF RequestStart

\* Steps that set the step of their request and nothing else of it.
LEMMA ContinueCarries ==
  ASSUME TypeOK, NEW q \in Requests, NEW st, Continue(q, st)
  PROVE  \E n : /\ request' = [request EXCEPT ![q] = n]
                /\ n.step = st /\ Carried(request[q], n) /\ n.otp = request[q].otp
                /\ n.sid = request[q].sid /\ n.token = request[q].token
<1>1. PICK r : r = request[q] /\ r \in Request
  BY RowTypes
<1>2. PICK n : n = [r EXCEPT !.step = st]
  OBVIOUS
<1>3. /\ n.step = st /\ Carried(r, n) /\ n.otp = r.otp
      /\ n.sid = r.sid /\ n.token = r.token
  BY <1>1, <1>2 DEF Request, Carried
<1>4. request' = [request EXCEPT ![q] = n]
  BY <1>1, <1>2 DEF Continue, TypeOK, RequestsOK
<1> QED
  BY <1>1, <1>3, <1>4

LEMMA StepMoves ==
  ASSUME TypeOK, NEW q \in Requests, RequestStep(q) \/ RequestFails(q)
  PROVE  Moves(q)
<1>0. PICK r : r = request[q] /\ r \in Request
  BY RowTypes
<1>d. DOMAIN request = Requests
  BY DEF TypeOK, RequestsOK
<1>1. End(q) => Moves(q)
  BY EndMoves
<1>2. ASSUME NEW st, Continue(q, st),
             \A n : n.step = st /\ Carried(r, n) /\ n.otp = r.otp => Moved(r, n)
      PROVE  Moves(q)
  BY <1>0, <1>2, ContinueCarries, PlacedMoves
<1>3. Delivered(q) => Moves(q)
  BY <1>0, <1>1, <1>2 DEF Delivered, Moved
<1>4. ASSUME NEW o \in DOMAIN otps, RegistrationOtp(q, o) PROVE Moves(q)
  <2>1. PICK n : n = [r EXCEPT !.step = "registrationCheck", !.otp = o]
    OBVIOUS
  <2>2. n.step = "registrationCheck" /\ n.otp = o /\ Carried(r, n)
    BY <1>0, <2>1 DEF Request, Carried
  <2>3. request' = [request EXCEPT ![q] = n]
    BY <1>0, <1>4, <1>d, <2>1 DEF RegistrationOtp
  <2>4. r.step = "registrationOtp" /\ VerifyOtp(n.otp, r.phone, "REGISTRATION")
    BY <1>0, <1>4, <2>2 DEF RegistrationOtp
  <2> QED
    BY <1>0, <2>2, <2>3, <2>4, PlacedMoves DEF Moved, MovedInRegistration
<1>5. RegistrationCheck(q) => Moves(q)
  BY <1>0, <1>2 DEF RegistrationCheck, Moved, MovedInRegistration
<1>6. ASSUME NEW a \in Accounts, SaveAccount(q, a) PROVE Moves(q)
  <2>1. PICK n : n = [r EXCEPT !.step = "openSession", !.account = a]
    OBVIOUS
  <2>2. n.step = "openSession" /\ n.challenge = r.challenge /\ n.secured = r.secured
    BY <1>0, <2>1 DEF Request
  <2>3. request' = [request EXCEPT ![q] = n] /\ r.step = "saveAccount"
    BY <1>0, <1>6, <1>d, <2>1 DEF SaveAccount
  <2> QED
    BY <1>0, <2>2, <2>3, PlacedMoves DEF Moved, MovedInRegistration
<1>7. ASSUME NEW o \in DOMAIN otps, LoginOtp(q, o) PROVE Moves(q)
  <2>1. PICK f : f = (twoFactor[r.account] # NoSecret)
    OBVIOUS
  <2>2. PICK n : n = [r EXCEPT !.step = "loginTwoFactor", !.otp = o, !.secured = f]
    OBVIOUS
  <2>3. /\ n.step = "loginTwoFactor" /\ n.account = r.account
        /\ n.challenge = r.challenge /\ n.secured = f
    BY <1>0, <2>2 DEF Request
  <2>4. request' = [request EXCEPT ![q] = n] /\ r.step = "loginOtp"
    BY <1>0, <1>7, <1>d, <2>1, <2>2 DEF LoginOtp
  <2> QED
    BY <1>0, <2>1, <2>3, <2>4, PlacedMoves DEF Moved, MovedInLogin
<1>8. LoginTwoFactor(q) => Moves(q)
  BY <1>0, <1>1, <1>2 DEF LoginTwoFactor, Moved, MovedInLogin
<1>9. ChallengeSave(q) => Moves(q)
  BY <1>0, <1>2 DEF ChallengeSave, Moved, MovedInLogin
<1>10. ASSUME NEW s \in Sids, OpenSession(q, s) PROVE Moves(q)
  <2>1. PICK n : n = [r EXCEPT !.step = "answer", !.sid = s, !.token = now]
    OBVIOUS
  <2>2. n.step = "answer" /\ Carried(r, n)
    BY <1>0, <2>1 DEF Request, Carried
  <2>3. request' = [request EXCEPT ![q] = n] /\ r.step = "openSession"
    BY <1>0, <1>10, <1>d, <2>1 DEF OpenSession
  <2> QED
    BY <1>0, <2>2, <2>3, PlacedMoves DEF Moved, MovedInLogin
<1>11. RefreshSave(q) => Moves(q)
  BY <1>0, <1>2 DEF RefreshSave, Moved, MovedInLogin
<1>12. RefreshSign(q) => Moves(q)
  <2> SUFFICES ASSUME RefreshSign(q) PROVE Moves(q)
    OBVIOUS
  <2>1. PICK n : n = [r EXCEPT !.step = "refreshSave", !.token = now]
    OBVIOUS
  <2>2. n.step = "refreshSave" /\ Carried(r, n) /\ n.sid = r.sid
    BY <1>0, <2>1 DEF Request, Carried
  <2>3. request' = [request EXCEPT ![q] = n] /\ r.step = "refreshSign"
    BY <1>0, <1>d, <2>1 DEF RefreshSign
  <2> QED
    BY <1>0, <2>2, <2>3, PlacedMoves DEF Moved
<1>13. ASSUME NEW o \in DOMAIN otps, ChangeOtp(q, o) PROVE Moves(q)
  <2>1. PICK n : n = [r EXCEPT !.step = "changeCheck", !.otp = o]
    OBVIOUS
  <2>2. n.step = "changeCheck" /\ n.otp = o /\ Carried(r, n)
    BY <1>0, <2>1 DEF Request, Carried
  <2>3. request' = [request EXCEPT ![q] = n]
    BY <1>0, <1>13, <1>d, <2>1 DEF ChangeOtp
  <2>4. r.step = "changeOtp" /\ VerifyOtp(n.otp, r.phone, "PHONE_CHANGE")
    BY <1>0, <1>13, <2>2 DEF ChangeOtp
  <2> QED
    BY <1>0, <2>2, <2>3, <2>4, PlacedMoves DEF Moved, MovedInChange
<1>14. ChangeCheck(q) => Moves(q)
  <2> SUFFICES ASSUME ChangeCheck(q) PROVE Moves(q)
    OBVIOUS
  <2>1. PICK f : f = IF start.side = "users" THEN r.from ELSE phone[r.account]
    OBVIOUS
  <2>2. PICK n : n = [r EXCEPT !.step = "changeSave", !.from = f]
    OBVIOUS
  <2>3. n.step = "changeSave" /\ n.otp = r.otp /\ Carried(r, n)
    BY <1>0, <2>2 DEF Request, Carried
  <2>4. request' = [request EXCEPT ![q] = n] /\ r.step = "changeCheck"
    BY <1>0, <1>d, <2>1, <2>2 DEF ChangeCheck
  <2> QED
    BY <1>0, <2>3, <2>4, PlacedMoves DEF Moved, MovedInChange
<1>15. SetupCheck(q) => Moves(q)
  <2> SUFFICES ASSUME SetupCheck(q) PROVE Moves(q)
    OBVIOUS
  <2>1. PICK f : f = (twoFactor[r.account] # NoSecret)
    OBVIOUS
  <2>2. PICK n : n = [r EXCEPT !.step = "setupSave", !.found = f]
    OBVIOUS
  <2>3. n.step = "setupSave" /\ Carried(r, n)
    BY <1>0, <2>2 DEF Request, Carried
  <2>4. request' = [request EXCEPT ![q] = n] /\ r.step = "setupCheck"
    BY <1>0, <1>d, <2>1, <2>2 DEF SetupCheck
  <2> QED
    BY <1>0, <2>3, <2>4, PlacedMoves DEF Moved, MovedInChange
<1> QED
  BY <1>1, <1>3, <1>4, <1>5, <1>6, <1>7, <1>8, <1>9, <1>10, <1>11, <1>12, <1>13, <1>14, <1>15
     DEF RequestStep, RequestFails, SaveRegistration, SetupSave, Answer, LogoutSave, SaveChange,
         ChangeSave, Refused

\* Nothing happens to the requests, or a restart ends them all, ...
Ended == \A q \in Requests : request'[q] \in {request[q], IdleRequest}

LEMMA RestartEnds ==
  ASSUME TypeOK, Restart
  PROVE  Ended
<1>1. request' = [q \in Requests |-> IdleRequest]
  BY DEF Restart
<1> QED
  BY <1>1 DEF Ended

\* ... or one of them moves on.
LEMMA NextMoves ==
  ASSUME TypeOK, [Next]_vars
  PROVE  Ended \/ \E q \in Requests : Moves(q)
<1>1. CASE Tick \/ UNCHANGED vars
  BY <1>1 DEF Tick, vars, Ended
<1>2. CASE Restart
  BY <1>2, RestartEnds
<1>3. ASSUME NEW q \in Requests, RequestStart(q) \/ RequestStep(q) \/ RequestFails(q)
      PROVE  Moves(q)
  BY <1>3, StartMoves, StepMoves
<1> QED
  BY <1>1, <1>2, <1>3 DEF Next

LEMMA NextMoved ==
  ASSUME TypeOK, [Next]_vars, NEW q \in Requests
  PROVE  Moved(request[q], request'[q])
<1>1. CASE Ended
  BY <1>1 DEF Ended, Moved
<1>2. ASSUME NEW p \in Requests, Moves(p) PROVE Moved(request[q], request'[q])
  <2>1. CASE p = q
    BY <1>2, <2>1 DEF Moves
  <2>2. CASE p # q
    <3>1. request'[q] = request[q]
      BY <1>2, <2>2 DEF Moves
    <3> QED
      BY <3>1 DEF Moved
  <2> QED
    BY <2>1, <2>2
<1> QED
  BY <1>1, <1>2, NextMoves

-----------------------------------------------------------------------------
(***************************************************************************)
(* What happens to the rows of the action table: one is inserted, unused,  *)
(* or one is marked used, and four steps do that.                          *)
(***************************************************************************)
Quiet == UNCHANGED actions \/ \E row : ~row.used /\ actions' = Append(actions, row)

Still == Quiet /\ UNCHANGED <<start, phone, twoFactor>>

Writes(q) ==
  ChallengeSave(q) \/ SetupSave(q) \/ ChangeSave(q) \/ \E a \in Accounts : SaveAccount(q, a)

LEMMA StartIsQuiet ==
  ASSUME NEW q \in Requests, RequestStart(q)
  PROVE  Still
<1>1. ASSUME NEW a \in Accounts, EnableTwoFactor(q, a)
      PROVE  Still
  <2>1. PICK row : row = NewAction("TWO_FACTOR_SETUP", a, None, now, 0)
    OBVIOUS
  <2>2. ~row.used
    BY <2>1 DEF NewAction
  <2> QED
    BY <1>1, <2>1, <2>2 DEF EnableTwoFactor, InsertAction, Still, Quiet
<1>2. UNCHANGED tables => UNCHANGED <<actions, phone, twoFactor>>
  BY DEF tables
<1> QED
  BY <1>1, <1>2 DEF RequestStart, Still, Quiet, Register, Login, VerifyRegistration, VerifyLogin,
     VerifyTwoFactor, VerifyTwoFactorSetup, Refresh, Logout, RequestPhoneChange, VerifyPhoneChange

LEMMA StepWrites ==
  ASSUME NEW q \in Requests, RequestStep(q) \/ RequestFails(q)
  PROVE  Writes(q) \/ Still
<1>1. ASSUME NEW row, ~row.used, InsertAction(row)
      PROVE  Quiet
  BY <1>1 DEF InsertAction, Still, Quiet
<1>2. \A type, a, p, t, o : ~NewAction(type, a, p, t, o).used
  BY DEF NewAction
<1>3. LoginTwoFactor(q) => Still
  <2> SUFFICES ASSUME LoginTwoFactor(q) PROVE Still
    OBVIOUS
  <2>1. PICK row :
          row = NewAction("TWO_FACTOR_LOGIN", request[q].account, None, now, request[q].otp)
    OBVIOUS
  <2>2. UNCHANGED actions \/ InsertAction(row)
    BY <2>1 DEF LoginTwoFactor
  <2>3. Quiet
    BY <1>1, <1>2, <2>1, <2>2 DEF Quiet
  <2> QED
    BY <2>3 DEF LoginTwoFactor, Still
<1>4. SaveRegistration(q) => Still
  BY <1>1, <1>2 DEF SaveRegistration, Still
<1>5. SaveChange(q) => Still
  BY <1>1, <1>2 DEF SaveChange, Still
<1>6. UNCHANGED tables => UNCHANGED <<actions, phone, twoFactor>>
  BY DEF tables
<1>7. Answer(q) \/ Delivered(q) \/ RegistrationCheck(q) \/ RefreshSign(q) \/ SetupCheck(q)
      \/ ChangeCheck(q) \/ Refused(q) \/ RequestFails(q) => Still
  BY <1>6 DEF Still, Quiet, Answer, Delivered, RegistrationCheck, RefreshSign, SetupCheck,
     ChangeCheck, Refused, RequestFails
<1>8. \A o \in DOMAIN otps : RegistrationOtp(q, o) \/ LoginOtp(q, o) \/ ChangeOtp(q, o) =>
        Still
  BY <1>6 DEF Still, Quiet, RegistrationOtp, LoginOtp, ChangeOtp
<1>9. (\E s \in Sids : OpenSession(q, s)) \/ RefreshSave(q) \/ LogoutSave(q) =>
        Still
  BY DEF Still, Quiet, OpenSession, RefreshSave, LogoutSave
<1> QED
  BY <1>3, <1>4, <1>5, <1>7, <1>8, <1>9 DEF RequestStep, Writes

LEMMA NextWrites ==
  ASSUME [Next]_vars
  PROVE  \/ Still
         \/ \E q \in Requests : Writes(q)
<1>1. CASE Tick \/ Restart \/ UNCHANGED vars
  BY <1>1 DEF Tick, Restart, vars, tables, Still, Quiet
<1> QED
  BY <1>1, StartIsQuiet, StepWrites DEF Next

\* A quiet step leaves every row, and what it adds is not used.
LEMMA QuietRows ==
  ASSUME TypeOK, Quiet
  PROVE  /\ \A i \in DOMAIN actions : i \in DOMAIN actions' /\ actions'[i] = actions[i]
         /\ \A i \in DOMAIN actions' : actions'[i].used => i \in DOMAIN actions
<1>1. actions \in Seq(Action)
  BY DEF TypeOK, ActionsOK
<1>2. ASSUME NEW row, ~row.used, actions' = Append(actions, row)
      PROVE  /\ \A i \in DOMAIN actions : i \in DOMAIN actions' /\ actions'[i] = actions[i]
             /\ \A i \in DOMAIN actions' : actions'[i].used => i \in DOMAIN actions
  <2>1. \A i \in DOMAIN actions : i \in DOMAIN actions' /\ actions'[i] = actions[i]
    BY <1>1, <1>2
  <2>2. \A i \in DOMAIN actions' : i \in DOMAIN actions \/ actions'[i] = row
    BY <1>1, <1>2
  <2> QED
    BY <1>2, <2>1, <2>2
<1> QED
  BY <1>2 DEF Quiet

\* A step marks action i used, which becomes row.
Marks(i, row) ==
  /\ i \in DOMAIN actions /\ row.used
  /\ row.type = actions[i].type /\ row.phone = actions[i].phone
  /\ DOMAIN actions' = DOMAIN actions /\ actions'[i] = row
  /\ \A j \in DOMAIN actions : j # i => actions'[j] = actions[j]

LEMMA PlacedMarks ==
  ASSUME NEW i \in DOMAIN actions, NEW row, row.used, row.type = actions[i].type,
         row.phone = actions[i].phone, actions' = [actions EXCEPT ![i] = row]
  PROVE  Marks(i, row)
  BY DEF Marks

LEMMA WriteMarks ==
  ASSUME TypeOK, NEW q \in Requests
  PROVE  /\ SetupSave(q) \/ ChallengeSave(q) =>
              \E row : /\ Marks(request[q].action, row)
                       /\ row.account = actions[request[q].action].account
         /\ ChangeSave(q) =>
              \E row : /\ Marks(request[q].action, row)
                       /\ row.account = actions[request[q].action].account
                       /\ row.otp = request[q].otp
         /\ \A a \in Accounts : SaveAccount(q, a) =>
              \E row : /\ Marks(request[q].action, row)
                       /\ row.account = a /\ row.otp = request[q].otp
<1>0. PICK r : r = request[q] /\ r \in Request /\ RequestOK(r)
  BY RowTypes
<1>1. PICK i : i = r.action
  OBVIOUS
<1>2. r.step \in {"setupSave", "challengeSave", "changeSave", "saveAccount"} =>
        i \in DOMAIN actions /\ actions[i] \in Action
  BY <1>0, <1>1, RowTypes DEF RequestOK, ActionFor
<1>3. SetupSave(q) \/ ChallengeSave(q) =>
        \E row : Marks(i, row) /\ row.account = actions[i].account
  <2> SUFFICES ASSUME SetupSave(q) \/ ChallengeSave(q)
               PROVE  \E row : Marks(i, row) /\ row.account = actions[i].account
    OBVIOUS
  <2>1. i \in DOMAIN actions /\ actions[i] \in Action
    BY <1>0, <1>2 DEF SetupSave, ChallengeSave
  <2>2. PICK row : row = [actions[i] EXCEPT !.used = TRUE]
    OBVIOUS
  <2>3. /\ row.used /\ row.type = actions[i].type /\ row.phone = actions[i].phone
        /\ row.account = actions[i].account
    BY <2>1, <2>2 DEF Action
  <2>4. actions' = [actions EXCEPT ![i] = row]
    BY <1>0, <1>1, <2>1, <2>2 DEF SetupSave, ChallengeSave
  <2> QED
    BY <2>1, <2>3, <2>4, PlacedMarks
<1>4. ChangeSave(q) =>
        \E row : Marks(i, row) /\ row.account = actions[i].account /\ row.otp = r.otp
  <2> SUFFICES ASSUME ChangeSave(q)
               PROVE  \E row : Marks(i, row) /\ row.account = actions[i].account /\ row.otp = r.otp
    OBVIOUS
  <2>1. i \in DOMAIN actions /\ actions[i] \in Action
    BY <1>0, <1>2 DEF ChangeSave
  <2>2. PICK row : row = [actions[i] EXCEPT !.used = TRUE, !.otp = r.otp]
    OBVIOUS
  <2>3. /\ row.used /\ row.type = actions[i].type /\ row.phone = actions[i].phone
        /\ row.account = actions[i].account /\ row.otp = r.otp
    BY <2>1, <2>2 DEF Action
  <2>4. actions' = [actions EXCEPT ![i] = row]
    BY <1>0, <1>1, <2>1, <2>2 DEF ChangeSave
  <2> QED
    BY <2>1, <2>3, <2>4, PlacedMarks
<1>5. ASSUME NEW a \in Accounts, SaveAccount(q, a)
      PROVE  \E row : Marks(i, row) /\ row.account = a /\ row.otp = r.otp
  <2>1. i \in DOMAIN actions /\ actions[i] \in Action
    BY <1>0, <1>2, <1>5 DEF SaveAccount
  <2>2. PICK row : row = [actions[i] EXCEPT !.used = TRUE, !.account = a, !.otp = r.otp]
    OBVIOUS
  <2>3. /\ row.used /\ row.type = actions[i].type /\ row.phone = actions[i].phone
        /\ row.account = a /\ row.otp = r.otp
    BY <2>1, <2>2 DEF Action
  <2>4. actions' = [actions EXCEPT ![i] = row]
    BY <1>0, <1>1, <1>5, <2>1, <2>2 DEF SaveAccount
  <2> QED
    BY <2>1, <2>3, <2>4, PlacedMarks
<1> QED
  BY <1>0, <1>1, <1>3, <1>4, <1>5

\* Whatever happens, a row stays, with its type and its phone, and an account that
\* is not the one of a registration.
LEMMA NextRows ==
  ASSUME TypeOK, [Next]_vars, NEW i \in DOMAIN actions
  PROVE  /\ i \in DOMAIN actions'
         /\ actions'[i].type = actions[i].type /\ actions'[i].phone = actions[i].phone
         /\ actions[i].used => actions'[i].used
         /\ actions[i].type # "REGISTRATION" => actions'[i].account = actions[i].account
<1> DEFINE Kept == /\ i \in DOMAIN actions'
                   /\ actions'[i].type = actions[i].type /\ actions'[i].phone = actions[i].phone
                   /\ actions[i].used => actions'[i].used
                   /\ actions[i].type # "REGISTRATION" => actions'[i].account = actions[i].account
<1>1. CASE Still
  BY <1>1, QuietRows DEF Still
<1>2. ASSUME NEW j, NEW row, Marks(j, row),
             actions[j].type # "REGISTRATION" => row.account = actions[j].account
      PROVE  Kept
  BY <1>2 DEF Marks
<1>3. ASSUME NEW q \in Requests, Writes(q) PROVE Kept
  <2>1. CASE SetupSave(q) \/ ChallengeSave(q)
    BY <1>2, <2>1, WriteMarks
  <2>2. CASE ChangeSave(q)
    BY <1>2, <2>2, WriteMarks
  <2>3. ASSUME NEW a \in Accounts, SaveAccount(q, a) PROVE Kept
    <3>1. request[q].step = "saveAccount"
      BY <2>3 DEF SaveAccount
    <3>2. actions[request[q].action].type = "REGISTRATION"
      BY <3>1 DEF TypeOK, RequestsOK, RequestOK, ActionFor
    <3>3. PICK row : Marks(request[q].action, row)
      BY <2>3, WriteMarks
    <3> QED
      BY <1>2, <3>2, <3>3
  <2> QED
    BY <1>3, <2>1, <2>2, <2>3 DEF Writes
<1> QED
  BY <1>1, <1>3, NextWrites

\* A used row that is new, or not what it was, is the one a request has written,
\* which has left all others alone.
LEMMA Rewritten ==
  ASSUME TypeOK, [Next]_vars, NEW i \in DOMAIN actions', actions'[i].used,
         ~(i \in DOMAIN actions /\ actions'[i] = actions[i])
  PROVE  /\ i \in DOMAIN actions
         /\ \E q \in Requests : Writes(q) /\ request[q].action = i
         /\ \A j \in DOMAIN actions' : j # i => j \in DOMAIN actions /\ actions'[j] = actions[j]
<1>1. CASE Still
  BY <1>1, QuietRows DEF Still
<1>2. ASSUME NEW q \in Requests, Writes(q)
      PROVE  /\ i \in DOMAIN actions /\ request[q].action = i
             /\ \A j \in DOMAIN actions' : j # i => j \in DOMAIN actions /\ actions'[j] = actions[j]
  <2>1. PICK row : Marks(request[q].action, row)
    BY <1>2, WriteMarks DEF Writes
  <2> QED
    BY <2>1 DEF Marks
<1> QED
  BY <1>1, <1>2, NextWrites

LEMMA WritesType ==
  ASSUME TypeOK, NEW q \in Requests
  PROVE  /\ ChallengeSave(q) => actions[request[q].action].type = "TWO_FACTOR_LOGIN"
         /\ SetupSave(q) => actions[request[q].action].type = "TWO_FACTOR_SETUP"
         /\ ChangeSave(q) => actions[request[q].action].type = "PHONE_CHANGE"
         /\ \A a \in Accounts : SaveAccount(q, a) =>
              actions[request[q].action].type = "REGISTRATION"
  BY RowTypes DEF RequestOK, ActionFor, ChallengeSave, SetupSave, ChangeSave, SaveAccount

-----------------------------------------------------------------------------
(***************************************************************************)
(* The second factor.                                                      *)
(***************************************************************************)
LEMMA SetupSaves ==
  ASSUME TypeOK, NEW q \in Requests, SetupSave(q)
  PROVE  /\ request[q].action \in DOMAIN actions /\ request[q].account \in Accounts
         /\ actions[request[q].action].type = "TWO_FACTOR_SETUP"
         /\ twoFactor'[request[q].account] = request[q].action
         /\ \A a \in Accounts : a # request[q].account => twoFactor'[a] = twoFactor[a]
<1>1. request[q].action \in DOMAIN actions /\ actions[request[q].action].type = "TWO_FACTOR_SETUP"
  BY DEF TypeOK, RequestsOK, RequestOK, ActionFor, SetupSave
<1>2. request[q].account \in Accounts
  BY DEF TypeOK, RequestsOK, RequestOK, SetupSave, Registered
<1>3. twoFactor' = [twoFactor EXCEPT ![request[q].account] = request[q].action]
  BY DEF SetupSave
<1>4. DOMAIN twoFactor = Accounts
  BY DEF TypeOK, AccountsOK
<1> QED
  BY <1>1, <1>2, <1>3, <1>4

\* Nobody gives up the second factor.
LEMMA SecretStays ==
  ASSUME TypeOK, [Next]_vars, NEW a \in Accounts, twoFactor[a] # NoSecret
  PROVE  twoFactor'[a] # NoSecret
<1>1. ASSUME NEW q \in Requests, SetupSave(q) PROVE twoFactor'[a] # NoSecret
  <2>1. NoSecret \notin DOMAIN actions
    BY DEF TypeOK, ActionsOK, NoSecret
  <2> QED
    BY <1>1, <2>1, SetupSaves
<1>2. ASSUME NEW q \in Requests, Writes(q), ~SetupSave(q) PROVE twoFactor'[a] # NoSecret
  BY <1>2 DEF Writes, ChallengeSave, ChangeSave, SaveAccount
<1> QED
  BY <1>1, <1>2, NextWrites DEF Still

\* What the inductive invariant says of one request.
SecuredOK(r) ==
  /\ r.secured => \/ r.step = "loginTwoFactor" /\ twoFactor[r.account] # NoSecret
                  \/ r.step \in {"challengeSave", "openSession", "answer"} /\ r.challenge
  /\ r.step \in {"setupCheck", "setupSave"} => actions[r.action].account = r.account

LEMMA NextSecured ==
  ASSUME TypeOK, [Next]_vars, NEW q \in Requests, SecuredOK(request[q])
  PROVE  SecuredOK(request[q])'
<1>1. PICK r, n : r = request[q] /\ n = request'[q]
  OBVIOUS
<1>2. RequestOK(r) /\ r \in Request /\ Moved(r, n)
  BY <1>1, RowTypes, NextMoved
<1>3. n.secured => \/ n.step = "loginTwoFactor" /\ twoFactor'[n.account] # NoSecret
                   \/ n.step \in {"challengeSave", "openSession", "answer"} /\ n.challenge
  <2>1. r.step \in {"loginOtp", "loginTwoFactor"} => r.account \in Accounts
    BY <1>2 DEF RequestOK, Registered
  <2>2. r.secured => \/ r.step = "loginTwoFactor" /\ twoFactor[r.account] # NoSecret
                     \/ r.step \in {"challengeSave", "openSession", "answer"} /\ r.challenge
    BY <1>1 DEF SecuredOK
  <2>3. r.step \in {"loginOtp", "loginTwoFactor"} /\ twoFactor[r.account] # NoSecret =>
          twoFactor'[r.account] # NoSecret
    BY <2>1, SecretStays
  <2>4. CASE n = r
    BY <2>2, <2>3, <2>4
  <2>5. CASE n = IdleRequest
    BY <2>5 DEF IdleRequest
  <2>6. CASE Begun(n)
    BY <2>6 DEF Begun
  <2>7. CASE MovedInRegistration(r, n)
    BY <2>2, <2>7 DEF MovedInRegistration, Carried, Begun
  <2>8. CASE MovedInLogin(r, n)
    BY <2>2, <2>3, <2>8 DEF MovedInLogin, Carried
  <2>9. CASE MovedInChange(r, n)
    BY <2>2, <2>9 DEF MovedInChange, Carried, Begun
  <2> QED
    BY <1>2, <2>2, <2>4, <2>5, <2>6, <2>7, <2>8, <2>9 DEF Moved, Carried
<1>4. n.step \in {"setupCheck", "setupSave"} => actions'[n.action].account = n.account
  <2> SUFFICES ASSUME n.step \in {"setupCheck", "setupSave"}
               PROVE  actions'[n.action].account = n.account
    OBVIOUS
  <2>1. n.action \in DOMAIN actions /\ actions[n.action].account = n.account
    <3>1. CASE n = r
      BY <1>1, <1>2, <3>1 DEF SecuredOK, RequestOK, ActionFor
    <3>2. CASE n # r /\ n.step = "setupCheck"
      BY <1>2, <3>2 DEF Moved, MovedInRegistration, MovedInLogin, MovedInChange, IdleRequest
    <3>3. CASE n # r /\ n.step = "setupSave"
      <4>1. r.step = "setupCheck" /\ n.action = r.action /\ n.account = r.account
        BY <1>2, <3>3 DEF Moved, MovedInRegistration, MovedInLogin, MovedInChange, Carried,
           IdleRequest
      <4> QED
        BY <1>1, <1>2, <4>1 DEF SecuredOK, RequestOK, ActionFor
    <3> QED
      BY <3>1, <3>2, <3>3
  <2>2. TypeOK'
    BY NextTypeOK
  <2>3. actions'[n.action].type = "TWO_FACTOR_SETUP"
    BY <1>1, <2>2 DEF TypeOK, RequestsOK, RequestOK, ActionFor
  <2> QED
    BY <2>1, <2>3, NextRows
<1> QED
  BY <1>1, <1>3, <1>4 DEF SecuredOK

\* How a session came to be what it is.
LEMMA NextSession ==
  ASSUME TypeOK, [Next]_vars, NEW s \in Sids
  PROVE  \/ session'[s].secured = session[s].secured /\ session'[s].challenge = session[s].challenge
         \/ \E q \in Requests : /\ request[q].step = "openSession"
                                 /\ session'[s].secured = request[q].secured
                                 /\ session'[s].challenge = request[q].challenge
<1> DEFINE Same == /\ session'[s].secured = session[s].secured
                   /\ session'[s].challenge = session[s].challenge
<1>d. DOMAIN session = Sids /\ session[s] \in Session
  BY DEF TypeOK, SessionsOK
<1>1. CASE UNCHANGED session
  BY <1>1
<1>2. ASSUME NEW q \in Requests, NEW t \in Sids, OpenSession(q, t), ~Same
      PROVE  /\ request[q].step = "openSession"
             /\ session'[s].secured = request[q].secured
             /\ session'[s].challenge = request[q].challenge
  BY <1>2, <1>d DEF OpenSession
<1>3. ASSUME NEW q \in Requests, RefreshSave(q) \/ LogoutSave(q) PROVE Same
  <2>1. request[q].sid \in Sids
    BY <1>3 DEF TypeOK, RequestsOK, RequestOK, OpenSids, RefreshSave, LogoutSave
  <2>2. CASE s = request[q].sid
    BY <1>3, <1>d, <2>2 DEF RefreshSave, LogoutSave, Session
  <2>3. CASE s # request[q].sid
    BY <1>3, <1>d, <2>3 DEF RefreshSave, LogoutSave
  <2> QED
    BY <2>2, <2>3
<1>4. \/ UNCHANGED session
      \/ \E q \in Requests : RefreshSave(q) \/ LogoutSave(q) \/ \E t \in Sids : OpenSession(q, t)
  BY NextSessions
<1> QED
  BY <1>1, <1>2, <1>3, <1>4

LEMMA NextConfirmed ==
  ASSUME TypeOK, [Next]_vars, SecretIsConfirmed, \A q \in Requests : SecuredOK(request[q])
  PROVE  SecretIsConfirmed'
<1>t. DOMAIN actions \subseteq Nat \ {0} /\ DOMAIN actions' \subseteq Nat \ {0}
  <2>1. TypeOK'
    BY NextTypeOK
  <2> QED
    BY <2>1 DEF TypeOK, ActionsOK
<1>1. ASSUME NEW a \in Accounts, NEW i \in DOMAIN actions', twoFactor'[a] = i
      PROVE  /\ actions'[i].type = "TWO_FACTOR_SETUP" /\ actions'[i].account = a
             /\ actions'[i].used
  <2>1. CASE twoFactor'[a] = twoFactor[a]
    <3>1. i \in DOMAIN actions
      BY <1>1, <1>t, <2>1 DEF TypeOK, AccountsOK, Before, NoSecret
    <3>2. actions[i].type = "TWO_FACTOR_SETUP" /\ actions[i].account = a /\ actions[i].used
      BY <1>1, <2>1, <3>1 DEF SecretIsConfirmed
    <3> QED
      BY <3>1, <3>2, NextRows
  <2>2. ASSUME NEW q \in Requests, SetupSave(q), a = request[q].account
        PROVE  /\ actions'[i].type = "TWO_FACTOR_SETUP" /\ actions'[i].account = a
               /\ actions'[i].used
    <3>1. i = request[q].action /\ actions[i].type = "TWO_FACTOR_SETUP"
      BY <1>1, <2>2, SetupSaves
    <3>2. actions[i].account = a
      BY <2>2, <3>1 DEF SecuredOK, SetupSave
    <3>3. PICK row : Marks(i, row) /\ row.account = actions[i].account
      BY <2>2, <3>1, WriteMarks
    <3> QED
      BY <3>1, <3>2, <3>3 DEF Marks
  <2>3. ASSUME NEW q \in Requests, SetupSave(q), a # request[q].account
        PROVE  twoFactor'[a] = twoFactor[a]
    BY <2>3, SetupSaves
  <2>4. ASSUME NEW q \in Requests, Writes(q), ~SetupSave(q) PROVE twoFactor'[a] = twoFactor[a]
    BY <2>4 DEF Writes, ChallengeSave, ChangeSave, SaveAccount
  <2> QED
    BY <2>1, <2>2, <2>3, <2>4, NextWrites DEF Still
<1>2. ASSUME NEW i \in DOMAIN actions', actions'[i].type = "TWO_FACTOR_SETUP", actions'[i].used
      PROVE  twoFactor'[actions'[i].account] # NoSecret
  <2>1. CASE i \in DOMAIN actions /\ actions'[i] = actions[i]
    <3>1. twoFactor[actions[i].account] # NoSecret
      BY <1>2, <2>1 DEF SecretIsConfirmed
    <3>2. actions[i].account \in Accounts
      BY <1>2, <2>1, RowTypes DEF ActionOK
    <3> QED
      BY <2>1, <3>1, <3>2, SecretStays
  <2>2. CASE ~(i \in DOMAIN actions /\ actions'[i] = actions[i])
    <3>1. PICK q \in Requests : i \in DOMAIN actions /\ Writes(q) /\ request[q].action = i
      BY <1>2, <2>2, Rewritten
    <3>2. actions[i].type = "TWO_FACTOR_SETUP"
      BY <1>2, <3>1, NextRows
    <3>3. SetupSave(q)
      BY <3>1, <3>2, WritesType DEF Writes
    <3>4. actions'[i].account = actions[i].account
      BY <3>1, <3>2, NextRows
    <3>5. actions[i].account = request[q].account
      BY <3>1, <3>3 DEF SecuredOK, SetupSave
    <3>6. twoFactor'[request[q].account] = i
      BY <3>1, <3>3, SetupSaves
    <3> QED
      BY <1>t, <3>1, <3>4, <3>5, <3>6 DEF NoSecret
  <2> QED
    BY <2>1, <2>2
<1> QED
  BY <1>1, <1>2 DEF SecretIsConfirmed

LEMMA NextTwoFactor == TypeOK /\ TwoFactorInv /\ [Next]_vars => TwoFactorInv'
<1> SUFFICES ASSUME TypeOK, TwoFactorInv, [Next]_vars PROVE TwoFactorInv'
  OBVIOUS
<1>1. \A q \in Requests : SecuredOK(request[q])
  BY DEF TwoFactorInv, SecuredOK
<1>2. \A q \in Requests : SecuredOK(request[q])'
  BY <1>1, NextSecured
<1>3. SecretIsConfirmed'
  BY <1>1, NextConfirmed DEF TwoFactorInv
<1>4. SecondFactorAsked'
  <2> SUFFICES ASSUME NEW s \in Sids, session'[s].secured PROVE session'[s].challenge
    BY DEF SecondFactorAsked
  <2>1. CASE session'[s].secured = session[s].secured /\ session'[s].challenge = session[s].challenge
    BY <2>1 DEF TwoFactorInv, SecondFactorAsked
  <2>2. ASSUME NEW q \in Requests, request[q].step = "openSession",
               session'[s].secured = request[q].secured,
               session'[s].challenge = request[q].challenge
        PROVE  session'[s].challenge
    BY <1>1, <2>2 DEF SecuredOK
  <2> QED
    BY <2>1, <2>2, NextSession
<1> QED
  BY <1>2, <1>3, <1>4 DEF TwoFactorInv, SecuredOK

LEMMA InitTwoFactor == Init => TwoFactorInv
<1> SUFFICES ASSUME Init PROVE TwoFactorInv
  OBVIOUS
<1>1. \A q \in Requests : request[q] = IdleRequest
  <2>1. request = [q \in Requests |-> IdleRequest]
    BY DEF Init
  <2> QED
    BY <2>1
<1>2. \A s \in Sids : ~session[s].secured
  <2>1. session = [s \in Sids |->
          IF \E a \in Accounts : start.session[a] = s
            THEN [NoSession EXCEPT !.account = CHOOSE a \in Accounts : start.session[a] = s,
                                   !.iat = 0, !.opened = 0]
            ELSE NoSession]
    BY DEF Init
  <2>2. \A a : ~[NoSession EXCEPT !.account = a, !.iat = 0, !.opened = 0].secured
    BY DEF NoSession
  <2> QED
    BY <2>1, <2>2 DEF NoSession
<1>3. \A i \in DOMAIN actions : FALSE
  <2>1. actions = <<>>
    BY DEF Init
  <2> QED
    BY <2>1
<1>4. \A a \in Accounts : twoFactor[a] \notin DOMAIN actions
  BY <1>3
<1> QED
  BY <1>1, <1>2, <1>3, <1>4 DEF TwoFactorInv, SecondFactorAsked, SecretIsConfirmed, IdleRequest

\* The second factor, and what it rests on.
THEOREM TwoFactorInvariant == Spec => []TwoFactorInv
<1>1. Init => TwoFactorInv
  BY InitTwoFactor
<1>2. TypeOK /\ TwoFactorInv /\ [Next]_vars => TwoFactorInv'
  BY NextTwoFactor
<1> QED
  BY <1>1, <1>2, TypeCorrect, PTL DEF Spec

\* An account that had a second factor when the OTP of its login was verified gets
\* its session only from a challenge, also when the setup races the login.
THEOREM SecondFactorTheorem == Spec => []SecondFactorAsked
<1>1. TwoFactorInv => SecondFactorAsked
  BY DEF TwoFactorInv
<1> QED
  BY <1>1, TwoFactorInvariant, PTL

\* The secret of an account is one it has confirmed, and a confirmed setup has led
\* to a secret.
THEOREM ConfirmedSecretTheorem == Spec => []SecretIsConfirmed
<1>1. TwoFactorInv => SecretIsConfirmed
  BY DEF TwoFactorInv
<1> QED
  BY <1>1, TwoFactorInvariant, PTL

-----------------------------------------------------------------------------
(***************************************************************************)
(* The refresh token that the client of a session keeps.  Most steps       *)
(* neither store a token nor answer with one: they may begin a refresh, go *)
(* on with it or drop it.                                                  *)
(***************************************************************************)
SameTokens ==
  /\ kept' = kept /\ lost \subseteq lost' /\ contested \subseteq contested'
  /\ \A s \in Sids : session'[s].account = session[s].account /\ session'[s].iat = session[s].iat

Turned(r, n) ==
  \/ n = r
  \/ /\ r.step # "answer" /\ n.step # "answer"
     /\ n.step = "refreshSave" => r.step = "refreshSign" /\ n.sid = r.sid
     /\ n.step = "refreshSign" => MayRotate(n.sid)

\* What the invariant says of a session stays true while none of its requests
\* begins to rotate, none is answered, and the tokens are the same.
LEMMA SameKept ==
  ASSUME NEW s, KeptAt(s), kept'[s] = kept[s], session'[s].iat = session[s].iat,
         \A p \in Requests : Rotates(p, s)' => Rotates(p, s),
         \A p \in Requests : InAnswer(p, s)' => request'[p] = request[p],
         \A p \in Requests : InAnswer(p, s) => request'[p] = request[p]
  PROVE  KeptAt(s)'
<1>1. \A p, q \in Requests : Rotates(p, s)' /\ Rotates(q, s)' => p = q
  BY DEF KeptAt
<1>2. ASSUME NEW p \in Requests, InAnswer(p, s)' PROVE request'[p].token = session'[s].iat
  BY <1>2 DEF KeptAt, InAnswer
<1>3. ASSUME \A p \in Requests : ~InAnswer(p, s)' PROVE kept'[s] = session'[s].iat
  BY <1>3 DEF KeptAt, InAnswer
<1> QED
  BY <1>1, <1>2, <1>3 DEF KeptAt

\* One request turns, and the others stay what they are.
LEMMA TurnKeeps ==
  ASSUME KeptInv, SameTokens, NEW q \in Requests, Turned(request[q], request'[q]),
         \A p \in Requests : p # q => request'[p] = request[p]
  PROVE  KeptInv'
<1> SUFFICES ASSUME NEW s \in Sids, Undisturbed(s)' PROVE KeptAt(s)'
  BY DEF KeptInv
<1>1. Undisturbed(s) /\ s \notin contested' /\ kept'[s] = kept[s] /\ session'[s].iat = session[s].iat
  BY DEF SameTokens, Undisturbed
<1>2. KeptAt(s)
  BY <1>1 DEF KeptInv
<1>3. \A p \in Requests : InAnswer(p, s) \/ InAnswer(p, s)' => request'[p] = request[p]
  BY DEF Turned, InAnswer
<1>4. CASE \A p \in Requests : Rotates(p, s)' => Rotates(p, s)
  BY <1>1, <1>2, <1>3, <1>4, SameKept
<1>5. ASSUME NEW p \in Requests, Rotates(p, s)', ~Rotates(p, s) PROVE KeptAt(s)'
  <2>1. p = q
    BY <1>5 DEF Rotates, InAnswer
  <2>2. request'[q].step = "refreshSign" /\ request'[q].sid = s
    BY <1>5, <2>1 DEF Rotates, InAnswer, Turned
  <2>3. request'[q] # request[q]
    BY <1>5, <2>1 DEF Rotates, InAnswer
  <2>4. \A o \in Requests : ~Rotates(o, s)
    BY <1>1, <2>2, <2>3 DEF Turned, MayRotate
  <2>5. \A o \in Requests : Rotates(o, s)' => o = q
    BY <2>4 DEF Rotates, InAnswer
  <2>6. \A o \in Requests : ~InAnswer(o, s) /\ ~InAnswer(o, s)'
    BY <1>3, <2>4 DEF Rotates, InAnswer
  <2>7. kept'[s] = session'[s].iat
    BY <1>1, <1>2, <2>6 DEF KeptAt
  <2> QED
    BY <2>5, <2>6, <2>7 DEF KeptAt
<1> QED
  BY <1>4, <1>5

LEMMA StartTurns ==
  ASSUME TypeOK, NEW q \in Requests, RequestStart(q)
  PROVE  SameTokens /\ Turned(request[q], request'[q])
<1>1. ASSUME UNCHANGED <<session, kept, lost>>, contested \subseteq contested' PROVE SameTokens
  BY <1>1 DEF SameTokens
<1>2. UNCHANGED tables /\ UNCHANGED held => SameTokens
  BY <1>1 DEF tables, held
<1>3. ASSUME NEW p, NEW i
      PROVE  Register(q, p) \/ Login(q, p) \/ VerifyRegistration(q, p, i) => SameTokens
  BY <1>2 DEF Register, Login, VerifyRegistration
<1>4. ASSUME NEW a PROVE VerifyLogin(q, a) \/ EnableTwoFactor(q, a) => SameTokens
  BY <1>1, <1>2 DEF VerifyLogin, EnableTwoFactor, held
<1>5. ASSUME NEW i PROVE VerifyTwoFactor(q, i) \/ VerifyTwoFactorSetup(q, i) => SameTokens
  BY <1>2 DEF VerifyTwoFactor, VerifyTwoFactorSetup
<1>6. ASSUME NEW t PROVE Refresh(q, t) => SameTokens
  BY <1>1 DEF Refresh, Contest, tables
<1>7. ASSUME NEW s PROVE Logout(q, s) => SameTokens
  BY <1>2 DEF Logout
<1>8. ASSUME NEW a, NEW p, NEW i
      PROVE  RequestPhoneChange(q, a, p) \/ VerifyPhoneChange(q, a, i) => SameTokens
  BY <1>2 DEF RequestPhoneChange, VerifyPhoneChange
<1>9. SameTokens
  BY <1>3, <1>4, <1>5, <1>6, <1>7, <1>8 DEF RequestStart
<1>10. request[q] = IdleRequest
  BY DEF RequestStart, Register, Login, VerifyRegistration, VerifyLogin, EnableTwoFactor,
     VerifyTwoFactor, VerifyTwoFactorSetup, Refresh, Logout, RequestPhoneChange,
     VerifyPhoneChange, Begin
<1>11. PICK r, n : r = request[q] /\ n = request'[q] /\ r.step = "idle"
  BY <1>10 DEF IdleRequest
<1>12. Moved(r, n)
  BY <1>11, StartMoves DEF Moves
<1>13. Turned(r, n)
  BY <1>10, <1>11, <1>12
     DEF Moved, MovedInRegistration, MovedInLogin, MovedInChange, Turned
<1> QED
  BY <1>9, <1>11, <1>13

\* The steps that neither store a token nor answer with one.
LEMMA StepTurns ==
  ASSUME TypeOK, NEW q \in Requests,
         \/ RequestStep(q) /\ ~Answer(q) /\ ~RefreshSave(q) /\ ~\E s \in Sids : OpenSession(q, s)
         \/ RequestFails(q) /\ request[q].step # "answer"
  PROVE  SameTokens /\ Turned(request[q], request'[q])
<1>1. ASSUME UNCHANGED <<session, kept, lost, contested>> PROVE SameTokens
  BY <1>1 DEF SameTokens
<1>2. UNCHANGED <<session, held>> => SameTokens
  BY <1>1 DEF held
<1>3. UNCHANGED tables /\ UNCHANGED held => SameTokens
  BY <1>1 DEF tables, held
<1>4. LogoutSave(q) => SameTokens
  <2> SUFFICES ASSUME LogoutSave(q) PROVE SameTokens
    OBVIOUS
  <2>1. request[q].sid \in Sids /\ DOMAIN session = Sids /\ \A s \in Sids : session[s] \in Session
    BY DEF TypeOK, RequestsOK, RequestOK, OpenSids, SessionsOK, LogoutSave
  <2>2. \A s \in Sids : /\ session'[s].account = session[s].account
                        /\ session'[s].iat = session[s].iat
    BY <2>1 DEF LogoutSave, Session
  <2> QED
    BY <2>2 DEF LogoutSave, held, SameTokens
<1>5. ASSUME NEW o
      PROVE  RegistrationOtp(q, o) \/ LoginOtp(q, o) \/ ChangeOtp(q, o) => SameTokens
  BY <1>3 DEF RegistrationOtp, LoginOtp, ChangeOtp
<1>6. Delivered(q) \/ RegistrationCheck(q) \/ RefreshSign(q) \/ SetupCheck(q) \/ ChangeCheck(q)
      => SameTokens
  BY <1>3 DEF Delivered, RegistrationCheck, RefreshSign, SetupCheck, ChangeCheck
<1>7. SaveRegistration(q) \/ SaveChange(q) \/ (\E a \in Accounts : SaveAccount(q, a)) => SameTokens
  BY <1>2 DEF SaveRegistration, SaveChange, SaveAccount
<1>8. LoginTwoFactor(q) \/ ChallengeSave(q) \/ SetupSave(q) \/ ChangeSave(q) => SameTokens
  BY <1>2 DEF LoginTwoFactor, ChallengeSave, SetupSave, ChangeSave
<1>9. Refused(q) => SameTokens
  BY <1>3 DEF Refused
<1>10. RequestFails(q) /\ request[q].step # "answer" => SameTokens
  BY <1>1 DEF RequestFails, tables
<1>11. SameTokens
  BY <1>4, <1>5, <1>6, <1>7, <1>8, <1>9, <1>10 DEF RequestStep
<1>12. PICK r, n : r = request[q] /\ n = request'[q]
  OBVIOUS
<1>13. r.step \notin {"answer", "refreshSave", "openSession"} \/ n = IdleRequest
  <2>1. RequestFails(q) => n = IdleRequest
    BY <1>12 DEF RequestFails, End, TypeOK, RequestsOK
  <2> QED
    BY <1>12, <2>1 DEF RequestStep, Delivered, SaveRegistration, RegistrationOtp, LoginOtp,
       ChangeOtp, RegistrationCheck, SaveAccount, LoginTwoFactor, ChallengeSave, SetupCheck,
       SetupSave, RefreshSign, LogoutSave, SaveChange, ChangeCheck, ChangeSave, Refused
<1>14. r.step # "answer"
  BY <1>12 DEF RequestStep, Delivered, SaveRegistration, RegistrationOtp, LoginOtp,
     ChangeOtp, RegistrationCheck, SaveAccount, LoginTwoFactor, ChallengeSave, SetupCheck,
     SetupSave, RefreshSign, LogoutSave, SaveChange, ChangeCheck, ChangeSave, Refused
<1>15. Moved(r, n)
  BY <1>12, StepMoves DEF Moves
<1>16. Turned(r, n)
  BY <1>13, <1>14, <1>15
     DEF Moved, MovedInRegistration, MovedInLogin, MovedInChange, Turned, IdleRequest
<1> QED
  BY <1>11, <1>12, <1>16

LEMMA OpenKeeps ==
  ASSUME TypeOK, KeptInv, NEW q \in Requests, NEW t \in Sids, OpenSession(q, t)
  PROVE  KeptInv'
<1>d. DOMAIN session = Sids /\ DOMAIN request = Requests
  BY DEF TypeOK, SessionsOK, RequestsOK
<1>1. PICK r : r = request[q] /\ r \in Request /\ r.step = "openSession"
  BY RowTypes DEF OpenSession
<1>2. PICK n : n = [r EXCEPT !.step = "answer", !.sid = t, !.token = now]
  OBVIOUS
<1>3. n.step = "answer" /\ n.sid = t /\ n.token = now
  BY <1>1, <1>2 DEF Request
<1>4. request'[q] = n /\ \A p \in Requests : p # q => request'[p] = request[p]
  BY <1>1, <1>2, <1>d DEF OpenSession
<1>5. UNCHANGED <<kept, lost, contested>>
  BY DEF OpenSession, held
<1> SUFFICES ASSUME NEW s \in Sids, Undisturbed(s)' PROVE KeptAt(s)'
  BY DEF KeptInv
<1>6. CASE s # t
  <2>1. session'[s] = session[s]
    BY <1>6, <1>d DEF OpenSession
  <2>2. Undisturbed(s)
    BY <1>5, <2>1 DEF Undisturbed
  <2> QED
    BY <1>1, <1>3, <1>4, <1>5, <1>6, <2>1, <2>2, SameKept DEF KeptInv, Rotates, InAnswer
<1>7. CASE s = t
  <2>1. \A p \in Requests : ~Rotates(p, t)
    <3>1. session[t].account \notin Registered
      BY AccountsAssumption DEF OpenSession, NoSession, Registered
    <3>2. \A p \in Requests : RequestOK(request[p])
      BY RowTypes
    <3> QED
      BY <3>1, <3>2 DEF RequestOK, OpenSids, Rotates, InAnswer
  <2>2. \A p \in Requests : p # q => ~Rotates(p, t)' /\ ~InAnswer(p, t)'
    BY <1>4, <2>1 DEF Rotates, InAnswer
  <2>3. InAnswer(q, t)' /\ request'[q].token = now
    BY <1>3, <1>4 DEF InAnswer
  <2>4. session'[t].iat = now
    BY <1>d DEF OpenSession
  <2> QED
    BY <1>7, <2>2, <2>3, <2>4 DEF KeptAt
<1> QED
  BY <1>6, <1>7

LEMMA RefreshSaveKeeps ==
  ASSUME TypeOK, KeptInv, NEW q \in Requests, RefreshSave(q)
  PROVE  KeptInv'
<1>d. DOMAIN session = Sids /\ DOMAIN request = Requests
  BY DEF TypeOK, SessionsOK, RequestsOK
<1>1. PICK t, token : /\ t = request[q].sid /\ token = request[q].token
                      /\ request[q].step = "refreshSave" /\ t \in Sids
  BY DEF RefreshSave, TypeOK, RequestsOK, RequestOK, OpenSids
<1>2. PICK n : /\ request' = [request EXCEPT ![q] = n]
               /\ n.step = "answer" /\ n.sid = t /\ n.token = token
  BY <1>1, ContinueCarries DEF RefreshSave
<1>3. request'[q] = n /\ \A p \in Requests : p # q => request'[p] = request[p]
  BY <1>2, <1>d
<1>4. UNCHANGED <<kept, lost, contested>>
  BY DEF RefreshSave, held
<1>5. /\ \A s \in Sids : s # t => session'[s] = session[s]
      /\ session'[t].account = session[t].account /\ session'[t].iat = token
  BY <1>1, <1>d DEF RefreshSave, TypeOK, SessionsOK, Session
<1> SUFFICES ASSUME NEW s \in Sids, Undisturbed(s)' PROVE KeptAt(s)'
  BY DEF KeptInv
<1>6. Undisturbed(s)
  BY <1>4, <1>5 DEF Undisturbed
<1>7. CASE s # t
  BY <1>1, <1>2, <1>3, <1>4, <1>5, <1>6, <1>7, SameKept DEF KeptInv, Rotates, InAnswer
<1>8. CASE s = t
  <2>1. Rotates(q, t)
    BY <1>1 DEF Rotates
  <2>2. \A p \in Requests : p # q => ~Rotates(p, t)
    BY <1>6, <1>8, <2>1 DEF KeptInv, KeptAt
  <2>3. \A p \in Requests : p # q => ~Rotates(p, t)' /\ ~InAnswer(p, t)'
    BY <1>3, <2>2 DEF Rotates, InAnswer
  <2>4. InAnswer(q, t)' /\ request'[q].token = session'[t].iat
    BY <1>2, <1>3, <1>5 DEF InAnswer
  <2> QED
    BY <1>8, <2>3, <2>4 DEF KeptAt
<1> QED
  BY <1>7, <1>8

LEMMA AnswerKeeps ==
  ASSUME TypeOK, KeptInv, NEW q \in Requests, Answer(q)
  PROVE  KeptInv'
<1>d. DOMAIN kept = Sids /\ DOMAIN request = Requests
  BY DEF TypeOK, BooksOK, RequestsOK
<1>1. PICK t : t = request[q].sid /\ InAnswer(q, t)
  BY DEF Answer, InAnswer
<1>2. request'[q] = IdleRequest /\ \A p \in Requests : p # q => request'[p] = request[p]
  BY <1>d DEF Answer, End
<1>3. UNCHANGED <<session, lost, contested>>
  BY DEF Answer, tables
<1>4. \A s : ~Rotates(q, s)' /\ ~InAnswer(q, s)'
  BY <1>2 DEF Rotates, InAnswer, IdleRequest
<1> SUFFICES ASSUME NEW s \in Sids, Undisturbed(s)' PROVE KeptAt(s)'
  BY DEF KeptInv
<1>5. Undisturbed(s)
  BY <1>3 DEF Undisturbed
<1>6. CASE s # t
  <2>1. kept'[s] = kept[s]
    BY <1>1, <1>6, <1>d DEF Answer
  <2>2. \A p \in Requests : Rotates(p, s)' => Rotates(p, s)
    BY <1>2, <1>4 DEF Rotates, InAnswer
  <2>3. \A p \in Requests : InAnswer(p, s) \/ InAnswer(p, s)' => request'[p] = request[p]
    BY <1>1, <1>2, <1>4, <1>6 DEF InAnswer
  <2> QED
    BY <1>3, <1>5, <2>1, <2>2, <2>3, SameKept DEF KeptInv
<1>7. CASE s = t
  <2>1. Rotates(q, t)
    BY <1>1 DEF Rotates
  <2>2. \A p \in Requests : p # q => ~Rotates(p, t)
    BY <1>5, <1>7, <2>1 DEF KeptInv, KeptAt
  <2>3. \A p \in Requests : ~Rotates(p, t)' /\ ~InAnswer(p, t)'
    BY <1>2, <1>4, <2>2 DEF Rotates, InAnswer
  <2>4. request[q].token = session[t].iat
    BY <1>1, <1>5, <1>7 DEF KeptInv, KeptAt
  <2>5. kept'[t] = request[q].token
    BY <1>1, <1>7, <1>d DEF Answer
  <2> QED
    BY <1>3, <1>7, <2>3, <2>4, <2>5 DEF KeptAt
<1> QED
  BY <1>6, <1>7

\* A lost answer, or a restart with answers on their way, is noted.
LEMMA LostAnswerKeeps ==
  ASSUME TypeOK, KeptInv, NEW q \in Requests, RequestFails(q), request[q].step = "answer"
  PROVE  KeptInv'
<1>1. PICK t : t = request[q].sid
  OBVIOUS
<1>2. request'[q] = IdleRequest /\ \A p \in Requests : p # q => request'[p] = request[p]
  BY DEF RequestFails, End, TypeOK, RequestsOK
<1>3. UNCHANGED <<session, kept, contested>> /\ lost' = lost \union {t}
  BY <1>1 DEF RequestFails, tables
<1> SUFFICES ASSUME NEW s \in Sids, Undisturbed(s)' PROVE KeptAt(s)'
  BY DEF KeptInv
<1>4. Undisturbed(s) /\ s # t
  BY <1>3 DEF Undisturbed
<1>5. \A p \in Requests : Rotates(p, s)' => Rotates(p, s)
  BY <1>2 DEF Rotates, InAnswer, IdleRequest
<1>6. \A p \in Requests : InAnswer(p, s) \/ InAnswer(p, s)' => request'[p] = request[p]
  BY <1>1, <1>2, <1>4 DEF InAnswer, IdleRequest
<1> QED
  BY <1>3, <1>4, <1>5, <1>6, SameKept DEF KeptInv

LEMMA RestartKeeps ==
  ASSUME KeptInv, Restart
  PROVE  KeptInv'
<1>1. \A p \in Requests : request'[p] = IdleRequest
  BY DEF Restart
<1>2. \A s : \A p \in Requests : ~Rotates(p, s)' /\ ~InAnswer(p, s)'
  BY <1>1 DEF Rotates, InAnswer, IdleRequest
<1>3. UNCHANGED <<session, kept, contested>>
  BY DEF Restart, tables
<1>4. ASSUME NEW s \in Sids, Undisturbed(s)' PROVE KeptAt(s)'
  <2>1. Undisturbed(s) /\ \A p \in Requests : ~InAnswer(p, s)
    BY <1>3, <1>4 DEF Restart, Undisturbed, InAnswer
  <2> QED
    BY <1>2, <1>3, <2>1 DEF KeptInv, KeptAt
<1> QED
  BY <1>4 DEF KeptInv

LEMMA NextKept == TypeOK /\ KeptInv /\ [Next]_vars => KeptInv'
<1> SUFFICES ASSUME TypeOK, KeptInv, [Next]_vars PROVE KeptInv'
  OBVIOUS
<1>1. ASSUME UNCHANGED <<session, request, kept, lost, contested>> PROVE KeptInv'
  BY <1>1 DEF KeptInv, KeptAt, Undisturbed, Rotates, InAnswer
<1>2. Tick \/ UNCHANGED vars => KeptInv'
  BY <1>1 DEF Tick, vars, tables, held
<1>3. ASSUME NEW q \in Requests, SameTokens, Turned(request[q], request'[q]), Moves(q)
      PROVE  KeptInv'
  BY <1>3, TurnKeeps DEF Moves
<1>4. ASSUME NEW q \in Requests, RequestStart(q) PROVE KeptInv'
  BY <1>3, <1>4, StartTurns, StartMoves
<1>5. ASSUME NEW q \in Requests, RequestStep(q) PROVE KeptInv'
  BY <1>3, <1>5, StepTurns, StepMoves, OpenKeeps, RefreshSaveKeeps, AnswerKeeps
<1>6. ASSUME NEW q \in Requests, RequestFails(q) PROVE KeptInv'
  BY <1>3, <1>6, StepTurns, StepMoves, LostAnswerKeeps
<1> QED
  BY <1>2, <1>4, <1>5, <1>6, RestartKeeps DEF Next

LEMMA InitKept == Init => KeptInv
<1> SUFFICES ASSUME Init PROVE KeptInv
  OBVIOUS
<1>1. \A q \in Requests : request[q] = IdleRequest
  BY DEF Init
<1>2. \A s : \A q \in Requests : ~Rotates(q, s) /\ ~InAnswer(q, s)
  BY <1>1 DEF Rotates, InAnswer, IdleRequest
<1>3. \A s \in Sids : kept[s] = session[s].iat
  BY DEF Init
<1> QED
  BY <1>2, <1>3 DEF KeptInv, KeptAt

\* What the client of a session keeps, and what it rests on.
THEOREM KeptInvariant == Spec => []KeptInv
<1>1. Init => KeptInv
  BY InitKept
<1>2. TypeOK /\ KeptInv /\ [Next]_vars => KeptInv'
  BY NextKept
<1> QED
  BY <1>1, <1>2, TypeCorrect, PTL DEF Spec

\* As long as two refreshes of a session have never overlapped and no answer to its
\* client was lost, the client keeps the token whose hash the session holds, or
\* the answer that brings it is on its way.
THEOREM KeptTokenTheorem == Spec => []KeptTokenIsStored
<1>1. KeptInv => KeptTokenIsStored
  BY DEF KeptInv, KeptAt, KeptTokenIsStored
<1> QED
  BY <1>1, KeptInvariant, PTL

-----------------------------------------------------------------------------
(***************************************************************************)
(* Phones.  The OTP of a change is with the request that has verified it,  *)
(* then with the action that this request marks used.                      *)
(***************************************************************************)

\* What an OTP proves it proves for good.
ProofsStay == \A o, p, purpose : Proves(o, p, purpose) => Proves(o, p, purpose)'

LEMMA OtpStepsProve ==
  ASSUME TypeOK
  PROVE  /\ UNCHANGED otps => ProofsStay
         /\ \A p, purpose : StoreOtp(p, purpose) => ProofsStay
         /\ \A i \in DOMAIN otps : DeliverOtp(i) => ProofsStay
         /\ ForgetOtps => ProofsStay
         /\ \A i, p, purpose : VerifyOtp(i, p, purpose) =>
              ProofsStay /\ ~Spent(i) /\ Proves(i, p, purpose)'
<1>0. otps \in Seq(Otp) /\ \A i \in DOMAIN otps : otps[i] \in Otp
  BY DEF TypeOK, OtpsOK
<1>1. UNCHANGED otps => ProofsStay
  BY DEF ProofsStay, Proves, Spent
<1>2. ASSUME NEW p, NEW purpose, StoreOtp(p, purpose) PROVE ProofsStay
  <2>1. \A o \in DOMAIN otps : o \in DOMAIN otps' /\ otps'[o] = otps[o]
    BY <1>0, <1>2 DEF StoreOtp
  <2> QED
    BY <2>1 DEF ProofsStay, Proves, Spent
<1>3. ASSUME NEW i \in DOMAIN otps, DeliverOtp(i) PROVE ProofsStay
  <2>1. \A o \in DOMAIN otps : otps[o].status = "verified" => otps'[o] = otps[o]
    BY <1>0, <1>3 DEF DeliverOtp, Otp
  <2>2. DOMAIN otps' = DOMAIN otps
    BY <1>3 DEF DeliverOtp
  <2> QED
    BY <2>1, <2>2 DEF ProofsStay, Proves, Spent
<1>4. ASSUME ForgetOtps PROVE ProofsStay
  <2>1. /\ DOMAIN otps' = DOMAIN otps
        /\ \A o \in DOMAIN otps : otps[o].status = "verified" => otps'[o] = otps[o]
    BY <1>4 DEF ForgetOtps
  <2> QED
    BY <2>1 DEF ProofsStay, Proves, Spent
<1>5. ASSUME NEW i, NEW p, NEW purpose, VerifyOtp(i, p, purpose)
      PROVE  ProofsStay /\ ~Spent(i) /\ Proves(i, p, purpose)'
  <2>1. /\ i \in DOMAIN otps /\ otps[i].phone = p /\ otps[i].purpose = purpose
        /\ otps[i].status = "delivered"
    BY <1>5 DEF VerifyOtp, Usable, Unverified
  <2>2. PICK o : o = [otps[i] EXCEPT !.status = "verified"]
    OBVIOUS
  <2>3. o.phone = p /\ o.purpose = purpose /\ o.status = "verified"
    BY <1>0, <2>1, <2>2 DEF Otp
  <2>4. /\ DOMAIN otps' = DOMAIN otps /\ otps'[i] = o
        /\ \A j \in DOMAIN otps : j # i => otps'[j] = otps[j]
    BY <1>5, <2>1, <2>2 DEF VerifyOtp
  <2>5. ProofsStay
    BY <2>1, <2>4 DEF ProofsStay, Proves, Spent
  <2> QED
    BY <2>1, <2>3, <2>4, <2>5 DEF Proves, Spent
<1> QED
  BY <1>1, <1>2, <1>3, <1>4, <1>5

LEMMA NextProves ==
  ASSUME TypeOK, [Next]_vars
  PROVE  ProofsStay
<1>1. UNCHANGED otps => ProofsStay
  BY OtpStepsProve
<1>2. ASSUME NEW q \in Requests, RequestStart(q) PROVE ProofsStay
  <2>1. ASSUME NEW p \in Phones PROVE Register(q, p) \/ Login(q, p) => ProofsStay
    BY OtpStepsProve DEF Register, Login
  <2>2. ASSUME NEW a, NEW p PROVE RequestPhoneChange(q, a, p) => ProofsStay
    BY OtpStepsProve DEF RequestPhoneChange
  <2>3. ASSUME NEW a, NEW p, NEW i
        PROVE  VerifyRegistration(q, p, i) \/ VerifyPhoneChange(q, a, i) => UNCHANGED otps
    BY DEF VerifyRegistration, VerifyPhoneChange
  <2>4. ASSUME NEW a PROVE VerifyLogin(q, a) \/ EnableTwoFactor(q, a) => UNCHANGED otps
    BY DEF VerifyLogin, EnableTwoFactor
  <2>5. ASSUME NEW i PROVE VerifyTwoFactor(q, i) \/ VerifyTwoFactorSetup(q, i) => UNCHANGED otps
    BY DEF VerifyTwoFactor, VerifyTwoFactorSetup
  <2>6. ASSUME NEW t, NEW s PROVE Refresh(q, t) \/ Logout(q, s) => UNCHANGED otps
    BY DEF Refresh, Logout
  <2> QED
    BY <1>1, <1>2, <2>1, <2>2, <2>3, <2>4, <2>5, <2>6 DEF RequestStart
<1>3. ASSUME NEW q \in Requests, RequestStep(q) PROVE ProofsStay
  <2>1. Delivered(q) => ProofsStay
    <3>1. Delivered(q) => request[q].otp \in DOMAIN otps
      BY DEF Delivered, TypeOK, RequestsOK, RequestOK
    <3> QED
      BY <3>1, OtpStepsProve DEF Delivered
  <2>2. ASSUME NEW o
        PROVE  RegistrationOtp(q, o) \/ LoginOtp(q, o) \/ ChangeOtp(q, o) => ProofsStay
    BY OtpStepsProve DEF RegistrationOtp, LoginOtp, ChangeOtp
  <2>3. SaveRegistration(q) \/ SaveChange(q) \/ Answer(q) => UNCHANGED otps
    BY DEF SaveRegistration, SaveChange, Answer
  <2>4. RegistrationCheck(q) \/ (\E a \in Accounts : SaveAccount(q, a)) => UNCHANGED otps
    BY DEF RegistrationCheck, SaveAccount
  <2>5. LoginTwoFactor(q) \/ ChallengeSave(q) \/ SetupSave(q) => UNCHANGED otps
    BY DEF LoginTwoFactor, ChallengeSave, SetupSave
  <2>6. (\E s \in Sids : OpenSession(q, s)) \/ RefreshSave(q) \/ LogoutSave(q) => UNCHANGED otps
    BY DEF OpenSession, RefreshSave, LogoutSave
  <2>7. RefreshSign(q) \/ SetupCheck(q) \/ ChangeCheck(q) \/ ChangeSave(q) => UNCHANGED otps
    BY DEF RefreshSign, SetupCheck, ChangeCheck, ChangeSave
  <2>8. Refused(q) => UNCHANGED otps
    BY DEF Refused
  <2> QED
    BY <1>1, <1>3, <2>1, <2>2, <2>3, <2>4, <2>5, <2>6, <2>7, <2>8 DEF RequestStep
<1>4. Tick \/ UNCHANGED vars \/ (\E q \in Requests : RequestFails(q)) => UNCHANGED otps
  BY DEF Tick, vars, RequestFails
<1>5. Restart => ProofsStay
  BY OtpStepsProve DEF Restart
<1> QED
  BY <1>1, <1>2, <1>3, <1>4, <1>5 DEF Next

\* What the inductive invariant says of the action of a request.
MatchOK(r) ==
  /\ ActionFor(r.step) \in {"REGISTRATION", "PHONE_CHANGE"} => actions[r.action].phone = r.phone
  /\ ActionFor(r.step) = "PHONE_CHANGE" => actions[r.action].account = r.account

LEMMA NextMatch ==
  ASSUME TypeOK, [Next]_vars, NEW q \in Requests, MatchOK(request[q])
  PROVE  MatchOK(request[q])'
<1>1. PICK r, n : r = request[q] /\ n = request'[q]
  OBVIOUS
<1>2. RequestOK(r) /\ MatchOK(r) /\ Moved(r, n)
  BY <1>1, RowTypes, NextMoved
<1>3. ActionFor(n.step) \in {"REGISTRATION", "PHONE_CHANGE"} =>
        /\ n.action \in DOMAIN actions /\ actions[n.action].phone = n.phone
        /\ ActionFor(n.step) = "PHONE_CHANGE" => actions[n.action].account = n.account
  <2>1. CASE n = r
    BY <1>2, <2>1 DEF RequestOK, MatchOK
  <2>2. CASE MovedInRegistration(r, n)
    BY <1>2, <2>2 DEF MovedInRegistration, RequestOK, MatchOK, ActionFor, WorksOn, Carried
  <2>3. CASE MovedInChange(r, n)
    BY <1>2, <2>3 DEF MovedInChange, RequestOK, MatchOK, ActionFor, WorksOn, Carried
  <2>4. CASE MovedInLogin(r, n)
    BY <2>4 DEF MovedInLogin, ActionFor
  <2>5. CASE n = IdleRequest
    BY <2>5 DEF IdleRequest, ActionFor
  <2> QED
    BY <1>2, <2>1, <2>2, <2>3, <2>4, <2>5 DEF Moved, ActionFor
<1>4. ActionFor(n.step) = "PHONE_CHANGE" => actions'[n.action].type = "PHONE_CHANGE"
  <2>1. TypeOK'
    BY NextTypeOK
  <2> QED
    BY <1>1, <2>1 DEF TypeOK, RequestsOK, RequestOK
<1> QED
  BY <1>1, <1>3, <1>4, NextRows DEF MatchOK

\* A request that has the OTP of a change has had it, or verifies it in this step.
LEMMA NextBears ==
  ASSUME TypeOK, [Next]_vars, NEW q \in Requests, Bears(request'[q])
  PROVE  \/ /\ Bears(request[q]) /\ request'[q].otp = request[q].otp
            /\ request'[q].phone = request[q].phone
            /\ ActionFor(request'[q].step) = ActionFor(request[q].step)
         \/ VerifyOtp(request'[q].otp, request'[q].phone, ActionFor(request'[q].step))
<1>1. PICK r, n : r = request[q] /\ n = request'[q]
  OBVIOUS
<1>2. Moved(r, n) /\ Bears(n)
  BY <1>1, NextMoved
<1>3. n = r \/ MovedInRegistration(r, n) \/ MovedInChange(r, n)
  BY <1>2 DEF Moved, Bears, IdleRequest, MovedInLogin
<1>4. \/ /\ Bears(r) /\ n.otp = r.otp /\ n.phone = r.phone
         /\ ActionFor(n.step) = ActionFor(r.step)
      \/ VerifyOtp(n.otp, n.phone, ActionFor(n.step))
  BY <1>2, <1>3 DEF Bears, MovedInRegistration, MovedInChange, Carried, ActionFor
<1> QED
  BY <1>1, <1>4

\* A change that is not as it was has just been marked used by the request that
\* has its OTP, and that has it no longer.
Uses(q, i) ==
  /\ Bears(request[q]) /\ ~Bears(request'[q]) /\ Moves(q)
  /\ request[q].action = i /\ i \in DOMAIN actions
  /\ actions[i].type = ActionFor(request[q].step)
  /\ actions'[i].otp = request[q].otp
  /\ \A j \in DOMAIN actions' : j # i => j \in DOMAIN actions /\ actions'[j] = actions[j]

LEMMA NextUses ==
  ASSUME TypeOK, [Next]_vars, NEW i, UsedChange(i)'
  PROVE  \/ UsedChange(i) /\ actions'[i] = actions[i]
         \/ \E q \in Requests : Uses(q, i)
<1>1. CASE i \in DOMAIN actions /\ actions'[i] = actions[i]
  BY <1>1 DEF UsedChange
<1>2. CASE ~(i \in DOMAIN actions /\ actions'[i] = actions[i])
  <2>0. i \in DOMAIN actions' /\ actions'[i].used
        /\ actions'[i].type \in {"REGISTRATION", "PHONE_CHANGE"}
    BY DEF UsedChange
  <2>1. /\ i \in DOMAIN actions
        /\ \A j \in DOMAIN actions' : j # i => j \in DOMAIN actions /\ actions'[j] = actions[j]
    BY <1>2, <2>0, Rewritten
  <2>2. PICK q \in Requests : Writes(q) /\ request[q].action = i
    BY <1>2, <2>0, Rewritten
  <2>3. actions[i].type \in {"REGISTRATION", "PHONE_CHANGE"}
    BY <2>0, <2>1, NextRows
  <2>4. Moves(q)
    BY <2>2, StepMoves DEF RequestStep, Writes
  <2>5. ChangeSave(q) \/ \E a \in Accounts : SaveAccount(q, a)
    BY <2>2, <2>3, WritesType DEF Writes
  <2>6. actions'[i].otp = request[q].otp
    <3>1. PICK row : Marks(i, row) /\ row.otp = request[q].otp
      BY <2>2, <2>5, WriteMarks
    <3> QED
      BY <3>1 DEF Marks
  <2>7. Bears(request[q]) /\ actions[i].type = ActionFor(request[q].step)
    <3>1. CASE ChangeSave(q)
      BY <2>2, <3>1, WritesType DEF ChangeSave, Bears, ActionFor
    <3>2. ASSUME NEW a \in Accounts, SaveAccount(q, a)
          PROVE  Bears(request[q]) /\ actions[i].type = ActionFor(request[q].step)
      BY <2>2, <3>2, WritesType DEF SaveAccount, Bears, ActionFor
    <3> QED
      BY <2>5, <3>1, <3>2
  <2>8. ~Bears(request'[q])
    <3>1. request'[q].step \in {"openSession", "idle"}
      <4>1. PICK r : r = request[q] /\ r \in Request
        BY RowTypes
      <4>2. DOMAIN request = Requests
        BY DEF TypeOK, RequestsOK
      <4>3. CASE ChangeSave(q)
        BY <4>2, <4>3 DEF ChangeSave, End, IdleRequest
      <4>4. ASSUME NEW a \in Accounts, SaveAccount(q, a) PROVE request'[q].step = "openSession"
        BY <4>1, <4>2, <4>4 DEF SaveAccount, Request
      <4> QED
        BY <2>5, <4>3, <4>4
    <3> QED
      BY <3>1 DEF Bears
  <2> QED
    BY <2>1, <2>2, <2>4, <2>6, <2>7, <2>8 DEF Uses
<1> QED
  BY <1>1, <1>2

LEMMA NextHaveProof ==
  ASSUME TypeOK, [Next]_vars, ChangesHaveProof, \A q \in Requests : MatchOK(request[q])
  PROVE  ChangesHaveProof'
<1>1. ASSUME NEW q \in Requests, Bears(request'[q])
      PROVE  Proves(request[q].otp, request[q].phone, ActionFor(request[q].step))'
  <2>1. PICK r, n : r = request[q] /\ n = request'[q]
    OBVIOUS
  <2>2. CASE /\ Bears(r) /\ n.otp = r.otp /\ n.phone = r.phone
             /\ ActionFor(n.step) = ActionFor(r.step)
    <3>1. Proves(r.otp, r.phone, ActionFor(r.step))
      BY <2>1, <2>2 DEF ChangesHaveProof
    <3>2. Proves(r.otp, r.phone, ActionFor(r.step))'
      BY <3>1, NextProves DEF ProofsStay
    <3> QED
      BY <2>1, <2>2, <3>2 DEF Proves, Spent
  <2>3. CASE VerifyOtp(n.otp, n.phone, ActionFor(n.step))
    <3>1. Proves(n.otp, n.phone, ActionFor(n.step))'
      BY <2>3, OtpStepsProve
    <3> QED
      BY <2>1, <3>1 DEF Proves, Spent
  <2> QED
    BY <1>1, <2>1, <2>2, <2>3, NextBears
<1>2. ASSUME NEW i \in DOMAIN actions', UsedChange(i)'
      PROVE  Proves(actions[i].otp, actions[i].phone, actions[i].type)'
  <2>1. PICK o, p, t : o = actions'[i].otp /\ p = actions'[i].phone /\ t = actions'[i].type
    OBVIOUS
  <2>2. Proves(o, p, t)
    <3>1. CASE UsedChange(i) /\ actions'[i] = actions[i]
      BY <2>1, <3>1 DEF ChangesHaveProof, UsedChange
    <3>2. ASSUME NEW q \in Requests, Uses(q, i) PROVE Proves(o, p, t)
      <4>1. Proves(request[q].otp, request[q].phone, ActionFor(request[q].step))
        BY <3>2 DEF Uses, ChangesHaveProof
      <4>2. o = request[q].otp
        BY <2>1, <3>2 DEF Uses
      <4>3. t = actions[i].type /\ p = actions[i].phone
        BY <2>1, <3>2, NextRows DEF Uses
      <4>4. actions[i].type = ActionFor(request[q].step)
        BY <3>2 DEF Uses
      <4>5. actions[i].phone = request[q].phone
        BY <3>2 DEF Uses, MatchOK, Bears, ActionFor
      <4> QED
        BY <4>1, <4>2, <4>3, <4>4, <4>5
    <3> QED
      BY <1>2, <3>1, <3>2, NextUses
  <2>3. Proves(o, p, t)'
    BY <2>2, NextProves DEF ProofsStay
  <2> QED
    BY <2>1, <2>3 DEF Proves, Spent
<1> QED
  BY <1>1, <1>2 DEF ChangesHaveProof, UsedChange

LEMMA NextApart ==
  ASSUME TypeOK, [Next]_vars, ChangesHaveProof, ProofsAreApart, OneChangePerOtp
  PROVE  ProofsAreApart' /\ OneChangePerOtp'
<1> DEFINE Kept(q) == Bears(request[q]) /\ request'[q].otp = request[q].otp
<1>1. \A q \in Requests : Bears(request[q]) => Spent(request[q].otp)
  BY DEF ChangesHaveProof, Proves
<1>2. \A i : UsedChange(i) => Spent(actions[i].otp)
  BY DEF ChangesHaveProof, Proves, UsedChange
<1>3. \A q \in Requests : Bears(request'[q]) => Kept(q) \/ ~Spent(request'[q].otp)
  BY NextBears, OtpStepsProve
<1>4. \A p, q \in Requests : p # q /\ Bears(request'[p]) /\ Bears(request'[q]) => Kept(p) \/ Kept(q)
  <2>1. ~Bears(IdleRequest)
    BY DEF Bears, IdleRequest
  <2> QED
    BY <2>1, NextMoves DEF Ended, Moves
<1>5. \A p, q \in Requests :
        Bears(request[p]) /\ Bears(request[q]) /\ request[p].otp = request[q].otp => p = q
  BY DEF ProofsAreApart
<1>6. \A q \in Requests : \A i :
        Bears(request[q]) /\ UsedChange(i) => request[q].otp # actions[i].otp
  BY DEF ProofsAreApart, UsedChange
<1>7. \A i, j : UsedChange(i) /\ UsedChange(j) /\ actions[i].otp = actions[j].otp => i = j
  BY DEF OneChangePerOtp, UsedChange
<1>8. ASSUME NEW p \in Requests, NEW q \in Requests, Bears(request'[p]), Bears(request'[q]),
             request'[p].otp = request'[q].otp, p # q
      PROVE  FALSE
  BY <1>1, <1>3, <1>4, <1>5, <1>8
<1>9. ASSUME NEW q \in Requests, NEW i, Bears(request'[q]), UsedChange(i)',
             request'[q].otp = actions'[i].otp
      PROVE  FALSE
  <2>1. CASE UsedChange(i) /\ actions'[i] = actions[i]
    BY <1>2, <1>3, <1>6, <1>9, <2>1
  <2>2. ASSUME NEW w \in Requests, Uses(w, i) PROVE FALSE
    <3>1. w # q /\ Bears(request[w]) /\ request[w].otp = request'[q].otp
      BY <1>9, <2>2 DEF Uses
    <3>2. request'[q] = request[q]
      BY <2>2, <3>1 DEF Uses, Moves
    <3> QED
      BY <1>5, <1>9, <3>1, <3>2
  <2> QED
    BY <1>9, <2>1, <2>2, NextUses
<1>10. ASSUME NEW i, NEW j, UsedChange(i)', UsedChange(j)', actions'[i].otp = actions'[j].otp, i # j
       PROVE  FALSE
  <2>1. ASSUME NEW w \in Requests, NEW k, NEW l, Uses(w, k), UsedChange(l)', k # l,
               actions'[k].otp = actions'[l].otp
        PROVE  FALSE
    <3>1. l \in DOMAIN actions /\ actions'[l] = actions[l]
      BY <2>1 DEF Uses, UsedChange
    <3>2. UsedChange(l)
      BY <2>1, <3>1 DEF UsedChange
    <3>3. Bears(request[w]) /\ request[w].otp = actions[l].otp
      BY <2>1, <3>1 DEF Uses
    <3> QED
      BY <1>6, <3>2, <3>3
  <2>2. (UsedChange(i) /\ actions'[i] = actions[i]) \/ \E w \in Requests : Uses(w, i)
    BY <1>10, NextUses
  <2>3. (UsedChange(j) /\ actions'[j] = actions[j]) \/ \E w \in Requests : Uses(w, j)
    BY <1>10, NextUses
  <2> QED
    BY <1>7, <1>10, <2>1, <2>2, <2>3
<1>11. ProofsAreApart'
  BY <1>8, <1>9 DEF ProofsAreApart
<1>12. OneChangePerOtp'
  BY <1>10 DEF OneChangePerOtp
<1> QED
  BY <1>11, <1>12

\* Two steps give an account a phone, one that nobody else has.
NewPhone(q, a, p) ==
  /\ request[q].phone = p
  /\ Bears(request[q])
  /\ \/ /\ SaveAccount(q, a)
        /\ ~Taken(p)
     \/ /\ ChangeSave(q) /\ request[q].account = a
        /\ \A b \in Accounts \ {a} : ~Holds(b, p)
  /\ phone'[a] = p /\ \A b \in Accounts \ {a} : phone'[b] = phone[b]

LEMMA NextPhones ==
  ASSUME TypeOK, [Next]_vars
  PROVE  /\ start' = start
         /\ UNCHANGED phone \/ \E q \in Requests, a \in Accounts, p \in Phones : NewPhone(q, a, p)
<1>d. DOMAIN phone = Accounts
  BY DEF TypeOK, AccountsOK
<1>1. ASSUME NEW q \in Requests, NEW a \in Accounts, SaveAccount(q, a)
      PROVE  start' = start /\ \E p \in Phones : NewPhone(q, a, p)
  <2>1. PICK p \in Phones : p = request[q].phone
    BY <1>1, RowTypes DEF SaveAccount, RequestOK
  <2> QED
    BY <1>1, <1>d, <2>1 DEF SaveAccount, NewPhone, Bears
<1>2. ASSUME NEW q \in Requests, ChangeSave(q)
      PROVE  /\ start' = start
             /\ UNCHANGED phone \/ \E a \in Accounts, p \in Phones : NewPhone(q, a, p)
  <2>1. PICK a \in Accounts, p \in Phones : a = request[q].account /\ p = request[q].phone
    BY <1>2, RowTypes DEF ChangeSave, RequestOK
  <2> QED
    BY <1>2, <1>d, <2>1 DEF ChangeSave, NewPhone, Bears
<1>3. ASSUME NEW q \in Requests, SetupSave(q) \/ ChallengeSave(q)
      PROVE  start' = start /\ UNCHANGED phone
  BY <1>3 DEF SetupSave, ChallengeSave
<1> QED
  BY <1>1, <1>2, <1>3, NextWrites DEF Still, Writes

LEMMA NextOwn ==
  ASSUME TypeOK, [Next]_vars, PhonesAreOwn, \A q \in Requests : MatchOK(request[q])
  PROVE  PhonesAreOwn'
<1>1. ASSUME NEW a \in Accounts, NEW b \in Accounts, phone'[a] = phone'[b], phone'[a] # None, a # b
      PROVE  FALSE
  <2>1. ~UNCHANGED phone
    BY <1>1 DEF PhonesAreOwn
  <2>2. PICK q \in Requests, c \in Accounts, p \in Phones : NewPhone(q, c, p)
    BY <2>1, NextPhones
  <2>3. \A d \in Accounts \ {c} : phone[d] # p
    BY <2>2 DEF NewPhone, Taken, Holds
  <2>4. phone'[c] = p /\ \A d \in Accounts \ {c} : phone'[d] = phone[d]
    BY <2>2 DEF NewPhone
  <2> QED
    BY <1>1, <2>3, <2>4 DEF PhonesAreOwn
<1>2. ASSUME NEW a \in Accounts, phone'[a] # start'.phone[a]
      PROVE  \E i \in DOMAIN actions' :
               UsedChange(i)' /\ actions'[i].account = a /\ actions'[i].phone = phone'[a]
  <2>1. CASE phone'[a] = phone[a]
    <3>1. PICK i \in DOMAIN actions :
            UsedChange(i) /\ actions[i].account = a /\ actions[i].phone = phone[a]
      BY <1>2, <2>1, NextPhones DEF PhonesAreOwn
    <3>2. UsedChange(i)' /\ actions'[i].phone = phone'[a]
      BY <2>1, <3>1, NextRows DEF UsedChange
    <3>3. actions'[i].account = a
      <4>1. CASE actions'[i] = actions[i]
        BY <3>1, <4>1
      <4>2. CASE actions[i].type # "REGISTRATION"
        BY <3>1, <4>2, NextRows
      <4>3. ASSUME actions'[i] # actions[i], actions[i].type = "REGISTRATION" PROVE FALSE
        <5>1. i \in DOMAIN actions' /\ actions'[i].used
          BY <3>2 DEF UsedChange
        <5>2. PICK q \in Requests : Writes(q) /\ request[q].action = i
          BY <4>3, <5>1, Rewritten
        <5>3. PICK b \in Accounts : SaveAccount(q, b)
          BY <4>3, <5>2, WritesType DEF Writes
        <5>4. request[q].phone = phone[a]
          BY <3>1, <5>2, <5>3 DEF MatchOK, SaveAccount, ActionFor
        <5> QED
          BY <5>3, <5>4 DEF SaveAccount, Taken, Holds
      <4> QED
        BY <4>1, <4>2, <4>3
    <3> QED
      BY <3>2, <3>3 DEF UsedChange
  <2>2. CASE phone'[a] # phone[a]
    <3>1. PICK q \in Requests, p \in Phones : NewPhone(q, a, p)
      BY <2>2, NextPhones DEF NewPhone
    <3>2. PICK i : i = request[q].action
      OBVIOUS
    <3>3. /\ i \in DOMAIN actions /\ actions[i].phone = p
          /\ actions[i].type \in {"REGISTRATION", "PHONE_CHANGE"}
      BY <3>1, <3>2, RowTypes DEF NewPhone, Bears, MatchOK, RequestOK, ActionFor
    <3>4. PICK row : Marks(i, row) /\ row.account = a
      <4>1. CASE SaveAccount(q, a)
        BY <3>2, <4>1, WriteMarks
      <4>2. CASE ChangeSave(q) /\ request[q].account = a
        <5>1. actions[i].account = a
          BY <3>2, <4>2 DEF MatchOK, ChangeSave, ActionFor
        <5> QED
          BY <3>2, <4>2, <5>1, WriteMarks
      <4> QED
        BY <3>1, <4>1, <4>2 DEF NewPhone
    <3>5. phone'[a] = p
      BY <3>1 DEF NewPhone
    <3> QED
      BY <3>3, <3>4, <3>5 DEF Marks, UsedChange
  <2> QED
    BY <2>1, <2>2
<1> QED
  BY <1>1, <1>2 DEF PhonesAreOwn

LEMMA NextPhoneInv == TypeOK /\ PhoneInv /\ [Next]_vars => PhoneInv'
<1> SUFFICES ASSUME TypeOK, PhoneInv, [Next]_vars PROVE PhoneInv'
  OBVIOUS
<1>1. \A q \in Requests : MatchOK(request[q])
  BY DEF PhoneInv, ActionsMatch, MatchOK
<1>2. \A q \in Requests : MatchOK(request[q])'
  BY <1>1, NextMatch
<1>3. ActionsMatch'
  BY <1>2 DEF ActionsMatch, MatchOK
<1>4. ChangesHaveProof'
  BY <1>1, NextHaveProof DEF PhoneInv
<1>5. ProofsAreApart' /\ OneChangePerOtp'
  BY NextApart DEF PhoneInv
<1>6. PhonesAreOwn'
  BY <1>1, NextOwn DEF PhoneInv
<1> QED
  BY <1>3, <1>4, <1>5, <1>6 DEF PhoneInv

LEMMA InitPhoneInv == Init => PhoneInv
<1> SUFFICES ASSUME Init PROVE PhoneInv
  OBVIOUS
<1>1. \A q \in Requests : request[q] = IdleRequest
  <2>1. request = [q \in Requests |-> IdleRequest]
    BY DEF Init
  <2> QED
    BY <2>1
<1>2. \A i \in DOMAIN actions : FALSE
  <2>1. actions = <<>>
    BY DEF Init
  <2> QED
    BY <2>1
<1>3. ~Bears(IdleRequest) /\ ActionFor(IdleRequest.step) = "none"
  BY DEF Bears, IdleRequest, ActionFor
<1>4. PhonesAreOwn
  <2>1. start \in Starts /\ phone = start.phone
    BY DEF Init
  <2> QED
    BY <2>1, AccountsAssumption DEF PhonesAreOwn
<1>5. ActionsMatch
  BY <1>1, <1>3 DEF ActionsMatch
<1>6. ChangesHaveProof /\ ProofsAreApart
  BY <1>1, <1>2, <1>3 DEF ChangesHaveProof, ProofsAreApart
<1>7. OneChangePerOtp
  BY <1>2 DEF OneChangePerOtp
<1> QED
  BY <1>4, <1>5, <1>6, <1>7 DEF PhoneInv

\* The OTP of a change is with one request, then with one action, and is proof of
\* the phone the change is about.
THEOREM PhoneInvariant == Spec => []PhoneInv
<1>1. Init => PhoneInv
  BY InitPhoneInv
<1>2. TypeOK /\ PhoneInv /\ [Next]_vars => PhoneInv'
  BY NextPhoneInv
<1> QED
  BY <1>1, <1>2, TypeCorrect, PTL DEF Spec

\* No two accounts have the same phone, and whoever got another phone, or came into
\* being, has used an action with an OTP that was sent to it for that purpose.
THEOREM PhoneTheorem == Spec => []PhoneIsProven
<1>1. PhoneInv => PhoneIsProven
  <2> SUFFICES ASSUME PhoneInv PROVE PhoneIsProven
    OBVIOUS
  <2>1. \A i \in DOMAIN actions : UsedChange(i) =>
          Proves(actions[i].otp, actions[i].phone, actions[i].type)
    BY DEF PhoneInv, ChangesHaveProof
  <2>2. PhonesAreOwn
    BY DEF PhoneInv
  <2> QED
    BY <2>1, <2>2 DEF PhonesAreOwn, PhoneIsProven, Proves, Spent, UsedChange
<1> QED
  BY <1>1, PhoneInvariant, PTL

\* No OTP changes two things.
THEOREM OneChangeTheorem == Spec => []OneChangePerOtp
<1>1. PhoneInv => OneChangePerOtp
  BY DEF PhoneInv
<1> QED
  BY <1>1, PhoneInvariant, PTL
=============================================================================
