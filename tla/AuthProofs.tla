------------------------------ MODULE AuthProofs ------------------------------
(***************************************************************************)
(* Theorems about Authentication, for any accounts, phones, sessions and   *)
(* request slots, any times to live and any bounds.                        *)
(***************************************************************************)
EXTENDS Authentication, TLAPS

LEMMA TimeType == /\ Time \subseteq Nat
                  /\ 0 \in Time
                  /\ \A t \in Time : t \in Int /\ 0 <= t
  BY LimitAssumption DEF Time

LEMMA IdleType == /\ IdleRequest \in Request
                  /\ IdleRequest.step = "idle"
                  /\ ~IdleRequest.challenge
                  /\ RequestOK(IdleRequest) /\ RequestOK(IdleRequest)'
  BY DEF IdleRequest, Request, RequestSteps, RequestOK, ActionFor

-----------------------------------------------------------------------------
(***************************************************************************)
(* Type correctness.  Rows are never deleted: what a request or a token    *)
(* refers to stays.                                                        *)
(***************************************************************************)
Grows ==
  /\ Registered \subseteq Registered'
  /\ OpenSids \subseteq OpenSids'
  /\ DOMAIN otps \subseteq DOMAIN otps'
  /\ DOMAIN actions \subseteq DOMAIN actions'
  /\ \A i \in DOMAIN actions : actions'[i].type = actions[i].type

\* What a step leaves alone keeps its type.
LEMMA UnchangedParts ==
  ASSUME TypeOK, Grows
  PROVE  /\ UNCHANGED <<phone, twoFactor>> => AccountsOK'
         /\ UNCHANGED <<refreshTokens, accessTokens>> => TokensOK'
         /\ UNCHANGED actions => ActionsOK'
         /\ UNCHANGED session => SessionsOK'
         /\ UNCHANGED otps => OtpsOK'
         /\ UNCHANGED <<kept, lost, contested, count>> => BooksOK'
         /\ UNCHANGED <<start, now>> => (start \in Starts /\ now \in Time)'
<1>1. UNCHANGED <<phone, twoFactor>> => AccountsOK'
  BY DEF TypeOK, Grows, AccountsOK
<1>2. UNCHANGED <<refreshTokens, accessTokens>> => TokensOK'
  <2> SUFFICES ASSUME UNCHANGED <<refreshTokens, accessTokens>> PROVE TokensOK'
    OBVIOUS
  <2>1. [sid : OpenSids, iat : Time] \subseteq [sid : OpenSids', iat : Time]
    BY DEF Grows
  <2>2. [sid : OpenSids, phone : Phones, signed : Time]
          \subseteq [sid : OpenSids', phone : Phones, signed : Time]
    BY DEF Grows
  <2> QED
    BY <2>1, <2>2 DEF TypeOK, TokensOK, Time
<1>3. UNCHANGED actions => ActionsOK'
  BY DEF TypeOK, Grows, ActionsOK, ActionOK, Action, Time
<1>4. UNCHANGED session => SessionsOK'
  BY DEF TypeOK, SessionsOK, Session, Time
<1>5. UNCHANGED otps => OtpsOK'
  BY DEF TypeOK, OtpsOK, Otp, Time
<1>6. UNCHANGED <<kept, lost, contested, count>> => BooksOK'
  BY DEF TypeOK, BooksOK
<1>7. UNCHANGED <<start, now>> => (start \in Starts /\ now \in Time)'
  BY DEF TypeOK, Time
<1> QED
  BY <1>1, <1>2, <1>3, <1>4, <1>5, <1>6, <1>7

\* With accounts, sessions and actions as they were, all that was there is.
LEMMA QuietGrows ==
  ASSUME UNCHANGED <<phone, session, actions>>, DOMAIN otps \subseteq DOMAIN otps'
  PROVE  Grows
  BY DEF Grows, Registered, OpenSids

LEMMA RequestsStep ==
  ASSUME RequestsOK, Grows, NEW q \in Requests, NEW req \in Request,
         RequestOK(req)', request' = [request EXCEPT ![q] = req]
  PROVE  RequestsOK'
<1>1. request' \in [Requests -> Request]
  BY DEF RequestsOK
<1>2. ASSUME NEW p \in Requests PROVE RequestOK(request[p])'
  <2>1. CASE p = q
    <3>1. request'[p] = req
      BY <2>1 DEF RequestsOK
    <3> QED
      BY <3>1 DEF RequestOK
  <2>2. CASE p # q
    <3>1. request'[p] = request[p]
      BY <2>2 DEF RequestsOK
    <3>2. RequestOK(request[p])
      BY DEF RequestsOK
    <3> DEFINE r == request[p]
    <3>3. request'[p] = r /\ RequestOK(r)
      BY <3>1, <3>2
    <3> HIDE DEF r
    <3> QED
      BY <3>3 DEF Grows, RequestOK
  <2> QED
    BY <2>1, <2>2
<1> QED
  BY <1>1, <1>2 DEF RequestsOK, Request, Time

\* A step of a request that changes nothing else.
LEMMA RequestOnly ==
  ASSUME TypeOK, NEW q \in Requests, NEW req \in Request, RequestOK(req),
         request' = [request EXCEPT ![q] = req],
         UNCHANGED <<start, now, tables, otps, held, count>>
  PROVE  TypeOK'
<1>1. UNCHANGED <<start, now, phone, twoFactor, actions, session, otps, refreshTokens,
                  accessTokens, kept, lost, contested, count>>
  BY DEF tables, held
<1>2. Grows
  BY <1>1, QuietGrows
<1>3. RequestOK(req)'
  BY <1>2 DEF Grows, RequestOK
<1>4. RequestsOK'
  BY <1>2, <1>3, RequestsStep DEF TypeOK
<1> QED
  BY <1>1, <1>2, <1>4, UnchangedParts DEF TypeOK

\* The same, with the list of OTPs changed.
LEMMA RequestAndOtps ==
  ASSUME TypeOK, NEW q \in Requests, NEW req \in Request, RequestOK(req)',
         request' = [request EXCEPT ![q] = req],
         OtpsOK', DOMAIN otps \subseteq DOMAIN otps',
         UNCHANGED <<start, now, tables, held, count>>
  PROVE  TypeOK'
<1>1. UNCHANGED <<start, now, phone, twoFactor, actions, session, refreshTokens,
                  accessTokens, kept, lost, contested, count>>
  BY DEF tables, held
<1>2. Grows
  BY <1>1, QuietGrows
<1>3. RequestsOK'
  BY <1>2, RequestsStep DEF TypeOK
<1> QED
  BY <1>1, <1>2, <1>3, UnchangedParts DEF TypeOK

\* An OTP that is stored, delivered or verified.
LEMMA StoreOtpType ==
  ASSUME TypeOK, NEW p \in Phones, NEW purpose \in Purposes, StoreOtp(p, purpose)
  PROVE  /\ OtpsOK' /\ DOMAIN otps \subseteq DOMAIN otps'
         /\ Len(otps) + 1 \in DOMAIN otps' /\ Len(otps) + 1 \in Nat
<1> DEFINE o == [phone |-> p, purpose |-> purpose, created |-> now, status |-> "stored"]
<1>1. o \in Otp
  BY DEF TypeOK, Otp, OtpStatuses
<1>2. otps \in Seq(Otp) /\ otps' = Append(otps, o) /\ Len(otps) < MaxOtps
  BY DEF TypeOK, OtpsOK, StoreOtp
<1> HIDE DEF o
<1>3. otps' \in Seq(Otp) /\ Len(otps') = Len(otps) + 1
  BY <1>1, <1>2
<1>4. MaxOtps \in Nat
  BY LimitAssumption
<1>5. Len(otps) \in Nat /\ Len(otps') \in Nat
  BY <1>2, <1>3
<1>6. DOMAIN otps = 1 .. Len(otps) /\ DOMAIN otps' = 1 .. Len(otps')
  BY <1>2, <1>3
<1>7. OtpsOK'
  BY <1>2, <1>3, <1>4, <1>5 DEF OtpsOK, Otp, Time
<1> QED
  BY <1>3, <1>5, <1>6, <1>7

LEMMA OtpStatusType ==
  ASSUME TypeOK, NEW i \in DOMAIN otps, NEW s \in OtpStatuses,
         otps' = [otps EXCEPT ![i].status = s]
  PROVE  OtpsOK' /\ DOMAIN otps' = DOMAIN otps
<1>1. otps \in Seq(Otp) /\ Len(otps) <= MaxOtps
  BY DEF TypeOK, OtpsOK
<1>2. otps[i] \in Otp
  BY <1>1
<1>3. [otps[i] EXCEPT !.status = s] \in Otp
  BY <1>2 DEF Otp
<1>4. otps' \in Seq(Otp) /\ Len(otps') = Len(otps)
  BY <1>1, <1>3
<1> QED
  BY <1>1, <1>4 DEF OtpsOK, Otp, Time

\* What a row a request names has, by its type.
LEMMA RowTypes ==
  ASSUME TypeOK
  PROVE  /\ \A q \in Requests : request[q] \in Request /\ RequestOK(request[q])
         /\ \A i \in DOMAIN actions :
              actions[i] \in Action /\ ActionOK(actions[i]) /\ i \in Nat
         /\ \A i \in DOMAIN otps : otps[i] \in Otp /\ i \in Nat
         /\ \A s \in Sids : session[s] \in Session
         /\ \A a \in Registered : a \in Accounts /\ phone[a] \in Phones
         /\ \A s \in OpenSids : s \in Sids /\ session[s].account \in Registered
         /\ \A a \in Accounts : phone[a] \in Phones \union {None}
         /\ now \in Time /\ now \in Nat
  BY TimeType DEF TypeOK, RequestsOK, ActionsOK, OtpsOK, SessionsOK, AccountsOK, Registered, OpenSids

LEMMA BeginsTypeOK ==
  ASSUME TypeOK, NEW q \in Requests, NEW req \in Request, RequestOK(req), Begin(q, req),
         UNCHANGED <<start, now, tables, otps, held, count>>
  PROVE  TypeOK'
  BY RequestOnly DEF Begin

LEMMA RequestOnlyTypeOK ==
  ASSUME TypeOK, NEW q \in Requests
  PROVE  /\ \A p \in Phones, i \in DOMAIN actions : VerifyRegistration(q, p, i) => TypeOK'
         /\ \A a \in Accounts : VerifyLogin(q, a) => TypeOK'
         /\ \A i \in DOMAIN actions : VerifyTwoFactor(q, i) => TypeOK'
         /\ \A i \in DOMAIN actions : VerifyTwoFactorSetup(q, i) => TypeOK'
         /\ \A s \in Sids : Logout(q, s) => TypeOK'
         /\ \A a \in Accounts, i \in DOMAIN actions : VerifyPhoneChange(q, a, i) => TypeOK'
<1>1. ASSUME NEW p \in Phones, NEW i \in DOMAIN actions, VerifyRegistration(q, p, i)
      PROVE  TypeOK'
  <2> DEFINE req == [IdleRequest EXCEPT !.step = "registrationOtp", !.phone = p, !.action = i]
  <2>1. req \in Request
    BY RowTypes, IdleType DEF Request, RequestSteps
  <2>2. actions[i].type = "REGISTRATION"
    BY <1>1 DEF VerifyRegistration, Newest, Registrations
  <2>3. RequestOK(req)
    BY <2>1, <2>2, IdleType DEF RequestOK, ActionFor, Request
  <2> QED
    BY <1>1, <2>1, <2>3, BeginsTypeOK DEF VerifyRegistration
<1>2. ASSUME NEW a \in Accounts, VerifyLogin(q, a) PROVE TypeOK'
  <2> DEFINE req == [IdleRequest EXCEPT !.step = "loginOtp", !.account = a, !.phone = phone[a]]
  <2>1. phone[a] \in Phones /\ a \in Registered
    BY <1>2, RowTypes DEF VerifyLogin, Registered
  <2>2. req \in Request
    BY <2>1, IdleType DEF Request, RequestSteps
  <2>3. RequestOK(req)
    BY <2>1, <2>2, IdleType DEF RequestOK, ActionFor, Request
  <2> QED
    BY <1>2, <2>2, <2>3, BeginsTypeOK DEF VerifyLogin
<1>3. ASSUME NEW i \in DOMAIN actions, VerifyTwoFactor(q, i) PROVE TypeOK'
  <2> DEFINE a == actions[i].account
             req == [IdleRequest EXCEPT !.step = "challengeSave", !.account = a,
                       !.phone = phone[a], !.action = i, !.otp = actions[i].otp,
                       !.challenge = TRUE, !.secured = TRUE]
  <2>1. actions[i].type = "TWO_FACTOR_LOGIN" /\ actions[i].otp \in Nat /\ a \in Registered
    BY <1>3, RowTypes DEF VerifyTwoFactor, ActionOK, Action
  <2>2. a \in Accounts /\ phone[a] \in Phones
    BY <2>1, RowTypes
  <2>3. req \in Request
    BY <2>1, <2>2, RowTypes, IdleType DEF Request, RequestSteps
  <2>4. RequestOK(req)
    BY <2>1, <2>2, <2>3, IdleType DEF RequestOK, ActionFor, Request
  <2> QED
    BY <1>3, <2>3, <2>4, BeginsTypeOK DEF VerifyTwoFactor
<1>4. ASSUME NEW i \in DOMAIN actions, VerifyTwoFactorSetup(q, i) PROVE TypeOK'
  <2> DEFINE a == actions[i].account
             req == [IdleRequest EXCEPT !.step = "setupCheck", !.account = a, !.action = i]
  <2>1. actions[i].type = "TWO_FACTOR_SETUP" /\ a \in Registered
    BY <1>4, RowTypes DEF VerifyTwoFactorSetup, ActionOK, Action
  <2>2. a \in Accounts
    BY <2>1, RowTypes
  <2>3. req \in Request
    BY <2>2, RowTypes, IdleType DEF Request, RequestSteps
  <2>4. RequestOK(req)
    BY <2>1, <2>3, IdleType DEF RequestOK, ActionFor, Request
  <2> QED
    BY <1>4, <2>3, <2>4, BeginsTypeOK DEF VerifyTwoFactorSetup
<1>5. ASSUME NEW s \in Sids, Logout(q, s) PROVE TypeOK'
  <2> DEFINE req == [IdleRequest EXCEPT !.step = "logoutSave", !.sid = s]
  <2>1. s \in OpenSids
    <3>1. PICK t \in accessTokens : t.sid = s
      BY <1>5 DEF Logout, Authenticated
    <3> QED
      BY <3>1 DEF TypeOK, TokensOK
  <2>2. req \in Request
    BY IdleType DEF Request, RequestSteps
  <2>3. RequestOK(req)
    BY <2>1, <2>2, IdleType DEF RequestOK, ActionFor, Request
  <2> QED
    BY <1>5, <2>2, <2>3, BeginsTypeOK DEF Logout
<1>6. ASSUME NEW a \in Accounts, NEW i \in DOMAIN actions, VerifyPhoneChange(q, a, i)
      PROVE  TypeOK'
  <2> DEFINE req == [IdleRequest EXCEPT !.step = "changeOtp", !.account = a, !.action = i,
                                        !.phone = actions[i].phone, !.from = phone[a]]
  <2>1. actions[i].type = "PHONE_CHANGE" /\ actions[i].account = a
    BY <1>6 DEF VerifyPhoneChange, UserChange, DriverChange, Newest, Changes
  <2>2. actions[i].phone \in Phones /\ a \in Registered
    BY <2>1, RowTypes DEF ActionOK
  <2>3. req \in Request
    BY <2>2, RowTypes, IdleType DEF Request, RequestSteps
  <2>4. RequestOK(req)
    BY <2>1, <2>2, <2>3, IdleType DEF RequestOK, ActionFor, Request
  <2> QED
    BY <1>6, <2>3, <2>4, BeginsTypeOK DEF VerifyPhoneChange
<1> QED
  BY <1>1, <1>2, <1>3, <1>4, <1>5, <1>6

LEMMA ContinuesTypeOK ==
  ASSUME TypeOK, NEW q \in Requests
  PROVE  /\ RegistrationCheck(q) => TypeOK'
         /\ ChangeCheck(q) => TypeOK'
         /\ RefreshSign(q) => TypeOK'
         /\ SetupCheck(q) => TypeOK'
         /\ Refused(q) => TypeOK'
<1> DEFINE r == request[q]
<1>0. r \in Request /\ RequestOK(r)
  BY RowTypes
<1>1. ASSUME RegistrationCheck(q) PROVE TypeOK'
  <2> DEFINE req == [r EXCEPT !.step = "saveAccount"]
  <2>1. r.step = "registrationCheck" /\ request' = [request EXCEPT ![q] = req]
    BY <1>1, RowTypes DEF RegistrationCheck, Continue, TypeOK, RequestsOK
  <2> HIDE DEF r
  <2>2. req \in Request
    BY <1>0 DEF Request, RequestSteps
  <2>3. RequestOK(req)
    BY <1>0, <2>1, <2>2 DEF RequestOK, ActionFor, Request
  <2> QED
    BY <1>1, <2>1, <2>2, <2>3, RequestOnly DEF RegistrationCheck
<1>2. ASSUME ChangeCheck(q) PROVE TypeOK'
  <2> DEFINE p == IF start.side = "users" THEN r.from ELSE phone[r.account]
             req == [r EXCEPT !.step = "changeSave", !.from = p]
  <2>1. r.step = "changeCheck" /\ request' = [request EXCEPT ![q] = req]
    BY <1>2, RowTypes DEF ChangeCheck, TypeOK, RequestsOK
  <2>2. r.account \in Registered
    BY <1>0, <2>1 DEF RequestOK
  <2>3. p \in Phones \union {None}
    BY <1>0, <2>2, RowTypes DEF Request
  <2> HIDE DEF r, p
  <2>4. req \in Request
    BY <1>0, <2>3 DEF Request, RequestSteps
  <2>5. RequestOK(req)
    BY <1>0, <2>1, <2>4 DEF RequestOK, ActionFor, Request
  <2> QED
    BY <1>2, <2>1, <2>4, <2>5, RequestOnly DEF ChangeCheck
<1>3. ASSUME RefreshSign(q) PROVE TypeOK'
  <2> DEFINE req == [r EXCEPT !.step = "refreshSave", !.token = now]
  <2>1. r.step = "refreshSign" /\ request' = [request EXCEPT ![q] = req]
    BY <1>3, RowTypes DEF RefreshSign, TypeOK, RequestsOK
  <2> HIDE DEF r
  <2>2. req \in Request /\ now \in Time
    BY <1>0, RowTypes DEF Request, RequestSteps
  <2>3. RequestOK(req)
    BY <1>0, <2>1, <2>2 DEF RequestOK, ActionFor, Request
  <2> QED
    BY <1>3, <2>1, <2>2, <2>3, RequestOnly DEF RefreshSign
<1>4. ASSUME SetupCheck(q) PROVE TypeOK'
  <2> DEFINE f == twoFactor[r.account] # NoSecret
             req == [r EXCEPT !.step = "setupSave", !.found = f]
  <2>1. r.step = "setupCheck" /\ request' = [request EXCEPT ![q] = req]
    BY <1>4, RowTypes DEF SetupCheck, TypeOK, RequestsOK
  <2>2. f \in BOOLEAN
    OBVIOUS
  <2> HIDE DEF r, f
  <2>3. req \in Request
    BY <1>0, <2>2 DEF Request, RequestSteps
  <2>4. RequestOK(req)
    BY <1>0, <2>1, <2>3 DEF RequestOK, ActionFor, Request
  <2> QED
    BY <1>4, <2>1, <2>3, <2>4, RequestOnly DEF SetupCheck
<1>5. ASSUME Refused(q) PROVE TypeOK'
  BY <1>5, IdleType, RequestOnly DEF Refused, End
<1> QED
  BY <1>1, <1>2, <1>3, <1>4, <1>5

LEMMA OtpFieldType ==
  ASSUME NEW r \in Request, NEW s \in RequestSteps, NEW o \in Nat
  PROVE  [r EXCEPT !.step = s, !.otp = o] \in Request
  BY DEF Request

LEMMA TokenFieldType ==
  ASSUME NEW r \in Request, NEW s \in RequestSteps, NEW sid \in Sids, NEW t \in Time
  PROVE  [r EXCEPT !.step = s, !.sid = sid, !.token = t] \in Request
  BY DEF Request

LEMMA SecuredType ==
  ASSUME NEW r \in Request, NEW s \in RequestSteps, NEW o \in Nat, NEW f \in BOOLEAN
  PROVE  [r EXCEPT !.step = s, !.otp = o, !.secured = f] \in Request
  BY DEF Request

\* Requests that store an OTP, and requests that use one.
LEMMA OtpStepsTypeOK ==
  ASSUME TypeOK, NEW q \in Requests
  PROVE  /\ \A p \in Phones : Register(q, p) => TypeOK'
         /\ \A p \in Phones : Login(q, p) => TypeOK'
         /\ \A a \in Accounts, p \in Phones : RequestPhoneChange(q, a, p) => TypeOK'
         /\ \A o \in DOMAIN otps : RegistrationOtp(q, o) => TypeOK'
         /\ \A o \in DOMAIN otps : LoginOtp(q, o) => TypeOK'
         /\ \A o \in DOMAIN otps : ChangeOtp(q, o) => TypeOK'
<1>0. PICK r : r = request[q] /\ r \in Request /\ RequestOK(r)
  BY RowTypes
<1>1. ASSUME NEW p \in Phones, Register(q, p) PROVE TypeOK'
  <2>0. PICK o, req : o = Len(otps) + 1 /\ req = [IdleRequest EXCEPT !.step = "sendRegistration", !.phone = p,
                         !.created = now, !.otp = o]
    OBVIOUS
  <2>1. OtpsOK' /\ DOMAIN otps \subseteq DOMAIN otps' /\ o \in DOMAIN otps' /\ o \in Nat
    BY <1>1, <2>0, StoreOtpType DEF Register, Purposes
  <2>2. request' = [request EXCEPT ![q] = req]
    BY <1>1, <2>0 DEF Register, Begin
  <2>3. req \in Request
    <3>1. o \in Nat /\ now \in Time
      BY <2>1, RowTypes
    <3> QED
      BY <2>0, <3>1, IdleType DEF Request, RequestSteps
  <2>4. RequestOK(req)'
    BY <2>0, <2>1, <2>3, RowTypes, IdleType DEF RequestOK, ActionFor, Request, Time
  <2> QED
    BY <1>1, <2>1, <2>2, <2>3, <2>4, RequestAndOtps DEF Register
<1>2. ASSUME NEW p \in Phones, Login(q, p) PROVE TypeOK'
  <2>0. PICK o, req : o = Len(otps) + 1 /\ req = [IdleRequest EXCEPT !.step = "sendLogin", !.otp = o]
    OBVIOUS
  <2>1. OtpsOK' /\ DOMAIN otps \subseteq DOMAIN otps' /\ o \in DOMAIN otps' /\ o \in Nat
    BY <1>2, <2>0, StoreOtpType DEF Login, Purposes
  <2>2. request' = [request EXCEPT ![q] = req]
    BY <1>2, <2>0 DEF Login, Begin
  <2>3. req \in Request
    BY <2>0, <2>1, IdleType DEF Request, RequestSteps
  <2>4. RequestOK(req)'
    BY <2>0, <2>1, <2>3, IdleType DEF RequestOK, ActionFor, Request
  <2> QED
    BY <1>2, <2>1, <2>2, <2>3, <2>4, RequestAndOtps DEF Login
<1>3. ASSUME NEW a \in Accounts, NEW p \in Phones, RequestPhoneChange(q, a, p) PROVE TypeOK'
  <2>0. PICK o, req : o = Len(otps) + 1 /\ req = [IdleRequest EXCEPT !.step = "sendChange", !.account = a, !.phone = p,
                         !.created = now, !.otp = o]
    OBVIOUS
  <2>1. OtpsOK' /\ DOMAIN otps \subseteq DOMAIN otps' /\ o \in DOMAIN otps' /\ o \in Nat
    BY <1>3, <2>0, StoreOtpType DEF RequestPhoneChange, Purposes
  <2>2. request' = [request EXCEPT ![q] = req]
    BY <1>3, <2>0 DEF RequestPhoneChange, Begin
  <2>3. a \in Registered
    <3>1. PICK s \in Sids : Authenticated(a, s)
      BY <1>3 DEF RequestPhoneChange
    <3>2. PICK t \in accessTokens : t.sid = s
      BY <3>1 DEF Authenticated
    <3>3. s \in OpenSids
      BY <3>2 DEF TypeOK, TokensOK
    <3> QED
      BY <3>1, <3>3 DEF Authenticated, OpenSids
  <2>4. a \in Registered'
    BY <1>3, <2>3 DEF RequestPhoneChange, Registered, tables
  <2>5. req \in Request
    <3>1. o \in Nat /\ now \in Time
      BY <2>1, RowTypes
    <3> QED
      BY <2>0, <3>1, IdleType DEF Request, RequestSteps
  <2>6. RequestOK(req)'
    BY <2>0, <2>1, <2>4, <2>5, RowTypes, IdleType DEF RequestOK, ActionFor, Request, Time
  <2> QED
    BY <1>3, <2>1, <2>2, <2>5, <2>6, RequestAndOtps DEF RequestPhoneChange
<1>4. ASSUME NEW o \in DOMAIN otps, RegistrationOtp(q, o) PROVE TypeOK'
  <2>0. PICK req : req = [r EXCEPT !.step = "registrationCheck", !.otp = o]
    OBVIOUS
  <2>1. OtpsOK' /\ DOMAIN otps' = DOMAIN otps
    BY <1>4, OtpStatusType DEF RegistrationOtp, VerifyOtp, OtpStatuses
  <2>2. r.step = "registrationOtp" /\ request' = [request EXCEPT ![q] = req]
    BY <1>0, <1>4, <2>0, RowTypes DEF RegistrationOtp, TypeOK, RequestsOK
  <2>3. req \in Request
    <3>1. o \in Nat
      BY RowTypes
    <3> QED
      BY <1>0, <2>0, <3>1, OtpFieldType DEF RequestSteps
  <2>4. RequestOK(req)'
    BY <2>0, <1>0, <1>4, <2>1, <2>2, <2>3
    DEF RegistrationOtp, RequestOK, ActionFor, Request, tables
  <2> QED
    BY <1>4, <2>1, <2>2, <2>3, <2>4, RequestAndOtps DEF RegistrationOtp
<1>5. ASSUME NEW o \in DOMAIN otps, LoginOtp(q, o) PROVE TypeOK'
  <2>f. PICK f \in BOOLEAN : f = (twoFactor[r.account] # NoSecret)
    OBVIOUS
  <2>0. PICK req : req = [r EXCEPT !.step = "loginTwoFactor", !.otp = o, !.secured = f]
    OBVIOUS
  <2>1. OtpsOK' /\ DOMAIN otps' = DOMAIN otps
    BY <1>5, OtpStatusType DEF LoginOtp, VerifyOtp, OtpStatuses
  <2>2. r.step = "loginOtp" /\ request' = [request EXCEPT ![q] = req]
    BY <1>0, <1>5, <2>f, <2>0, RowTypes DEF LoginOtp, TypeOK, RequestsOK
  <2>4. req \in Request
    <3>1. o \in Nat
      BY RowTypes
    <3> QED
      BY <1>0, <2>0, <3>1, SecuredType DEF RequestSteps
  <2>5. r.account \in Registered'
    BY <1>0, <1>5, <2>2 DEF LoginOtp, RequestOK, Registered, tables
  <2>6. RequestOK(req)'
    BY <2>0, <1>0, <2>1, <2>2, <2>4, <2>5 DEF RequestOK, ActionFor, Request
  <2> QED
    BY <1>5, <2>1, <2>2, <2>4, <2>6, RequestAndOtps DEF LoginOtp
<1>6. ASSUME NEW o \in DOMAIN otps, ChangeOtp(q, o) PROVE TypeOK'
  <2>0. PICK req : req = [r EXCEPT !.step = "changeCheck", !.otp = o]
    OBVIOUS
  <2>1. OtpsOK' /\ DOMAIN otps' = DOMAIN otps
    BY <1>6, OtpStatusType DEF ChangeOtp, VerifyOtp, OtpStatuses
  <2>2. r.step = "changeOtp" /\ request' = [request EXCEPT ![q] = req]
    BY <1>0, <1>6, <2>0, RowTypes DEF ChangeOtp, TypeOK, RequestsOK
  <2>3. req \in Request
    <3>1. o \in Nat
      BY RowTypes
    <3> QED
      BY <1>0, <2>0, <3>1, OtpFieldType DEF RequestSteps
  <2>4. r.account \in Registered'
    BY <1>0, <1>6, <2>2 DEF ChangeOtp, RequestOK, Registered, tables
  <2>5. RequestOK(req)'
    BY <2>0, <1>0, <1>6, <2>1, <2>2, <2>3, <2>4
    DEF ChangeOtp, RequestOK, ActionFor, Request, tables
  <2> QED
    BY <1>6, <2>1, <2>2, <2>3, <2>5, RequestAndOtps DEF ChangeOtp
<1> QED
  BY <1>1, <1>2, <1>3, <1>4, <1>5, <1>6

LEMMA DeliveredTypeOK ==
  ASSUME TypeOK, NEW q \in Requests, Delivered(q)
  PROVE  TypeOK'
<1>0. PICK r : r = request[q] /\ r \in Request /\ RequestOK(r)
  BY RowTypes
<1>1. r.step \in {"sendRegistration", "sendLogin", "sendChange"} /\ r.otp \in DOMAIN otps
  BY <1>0 DEF Delivered, RequestOK
<1>2. otps' = [otps EXCEPT ![r.otp].status =
                 IF otps[r.otp].status = "stored" THEN "delivered" ELSE otps[r.otp].status]
  BY <1>0, <1>1, RowTypes DEF Delivered, DeliverOtp
<1>3. OtpsOK' /\ DOMAIN otps' = DOMAIN otps
  BY <1>1, <1>2, OtpStatusType, RowTypes DEF Otp, OtpStatuses
<1>4. r.account \in Registered => r.account \in Registered'
  BY DEF Delivered, Registered, tables
<1>5. CASE r.step = "sendLogin"
  BY <1>0, <1>3, <1>5, IdleType, RequestAndOtps DEF Delivered, End
<1>6. CASE r.step = "sendRegistration"
  <2>1. PICK req : req = [r EXCEPT !.step = "saveRegistration"]
    OBVIOUS
  <2>2. req \in Request
    BY <1>0, <2>1 DEF Request, RequestSteps
  <2>3. RequestOK(req)'
    BY <1>0, <1>6, <2>1, <2>2 DEF RequestOK, ActionFor, Request, Time
  <2>4. request' = [request EXCEPT ![q] = req]
    BY <1>0, <1>6, <2>1, RowTypes DEF Delivered, Continue, TypeOK, RequestsOK
  <2> QED
    BY <1>3, <2>2, <2>3, <2>4, RequestAndOtps DEF Delivered
<1>7. CASE r.step = "sendChange"
  <2>1. PICK req : req = [r EXCEPT !.step = "saveChange"]
    OBVIOUS
  <2>2. req \in Request
    BY <1>0, <2>1 DEF Request, RequestSteps
  <2>3. RequestOK(req)'
    BY <1>0, <1>4, <1>7, <2>1, <2>2 DEF RequestOK, ActionFor, Request, Time
  <2>4. request' = [request EXCEPT ![q] = req]
    BY <1>0, <1>7, <2>1, RowTypes DEF Delivered, Continue, TypeOK, RequestsOK
  <2> QED
    BY <1>3, <2>2, <2>3, <2>4, RequestAndOtps DEF Delivered
<1> QED
  BY <1>1, <1>5, <1>6, <1>7

-----------------------------------------------------------------------------
\* A new row in the table of actions.
LEMMA InsertActionType ==
  ASSUME TypeOK, NEW row \in Action, ActionOK(row), InsertAction(row),
         UNCHANGED <<phone, session, otps>>
  PROVE  /\ ActionsOK' /\ Grows
         /\ UNCHANGED twoFactor => AccountsOK'
<1>1. actions \in Seq(Action) /\ Len(actions) < MaxActions /\ actions' = Append(actions, row)
  BY DEF TypeOK, ActionsOK, InsertAction
<1>2. /\ actions' \in Seq(Action) /\ Len(actions') = Len(actions) + 1
      /\ DOMAIN actions = 1 .. Len(actions) /\ DOMAIN actions' = 1 .. Len(actions')
      /\ Len(actions) \in Nat
      /\ \A i \in DOMAIN actions : actions'[i] = actions[i]
      /\ actions'[Len(actions')] = row
  BY <1>1
<1>3. Grows
  BY <1>2 DEF Grows, Registered, OpenSids
<1>4. \A i \in DOMAIN actions' : actions'[i] = row \/ i \in DOMAIN actions
  BY <1>2
<1>5. \A i \in DOMAIN actions' : ActionOK(actions'[i])
  BY <1>2, <1>4 DEF TypeOK, ActionsOK
<1>6. Len(actions') <= MaxActions
  BY <1>1, <1>2, LimitAssumption
<1>7. ActionsOK'
  <2>1. \A i \in DOMAIN actions' : ActionOK(actions[i])'
    BY <1>5 DEF ActionOK, Registered
  <2> QED
    BY <1>2, <1>6, <2>1 DEF ActionsOK, Action, Time
<1>8. UNCHANGED twoFactor => AccountsOK'
  BY <1>3 DEF TypeOK, AccountsOK, Grows
<1> QED
  BY <1>3, <1>7, <1>8

\* A request ends and nothing of it stays.
LEMMA EndStep ==
  ASSUME TypeOK, Grows, NEW q \in Requests, End(q)
  PROVE  RequestsOK'
  BY IdleType, RequestsStep DEF End, TypeOK

LEMMA InsertStepsTypeOK ==
  ASSUME TypeOK, NEW q \in Requests
  PROVE  /\ SaveRegistration(q) => TypeOK'
         /\ SaveChange(q) => TypeOK'
         /\ LoginTwoFactor(q) => TypeOK'
         /\ \A a \in Accounts : EnableTwoFactor(q, a) => TypeOK'
<1>0. PICK r : r = request[q] /\ r \in Request /\ RequestOK(r)
  BY RowTypes
<1>n. now \in Time
  BY RowTypes
<1>1. ASSUME SaveRegistration(q) PROVE TypeOK'
  <2> DEFINE row == NewAction("REGISTRATION", None, r.phone, r.created, 0)
  <2>1. r.phone \in Phones /\ r.created \in Time
    BY <1>0, <1>1 DEF SaveRegistration, RequestOK
  <2>2. row \in Action /\ ActionOK(row) /\ InsertAction(row)
    BY <1>0, <1>1, <2>1 DEF SaveRegistration, NewAction, Action, ActionTypes, ActionOK
  <2>3. UNCHANGED <<start, now, phone, twoFactor, session, otps, refreshTokens, accessTokens,
                    kept, lost, contested, count>>
    BY <1>1 DEF SaveRegistration, held
  <2> HIDE DEF row
  <2>4. Grows /\ ActionsOK' /\ AccountsOK'
    BY <2>2, <2>3, InsertActionType
  <2> QED
    BY <1>1, <2>3, <2>4, EndStep, UnchangedParts DEF SaveRegistration, TypeOK
<1>2. ASSUME SaveChange(q) PROVE TypeOK'
  <2> DEFINE row == NewAction("PHONE_CHANGE", r.account, r.phone, r.created, 0)
  <2>1. r.phone \in Phones /\ r.created \in Time /\ r.account \in Registered
    BY <1>0, <1>2 DEF SaveChange, RequestOK
  <2>2. r.account \in Accounts
    BY <2>1 DEF Registered
  <2>3. row \in Action /\ ActionOK(row) /\ InsertAction(row)
    BY <1>0, <1>2, <2>1, <2>2 DEF SaveChange, NewAction, Action, ActionTypes, ActionOK
  <2>4. UNCHANGED <<start, now, phone, twoFactor, session, otps, refreshTokens, accessTokens,
                    kept, lost, contested, count>>
    BY <1>2 DEF SaveChange, held
  <2> HIDE DEF row
  <2>5. Grows /\ ActionsOK' /\ AccountsOK'
    BY <2>3, <2>4, InsertActionType
  <2> QED
    BY <1>2, <2>4, <2>5, EndStep, UnchangedParts DEF SaveChange, TypeOK
<1>3. ASSUME LoginTwoFactor(q) PROVE TypeOK'
  <2>1. r.step = "loginTwoFactor" /\ r.account \in Registered /\ r.phone \in Phones
    BY <1>0, <1>3 DEF LoginTwoFactor, RequestOK
  <2>2. UNCHANGED <<start, now, phone, twoFactor, session, otps, refreshTokens, accessTokens,
                    kept, lost, contested, count>>
    BY <1>3 DEF LoginTwoFactor, held
  <2>3. CASE Continue(q, "openSession") /\ UNCHANGED actions
    <3> DEFINE req == [r EXCEPT !.step = "openSession"]
    <3>1. req \in Request
      BY <1>0 DEF Request, RequestSteps
    <3>2. RequestOK(req)
      BY <2>1, <3>1 DEF RequestOK, ActionFor, Request
    <3>3. request' = [request EXCEPT ![q] = req]
      BY <1>0, <2>3 DEF Continue, TypeOK, RequestsOK
    <3> HIDE DEF req
    <3> QED
      BY <2>2, <2>3, <3>1, <3>2, <3>3, RequestOnly DEF tables, held
  <2>4. CASE InsertAction(NewAction("TWO_FACTOR_LOGIN", r.account, None, now, r.otp)) /\ End(q)
    <3> DEFINE row == NewAction("TWO_FACTOR_LOGIN", r.account, None, now, r.otp)
    <3>1. r.account \in Accounts /\ r.otp \in Nat
      BY <1>0, <2>1 DEF Registered, Request
    <3>2. row \in Action /\ ActionOK(row)
      BY <1>n, <2>1, <3>1 DEF NewAction, Action, ActionTypes, ActionOK
    <3> HIDE DEF row
    <3>3. Grows /\ ActionsOK' /\ AccountsOK'
      BY <2>2, <2>4, <3>2, InsertActionType DEF row
    <3> QED
      BY <2>2, <2>4, <3>3, EndStep, UnchangedParts DEF TypeOK
  <2> QED
    BY <1>0, <1>3, <2>3, <2>4 DEF LoginTwoFactor
<1>4. ASSUME NEW a \in Accounts, EnableTwoFactor(q, a) PROVE TypeOK'
  <2> DEFINE row == NewAction("TWO_FACTOR_SETUP", a, None, now, 0)
  <2>1. a \in Registered
    <3>1. PICK s \in Sids : Authenticated(a, s)
      BY <1>4 DEF EnableTwoFactor
    <3>2. PICK t \in accessTokens : t.sid = s
      BY <3>1 DEF Authenticated
    <3>3. s \in OpenSids
      BY <3>2 DEF TypeOK, TokensOK
    <3> QED
      BY <3>1, <3>3 DEF Authenticated, OpenSids
  <2>2. row \in Action /\ ActionOK(row) /\ InsertAction(row)
    BY <1>n, <1>4, <2>1 DEF EnableTwoFactor, NewAction, Action, ActionTypes, ActionOK
  <2>3. UNCHANGED <<start, now, phone, twoFactor, session, otps, request, refreshTokens,
                    accessTokens, kept, lost, contested, count>>
    BY <1>4 DEF EnableTwoFactor, held
  <2> HIDE DEF row
  <2>4. Grows /\ ActionsOK' /\ AccountsOK'
    BY <2>2, <2>3, InsertActionType
  <2>5. RequestsOK'
    <3>1. request' = [request EXCEPT ![q] = request[q]]
      BY <2>3 DEF TypeOK, RequestsOK
    <3>2. request[q] = IdleRequest
      BY <1>4 DEF EnableTwoFactor
    <3> QED
      BY <2>4, <3>1, <3>2, IdleType, RequestsStep DEF TypeOK
  <2> QED
    BY <2>3, <2>4, <2>5, UnchangedParts DEF TypeOK
<1> QED
  BY <1>1, <1>2, <1>3, <1>4

\* A row of the table of actions changes, and accounts may be added.
LEMMA UpdateActionType ==
  ASSUME TypeOK, NEW i \in DOMAIN actions, NEW row \in Action, row.type = actions[i].type,
         ActionOK(row)', actions' = [actions EXCEPT ![i] = row],
         Registered \subseteq Registered', UNCHANGED <<session, otps>>
  PROVE  ActionsOK' /\ Grows
<1>1. actions \in Seq(Action) /\ Len(actions) <= MaxActions
  BY DEF TypeOK, ActionsOK
<1>2. /\ actions' \in Seq(Action) /\ Len(actions') = Len(actions)
      /\ DOMAIN actions' = DOMAIN actions
      /\ actions'[i] = row
      /\ \A j \in DOMAIN actions \ {i} : actions'[j] = actions[j]
  BY <1>1
<1>3. Grows
  BY <1>2 DEF Grows, OpenSids
<1>4. ASSUME NEW j \in DOMAIN actions PROVE ActionOK(actions[j])'
  <2>1. CASE j = i
    BY <1>2, <2>1 DEF ActionOK
  <2>2. CASE j # i
    BY <1>2, <2>2, RowTypes DEF ActionOK
  <2> QED
    BY <2>1, <2>2
<1>5. ActionsOK'
  BY <1>1, <1>2, <1>4 DEF ActionsOK, Action, Time
<1> QED
  BY <1>3, <1>5

LEMMA UpdateStepsTypeOK ==
  ASSUME TypeOK, NEW q \in Requests
  PROVE  /\ ChallengeSave(q) => TypeOK'
         /\ SetupSave(q) => TypeOK'
         /\ \A a \in Accounts : SaveAccount(q, a) => TypeOK'
         /\ ChangeSave(q) => TypeOK'
<1>0. PICK r : r = request[q] /\ r \in Request /\ RequestOK(r)
  BY RowTypes
<1>1. ASSUME ChallengeSave(q) PROVE TypeOK'
  <2>1. r.step = "challengeSave" /\ r.action \in DOMAIN actions
    BY <1>0, <1>1 DEF ChallengeSave, RequestOK, ActionFor
  <2>2. PICK row : row = [actions[r.action] EXCEPT !.used = TRUE]
    OBVIOUS
  <2>3. row \in Action /\ row.type = actions[r.action].type /\ ActionOK(row)
    BY <2>1, <2>2, RowTypes DEF Action, ActionOK
  <2>4. UNCHANGED <<start, now, phone, twoFactor, session, otps, refreshTokens, accessTokens,
                    kept, lost, contested, count>>
    BY <1>1 DEF ChallengeSave, held
  <2>5. actions' = [actions EXCEPT ![r.action] = row]
    BY <1>0, <1>1, <2>2 DEF ChallengeSave
  <2>6. ActionsOK' /\ Grows
    BY <2>1, <2>3, <2>4, <2>5, UpdateActionType DEF ActionOK, Registered
  <2>7. PICK req : req = [r EXCEPT !.step = "openSession"]
    OBVIOUS
  <2>8. req \in Request
    BY <1>0, <2>7 DEF Request, RequestSteps
  <2>9. RequestOK(req)'
    BY <1>0, <2>1, <2>6, <2>7, <2>8 DEF RequestOK, ActionFor, Request, Grows
  <2>10. request' = [request EXCEPT ![q] = req]
    BY <1>0, <1>1, <2>7 DEF ChallengeSave, Continue, TypeOK, RequestsOK
  <2>11. RequestsOK'
    BY <2>6, <2>8, <2>9, <2>10, RequestsStep DEF TypeOK
  <2> QED
    BY <2>4, <2>6, <2>11, UnchangedParts DEF TypeOK
<1>2. ASSUME SetupSave(q) PROVE TypeOK'
  <2>1. r.step = "setupSave" /\ r.action \in DOMAIN actions
    BY <1>0, <1>2 DEF SetupSave, RequestOK, ActionFor
  <2>2. PICK row : row = [actions[r.action] EXCEPT !.used = TRUE]
    OBVIOUS
  <2>3. row \in Action /\ row.type = actions[r.action].type /\ ActionOK(row)
    BY <2>1, <2>2, RowTypes DEF Action, ActionOK
  <2>4. UNCHANGED <<start, now, phone, session, otps, refreshTokens, accessTokens, kept, lost, contested, count>>
    BY <1>2 DEF SetupSave, held
  <2>5. actions' = [actions EXCEPT ![r.action] = row]
    BY <1>0, <1>2, <2>2 DEF SetupSave
  <2>6. ActionsOK' /\ Grows
    BY <2>1, <2>3, <2>4, <2>5, UpdateActionType DEF ActionOK, Registered
  <2>7. AccountsOK'
    BY <1>0, <1>2, <2>1, <2>6 DEF SetupSave, TypeOK, AccountsOK, Grows
  <2>8. RequestsOK'
    BY <1>2, <2>6, EndStep DEF SetupSave
  <2> QED
    BY <2>4, <2>6, <2>7, <2>8, UnchangedParts DEF TypeOK
<1>3. ASSUME NEW a \in Accounts, SaveAccount(q, a) PROVE TypeOK'
  <2>1. r.step = "saveAccount" /\ r.action \in DOMAIN actions /\ r.phone \in Phones
    BY <1>0, <1>3 DEF SaveAccount, RequestOK, ActionFor
  <2>2. PICK row : row = [actions[r.action] EXCEPT !.used = TRUE, !.account = a, !.otp = r.otp]
    OBVIOUS
  <2>3. UNCHANGED <<start, now, twoFactor, session, otps, refreshTokens, accessTokens, kept, lost, contested, count>>
    BY <1>3 DEF SaveAccount, held
  <2>4. phone' = [phone EXCEPT ![a] = r.phone]
    BY <1>0, <1>3 DEF SaveAccount
  <2>5. phone' \in [Accounts -> Phones \union {None}] /\ phone'[a] = r.phone
    BY <2>1, <2>4 DEF TypeOK, AccountsOK
  <2>6. Registered \subseteq Registered' /\ a \in Registered'
    BY <2>1, <2>4, <2>5, AccountsAssumption DEF TypeOK, AccountsOK, Registered
  <2>7. row \in Action /\ row.type = actions[r.action].type /\ row.account = a
        /\ row.phone = actions[r.action].phone
    <3>1. PICK old : old = actions[r.action] /\ old \in Action
      BY <2>1, RowTypes
    <3>2. r.otp \in Nat
      BY <1>0 DEF Request
    <3> QED
      BY <2>2, <3>1, <3>2 DEF Action
  <2>8. ActionOK(row)'
    BY <2>1, <2>6, <2>7, RowTypes DEF ActionOK
  <2>9. actions' = [actions EXCEPT ![r.action] = row]
    BY <1>0, <1>3, <2>2 DEF SaveAccount
  <2>10. ActionsOK' /\ Grows
    BY <2>1, <2>3, <2>6, <2>7, <2>8, <2>9, UpdateActionType
  <2>11. PICK req : req = [r EXCEPT !.step = "openSession", !.account = a]
    OBVIOUS
  <2>12. req \in Request
    BY <1>0, <2>11 DEF Request, RequestSteps
  <2>13. RequestOK(req)'
    BY <1>0, <2>1, <2>6, <2>11, <2>12 DEF RequestOK, ActionFor, Request
  <2>14. request' = [request EXCEPT ![q] = req]
    BY <1>0, <1>3, <2>11 DEF SaveAccount, TypeOK, RequestsOK
  <2>15. RequestsOK'
    BY <2>10, <2>12, <2>13, <2>14, RequestsStep DEF TypeOK
  <2>16. AccountsOK'
    BY <2>3, <2>5, <2>10 DEF TypeOK, AccountsOK, Grows
  <2> QED
    BY <2>3, <2>10, <2>15, <2>16, UnchangedParts DEF TypeOK
<1>4. ASSUME ChangeSave(q) PROVE TypeOK'
  <2>1. /\ r.step = "changeSave" /\ r.action \in DOMAIN actions /\ r.phone \in Phones
        /\ r.account \in Accounts
    BY <1>0, <1>4 DEF ChangeSave, RequestOK, ActionFor, Registered
  <2>2. PICK row : row = [actions[r.action] EXCEPT !.used = TRUE, !.otp = r.otp]
    OBVIOUS
  <2>3. UNCHANGED <<start, now, twoFactor, session, otps, refreshTokens, accessTokens, kept, lost, contested, count>>
    BY <1>4 DEF ChangeSave, held
  <2>4. phone' = phone \/ phone' = [phone EXCEPT ![r.account] = r.phone]
    BY <1>0, <1>4 DEF ChangeSave
  <2>5. phone' \in [Accounts -> Phones \union {None}]
    BY <2>1, <2>4 DEF TypeOK, AccountsOK
  <2>6. Registered \subseteq Registered'
    BY <2>1, <2>4, <2>5, AccountsAssumption DEF TypeOK, AccountsOK, Registered
  <2>7. row \in Action /\ row.type = actions[r.action].type
        /\ row.account = actions[r.action].account /\ row.phone = actions[r.action].phone
    <3>1. PICK old : old = actions[r.action] /\ old \in Action
      BY <2>1, RowTypes
    <3>2. r.otp \in Nat
      BY <1>0 DEF Request
    <3> QED
      BY <2>2, <3>1, <3>2 DEF Action
  <2>8. ActionOK(row)'
    BY <2>1, <2>6, <2>7, RowTypes DEF ActionOK
  <2>9. actions' = [actions EXCEPT ![r.action] = row]
    BY <1>0, <1>4, <2>2 DEF ChangeSave
  <2>10. ActionsOK' /\ Grows
    BY <2>1, <2>3, <2>6, <2>7, <2>8, <2>9, UpdateActionType
  <2>11. RequestsOK'
    BY <1>4, <2>10, EndStep DEF ChangeSave
  <2>12. AccountsOK'
    BY <2>3, <2>5, <2>10 DEF TypeOK, AccountsOK, Grows
  <2> QED
    BY <2>3, <2>10, <2>11, <2>12, UnchangedParts DEF TypeOK
<1> QED
  BY <1>1, <1>2, <1>3, <1>4

\* A session row changes and has an account that is registered.
LEMMA SessionStepTypeOK ==
  ASSUME TypeOK, NEW q \in Requests, NEW s \in Sids, NEW row \in Session,
         row.account \in Registered,
         session' = [session EXCEPT ![s] = row],
         NEW req \in Request, RequestOK(req)', request' = [request EXCEPT ![q] = req],
         UNCHANGED <<start, now, phone, twoFactor, actions, otps, held, count>>
  PROVE  TypeOK'
<1>1. UNCHANGED <<start, now, phone, twoFactor, actions, otps, refreshTokens, accessTokens,
                  kept, lost, contested, count>>
  BY DEF held
<1>2. session' \in [Sids -> Session] /\ session'[s] = row
      /\ \A t \in Sids \ {s} : session'[t] = session[t]
  BY DEF TypeOK, SessionsOK
<1>3. Grows
  <2>1. Registered' = Registered
    BY <1>1 DEF Registered
  <2>2. OpenSids \subseteq OpenSids'
    BY <1>2, <2>1 DEF OpenSids
  <2> QED
    BY <1>1, <2>1, <2>2 DEF Grows
<1>4. SessionsOK'
  BY <1>2 DEF SessionsOK, Session, Time
<1>5. RequestsOK'
  BY <1>3, RequestsStep DEF TypeOK
<1> QED
  BY <1>1, <1>3, <1>4, <1>5, UnchangedParts DEF TypeOK

LEMMA SessionStepsTypeOK ==
  ASSUME TypeOK, NEW q \in Requests
  PROVE  /\ \A s \in Sids : OpenSession(q, s) => TypeOK'
         /\ RefreshSave(q) => TypeOK'
         /\ LogoutSave(q) => TypeOK'
<1>0. PICK r : r = request[q] /\ r \in Request /\ RequestOK(r)
  BY RowTypes
<1>n. PICK n : n = now /\ n \in Time
  BY RowTypes
<1>1. ASSUME NEW s \in Sids, OpenSession(q, s) PROVE TypeOK'
  <2>1. r.step = "openSession" /\ r.account \in Registered /\ r.phone \in Phones
    BY <1>0, <1>1 DEF OpenSession, RequestOK
  <2>2. PICK row, req :
          /\ row = [account |-> r.account, iat |-> n, opened |-> n, revoked |-> FALSE,
                    otp |-> r.otp, challenge |-> r.challenge, secured |-> r.secured]
          /\ req = [r EXCEPT !.step = "answer", !.sid = s, !.token = n]
    OBVIOUS
  <2>3. row \in Session /\ row.account = r.account
    <3>1. r.account \in Accounts /\ r.otp \in Nat
      BY <1>0, <2>1 DEF Registered, Request
    <3>2. r.challenge \in BOOLEAN /\ r.secured \in BOOLEAN
      BY <1>0 DEF Request
    <3> QED
      BY <1>n, <2>2, <3>1, <3>2 DEF Session
  <2>4. req \in Request
    BY <1>0, <1>n, <2>2, TokenFieldType DEF RequestSteps
  <2>5. session' = [session EXCEPT ![s] = row] /\ request' = [request EXCEPT ![q] = req]
    BY <1>0, <1>1, <1>n, <2>2 DEF OpenSession, TypeOK, RequestsOK
  <2>6. s \in OpenSids'
    <3>1. session'[s] = row
      BY <2>5 DEF TypeOK, SessionsOK
    <3>2. Registered' = Registered
      BY <1>1 DEF OpenSession, Registered
    <3> QED
      BY <2>1, <2>3, <3>1, <3>2 DEF OpenSids
  <2>7. RequestOK(req)'
    BY <1>0, <1>n, <2>1, <2>2, <2>4, <2>6 DEF RequestOK, ActionFor, Request, Time
  <2>8. row.account \in Registered
    BY <2>1, <2>3
  <2>9. UNCHANGED <<start, now, phone, twoFactor, actions, otps, held, count>>
    BY <1>1 DEF OpenSession
  <2> QED
    BY <2>3, <2>4, <2>5, <2>7, <2>8, <2>9, SessionStepTypeOK
<1>2. ASSUME RefreshSave(q) PROVE TypeOK'
  <2>1. /\ r.step = "refreshSave" /\ r.sid \in OpenSids /\ r.phone \in Phones
        /\ r.token \in Time
    BY <1>0, <1>2 DEF RefreshSave, RequestOK
  <2>2. r.sid \in Sids /\ session[r.sid] \in Session /\ session[r.sid].account \in Registered
    BY <2>1, RowTypes
  <2>3. PICK row, req : /\ row = [session[r.sid] EXCEPT !.iat = r.token]
                        /\ req = [r EXCEPT !.step = "answer"]
    OBVIOUS
  <2>4. row \in Session /\ row.account = session[r.sid].account
    BY <2>1, <2>2, <2>3 DEF Session
  <2>5. req \in Request
    BY <1>0, <2>3 DEF Request, RequestSteps
  <2>6. session' = [session EXCEPT ![r.sid] = row] /\ request' = [request EXCEPT ![q] = req]
    BY <1>0, <1>2, <2>3 DEF RefreshSave, Continue, TypeOK, RequestsOK
  <2>7. r.sid \in OpenSids'
    <3>1. session'[r.sid] = row
      BY <2>2, <2>6 DEF TypeOK, SessionsOK
    <3>2. Registered' = Registered
      BY <1>2 DEF RefreshSave, Registered
    <3> QED
      BY <2>2, <2>4, <3>1, <3>2 DEF OpenSids
  <2>8. RequestOK(req)'
    BY <1>0, <2>1, <2>3, <2>5, <2>7 DEF RequestOK, ActionFor, Request, Time
  <2> QED
    BY <1>2, <2>2, <2>4, <2>5, <2>6, <2>8, SessionStepTypeOK DEF RefreshSave
<1>3. ASSUME LogoutSave(q) PROVE TypeOK'
  <2>1. r.step = "logoutSave" /\ r.sid \in OpenSids
    BY <1>0, <1>3 DEF LogoutSave, RequestOK
  <2>2. r.sid \in Sids /\ session[r.sid] \in Session /\ session[r.sid].account \in Registered
    BY <2>1, RowTypes
  <2>3. PICK row : row = [session[r.sid] EXCEPT !.revoked = TRUE]
    OBVIOUS
  <2>4. row \in Session /\ row.account = session[r.sid].account
    BY <2>2, <2>3 DEF Session
  <2>5. session' = [session EXCEPT ![r.sid] = row] /\ request' = [request EXCEPT ![q] = IdleRequest]
    BY <1>0, <1>3, <2>3 DEF LogoutSave, End, TypeOK, RequestsOK
  <2> QED
    BY <1>3, <2>2, <2>4, <2>5, IdleType, SessionStepTypeOK DEF LogoutSave
<1> QED
  BY <1>1, <1>2, <1>3

LEMMA AnswerTypeOK ==
  ASSUME TypeOK, NEW q \in Requests, Answer(q)
  PROVE  TypeOK'
<1>0. PICK r : r = request[q] /\ r \in Request /\ RequestOK(r)
  BY RowTypes
<1>1. r.step = "answer" /\ r.sid \in OpenSids /\ r.token \in Time /\ r.phone \in Phones
  BY <1>0 DEF Answer, RequestOK
<1>2. UNCHANGED <<start, now, phone, twoFactor, actions, session, otps, lost, contested, count>>
  BY DEF Answer, tables
<1>3. Grows /\ OpenSids' = OpenSids
  BY <1>2 DEF Grows, Registered, OpenSids
<1>4. TokensOK'
  <2>1. [sid |-> r.sid, iat |-> r.token] \in [sid : OpenSids, iat : Time]
    BY <1>1
  <2>2. [sid |-> r.sid, phone |-> r.phone, signed |-> now]
          \in [sid : OpenSids, phone : Phones, signed : Time]
    BY <1>1, RowTypes
  <2> QED
    BY <1>0, <1>3, <2>1, <2>2 DEF Answer, TypeOK, TokensOK, Time
<1>5. RequestsOK'
  BY <1>3, EndStep DEF Answer
<1>6. BooksOK'
  BY <1>0, <1>1, <1>2 DEF Answer, TypeOK, BooksOK, Time
<1> QED
  BY <1>2, <1>3, <1>4, <1>5, <1>6, UnchangedParts DEF TypeOK

LEMMA RefreshTypeOK ==
  ASSUME TypeOK, NEW q \in Requests, NEW t \in refreshTokens, Refresh(q, t)
  PROVE  TypeOK'
<1>1. t \in [sid : OpenSids, iat : Time]
  BY DEF TypeOK, TokensOK
<1>2. PICK a : a = session[t.sid].account /\ a \in Registered
  BY <1>1, RowTypes
<1>3. PICK req : req = [IdleRequest EXCEPT !.step = "refreshSign", !.sid = t.sid,
                          !.created = t.iat, !.account = a, !.phone = phone[a]]
  OBVIOUS
<1>4. a \in Accounts /\ phone[a] \in Phones /\ t.sid \in Sids /\ t.sid \in OpenSids
      /\ t.iat \in Time
  BY <1>1, <1>2, RowTypes
<1>5. req \in Request
  BY <1>3, <1>4, IdleType DEF Request, RequestSteps
<1>6. UNCHANGED <<start, now, phone, twoFactor, actions, session, otps, refreshTokens,
                  accessTokens, kept, lost>>
  BY DEF Refresh, tables
<1>7. Grows /\ OpenSids' = OpenSids
  BY <1>6 DEF Grows, Registered, OpenSids
<1>8. RequestOK(req)'
  BY <1>3, <1>4, <1>5, <1>7, IdleType DEF RequestOK, ActionFor, Request
<1>9. request' = [request EXCEPT ![q] = req]
  BY <1>2, <1>3 DEF Refresh, Begin
<1>10. RequestsOK'
  BY <1>5, <1>7, <1>8, <1>9, RequestsStep DEF TypeOK
<1>11. BooksOK'
  <2>1. contested' \subseteq Sids
    BY <1>4 DEF Refresh, Contest, TypeOK, BooksOK
  <2>2. count' \in [refreshes : 0 .. MaxRefreshes, failures : 0 .. MaxFailures,
                    restarts : 0 .. MaxRestarts]
    BY LimitAssumption DEF Refresh, TypeOK, BooksOK
  <2> QED
    BY <1>6, <2>1, <2>2 DEF TypeOK, BooksOK, Time
<1> QED
  BY <1>6, <1>7, <1>10, <1>11, UnchangedParts DEF TypeOK

LEMMA RequestFailsTypeOK ==
  ASSUME TypeOK, NEW q \in Requests, RequestFails(q)
  PROVE  TypeOK'
<1>1. UNCHANGED <<start, now, phone, twoFactor, actions, session, otps, refreshTokens,
                  accessTokens>>
  BY DEF RequestFails, tables
<1>2. Grows
  BY <1>1 DEF Grows, Registered, OpenSids
<1>3. RequestsOK'
  BY <1>2, EndStep DEF RequestFails
<1>4. BooksOK'
  <2>1. lost' \subseteq Sids
    <3>1. request[q].step = "answer" => request[q].sid \in Sids
      BY RowTypes DEF RequestOK, OpenSids
    <3> QED
      BY <3>1 DEF RequestFails, TypeOK, BooksOK
  <2>2. count' \in [refreshes : 0 .. MaxRefreshes, failures : 0 .. MaxFailures,
                    restarts : 0 .. MaxRestarts]
    BY LimitAssumption DEF RequestFails, TypeOK, BooksOK
  <2>3. UNCHANGED <<kept, contested>>
    BY DEF RequestFails
  <2> QED
    BY <1>1, <2>1, <2>2, <2>3 DEF TypeOK, BooksOK, Time
<1> QED
  BY <1>1, <1>2, <1>3, <1>4, UnchangedParts DEF TypeOK

LEMMA RestartTypeOK ==
  ASSUME TypeOK, Restart
  PROVE  TypeOK'
<1>1. UNCHANGED <<start, now, phone, twoFactor, actions, session, refreshTokens, accessTokens>>
  BY DEF Restart, tables
<1>2. OtpsOK' /\ DOMAIN otps' = DOMAIN otps
  <2>1. otps \in Seq(Otp) /\ Len(otps) <= MaxOtps
    BY DEF TypeOK, OtpsOK
  <2>2. ASSUME NEW i \in DOMAIN otps PROVE otps'[i] \in Otp
    <3>1. otps[i] \in Otp
      BY <2>1
    <3>2. [otps[i] EXCEPT !.status = "lost"] \in Otp
      BY <3>1 DEF Otp, OtpStatuses
    <3> QED
      BY <3>1, <3>2 DEF Restart, ForgetOtps
  <2>3. DOMAIN otps = 1 .. Len(otps) /\ Len(otps) \in Nat
    BY <2>1
  <2>4. otps' \in [1 .. Len(otps) -> Otp]
    BY <2>2, <2>3 DEF Restart, ForgetOtps
  <2>5. otps' \in Seq(Otp) /\ Len(otps') = Len(otps)
    BY <2>3, <2>4
  <2> QED
    BY <2>1, <2>3, <2>4, <2>5 DEF OtpsOK, Otp, Time
<1>3. Grows
  BY <1>1, <1>2 DEF Grows, Registered, OpenSids
<1>4. RequestsOK'
  BY IdleType DEF Restart, RequestsOK, Request, RequestOK, ActionFor, Time
<1>5. BooksOK'
  <2>1. lost' \subseteq Sids
    BY DEF Restart, TypeOK, BooksOK
  <2>2. count' \in [refreshes : 0 .. MaxRefreshes, failures : 0 .. MaxFailures,
                    restarts : 0 .. MaxRestarts]
    BY LimitAssumption DEF Restart, TypeOK, BooksOK
  <2>3. UNCHANGED <<kept, contested>>
    BY DEF Restart
  <2> QED
    BY <1>1, <2>1, <2>2, <2>3 DEF TypeOK, BooksOK, Time
<1> QED
  BY <1>1, <1>2, <1>3, <1>4, <1>5, UnchangedParts DEF TypeOK

LEMMA TickTypeOK ==
  ASSUME TypeOK, Tick
  PROVE  TypeOK'
<1>1. UNCHANGED <<start, phone, twoFactor, actions, session, otps, request, refreshTokens,
                  accessTokens, kept, lost, contested, count>>
  BY DEF Tick, tables, held
<1>2. Grows
  BY <1>1 DEF Grows, Registered, OpenSids
<1>3. now' \in Time
  BY LimitAssumption DEF Tick, TypeOK, Time
<1>4. RequestsOK'
  BY <1>1 DEF TypeOK, RequestsOK, RequestOK, Request, Registered, OpenSids, Time
<1> QED
  BY <1>1, <1>2, <1>3, <1>4, UnchangedParts DEF TypeOK, Time

LEMMA InitTypeOK == Init => TypeOK
<1> SUFFICES ASSUME Init PROVE TypeOK
  OBVIOUS
<1>1. /\ start.phone \in [Accounts -> Phones \union {None}]
      /\ start.session \in [Accounts -> Sids \union {None}]
      /\ \A a \in Accounts : start.session[a] # None => start.phone[a] # None
  BY AccountsAssumption DEF Init
<1>2. now \in Time
  BY TimeType DEF Init
<1>3. AccountsOK
  BY <1>1 DEF Init, AccountsOK
<1>l. {MaxOtps, MaxActions, MaxRefreshes, MaxFailures, MaxRestarts} \subseteq Nat
  BY LimitAssumption
<1>4. ActionsOK /\ OtpsOK
  <2>1. actions = <<>> /\ otps = <<>>
    BY DEF Init
  <2>2. Len(actions) = 0 /\ Len(otps) = 0 /\ DOMAIN actions = {}
    BY <2>1
  <2> QED
    BY <1>l, <2>1, <2>2 DEF ActionsOK, OtpsOK
<1>5. ASSUME NEW s \in Sids
      PROVE  session[s] \in Session /\ (session[s] # NoSession => session[s].account \in Registered)
  <2>1. NoSession \in Session
    BY DEF NoSession, Session
  <2>2. CASE \E a \in Accounts : start.session[a] = s
    <3>1. PICK a : a = CHOOSE b \in Accounts : start.session[b] = s
      OBVIOUS
    <3>2. a \in Accounts /\ start.session[a] = s
      BY <2>2, <3>1
    <3>3. a \in Registered
      BY <1>1, <3>2, AccountsAssumption DEF Init, Registered
    <3>4. session[s] = [NoSession EXCEPT !.account = a, !.iat = 0, !.opened = 0]
      BY <2>2, <3>1 DEF Init
    <3>5. session[s] \in Session
      BY <3>2, <3>4, TimeType DEF NoSession, Session
    <3>6. session[s].account = a
      BY <3>4 DEF NoSession
    <3> QED
      BY <3>3, <3>5, <3>6
  <2>3. CASE ~\E a \in Accounts : start.session[a] = s
    BY <2>1, <2>3 DEF Init
  <2> QED
    BY <2>2, <2>3
<1>6. SessionsOK
  <2>1. \A s \in Sids : session[s] \in Session
    BY <1>5
  <2> QED
    BY <2>1 DEF Init, SessionsOK
<1>7. RequestsOK
  BY IdleType DEF Init, RequestsOK
<1>8. TokensOK
  <2>1. ASSUME NEW s \in Sids, session[s] # NoSession
        PROVE  s \in OpenSids /\ phone[session[s].account] \in Phones
    BY <1>3, <1>5, <2>1 DEF OpenSids, Registered, AccountsOK
  <2>2. 0 \in Time
    BY TimeType
  <2>3. ASSUME NEW x \in refreshTokens PROVE x \in [sid : OpenSids, iat : Time]
    <3>1. PICK s \in Sids : session[s] # NoSession /\ x = [sid |-> s, iat |-> 0]
      BY DEF Init
    <3> QED
      BY <2>1, <2>2, <3>1
  <2>4. ASSUME NEW x \in accessTokens PROVE x \in [sid : OpenSids, phone : Phones, signed : Time]
    <3>1. PICK s \in Sids : session[s] # NoSession
                            /\ x = [sid |-> s, phone |-> phone[session[s].account], signed |-> 0]
      BY DEF Init
    <3> QED
      BY <2>1, <2>2, <3>1
  <2> QED
    BY <2>3, <2>4 DEF TokensOK
<1>9. BooksOK
  <2>1. 0 \in 0 .. MaxRefreshes /\ 0 \in 0 .. MaxFailures /\ 0 \in 0 .. MaxRestarts
    BY <1>l
  <2>2. kept \in [Sids -> Time \union {Null}]
    BY <1>6 DEF Init, SessionsOK, Session
  <2>3. lost \subseteq Sids /\ contested \subseteq Sids
    BY DEF Init
  <2>4. count = [refreshes |-> 0, failures |-> 0, restarts |-> 0]
    BY DEF Init
  <2> QED
    BY <2>1, <2>2, <2>3, <2>4 DEF BooksOK
<1> QED
  BY <1>2, <1>3, <1>4, <1>6, <1>7, <1>8, <1>9 DEF Init, TypeOK

LEMMA StutterTypeOK == TypeOK /\ UNCHANGED vars => TypeOK'
<1> SUFFICES ASSUME TypeOK, UNCHANGED vars PROVE TypeOK'
  OBVIOUS
<1>1. UNCHANGED <<start, now, phone, twoFactor, actions, session, otps, request, refreshTokens,
                  accessTokens, kept, lost, contested, count>>
  BY DEF vars
<1>2. Grows
  BY <1>1 DEF Grows, Registered, OpenSids
<1>3. RequestsOK'
  BY <1>1 DEF TypeOK, RequestsOK, RequestOK, Request, Registered, OpenSids, Time
<1> QED
  BY <1>1, <1>2, <1>3, UnchangedParts DEF TypeOK

LEMMA NextTypeOK == TypeOK /\ [Next]_vars => TypeOK'
<1> SUFFICES ASSUME TypeOK, [Next]_vars PROVE TypeOK'
  OBVIOUS
<1>1. CASE Tick
  BY <1>1, TickTypeOK
<1>2. CASE Restart
  BY <1>2, RestartTypeOK
<1>3. ASSUME NEW q \in Requests, RequestStart(q) PROVE TypeOK'
  BY <1>3, RequestOnlyTypeOK, OtpStepsTypeOK, InsertStepsTypeOK, RefreshTypeOK DEF RequestStart
<1>4. ASSUME NEW q \in Requests, RequestStep(q) PROVE TypeOK'
  BY <1>4, ContinuesTypeOK, OtpStepsTypeOK, DeliveredTypeOK, InsertStepsTypeOK,
     UpdateStepsTypeOK, SessionStepsTypeOK, AnswerTypeOK DEF RequestStep
<1>5. ASSUME NEW q \in Requests, RequestFails(q) PROVE TypeOK'
  BY <1>5, RequestFailsTypeOK
<1>6. CASE UNCHANGED vars
  BY <1>6, StutterTypeOK
<1> QED
  BY <1>1, <1>2, <1>3, <1>4, <1>5, <1>6 DEF Next

\* Rows, OTPs and tokens are well-formed, and what a request or a token names is
\* there, for any number of requests at once.
THEOREM TypeCorrect == Spec => []TypeOK
  BY InitTypeOK, NextTypeOK, PTL DEF Spec

-----------------------------------------------------------------------------
(***************************************************************************)
(* One OTP opens one session.  Most steps leave every OTP where it is: a   *)
(* request keeps its OTP or gives it up, and sessions and challenges keep  *)
(* theirs.                                                                 *)
(***************************************************************************)
OtpsKept ==
  \A o \in DOMAIN otps : Spent(o) => Spent(o)'
SessionsKept ==
  \A s \in Sids : session'[s].otp = session[s].otp /\ session'[s].challenge = session[s].challenge
ChallengesKept ==
  /\ \A i \in DOMAIN actions : IsChallenge(i) => IsChallenge(i)' /\ actions'[i].otp = actions[i].otp
  /\ \A i \in DOMAIN actions' : IsChallenge(i)' => IsChallenge(i)

\* A request may carry an OTP on, and name the OTP of a challenge.
RequestKept(old, new) ==
  /\ Carries(new) => Carries(old) /\ new.otp = old.otp
  /\ Challenged(new) => HasChallenge(new.otp)
  /\ ChallengeFlagOK(new)

LEMMA ChallengesKeptHas ==
  ASSUME ChallengesKept, NEW o
  PROVE  HasChallenge(o)' <=> HasChallenge(o)
  BY DEF ChallengesKept, HasChallenge, IsChallenge

LEMMA KeptOtpInv ==
  ASSUME OtpInv, OtpsKept, SessionsKept, ChallengesKept,
         \A q \in Requests : RequestKept(request[q], request'[q])
  PROVE  OtpInv'
<1>1. \A o : HasChallenge(o)' <=> HasChallenge(o)
  BY ChallengesKeptHas
<1>2. \A q \in Requests : Carries(request'[q]) =>
        Carries(request[q]) /\ request'[q].otp = request[q].otp
  BY DEF RequestKept
<1>3. \A s \in Sids : (Direct(s)' <=> Direct(s)) /\ session'[s].otp = session[s].otp
                       /\ session'[s].challenge = session[s].challenge
  BY DEF SessionsKept, Direct
<1>4. \A o : Spent(o) => Spent(o)'
  BY DEF OtpsKept, Spent
<1>5. OtpsAreSpent'
  <2>1. (\A q \in Requests : Carries(request[q]) => Spent(request[q].otp))'
    BY <1>2, <1>4 DEF OtpInv, OtpsAreSpent, Spent
  <2>2. (\A s \in Sids : Direct(s) => Spent(session[s].otp))'
    BY <1>3, <1>4 DEF OtpInv, OtpsAreSpent, Spent
  <2>3. (\A i \in DOMAIN actions : IsChallenge(i) => Spent(actions[i].otp))'
    BY <1>4 DEF OtpInv, OtpsAreSpent, ChallengesKept, IsChallenge, Spent
  <2> QED
    BY <2>1, <2>2, <2>3 DEF OtpsAreSpent
<1>6. OtpsAreApart'
  <2>1. (\A p, q \in Requests :
          Carries(request[p]) /\ Carries(request[q]) /\ request[p].otp = request[q].otp => p = q)'
    BY <1>2 DEF OtpInv, OtpsAreApart
  <2>2. (\A s, t \in Sids : Direct(s) /\ Direct(t) /\ session[s].otp = session[t].otp => s = t)'
    BY <1>3 DEF OtpInv, OtpsAreApart
  <2>3. (\A q \in Requests, s \in Sids :
          Carries(request[q]) /\ Direct(s) => request[q].otp # session[s].otp)'
    BY <1>2, <1>3 DEF OtpInv, OtpsAreApart
  <2>4. (\A q \in Requests : Carries(request[q]) => ~HasChallenge(request[q].otp))'
    BY <1>1, <1>2 DEF OtpInv, OtpsAreApart, HasChallenge, IsChallenge
  <2>5. (\A s \in Sids : Direct(s) => ~HasChallenge(session[s].otp))'
    BY <1>1, <1>3 DEF OtpInv, OtpsAreApart, HasChallenge, IsChallenge
  <2> QED
    BY <2>1, <2>2, <2>3, <2>4, <2>5 DEF OtpsAreApart
<1>7. ChallengesHaveOtps'
  <2>1. (\A q \in Requests : ChallengeFlagOK(request[q]))'
    BY DEF RequestKept
  <2>2. (\A q \in Requests : Challenged(request[q]) => HasChallenge(request[q].otp))'
    BY <1>1 DEF RequestKept, HasChallenge, IsChallenge
  <2>3. (\A s \in Sids : session[s].challenge => HasChallenge(session[s].otp))'
    BY <1>1, <1>3 DEF OtpInv, ChallengesHaveOtps, HasChallenge, IsChallenge
  <2> QED
    BY <2>1, <2>2, <2>3 DEF ChallengesHaveOtps
<1> QED
  BY <1>5, <1>6, <1>7 DEF OtpInv

\* Whoever keeps his request keeps his OTP.
LEMMA OneRequestKept ==
  ASSUME OtpInv, NEW q \in Requests, NEW req, DOMAIN request = Requests,
         request' = [request EXCEPT ![q] = req], RequestKept(request[q], req)
  PROVE  \A p \in Requests : RequestKept(request[p], request'[p])
<1> SUFFICES ASSUME NEW p \in Requests PROVE RequestKept(request[p], request'[p])
  OBVIOUS
<1>1. CASE p = q
  BY <1>1
<1>2. CASE p # q
  <2>1. request'[p] = request[p]
    BY <1>2
  <2>2. RequestKept(request[p], request[p])
    BY DEF OtpInv, ChallengesHaveOtps, RequestKept
  <2> QED
    BY <2>1, <2>2
<1> QED
  BY <1>1, <1>2

\* The usual step: one request moves on, and the rest keeps its OTPs.
LEMMA KeepingStep ==
  ASSUME TypeOK, OtpInv, NEW q \in Requests, NEW req,
         request' = [request EXCEPT ![q] = req], RequestKept(request[q], req),
         OtpsKept, SessionsKept, ChallengesKept
  PROVE  OtpInv'
<1>1. DOMAIN request = Requests
  BY DEF TypeOK, RequestsOK
<1> QED
  BY <1>1, OneRequestKept, KeptOtpInv

\* A request that starts or ends has no OTP and no challenge.
LEMMA PlainRequest ==
  ASSUME NEW old, NEW req, ~req.challenge,
         req.step \notin {"registrationCheck", "saveAccount", "loginTwoFactor", "openSession",
                          "challengeSave"}
  PROVE  RequestKept(old, req)
  BY DEF RequestKept, Carries, Challenged, ChallengeFlagOK

LEMMA QuietTables ==
  ASSUME UNCHANGED <<actions, session>>
  PROVE  SessionsKept /\ ChallengesKept
  BY DEF SessionsKept, ChallengesKept, IsChallenge

LEMMA PlainStep ==
  ASSUME TypeOK, OtpInv, NEW q \in Requests, NEW req, ~req.challenge,
         req.step \notin {"registrationCheck", "saveAccount", "loginTwoFactor", "openSession",
                          "challengeSave"},
         request' = [request EXCEPT ![q] = req], OtpsKept, SessionsKept, ChallengesKept
  PROVE  OtpInv'
<1>1. PICK old : old = request[q]
  OBVIOUS
<1>2. RequestKept(old, req)
  BY PlainRequest
<1> QED
  BY <1>1, <1>2, KeepingStep

\* What the steps of OtpService do to the OTPs that were verified.
LEMMA OtpsKeptSteps ==
  ASSUME TypeOK
  PROVE  /\ UNCHANGED otps => OtpsKept
         /\ \A p, purpose : StoreOtp(p, purpose) => OtpsKept
         /\ \A i \in DOMAIN otps : DeliverOtp(i) => OtpsKept
         /\ ForgetOtps => OtpsKept
         /\ \A i, p, purpose : VerifyOtp(i, p, purpose) =>
              OtpsKept /\ i \in DOMAIN otps /\ ~Spent(i) /\ Spent(i)'
<1>0. otps \in Seq(Otp)
  BY DEF TypeOK, OtpsOK
<1>1. UNCHANGED otps => OtpsKept
  BY DEF OtpsKept, Spent
<1>2. ASSUME NEW p, NEW purpose, StoreOtp(p, purpose) PROVE OtpsKept
  <2>1. PICK o : otps' = Append(otps, o)
    BY <1>2 DEF StoreOtp
  <2>2. \A j \in DOMAIN otps : j \in DOMAIN otps' /\ otps'[j] = otps[j]
    BY <1>0, <2>1
  <2> QED
    BY <2>2 DEF OtpsKept, Spent
<1>3. ASSUME NEW i \in DOMAIN otps, DeliverOtp(i) PROVE OtpsKept
  <2>1. DOMAIN otps' = DOMAIN otps
    BY <1>3 DEF DeliverOtp
  <2>2. \A j \in DOMAIN otps : otps[j].status = "verified" => otps'[j].status = "verified"
    BY <1>0, <1>3 DEF DeliverOtp, Otp
  <2> QED
    BY <2>1, <2>2 DEF OtpsKept, Spent
<1>4. ForgetOtps => OtpsKept
  BY DEF ForgetOtps, OtpsKept, Spent
<1>5. ASSUME NEW i, NEW p, NEW purpose, VerifyOtp(i, p, purpose)
      PROVE  OtpsKept /\ i \in DOMAIN otps /\ ~Spent(i) /\ Spent(i)'
  <2>1. i \in DOMAIN otps /\ otps[i].status = "delivered"
        /\ otps' = [otps EXCEPT ![i].status = "verified"]
    BY <1>5 DEF VerifyOtp, Usable, Unverified
  <2>2. PICK row : row = [otps[i] EXCEPT !.status = "verified"]
    OBVIOUS
  <2>3. row.status = "verified"
    BY <2>1, <2>2, RowTypes DEF Otp
  <2>4. otps' = [otps EXCEPT ![i] = row]
    BY <2>1, <2>2
  <2>5. DOMAIN otps' = DOMAIN otps /\ otps'[i] = row
        /\ \A j \in DOMAIN otps : j # i => otps'[j] = otps[j]
    BY <2>1, <2>4
  <2> QED
    BY <2>1, <2>3, <2>5 DEF OtpsKept, Spent
<1> QED
  BY <1>1, <1>2, <1>3, <1>4, <1>5

\* A row that is no challenge is inserted, or rows are marked used.
LEMMA InsertKept ==
  ASSUME TypeOK, NEW row, row.type # "TWO_FACTOR_LOGIN", InsertAction(row)
  PROVE  ChallengesKept
<1>1. actions \in Seq(Action) /\ actions' = Append(actions, row)
  BY DEF TypeOK, ActionsOK, InsertAction
<1>2. \A i \in DOMAIN actions : i \in DOMAIN actions' /\ actions'[i] = actions[i]
  BY <1>1
<1>3. \A i \in DOMAIN actions' : i \in DOMAIN actions \/ actions'[i] = row
  BY <1>1
<1> QED
  BY <1>2, <1>3 DEF ChallengesKept, IsChallenge

LEMMA MarkKept ==
  ASSUME TypeOK, NEW i \in DOMAIN actions, NEW row, row.type = actions[i].type,
         actions[i].type = "TWO_FACTOR_LOGIN" => row.otp = actions[i].otp,
         actions' = [actions EXCEPT ![i] = row]
  PROVE  ChallengesKept
<1>1. DOMAIN actions' = DOMAIN actions /\ actions'[i] = row
      /\ \A j \in DOMAIN actions : j # i => actions'[j] = actions[j]
  OBVIOUS
<1> QED
  BY <1>1 DEF ChallengesKept, IsChallenge

\* Requests that begin.
LEMMA StartKeeps ==
  ASSUME TypeOK, OtpInv, NEW q \in Requests, RequestStart(q)
  PROVE  OtpInv'
<1>1. ASSUME NEW p \in Phones, Register(q, p) PROVE OtpInv'
  <2>1. PICK req : req = [IdleRequest EXCEPT !.step = "sendRegistration", !.phone = p,
                                      !.created = now, !.otp = Len(otps) + 1]
    OBVIOUS
  <2>2. ~req.challenge /\ req.step = "sendRegistration"
    BY <2>1 DEF IdleRequest
  <2> QED
    BY <1>1, <2>1, <2>2, PlainStep, OtpsKeptSteps, QuietTables DEF Register, Begin, tables
<1>2. ASSUME NEW p \in Phones, Login(q, p) PROVE OtpInv'
  <2>1. PICK req : req = [IdleRequest EXCEPT !.step = "sendLogin", !.otp = Len(otps) + 1]
    OBVIOUS
  <2>2. ~req.challenge /\ req.step = "sendLogin"
    BY <2>1 DEF IdleRequest
  <2> QED
    BY <1>2, <2>1, <2>2, PlainStep, OtpsKeptSteps, QuietTables DEF Login, Begin, tables
<1>3. ASSUME NEW p \in Phones, NEW i \in DOMAIN actions, VerifyRegistration(q, p, i)
      PROVE  OtpInv'
  <2>1. PICK req : req = [IdleRequest EXCEPT !.step = "registrationOtp", !.phone = p,
                                      !.action = i]
    OBVIOUS
  <2>2. ~req.challenge /\ req.step = "registrationOtp"
    BY <2>1 DEF IdleRequest
  <2> QED
    BY <1>3, <2>1, <2>2, PlainStep, OtpsKeptSteps, QuietTables
       DEF VerifyRegistration, Begin, tables
<1>4. ASSUME NEW a \in Accounts, VerifyLogin(q, a) PROVE OtpInv'
  <2>1. PICK req : req = [IdleRequest EXCEPT !.step = "loginOtp", !.account = a,
                                      !.phone = phone[a]]
    OBVIOUS
  <2>2. ~req.challenge /\ req.step = "loginOtp"
    BY <2>1 DEF IdleRequest
  <2> QED
    BY <1>4, <2>1, <2>2, PlainStep, OtpsKeptSteps, QuietTables DEF VerifyLogin, Begin, tables
<1>5. ASSUME NEW a \in Accounts, EnableTwoFactor(q, a) PROVE OtpInv'
  <2>1. PICK row : row = NewAction("TWO_FACTOR_SETUP", a, None, now, 0)
    OBVIOUS
  <2>2. row.type = "TWO_FACTOR_SETUP"
    BY <2>1 DEF NewAction
  <2>3. ChallengesKept
    BY <1>5, <2>1, <2>2, InsertKept DEF EnableTwoFactor
  <2>4. SessionsKept /\ OtpsKept
    BY <1>5, OtpsKeptSteps DEF EnableTwoFactor, SessionsKept
  <2>5. \A p \in Requests : RequestKept(request[p], request'[p])
    BY <1>5 DEF EnableTwoFactor, OtpInv, ChallengesHaveOtps, RequestKept
  <2> QED
    BY <2>3, <2>4, <2>5, KeptOtpInv
<1>6. ASSUME NEW i \in DOMAIN actions, VerifyTwoFactor(q, i) PROVE OtpInv'
  <2>1. PICK req : req = [IdleRequest EXCEPT !.step = "challengeSave",
                     !.account = actions[i].account,
                     !.phone = phone[actions[i].account], !.action = i, !.otp = actions[i].otp,
                     !.challenge = TRUE, !.secured = TRUE]
    OBVIOUS
  <2>2. req.challenge /\ req.step = "challengeSave" /\ req.otp = actions[i].otp
    BY <2>1 DEF IdleRequest
  <2>3. HasChallenge(req.otp)
    BY <1>6, <2>2 DEF VerifyTwoFactor, HasChallenge, IsChallenge
  <2>4. PICK old : old = request[q]
    OBVIOUS
  <2>5. RequestKept(old, req)
    BY <2>2, <2>3 DEF RequestKept, Carries, Challenged, ChallengeFlagOK
  <2> QED
    BY <1>6, <2>1, <2>4, <2>5, KeepingStep, OtpsKeptSteps, QuietTables
       DEF VerifyTwoFactor, Begin, tables
<1>7. ASSUME NEW i \in DOMAIN actions, VerifyTwoFactorSetup(q, i) PROVE OtpInv'
  <2>1. PICK req : req = [IdleRequest EXCEPT !.step = "setupCheck",
                     !.account = actions[i].account, !.action = i]
    OBVIOUS
  <2>2. ~req.challenge /\ req.step = "setupCheck"
    BY <2>1 DEF IdleRequest
  <2> QED
    BY <1>7, <2>1, <2>2, PlainStep, OtpsKeptSteps, QuietTables
       DEF VerifyTwoFactorSetup, Begin, tables
<1>8. ASSUME NEW t \in refreshTokens, Refresh(q, t) PROVE OtpInv'
  <2>1. PICK req : /\ req = [IdleRequest EXCEPT !.step = "refreshSign", !.sid = t.sid,
                         !.created = t.iat, !.account = session[t.sid].account,
                         !.phone = phone[session[t.sid].account]]
    OBVIOUS
  <2>2. ~req.challenge /\ req.step = "refreshSign"
    BY <2>1 DEF IdleRequest
  <2> QED
    BY <1>8, <2>1, <2>2, PlainStep, OtpsKeptSteps, QuietTables DEF Refresh, Begin, tables
<1>9. ASSUME NEW s \in Sids, Logout(q, s) PROVE OtpInv'
  <2>1. PICK req : req = [IdleRequest EXCEPT !.step = "logoutSave", !.sid = s]
    OBVIOUS
  <2>2. ~req.challenge /\ req.step = "logoutSave"
    BY <2>1 DEF IdleRequest
  <2> QED
    BY <1>9, <2>1, <2>2, PlainStep, OtpsKeptSteps, QuietTables DEF Logout, Begin, tables
<1>10. ASSUME NEW a \in Accounts, NEW p \in Phones, RequestPhoneChange(q, a, p) PROVE OtpInv'
  <2>1. PICK req : req = [IdleRequest EXCEPT !.step = "sendChange", !.account = a, !.phone = p,
                                      !.created = now, !.otp = Len(otps) + 1]
    OBVIOUS
  <2>2. ~req.challenge /\ req.step = "sendChange"
    BY <2>1 DEF IdleRequest
  <2> QED
    BY <1>10, <2>1, <2>2, PlainStep, OtpsKeptSteps, QuietTables
       DEF RequestPhoneChange, Begin, tables
<1>11. ASSUME NEW a \in Accounts, NEW i \in DOMAIN actions, VerifyPhoneChange(q, a, i)
       PROVE  OtpInv'
  <2>1. PICK req : req = [IdleRequest EXCEPT !.step = "changeOtp", !.account = a, !.action = i,
                                  !.phone = actions[i].phone, !.from = phone[a]]
    OBVIOUS
  <2>2. ~req.challenge /\ req.step = "changeOtp"
    BY <2>1 DEF IdleRequest
  <2> QED
    BY <1>11, <2>1, <2>2, PlainStep, OtpsKeptSteps, QuietTables
       DEF VerifyPhoneChange, Begin, tables
<1> QED
  BY <1>1, <1>2, <1>3, <1>4, <1>5, <1>6, <1>7, <1>8, <1>9, <1>10, <1>11 DEF RequestStart

\* Requests that go on without an OTP, or end.
LEMMA PlainStepsKeep ==
  ASSUME TypeOK, OtpInv, NEW q \in Requests
  PROVE  /\ Delivered(q) => OtpInv'
         /\ \A o \in DOMAIN otps : ChangeOtp(q, o) => OtpInv'
         /\ ChangeCheck(q) => OtpInv'
         /\ RefreshSign(q) => OtpInv'
         /\ SetupCheck(q) => OtpInv'
         /\ RefreshSave(q) => OtpInv'
<1>0. PICK r : r = request[q] /\ r \in Request /\ RequestOK(r) /\ ChallengeFlagOK(r)
  BY RowTypes DEF OtpInv, ChallengesHaveOtps
<1>d. DOMAIN request = Requests
  BY DEF TypeOK, RequestsOK
<1>1. ASSUME Delivered(q) PROVE OtpInv'
  <2>1. PICK step : /\ step \in {"saveRegistration", "saveChange", "idle"}
                    /\ \/ request' = [request EXCEPT ![q] = [r EXCEPT !.step = step]]
                       \/ request' = [request EXCEPT ![q] = IdleRequest]
    BY <1>0, <1>1 DEF Delivered, Continue, End
  <2>2. ~r.challenge /\ r.otp \in DOMAIN otps
    BY <1>0, <1>1 DEF Delivered, ChallengeFlagOK, RequestOK
  <2>3. PICK req : req = [r EXCEPT !.step = step]
    OBVIOUS
  <2>4. ~req.challenge /\ req.step \in {"saveRegistration", "saveChange", "idle"}
    BY <1>0, <2>1, <2>2, <2>3 DEF Request
  <2> QED
    BY <1>0, <1>1, <2>1, <2>2, <2>3, <2>4, IdleType, PlainStep, OtpsKeptSteps, QuietTables
       DEF Delivered, tables
<1>2. ASSUME NEW o \in DOMAIN otps, ChangeOtp(q, o) PROVE OtpInv'
  <2>1. PICK req : req = [r EXCEPT !.step = "changeCheck", !.otp = o]
    OBVIOUS
  <2>2. ~req.challenge /\ req.step = "changeCheck"
    BY <1>0, <1>2, <2>1 DEF ChangeOtp, Request, ChallengeFlagOK
  <2>3. request' = [request EXCEPT ![q] = req]
    BY <1>0, <1>2, <1>d, <2>1 DEF ChangeOtp
  <2> QED
    BY <1>2, <2>2, <2>3, PlainStep, OtpsKeptSteps, QuietTables DEF ChangeOtp, tables
<1>3. ASSUME ChangeCheck(q) PROVE OtpInv'
  <2>1. PICK req : req = [r EXCEPT !.step = "changeSave",
                 !.from = IF start.side = "users" THEN @ ELSE phone[r.account]]
    OBVIOUS
  <2>2. ~req.challenge /\ req.step = "changeSave"
    BY <1>0, <1>3, <2>1 DEF ChangeCheck, Request, ChallengeFlagOK
  <2>3. request' = [request EXCEPT ![q] = req]
    BY <1>0, <1>3, <1>d, <2>1 DEF ChangeCheck
  <2> QED
    BY <1>3, <2>2, <2>3, PlainStep, OtpsKeptSteps, QuietTables DEF ChangeCheck, tables
<1>4. ASSUME RefreshSign(q) PROVE OtpInv'
  <2>1. PICK req : req = [r EXCEPT !.step = "refreshSave", !.token = now]
    OBVIOUS
  <2>2. ~req.challenge /\ req.step = "refreshSave"
    BY <1>0, <1>4, <2>1 DEF RefreshSign, Request, ChallengeFlagOK
  <2>3. request' = [request EXCEPT ![q] = req]
    BY <1>0, <1>4, <1>d, <2>1 DEF RefreshSign
  <2> QED
    BY <1>4, <2>2, <2>3, PlainStep, OtpsKeptSteps, QuietTables DEF RefreshSign, tables
<1>5. ASSUME RefreshSave(q) PROVE OtpInv'
  <2>1. PICK req : req = [r EXCEPT !.step = "answer"]
    OBVIOUS
  <2>2. ~req.challenge /\ req.step = "answer"
    BY <1>0, <1>5, <2>1 DEF RefreshSave, Request, ChallengeFlagOK
  <2>3. request' = [request EXCEPT ![q] = req]
    BY <1>0, <1>5, <1>d, <2>1 DEF RefreshSave, Continue
  <2>4. r.sid \in Sids
    BY <1>0, <1>5, RowTypes DEF RefreshSave, RequestOK
  <2>5. SessionsKept
    <3>1. \A s \in Sids : session[s] \in Session
      BY RowTypes
    <3>2. session' = [session EXCEPT ![r.sid].iat = r.token] /\ DOMAIN session = Sids
      BY <1>0, <1>5 DEF RefreshSave, TypeOK, SessionsOK
    <3> QED
      BY <2>4, <3>1, <3>2 DEF SessionsKept, Session
  <2>6. UNCHANGED <<actions, otps>>
    BY <1>5 DEF RefreshSave
  <2>7. ChallengesKept
    BY <2>6 DEF ChallengesKept, IsChallenge
  <2> QED
    BY <2>2, <2>3, <2>5, <2>6, <2>7, PlainStep, OtpsKeptSteps
<1>6. ASSUME SetupCheck(q) PROVE OtpInv'
  <2>1. PICK f : f = (twoFactor[r.account] # NoSecret)
    OBVIOUS
  <2>2. PICK req : req = [r EXCEPT !.step = "setupSave", !.found = f]
    OBVIOUS
  <2>3. ~req.challenge /\ req.step = "setupSave"
    BY <1>0, <1>6, <2>2 DEF SetupCheck, Request, ChallengeFlagOK
  <2>4. request' = [request EXCEPT ![q] = req]
    BY <1>0, <1>6, <1>d, <2>1, <2>2 DEF SetupCheck
  <2> QED
    BY <1>6, <2>3, <2>4, PlainStep, OtpsKeptSteps, QuietTables DEF SetupCheck, tables
<1> QED
  BY <1>1, <1>2, <1>3, <1>4, <1>5, <1>6

LEMMA EndKeeps ==
  ASSUME TypeOK, OtpInv, NEW q \in Requests, End(q), OtpsKept, SessionsKept, ChallengesKept
  PROVE  OtpInv'
  BY IdleType, PlainStep DEF End

LEMMA EndStepsKeep ==
  ASSUME TypeOK, OtpInv, NEW q \in Requests
  PROVE  /\ SaveRegistration(q) => OtpInv'
         /\ SaveChange(q) => OtpInv'
         /\ SetupSave(q) => OtpInv'
         /\ ChangeSave(q) => OtpInv'
         /\ LogoutSave(q) => OtpInv'
         /\ Answer(q) => OtpInv'
         /\ Refused(q) => OtpInv'
         /\ RequestFails(q) => OtpInv'
<1>0. PICK r : r = request[q] /\ r \in Request /\ RequestOK(r)
  BY RowTypes
<1>1. ASSUME SaveRegistration(q) PROVE OtpInv'
  <2>1. PICK row : row = NewAction("REGISTRATION", None, r.phone, r.created, 0)
    OBVIOUS
  <2>2. row.type = "REGISTRATION"
    BY <2>1 DEF NewAction
  <2>3. ChallengesKept
    BY <1>0, <1>1, <2>1, <2>2, InsertKept DEF SaveRegistration
  <2> QED
    BY <1>1, <2>3, EndKeeps, OtpsKeptSteps DEF SaveRegistration, SessionsKept
<1>2. ASSUME SaveChange(q) PROVE OtpInv'
  <2>1. PICK row : row = NewAction("PHONE_CHANGE", r.account, r.phone, r.created, 0)
    OBVIOUS
  <2>2. row.type = "PHONE_CHANGE"
    BY <2>1 DEF NewAction
  <2>3. ChallengesKept
    BY <1>0, <1>2, <2>1, <2>2, InsertKept DEF SaveChange
  <2> QED
    BY <1>2, <2>3, EndKeeps, OtpsKeptSteps DEF SaveChange, SessionsKept
<1>3. ASSUME SetupSave(q) PROVE OtpInv'
  <2>1. r.action \in DOMAIN actions /\ actions[r.action].type = "TWO_FACTOR_SETUP"
        /\ actions[r.action] \in Action
    BY <1>0, <1>3, RowTypes DEF SetupSave, RequestOK, ActionFor
  <2>2. PICK row : row = [actions[r.action] EXCEPT !.used = TRUE]
    OBVIOUS
  <2>3. row.type = "TWO_FACTOR_SETUP"
    BY <2>1, <2>2 DEF Action
  <2>4. actions' = [actions EXCEPT ![r.action] = row]
    BY <1>0, <1>3, <2>2 DEF SetupSave
  <2>5. ChallengesKept
    BY <2>1, <2>3, <2>4, MarkKept
  <2> QED
    BY <1>3, <2>5, EndKeeps, OtpsKeptSteps DEF SetupSave, SessionsKept
<1>4. ASSUME ChangeSave(q) PROVE OtpInv'
  <2>1. r.action \in DOMAIN actions /\ actions[r.action].type = "PHONE_CHANGE"
        /\ actions[r.action] \in Action
    BY <1>0, <1>4, RowTypes DEF ChangeSave, RequestOK, ActionFor
  <2>2. PICK row : row = [actions[r.action] EXCEPT !.used = TRUE, !.otp = r.otp]
    OBVIOUS
  <2>3. row.type = "PHONE_CHANGE"
    BY <2>1, <2>2 DEF Action
  <2>4. actions' = [actions EXCEPT ![r.action] = row]
    BY <1>0, <1>4, <2>1, <2>2 DEF ChangeSave
  <2>5. ChallengesKept
    BY <2>1, <2>3, <2>4, MarkKept
  <2> QED
    BY <1>4, <2>5, EndKeeps, OtpsKeptSteps DEF ChangeSave, SessionsKept
<1>5. ASSUME LogoutSave(q) PROVE OtpInv'
  <2>1. r.sid \in Sids
    BY <1>0, <1>5, RowTypes DEF LogoutSave, RequestOK
  <2>2. SessionsKept
    <3>1. \A s \in Sids : session[s] \in Session
      BY RowTypes
    <3>2. session' = [session EXCEPT ![r.sid].revoked = TRUE] /\ DOMAIN session = Sids
      BY <1>0, <1>5 DEF LogoutSave, TypeOK, SessionsOK
    <3> QED
      BY <2>1, <3>1, <3>2 DEF SessionsKept, Session
  <2> QED
    BY <1>5, <2>2, EndKeeps, OtpsKeptSteps DEF LogoutSave, ChallengesKept, IsChallenge
<1>6. Answer(q) => OtpInv'
  BY EndKeeps, OtpsKeptSteps, QuietTables DEF Answer, tables
<1>7. Refused(q) => OtpInv'
  BY EndKeeps, OtpsKeptSteps, QuietTables DEF Refused, tables
<1>8. RequestFails(q) => OtpInv'
  BY EndKeeps, OtpsKeptSteps, QuietTables DEF RequestFails, tables
<1> QED
  BY <1>1, <1>2, <1>3, <1>4, <1>5, <1>6, <1>7, <1>8

\* Requests that take their OTP on.
LEMMA CarryingStepsKeep ==
  ASSUME TypeOK, OtpInv, NEW q \in Requests
  PROVE  /\ RegistrationCheck(q) => OtpInv'
         /\ \A a \in Accounts : SaveAccount(q, a) => OtpInv'
         /\ ChallengeSave(q) => OtpInv'
<1>0. PICK r : r = request[q] /\ r \in Request /\ RequestOK(r) /\ ChallengeFlagOK(r)
               /\ (Challenged(r) => HasChallenge(r.otp))
  BY RowTypes DEF OtpInv, ChallengesHaveOtps
<1>d. DOMAIN request = Requests
  BY DEF TypeOK, RequestsOK
<1>1. ASSUME RegistrationCheck(q) PROVE OtpInv'
  <2>1. PICK req : req = [r EXCEPT !.step = "saveAccount"]
    OBVIOUS
  <2>2. /\ r.step = "registrationCheck" /\ ~r.challenge
        /\ req.step = "saveAccount" /\ ~req.challenge /\ req.otp = r.otp
    BY <1>0, <1>1, <2>1 DEF RegistrationCheck, Request, ChallengeFlagOK
  <2>3. request' = [request EXCEPT ![q] = req]
    BY <1>0, <1>1, <1>d, <2>1 DEF RegistrationCheck, Continue
  <2>4. RequestKept(r, req)
    BY <2>2 DEF RequestKept, Carries, Challenged, ChallengeFlagOK
  <2> QED
    BY <1>0, <1>1, <2>3, <2>4, KeepingStep, OtpsKeptSteps, QuietTables
       DEF RegistrationCheck, tables
<1>2. ASSUME NEW a \in Accounts, SaveAccount(q, a) PROVE OtpInv'
  <2>1. PICK req : req = [r EXCEPT !.step = "openSession", !.account = a]
    OBVIOUS
  <2>2. /\ r.step = "saveAccount" /\ ~r.challenge
        /\ req.step = "openSession" /\ ~req.challenge /\ req.otp = r.otp
    BY <1>0, <1>2, <2>1 DEF SaveAccount, Request, ChallengeFlagOK
  <2>3. request' = [request EXCEPT ![q] = req]
    BY <1>0, <1>2, <1>d, <2>1 DEF SaveAccount
  <2>4. RequestKept(r, req)
    BY <2>2 DEF RequestKept, Carries, Challenged, ChallengeFlagOK
  <2>5. r.action \in DOMAIN actions /\ actions[r.action].type = "REGISTRATION"
        /\ actions[r.action] \in Action
    BY <1>0, <2>2, RowTypes DEF RequestOK, ActionFor
  <2>6. PICK row : row = [actions[r.action] EXCEPT !.used = TRUE, !.account = a, !.otp = r.otp]
    OBVIOUS
  <2>7. row.type = "REGISTRATION"
    BY <2>5, <2>6 DEF Action
  <2>8. actions' = [actions EXCEPT ![r.action] = row]
    BY <1>0, <1>2, <2>5, <2>6 DEF SaveAccount
  <2>9. ChallengesKept
    BY <2>5, <2>7, <2>8, MarkKept
  <2> QED
    BY <1>0, <1>2, <2>3, <2>4, <2>9, KeepingStep, OtpsKeptSteps DEF SaveAccount, SessionsKept
<1>3. ASSUME ChallengeSave(q) PROVE OtpInv'
  <2>1. PICK req : req = [r EXCEPT !.step = "openSession"]
    OBVIOUS
  <2>2. /\ r.step = "challengeSave" /\ r.challenge
        /\ req.step = "openSession" /\ req.challenge /\ req.otp = r.otp
    BY <1>0, <1>3, <2>1 DEF ChallengeSave, Request, ChallengeFlagOK
  <2>3. request' = [request EXCEPT ![q] = req]
    BY <1>0, <1>3, <1>d, <2>1 DEF ChallengeSave, Continue
  <2>4. RequestKept(r, req)
    BY <1>0, <2>2 DEF RequestKept, Carries, Challenged, ChallengeFlagOK
  <2>5. r.action \in DOMAIN actions /\ actions[r.action].type = "TWO_FACTOR_LOGIN"
        /\ actions[r.action] \in Action
    BY <1>0, <2>2, RowTypes DEF RequestOK, ActionFor
  <2>6. PICK row : row = [actions[r.action] EXCEPT !.used = TRUE]
    OBVIOUS
  <2>7. row.type = actions[r.action].type /\ row.otp = actions[r.action].otp
    BY <2>5, <2>6 DEF Action
  <2>8. actions' = [actions EXCEPT ![r.action] = row]
    BY <1>0, <1>3, <2>6 DEF ChallengeSave
  <2>9. ChallengesKept
    BY <2>5, <2>7, <2>8, MarkKept
  <2> QED
    BY <1>0, <1>3, <2>3, <2>4, <2>9, KeepingStep, OtpsKeptSteps DEF ChallengeSave, SessionsKept
<1> QED
  BY <1>1, <1>2, <1>3

\* An OTP that is verified now is with nobody yet.
LEMMA FreshOtp ==
  ASSUME TypeOK, OtpInv, NEW q \in Requests, NEW req, NEW o, req.otp = o, ~req.challenge,
         req.step \in {"registrationCheck", "loginTwoFactor"},
         request' = [request EXCEPT ![q] = req],
         OtpsKept, ~Spent(o), Spent(o)', UNCHANGED <<actions, session>>
  PROVE  OtpInv'
<1>1. request'[q] = req /\ \A p \in Requests : p # q => request'[p] = request[p]
  BY DEF TypeOK, RequestsOK
<1>2. \A p \in Requests : Carries(request[p]) => request[p].otp # o
  BY DEF OtpInv, OtpsAreSpent
<1>3. \A s \in Sids : Direct(s) => session[s].otp # o
  BY DEF OtpInv, OtpsAreSpent
<1>4. ~HasChallenge(o)
  BY DEF OtpInv, OtpsAreSpent, HasChallenge
<1>5. \A x : Spent(x) => Spent(x)'
  BY DEF OtpsKept, Spent
<1>6. \A x : HasChallenge(x)' <=> HasChallenge(x)
  BY DEF HasChallenge, IsChallenge
<1>7. \A s \in Sids : Direct(s)' <=> Direct(s)
  BY DEF Direct
<1>8. ChallengeFlagOK(req) /\ ~Challenged(req)
  BY DEF ChallengeFlagOK, Challenged
<1>9. OtpsAreSpent'
  <2>1. (\A p \in Requests : Carries(request[p]) => Spent(request[p].otp))'
    BY <1>1, <1>5 DEF OtpInv, OtpsAreSpent, Spent
  <2>2. (\A s \in Sids : Direct(s) => Spent(session[s].otp))'
    BY <1>5, <1>7 DEF OtpInv, OtpsAreSpent, Spent
  <2>3. (\A i \in DOMAIN actions : IsChallenge(i) => Spent(actions[i].otp))'
    BY <1>5 DEF OtpInv, OtpsAreSpent, IsChallenge, Spent
  <2> QED
    BY <2>1, <2>2, <2>3 DEF OtpsAreSpent
<1>10. OtpsAreApart'
  <2>1. (\A p, t \in Requests :
          Carries(request[p]) /\ Carries(request[t]) /\ request[p].otp = request[t].otp => p = t)'
    BY <1>1, <1>2 DEF OtpInv, OtpsAreApart
  <2>2. (\A s, t \in Sids : Direct(s) /\ Direct(t) /\ session[s].otp = session[t].otp => s = t)'
    BY <1>7 DEF OtpInv, OtpsAreApart
  <2>3. (\A p \in Requests, s \in Sids :
          Carries(request[p]) /\ Direct(s) => request[p].otp # session[s].otp)'
    BY <1>1, <1>3, <1>7 DEF OtpInv, OtpsAreApart
  <2>4. (\A p \in Requests : Carries(request[p]) => ~HasChallenge(request[p].otp))'
    BY <1>1, <1>4, <1>6 DEF OtpInv, OtpsAreApart, HasChallenge, IsChallenge
  <2>5. (\A s \in Sids : Direct(s) => ~HasChallenge(session[s].otp))'
    BY <1>6, <1>7 DEF OtpInv, OtpsAreApart, HasChallenge, IsChallenge
  <2> QED
    BY <2>1, <2>2, <2>3, <2>4, <2>5 DEF OtpsAreApart
<1>11. ChallengesHaveOtps'
  <2>1. (\A p \in Requests : ChallengeFlagOK(request[p]))'
    BY <1>1, <1>8 DEF OtpInv, ChallengesHaveOtps
  <2>2. (\A p \in Requests : Challenged(request[p]) => HasChallenge(request[p].otp))'
    BY <1>1, <1>6, <1>8 DEF OtpInv, ChallengesHaveOtps, HasChallenge, IsChallenge
  <2>3. (\A s \in Sids : session[s].challenge => HasChallenge(session[s].otp))'
    BY <1>6 DEF OtpInv, ChallengesHaveOtps, HasChallenge, IsChallenge
  <2> QED
    BY <2>1, <2>2, <2>3 DEF ChallengesHaveOtps
<1> QED
  BY <1>9, <1>10, <1>11 DEF OtpInv

LEMMA VerifyingStepsKeep ==
  ASSUME TypeOK, OtpInv, NEW q \in Requests, NEW o \in DOMAIN otps
  PROVE  /\ RegistrationOtp(q, o) => OtpInv'
         /\ LoginOtp(q, o) => OtpInv'
<1>0. PICK r : r = request[q] /\ r \in Request /\ ChallengeFlagOK(r)
  BY RowTypes DEF OtpInv, ChallengesHaveOtps
<1>d. DOMAIN request = Requests
  BY DEF TypeOK, RequestsOK
<1>1. ASSUME RegistrationOtp(q, o) PROVE OtpInv'
  <2>1. PICK req : req = [r EXCEPT !.step = "registrationCheck", !.otp = o]
    OBVIOUS
  <2>2. req.step = "registrationCheck" /\ req.otp = o /\ ~req.challenge
    BY <1>0, <1>1, <2>1 DEF RegistrationOtp, Request, ChallengeFlagOK
  <2>3. request' = [request EXCEPT ![q] = req]
    BY <1>0, <1>1, <1>d, <2>1 DEF RegistrationOtp
  <2>4. OtpsKept /\ ~Spent(o) /\ Spent(o)'
    BY <1>1, OtpsKeptSteps DEF RegistrationOtp
  <2> QED
    BY <1>1, <2>2, <2>3, <2>4, FreshOtp DEF RegistrationOtp, tables
<1>2. ASSUME LoginOtp(q, o) PROVE OtpInv'
  <2>1. PICK f : f = (twoFactor[r.account] # NoSecret)
    OBVIOUS
  <2>2. PICK req : req = [r EXCEPT !.step = "loginTwoFactor", !.otp = o, !.secured = f]
    OBVIOUS
  <2>3. req.step = "loginTwoFactor" /\ req.otp = o /\ ~req.challenge
    BY <1>0, <1>2, <2>2 DEF LoginOtp, Request, ChallengeFlagOK
  <2>4. request' = [request EXCEPT ![q] = req]
    BY <1>0, <1>2, <1>d, <2>1, <2>2 DEF LoginOtp
  <2>5. OtpsKept /\ ~Spent(o) /\ Spent(o)'
    BY <1>2, OtpsKeptSteps DEF LoginOtp
  <2> QED
    BY <1>2, <2>3, <2>4, <2>5, FreshOtp DEF LoginOtp, tables
<1> QED
  BY <1>1, <1>2

\* The OTP of a login becomes that of a challenge, ...
LEMMA LoginTwoFactorKeeps ==
  ASSUME TypeOK, OtpInv, NEW q \in Requests, LoginTwoFactor(q)
  PROVE  OtpInv'
<1>0. PICK r : r = request[q] /\ r \in Request /\ ChallengeFlagOK(r)
  BY RowTypes DEF OtpInv, ChallengesHaveOtps
<1>d. DOMAIN request = Requests
  BY DEF TypeOK, RequestsOK
<1>c. r.step = "loginTwoFactor" /\ ~r.challenge /\ Carries(r)
  BY <1>0 DEF LoginTwoFactor, ChallengeFlagOK, Carries
<1>u. UNCHANGED <<session, otps>>
  BY DEF LoginTwoFactor
<1>1. CASE Continue(q, "openSession") /\ UNCHANGED actions
  <2>1. PICK req : req = [r EXCEPT !.step = "openSession"]
    OBVIOUS
  <2>2. req.step = "openSession" /\ req.otp = r.otp /\ ~req.challenge
    BY <1>0, <1>c, <2>1 DEF Request
  <2>3. request' = [request EXCEPT ![q] = req]
    BY <1>0, <1>1, <1>d, <2>1 DEF Continue
  <2>4. RequestKept(r, req)
    BY <1>c, <2>2 DEF RequestKept, Carries, Challenged, ChallengeFlagOK
  <2> QED
    BY <1>0, <1>1, <1>u, <2>3, <2>4, KeepingStep, OtpsKeptSteps, QuietTables
<1>2. CASE /\ InsertAction(NewAction("TWO_FACTOR_LOGIN", r.account, None, now, r.otp))
           /\ End(q)
  <2>1. PICK row : row = NewAction("TWO_FACTOR_LOGIN", r.account, None, now, r.otp)
    OBVIOUS
  <2>2. row.type = "TWO_FACTOR_LOGIN" /\ row.otp = r.otp
    BY <2>1 DEF NewAction
  <2>3. actions \in Seq(Action) /\ actions' = Append(actions, row)
    BY <1>2, <2>1 DEF TypeOK, ActionsOK, InsertAction
  <2>4. /\ \A i \in DOMAIN actions : i \in DOMAIN actions' /\ actions'[i] = actions[i]
        /\ \A i \in DOMAIN actions' : i \in DOMAIN actions \/ actions'[i] = row
    BY <2>3
  <2>5. \A x : HasChallenge(x)' => HasChallenge(x) \/ x = r.otp
    BY <2>2, <2>4 DEF HasChallenge, IsChallenge
  <2>6. \A x : HasChallenge(x) => HasChallenge(x)'
    BY <2>4 DEF HasChallenge, IsChallenge
  <2>7. /\ \A p \in Requests : Carries(request[p]) /\ p # q => request[p].otp # r.otp
        /\ \A s \in Sids : Direct(s) => session[s].otp # r.otp
        /\ Spent(r.otp)
    BY <1>0, <1>c DEF OtpInv, OtpsAreApart, OtpsAreSpent
  <2>8. request'[q] = IdleRequest /\ \A p \in Requests : p # q => request'[p] = request[p]
    BY <1>2, <1>d DEF End
  <2>9. ~Carries(IdleRequest) /\ ~Challenged(IdleRequest) /\ ChallengeFlagOK(IdleRequest)
    BY IdleType DEF Carries, Challenged, ChallengeFlagOK
  <2>10. \A x : Spent(x)' <=> Spent(x)
    BY <1>u DEF Spent
  <2>11. \A s \in Sids : Direct(s)' <=> Direct(s)
    BY <1>u DEF Direct
  <2>12. OtpsAreSpent'
    <3>1. (\A p \in Requests : Carries(request[p]) => Spent(request[p].otp))'
      BY <2>8, <2>9, <2>10 DEF OtpInv, OtpsAreSpent, Spent
    <3>2. (\A s \in Sids : Direct(s) => Spent(session[s].otp))'
      BY <1>u, <2>10, <2>11 DEF OtpInv, OtpsAreSpent, Spent
    <3>3. (\A i \in DOMAIN actions : IsChallenge(i) => Spent(actions[i].otp))'
      BY <2>2, <2>4, <2>7, <2>10 DEF OtpInv, OtpsAreSpent, IsChallenge, Spent
    <3> QED
      BY <3>1, <3>2, <3>3 DEF OtpsAreSpent
  <2>13. OtpsAreApart'
    <3>1. (\A p, t \in Requests :
            Carries(request[p]) /\ Carries(request[t]) /\ request[p].otp = request[t].otp => p = t)'
      BY <2>8, <2>9 DEF OtpInv, OtpsAreApart
    <3>2. (\A s, t \in Sids : Direct(s) /\ Direct(t) /\ session[s].otp = session[t].otp => s = t)'
      BY <1>u, <2>11 DEF OtpInv, OtpsAreApart
    <3>3. (\A p \in Requests, s \in Sids :
            Carries(request[p]) /\ Direct(s) => request[p].otp # session[s].otp)'
      BY <1>u, <2>8, <2>9, <2>11 DEF OtpInv, OtpsAreApart
    <3>4. (\A p \in Requests : Carries(request[p]) => ~HasChallenge(request[p].otp))'
      BY <2>5, <2>7, <2>8, <2>9 DEF OtpInv, OtpsAreApart, HasChallenge, IsChallenge
    <3>5. (\A s \in Sids : Direct(s) => ~HasChallenge(session[s].otp))'
      BY <1>u, <2>5, <2>7, <2>11 DEF OtpInv, OtpsAreApart, HasChallenge, IsChallenge
    <3> QED
      BY <3>1, <3>2, <3>3, <3>4, <3>5 DEF OtpsAreApart
  <2>14. ChallengesHaveOtps'
    <3>1. (\A p \in Requests : ChallengeFlagOK(request[p]))'
      BY <2>8, <2>9 DEF OtpInv, ChallengesHaveOtps
    <3>2. (\A p \in Requests : Challenged(request[p]) => HasChallenge(request[p].otp))'
      BY <2>6, <2>8, <2>9 DEF OtpInv, ChallengesHaveOtps, HasChallenge, IsChallenge
    <3>3. (\A s \in Sids : session[s].challenge => HasChallenge(session[s].otp))'
      BY <1>u, <2>6 DEF OtpInv, ChallengesHaveOtps, HasChallenge, IsChallenge
    <3> QED
      BY <3>1, <3>2, <3>3 DEF ChallengesHaveOtps
  <2> QED
    BY <2>12, <2>13, <2>14 DEF OtpInv
<1> QED
  BY <1>0, <1>1, <1>2 DEF LoginTwoFactor

\* ... or that of the session it opens.
LEMMA OpenSessionKeeps ==
  ASSUME TypeOK, OtpInv, NEW q \in Requests, NEW n \in Sids, OpenSession(q, n)
  PROVE  OtpInv'
<1>0. PICK r : /\ r = request[q] /\ r \in Request /\ ChallengeFlagOK(r)
               /\ r.step = "openSession"
  BY RowTypes DEF OtpInv, ChallengesHaveOtps, OpenSession
<1>1. PICK req : req = [r EXCEPT !.step = "answer", !.sid = n, !.token = now]
  OBVIOUS
<1>2. request'[q] = req /\ \A p \in Requests : p # q => request'[p] = request[p]
  BY <1>0, <1>1 DEF OpenSession, TypeOK, RequestsOK
<1>3. req.step = "answer"
  BY <1>0, <1>1 DEF Request
<1>4. ~Carries(req) /\ ~Challenged(req) /\ ChallengeFlagOK(req)
  BY <1>3 DEF Carries, Challenged, ChallengeFlagOK
<1>5. PICK row : row = [account |-> r.account, iat |-> now, opened |-> now, revoked |-> FALSE,
                        otp |-> r.otp, challenge |-> r.challenge, secured |-> r.secured]
  OBVIOUS
<1>6. row.otp = r.otp /\ row.challenge = r.challenge
  BY <1>5
<1>7. session'[n] = row /\ \A s \in Sids : s # n => session'[s] = session[s]
  BY <1>0, <1>5 DEF OpenSession, TypeOK, SessionsOK
<1>8. UNCHANGED <<actions, otps>>
  BY DEF OpenSession
<1>9. \A x : (HasChallenge(x)' <=> HasChallenge(x)) /\ (Spent(x)' <=> Spent(x))
  BY <1>8 DEF HasChallenge, IsChallenge, Spent
<1>10. \A s \in Sids : s # n => (Direct(s)' <=> Direct(s))
  BY <1>7 DEF Direct
<1>11. Direct(n)' => ~r.challenge
  BY <1>6, <1>7 DEF Direct
<1>12. ~r.challenge =>
         /\ Spent(r.otp) /\ ~HasChallenge(r.otp)
         /\ \A p \in Requests : Carries(request[p]) /\ p # q => request[p].otp # r.otp
         /\ \A s \in Sids : Direct(s) => session[s].otp # r.otp
  BY <1>0 DEF OtpInv, OtpsAreApart, OtpsAreSpent, Carries
<1>13. r.challenge => HasChallenge(r.otp)
  BY <1>0 DEF OtpInv, ChallengesHaveOtps, Challenged
<1>14. OtpsAreSpent'
  <2>1. (\A p \in Requests : Carries(request[p]) => Spent(request[p].otp))'
    BY <1>2, <1>4, <1>9 DEF OtpInv, OtpsAreSpent, Spent
  <2>2. (\A s \in Sids : Direct(s) => Spent(session[s].otp))'
    BY <1>6, <1>7, <1>9, <1>10, <1>11, <1>12 DEF OtpInv, OtpsAreSpent, Spent
  <2>3. (\A i \in DOMAIN actions : IsChallenge(i) => Spent(actions[i].otp))'
    BY <1>8, <1>9 DEF OtpInv, OtpsAreSpent, IsChallenge, Spent
  <2> QED
    BY <2>1, <2>2, <2>3 DEF OtpsAreSpent
<1>15. OtpsAreApart'
  <2>1. (\A p, t \in Requests :
          Carries(request[p]) /\ Carries(request[t]) /\ request[p].otp = request[t].otp => p = t)'
    BY <1>2, <1>4 DEF OtpInv, OtpsAreApart
  <2>2. (\A s, t \in Sids : Direct(s) /\ Direct(t) /\ session[s].otp = session[t].otp => s = t)'
    BY <1>6, <1>7, <1>10, <1>11, <1>12 DEF OtpInv, OtpsAreApart
  <2>3. (\A p \in Requests, s \in Sids :
          Carries(request[p]) /\ Direct(s) => request[p].otp # session[s].otp)'
    BY <1>2, <1>4, <1>6, <1>7, <1>10, <1>11, <1>12 DEF OtpInv, OtpsAreApart
  <2>4. (\A p \in Requests : Carries(request[p]) => ~HasChallenge(request[p].otp))'
    BY <1>2, <1>4, <1>9 DEF OtpInv, OtpsAreApart, HasChallenge, IsChallenge
  <2>5. (\A s \in Sids : Direct(s) => ~HasChallenge(session[s].otp))'
    BY <1>6, <1>7, <1>9, <1>10, <1>11, <1>12 DEF OtpInv, OtpsAreApart, HasChallenge, IsChallenge
  <2> QED
    BY <2>1, <2>2, <2>3, <2>4, <2>5 DEF OtpsAreApart
<1>16. ChallengesHaveOtps'
  <2>1. (\A p \in Requests : ChallengeFlagOK(request[p]))'
    BY <1>2, <1>4 DEF OtpInv, ChallengesHaveOtps
  <2>2. (\A p \in Requests : Challenged(request[p]) => HasChallenge(request[p].otp))'
    BY <1>2, <1>4, <1>9 DEF OtpInv, ChallengesHaveOtps, HasChallenge, IsChallenge
  <2>3. (\A s \in Sids : session[s].challenge => HasChallenge(session[s].otp))'
    BY <1>6, <1>7, <1>9, <1>13 DEF OtpInv, ChallengesHaveOtps, HasChallenge, IsChallenge
  <2> QED
    BY <2>1, <2>2, <2>3 DEF ChallengesHaveOtps
<1> QED
  BY <1>14, <1>15, <1>16 DEF OtpInv

LEMMA InitOtpInv == Init => OtpInv
<1> SUFFICES ASSUME Init PROVE OtpInv
  OBVIOUS
<1>1. \A q \in Requests : request[q] = IdleRequest
  <2>1. request = [q \in Requests |-> IdleRequest]
    BY DEF Init
  <2> QED
    BY <2>1
<1>2. ~Carries(IdleRequest) /\ ~Challenged(IdleRequest) /\ ChallengeFlagOK(IdleRequest)
  BY IdleType DEF Carries, Challenged, ChallengeFlagOK
<1>3. ASSUME NEW s \in Sids PROVE session[s].otp = 0 /\ ~session[s].challenge
  <2>1. PICK a : \/ session[s] = [NoSession EXCEPT !.account = a, !.iat = 0, !.opened = 0]
                 \/ session[s] = NoSession
    BY DEF Init
  <2>2. PICK none \in Session : none = NoSession /\ none.otp = 0 /\ ~none.challenge
    <3>1. NoSession \in Session
      BY DEF NoSession, Session
    <3>2. NoSession.otp = 0 /\ NoSession.challenge = FALSE
      BY DEF NoSession
    <3> QED
      BY <3>1, <3>2
  <2>3. PICK row : row = [none EXCEPT !.account = a, !.iat = 0, !.opened = 0]
    OBVIOUS
  <2>4. row.otp = none.otp /\ row.challenge = none.challenge
    BY <2>3 DEF Session
  <2> QED
    BY <2>1, <2>2, <2>3, <2>4
<1>4. \A i \in DOMAIN actions : FALSE
  <2>1. actions = <<>>
    BY DEF Init
  <2> QED
    BY <2>1
<1> QED
  BY <1>1, <1>2, <1>3, <1>4
     DEF OtpInv, OtpsAreSpent, OtpsAreApart, ChallengesHaveOtps, Direct

LEMMA NextOtpInv == TypeOK /\ OtpInv /\ [Next]_vars => OtpInv'
<1> SUFFICES ASSUME TypeOK, OtpInv, [Next]_vars PROVE OtpInv'
  OBVIOUS
<1>1. CASE Tick \/ UNCHANGED vars
  <2>1. UNCHANGED <<actions, session, otps, request>>
    BY <1>1 DEF Tick, tables, vars
  <2>2. \A q \in Requests : RequestKept(request[q], request'[q])
    BY <2>1 DEF OtpInv, ChallengesHaveOtps, RequestKept
  <2> QED
    BY <2>1, <2>2, QuietTables, OtpsKeptSteps, KeptOtpInv
<1>2. CASE Restart
  <2>1. \A q \in Requests : request'[q] = IdleRequest
    BY <1>2 DEF Restart
  <2>2. \A q \in Requests : RequestKept(request[q], request'[q])
    BY <2>1, IdleType DEF RequestKept, Carries, Challenged, ChallengeFlagOK
  <2> QED
    BY <1>2, <2>2, QuietTables, OtpsKeptSteps, KeptOtpInv DEF Restart, tables
<1>3. ASSUME NEW q \in Requests, RequestStart(q) PROVE OtpInv'
  BY <1>3, StartKeeps
<1>4. ASSUME NEW q \in Requests, RequestStep(q) PROVE OtpInv'
  BY <1>4, PlainStepsKeep, EndStepsKeep, CarryingStepsKeep, VerifyingStepsKeep,
     LoginTwoFactorKeeps, OpenSessionKeeps DEF RequestStep
<1>5. ASSUME NEW q \in Requests, RequestFails(q) PROVE OtpInv'
  BY <1>5, EndStepsKeep
<1> QED
  BY <1>1, <1>2, <1>3, <1>4, <1>5 DEF Next

\* An OTP that was verified is with one request, one session or the challenges of
\* one login, and nowhere else.
THEOREM OtpInvariant == Spec => []OtpInv
<1>1. Init => OtpInv
  BY InitOtpInv
<1>2. TypeOK /\ OtpInv /\ [Next]_vars => OtpInv'
  BY NextOtpInv
<1> QED
  BY <1>1, <1>2, TypeCorrect, PTL DEF Spec

\* One OTP opens one session, whatever requests, failures and restarts there are
\* between the check of its code and the row of the session.
THEOREM OneSession == Spec => []OneSessionPerOtp
<1>1. TypeOK /\ OtpInv => OneSessionPerOtp
  <2> SUFFICES ASSUME TypeOK, OtpInv, NEW s \in Sids, NEW t \in Sids, session[s].otp # 0,
                      session[s].otp = session[t].otp, s # t
               PROVE  session[s].challenge /\ session[t].challenge
    BY DEF OneSessionPerOtp
  <2>1. ~(Direct(s) /\ Direct(t))
    BY DEF OtpInv, OtpsAreApart
  <2>2. Direct(s) => ~session[t].challenge
    BY DEF OtpInv, OtpsAreApart, ChallengesHaveOtps
  <2>3. Direct(t) => ~session[s].challenge
    BY DEF OtpInv, OtpsAreApart, ChallengesHaveOtps
  <2> QED
    BY <2>1, <2>2, <2>3 DEF Direct
<1> QED
  BY <1>1, TypeCorrect, OtpInvariant, PTL

-----------------------------------------------------------------------------
(***************************************************************************)
(* A logout is for good.                                                   *)
(***************************************************************************)
\* Three steps write sessions.
LEMMA NextSessions ==
  ASSUME [Next]_vars
  PROVE  \/ UNCHANGED session
         \/ \E q \in Requests : RefreshSave(q) \/ LogoutSave(q) \/ \E s \in Sids : OpenSession(q, s)
<1>1. ASSUME NEW q \in Requests, RequestStart(q) PROVE UNCHANGED session
  <2>1. ASSUME NEW p, NEW i
        PROVE  Register(q, p) \/ Login(q, p) \/ VerifyRegistration(q, p, i) => UNCHANGED session
    BY DEF Register, Login, VerifyRegistration, tables
  <2>2. ASSUME NEW a
        PROVE  VerifyLogin(q, a) \/ EnableTwoFactor(q, a) => UNCHANGED session
    BY DEF VerifyLogin, EnableTwoFactor, tables
  <2>3. ASSUME NEW i
        PROVE  VerifyTwoFactor(q, i) \/ VerifyTwoFactorSetup(q, i) => UNCHANGED session
    BY DEF VerifyTwoFactor, VerifyTwoFactorSetup, tables
  <2>4. ASSUME NEW t, NEW s PROVE Refresh(q, t) \/ Logout(q, s) => UNCHANGED session
    BY DEF Refresh, Logout, tables
  <2>5. ASSUME NEW a, NEW p, NEW i
        PROVE  RequestPhoneChange(q, a, p) \/ VerifyPhoneChange(q, a, i) => UNCHANGED session
    BY DEF RequestPhoneChange, VerifyPhoneChange, tables
  <2> QED
    BY <1>1, <2>1, <2>2, <2>3, <2>4, <2>5 DEF RequestStart
<1>2. ASSUME NEW q \in Requests, RequestStep(q)
      PROVE  \/ UNCHANGED session
             \/ \E s \in Sids : OpenSession(q, s)
             \/ RefreshSave(q) \/ LogoutSave(q)
  <2>1. Delivered(q) \/ SaveRegistration(q) \/ SaveChange(q) => UNCHANGED session
    BY DEF Delivered, SaveRegistration, SaveChange, tables
  <2>2. ASSUME NEW o
        PROVE  RegistrationOtp(q, o) \/ LoginOtp(q, o) \/ ChangeOtp(q, o) => UNCHANGED session
    BY DEF RegistrationOtp, LoginOtp, ChangeOtp, tables
  <2>3. RegistrationCheck(q) \/ (\E a \in Accounts : SaveAccount(q, a)) => UNCHANGED session
    BY DEF RegistrationCheck, SaveAccount, tables
  <2>4. LoginTwoFactor(q) \/ ChallengeSave(q) \/ SetupSave(q) => UNCHANGED session
    BY DEF LoginTwoFactor, ChallengeSave, SetupSave
  <2>5. Answer(q) \/ RefreshSign(q) \/ SetupCheck(q) \/ ChangeCheck(q) \/ ChangeSave(q)
          => UNCHANGED session
    BY DEF Answer, RefreshSign, SetupCheck, ChangeCheck, ChangeSave, tables
  <2>6. Refused(q) => UNCHANGED session
    BY DEF Refused, tables
  <2> QED
    BY <1>2, <2>1, <2>2, <2>3, <2>4, <2>5, <2>6 DEF RequestStep
<1>3. Tick \/ Restart \/ (\E q \in Requests : RequestFails(q)) \/ UNCHANGED vars
        => UNCHANGED session
  BY DEF Tick, Restart, RequestFails, vars, tables
<1> QED
  BY <1>1, <1>2, <1>3 DEF Next

LEMMA NextRevoked ==
  ASSUME TypeOK, [Next]_vars, NEW n \in Sids, session[n].revoked
  PROVE  session'[n].revoked /\ session'[n].account = session[n].account
<1>1. CASE UNCHANGED session
  BY <1>1
<1>2. ASSUME NEW q \in Requests, NEW s \in Sids, OpenSession(q, s)
      PROVE  session'[n] = session[n]
  <2>1. s # n
    BY <1>2 DEF OpenSession, NoSession
  <2> QED
    BY <1>2, <2>1 DEF OpenSession, TypeOK, SessionsOK
<1>3. ASSUME NEW q \in Requests, RefreshSave(q) \/ LogoutSave(q)
      PROVE  session'[n].revoked /\ session'[n].account = session[n].account
  <2>1. PICK r : r = request[q] /\ r.sid \in Sids
    BY <1>3, RowTypes DEF RefreshSave, LogoutSave, RequestOK
  <2>2. session[r.sid] \in Session /\ session[n] \in Session /\ DOMAIN session = Sids
    BY <2>1, RowTypes DEF TypeOK, SessionsOK
  <2>3. \/ session' = [session EXCEPT ![r.sid].iat = r.token]
        \/ session' = [session EXCEPT ![r.sid].revoked = TRUE]
    BY <1>3, <2>1 DEF RefreshSave, LogoutSave
  <2> QED
    BY <2>1, <2>2, <2>3 DEF Session
<1> QED
  BY <1>1, <1>2, <1>3, NextSessions

\* A session that was revoked stays revoked and with its account, whatever refresh
\* has read it before the logout and saves it after.
THEOREM RevokedForGood == Spec => RevokedStaysRevoked
<1>1. TypeOK /\ [Next]_vars =>
        [\A s \in Sids : session[s].revoked =>
           session'[s].revoked /\ session'[s].account = session[s].account]_vars
  BY NextRevoked
<1> QED
  BY <1>1, TypeCorrect, PTL DEF Spec, RevokedStaysRevoked
=============================================================================
