---------------------------- MODULE Authentication ----------------------------
(***************************************************************************)
(* Authentication of one side: all requests in flight together, failures   *)
(* of PostgreSQL and of the OTP provider, restarts of the process, and     *)
(* what holds nevertheless.                                                *)
(***************************************************************************)
EXTENDS PhoneChange

\* A request stops with an error, and nothing is written: a wrong code, a phone
\* that has been taken since it was checked, a two-factor row somebody else has
\* inserted.
Refused(q) ==
  LET r == request[q]
      others == Accounts \ {r.account}
  IN  /\ \/ r.step \in {"registrationOtp", "loginOtp", "changeOtp"}
         \/ r.step \in {"registrationCheck", "saveAccount"} /\ Taken(r.phone)
         \/ r.step = "changeCheck" /\ \E b \in others : Holds(b, r.phone)
         \/ r.step = "changeSave" /\ r.from # r.phone /\ \E b \in others : Holds(b, r.phone)
         \/ r.step = "setupSave" /\ ~r.found /\ twoFactor[r.account] # NoSecret
      /\ End(q)
      /\ UNCHANGED <<start, now, tables, otps, held, count>>

\* PostgreSQL or the provider fails, or the answer does not reach the client.
RequestFails(q) ==
  /\ request[q].step # "idle"
  /\ count.failures < MaxFailures
  /\ count' = [count EXCEPT !.failures = @ + 1]
  /\ lost' = lost \union (IF request[q].step = "answer" THEN {request[q].sid} ELSE {})
  /\ End(q)
  /\ UNCHANGED <<start, now, tables, otps, refreshTokens, accessTokens, kept, contested>>

\* The process restarts: requests and OTPs are gone, rows stay.
Restart ==
  /\ count.restarts < MaxRestarts
  /\ count' = [count EXCEPT !.restarts = @ + 1]
  /\ lost' = lost \union {s \in Sids : \E q \in Requests :
                              request[q].step = "answer" /\ request[q].sid = s}
  /\ request' = [q \in Requests |-> IdleRequest]
  /\ ForgetOtps
  /\ UNCHANGED <<start, now, tables, refreshTokens, accessTokens, kept, contested>>

\* What clients may ask for.
RequestStart(q) ==
  \/ \E p \in Phones : Register(q, p) \/ Login(q, p)
  \/ \E p \in Phones, i \in DOMAIN actions : VerifyRegistration(q, p, i)
  \/ \E a \in Accounts : VerifyLogin(q, a) \/ EnableTwoFactor(q, a)
  \/ \E i \in DOMAIN actions : VerifyTwoFactor(q, i) \/ VerifyTwoFactorSetup(q, i)
  \/ \E t \in refreshTokens : Refresh(q, t)
  \/ \E s \in Sids : Logout(q, s)
  \/ \E a \in Accounts, p \in Phones : RequestPhoneChange(q, a, p)
  \/ \E a \in Accounts, i \in DOMAIN actions : VerifyPhoneChange(q, a, i)

\* What the server does with a request it has taken.
RequestStep(q) ==
  \/ Delivered(q)
  \/ SaveRegistration(q)
  \/ \E o \in DOMAIN otps : RegistrationOtp(q, o) \/ LoginOtp(q, o) \/ ChangeOtp(q, o)
  \/ RegistrationCheck(q)
  \/ \E a \in Accounts : SaveAccount(q, a)
  \/ LoginTwoFactor(q)
  \/ ChallengeSave(q)
  \/ SetupCheck(q)
  \/ SetupSave(q)
  \/ \E s \in Sids : OpenSession(q, s)
  \/ Answer(q)
  \/ RefreshSign(q)
  \/ RefreshSave(q)
  \/ LogoutSave(q)
  \/ SaveChange(q)
  \/ ChangeCheck(q)
  \/ ChangeSave(q)
  \/ Refused(q)

Next ==
  \/ Tick
  \/ Restart
  \/ \E q \in Requests : RequestStart(q) \/ RequestStep(q) \/ RequestFails(q)

Spec == Init /\ [][Next]_vars

-----------------------------------------------------------------------------
Registered == {a \in Accounts : phone[a] # None}
OpenSids   == {s \in Sids : session[s].account \in Registered}

ActionOK(row) ==
  /\ row.type # "REGISTRATION" => row.account \in Registered
  /\ row.type \in {"REGISTRATION", "PHONE_CHANGE"} => row.phone \in Phones

\* The kind of action a request works on.
ActionFor(step) ==
  CASE step \in {"registrationOtp", "registrationCheck", "saveAccount"} -> "REGISTRATION"
    [] step \in {"changeOtp", "changeCheck", "changeSave"}              -> "PHONE_CHANGE"
    [] step = "challengeSave"                                           -> "TWO_FACTOR_LOGIN"
    [] step \in {"setupCheck", "setupSave"}                             -> "TWO_FACTOR_SETUP"
    [] OTHER                                                            -> "none"

RequestOK(r) ==
  /\ r.step \in {"sendRegistration", "sendLogin", "sendChange"} => r.otp \in DOMAIN otps
  /\ r.step \in {"sendRegistration", "sendChange", "saveRegistration", "saveChange"} =>
       r.created \in Time
  /\ ActionFor(r.step) # "none" =>
       r.action \in DOMAIN actions /\ actions[r.action].type = ActionFor(r.step)
  /\ r.step \in {"sendRegistration", "sendChange", "saveRegistration", "saveChange",
                  "registrationOtp", "registrationCheck", "saveAccount", "changeOtp",
                  "changeCheck", "changeSave", "loginOtp", "loginTwoFactor", "challengeSave",
                  "openSession", "refreshSign", "refreshSave", "answer"} => r.phone \in Phones
  /\ r.step \in {"sendChange", "saveChange", "changeOtp", "changeCheck", "changeSave",
                  "loginOtp", "loginTwoFactor", "challengeSave", "setupCheck", "setupSave",
                  "openSession"} =>
       r.account \in Registered
  /\ r.step \in {"refreshSign", "refreshSave", "logoutSave", "answer"} => r.sid \in OpenSids
  /\ r.step \in {"refreshSave", "answer"} => r.token \in Time

AccountsOK ==
  /\ phone \in [Accounts -> Phones \union {None}]
  /\ twoFactor \in [Accounts -> {Before, NoSecret} \union DOMAIN actions]
ActionsOK ==
  /\ actions \in Seq(Action) /\ Len(actions) <= MaxActions
  /\ \A i \in DOMAIN actions : ActionOK(actions[i])
OtpsOK == otps \in Seq(Otp) /\ Len(otps) <= MaxOtps
SessionsOK == session \in [Sids -> Session]
RequestsOK ==
  request \in [Requests -> Request] /\ \A q \in Requests : RequestOK(request[q])
TokensOK ==
  /\ refreshTokens \subseteq [sid : OpenSids, iat : Time]
  /\ accessTokens \subseteq [sid : OpenSids, phone : Phones, signed : Time]
BooksOK ==
  /\ kept \in [Sids -> Time \union {Null}]
  /\ lost \subseteq Sids /\ contested \subseteq Sids
  /\ count \in [refreshes : 0 .. MaxRefreshes, failures : 0 .. MaxFailures,
                restarts : 0 .. MaxRestarts]

\* Type invariant: rows, OTPs and tokens are well-formed, and a request or a token
\* that names a row names one that is there.
TypeOK == start \in Starts /\ now \in Time /\ AccountsOK /\ ActionsOK /\ OtpsOK /\ SessionsOK
          /\ RequestsOK /\ TokensOK /\ BooksOK

\* One OTP opens one session, however many requests carry its code: verifyOtp
\* finds and marks it in one go, and the marks survive everything but a restart,
\* which forgets the OTPs too.  (A challenge may open two: see below.)
OneSessionPerOtp ==
  \A s, t \in Sids :
    session[s].otp # 0 /\ session[s].otp = session[t].otp =>
      \/ s = t
      \/ session[s].challenge /\ session[t].challenge

\* The strengthening of OneSessionPerOtp that every step preserves.  The OTP of a
\* login or registration is with the request that has verified it, then with the
\* session it opens or the challenge it leads to.
Carries(r) ==
  /\ r.step \in {"registrationCheck", "saveAccount", "loginTwoFactor", "openSession"}
  /\ ~r.challenge
Challenged(r) == r.step \in {"challengeSave", "openSession"} /\ r.challenge
Direct(s) == session[s].otp # 0 /\ ~session[s].challenge
IsChallenge(i) == i \in DOMAIN actions /\ actions[i].type = "TWO_FACTOR_LOGIN"
HasChallenge(o) == \E i \in DOMAIN actions : IsChallenge(i) /\ actions[i].otp = o
Spent(o) == o \in DOMAIN otps /\ otps[o].status = "verified"

\* Whoever has an OTP has one that was verified, ...
OtpsAreSpent ==
  /\ \A q \in Requests : Carries(request[q]) => Spent(request[q].otp)
  /\ \A s \in Sids : Direct(s) => Spent(session[s].otp)
  /\ \A i \in DOMAIN actions : IsChallenge(i) => Spent(actions[i].otp)

\* ... it is with one of them only, ...
OtpsAreApart ==
  /\ \A p, q \in Requests :
       Carries(request[p]) /\ Carries(request[q]) /\ request[p].otp = request[q].otp => p = q
  /\ \A s, t \in Sids : Direct(s) /\ Direct(t) /\ session[s].otp = session[t].otp => s = t
  /\ \A q \in Requests, s \in Sids :
       Carries(request[q]) /\ Direct(s) => request[q].otp # session[s].otp
  /\ \A q \in Requests : Carries(request[q]) => ~HasChallenge(request[q].otp)
  /\ \A s \in Sids : Direct(s) => ~HasChallenge(session[s].otp)

\* ... and what was opened by a challenge has the OTP of one.
ChallengeFlagOK(r) ==
  /\ r.challenge => r.step \in {"challengeSave", "openSession", "answer"}
  /\ r.step = "challengeSave" => r.challenge
ChallengesHaveOtps ==
  /\ \A q \in Requests : ChallengeFlagOK(request[q])
  /\ \A q \in Requests : Challenged(request[q]) => HasChallenge(request[q].otp)
  /\ \A s \in Sids : session[s].challenge => HasChallenge(session[s].otp)

OtpInv == OtpsAreSpent /\ OtpsAreApart /\ ChallengesHaveOtps

\* An account that had a second factor when the OTP of a login was verified gets
\* its session only from a challenge, also when the setup races the login.
SecondFactorAsked ==
  \A s \in Sids : session[s].secured => session[s].challenge

\* The secret of an account is one that it has confirmed with a code, and a setup
\* that was confirmed has led to a secret.
SecretIsConfirmed ==
  /\ \A a \in Accounts : twoFactor[a] \in DOMAIN actions =>
       LET setup == actions[twoFactor[a]]
       IN  setup.type = "TWO_FACTOR_SETUP" /\ setup.account = a /\ setup.used
  /\ \A i \in DOMAIN actions : actions[i].type = "TWO_FACTOR_SETUP" /\ actions[i].used =>
       twoFactor[actions[i].account] # NoSecret

\* The strengthening of SecondFactorAsked and SecretIsConfirmed that every step
\* preserves: a request that has seen the second factor is on its way to the
\* challenge or comes from it, and a setup is saved for the account that made it.
TwoFactorInv ==
  /\ \A q \in Requests :
       LET r == request[q]
       IN  /\ r.secured => \/ r.step = "loginTwoFactor" /\ twoFactor[r.account] # NoSecret
                           \/ r.step \in {"challengeSave", "openSession", "answer"} /\ r.challenge
           /\ r.step \in {"setupCheck", "setupSave"} => actions[r.action].account = r.account
  /\ SecondFactorAsked /\ SecretIsConfirmed

\* A session that was revoked stays revoked and keeps its account, although a
\* refresh that has read it before writes it after.
RevokedStaysRevoked ==
  [][\A s \in Sids : session[s].revoked =>
       session'[s].revoked /\ session'[s].account = session[s].account]_vars

\* A client that refreshes one at a time is not locked out: as long as two refreshes
\* of a session have never overlapped and no answer to its client was lost, the
\* token the client keeps is the one whose hash the session holds, or the answer
\* that brings that one is on its way.  Failures before the flush, restarts, the
\* refreshes of other sessions and logouts do no harm.  Two refreshes that overlap
\* do: both pass the check, and the client of the one that is saved first, or a
\* client that gets the two answers in the other order, is left with a dead token.
Undisturbed(s) == session[s].account # None /\ s \notin lost \union contested

KeptTokenIsStored ==
  \A s \in Sids : Undisturbed(s) =>
    \/ kept[s] = session[s].iat
    \/ \E q \in Requests : InAnswer(q, s) /\ request[q].token = session[s].iat

\* The strengthening of it that every step preserves: one request at most rotates the
\* token of such a session, its answer has the token that was stored, and while
\* no answer is on its way the client has that token.
KeptAt(s) ==
  /\ \A p, q \in Requests : Rotates(p, s) /\ Rotates(q, s) => p = q
  /\ \A q \in Requests : InAnswer(q, s) => request[q].token = session[s].iat
  /\ (\A q \in Requests : ~InAnswer(q, s)) => kept[s] = session[s].iat

KeptInv == \A s \in Sids : Undisturbed(s) => KeptAt(s)

\* Two accounts never have the same phone, and an account that changed its phone
\* or came into being has proved that the phone is its own: an action for it was
\* used with an OTP sent to that phone for that purpose.
PhoneIsProven ==
  /\ \A a, b \in Accounts : phone[a] = phone[b] /\ phone[a] # None => a = b
  /\ \A a \in Accounts : phone[a] # start.phone[a] =>
       \E i \in DOMAIN actions :
         LET act == actions[i]
         IN  /\ act.used /\ act.account = a /\ act.phone = phone[a]
             /\ act.otp \in DOMAIN otps
             /\ otps[act.otp].status = "verified"
             /\ otps[act.otp].phone = act.phone
             /\ otps[act.otp].purpose = act.type

UsedChange(i) ==
  i \in DOMAIN actions /\ actions[i].used /\ actions[i].type \in {"REGISTRATION", "PHONE_CHANGE"}

\* No OTP changes two things: every registration and phone change that was used
\* has an OTP of its own.
OneChangePerOtp ==
  \A i, j \in DOMAIN actions :
    UsedChange(i) /\ UsedChange(j) /\ actions[i].otp = actions[j].otp => i = j

\* The strengthening of the two that every step preserves.  The OTP of a change is
\* with the request that has verified it, then with the action it uses.
Bears(r) == r.step \in {"registrationCheck", "saveAccount", "changeCheck", "changeSave"}
Proves(o, p, purpose) == Spent(o) /\ otps[o].phone = p /\ otps[o].purpose = purpose

\* A request works on an action for its own phone, and for its own account, ...
ActionsMatch ==
  \A q \in Requests :
    LET r == request[q]
    IN  /\ ActionFor(r.step) \in {"REGISTRATION", "PHONE_CHANGE"} => actions[r.action].phone = r.phone
        /\ ActionFor(r.step) = "PHONE_CHANGE" => actions[r.action].account = r.account

\* ... whoever has the OTP of a change has one that was sent to that phone for that
\* purpose and verified, ...
ChangesHaveProof ==
  /\ \A q \in Requests : Bears(request[q]) =>
       Proves(request[q].otp, request[q].phone, ActionFor(request[q].step))
  /\ \A i \in DOMAIN actions : UsedChange(i) =>
       Proves(actions[i].otp, actions[i].phone, actions[i].type)

\* ... which nobody else has, ...
ProofsAreApart ==
  /\ \A p, q \in Requests :
       Bears(request[p]) /\ Bears(request[q]) /\ request[p].otp = request[q].otp => p = q
  /\ \A q \in Requests, i \in DOMAIN actions :
       Bears(request[q]) /\ UsedChange(i) => request[q].otp # actions[i].otp

\* ... and an account has the phone of such a change, or the one it began with.
PhonesAreOwn ==
  /\ \A a, b \in Accounts : phone[a] = phone[b] /\ phone[a] # None => a = b
  /\ \A a \in Accounts : phone[a] # start.phone[a] =>
       \E i \in DOMAIN actions :
         UsedChange(i) /\ actions[i].account = a /\ actions[i].phone = phone[a]

PhoneInv == ActionsMatch /\ ChangesHaveProof /\ ProofsAreApart /\ PhonesAreOwn /\ OneChangePerOtp
=============================================================================
