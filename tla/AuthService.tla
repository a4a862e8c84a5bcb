----------------------------- MODULE AuthService -----------------------------
(***************************************************************************)
(* AuthService of users and of drivers: registration, login, second        *)
(* factor, refresh and logout.  The steps of a request end where the code  *)
(* awaits and what it has read may change.  A request refused before it    *)
(* has written anything, by its first read, is no step.                    *)
(***************************************************************************)
EXTENDS OtpService

Begin(q, req) ==
  /\ request[q] = IdleRequest
  /\ request' = [request EXCEPT ![q] = req]

Continue(q, step) == request' = [request EXCEPT ![q].step = step]

End(q) == request' = [request EXCEPT ![q] = IdleRequest]

InsertAction(row) ==
  /\ Len(actions) < MaxActions
  /\ actions' = Append(actions, row)

NewAction(type, a, p, t, o) ==
  [type |-> type, account |-> a, phone |-> p, created |-> t, used |-> FALSE, otp |-> o]

-----------------------------------------------------------------------------
(***************************************************************************)
(* Registration.                                                           *)
(***************************************************************************)

\* register: the action is made now, the OTP is stored, and both wait for the
\* provider.
Register(q, p) ==
  /\ ~Taken(p)
  /\ StoreOtp(p, "REGISTRATION")
  /\ Begin(q, [IdleRequest EXCEPT !.step = "sendRegistration", !.phone = p,
                                  !.created = now, !.otp = Len(otps) + 1])
  /\ UNCHANGED <<start, now, tables, held, count>>

\* The provider answers, to register, login and the phone change alike.
Delivered(q) ==
  /\ request[q].step \in {"sendRegistration", "sendLogin", "sendChange"}
  /\ DeliverOtp(request[q].otp)
  /\ CASE request[q].step = "sendRegistration" -> Continue(q, "saveRegistration")
       [] request[q].step = "sendChange"       -> Continue(q, "saveChange")
       [] OTHER                                -> End(q)
  /\ UNCHANGED <<start, now, tables, held, count>>

\* The flush of register.
SaveRegistration(q) ==
  /\ request[q].step = "saveRegistration"
  /\ InsertAction(NewAction("REGISTRATION", None, request[q].phone, request[q].created, 0))
  /\ End(q)
  /\ UNCHANGED <<start, now, phone, twoFactor, session, otps, held, count>>

Registrations(p) ==
  {i \in DOMAIN actions :
     actions[i].type = "REGISTRATION" /\ actions[i].phone = p /\ Pending(i)}

\* verifyRegistration finds the newest pending registration of the phone.
VerifyRegistration(q, p, i) ==
  /\ Newest(i, Registrations(p))
  /\ Begin(q, [IdleRequest EXCEPT !.step = "registrationOtp", !.phone = p, !.action = i])
  /\ UNCHANGED <<start, now, tables, otps, held, count>>

RegistrationOtp(q, o) ==
  /\ request[q].step = "registrationOtp"
  /\ VerifyOtp(o, request[q].phone, "REGISTRATION")
  /\ request' = [request EXCEPT ![q].step = "registrationCheck", ![q].otp = o]
  /\ UNCHANGED <<start, now, tables, held, count>>

RegistrationCheck(q) ==
  /\ request[q].step = "registrationCheck"
  /\ ~Taken(request[q].phone)
  /\ Continue(q, "saveAccount")
  /\ UNCHANGED <<start, now, tables, otps, held, count>>

\* The flush inserts the account, with a phone that must be unique, and marks
\* the action used, whoever has used it meanwhile.
SaveAccount(q, a) ==
  LET i == request[q].action
  IN  /\ request[q].step = "saveAccount"
      /\ phone[a] = None /\ ~Taken(request[q].phone)
      /\ phone' = [phone EXCEPT ![a] = request[q].phone]
      /\ actions' = [actions EXCEPT ![i].used = TRUE, ![i].account = a,
                                    ![i].otp = request[q].otp]
      /\ request' = [request EXCEPT ![q].step = "openSession", ![q].account = a]
      /\ UNCHANGED <<start, now, twoFactor, session, otps, held, count>>

-----------------------------------------------------------------------------
(***************************************************************************)
(* Login and second factor.                                                *)
(***************************************************************************)

Login(q, p) ==
  /\ Taken(p)
  /\ StoreOtp(p, "LOGIN")
  /\ Begin(q, [IdleRequest EXCEPT !.step = "sendLogin", !.otp = Len(otps) + 1])
  /\ UNCHANGED <<start, now, tables, held, count>>

\* verifyLogin reads the account, ...
VerifyLogin(q, a) ==
  /\ phone[a] # None
  /\ Begin(q, [IdleRequest EXCEPT !.step = "loginOtp", !.account = a, !.phone = phone[a]])
  /\ UNCHANGED <<start, now, tables, otps, held, count>>

\* ... verifies the OTP of the phone it has read, ...
LoginOtp(q, o) ==
  /\ request[q].step = "loginOtp"
  /\ VerifyOtp(o, request[q].phone, "LOGIN")
  /\ request' = [request EXCEPT ![q].step = "loginTwoFactor", ![q].otp = o,
                                ![q].secured = twoFactor[request[q].account] # NoSecret]
  /\ UNCHANGED <<start, now, tables, held, count>>

\* Mutant: the second factor is forgotten.
LoginTwoFactorIgnored(q) ==
  /\ request[q].step = "loginTwoFactor"
  /\ Continue(q, "openSession")
  /\ UNCHANGED <<start, now, tables, otps, held, count>>

\* ... and reads the two-factor row: without one the session is opened at once,
\* with one the client gets the token of a challenge.
LoginTwoFactor(q) ==
  LET a == request[q].account
  IN  /\ request[q].step = "loginTwoFactor"
      /\ \/ /\ twoFactor[a] = NoSecret
            /\ Continue(q, "openSession")
            /\ UNCHANGED actions
         \/ /\ twoFactor[a] # NoSecret
            /\ InsertAction(NewAction("TWO_FACTOR_LOGIN", a, None, now, request[q].otp))
            /\ End(q)
      /\ UNCHANGED <<start, now, phone, twoFactor, session, otps, held, count>>

\* verifyTwoFactor with the right code: findValidAction and the two-factor row.
VerifyTwoFactor(q, i) ==
  LET a == actions[i].account
  IN  /\ actions[i].type = "TWO_FACTOR_LOGIN" /\ Pending(i)
      /\ twoFactor[a] # NoSecret
      /\ Begin(q, [IdleRequest EXCEPT !.step = "challengeSave", !.account = a,
                     !.phone = phone[a], !.action = i, !.otp = actions[i].otp,
                     !.challenge = TRUE, !.secured = TRUE])
      /\ UNCHANGED <<start, now, tables, otps, held, count>>

ChallengeSave(q) ==
  /\ request[q].step = "challengeSave"
  /\ actions' = [actions EXCEPT ![request[q].action].used = TRUE]
  /\ Continue(q, "openSession")
  /\ UNCHANGED <<start, now, phone, twoFactor, session, otps, held, count>>

\* enableTwoFactor: a new setup for an account that has no second factor yet.
EnableTwoFactor(q, a) ==
  /\ request[q] = IdleRequest
  /\ \E s \in Sids : Authenticated(a, s)
  /\ twoFactor[a] = NoSecret
  /\ InsertAction(NewAction("TWO_FACTOR_SETUP", a, None, now, 0))
  /\ UNCHANGED <<start, now, phone, twoFactor, session, otps, request, held, count>>

\* verifyTwoFactorSetup with the right code of a pending setup, new or not: it reads
\* the action, ...
VerifyTwoFactorSetup(q, i) ==
  LET a == actions[i].account
  IN  /\ actions[i].type = "TWO_FACTOR_SETUP" /\ Pending(i)
      /\ \E s \in Sids : Authenticated(a, s)
      /\ Begin(q, [IdleRequest EXCEPT !.step = "setupCheck", !.account = a, !.action = i])
      /\ UNCHANGED <<start, now, tables, otps, held, count>>

\* ... and, when the code is verified, the two-factor row.
SetupCheck(q) ==
  /\ request[q].step = "setupCheck"
  /\ request' = [request EXCEPT ![q].step = "setupSave",
                                ![q].found = twoFactor[request[q].account] # NoSecret]
  /\ UNCHANGED <<start, now, tables, otps, held, count>>

\* Mutant: the row is written and the setup is not marked used.
SetupSaveUnused(q) ==
  LET a == request[q].account
  IN  /\ request[q].step = "setupSave"
      /\ request[q].found \/ twoFactor[a] = NoSecret
      /\ twoFactor' = [twoFactor EXCEPT ![a] = request[q].action]
      /\ End(q)
      /\ UNCHANGED <<start, now, phone, actions, session, otps, held, count>>

\* The flush updates the row it has found or inserts the only one there can be.
SetupSave(q) ==
  LET a == request[q].account
  IN  /\ request[q].step = "setupSave"
      /\ request[q].found \/ twoFactor[a] = NoSecret
      /\ twoFactor' = [twoFactor EXCEPT ![a] = request[q].action]
      /\ actions' = [actions EXCEPT ![request[q].action].used = TRUE]
      /\ End(q)
      /\ UNCHANGED <<start, now, phone, session, otps, held, count>>

-----------------------------------------------------------------------------
(***************************************************************************)
(* Sessions.                                                               *)
(***************************************************************************)

\* createSession: the last part of three of the requests above.
OpenSession(q, s) ==
  /\ request[q].step = "openSession"
  /\ session[s] = NoSession
  /\ session' = [session EXCEPT ![s] =
       [account |-> request[q].account, iat |-> now, opened |-> now, revoked |-> FALSE,
        otp |-> request[q].otp, challenge |-> request[q].challenge,
        secured |-> request[q].secured]]
  /\ request' = [request EXCEPT ![q].step = "answer", ![q].sid = s, ![q].token = now]
  /\ UNCHANGED <<start, now, phone, twoFactor, actions, otps, held, count>>

\* Mutant: the answer carries a refresh token signed again.
AnswerSignedAgain(q) ==
  LET r == request[q]
  IN  /\ r.step = "answer"
      /\ refreshTokens' = refreshTokens \union {[sid |-> r.sid, iat |-> now]}
      /\ accessTokens' = accessTokens \union {[sid |-> r.sid, phone |-> r.phone, signed |-> now]}
      /\ kept' = [kept EXCEPT ![r.sid] = now]
      /\ End(q)
      /\ UNCHANGED <<start, now, tables, otps, lost, contested, count>>

\* The tokens reach the client, which keeps them in place of those it had; the
\* access token is signed with the phone that was loaded.
Answer(q) ==
  LET r == request[q]
  IN  /\ r.step = "answer"
      /\ refreshTokens' = refreshTokens \union {[sid |-> r.sid, iat |-> r.token]}
      /\ accessTokens' = accessTokens \union {[sid |-> r.sid, phone |-> r.phone, signed |-> now]}
      /\ kept' = [kept EXCEPT ![r.sid] = r.token]
      /\ End(q)
      /\ UNCHANGED <<start, now, tables, otps, lost, contested, count>>

\* A request that has opened or refreshed a session, and is not yet answered; and one
\* that may still be refreshing it.
InAnswer(q, s) == request[q].step = "answer" /\ request[q].sid = s
Rotates(q, s) ==
  \/ InAnswer(q, s)
  \/ request[q].step \in {"refreshSign", "refreshSave"} /\ request[q].sid = s

Contest(s) ==
  contested' = contested \union (IF \E p \in Requests : Rotates(p, s) THEN {s} ELSE {})

\* Mutant: the row is saved before the new token is there.
RefreshUnsigned(q, t) ==
  LET row == session[t.sid]
  IN  /\ t \in refreshTokens
      /\ count.refreshes < MaxRefreshes
      /\ count' = [count EXCEPT !.refreshes = @ + 1]
      /\ ~row.revoked /\ now < row.opened + SessionTTL
      /\ row.iat = t.iat
      /\ Begin(q, [IdleRequest EXCEPT !.step = "refreshSave", !.sid = t.sid])
      /\ Contest(t.sid)
      /\ UNCHANGED <<start, now, tables, otps, refreshTokens, accessTokens, kept, lost>>

\* refresh, up to the check of the hash: the token is the one the row holds.  It
\* may be any that a client was ever answered with, kept or not.
Refresh(q, t) ==
  LET row == session[t.sid]
  IN  /\ t \in refreshTokens
      /\ count.refreshes < MaxRefreshes
      /\ count' = [count EXCEPT !.refreshes = @ + 1]
      /\ now < t.iat + SessionTTL
      /\ ~row.revoked /\ now < row.opened + SessionTTL
      /\ row.iat = t.iat
      /\ Begin(q, [IdleRequest EXCEPT !.step = "refreshSign", !.sid = t.sid,
                     !.created = t.iat, !.account = row.account, !.phone = phone[row.account]])
      /\ Contest(t.sid)
      /\ UNCHANGED <<start, now, tables, otps, refreshTokens, accessTokens, kept, lost>>

\* The new token is signed; its hash takes a while.
RefreshSign(q) ==
  /\ request[q].step = "refreshSign"
  /\ request' = [request EXCEPT ![q].step = "refreshSave", ![q].token = now]
  /\ UNCHANGED <<start, now, tables, otps, held, count>>

\* Mutant: the flush writes the whole row as it was loaded.
RefreshSaveRow(q) ==
  /\ request[q].step = "refreshSave"
  /\ session' = [session EXCEPT ![request[q].sid].iat = request[q].token,
                                ![request[q].sid].revoked = FALSE]
  /\ Continue(q, "answer")
  /\ UNCHANGED <<start, now, phone, twoFactor, actions, otps, held, count>>

\* The flush writes the hash, and nothing else, whatever the row has become.
RefreshSave(q) ==
  /\ request[q].step = "refreshSave"
  /\ session' = [session EXCEPT ![request[q].sid].iat = request[q].token]
  /\ Continue(q, "answer")
  /\ UNCHANGED <<start, now, phone, twoFactor, actions, otps, held, count>>

\* logout reads the session the access token names.
Logout(q, s) ==
  /\ session[s].account # None /\ Authenticated(session[s].account, s)
  /\ Begin(q, [IdleRequest EXCEPT !.step = "logoutSave", !.sid = s])
  /\ UNCHANGED <<start, now, tables, otps, held, count>>

LogoutSave(q) ==
  /\ request[q].step = "logoutSave"
  /\ session' = [session EXCEPT ![request[q].sid].revoked = TRUE]
  /\ End(q)
  /\ UNCHANGED <<start, now, phone, twoFactor, actions, otps, held, count>>
=============================================================================
