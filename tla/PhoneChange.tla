----------------------------- MODULE PhoneChange -----------------------------
(***************************************************************************)
(* The change of an account's phone: ProfileService of users, on the rows  *)
(* ProfileHelperService finds, and DriversService of drivers.  The OTP     *)
(* goes to the new phone and is bound to neither the account nor the       *)
(* request.                                                                *)
(***************************************************************************)
EXTENDS AuthService

\* updateProfile with a new phone, requestPhoneChange: the phone is free, the
\* action is made, the OTP stored.
RequestPhoneChange(q, a, p) ==
  /\ \E s \in Sids : Authenticated(a, s)
  /\ ~Taken(p)
  /\ StoreOtp(p, "PHONE_CHANGE")
  /\ Begin(q, [IdleRequest EXCEPT !.step = "sendChange", !.account = a, !.phone = p,
                                  !.created = now, !.otp = Len(otps) + 1])
  /\ UNCHANGED <<start, now, tables, held, count>>

\* Its flush, when the provider has answered.
SaveChange(q) ==
  /\ request[q].step = "saveChange"
  /\ InsertAction(NewAction("PHONE_CHANGE", request[q].account, request[q].phone,
                            request[q].created, 0))
  /\ End(q)
  /\ UNCHANGED <<start, now, phone, twoFactor, session, otps, held, count>>

\* The unused changes of an account, expired or not.
Changes(a) ==
  {i \in DOMAIN actions :
     actions[i].type = "PHONE_CHANGE" /\ actions[i].account = a /\ ~actions[i].used}

\* findPhoneChangeAction: the newest pending one for the phone the client names.
UserChange(a, i) ==
  Newest(i, {j \in Changes(a) : Pending(j) /\ actions[j].phone = actions[i].phone})

\* DriversService.verifyPhoneChange: the newest of all, which must be pending.
DriverChange(a, i) == Newest(i, Changes(a)) /\ Pending(i)

VerifyPhoneChange(q, a, i) ==
  /\ \E s \in Sids : Authenticated(a, s)
  /\ IF start.side = "users" THEN UserChange(a, i) ELSE DriverChange(a, i)
  /\ Begin(q, [IdleRequest EXCEPT !.step = "changeOtp", !.account = a, !.action = i,
                                  !.phone = actions[i].phone, !.from = phone[a]])
  /\ UNCHANGED <<start, now, tables, otps, held, count>>

ChangeOtp(q, o) ==
  /\ request[q].step = "changeOtp"
  /\ VerifyOtp(o, request[q].phone, "PHONE_CHANGE")
  /\ request' = [request EXCEPT ![q].step = "changeCheck", ![q].otp = o]
  /\ UNCHANGED <<start, now, tables, held, count>>

\* No other account has the phone.  A driver is loaded only now.
ChangeCheck(q) ==
  LET a == request[q].account
  IN  /\ request[q].step = "changeCheck"
      /\ \A b \in Accounts \ {a} : ~Holds(b, request[q].phone)
      /\ request' = [request EXCEPT ![q].step = "changeSave",
                                    ![q].from = IF start.side = "users" THEN @ ELSE phone[a]]
      /\ UNCHANGED <<start, now, tables, otps, held, count>>

\* Mutant: the phones of the table are not unique.
ChangeSaveTwice(q) ==
  LET r == request[q]
  IN  /\ r.step = "changeSave"
      /\ phone' = [phone EXCEPT ![r.account] = IF r.from = r.phone THEN @ ELSE r.phone]
      /\ actions' = [actions EXCEPT ![r.action].used = TRUE, ![r.action].otp = r.otp]
      /\ End(q)
      /\ UNCHANGED <<start, now, twoFactor, session, otps, held, count>>

\* The flush: a phone that equals the loaded one is no dirty column, another one
\* must be unique.
ChangeSave(q) ==
  LET r == request[q]
  IN  /\ r.step = "changeSave"
      /\ \/ r.from = r.phone /\ UNCHANGED phone
         \/ /\ r.from # r.phone
            /\ \A b \in Accounts \ {r.account} : ~Holds(b, r.phone)
            /\ phone' = [phone EXCEPT ![r.account] = r.phone]
      /\ actions' = [actions EXCEPT ![r.action].used = TRUE, ![r.action].otp = r.otp]
      /\ End(q)
      /\ UNCHANGED <<start, now, twoFactor, session, otps, held, count>>
=============================================================================
