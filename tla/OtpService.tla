----------------------------- MODULE OtpService -----------------------------
(***************************************************************************)
(* OtpService: the list of OTPs in the memory of the process.  sendOtp     *)
(* puts an OTP in front of the list before it asks the provider to send    *)
(* it; verifyOtp takes the first that matches and has not been verified,   *)
(* and nothing is ever removed.                                            *)
(***************************************************************************)
EXTENDS AuthStore

\* sendOtp up to the call of the provider.
StoreOtp(p, purpose) ==
  /\ Len(otps) < MaxOtps
  /\ otps' = Append(otps, [phone |-> p, purpose |-> purpose, created |-> now,
                           status |-> "stored"])

Unverified(p, purpose) ==
  {i \in DOMAIN otps : /\ otps[i].phone = p /\ otps[i].purpose = purpose
                       /\ otps[i].status \in {"stored", "delivered"}}

\* The only OTP whose code verifyOtp accepts: the newest unverified one, if it
\* has not expired.  A client knows its code once it was delivered.
Usable(i, p, purpose) ==
  /\ i \in Unverified(p, purpose)
  /\ \A j \in Unverified(p, purpose) : j <= i
  /\ now < otps[i].created + OtpTTL
  /\ otps[i].status = "delivered"

\* Mutant: an OTP that was verified may be used again.
VerifyOtpAgain(i, p, purpose) ==
  /\ Usable(i, p, purpose)
  /\ otps' = otps

\* verifyOtp with the right code.
VerifyOtp(i, p, purpose) ==
  /\ Usable(i, p, purpose)
  /\ otps' = [otps EXCEPT ![i].status = "verified"]

\* The provider has sent the code.
DeliverOtp(i) ==
  otps' = [otps EXCEPT ![i].status = IF @ = "stored" THEN "delivered" ELSE @]

\* A restart of the process empties the list.
ForgetOtps ==
  otps' = [i \in DOMAIN otps |->
             IF otps[i].status = "verified" THEN otps[i]
                                            ELSE [otps[i] EXCEPT !.status = "lost"]]
=============================================================================
