------------------------------ MODULE AuthClaims ------------------------------
(***************************************************************************)
(* What the messages of the code say of authentication, and the code does  *)
(* not keep when requests overlap.                                         *)
(***************************************************************************)
EXTENDS Authentication

\* "Invalid or expired authentication request": a challenge that was used is
\* refused, so one login opens one session.
ChallengeOpensOneSession ==
  \A s, t \in Sids :
    session[s].otp # 0 /\ session[s].otp = session[t].otp => s = t
=============================================================================
