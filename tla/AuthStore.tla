------------------------------ MODULE AuthStore ------------------------------
(***************************************************************************)
(* The state that authentication works on: the accounts of one side (the   *)
(* table users or the table drivers), their sessions, security actions and *)
(* two-factor rows, the OTPs that OtpService keeps in the memory of the    *)
(* process, the tokens clients hold, the requests in flight and the clock. *)
(*                                                                         *)
(* The services of the two sides have the same code on tables of their     *)
(* own, except for the phone change; start says which one this is.         *)
(*                                                                         *)
(* A handler reads committed rows in one step and writes in a later one; a *)
(* flush is one transaction that updates by primary key the columns that   *)
(* differ from what was loaded.                                            *)
(***************************************************************************)
EXTENDS Integers, Sequences, FiniteSets

CONSTANTS
  Accounts, Sids,      \* ids that randomUUID may give to accounts and sessions
  Phones,
  Requests,            \* slots for HTTP requests being served
  None,                \* no account, no phone, no session
  Starts,              \* how it may begin: the side, the phones of the accounts
                       \* there are already, which of them have two-factor
                       \* authentication, and the session each has open, if any
  OtpTTL, ActionTTL,   \* 5 minutes
  SetupTTL,            \* 10 minutes
  AccessTTL,           \* 15 minutes
  SessionTTL,          \* 30 days
  MaxTime,             \* bound: the clock stops here
  MaxOtps,             \* bound: OTPs ever sent
  MaxActions,          \* bound: security actions ever stored
  MaxRefreshes,        \* bound: calls of refresh
  MaxFailures,         \* bound: failures of PostgreSQL, the provider or the network
  MaxRestarts          \* bound: restarts of the process

Null == -1
NoSecret == 0          \* no row in the two-factor table
Before == -1           \* a row from before the clock starts

ASSUME AccountsAssumption ==
  /\ None \notin Accounts \union Phones \union Sids
  /\ \A st \in Starts :
       /\ st \in [side : {"users", "drivers"}, phone : [Accounts -> Phones \union {None}],
                  secured : SUBSET Accounts, session : [Accounts -> Sids \union {None}]]
       /\ \A a \in st.secured : st.phone[a] # None
       /\ \A a \in Accounts : st.session[a] # None => st.phone[a] # None
       /\ \A a, b \in Accounts :
            /\ st.phone[a] = st.phone[b] /\ st.phone[a] # None => a = b
            /\ st.session[a] = st.session[b] /\ st.session[a] # None => a = b
ASSUME LimitAssumption ==
  /\ {OtpTTL, ActionTTL, SetupTTL, AccessTTL, SessionTTL} \subseteq Nat \ {0}
  /\ {MaxTime, MaxOtps, MaxActions, MaxRefreshes, MaxFailures, MaxRestarts} \subseteq Nat

VARIABLES
  start,         \* how it began: one of Starts, for good
  now,
  phone,         \* users.phone or drivers.phone; None: no such row
  twoFactor,     \* the setup action whose secret the two-factor row holds
  actions,       \* rows of the security action table, in the order of insertion
  session,       \* rows of the session table
  otps,          \* OtpService.otps, oldest first
  request,       \* the requests in flight
  refreshTokens, \* refresh tokens that clients were answered with
  accessTokens,  \* access tokens that clients were answered with
  kept,          \* the refresh token the client of a session keeps: the last one
                 \* it was answered with
  lost,          \* history: the sessions of which an answer never reached the client
  contested,     \* history: the sessions of which two refreshes were in flight at once
  count          \* how much of the last three bounds is used

tables == <<phone, twoFactor, actions, session>>
held   == <<refreshTokens, accessTokens, kept, lost, contested>>
vars   == <<start, now, phone, twoFactor, actions, session, otps, request,
            refreshTokens, accessTokens, kept, lost, contested, count>>

Time == 0 .. MaxTime
Purposes == {"REGISTRATION", "LOGIN", "PHONE_CHANGE"}
ActionTypes == {"REGISTRATION", "TWO_FACTOR_LOGIN", "TWO_FACTOR_SETUP", "PHONE_CHANGE"}

\* "stored" is an OTP the provider has not delivered, "lost" one that a restart
\* has wiped out.  The index of an OTP stands for its code.
OtpStatuses == {"stored", "delivered", "verified", "lost"}
Otp == [phone : Phones, purpose : Purposes, created : Time, status : OtpStatuses]

\* "otp" is not a column: it is the OTP that was verified for the action.
Action == [type : ActionTypes, account : Accounts \union {None},
           phone : Phones \union {None}, created : Time, used : BOOLEAN, otp : Nat]

\* "iat" stands for the refresh token whose hash the row holds: tokens of one
\* session signed in the same second are equal.  "otp", "challenge" and
\* "secured" are no columns: they tell how the session was opened.
Session == [account : Accounts \union {None}, iat : Time \union {Null},
            opened : Time \union {Null}, revoked : BOOLEAN,
            otp : Nat, challenge : BOOLEAN, secured : BOOLEAN]
NoSession == [account |-> None, iat |-> Null, opened |-> Null, revoked |-> FALSE,
              otp |-> 0, challenge |-> FALSE, secured |-> FALSE]

RefreshToken == [sid : Sids, iat : Time]
AccessToken  == [sid : Sids, phone : Phones, signed : Time]

\* What a request has read so far.  "from" is the phone of the loaded entity.
IdleRequest == [step |-> "idle", account |-> None, phone |-> None, from |-> None,
                created |-> Null, action |-> 0, otp |-> 0, sid |-> None, token |-> Null,
                found |-> FALSE, challenge |-> FALSE, secured |-> FALSE]
RequestSteps == {"idle", "sendRegistration", "sendLogin", "sendChange",
                 "saveRegistration", "registrationOtp", "registrationCheck", "saveAccount",
                 "loginOtp", "loginTwoFactor", "openSession", "answer",
                 "refreshSign", "refreshSave", "logoutSave", "setupCheck", "setupSave",
                 "challengeSave",
                 "saveChange", "changeOtp", "changeCheck", "changeSave"}
Request == [step : RequestSteps, account : Accounts \union {None},
            phone : Phones \union {None}, from : Phones \union {None},
            created : Time \union {Null}, action : Nat, otp : Nat,
            sid : Sids \union {None}, token : Time \union {Null},
            found : BOOLEAN, challenge : BOOLEAN, secured : BOOLEAN]

Init ==
  /\ start \in Starts
  /\ now = 0
  /\ phone = start.phone
  /\ twoFactor = [a \in Accounts |-> IF a \in start.secured THEN Before ELSE NoSecret]
  /\ actions = <<>>
  /\ session = [s \in Sids |->
       IF \E a \in Accounts : start.session[a] = s
         THEN [NoSession EXCEPT !.account = CHOOSE a \in Accounts : start.session[a] = s,
                                !.iat = 0, !.opened = 0]
         ELSE NoSession]
  /\ otps = <<>>
  /\ request = [q \in Requests |-> IdleRequest]
  /\ refreshTokens = {[sid |-> s, iat |-> 0] : s \in {t \in Sids : session[t] # NoSession}}
  /\ accessTokens = {[sid |-> s, phone |-> phone[session[s].account], signed |-> 0] :
                       s \in {t \in Sids : session[t] # NoSession}}
  /\ kept = [s \in Sids |-> session[s].iat]
  /\ lost = {}
  /\ contested = {}
  /\ count = [refreshes |-> 0, failures |-> 0, restarts |-> 0]

-----------------------------------------------------------------------------
Holds(a, p) == phone[a] = p
Taken(p) == \E a \in Accounts : Holds(a, p)

LifeTime(type) == IF type = "TWO_FACTOR_SETUP" THEN SetupTTL ELSE ActionTTL

\* An action that is neither used nor expired.
Pending(i) ==
  /\ ~actions[i].used
  /\ now < actions[i].created + LifeTime(actions[i].type)

Newest(i, S) == i \in S /\ \A j \in S : actions[j].created <= actions[i].created

\* What JwtStrategy and DriverJwtStrategy ask of an access token: its session is
\* neither revoked nor expired, and it names the phone the account has now.
Authenticated(a, s) ==
  /\ session[s].account = a /\ ~session[s].revoked
  /\ now < session[s].opened + SessionTTL
  /\ \E t \in accessTokens : t.sid = s /\ t.phone = phone[a] /\ now < t.signed + AccessTTL

Tick ==
  /\ now < MaxTime
  /\ now' = now + 1
  /\ UNCHANGED <<start, tables, otps, request, held, count>>
=============================================================================
