--------------------------- MODULE MCAuthentication ---------------------------
(***************************************************************************)
(* Small instances of Authentication.                                      *)
(***************************************************************************)
EXTENDS AuthClaims, TLC

CONSTANTS a1, a2, p1, p2, p3, s1, s2, q1, q2

OneAccount  == {a1}
TwoAccounts == {a1, a2}
OnePhone    == {p1}
ThreePhones == {p1, p2, p3}
OneSid      == {s1}
TwoSids     == {s1, s2}
OneRequest  == {q1}
TwoRequests == {q1, q2}

Nobody == [side |-> "users", phone |-> [a \in Accounts |-> None], secured |-> {},
           session |-> [a \in Accounts |-> None]]

\* a1 is registered, a2 is not.
LoggedOut == [Nobody EXCEPT !.phone[a1] = p1]
LoggedIn  == [LoggedOut EXCEPT !.session[a1] = s1]
Secured   == [LoggedOut EXCEPT !.secured = {a1}]

StartLoggedOut == {LoggedOut}
StartLoggedIn  == {LoggedIn}
StartSecured   == {Secured}
StartBothSides == {Nobody, LoggedIn, [LoggedIn EXCEPT !.side = "drivers"]}

Symmetry      == Permutations(Requests)
SidSymmetry   == Symmetry \union Permutations(Sids)
PhoneSymmetry == Symmetry \union Permutations({p2, p3})
=============================================================================
