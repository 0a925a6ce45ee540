----------------------------- MODULE MCArchive ------------------------------
(* Three messages of one sender, one of them to the group, and two accounts  *)
(* that two people use.  A behaviour spends its work on one of the mixes.    *)
EXTENDS Archive, TLC

CONSTANTS m1, m2, alice

MCFrom == [m \in Message |-> alice]

Nothing == [post |-> 0, account |-> 0, login |-> 0, delete |-> 0, open |-> 0,
            back |-> 0, measure |-> 0, tick |-> 0]

\* A client reads while messages are written.
Written == [Nothing EXCEPT !.post = 2, !.login = 1, !.open = 1, !.tick = 2]
\* A client reads while a message is deleted.
Deleted == [Nothing EXCEPT !.post = 2, !.login = 1, !.open = 1, !.tick = 1, !.delete = 1]
\* A client reads while messages are written and the clock is set back.
Rewound == [Nothing EXCEPT !.post = 2, !.login = 1, !.open = 1, !.tick = 1, !.back = 1]
\* Ids, with the clock set back, and the rate limit.
Posted == [Nothing EXCEPT !.post = 3, !.tick = 2, !.back = 1]
Measured == [Nothing EXCEPT !.post = 3, !.tick = 2, !.measure = 1]
\* Passwords, while an account is deleted and registered anew.
Changed == [Nothing EXCEPT !.account = 4, !.login = 2, !.delete = 1]
\* An administrator reads the list of users while it changes.
Listed == [Nothing EXCEPT !.account = 2, !.login = 1, !.open = 1, !.tick = 1, !.delete = 1]

MCBudgets == {Written, Deleted, Rewound, Posted, Measured, Changed, Listed}

Symmetry == Permutations(Person) \cup Permutations({m1, m2})
=============================================================================
