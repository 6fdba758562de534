----------------------------- MODULE OneTimeCode -----------------------------
(***************************************************************************)
(* What the sign-in codes promise (internal/handlers/qr_login.go, the      *)
(* comment of the file): a user holds one code at most, and it opens one   *)
(* session at most, of that user, while it lives.                          *)
(***************************************************************************)
EXTENDS Integers, Sequences

CONSTANTS User, Code, NoUser, NoCode, Lifetime

VARIABLES
    owner,      \* whom a code was issued to
    ticket,     \* the code a user holds
    life,       \* how long a code still lives
    sessions    \* <<user, code>> of the sessions opened

Init ==
    /\ owner = [c \in Code |-> NoUser]
    /\ ticket = [u \in User |-> NoCode]
    /\ life = [c \in Code |-> 0]
    /\ sessions = <<>>

\* A code never issued before, in the place of the user's last one.
Issue(u, c) ==
    /\ owner[c] = NoUser
    /\ owner' = [owner EXCEPT ![c] = u]
    /\ ticket' = [ticket EXCEPT ![u] = c]
    /\ life' = [life EXCEPT ![c] = Lifetime]
    /\ UNCHANGED sessions

\* The first attempt takes the code, and opens a session or does not.
Redeem(u, c) ==
    /\ ticket[u] = c
    /\ ticket' = [ticket EXCEPT ![u] = NoCode]
    /\ \/ life[c] > 0 /\ sessions' = Append(sessions, <<u, c>>)
       \/ UNCHANGED sessions
    /\ UNCHANGED <<owner, life>>

\* Codes are forgotten: they lapsed, or the server restarted.
Forget(users) ==
    /\ ticket' = [u \in User |-> IF u \in users THEN NoCode ELSE ticket[u]]
    /\ UNCHANGED <<owner, life, sessions>>

Age ==
    /\ life' = [c \in Code |-> IF life[c] > 0 THEN life[c] - 1 ELSE 0]
    /\ UNCHANGED <<owner, ticket, sessions>>

Next ==
    \/ \E u \in User, c \in Code : Issue(u, c) \/ Redeem(u, c)
    \/ \E users \in SUBSET User : Forget(users)
    \/ Age

Spec == Init /\ [][Next]_<<owner, ticket, life, sessions>>

-----------------------------------------------------------------------------
\* Sessions are opened by different codes, each for the user it was issued to; and the
\* code a user holds has opened none: qr_login.go, "redeemed at most once".
OneSessionPerCode ==
    /\ \A n \in DOMAIN sessions : owner[sessions[n][2]] = sessions[n][1]
    /\ \A m, n \in DOMAIN sessions : sessions[m][2] = sessions[n][2] => m = n
    /\ \A u \in User, n \in DOMAIN sessions : ticket[u] # sessions[n][2]
=============================================================================
