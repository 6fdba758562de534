-------------------------- MODULE OneTimeCode_proofs --------------------------
(***************************************************************************)
(* Proof that a one-time code opens one session at most, of its user.      *)
(***************************************************************************)
EXTENDS OneTimeCode, TLAPS

TypeInv ==
    /\ owner \in [Code -> User \cup {NoUser}]
    /\ ticket \in [User -> Code \cup {NoCode}]
    /\ sessions \in Seq(User \X Code)

\* Inductive with: a code held was issued to who holds it.
IInv ==
    /\ TypeInv
    /\ OneSessionPerCode
    /\ \A u \in User : ticket[u] # NoCode => owner[ticket[u]] = u

\* What appending one session does.
LEMMA Opened ==
    ASSUME NEW S, NEW s \in Seq(S), NEW e \in S, NEW t, t = Append(s, e)
    PROVE  /\ t \in Seq(S) /\ DOMAIN t = 1 .. Len(s) + 1
           /\ t[Len(s) + 1] = e /\ \A n \in 1 .. Len(s) : t[n] = s[n]
OBVIOUS

\* A step keeps the invariant.
LEMMA Step ==
    ASSUME NoUser \notin User, NoCode \notin Code, IInv, [Next]_<<owner, ticket, life, sessions>>
    PROVE  IInv'
<1> DEFINE Held == \A u \in User : ticket[u] # NoCode => owner[ticket[u]] = u
<1>1. ASSUME NEW u \in User, NEW c \in Code, Issue(u, c) PROVE IInv'
  <2>1. TypeInv'  BY <1>1 DEF IInv, TypeInv, Issue
  <2>2. \A n \in DOMAIN sessions : sessions[n][1] \in User /\ sessions[n][2] \in Code
    BY DEF IInv, TypeInv
  <2>3. \A n \in DOMAIN sessions : sessions[n][2] # c
    BY <1>1, <2>2 DEF IInv, OneSessionPerCode, Issue
  <2>4. OneSessionPerCode'
    BY <1>1, <2>2, <2>3 DEF IInv, TypeInv, OneSessionPerCode, Issue
  <2>5. Held'  BY <1>1 DEF IInv, TypeInv, Issue
  <2> QED  BY <2>1, <2>4, <2>5 DEF IInv
<1>2. ASSUME NEW u \in User, NEW c \in Code, Redeem(u, c) PROVE IInv'
  <2>1. /\ ticket[u] = c /\ ticket' = [ticket EXCEPT ![u] = NoCode] /\ owner' = owner
        /\ owner[c] = u /\ c # NoCode
    BY <1>2 DEF IInv, TypeInv, Redeem
  <2>2. Held' /\ ticket' \in [User -> Code \cup {NoCode}]
    BY <2>1 DEF IInv, TypeInv
  <2>3. CASE sessions' = sessions
    <3>1. OneSessionPerCode'
      <4>1. \A n \in DOMAIN sessions : sessions[n][2] \in Code  BY DEF IInv, TypeInv
      <4> QED  BY <2>1, <2>3, <4>1 DEF IInv, TypeInv, OneSessionPerCode
    <3> QED  BY <2>1, <2>2, <2>3, <3>1 DEF IInv, TypeInv
  <2>4. CASE sessions' = Append(sessions, <<u, c>>)
    <3> DEFINE e == <<u, c>>
               S == User \X Code
    <3>1. sessions \in Seq(S) /\ e \in S /\ e[1] = u /\ e[2] = c  BY DEF IInv, TypeInv
    <3>2. sessions' = Append(sessions, e)  BY <2>4
    <3> HIDE DEF e, S
    <3>3. /\ sessions' \in Seq(S) /\ DOMAIN sessions' = 1 .. Len(sessions) + 1
          /\ sessions'[Len(sessions) + 1] = e
          /\ \A n \in 1 .. Len(sessions) : sessions'[n] = sessions[n]
      BY <3>1, <3>2, Opened
    <3>4. DOMAIN sessions = 1 .. Len(sessions) /\ Len(sessions) \in Nat  BY <3>1
    <3>5. \A n \in 1 .. Len(sessions) : sessions[n][2] # c /\ owner[sessions[n][2]] = sessions[n][1]
      BY <2>1, <3>4 DEF IInv, OneSessionPerCode
    <3>6. \A n \in DOMAIN sessions' : owner'[sessions'[n][2]] = sessions'[n][1]
      BY <2>1, <3>1, <3>3, <3>4, <3>5
    <3>7. ASSUME NEW m \in DOMAIN sessions', NEW n \in DOMAIN sessions',
                 sessions'[m][2] = sessions'[n][2]
          PROVE  m = n
      <4>1. CASE m \in 1 .. Len(sessions) /\ n \in 1 .. Len(sessions)
        BY <3>3, <3>4, <3>7, <4>1 DEF IInv, OneSessionPerCode
      <4>2. CASE m = Len(sessions) + 1 \/ n = Len(sessions) + 1
        BY <3>1, <3>3, <3>4, <3>5, <3>7, <4>2
      <4> QED  BY <3>3, <3>4, <4>1, <4>2
    <3>8. \A v \in User, n \in 1 .. Len(sessions) : ticket'[v] # sessions[n][2]
      <4>1. \A n \in 1 .. Len(sessions) : sessions[n][2] \in Code  BY <3>1, <3>4 DEF S
      <4> QED  BY <2>1, <3>4, <4>1 DEF IInv, TypeInv, OneSessionPerCode
    <3>9. \A v \in User : ticket'[v] # c
      <4> SUFFICES ASSUME NEW v \in User, ticket'[v] = c PROVE FALSE  OBVIOUS
      <4>1. v # u /\ ticket[v] = c  BY <2>1 DEF IInv, TypeInv
      <4>2. owner[c] = v  BY <2>1, <4>1 DEF IInv
      <4> QED  BY <2>1, <4>1, <4>2
    <3>10. \A v \in User, n \in DOMAIN sessions' : ticket'[v] # sessions'[n][2]
      BY <3>1, <3>3, <3>4, <3>8, <3>9
    <3>11. OneSessionPerCode'  BY <3>6, <3>7, <3>10 DEF OneSessionPerCode
    <3>12. TypeInv'  BY <2>1, <2>2, <3>3 DEF IInv, TypeInv, S
    <3> QED  BY <2>2, <3>11, <3>12 DEF IInv
  <2> QED  BY <1>2, <2>3, <2>4 DEF Redeem
<1>3. ASSUME NEW users \in SUBSET User, Forget(users) PROVE IInv'
  <2>1. TypeInv' /\ Held'  BY <1>3 DEF IInv, TypeInv, Forget
  <2>2. \A n \in DOMAIN sessions : sessions[n][2] \in Code  BY DEF IInv, TypeInv
  <2>3. OneSessionPerCode'  BY <1>3, <2>2 DEF IInv, TypeInv, OneSessionPerCode, Forget
  <2> QED  BY <2>1, <2>3 DEF IInv
<1>4. CASE Age  BY <1>4 DEF IInv, TypeInv, OneSessionPerCode, Age
<1>5. CASE UNCHANGED <<owner, ticket, life, sessions>>
  BY <1>5 DEF IInv, TypeInv, OneSessionPerCode
<1> QED  BY <1>1, <1>2, <1>3, <1>4, <1>5 DEF Next

\* A code opens one session at most, of the user it was issued to, however often and by
\* whomever it is tried.
THEOREM OneSession ==
    ASSUME NoUser \notin User, NoCode \notin Code PROVE Spec => []OneSessionPerCode
<1>1. Init => IInv
  BY DEF Init, IInv, TypeInv, OneSessionPerCode
<1>2. IInv /\ [Next]_<<owner, ticket, life, sessions>> => IInv'  BY Step
<1>3. IInv => OneSessionPerCode  BY DEF IInv
<1> QED  BY <1>1, <1>2, <1>3, PTL DEF Spec
=============================================================================
