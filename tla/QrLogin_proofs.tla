---------------------------- MODULE QrLogin_proofs ----------------------------
(***************************************************************************)
(* Proofs about the QR sign-in (QrLogin), for any pages, users, phones,    *)
(* codes and lifetimes, and whatever is read in what a page draws.         *)
(***************************************************************************)
EXTENDS QrLogin, TLAPS

-----------------------------------------------------------------------------
(* Types *)

\* At first every variable has its type.
LEMMA TypeInit == Init => TypeOK
<1> SUFFICES ASSUME Init PROVE TypeOK  OBVIOUS
<1> USE QrLoginAssumption DEF Init
<1>1. /\ modalOpen \in [Page -> BOOLEAN] /\ regenerateEnabled \in [Page -> BOOLEAN]
      /\ errorShown \in [Page -> BOOLEAN] /\ expiredShown \in [Page -> BOOLEAN]
      /\ qrLoginGeneration \in [Page -> Nat]
  OBVIOUS
<1>2. /\ shown \in [Page -> Code \cup {NoCode}] /\ remaining \in [Page -> 0 .. qrLoginTTL]
      /\ codes \in [Code -> User \cup {NoUser}] /\ byUser \in [User -> Code \cup {NoCode}]
      /\ life \in [Code -> 0 .. qrLoginTTL]
      /\ issuedTo \in [Code -> (Page \X Nat) \cup {NoIssue}]
  OBVIOUS
<1>3. /\ requests \subseteq [page : Page, generation : Nat, code : Code \cup {NoCode}]
      /\ ended \subseteq Code /\ sessions \in Seq(User \X Code)
  OBVIOUS
<1> QED  BY <1>1, <1>2, <1>3 DEF TypeOK

\* A life only gets shorter.
LEMMA LessType == \A n \in 0 .. qrLoginTTL : Less(n) \in 0 .. qrLoginTTL
BY QrLoginAssumption DEF Less

\* Asking for a code keeps the types.
LEMMA TypeGenerate ==
    ASSUME TypeOK, NEW p \in Page, generateQrLoginCode(p), modalOpen' \in [Page -> BOOLEAN]
    PROVE  TypeOK'
<1>1. [page |-> p, generation |-> qrLoginGeneration'[p], code |-> NoCode]
        \in [page : Page, generation : Nat, code : Code \cup {NoCode}]
  BY DEF TypeOK, generateQrLoginCode
<1>2. requests' \subseteq [page : Page, generation : Nat, code : Code \cup {NoCode}]
  BY <1>1 DEF TypeOK, generateQrLoginCode
<1>3. /\ qrLoginGeneration' \in [Page -> Nat] /\ shown' \in [Page -> Code \cup {NoCode}]
      /\ remaining' \in [Page -> 0 .. qrLoginTTL] /\ expiredShown' \in [Page -> BOOLEAN]
      /\ errorShown' \in [Page -> BOOLEAN] /\ regenerateEnabled' \in [Page -> BOOLEAN]
  BY QrLoginAssumption DEF TypeOK, generateQrLoginCode, clearQrLoginCode
<1> QED  BY <1>2, <1>3 DEF TypeOK, generateQrLoginCode, server

\* The answer to a request keeps the type of the button.
LEMMA TypeSettled ==
    ASSUME TypeOK, NEW r \in requests, Settled(r) PROVE regenerateEnabled' \in [Page -> BOOLEAN]
<1> DEFINE enabled == regenerateEnabled[r.page] \/ Current(r)
<1>1. enabled \in BOOLEAN  OBVIOUS
<1>2. regenerateEnabled' = [regenerateEnabled EXCEPT ![r.page] = enabled]  BY DEF Settled
<1>3. regenerateEnabled \in [Page -> BOOLEAN]  BY DEF TypeOK
<1> HIDE DEF enabled
<1> QED  BY <1>1, <1>2, <1>3

\* A step keeps the types.
LEMMA TypeStep == TypeOK /\ [Next]_vars => TypeOK'
<1> SUFFICES ASSUME TypeOK, [Next]_vars PROVE TypeOK'  OBVIOUS
<1> USE QrLoginAssumption
<1>1. ASSUME NEW p \in Page, openQrLoginModal(p) PROVE TypeOK'
  <2>1. modalOpen' \in [Page -> BOOLEAN]  BY <1>1 DEF TypeOK, openQrLoginModal
  <2> QED  BY <1>1, <2>1, TypeGenerate DEF openQrLoginModal
<1>2. ASSUME NEW p \in Page, Regenerate(p) PROVE TypeOK'
  <2>1. modalOpen' \in [Page -> BOOLEAN]  BY <1>2 DEF TypeOK, Regenerate
  <2> QED  BY <1>2, <2>1, TypeGenerate DEF Regenerate
<1>3. ASSUME NEW p \in Page, closeQrLoginModal(p) PROVE TypeOK'
  BY <1>3 DEF TypeOK, closeQrLoginModal, clearQrLoginCode, server
<1>4. ASSUME NEW p \in Page, expireQrLoginCode(p) PROVE TypeOK'
  BY <1>4 DEF TypeOK, expireQrLoginCode, ShownExpired, server
<1>5. ASSUME NEW r \in requests, Answered(r) PROVE TypeOK'
  <2>1. r.code \in Code /\ r.page \in Page  BY <1>5 DEF TypeOK, Answered
  <2>2. shown' \in [Page -> Code \cup {NoCode}] /\ remaining' \in [Page -> 0 .. qrLoginTTL]
    <3>1. qrLoginTTL \in 0 .. qrLoginTTL  BY QrLoginAssumption
    <3>2. CASE Current(r)
      <4>1. /\ shown' = [shown EXCEPT ![r.page] = r.code]
            /\ remaining' = [remaining EXCEPT ![r.page] = qrLoginTTL]
        BY <1>5, <3>2 DEF Answered
      <4>2. shown' \in [Page -> Code \cup {NoCode}]  BY <2>1, <4>1 DEF TypeOK
      <4>3. remaining' \in [Page -> 0 .. qrLoginTTL]  BY <3>1, <4>1 DEF TypeOK
      <4> QED  BY <4>2, <4>3
    <3>3. CASE ~Current(r)  BY <1>5, <3>3 DEF TypeOK, Answered
    <3> QED  BY <3>2, <3>3
  <2>3. requests' \subseteq [page : Page, generation : Nat, code : Code \cup {NoCode}]
    BY <1>5 DEF TypeOK, Answered, Settled
  <2> QED  BY <1>5, <2>2, <2>3, TypeSettled DEF TypeOK, Answered, Settled, server
<1>6. ASSUME NEW r \in requests, Failed(r) PROVE TypeOK'
  <2>1. /\ errorShown' \in [Page -> BOOLEAN]
        /\ requests' \subseteq [page : Page, generation : Nat, code : Code \cup {NoCode}]
    BY <1>6 DEF TypeOK, Failed, Settled
  <2> QED  BY <1>6, <2>1, TypeSettled DEF TypeOK, Failed, Settled, server
<1>7. ASSUME NEW r \in requests, NEW c \in Code, handleQRLoginGenerate(r, c) PROVE TypeOK'
  <2>1. r.page \in Page /\ r.generation \in Nat /\ UserOf[r.page] \in User  BY DEF TypeOK
  <2>2. codes' \in [Code -> User \cup {NoUser}] /\ byUser' \in [User -> Code \cup {NoCode}]
    BY <1>7, <2>1 DEF TypeOK, handleQRLoginGenerate, put
  <2>3. life' \in [Code -> 0 .. qrLoginTTL]  BY <1>7 DEF TypeOK, handleQRLoginGenerate
  <2>4. issuedTo' \in [Code -> (Page \X Nat) \cup {NoIssue}]
    BY <1>7, <2>1 DEF TypeOK, handleQRLoginGenerate
  <2>5. requests' \subseteq [page : Page, generation : Nat, code : Code \cup {NoCode}]
    BY <1>7 DEF TypeOK, handleQRLoginGenerate
  <2> QED  BY <1>7, <2>2, <2>3, <2>4, <2>5 DEF TypeOK, handleQRLoginGenerate, page
<1>8. CASE RunQRLoginCleanup
  <2>1. codes' \in [Code -> User \cup {NoUser}] /\ byUser' \in [User -> Code \cup {NoCode}]
    BY <1>8 DEF TypeOK, RunQRLoginCleanup, removeLocked
  <2> QED  BY <1>8, <2>1 DEF TypeOK, RunQRLoginCleanup, page
<1>9. CASE Restart
  BY <1>9 DEF TypeOK, Restart, page
<1>10. ASSUME NEW f \in Phone, handleQRLoginRedeem(f) PROVE TypeOK'
  <2> DEFINE c == phone[f]
  <2>1. CASE UNCHANGED <<codes, byUser, sessions, ended>>
    BY <1>10, <2>1 DEF TypeOK, handleQRLoginRedeem, page
  <2>2. CASE /\ c \in Code /\ codes[c] # NoUser
             /\ removeLocked({c}) /\ ended' = ended \cup {c}
             /\ \/ ~Expired(c) /\ sessions' = Append(sessions, <<codes[c], c>>)
                \/ UNCHANGED sessions
    <3>1. codes' \in [Code -> User \cup {NoUser}] /\ byUser' \in [User -> Code \cup {NoCode}]
      BY <2>2 DEF TypeOK, removeLocked
    <3>2. <<codes[c], c>> \in User \X Code  BY <2>2 DEF TypeOK
    <3>3. sessions' \in Seq(User \X Code)
      <4> DEFINE Session == User \X Code
                 opened == <<codes[c], c>>
      <4>1. sessions \in Seq(Session) /\ opened \in Session  BY <3>2 DEF TypeOK
      <4>2. sessions' = Append(sessions, opened) \/ sessions' = sessions  BY <2>2
      <4> HIDE DEF Session, opened
      <4>3. sessions' \in Seq(Session)  BY <4>1, <4>2
      <4> QED  BY <4>3 DEF Session
    <3> QED  BY <1>10, <2>2, <3>1, <3>3 DEF TypeOK, handleQRLoginRedeem, page
  <2> QED  BY <1>10, <2>1, <2>2 DEF handleQRLoginRedeem
<1>11. ASSUME NEW f \in Phone, NEW p \in Page, Scan(f, p) PROVE TypeOK'
  BY <1>11 DEF TypeOK, Scan, page, server
<1>12. CASE Tick
  <2>1. life' \in [Code -> 0 .. qrLoginTTL]  BY <1>12, LessType DEF TypeOK, Tick
  <2>2. remaining' \in [Page -> 0 .. qrLoginTTL]  BY <1>12, LessType DEF TypeOK, Tick
  <2> QED  BY <1>12, <2>1, <2>2 DEF TypeOK, Tick, server
<1>13. CASE UNCHANGED vars
  BY <1>13 DEF TypeOK, vars, page, server
<1> QED
  BY <1>1, <1>2, <1>3, <1>4, <1>5, <1>6, <1>7, <1>8, <1>9, <1>10, <1>11, <1>12, <1>13 DEF Next

\* Every variable keeps its type; in particular, no life exceeds its bound.
THEOREM TypeCorrect == Spec => []TypeOK
BY TypeInit, TypeStep, PTL DEF Spec

-----------------------------------------------------------------------------
(* The store *)

OwnerOf(c) == UserOf[issuedTo[c][1]]

\* A code in the store is its user's; the codes issued answer different requests, of
\* generations that were asked for.
CodesIssued ==
    /\ \A c \in Code : codes[c] # NoUser => issuedTo[c] # NoIssue /\ codes[c] = OwnerOf(c)
    /\ \A c \in Code : issuedTo[c] # NoIssue => issuedTo[c][2] <= qrLoginGeneration[issuedTo[c][1]]
    /\ \A c, d \in Code : issuedTo[c] # NoIssue /\ issuedTo[c] = issuedTo[d] => c = d

\* Requests are of different generations of their page, none ahead of it, and the last
\* one's modal is open; each brings the code that was issued for it, if one was.
RequestsOrdered ==
    /\ \A r \in requests :
        /\ r.generation <= qrLoginGeneration[r.page]
        /\ Current(r) => modalOpen[r.page]
        /\ r.code # NoCode => issuedTo[r.code] = <<r.page, r.generation>>
        /\ r.code = NoCode => \A c \in Code : issuedTo[c] # <<r.page, r.generation>>
    /\ \A r, s \in requests : r.page = s.page /\ r.generation = s.generation => r = s

\* Only four steps touch the server.
LEMMA ServerSteps ==
    ASSUME [Next]_vars
    PROVE  \/ UNCHANGED server
           \/ \E r \in requests, c \in Code : handleQRLoginGenerate(r, c)
           \/ RunQRLoginCleanup
           \/ Restart
           \/ \E f \in Phone : handleQRLoginRedeem(f)
BY DEF Next, vars, openQrLoginModal, Regenerate, generateQrLoginCode, closeQrLoginModal,
       expireQrLoginCode, Answered, Failed, Settled, Scan, Tick

\* A code once issued stays issued to the same request.
LEMMA IssuedOnce ==
    ASSUME TypeOK, [Next]_vars
    PROVE  \A c \in Code : issuedTo[c] # NoIssue => issuedTo'[c] = issuedTo[c]
<1>1. CASE UNCHANGED server  BY <1>1 DEF server
<1>2. ASSUME NEW r \in requests, NEW c \in Code, handleQRLoginGenerate(r, c)
      PROVE  \A d \in Code : issuedTo[d] # NoIssue => issuedTo'[d] = issuedTo[d]
  BY <1>2 DEF TypeOK, handleQRLoginGenerate
<1>3. CASE RunQRLoginCleanup  BY <1>3 DEF RunQRLoginCleanup
<1>4. CASE Restart  BY <1>4 DEF Restart
<1>5. ASSUME NEW f \in Phone, handleQRLoginRedeem(f) PROVE issuedTo' = issuedTo
  BY <1>5 DEF handleQRLoginRedeem
<1> QED  BY <1>1, <1>2, <1>3, <1>4, <1>5, ServerSteps

\* Generations only grow.
LEMMA GenerationsGrow ==
    ASSUME TypeOK, [Next]_vars
    PROVE  \A p \in Page : qrLoginGeneration[p] <= qrLoginGeneration'[p]
<1>1. qrLoginGeneration \in [Page -> Nat]  BY DEF TypeOK
<1>2. \/ UNCHANGED qrLoginGeneration
      \/ \E p \in Page : openQrLoginModal(p) \/ Regenerate(p) \/ closeQrLoginModal(p)
  BY DEF Next, vars, page, expireQrLoginCode, Answered, Failed, Settled, Scan, Tick,
         handleQRLoginGenerate, RunQRLoginCleanup, Restart, handleQRLoginRedeem
<1>3. \/ UNCHANGED qrLoginGeneration
      \/ \E p \in Page : qrLoginGeneration' = [qrLoginGeneration EXCEPT ![p] = @ + 1]
  BY <1>2 DEF openQrLoginModal, Regenerate, generateQrLoginCode, closeQrLoginModal
<1> QED  BY <1>1, <1>3

\* Removing codes keeps the two maps alike, and puts no code in the store.
LEMMA RemovalIsConsistent ==
    ASSUME TypeOK, StoreConsistent, NEW removed \in SUBSET Code, removeLocked(removed)
    PROVE  /\ StoreConsistent'
           /\ \A c \in Code : codes'[c] # NoUser => codes'[c] = codes[c]
           /\ \A c \in Code \ removed : codes'[c] = codes[c]
<1> USE QrLoginAssumption
<1>1. \A c \in Code : codes'[c] = IF c \in removed THEN NoUser ELSE codes[c]  BY DEF removeLocked
<1>2. \A u \in User : byUser'[u] = IF \E c \in removed : codes[c] = u /\ byUser[u] = c
                                   THEN NoCode ELSE byUser[u]
  BY DEF removeLocked
<1>3. ASSUME NEW c \in Code, codes'[c] # NoUser PROVE byUser'[codes'[c]] = c
  <2>1. c \notin removed /\ codes'[c] = codes[c] /\ codes[c] \in User  BY <1>1, <1>3 DEF TypeOK
  <2>2. byUser[codes[c]] = c  BY <1>3, <2>1 DEF StoreConsistent
  <2> QED  BY <1>2, <2>1, <2>2
<1>4. ASSUME NEW u \in User, byUser'[u] # NoCode PROVE codes'[byUser'[u]] = u
  <2>1. byUser'[u] = byUser[u] /\ byUser[u] \in Code  BY <1>2, <1>4 DEF TypeOK
  <2>2. codes[byUser[u]] = u  BY <1>4, <2>1 DEF StoreConsistent
  <2>3. byUser[u] \notin removed  BY <1>2, <1>4, <2>2
  <2> QED  BY <1>1, <2>1, <2>2, <2>3
<1> QED  BY <1>1, <1>3, <1>4 DEF StoreConsistent

\* What a redemption does to the store: nothing, or it takes the code scanned.
LEMMA RedeemTakes ==
    ASSUME NEW f \in Phone, handleQRLoginRedeem(f)
    PROVE  \/ UNCHANGED <<codes, byUser, sessions, ended>>
           \/ /\ phone[f] \in Code /\ codes[phone[f]] # NoUser
              /\ removeLocked({phone[f]}) /\ ended' = ended \cup {phone[f]}
              /\ \/ ~Expired(phone[f]) /\ sessions' = Append(sessions, <<codes[phone[f]], phone[f]>>)
                 \/ UNCHANGED sessions
BY DEF handleQRLoginRedeem

\* A step keeps the two maps alike.
LEMMA StoreStep ==
    ASSUME TypeOK, CodesIssued, StoreConsistent, [Next]_vars
    PROVE  StoreConsistent'
<1> USE QrLoginAssumption
<1>1. CASE UNCHANGED server  BY <1>1 DEF server, StoreConsistent
<1>2. ASSUME NEW r \in requests, NEW c \in Code, handleQRLoginGenerate(r, c) PROVE StoreConsistent'
  <2> DEFINE u == UserOf[r.page]
  <2>1. u \in User  BY DEF TypeOK
  <2>2. codes[c] = NoUser  BY <1>2 DEF handleQRLoginGenerate, CodesIssued
  <2>3. /\ \A d \in Code : codes'[d] = IF d = c THEN u ELSE IF d = byUser[u] THEN NoUser ELSE codes[d]
        /\ \A v \in User : byUser'[v] = IF v = u THEN c ELSE byUser[v]
    BY <1>2, <2>1 DEF handleQRLoginGenerate, put, TypeOK
  <2> HIDE DEF u
  <2>4. ASSUME NEW d \in Code, codes'[d] # NoUser PROVE byUser'[codes'[d]] = d
    <3>1. CASE d = c  BY <2>1, <2>3, <3>1
    <3>2. CASE d # c
      <4>1. d # byUser[u] /\ codes'[d] = codes[d] /\ codes[d] \in User  BY <2>3, <2>4, <3>2 DEF TypeOK
      <4>2. byUser[codes[d]] = d  BY <2>4, <4>1 DEF StoreConsistent
      <4> QED  BY <2>3, <4>1, <4>2
    <3> QED  BY <3>1, <3>2
  <2>5. ASSUME NEW v \in User, byUser'[v] # NoCode PROVE codes'[byUser'[v]] = v
    <3>1. CASE v = u  BY <2>3, <3>1
    <3>2. CASE v # u
      <4>1. byUser'[v] = byUser[v] /\ byUser[v] \in Code  BY <2>3, <2>5, <3>2 DEF TypeOK
      <4>2. codes[byUser[v]] = v  BY <2>5, <4>1 DEF StoreConsistent
      <4>3. byUser[v] # c  BY <2>2, <4>2
      <4>4. byUser[v] # byUser[u]  BY <2>1, <3>2, <4>1, <4>2 DEF StoreConsistent
      <4> QED  BY <2>3, <4>1, <4>2, <4>3, <4>4
    <3> QED  BY <3>1, <3>2
  <2> QED  BY <2>4, <2>5 DEF StoreConsistent
<1>3. CASE RunQRLoginCleanup
  BY <1>3, RemovalIsConsistent DEF RunQRLoginCleanup
<1>4. CASE Restart  BY <1>4 DEF Restart, StoreConsistent
<1>5. ASSUME NEW f \in Phone, handleQRLoginRedeem(f) PROVE StoreConsistent'
  <2>1. CASE UNCHANGED <<codes, byUser, sessions, ended>>  BY <2>1 DEF StoreConsistent
  <2>2. CASE phone[f] \in Code /\ removeLocked({phone[f]})  BY <2>2, RemovalIsConsistent
  <2> QED  BY <1>5, <2>1, <2>2, RedeemTakes
<1> QED  BY <1>1, <1>2, <1>3, <1>4, <1>5, ServerSteps

\* A step keeps what is known of the codes issued.
LEMMA CodesStep ==
    ASSUME TypeOK, StoreConsistent, CodesIssued, RequestsOrdered, [Next]_vars
    PROVE  CodesIssued'
<1> USE QrLoginAssumption
<1>1. ASSUME \A c \in Code : codes'[c] # NoUser => codes'[c] = codes[c], issuedTo' = issuedTo
      PROVE  CodesIssued'
  <2>1. \A c \in Code : issuedTo[c] # NoIssue => issuedTo[c][1] \in Page /\ issuedTo[c][2] \in Nat
    BY DEF TypeOK
  <2>2. \A c \in Code : issuedTo[c] # NoIssue => issuedTo[c][2] <= qrLoginGeneration'[issuedTo[c][1]]
    <3> SUFFICES ASSUME NEW c \in Code, issuedTo[c] # NoIssue
                 PROVE  issuedTo[c][2] <= qrLoginGeneration'[issuedTo[c][1]]
      OBVIOUS
    <3> DEFINE q == issuedTo[c][1]
    <3>1. q \in Page /\ issuedTo[c][2] \in Nat /\ issuedTo[c][2] <= qrLoginGeneration[q]
      BY <2>1 DEF CodesIssued
    <3>2. qrLoginGeneration[q] \in Nat /\ qrLoginGeneration'[q] \in Nat
      BY <3>1, TypeStep DEF TypeOK
    <3>3. qrLoginGeneration[q] <= qrLoginGeneration'[q]  BY <3>1, GenerationsGrow
    <3> HIDE DEF q
    <3>4. issuedTo[c][2] <= qrLoginGeneration'[q]  BY <3>1, <3>2, <3>3
    <3> QED  BY <3>4 DEF q
  <2> QED  BY <1>1, <2>2 DEF CodesIssued, OwnerOf
<1>2. CASE UNCHANGED server  BY <1>1, <1>2 DEF server
<1>3. ASSUME NEW r \in requests, NEW c \in Code, handleQRLoginGenerate(r, c) PROVE CodesIssued'
  <2> DEFINE u == UserOf[r.page]
  <2>1. r.page \in Page /\ r.generation \in Nat /\ u \in User  BY DEF TypeOK
  <2>2. /\ issuedTo' = [issuedTo EXCEPT ![c] = <<r.page, r.generation>>]
        /\ qrLoginGeneration' = qrLoginGeneration /\ issuedTo[c] = NoIssue /\ r.code = NoCode
    BY <1>3 DEF handleQRLoginGenerate, page
  <2>3. /\ issuedTo'[c] = <<r.page, r.generation>> /\ issuedTo'[c] # NoIssue
        /\ issuedTo'[c][1] = r.page /\ issuedTo'[c][2] = r.generation
        /\ \A d \in Code \ {c} : issuedTo'[d] = issuedTo[d]
    BY <2>1, <2>2 DEF TypeOK
  <2>4. \A d \in Code : codes'[d] = IF d = c THEN u ELSE IF d = byUser[u] THEN NoUser ELSE codes[d]
    BY <1>3 DEF handleQRLoginGenerate, put
  <2>5. \A d \in Code : codes'[d] # NoUser => issuedTo'[d] # NoIssue /\ codes'[d] = UserOf[issuedTo'[d][1]]
    BY <2>3, <2>4 DEF CodesIssued, OwnerOf
  <2>6. \A d \in Code : issuedTo'[d] # NoIssue => issuedTo'[d][2] <= qrLoginGeneration'[issuedTo'[d][1]]
    BY <2>2, <2>3 DEF CodesIssued, RequestsOrdered
  <2>7. \A d \in Code : issuedTo[d] # <<r.page, r.generation>>  BY <2>2 DEF RequestsOrdered
  <2>8. ASSUME NEW d \in Code, NEW e \in Code, issuedTo'[d] # NoIssue, issuedTo'[d] = issuedTo'[e]
        PROVE  d = e
    BY <2>3, <2>7, <2>8 DEF CodesIssued
  <2> QED  BY <2>5, <2>6, <2>8 DEF CodesIssued, OwnerOf
<1>4. CASE RunQRLoginCleanup
  BY <1>1, <1>4, RemovalIsConsistent DEF RunQRLoginCleanup
<1>5. CASE Restart  BY <1>1, <1>5 DEF Restart
<1>6. ASSUME NEW f \in Phone, handleQRLoginRedeem(f) PROVE CodesIssued'
  <2>1. issuedTo' = issuedTo  BY <1>6 DEF handleQRLoginRedeem
  <2>2. CASE UNCHANGED <<codes, byUser, sessions, ended>>  BY <1>1, <2>1, <2>2
  <2>3. CASE phone[f] \in Code /\ removeLocked({phone[f]})
    BY <1>1, <2>1, <2>3, RemovalIsConsistent
  <2> QED  BY <1>6, <2>2, <2>3, RedeemTakes
<1> QED  BY <1>2, <1>3, <1>4, <1>5, <1>6, ServerSteps

-----------------------------------------------------------------------------
(* The page and its requests *)

\* A new request is of a generation of its own, and answered by no code yet.
LEMMA RequestsGenerate ==
    ASSUME TypeOK, CodesIssued, RequestsOrdered, NEW p \in Page, generateQrLoginCode(p), modalOpen'[p],
           \A q \in Page \ {p} : modalOpen'[q] = modalOpen[q]
    PROVE  RequestsOrdered' /\ \E r \in requests' : r.page = p /\ Current(r)'
<1> DEFINE new == [page |-> p, generation |-> qrLoginGeneration[p] + 1, code |-> NoCode]
<1> USE QrLoginAssumption
<1>1. /\ qrLoginGeneration' = [qrLoginGeneration EXCEPT ![p] = @ + 1]
      /\ requests' = requests \cup {[page |-> p, generation |-> qrLoginGeneration'[p], code |-> NoCode]}
      /\ issuedTo' = issuedTo
  BY DEF generateQrLoginCode, server
<1>2. /\ qrLoginGeneration \in [Page -> Nat]
      /\ \A r \in requests : r.page \in Page /\ r.generation \in Nat
      /\ issuedTo \in [Code -> (Page \X Nat) \cup {NoIssue}]
  BY DEF TypeOK
<1>3. qrLoginGeneration'[p] = qrLoginGeneration[p] + 1 /\ requests' = requests \cup {new}  BY <1>1, <1>2
<1>4. \A q \in Page \ {p} : qrLoginGeneration'[q] = qrLoginGeneration[q]  BY <1>1, <1>2
<1>5. new.page = p /\ new.generation = qrLoginGeneration[p] + 1 /\ new.code = NoCode  OBVIOUS
<1> HIDE DEF new
<1>6. \A r \in requests : r.page = p => r.generation # new.generation /\ r.generation <= new.generation
  BY <1>2, <1>5 DEF RequestsOrdered
<1>7. \A c \in Code : issuedTo[c] # <<p, new.generation>>
  <2> SUFFICES ASSUME NEW c \in Code, issuedTo[c] = <<p, new.generation>> PROVE FALSE  OBVIOUS
  <2>1. issuedTo[c] # NoIssue  BY <1>2, <1>5
  <2>2. issuedTo[c][1] = p /\ issuedTo[c][2] = new.generation  OBVIOUS
  <2>3. new.generation <= qrLoginGeneration[p]  BY <2>1, <2>2 DEF CodesIssued
  <2> QED  BY <1>2, <1>5, <2>3
<1>8. ASSUME NEW r \in requests'
      PROVE  /\ r.generation <= qrLoginGeneration'[r.page]
             /\ r.generation = qrLoginGeneration'[r.page] => modalOpen'[r.page]
             /\ r.code # NoCode => issuedTo'[r.code] = <<r.page, r.generation>>
             /\ r.code = NoCode => \A c \in Code : issuedTo'[c] # <<r.page, r.generation>>
  <2>1. CASE r = new  BY <1>1, <1>2, <1>3, <1>5, <1>7, <2>1
  <2>2. CASE r \in requests /\ r.page = p
    BY <1>1, <1>2, <1>3, <1>5, <1>6, <2>2 DEF RequestsOrdered
  <2>3. CASE r \in requests /\ r.page # p
    BY <1>1, <1>2, <1>4, <2>3 DEF RequestsOrdered, Current
  <2> QED  BY <1>3, <2>1, <2>2, <2>3
<1>9. ASSUME NEW r \in requests', NEW s \in requests', r.page = s.page, r.generation = s.generation
      PROVE  r = s
  BY <1>3, <1>5, <1>6, <1>9 DEF RequestsOrdered
<1>10. new \in requests' /\ new.page = p /\ new.generation = qrLoginGeneration'[new.page]
  BY <1>3, <1>5
<1> QED  BY <1>8, <1>9, <1>10 DEF RequestsOrdered, Current

\* A step keeps what is known of the requests.
LEMMA RequestsStep ==
    ASSUME TypeOK, CodesIssued, RequestsOrdered, [Next]_vars
    PROVE  RequestsOrdered'
<1> USE QrLoginAssumption
<1>1. ASSUME NEW p \in Page, openQrLoginModal(p) PROVE RequestsOrdered'
  <2>1. modalOpen'[p] /\ \A q \in Page \ {p} : modalOpen'[q] = modalOpen[q]
    BY <1>1 DEF TypeOK, openQrLoginModal
  <2> QED  BY <1>1, <2>1, RequestsGenerate DEF openQrLoginModal
<1>2. ASSUME NEW p \in Page, Regenerate(p) PROVE RequestsOrdered'
  BY <1>2, RequestsGenerate DEF Regenerate
<1>3. ASSUME NEW p \in Page, closeQrLoginModal(p) PROVE RequestsOrdered'
  <2>1. /\ qrLoginGeneration' = [qrLoginGeneration EXCEPT ![p] = @ + 1]
        /\ modalOpen' = [modalOpen EXCEPT ![p] = FALSE]
        /\ requests' = requests /\ issuedTo' = issuedTo
    BY <1>3 DEF closeQrLoginModal, server
  <2>2. qrLoginGeneration \in [Page -> Nat] /\ \A r \in requests : r.page \in Page /\ r.generation \in Nat
    BY DEF TypeOK
  <2>3. \A q \in Page \ {p} : modalOpen'[q] = modalOpen[q]  BY <2>1 DEF TypeOK
  <2>4. ASSUME NEW r \in requests
        PROVE  /\ r.generation <= qrLoginGeneration'[r.page]
               /\ r.generation = qrLoginGeneration'[r.page] => modalOpen'[r.page]
    <3>1. CASE r.page = p  BY <2>1, <2>2, <3>1 DEF RequestsOrdered
    <3>2. CASE r.page # p  BY <2>1, <2>2, <2>3, <3>2 DEF RequestsOrdered, Current
    <3> QED  BY <3>1, <3>2
  <2> QED  BY <2>1, <2>4 DEF RequestsOrdered, Current
<1>4. ASSUME requests' \subseteq requests, UNCHANGED <<qrLoginGeneration, modalOpen, issuedTo>>
      PROVE  RequestsOrdered'
  BY <1>4 DEF RequestsOrdered, Current
<1>5. ASSUME NEW r \in requests, NEW c \in Code, handleQRLoginGenerate(r, c) PROVE RequestsOrdered'
  <2> DEFINE new == [r EXCEPT !.code = c]
  <2>1. /\ requests' = (requests \ {r}) \cup {new} /\ r.code = NoCode /\ issuedTo[c] = NoIssue
        /\ issuedTo' = [issuedTo EXCEPT ![c] = <<r.page, r.generation>>]
        /\ UNCHANGED <<qrLoginGeneration, modalOpen>>
    BY <1>5 DEF handleQRLoginGenerate, page
  <2>2. /\ r \in [page : Page, generation : Nat, code : Code \cup {NoCode}]
        /\ \A s \in requests : s.page \in Page /\ s.generation \in Nat /\ s.code \in Code \cup {NoCode}
        /\ issuedTo \in [Code -> (Page \X Nat) \cup {NoIssue}]
    BY DEF TypeOK
  <2>3. new.page = r.page /\ new.generation = r.generation /\ new.code = c  BY <2>2
  <2> HIDE DEF new
  <2>4. /\ issuedTo'[c] = <<r.page, r.generation>>
        /\ \A d \in Code \ {c} : issuedTo'[d] = issuedTo[d]
    BY <2>1, <2>2
  <2>5. ASSUME NEW s \in requests'
        PROVE  /\ s.generation <= qrLoginGeneration'[s.page]
               /\ s.generation = qrLoginGeneration'[s.page] => modalOpen'[s.page]
               /\ s.code # NoCode => issuedTo'[s.code] = <<s.page, s.generation>>
               /\ s.code = NoCode => \A d \in Code : issuedTo'[d] # <<s.page, s.generation>>
    <3>1. CASE s = new  BY <2>1, <2>3, <2>4, <3>1 DEF RequestsOrdered, Current
    <3>2. CASE s \in requests /\ s # r
      <4>1. s.page # r.page \/ s.generation # r.generation  BY <3>2 DEF RequestsOrdered
      <4>2. s.code # NoCode => s.code # c  BY <2>1, <2>2, <3>2 DEF RequestsOrdered
      <4> QED  BY <2>1, <2>2, <2>4, <3>2, <4>1, <4>2 DEF RequestsOrdered, Current
    <3> QED  BY <2>1, <3>1, <3>2
  <2>6. ASSUME NEW s \in requests', NEW t \in requests', s.page = t.page, s.generation = t.generation
        PROVE  s = t
    BY <2>1, <2>3, <2>6 DEF RequestsOrdered
  <2> QED  BY <2>5, <2>6 DEF RequestsOrdered, Current
<1>6. \/ \E p \in Page : openQrLoginModal(p) \/ Regenerate(p) \/ closeQrLoginModal(p)
      \/ \E r \in requests, c \in Code : handleQRLoginGenerate(r, c)
      \/ requests' \subseteq requests /\ UNCHANGED <<qrLoginGeneration, modalOpen, issuedTo>>
  BY DEF Next, vars, page, server, expireQrLoginCode, Answered, Failed, Settled, Scan, Tick,
         RunQRLoginCleanup, Restart, handleQRLoginRedeem
<1> QED  BY <1>1, <1>2, <1>3, <1>4, <1>5, <1>6

Waiting(p) == \E r \in requests : r.page = p /\ r.generation = qrLoginGeneration[p]
ShownAsked(p) == shown[p] # NoCode => modalOpen[p] /\ issuedTo[shown[p]] = <<p, qrLoginGeneration[p]>>
Explained(p) ==
    modalOpen[p] /\ regenerateEnabled[p] => (shown[p] # NoCode) \/ errorShown[p] \/ expiredShown[p]
PageOK(p) == ShownAsked(p) /\ (~regenerateEnabled[p] <=> Waiting(p)) /\ Explained(p)
PagesOK == \A p \in Page : PageOK(p)

\* PageInStep, page by page.
LEMMA PageByPage == PageInStep <=> PagesOK
<1>1. ASSUME NEW p \in Page
      PROVE  Waiting(p) <=> \E r \in requests : r.page = p /\ Current(r)
  BY DEF Waiting, Current
<1> QED  BY <1>1 DEF PagesOK, PageInStep, PageOK, ShownAsked, Explained

\* A step that leaves a page's state and wait alone leaves it in step.
LEMMA PageFrame ==
    ASSUME TypeOK, [Next]_vars, NEW q \in Page, PageOK(q), Waiting(q)' <=> Waiting(q),
           shown'[q] = shown[q], modalOpen'[q] = modalOpen[q],
           regenerateEnabled'[q] = regenerateEnabled[q],
           errorShown'[q] = errorShown[q], expiredShown'[q] = expiredShown[q],
           qrLoginGeneration'[q] = qrLoginGeneration[q]
    PROVE  PageOK(q)'
<1> USE QrLoginAssumption
<1>1. ShownAsked(q)'
  <2> SUFFICES ASSUME shown[q] # NoCode
               PROVE  modalOpen[q] /\ issuedTo'[shown[q]] = <<q, qrLoginGeneration[q]>>
    BY DEF ShownAsked
  <2>1. shown[q] \in Code /\ qrLoginGeneration[q] \in Nat  BY DEF TypeOK
  <2>2. modalOpen[q] /\ issuedTo[shown[q]] = <<q, qrLoginGeneration[q]>>  BY DEF PageOK, ShownAsked
  <2>3. issuedTo[shown[q]] # NoIssue  BY <2>1, <2>2
  <2> QED  BY <2>1, <2>2, <2>3, IssuedOnce
<1>2. (~regenerateEnabled[q] <=> Waiting(q))'  BY DEF PageOK
<1>3. Explained(q)'  BY DEF PageOK, Explained
<1> QED  BY <1>1, <1>2, <1>3 DEF PageOK

\* Once a code is asked for, the page waits for it and shows none.
LEMMA PageGenerate ==
    ASSUME TypeOK, CodesIssued, RequestsOrdered, PageInStep, [Next]_vars,
           NEW p \in Page, generateQrLoginCode(p), modalOpen'[p],
           \A q \in Page \ {p} : modalOpen'[q] = modalOpen[q],
           NEW q \in Page
    PROVE  PageOK(q)'
<1>1. CASE q = p
  <2>1. shown'[p] = NoCode /\ regenerateEnabled'[p] = FALSE
    BY DEF generateQrLoginCode, clearQrLoginCode, TypeOK
  <2>2. Waiting(p)'  BY RequestsGenerate DEF Waiting, Current
  <2> QED  BY <1>1, <2>1, <2>2 DEF PageOK, ShownAsked, Explained
<1>2. CASE q # p
  <2>1. /\ shown'[q] = shown[q] /\ modalOpen'[q] = modalOpen[q]
        /\ regenerateEnabled'[q] = regenerateEnabled[q]
        /\ errorShown'[q] = errorShown[q] /\ expiredShown'[q] = expiredShown[q]
        /\ qrLoginGeneration'[q] = qrLoginGeneration[q]
    BY <1>2 DEF generateQrLoginCode, clearQrLoginCode, TypeOK
  <2>2. Waiting(q)' <=> Waiting(q)  BY <1>2, <2>1 DEF generateQrLoginCode, Waiting
  <2> QED  BY <2>1, <2>2, PageFrame, PageByPage DEF PagesOK
<1> QED  BY <1>1, <1>2

\* Once a request has ended, its page no longer waits for it; the others are as before.
LEMMA SettledWaits ==
    ASSUME TypeOK, RequestsOrdered, NEW r \in requests, Settled(r), NEW q \in Page
    PROVE  /\ Waiting(q)' <=> Waiting(q) /\ ~(q = r.page /\ Current(r))
           /\ regenerateEnabled'[q] <=> regenerateEnabled[q] \/ (q = r.page /\ Current(r))
<1>1. requests' = requests \ {r} /\ qrLoginGeneration' = qrLoginGeneration  BY DEF Settled
<1>2. Waiting(q)' <=> Waiting(q) /\ ~(q = r.page /\ Current(r))
  BY <1>1 DEF Waiting, Current, RequestsOrdered
<1>3. regenerateEnabled \in [Page -> BOOLEAN] /\ r.page \in Page  BY DEF TypeOK
<1> DEFINE enabled == regenerateEnabled[r.page] \/ Current(r)
<1>4. regenerateEnabled' = [regenerateEnabled EXCEPT ![r.page] = enabled]  BY DEF Settled
<1> HIDE DEF enabled
<1>5. regenerateEnabled'[q] = IF q = r.page THEN enabled ELSE regenerateEnabled[q]  BY <1>3, <1>4
<1>6. regenerateEnabled'[q] <=> regenerateEnabled[q] \/ (q = r.page /\ Current(r))
  BY <1>5 DEF enabled
<1> QED  BY <1>2, <1>6

\* A step keeps every page in step.
LEMMA PageStep ==
    ASSUME TypeOK, CodesIssued, RequestsOrdered, PageInStep, [Next]_vars
    PROVE  PageInStep'
<1> USE QrLoginAssumption
<1>a. PageInStep' <=> PagesOK'  BY PageByPage, PTL
<1> SUFFICES ASSUME NEW q \in Page PROVE PageOK(q)'  BY <1>a DEF PagesOK
<1>0. PageOK(q)  BY PageByPage DEF PagesOK
<1>1. ASSUME NEW p \in Page, openQrLoginModal(p) PROVE PageOK(q)'
  <2>1. modalOpen'[p] /\ \A o \in Page \ {p} : modalOpen'[o] = modalOpen[o]
    BY <1>1 DEF TypeOK, openQrLoginModal
  <2> QED  BY <1>1, <2>1, PageGenerate DEF openQrLoginModal
<1>2. ASSUME NEW p \in Page, Regenerate(p) PROVE PageOK(q)'
  BY <1>2, PageGenerate DEF Regenerate
<1>3. ASSUME NEW p \in Page, closeQrLoginModal(p) PROVE PageOK(q)'
  <2>1. CASE q = p
    <3>1. /\ shown'[p] = NoCode /\ regenerateEnabled'[p] = TRUE /\ modalOpen'[p] = FALSE
          /\ requests' = requests /\ qrLoginGeneration'[p] = qrLoginGeneration[p] + 1
      BY <1>3 DEF closeQrLoginModal, clearQrLoginCode, TypeOK
    <3>2. \A r \in requests : r.page = p => r.generation \in Nat /\ r.generation <= qrLoginGeneration[p]
      BY DEF RequestsOrdered, TypeOK
    <3>3. qrLoginGeneration[p] \in Nat  BY DEF TypeOK
    <3>4. ~Waiting(p)'  BY <3>1, <3>2, <3>3 DEF Waiting
    <3> QED  BY <2>1, <3>1, <3>4 DEF PageOK, ShownAsked, Explained
  <2>2. CASE q # p
    <3>1. /\ shown'[q] = shown[q] /\ modalOpen'[q] = modalOpen[q]
          /\ regenerateEnabled'[q] = regenerateEnabled[q]
          /\ errorShown'[q] = errorShown[q] /\ expiredShown'[q] = expiredShown[q]
          /\ qrLoginGeneration'[q] = qrLoginGeneration[q] /\ requests' = requests
      BY <1>3, <2>2 DEF closeQrLoginModal, clearQrLoginCode, TypeOK
    <3>2. Waiting(q)' <=> Waiting(q)  BY <3>1 DEF Waiting
    <3> QED  BY <1>0, <3>1, <3>2, PageFrame
  <2> QED  BY <2>1, <2>2
<1>4. ASSUME NEW p \in Page, expireQrLoginCode(p) PROVE PageOK(q)'
  <2>1. /\ modalOpen'[q] = modalOpen[q] /\ regenerateEnabled'[q] = regenerateEnabled[q]
        /\ errorShown'[q] = errorShown[q] /\ qrLoginGeneration'[q] = qrLoginGeneration[q]
        /\ requests' = requests
        /\ q # p => shown'[q] = shown[q] /\ expiredShown'[q] = expiredShown[q]
        /\ shown'[p] = NoCode /\ expiredShown'[p] = TRUE
    BY <1>4 DEF expireQrLoginCode, ShownExpired, TypeOK
  <2>2. Waiting(q)' <=> Waiting(q)  BY <2>1 DEF Waiting
  <2>3. CASE q # p  BY <1>0, <2>1, <2>2, <2>3, PageFrame
  <2>4. CASE q = p  BY <1>0, <2>1, <2>2, <2>4 DEF PageOK, ShownAsked, Explained
  <2> QED  BY <2>3, <2>4
<1>5. ASSUME NEW r \in requests, Answered(r) PROVE PageOK(q)'
  <2>1. Settled(r) /\ r.page \in Page /\ r.code \in Code  BY <1>5 DEF Answered, TypeOK
  <2>2. /\ modalOpen' = modalOpen /\ qrLoginGeneration' = qrLoginGeneration /\ issuedTo' = issuedTo
        /\ expiredShown' = expiredShown /\ errorShown' = errorShown
    BY <1>5 DEF Answered, Settled, server
  <2>3. CASE q = r.page /\ Current(r)
    <3>1. shown'[q] = r.code  BY <1>5, <2>1, <2>3 DEF Answered, TypeOK
    <3>2. modalOpen[q] /\ issuedTo[r.code] = <<q, qrLoginGeneration[q]>>
      BY <1>5, <2>3 DEF RequestsOrdered, Current, Answered
    <3>3. ShownAsked(q)' /\ Explained(q)'  BY <2>1, <2>2, <3>1, <3>2 DEF ShownAsked, Explained
    <3>4. ~regenerateEnabled'[q] <=> Waiting(q)'  BY <2>1, <2>3, SettledWaits
    <3> QED  BY <3>3, <3>4 DEF PageOK
  <2>4. CASE ~(q = r.page /\ Current(r))
    <3>1. shown'[q] = shown[q]  BY <1>5, <2>1, <2>4 DEF Answered, TypeOK
    <3>2. (Waiting(q)' <=> Waiting(q)) /\ (regenerateEnabled'[q] <=> regenerateEnabled[q])
      BY <2>1, <2>4, SettledWaits
    <3>3. ShownAsked(q)' /\ Explained(q)'
      BY <1>0, <2>2, <3>1, <3>2 DEF PageOK, ShownAsked, Explained
    <3> QED  BY <1>0, <3>2, <3>3 DEF PageOK
  <2> QED  BY <2>3, <2>4
<1>6. ASSUME NEW r \in requests, Failed(r) PROVE PageOK(q)'
  <2>1. Settled(r) /\ r.page \in Page  BY <1>6 DEF Failed, TypeOK
  <2>2. /\ modalOpen' = modalOpen /\ qrLoginGeneration' = qrLoginGeneration /\ issuedTo' = issuedTo
        /\ expiredShown' = expiredShown /\ shown' = shown
    BY <1>6 DEF Failed, Settled, server
  <2>3. ShownAsked(q)'  BY <1>0, <2>2 DEF PageOK, ShownAsked
  <2>4. CASE q = r.page /\ Current(r)
    <3>1. errorShown'[q] = TRUE  BY <1>6, <2>1, <2>4 DEF Failed, TypeOK
    <3>2. ~regenerateEnabled'[q] <=> Waiting(q)'  BY <2>1, <2>4, SettledWaits
    <3> QED  BY <2>3, <3>1, <3>2 DEF PageOK, Explained
  <2>5. CASE ~(q = r.page /\ Current(r))
    <3>1. errorShown'[q] = errorShown[q]  BY <1>6, <2>1, <2>5 DEF Failed, TypeOK
    <3>2. (Waiting(q)' <=> Waiting(q)) /\ (regenerateEnabled'[q] <=> regenerateEnabled[q])
      BY <2>1, <2>5, SettledWaits
    <3>3. Explained(q)'  BY <1>0, <2>2, <3>1, <3>2 DEF PageOK, Explained
    <3> QED  BY <1>0, <2>3, <3>2, <3>3 DEF PageOK
  <2> QED  BY <2>4, <2>5
<1>7. ASSUME NEW r \in requests, NEW c \in Code, handleQRLoginGenerate(r, c) PROVE PageOK(q)'
  <2>1. UNCHANGED page  BY <1>7 DEF handleQRLoginGenerate
  <2>2. requests' = (requests \ {r}) \cup {[r EXCEPT !.code = c]}  BY <1>7 DEF handleQRLoginGenerate
  <2>3. [r EXCEPT !.code = c].page = r.page /\ [r EXCEPT !.code = c].generation = r.generation
    BY DEF TypeOK
  <2>4. Waiting(q)' <=> Waiting(q)  BY <2>1, <2>2, <2>3 DEF page, Waiting
  <2> QED  BY <1>0, <2>1, <2>4, PageFrame DEF page
<1>8. ASSUME requests' = requests, UNCHANGED <<shown, modalOpen, regenerateEnabled, errorShown,
                                               expiredShown, qrLoginGeneration>>
      PROVE  PageOK(q)'
  <2>1. Waiting(q)' <=> Waiting(q)  BY <1>8 DEF Waiting
  <2> QED  BY <1>0, <1>8, <2>1, PageFrame
<1>9. \/ \E p \in Page : \/ openQrLoginModal(p) \/ Regenerate(p) \/ closeQrLoginModal(p)
                         \/ expireQrLoginCode(p)
      \/ \E r \in requests : Answered(r) \/ Failed(r) \/ \E c \in Code : handleQRLoginGenerate(r, c)
      \/ requests' = requests /\ UNCHANGED <<shown, modalOpen, regenerateEnabled, errorShown,
                                             expiredShown, qrLoginGeneration>>
  BY DEF Next, vars, page, Scan, Tick, RunQRLoginCleanup, Restart, handleQRLoginRedeem
<1> QED  BY <1>1, <1>2, <1>3, <1>4, <1>5, <1>6, <1>7, <1>8, <1>9

-----------------------------------------------------------------------------
(* What has become of the codes issued *)

\* Another code was issued to the same user.
Overtaken(c) == \E d \in Code \ {c} : issuedTo[d] # NoIssue /\ OwnerOf(d) = OwnerOf(c)
CodesDropped ==
    \A c \in Code : issuedTo[c] # NoIssue =>
        codes[c] = OwnerOf(c) \/ c \in ended \/ life[c] = 0 \/ Overtaken(c)

\* A code issued keeps its owner, and no life starts again.
LEMMA OwnersStay ==
    ASSUME TypeOK, [Next]_vars
    PROVE  \A c \in Code : issuedTo[c] # NoIssue =>
                /\ issuedTo'[c] # NoIssue /\ OwnerOf(c)' = OwnerOf(c)
                /\ Overtaken(c) => Overtaken(c)'
                /\ life[c] = 0 => life'[c] = 0
<1>1. ASSUME NEW c \in Code, issuedTo[c] # NoIssue
      PROVE  issuedTo'[c] # NoIssue /\ OwnerOf(c)' = OwnerOf(c)
  BY <1>1, IssuedOnce DEF OwnerOf
<1>2. ASSUME NEW c \in Code, issuedTo[c] # NoIssue, Overtaken(c) PROVE Overtaken(c)'
  BY <1>1, <1>2 DEF Overtaken
<1>3. ASSUME NEW c \in Code, issuedTo[c] # NoIssue, life[c] = 0 PROVE life'[c] = 0
  <2>1. ASSUME NEW r \in requests, NEW d \in Code, handleQRLoginGenerate(r, d) PROVE life'[c] = 0
    BY <1>3, <2>1 DEF handleQRLoginGenerate, TypeOK
  <2>2. CASE Tick  BY <1>3, <2>2 DEF Tick, Less
  <2>3. CASE UNCHANGED life  BY <1>3, <2>3
  <2>4. \/ \E r \in requests, d \in Code : handleQRLoginGenerate(r, d)
        \/ Tick \/ UNCHANGED life
    BY DEF Next, vars, openQrLoginModal, Regenerate, generateQrLoginCode, closeQrLoginModal,
           expireQrLoginCode, Answered, Failed, Settled, Scan, RunQRLoginCleanup, Restart,
           handleQRLoginRedeem
  <2> QED  BY <2>1, <2>2, <2>3, <2>4
<1> QED  BY <1>1, <1>2, <1>3

\* A step drops no code that lives but for an attempt, a restart or another code.
LEMMA DroppedStep ==
    ASSUME TypeOK, StoreConsistent, CodesIssued, CodesDropped, [Next]_vars
    PROVE  CodesDropped'
<1> USE QrLoginAssumption
<1>1. ASSUME NEW c \in Code, issuedTo[c] # NoIssue,
             ended \subseteq ended', codes'[c] = codes[c] \/ life[c] = 0 \/ c \in ended' \/ Overtaken(c)'
      PROVE  (codes[c] = OwnerOf(c) \/ c \in ended \/ life[c] = 0 \/ Overtaken(c))'
  BY <1>1, OwnersStay DEF CodesDropped
<1>2. ASSUME issuedTo' = issuedTo, ended \subseteq ended',
             \A c \in Code : codes'[c] = codes[c] \/ life[c] = 0 \/ c \in ended'
      PROVE  CodesDropped'
  BY <1>1, <1>2 DEF CodesDropped
<1>3. CASE UNCHANGED server  BY <1>2, <1>3 DEF server
<1>4. ASSUME NEW r \in requests, NEW c \in Code, handleQRLoginGenerate(r, c) PROVE CodesDropped'
  <2> DEFINE u == UserOf[r.page]
  <2>1. r.page \in Page /\ r.generation \in Nat /\ u \in User  BY DEF TypeOK
  <2>2. /\ issuedTo'[c] = <<r.page, r.generation>> /\ issuedTo'[c] # NoIssue /\ issuedTo'[c][1] = r.page
        /\ \A d \in Code \ {c} : issuedTo'[d] = issuedTo[d]
    BY <1>4, <2>1 DEF handleQRLoginGenerate, TypeOK
  <2>3. \A d \in Code : codes'[d] = IF d = c THEN u ELSE IF d = byUser[u] THEN NoUser ELSE codes[d]
    BY <1>4 DEF handleQRLoginGenerate, put
  <2>4. ended' = ended  BY <1>4 DEF handleQRLoginGenerate
  <2>5. OwnerOf(c)' = u  BY <2>2 DEF OwnerOf
  <2>6. ASSUME NEW d \in Code, d # c, issuedTo[d] # NoIssue
        PROVE  codes'[d] = codes[d] \/ Overtaken(d)'
    <3>1. CASE d # byUser[u]  BY <2>3, <2>6, <3>1
    <3>2. CASE d = byUser[u]
      <4>1. codes[d] = u  BY <2>1, <3>2 DEF StoreConsistent
      <4>2. OwnerOf(d) = u  BY <2>1, <4>1 DEF CodesIssued
      <4>3. OwnerOf(d)' = u  BY <2>6, <4>2, OwnersStay
      <4> QED  BY <2>2, <2>5, <2>6, <4>3 DEF Overtaken
    <3> QED  BY <3>1, <3>2
  <2>7. ASSUME NEW d \in Code, issuedTo'[d] # NoIssue
        PROVE  (codes[d] = OwnerOf(d) \/ d \in ended \/ life[d] = 0 \/ Overtaken(d))'
    <3>1. CASE d = c  BY <2>3, <2>5, <3>1
    <3>2. CASE d # c
      <4>1. issuedTo[d] # NoIssue  BY <2>2, <2>7, <3>2
      <4> QED  BY <1>1, <2>4, <2>6, <3>2, <4>1
    <3> QED  BY <3>1, <3>2
  <2> QED  BY <2>7 DEF CodesDropped
<1>5. CASE RunQRLoginCleanup
  <2> DEFINE expired == {c \in Code : codes[c] # NoUser /\ Expired(c)}
  <2>1. removeLocked(expired) /\ UNCHANGED <<issuedTo, ended>>  BY <1>5 DEF RunQRLoginCleanup
  <2>2. \A c \in Code \ expired : codes'[c] = codes[c]  BY <2>1, RemovalIsConsistent
  <2>3. \A c \in expired : life[c] = 0  BY DEF Expired
  <2> QED  BY <1>2, <2>1, <2>2, <2>3
<1>6. CASE Restart
  <2>1. \A c \in Code : codes'[c] = codes[c] \/ c \in ended'  BY <1>6 DEF Restart
  <2> QED  BY <1>2, <1>6, <2>1 DEF Restart
<1>7. ASSUME NEW f \in Phone, handleQRLoginRedeem(f) PROVE CodesDropped'
  <2>1. issuedTo' = issuedTo  BY <1>7 DEF handleQRLoginRedeem
  <2>2. CASE UNCHANGED <<codes, byUser, sessions, ended>>  BY <1>2, <2>1, <2>2
  <2>3. CASE phone[f] \in Code /\ removeLocked({phone[f]}) /\ ended' = ended \cup {phone[f]}
    <3>1. \A c \in Code \ {phone[f]} : codes'[c] = codes[c]  BY <2>3, RemovalIsConsistent
    <3> QED  BY <1>2, <2>1, <2>3, <3>1
  <2> QED  BY <1>7, <2>2, <2>3, RedeemTakes
<1> QED  BY <1>3, <1>4, <1>5, <1>6, <1>7, ServerSteps

-----------------------------------------------------------------------------
(* The theorems *)

IInv == /\ TypeOK /\ StoreConsistent /\ CodesIssued
        /\ RequestsOrdered /\ PageInStep /\ CodesDropped

\* The inductive invariant holds at first.
LEMMA IInvInit == Init => IInv
<1> SUFFICES ASSUME Init PROVE IInv  OBVIOUS
<1> USE QrLoginAssumption
<1>1. TypeOK  BY TypeInit
<1>2. StoreConsistent /\ CodesIssued /\ CodesDropped
  BY DEF Init, StoreConsistent, CodesIssued, CodesDropped
<1>3. RequestsOrdered /\ PageInStep  BY DEF Init, RequestsOrdered, PageInStep
<1> QED  BY <1>1, <1>2, <1>3 DEF IInv

\* Whatever pages, phones, the clock and the server do, in any order: the inductive
\* invariant holds.
THEOREM Invariance == Spec => []IInv
<1>1. IInv /\ [Next]_vars => IInv'
  BY TypeStep, StoreStep, CodesStep, RequestsStep, PageStep, DroppedStep DEF IInv
<1> QED  BY IInvInit, <1>1, PTL DEF Spec

\* The store's two maps never disagree.
THEOREM StoreIsConsistent == Spec => []StoreConsistent
<1>1. IInv => StoreConsistent  BY DEF IInv
<1> QED  BY Invariance, <1>1, PTL

\* No late or reordered answer puts the page out of step with what was asked last.
THEOREM PagesInStep == Spec => []PageInStep
<1>1. IInv => PageInStep  BY DEF IInv
<1> QED  BY Invariance, <1>1, PTL

\* The code on screen can be redeemed, but for the reasons ShownIsRedeemable names: each
\* request has at most one code, so that another code of the user is of another request.
THEOREM ShownCanBeRedeemed == Spec => []ShownIsRedeemable
<1>1. IInv => ShownIsRedeemable
  <2> USE QrLoginAssumption
  <2> SUFFICES ASSUME IInv, NEW p \in Page, shown[p] # NoCode, remaining[p] > 0, life[shown[p]] > 0
               PROVE  codes[shown[p]] = UserOf[p] \/ shown[p] \in ended \/ Replaced(p)
    BY DEF ShownIsRedeemable
  <2> DEFINE c == shown[p]
  <2>1. c \in Code /\ qrLoginGeneration[p] \in Nat  BY DEF IInv, TypeOK
  <2>2. issuedTo[c] = <<p, qrLoginGeneration[p]>>  BY DEF IInv, PageInStep
  <2>3. issuedTo[c] # NoIssue /\ OwnerOf(c) = UserOf[p]  BY <2>1, <2>2 DEF OwnerOf
  <2>4. codes[c] = UserOf[p] \/ c \in ended \/ Overtaken(c)
    BY <2>1, <2>3 DEF IInv, CodesDropped
  <2>5. ASSUME NEW d \in Code, d # c, issuedTo[d] # NoIssue, OwnerOf(d) = UserOf[p] PROVE Replaced(p)
    <3>1. issuedTo[d] \in Page \X Nat  BY <2>5 DEF IInv, TypeOK
    <3>2. issuedTo[d] # <<p, qrLoginGeneration[p]>>  BY <2>1, <2>2, <2>5 DEF IInv, CodesIssued
    <3>3. issuedTo[d][1] # p \/ issuedTo[d][2] # qrLoginGeneration[p]  BY <3>1, <3>2
    <3>4. issuedTo[d][2] <= qrLoginGeneration[issuedTo[d][1]]  BY <2>5 DEF IInv, CodesIssued
    <3>5. issuedTo[d][2] \in Nat  BY <3>1
    <3>6. issuedTo[d][1] # p \/ issuedTo[d][2] < qrLoginGeneration[p]  BY <2>1, <3>3, <3>4, <3>5
    <3> QED  BY <2>5, <3>6 DEF Replaced, OwnerOf
  <2> QED  BY <2>3, <2>4, <2>5 DEF Overtaken
<1> QED  BY Invariance, <1>1, PTL

-----------------------------------------------------------------------------
(* The store implements one-time codes *)

issued == [c \in Code |-> IF issuedTo[c] = NoIssue THEN NoUser ELSE OwnerOf(c)]

\* What each step is of one-time codes.
LEMMA StepImplements ==
    ASSUME IInv, [Next]_vars
    PROVE  Codes!Next \/ (issued' = issued /\ UNCHANGED <<byUser, life, sessions>>)
<1> USE QrLoginAssumption
<1>0. TypeOK /\ StoreConsistent /\ CodesIssued  BY DEF IInv
<1>1. ASSUME issuedTo' = issuedTo PROVE issued' = issued  BY <1>1 DEF issued, OwnerOf
<1>2. CASE UNCHANGED server
  <2>1. CASE UNCHANGED life  BY <1>1, <1>2, <2>1 DEF server
  <2>2. CASE Tick
    <3>1. Codes!Age  BY <1>1, <1>2, <2>2 DEF Codes!Age, Tick, Less, server, issued
    <3> QED  BY <3>1 DEF Codes!Next
  <2>3. CASE \E r \in requests, c \in Code : handleQRLoginGenerate(r, c)
    <3>1. ASSUME NEW r \in requests, NEW c \in Code, handleQRLoginGenerate(r, c) PROVE FALSE
      <4>1. issuedTo[c] = NoIssue /\ issuedTo'[c] = <<r.page, r.generation>>
        BY <1>0, <3>1 DEF handleQRLoginGenerate, TypeOK
      <4>2. <<r.page, r.generation>> # NoIssue  BY <1>0 DEF TypeOK
      <4> QED  BY <1>2, <4>1, <4>2 DEF server
    <3> QED  BY <2>3, <3>1
  <2>4. UNCHANGED life \/ Tick \/ \E r \in requests, c \in Code : handleQRLoginGenerate(r, c)
    BY DEF Next, vars, openQrLoginModal, Regenerate, generateQrLoginCode, closeQrLoginModal,
           expireQrLoginCode, Answered, Failed, Settled, Scan, RunQRLoginCleanup, Restart,
           handleQRLoginRedeem
  <2> QED  BY <2>1, <2>2, <2>3, <2>4
<1>3. ASSUME NEW r \in requests, NEW c \in Code, handleQRLoginGenerate(r, c) PROVE Codes!Next
  <2> DEFINE u == UserOf[r.page]
  <2>1. r.page \in Page /\ r.generation \in Nat /\ u \in User  BY <1>0 DEF TypeOK
  <2>2. /\ issuedTo[c] = NoIssue /\ issuedTo' = [issuedTo EXCEPT ![c] = <<r.page, r.generation>>]
        /\ byUser' = [byUser EXCEPT ![u] = c] /\ life' = [life EXCEPT ![c] = qrLoginTTL]
        /\ sessions' = sessions
    BY <1>3 DEF handleQRLoginGenerate, put
  <2>3. issuedTo'[c][1] = r.page /\ issuedTo'[c] # NoIssue
        /\ \A d \in Code \ {c} : issuedTo'[d] = issuedTo[d]
    BY <1>0, <2>1, <2>2 DEF TypeOK
  <2>4. issued' = [issued EXCEPT ![c] = u]  BY <2>3 DEF issued, OwnerOf
  <2>5. Codes!Issue(u, c)  BY <2>2, <2>4 DEF Codes!Issue, issued, OwnerOf
  <2> QED  BY <2>1, <2>5 DEF Codes!Next
<1>4. ASSUME NEW removed \in SUBSET Code, removeLocked(removed)
      PROVE  \E users \in SUBSET User :
                byUser' = [u \in User |-> IF u \in users THEN NoCode ELSE byUser[u]]
  <2> DEFINE users == {u \in User : \E c \in removed : codes[c] = u /\ byUser[u] = c}
  <2>1. byUser' = [u \in User |-> IF u \in users THEN NoCode ELSE byUser[u]]  BY <1>4 DEF removeLocked
  <2> QED  BY <2>1
<1>5. ASSUME NEW users \in SUBSET User, UNCHANGED <<issuedTo, life, sessions>>,
             byUser' = [u \in User |-> IF u \in users THEN NoCode ELSE byUser[u]]
      PROVE  Codes!Next
  <2>1. Codes!Forget(users)  BY <1>1, <1>5 DEF Codes!Forget, issued
  <2> QED  BY <2>1 DEF Codes!Next
<1>6. CASE RunQRLoginCleanup  BY <1>4, <1>5, <1>6 DEF RunQRLoginCleanup
<1>7. CASE Restart
  <2>1. byUser' = [u \in User |-> IF u \in User THEN NoCode ELSE byUser[u]]  BY <1>7 DEF Restart
  <2> QED  BY <1>5, <1>7, <2>1 DEF Restart
<1>8. ASSUME NEW f \in Phone, handleQRLoginRedeem(f)
      PROVE  Codes!Next \/ (issued' = issued /\ UNCHANGED <<byUser, life, sessions>>)
  <2> DEFINE c == phone[f]
  <2>1. issuedTo' = issuedTo /\ life' = life  BY <1>8 DEF handleQRLoginRedeem
  <2>2. CASE UNCHANGED <<codes, byUser, sessions, ended>>  BY <1>1, <2>1, <2>2
  <2>3. CASE /\ c \in Code /\ codes[c] # NoUser /\ removeLocked({c})
             /\ \/ ~Expired(c) /\ sessions' = Append(sessions, <<codes[c], c>>)
                \/ UNCHANGED sessions
    <3> DEFINE u == codes[c]
    <3>1. u \in User /\ byUser[u] = c  BY <1>0, <2>3 DEF TypeOK, StoreConsistent
    <3>2. byUser' = [byUser EXCEPT ![u] = NoCode]
      <4>1. byUser' = [v \in User |-> IF u = v /\ byUser[v] = c THEN NoCode ELSE byUser[v]]
        BY <2>3 DEF removeLocked
      <4> QED  BY <1>0, <3>1, <4>1 DEF TypeOK
    <3>3. life[c] \in Nat  BY <1>0, <2>3 DEF TypeOK
    <3>4. Codes!Redeem(u, c)
      BY <1>1, <2>1, <2>3, <3>1, <3>2, <3>3 DEF Codes!Redeem, Expired, issued
    <3> QED  BY <2>3, <3>1, <3>4 DEF Codes!Next
  <2> QED  BY <1>8, <2>2, <2>3, RedeemTakes
<1> QED  BY <1>2, <1>3, <1>6, <1>7, <1>8, ServerSteps

\* The sign-in implements one-time codes: of the promise in the comment of qr_login.go,
\* that a user holds one code at most, consumed by the first attempt.
THEOREM Implements == Spec => OneTime
<1>1. Init => Codes!Init
  BY QrLoginAssumption DEF Init, Codes!Init
<1>2. IInv /\ [Next]_vars => [Codes!Next]_<<issued, byUser, life, sessions>>
  BY StepImplements
<1> QED  BY Invariance, <1>1, <1>2, PTL DEF Spec, OneTime, Codes!Spec, issued, OwnerOf
=============================================================================
