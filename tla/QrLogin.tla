------------------------------- MODULE QrLogin -------------------------------
(***************************************************************************)
(* Signing the Android app in by QR code: the modal that asks for a code   *)
(* and shows it (static/js/qr-login.js), the server's store of codes       *)
(* (internal/handlers/qr_login.go), and phones that scan and redeem.       *)
(*                                                                         *)
(* Time is what is left of each life; the server's clock and the page's    *)
(* run alike, but the page counts from the arrival of the answer.          *)
(***************************************************************************)
EXTENDS Integers, Sequences

CONSTANTS
    Page,           \* the tabs and computers the modal may be open on
    User, UserOf,   \* the account signed in on each page
    Phone,
    Code,           \* bound: the codes the server issues
    Reads,          \* <<page, code, read>>: what may be read in what a page draws for a code
    NoUser, NoCode, NoIssue,
    qrLoginTTL,
    MaxGeneration   \* bound: up to which the user opens the modal and asks again

ASSUME QrLoginAssumption ==
    /\ UserOf \in [Page -> User] /\ qrLoginTTL \in Nat \ {0} /\ MaxGeneration \in [Page -> Nat]
    /\ NoUser \notin User /\ NoCode \notin Code /\ NoIssue \notin Page \X Nat

VARIABLES
    modalOpen, regenerateEnabled, errorShown, expiredShown,
    qrLoginGeneration,
    shown,          \* the code in the QR code on the page
    remaining,      \* until qrLoginDeadline
    requests,       \* in flight: the page, its generation, and the code issued, if any
    codes,          \* the store: the user of each code in it, or NoUser
    byUser,         \* each user's code in it, or NoCode
    life,           \* until a code's expires
    phone,          \* the code scanned and not yet redeemed
    sessions,       \* opened: <<user, code>>
    issuedTo,       \* ghost: the page and generation each code was issued for
    ended           \* ghost: the codes an attempt took, or a restart lost

page == <<modalOpen, regenerateEnabled, errorShown, expiredShown, qrLoginGeneration, shown, remaining>>
server == <<codes, byUser, sessions, issuedTo, ended>>
vars == <<page, requests, server, life, phone>>

Init ==
    /\ modalOpen = [p \in Page |-> FALSE] /\ regenerateEnabled = [p \in Page |-> TRUE]
    /\ errorShown = [p \in Page |-> FALSE] /\ expiredShown = [p \in Page |-> FALSE]
    /\ qrLoginGeneration = [p \in Page |-> 0]
    /\ shown = [p \in Page |-> NoCode] /\ remaining = [p \in Page |-> 0]
    /\ requests = {}
    /\ codes = [c \in Code |-> NoUser] /\ byUser = [u \in User |-> NoCode]
    /\ life = [c \in Code |-> 0]
    /\ phone = [f \in Phone |-> NoCode] /\ sessions = <<>>
    /\ issuedTo = [c \in Code |-> NoIssue] /\ ended = {}

-----------------------------------------------------------------------------
(* The page *)

clearQrLoginCode(p) ==
    /\ shown' = [shown EXCEPT ![p] = NoCode] /\ remaining' = [remaining EXCEPT ![p] = 0]
    /\ expiredShown' = [expiredShown EXCEPT ![p] = FALSE]

generateQrLoginCode(p) ==
    /\ qrLoginGeneration[p] < MaxGeneration[p]
    /\ qrLoginGeneration' = [qrLoginGeneration EXCEPT ![p] = @ + 1]
    /\ clearQrLoginCode(p)
    /\ errorShown' = [errorShown EXCEPT ![p] = FALSE]
    /\ regenerateEnabled' = [regenerateEnabled EXCEPT ![p] = FALSE]
    /\ requests' = requests \cup {[page |-> p, generation |-> qrLoginGeneration'[p], code |-> NoCode]}
    /\ UNCHANGED <<server, life, phone>>

openQrLoginModal(p) ==
    /\ ~modalOpen[p] /\ modalOpen' = [modalOpen EXCEPT ![p] = TRUE]
    /\ generateQrLoginCode(p)

Regenerate(p) ==
    /\ modalOpen[p] /\ regenerateEnabled[p] /\ UNCHANGED modalOpen
    /\ generateQrLoginCode(p)

closeQrLoginModal(p) ==
    /\ modalOpen[p] /\ modalOpen' = [modalOpen EXCEPT ![p] = FALSE]
    /\ qrLoginGeneration' = [qrLoginGeneration EXCEPT ![p] = @ + 1]
    /\ clearQrLoginCode(p)
    /\ errorShown' = [errorShown EXCEPT ![p] = FALSE]
    /\ regenerateEnabled' = [regenerateEnabled EXCEPT ![p] = TRUE]
    /\ UNCHANGED <<requests, server, life, phone>>

\* Mutant: any answer is the one waited for.
Current_Any(r) == TRUE
Current(r) == r.generation = qrLoginGeneration[r.page]

\* The answer arrives, or an error does; the finally clause follows either.
Settled(r) ==
    /\ requests' = requests \ {r}
    /\ regenerateEnabled' = [regenerateEnabled EXCEPT ![r.page] = @ \/ Current(r)]
    /\ UNCHANGED <<modalOpen, expiredShown, qrLoginGeneration, server, life, phone>>

Answered(r) ==
    /\ r.code # NoCode /\ Settled(r)
    /\ IF Current(r)
       THEN /\ shown' = [shown EXCEPT ![r.page] = r.code]
            /\ remaining' = [remaining EXCEPT ![r.page] = qrLoginTTL]
       ELSE UNCHANGED <<shown, remaining>>
    /\ UNCHANGED errorShown

Failed(r) ==
    /\ Settled(r)
    /\ errorShown' = IF Current(r) THEN [errorShown EXCEPT ![r.page] = TRUE] ELSE errorShown
    /\ UNCHANGED <<shown, remaining>>

\* Mutant: the code is covered, and not removed.
ShownExpired_Kept(c) == c
ShownExpired(c) == NoCode

\* renderQrLoginCountdown, of the timer, once there is nothing left.
expireQrLoginCode(p) ==
    /\ shown[p] # NoCode /\ remaining[p] = 0 /\ ~expiredShown[p]
    /\ shown' = [shown EXCEPT ![p] = ShownExpired(@)]
    /\ expiredShown' = [expiredShown EXCEPT ![p] = TRUE]
    /\ UNCHANGED <<modalOpen, regenerateEnabled, errorShown, qrLoginGeneration, remaining,
                   requests, server, life, phone>>

-----------------------------------------------------------------------------
(* The server *)

\* Mutant: the user's previous code stays in the store.
put_KeepsPrevious(c, u) ==
    /\ codes' = [codes EXCEPT ![c] = u] /\ byUser' = [byUser EXCEPT ![u] = c]
put(c, u) ==
    /\ codes' = [d \in Code |-> IF d = c THEN u ELSE IF d = byUser[u] THEN NoUser ELSE codes[d]]
    /\ byUser' = [byUser EXCEPT ![u] = c]

handleQRLoginGenerate(r, c) ==
    /\ r.code = NoCode /\ issuedTo[c] = NoIssue
    /\ put(c, UserOf[r.page])
    /\ life' = [life EXCEPT ![c] = qrLoginTTL]
    /\ issuedTo' = [issuedTo EXCEPT ![c] = <<r.page, r.generation>>]
    /\ requests' = (requests \ {r}) \cup {[r EXCEPT !.code = c]}
    /\ UNCHANGED <<page, sessions, ended, phone>>

\* Mutant: the code stays in the store.
removeLocked_Kept(removed) == UNCHANGED <<codes, byUser>>
removeLocked(removed) ==
    /\ codes' = [c \in Code |-> IF c \in removed THEN NoUser ELSE codes[c]]
    /\ byUser' = [u \in User |-> IF \E c \in removed : codes[c] = u /\ byUser[u] = c
                                 THEN NoCode ELSE byUser[u]]

\* Mutant: expired a moment early.
Expired_Early(c) == life[c] <= 1
Expired(c) == life[c] = 0

\* prune, every minute.
RunQRLoginCleanup ==
    LET expired == {c \in Code : codes[c] # NoUser /\ Expired(c)}
    IN  /\ expired # {} /\ removeLocked(expired)
        /\ UNCHANGED <<page, requests, sessions, issuedTo, ended, life, phone>>

\* Too many attempts, or no such code, leave the store alone; the first attempt takes
\* the code, whether it lives, whether the account is still there and whatever fails next.
handleQRLoginRedeem(f) ==
    LET c == phone[f]
    IN  /\ c # NoCode /\ phone' = [phone EXCEPT ![f] = NoCode]
        /\ \/ UNCHANGED <<codes, byUser, sessions, ended>>
           \/ /\ c \in Code /\ codes[c] # NoUser
              /\ removeLocked({c}) /\ ended' = ended \cup {c}
              /\ \/ ~Expired(c) /\ sessions' = Append(sessions, <<codes[c], c>>)
                 \/ UNCHANGED sessions
        /\ UNCHANGED <<page, requests, issuedTo, life>>

\* The store is in memory.
Restart ==
    /\ \E c \in Code : codes[c] # NoUser
    /\ codes' = [c \in Code |-> NoUser] /\ byUser' = [u \in User |-> NoCode]
    /\ ended' = ended \cup {c \in Code : codes[c] # NoUser}
    /\ UNCHANGED <<page, requests, sessions, issuedTo, life, phone>>

-----------------------------------------------------------------------------
Scan(f, p) ==
    /\ phone[f] = NoCode /\ shown[p] # NoCode
    /\ \E r \in Reads : r[1] = p /\ r[2] = shown[p] /\ phone' = [phone EXCEPT ![f] = r[3]]
    /\ UNCHANGED <<page, requests, server, life>>

\* Mutant: it goes on below zero.
Less_Below(n) == n - 1
Less(n) == IF n > 0 THEN n - 1 ELSE 0
Tick ==
    /\ (\E c \in Code : life[c] > 0) \/ (\E p \in Page : remaining[p] > 0)
    /\ life' = [c \in Code |-> Less(life[c])]
    /\ remaining' = [p \in Page |-> Less(remaining[p])]
    /\ UNCHANGED <<modalOpen, regenerateEnabled, errorShown, expiredShown, qrLoginGeneration,
                   shown, requests, server, phone>>

Next ==
    \/ \E p \in Page : \/ openQrLoginModal(p) \/ Regenerate(p) \/ closeQrLoginModal(p)
                       \/ expireQrLoginCode(p)
    \/ \E r \in requests : \/ Answered(r) \/ Failed(r)
                           \/ \E c \in Code : handleQRLoginGenerate(r, c)
    \/ RunQRLoginCleanup \/ Restart
    \/ \E f \in Phone : handleQRLoginRedeem(f) \/ \E p \in Page : Scan(f, p)
    \/ Tick

\* Time passes, timers fire, and a request ends with an answer or an error.
Fairness ==
    /\ WF_vars(Tick)
    /\ \A p \in Page : /\ WF_vars(expireQrLoginCode(p))
                       /\ WF_vars(\E r \in requests : r.page = p /\ (Answered(r) \/ Failed(r)))
Spec == Init /\ [][Next]_vars /\ Fairness

-----------------------------------------------------------------------------
TypeOK ==
    /\ modalOpen \in [Page -> BOOLEAN] /\ regenerateEnabled \in [Page -> BOOLEAN]
    /\ errorShown \in [Page -> BOOLEAN] /\ expiredShown \in [Page -> BOOLEAN]
    /\ qrLoginGeneration \in [Page -> Nat]
    /\ shown \in [Page -> Code \cup {NoCode}] /\ remaining \in [Page -> 0 .. qrLoginTTL]
    /\ requests \subseteq [page : Page, generation : Nat, code : Code \cup {NoCode}]
    /\ codes \in [Code -> User \cup {NoUser}] /\ byUser \in [User -> Code \cup {NoCode}]
    /\ life \in [Code -> 0 .. qrLoginTTL]
    /\ sessions \in Seq(User \X Code)
    /\ issuedTo \in [Code -> (Page \X Nat) \cup {NoIssue}]
    /\ ended \subseteq Code

\* The store's two maps say the same: the codes in it are their users' own, one each.
StoreConsistent ==
    /\ \A c \in Code : codes[c] # NoUser => byUser[codes[c]] = c
    /\ \A u \in User : byUser[u] # NoCode => codes[byUser[u]] = u

\* "a response that arrives after either belongs to a code nobody is looking at any
\* more": what is shown is what the modal, open, last asked for; the button is disabled
\* while the modal waits for an answer, and only then; and an open modal shows a code, or
\* says why it shows none.
PageInStep ==
    \A p \in Page :
        /\ shown[p] # NoCode => modalOpen[p] /\ issuedTo[shown[p]] = <<p, qrLoginGeneration[p]>>
        /\ ~regenerateEnabled[p] <=> \E r \in requests : r.page = p /\ Current(r)
        /\ modalOpen[p] /\ regenerateEnabled[p] =>
            (shown[p] # NoCode) \/ errorShown[p] \/ expiredShown[p]

\* The code on screen, until both its lives end, can be redeemed: unless an attempt was
\* made, the server restarted, or a code was issued for another page of the user, or for
\* an older request of this one that reached the server after it.
Replaced(p) ==
    \E c \in Code : /\ issuedTo[c] # NoIssue /\ UserOf[issuedTo[c][1]] = UserOf[p]
                    /\ issuedTo[c][1] # p \/ issuedTo[c][2] < qrLoginGeneration[p]
ShownIsRedeemable ==
    \A p \in Page : shown[p] # NoCode /\ remaining[p] > 0 /\ life[shown[p]] > 0 =>
        codes[shown[p]] = UserOf[p] \/ shown[p] \in ended \/ Replaced(p)

\* A phone reads the code that is on the screen, in what the page's encoder drew.
ScanReadsShown ==
    [][\A f \in Phone : phone[f] = NoCode /\ phone'[f] # NoCode =>
            \E p \in Page : shown[p] = phone'[f]]_vars

\* Every code leaves the screen, and every wait ends.
CodeLeavesScreen == \A p \in Page : []<>(shown[p] = NoCode /\ regenerateEnabled[p])

\* The store, its users and its sessions are those of one-time codes.
Codes == INSTANCE OneTimeCode WITH
    owner <- [c \in Code |-> IF issuedTo[c] = NoIssue THEN NoUser ELSE UserOf[issuedTo[c][1]]],
    ticket <- byUser, Lifetime <- qrLoginTTL
OneTime == Codes!Spec
=============================================================================
