-------------------------- MODULE FluvOutbox_proofs --------------------------
(***************************************************************************)
(* Proofs about FluvOutbox, for all values of its constants: the type      *)
(* invariant, that what the outbox says of Fluv is true (SettledIsTrue)    *)
(* and that a purchase only goes from record to cancel (RowsOnlyGoForward);*)
(* and, for requests that come in turn and run to their end, that an       *)
(* item's purchases follow it (PurchaseFollowsItem, OnePurchase,           *)
(* PurchaseKept).                                                          *)
(*                                                                         *)
(* None of them is inductive.  SettledIsTrue needs to know what a row      *)
(* that is not settled yet may have left in Fluv, what the sender's        *)
(* snapshot still shares with the row it was taken of while requests       *)
(* rewrite that row, and that a reference is never used twice (IInv).  The *)
(* other three need to know, at each point of a request, what its item's   *)
(* purchases are, and that only the newest is ever active (MirrorInv).     *)
(***************************************************************************)
EXTENDS FluvOutbox, FiniteSetTheorems, TLAPS

\* The requests that may still queue a purchase; each was counted in ops.
Requesting == {j \in Jobs : job[j].pc \notin {"idle", "detach"}}
Charged == nextRow + Cardinality(Requesting) <= ops + 1

OnRow == {"cancel", "reprice", "flag", "unflag", "file", "refile"}

\* What a request has read so far; a purchase about to be flagged is cancelled.
JobOK(j) ==
    LET t == job[j]
    IN  /\ t.pc \notin {"idle", "detach"} =>
               t.item \in Items /\ t.user \in Users /\ t.after \in ItemState
        /\ t.row < nextRow
        /\ t.pc \in OnRow => t.row \in Ids
        /\ t.pc = "flag" => rows[t.row] = None \/ rows[t.row].desired = "cancel"

\* A reference is not used before its row is inserted.
UnusedOK == \A r \in Ids : r >= nextRow => rows[r] = None /\ fluv[r] = None

LateOK == \A l \in late : l.row \in doubtful /\ l.row < nextRow

\* The row on the wire, if it is still there, against the snapshot being sent: it
\* may have been cancelled meanwhile, and is otherwise the same.
OnTheWire(p, s) ==
    /\ p.inFlight /\ p.synced = s.synced
    /\ s.desired = "cancel" => p.desired = "cancel"
    /\ s.desired = "record" /\ p.desired = "record" => ContentOf(p) = ContentOf(s)

\* What a successful attempt left in Fluv.
Answered(p, s, c) ==
    /\ s.desired = "cancel" => c = None
    /\ s.desired = "record" /\ p.desired = "record" => c = ContentOf(p)

SenderOK ==
    sender.pc \in {"send", "finish"} =>
        LET r == sender.row
            s == sender.snap
        IN  /\ r \in Ids /\ r < nextRow
            /\ s \in Row /\ s.synced # "cancelled"
            /\ rows[r] # None =>
                /\ OnTheWire(rows[r], s)
                /\ sender.pc = "finish" /\ sender.result = "ok" /\ r \notin doubtful =>
                       Answered(rows[r], s, fluv[r])

\* What Fluv may hold of a purchase whose history was not forgotten.
Known(p, c) ==
    /\ NeverSent(p) => c = None
    /\ p.desired = "record" => c \in {None, ContentOf(p)}
    /\ p.desired = "record" /\ p.synced = "recorded" => c = ContentOf(p)
    /\ p.synced = "cancelled" => c = None

RowOK(r) ==
    rows[r] # None =>
        /\ rows[r].synced = "cancelled" => rows[r].desired = "cancel"
        /\ rows[r].skipped => rows[r].desired = "cancel"
        /\ r \notin doubtful => Known(rows[r], fluv[r])

IInv ==
    /\ TypeOK /\ Charged
    /\ \A j \in Jobs : JobOK(j)
    /\ UnusedOK /\ LateOK /\ SenderOK
    /\ \A r \in Ids : RowOK(r)

-----------------------------------------------------------------------------
\* The newest of some references is one of them: a set of numbers none of which is
\* the largest would have an endless chain of ever smaller upper parts.
LEMMA LatestIsLast ==
    ASSUME NEW ids \in SUBSET Ids, ids # {}
    PROVE  Latest(ids) \in ids /\ \A s \in ids : s <= Latest(ids)
<1> DEFINE Above(r) == {s \in ids : s > r}
           T == {Above(r) : r \in ids}
<1>0. \A s \in ids : s \in Int
  BY FluvOutboxAssumption DEF Ids
<1>1. IsFiniteSet(ids)
  <2>1. IsFiniteSet(Ids)
    BY FS_Interval, FluvOutboxAssumption DEF Ids
  <2> QED BY <2>1, FS_Subset
<1>2. T \subseteq SUBSET ids /\ T # {}
  OBVIOUS
<1>3. PICK M \in T : \A N \in T : ~ (<<N, M>> \in StrictSubsetOrdering(ids))
  <2>1. IsWellFoundedOn(StrictSubsetOrdering(ids), SUBSET ids)
    BY <1>1, FS_StrictSubsetOrderingWellFounded, FS_FiniteSubsetsOfFinite
  <2> HIDE DEF T
  <2> QED BY <1>2, <2>1, WFMin
<1>4. PICK r \in ids : M = Above(r)
  BY <1>3
<1>5. \A s \in ids : s <= r
  <2>1. SUFFICES ASSUME NEW s \in ids, s > r PROVE FALSE
    BY <1>0
  <2>2. Above(s) \in T /\ Above(s) \in SUBSET ids /\ Above(r) \in SUBSET ids
    OBVIOUS
  <2>3. Above(s) \subseteq Above(r) /\ s \in Above(r) /\ s \notin Above(s)
    BY <1>0, <2>1
  <2>4. <<Above(s), Above(r)>> \in StrictSubsetOrdering(ids)
    BY <2>2, <2>3 DEF StrictSubsetOrdering
  <2> QED BY <1>3, <1>4, <2>2, <2>4
<1> QED BY <1>5 DEF Latest

-----------------------------------------------------------------------------
\* What any step but the sender's may make of a row.
Evolves(p, q) ==
    /\ q \in Row /\ q.inFlight = p.inFlight
    /\ p.desired = "cancel" => q.desired = "cancel"
    /\ p.inFlight => q.synced = p.synced
    /\ p.inFlight /\ q.desired = "record" => ContentOf(q) = ContentOf(p)
    /\ p.synced = "cancelled" => q.synced = "cancelled"
    /\ q.synced = "cancelled" => q.desired = "cancel"
    /\ q.skipped => q.desired = "cancel"

Fresh(q) == q \in Row /\ NeverSent(q) /\ ~q.skipped

\* The outbox changes, but for what the sender does to it: rows evolve or go, and
\* one may be added at the end.
OutboxStep ==
    /\ nextRow' \in {nextRow, nextRow + 1}
    /\ \A r \in Ids : rows'[r] # None =>
        \/ /\ rows[r] # None /\ Evolves(rows[r], rows'[r])
           /\ r \notin doubtful' /\ Known(rows[r], fluv[r]) => Known(rows'[r], fluv[r])
        \/ r = nextRow /\ nextRow' = nextRow + 1 /\ Fresh(rows'[r])

RowsForward ==
    \A r \in Ids : rows[r] # None /\ rows'[r] # None =>
        /\ rows[r].desired = "cancel" => rows'[r].desired = "cancel"
        /\ rows[r].synced = "cancelled" => rows'[r].synced = "cancelled"

\* Such a step keeps all that IInv says of rows, Fluv and the sender, and of the
\* requests that did not move.
LEMMA OutboxStepKeeps ==
    ASSUME IInv, OutboxStep, UNCHANGED <<fluv, late, sender>>, doubtful \subseteq doubtful'
    PROVE  /\ UnusedOK' /\ LateOK' /\ SenderOK' /\ (\A r \in Ids : RowOK(r)')
           /\ RowsForward
           /\ \A j \in Jobs : job'[j] = job[j] => JobOK(j)'
<1>0. /\ nextRow \in Nat /\ nextRow' \in Nat /\ nextRow <= nextRow'
      /\ \A r \in Ids : r \in Nat
      /\ \A r \in Ids : rows[r] \in Row \cup {None}
  BY FluvOutboxAssumption DEF IInv, TypeOK, OutboxStep, Ids
<1>1. UnusedOK'
  BY <1>0 DEF IInv, UnusedOK, OutboxStep
<1>2. LateOK'
  <2>1. \A l \in late : l.row \in Ids
    BY DEF IInv, TypeOK
  <2> QED BY <1>0, <2>1 DEF IInv, LateOK
<1>3. ASSUME NEW r \in Ids PROVE RowOK(r)'
  <2>1. SUFFICES ASSUME rows'[r] # None
                 PROVE  /\ rows'[r].synced = "cancelled" => rows'[r].desired = "cancel"
                        /\ rows'[r].skipped => rows'[r].desired = "cancel"
                        /\ r \notin doubtful' => Known(rows'[r], fluv[r])
    BY DEF RowOK
  <2>2. CASE rows[r] # None /\ Evolves(rows[r], rows'[r])
             /\ (r \notin doubtful' /\ Known(rows[r], fluv[r]) => Known(rows'[r], fluv[r]))
    BY <2>2 DEF IInv, RowOK, Evolves
  <2>3. CASE r = nextRow /\ nextRow' = nextRow + 1 /\ Fresh(rows'[r])
    <3>1. fluv[r] = None
      BY <1>0, <2>3 DEF IInv, UnusedOK
    <3> QED BY <2>3, <3>1 DEF Fresh, Known, NeverSent
  <2> QED BY <2>1, <2>2, <2>3 DEF OutboxStep
<1>4. SenderOK'
  <2> DEFINE r == sender.row
             s == sender.snap
  <2>1. SUFFICES ASSUME sender.pc \in {"send", "finish"} PROVE SenderOK'
    BY DEF SenderOK
  <2>2. r \in Ids /\ r < nextRow /\ s \in Row /\ s.synced # "cancelled"
    BY <2>1 DEF IInv, SenderOK
  <2>3. r < nextRow' /\ r # nextRow
    BY <1>0, <2>2
  <2>4. ASSUME rows'[r] # None
        PROVE  /\ OnTheWire(rows'[r], s)
               /\ sender.pc = "finish" /\ sender.result = "ok" /\ r \notin doubtful' =>
                      Answered(rows'[r], s, fluv[r])
    <3>1. rows[r] # None /\ Evolves(rows[r], rows'[r])
      BY <2>2, <2>3, <2>4 DEF OutboxStep
    <3>2. OnTheWire(rows[r], s)
      BY <2>1, <3>1 DEF IInv, SenderOK
    <3>3. OnTheWire(rows'[r], s)
      BY <1>0, <2>2, <3>1, <3>2 DEF Evolves, OnTheWire, Row
    <3>4. ASSUME sender.pc = "finish", sender.result = "ok", r \notin doubtful'
          PROVE  Answered(rows'[r], s, fluv[r])
      <4>1. Answered(rows[r], s, fluv[r])
        BY <2>1, <3>1, <3>4 DEF IInv, SenderOK
      <4> QED BY <1>0, <2>2, <3>1, <3>2, <4>1 DEF Answered, Evolves, OnTheWire, Row
    <3> QED BY <3>3, <3>4
  <2> QED BY <2>1, <2>2, <2>3, <2>4 DEF SenderOK
<1>5. RowsForward
  <2> SUFFICES ASSUME NEW r \in Ids, rows[r] # None, rows'[r] # None
               PROVE  /\ rows[r].desired = "cancel" => rows'[r].desired = "cancel"
                      /\ rows[r].synced = "cancelled" => rows'[r].synced = "cancelled"
    BY DEF RowsForward
  <2>1. r # nextRow
    BY <1>0 DEF IInv, UnusedOK
  <2> QED BY <2>1 DEF OutboxStep, Evolves
<1>6. ASSUME NEW j \in Jobs, job'[j] = job[j] PROVE JobOK(j)'
  <2>1. JobOK(j) /\ job[j] \in Job
    BY DEF IInv, TypeOK
  <2>2. job[j].row < nextRow'
    BY <1>0, <2>1, FluvOutboxAssumption DEF JobOK, Job, Ids
  <2>3. ASSUME job[j].pc = "flag", rows'[job[j].row] # None
        PROVE  rows'[job[j].row].desired = "cancel"
    <3> DEFINE r == job[j].row
    <3>1. r \in Ids /\ (rows[r] = None \/ rows[r].desired = "cancel")
      BY <2>1, <2>3 DEF JobOK, OnRow
    <3>2. r # nextRow
      BY <1>0, <2>1, <3>1 DEF JobOK
    <3> QED BY <2>3, <3>1, <3>2 DEF OutboxStep, Evolves
  <2> QED BY <1>6, <2>1, <2>2, <2>3 DEF JobOK
<1> QED BY <1>1, <1>2, <1>3, <1>4, <1>5, <1>6

\* A row that is left alone evolves.
LEMMA RowStays ==
    ASSUME IInv, NEW r \in Ids, rows[r] # None
    PROVE  rows[r] \in Row /\ Evolves(rows[r], rows[r])
BY DEF IInv, TypeOK, RowOK, Evolves

\* A step that leaves the outbox as it is.
LEMMA OutboxStays ==
    ASSUME IInv, UNCHANGED <<rows, nextRow>>
    PROVE  OutboxStep
BY RowStays DEF OutboxStep

-----------------------------------------------------------------------------
\* The requests.

\* The requests that may still queue a purchase can be counted.
LEMMA RequestingIsFinite ==
    IsFiniteSet(Requesting) /\ Cardinality(Requesting) \in Nat
BY FS_Subset, FS_CardinalityType, FluvOutboxAssumption DEF Requesting

\* A request that may still queue a purchase has a reference left for it.
LEMMA RoomForARow ==
    ASSUME IInv, NEW j \in Requesting
    PROVE  nextRow \in Ids /\ nextRow + 1 <= MaxOps + 1
<1>1. Cardinality(Requesting \ {j}) = Cardinality(Requesting) - 1
      /\ Cardinality(Requesting \ {j}) \in Nat
  BY RequestingIsFinite, FS_RemoveElement, FS_CardinalityType
<1> QED BY <1>1, RequestingIsFinite, FluvOutboxAssumption DEF IInv, TypeOK, Charged, Ids

\* How a step of request j is charged: a new request is counted in ops, one that
\* queues a purchase is over, and no other step makes it able to queue one.
Charging(j, new) ==
    \/ ops' = ops + 1 /\ UNCHANGED nextRow
    \/ UNCHANGED <<ops, nextRow>> /\ (new.pc \in {"idle", "detach"} \/ j \in Requesting)
    \/ UNCHANGED ops /\ nextRow' = nextRow + 1 /\ new.pc = "idle" /\ j \in Requesting

\* A step of a request charged as above keeps the references within their bound.
LEMMA StepIsCharged ==
    ASSUME IInv, NEW j \in Jobs, NEW new \in Job, SetJob(j, new), Charging(j, new)
    PROVE  Charged'
<1>0. /\ job' \in [Jobs -> Job] /\ job'[j] = new
      /\ \A k \in Jobs \ {j} : job'[k] = job[k]
      /\ ops \in Nat /\ nextRow \in Nat /\ nextRow + Cardinality(Requesting) <= ops + 1
  BY FluvOutboxAssumption DEF IInv, TypeOK, Charged, SetJob
<1>1. CASE ops' = ops + 1 /\ UNCHANGED nextRow
  <2>1. Requesting' \subseteq Requesting \cup {j}
    BY <1>0 DEF Requesting
  <2>2. /\ IsFiniteSet(Requesting \cup {j})
        /\ Cardinality(Requesting \cup {j}) <= Cardinality(Requesting) + 1
    <3>1. /\ IsFiniteSet(Requesting \cup {j})
          /\ \/ Cardinality(Requesting \cup {j}) = Cardinality(Requesting)
             \/ Cardinality(Requesting \cup {j}) = Cardinality(Requesting) + 1
      BY RequestingIsFinite, FS_AddElement, Zenon
    <3> QED BY <3>1, RequestingIsFinite
  <2>3. /\ Cardinality(Requesting') <= Cardinality(Requesting \cup {j})
        /\ Cardinality(Requesting') \in Nat /\ Cardinality(Requesting \cup {j}) \in Nat
    BY <2>1, <2>2, FS_Subset, FS_CardinalityType
  <2> QED BY <1>0, <1>1, <2>2, <2>3, RequestingIsFinite DEF Charged
<1>2. CASE UNCHANGED <<ops, nextRow>> /\ (new.pc \in {"idle", "detach"} \/ j \in Requesting)
  <2>1. Requesting' \subseteq Requesting
    BY <1>0, <1>2 DEF Requesting
  <2>2. Cardinality(Requesting') <= Cardinality(Requesting) /\ Cardinality(Requesting') \in Nat
    BY <2>1, RequestingIsFinite, FS_Subset, FS_CardinalityType
  <2> QED BY <1>0, <1>2, <2>2, RequestingIsFinite DEF Charged
<1>3. CASE UNCHANGED ops /\ nextRow' = nextRow + 1 /\ new.pc = "idle" /\ j \in Requesting
  <2>1. Requesting' = Requesting \ {j}
    BY <1>0, <1>3 DEF Requesting
  <2>2. Cardinality(Requesting') = Cardinality(Requesting) - 1
    BY <1>3, <2>1, RequestingIsFinite, FS_RemoveElement
  <2> QED BY <1>0, <1>3, <2>2, RequestingIsFinite DEF Charged
<1> QED BY <1>1, <1>2, <1>3 DEF Charging

\* A request may go on as t (JobOK of the next state).
Fits(t) ==
    /\ t \in Job
    /\ t.pc \notin {"idle", "detach"} =>
           t.item \in Items /\ t.user \in Users /\ t.after \in ItemState
    /\ t.row < nextRow
    /\ t.pc \in OnRow => t.row \in Ids
    /\ t.pc = "flag" => rows'[t.row] = None \/ rows'[t.row].desired = "cancel"

\* A step of request j keeps the invariant if it is charged, does to the outbox what
\* steps do, and leaves the request with what it goes on with.
LEMMA RequestStepKeeps ==
    ASSUME IInv, NEW j \in Jobs, NEW new, SetJob(j, new), Charging(j, new), Fits(new),
           ops' \in 0 .. MaxOps, items' \in [Items -> ItemState],
           rows' \in [Ids -> Row \cup {None}], untracked' \subseteq Items \cup {None},
           UNCHANGED <<integ, sender, fluv, late, faults, doubtful>>,
           OutboxStep
    PROVE  IInv' /\ RowsForward
<1>0. new \in Job
  BY DEF Fits
<1>1. Charged'
  BY <1>0, StepIsCharged
<1>2. job' \in [Jobs -> Job] /\ job'[j] = new /\ \A k \in Jobs \ {j} : job'[k] = job[k]
  BY <1>0 DEF IInv, TypeOK, SetJob
<1>3. nextRow' \in 1 .. MaxOps + 1
  <2>1. nextRow \in 1 .. MaxOps + 1
    BY DEF IInv, TypeOK
  <2>2. CASE nextRow' = nextRow
    BY <2>1, <2>2
  <2>3. CASE nextRow' = nextRow + 1 /\ j \in Requesting
    BY <2>1, <2>3, RoomForARow, FluvOutboxAssumption
  <2> QED BY <2>2, <2>3 DEF Charging
<1>4. TypeOK'
  BY <1>2, <1>3 DEF IInv, TypeOK
<1>5. /\ UnusedOK' /\ LateOK' /\ SenderOK' /\ (\A r \in Ids : RowOK(r)')
      /\ RowsForward
      /\ \A k \in Jobs : job'[k] = job[k] => JobOK(k)'
  BY OutboxStepKeeps
<1>6. JobOK(j)'
  <2>1. nextRow \in Nat /\ nextRow' \in Nat /\ nextRow <= nextRow' /\ new.row \in Int
    BY <1>0, FluvOutboxAssumption DEF IInv, TypeOK, OutboxStep, Job, Ids
  <2> QED BY <1>2, <2>1 DEF JobOK, Fits
<1>7. \A k \in Jobs : JobOK(k)'
  BY <1>2, <1>5, <1>6
<1> QED BY <1>1, <1>4, <1>5, <1>7 DEF IInv

-----------------------------------------------------------------------------
\* What each statement makes of a row.

Sound(p) ==
    /\ p \in Row
    /\ p.synced = "cancelled" => p.desired = "cancel"
    /\ p.skipped => p.desired = "cancel"

\* q may take the place of p, whatever Fluv holds.
Replaces(q, p) == Evolves(p, q) /\ \A c : Known(p, c) => Known(q, c)

\* What every row of the outbox is, by the invariant.
LEMMA RowsAreSound ==
    ASSUME IInv, NEW r \in Ids, rows[r] # None
    PROVE  Sound(rows[r])
BY DEF IInv, TypeOK, RowOK, Sound

\* CancelFluvPurchase.
LEMMA CancelledReplaces ==
    ASSUME NEW p, Sound(p)
    PROVE  Replaces(Cancelled(p), p) /\ Cancelled(p).desired = "cancel"
<1>1. p # None /\ p \in Row
  BY FluvOutboxAssumption DEF Sound
<1>2. CASE p.desired = "cancel"
  BY <1>1, <1>2 DEF Sound, Replaces, Cancelled, Evolves
<1>3. CASE p.desired # "cancel" /\ NeverSent(p)
  <2> DEFINE q == [p EXCEPT !.synced = "cancelled", !.desired = "cancel",
                            !.failed = FALSE, !.attempts = 0]
  <2>1. Cancelled(p) = q
    BY <1>1, <1>3 DEF Cancelled
  <2>2. /\ q \in Row /\ q.desired = "cancel" /\ q.synced = "cancelled"
        /\ q.inFlight = p.inFlight /\ ~p.inFlight
    BY <1>1, <1>3 DEF Row, NeverSent
  <2>3. \A c : Known(p, c) => Known(q, c)
    BY <1>3, <2>2 DEF Known, NeverSent
  <2> HIDE DEF q
  <2>4. Evolves(p, q)
    BY <2>2 DEF Evolves
  <2> QED BY <2>1, <2>2, <2>3, <2>4 DEF Replaces
<1>4. CASE p.desired # "cancel" /\ ~NeverSent(p)
  <2> DEFINE q == [p EXCEPT !.synced = p.synced, !.desired = "cancel",
                            !.failed = FALSE, !.attempts = 0]
  <2>1. Cancelled(p) = q
    BY <1>1, <1>4 DEF Cancelled
  <2>2. /\ q \in Row /\ q.desired = "cancel" /\ q.synced = p.synced
        /\ q.inFlight = p.inFlight /\ p.synced # "cancelled"
    BY <1>1, <1>4 DEF Row, Sound
  <2>3. \A c : Known(p, c) => Known(q, c)
    BY <2>2 DEF Known, NeverSent
  <2> HIDE DEF q
  <2>4. Evolves(p, q)
    BY <2>2 DEF Evolves
  <2> QED BY <2>1, <2>2, <2>3, <2>4 DEF Replaces
<1> QED BY <1>2, <1>3, <1>4

\* RepriceUnsentFluvPurchase, SetFluvPurchaseAccount: what was never sent may change.
LEMMA RepricedReplaces ==
    ASSUME NEW p, Sound(p), NeverSent(p), NEW amount \in Costs
    PROVE  Replaces([p EXCEPT !.amount = amount], p)
<1> DEFINE q == [p EXCEPT !.amount = amount]
<1>1. /\ q \in Row /\ q.desired = p.desired /\ q.synced = p.synced /\ q.attempts = p.attempts
      /\ q.inFlight = p.inFlight /\ q.skipped = p.skipped /\ ~p.inFlight
  BY DEF Sound, Row, NeverSent
<1> HIDE DEF q
<1>2. Evolves(p, q) /\ \A c : Known(p, c) => Known(q, c)
  BY <1>1 DEF Evolves, Known, NeverSent, Sound
<1> QED BY <1>2 DEF Replaces, q

\* A row refiled in another account, if it may be, is one step of a purchase.
LEMMA RefiledReplaces ==
    ASSUME NEW p, Sound(p), NeverSent(p) \/ p.skipped, NEW account \in Accounts
    PROVE  Replaces([p EXCEPT !.account = account], p)
<1> DEFINE q == [p EXCEPT !.account = account]
<1>1. /\ q \in Row /\ q.desired = p.desired /\ q.synced = p.synced /\ q.attempts = p.attempts
      /\ q.inFlight = p.inFlight /\ q.skipped = p.skipped
      /\ p.desired = "cancel" \/ ~p.inFlight
  BY DEF Sound, Row, NeverSent
<1> HIDE DEF q
<1>2. Evolves(p, q) /\ \A c : Known(p, c) => Known(q, c)
  BY <1>1 DEF Evolves, Known, NeverSent, Sound
<1> QED BY <1>2 DEF Replaces, q

\* SetFluvPurchaseSkipped, ClearFluvSkips: only what is cancelled may be flagged.
LEMMA FlaggedReplaces ==
    ASSUME NEW p, Sound(p), NEW skipped \in BOOLEAN, skipped => p.desired = "cancel"
    PROVE  Replaces([p EXCEPT !.skipped = skipped], p)
<1> DEFINE q == [p EXCEPT !.skipped = skipped]
<1>1. /\ q \in Row /\ q.desired = p.desired /\ q.synced = p.synced /\ q.attempts = p.attempts
      /\ q.inFlight = p.inFlight /\ q.skipped = skipped
      /\ q.amount = p.amount /\ q.account = p.account
  BY DEF Sound, Row
<1> HIDE DEF q
<1>2. Evolves(p, q) /\ \A c : Known(p, c) => Known(q, c)
  BY <1>1 DEF Evolves, Known, NeverSent, Sound, ContentOf
<1> QED BY <1>2 DEF Replaces, q

\* detachFluvPurchases, ON DELETE SET NULL.
LEMMA DetachedReplaces ==
    ASSUME NEW p, Sound(p)
    PROVE  Replaces([p EXCEPT !.item = None], p)
<1> DEFINE q == [p EXCEPT !.item = None]
<1>1. /\ q \in Row /\ q.desired = p.desired /\ q.synced = p.synced /\ q.attempts = p.attempts
      /\ q.inFlight = p.inFlight /\ q.skipped = p.skipped
      /\ q.amount = p.amount /\ q.account = p.account
  BY DEF Sound, Row
<1> HIDE DEF q
<1>2. Evolves(p, q) /\ \A c : Known(p, c) => Known(q, c)
  BY <1>1 DEF Evolves, Known, NeverSent, Sound, ContentOf
<1> QED BY <1>2 DEF Replaces, q

\* RetryFailedFluvPurchases: what it forgets matters to a purchase to record only.
LEMMA RetriedEvolves ==
    ASSUME NEW p, Sound(p)
    PROVE  LET q == [p EXCEPT !.failed = FALSE, !.attempts = 0]
           IN  Evolves(p, q) /\ (p.desired # "record" => Replaces(q, p))
<1> DEFINE q == [p EXCEPT !.failed = FALSE, !.attempts = 0]
<1>1. /\ q \in Row /\ q.desired = p.desired /\ q.synced = p.synced
      /\ q.inFlight = p.inFlight /\ q.skipped = p.skipped
      /\ q.amount = p.amount /\ q.account = p.account
  BY DEF Sound, Row
<1> HIDE DEF q
<1>2. Evolves(p, q)
  BY <1>1 DEF Evolves, Sound, ContentOf
<1>3. ASSUME p.desired # "record" PROVE \A c : Known(p, c) => Known(q, c)
  BY <1>1, <1>3 DEF Known, NeverSent
<1> QED BY <1>2, <1>3 DEF Replaces, q

\* One row is replaced, if it is still there.
LEMMA OneRowStep ==
    ASSUME IInv, UNCHANGED <<nextRow, doubtful>>, NEW r \in Ids, NEW q,
           rows' = [rows EXCEPT ![r] = q],
           rows[r] = None => q = None,
           rows[r] # None => Replaces(q, rows[r])
    PROVE  OutboxStep /\ rows' \in [Ids -> Row \cup {None}]
<1>1. rows \in [Ids -> Row \cup {None}]
  BY DEF IInv, TypeOK
<1>2. q \in Row \cup {None}
  BY DEF Replaces, Evolves
<1>3. ASSUME NEW k \in Ids, rows'[k] # None
      PROVE  /\ rows[k] # None /\ Evolves(rows[k], rows'[k])
             /\ Known(rows[k], fluv[k]) => Known(rows'[k], fluv[k])
  <2>1. CASE k = r
    BY <1>1, <1>3, <2>1 DEF Replaces
  <2>2. CASE k # r
    BY <1>1, <1>3, <2>2, RowStays
  <2> QED BY <2>1, <2>2
<1> QED BY <1>1, <1>2, <1>3 DEF OutboxStep

\* Rows are replaced or go.
LEMMA RowsStep ==
    ASSUME IInv, UNCHANGED nextRow, doubtful' = doubtful, NEW f,
           rows' = [r \in Ids |-> f[r]],
           \A r \in Ids : \/ f[r] = None \/ f[r] = rows[r]
                          \/ rows[r] # None /\ Replaces(f[r], rows[r])
    PROVE  OutboxStep /\ rows' \in [Ids -> Row \cup {None}]
<1>1. ASSUME NEW r \in Ids, rows'[r] # None
      PROVE  /\ rows[r] # None /\ Evolves(rows[r], rows'[r]) /\ rows'[r] \in Row
             /\ Known(rows[r], fluv[r]) => Known(rows'[r], fluv[r])
  BY <1>1, RowStays DEF Replaces, Evolves
<1> QED BY <1>1 DEF OutboxStep

-----------------------------------------------------------------------------
\* The actions of a request.

\* A request that is over holds nothing that could be wrong.
LEMMA IdleFits ==
    ASSUME IInv
    PROVE  Fits(IdleJob) /\ IdleJob.pc = "idle"
BY FluvOutboxAssumption DEF Fits, IdleJob, Job, OnRow, IInv, TypeOK

\* What is known of a request at work.
LEMMA AtWork ==
    ASSUME IInv, NEW j \in Jobs, job[j].pc \notin {"idle", "detach"}
    PROVE  /\ job[j] \in Job /\ j \in Requesting
           /\ job[j].item \in Items /\ job[j].user \in Users /\ job[j].after \in ItemState
           /\ job[j].row < nextRow
           /\ CostOf(job[j].after) \in Costs
BY FluvOutboxAssumption DEF IInv, TypeOK, JobOK, Requesting, CostOf, ItemState

\* A row that is there was inserted before.
LEMMA RowInIds ==
    ASSUME IInv, NEW r \in Ids, rows[r] # None
    PROVE  r < nextRow
BY FluvOutboxAssumption DEF IInv, TypeOK, UnusedOK, Ids

\* PATCH of an item reads it.
LEMMA ReadItemKeeps ==
    ASSUME IInv, NEW j \in Jobs, ReadItem(j)
    PROVE  IInv' /\ RowsForward
<1>1. PICK i \in Items, u \in Users, it \in ItemState :
          SetJob(j, [IdleJob EXCEPT !.pc = "write", !.item = i, !.user = u,
                                    !.before = items[i], !.after = it])
  BY DEF ReadItem
<1> DEFINE new == [IdleJob EXCEPT !.pc = "write", !.item = i, !.user = u,
                                  !.before = items[i], !.after = it]
<1>2. new \in Job /\ new.pc = "write" /\ Fits(new)
  BY IdleFits DEF Fits, IdleJob, Job, OnRow, IInv, TypeOK
<1>3. ops' \in 0 .. MaxOps /\ ops' = ops + 1
  BY FluvOutboxAssumption DEF ReadItem, IInv, TypeOK
<1>4. OutboxStep
  BY OutboxStays DEF ReadItem, outbox
<1> HIDE DEF new
<1>5. SetJob(j, new) /\ Charging(j, new)
  BY <1>1, <1>3 DEF new, Charging, ReadItem, outbox
<1> QED BY <1>2, <1>3, <1>4, <1>5, RequestStepKeeps
        DEF ReadItem, outbox, ghosts, IInv, TypeOK

\* It writes it, and has nothing of the outbox yet.
LEMMA WriteItemKeeps ==
    ASSUME IInv, NEW j \in Jobs, WriteItem(j)
    PROVE  IInv' /\ RowsForward
<1> DEFINE i == job[j].item
           paid == IF job[j].after.paid # job[j].before.paid THEN job[j].after.paid
                   ELSE items[i].paid
           it == [done |-> job[j].after.done, paid |-> paid]
           pc == Notice(job[j].before, it)
           new == IF pc = "idle" THEN IdleJob ELSE [job[j] EXCEPT !.pc = pc, !.after = it]
<1>1. job[j].pc \notin {"idle", "detach"}
  BY DEF WriteItem
<1>2. it \in ItemState /\ i \in Items
  BY <1>1, AtWork DEF IInv, TypeOK, ItemState
<1>3. pc \in {"record", "uncheck", "correct", "idle"}
  BY DEF Notice
<1>4. Fits(new)
  <2>1. CASE pc = "idle"
    BY <2>1, IdleFits
  <2>2. CASE pc # "idle"
    <3> HIDE DEF pc, it
    <3> QED BY <1>1, <1>2, <1>3, <2>2, AtWork DEF Fits, Job, OnRow
  <2> QED BY <2>1, <2>2
<1>5. SetJob(j, new) /\ items' \in [Items -> ItemState]
  BY <1>2 DEF WriteItem, IInv, TypeOK
<1>6. Charging(j, new)
  BY <1>1, AtWork DEF Charging, WriteItem, outbox
<1>7. OutboxStep
  BY OutboxStays DEF WriteItem, outbox
<1> HIDE DEF new
<1> QED BY <1>4, <1>5, <1>6, <1>7, RequestStepKeeps
        DEF WriteItem, outbox, ghosts, IInv, TypeOK

\* A purchase is queued.
LEMMA InsertRowStep ==
    ASSUME IInv, NEW j \in Jobs, job[j].pc \notin {"idle", "detach"}, InsertRow(j),
           UNCHANGED doubtful
    PROVE  /\ OutboxStep /\ rows' \in [Ids -> Row \cup {None}]
           /\ untracked' \subseteq Items \cup {None} /\ nextRow' = nextRow + 1
<1>1. j \in Requesting /\ nextRow \in Ids
  BY AtWork, RoomForARow
<1>2. Fresh(NewRow(j))
  BY AtWork, FluvOutboxAssumption DEF NewRow, Fresh, NeverSent, Row, Job
<1>3. rows \in [Ids -> Row \cup {None}] /\ untracked \subseteq Items \cup {None}
  BY DEF IInv, TypeOK
<1>4. rows' \in [Ids -> Row \cup {None}]
  BY <1>2, <1>3 DEF InsertRow, Fresh
<1>5. ASSUME NEW r \in Ids, rows'[r] # None
      PROVE  \/ /\ rows[r] # None /\ Evolves(rows[r], rows'[r])
                /\ r \notin doubtful' /\ Known(rows[r], fluv[r]) => Known(rows'[r], fluv[r])
             \/ r = nextRow /\ nextRow' = nextRow + 1 /\ Fresh(rows'[r])
  <2>1. CASE r = nextRow
    BY <1>2, <1>3, <2>1 DEF InsertRow
  <2>2. CASE r # nextRow
    BY <1>3, <1>5, <2>2, RowStays DEF InsertRow
  <2> QED BY <2>1, <2>2
<1> QED BY <1>3, <1>4, <1>5 DEF OutboxStep, InsertRow

\* A purchase queued for who checked the item off.
LEMMA RecordPurchaseKeeps ==
    ASSUME IInv, NEW j \in Jobs, RecordPurchase(j)
    PROVE  IInv' /\ RowsForward
<1>1. job[j].pc \notin {"idle", "detach"} /\ SetJob(j, IdleJob)
  BY DEF RecordPurchase, Goto
<1>2. j \in Requesting /\ job[j].item \in Items
  BY <1>1, AtWork
<1>3. CASE InsertRow(j)
  <2>1. Charging(j, IdleJob)
    BY <1>1, <1>2, <1>3, IdleFits DEF Charging, RecordPurchase, OnOutbox, InsertRow
  <2> QED BY <1>1, <1>3, <2>1, IdleFits, InsertRowStep, RequestStepKeeps
          DEF RecordPurchase, OnOutbox, IInv, TypeOK
<1>4. CASE UNCHANGED outbox /\ untracked' \subseteq untracked \cup {job[j].item}
  <2>1. Charging(j, IdleJob)
    BY <1>4, IdleFits DEF Charging, RecordPurchase, OnOutbox, outbox
  <2>2. OutboxStep
    BY <1>4, OutboxStays DEF outbox
  <2> QED BY <1>1, <1>2, <1>4, <2>1, <2>2, IdleFits, RequestStepKeeps
          DEF RecordPurchase, OnOutbox, outbox, IInv, TypeOK
<1> QED BY <1>3, <1>4 DEF RecordPurchase

\* A purchase queued again: under a reference of its own.
LEMMA InsertPurchaseKeeps ==
    ASSUME IInv, NEW j \in Jobs, InsertPurchase(j)
    PROVE  IInv' /\ RowsForward
<1>1. job[j].pc \notin {"idle", "detach"} /\ SetJob(j, IdleJob)
  BY DEF InsertPurchase, Goto
<1>2. j \in Requesting
  BY <1>1, AtWork
<1>3. CASE InsertRow(j)
  <2>1. Charging(j, IdleJob)
    BY <1>2, <1>3, IdleFits DEF Charging, InsertPurchase, OnOutbox, InsertRow
  <2> QED BY <1>1, <1>3, <2>1, IdleFits, InsertRowStep, RequestStepKeeps
          DEF InsertPurchase, OnOutbox, IInv, TypeOK
<1>4. CASE UNCHANGED <<outbox, untracked>>
  <2>1. Charging(j, IdleJob)
    BY <1>4, IdleFits DEF Charging, InsertPurchase, OnOutbox, outbox
  <2>2. OutboxStep
    BY <1>4, OutboxStays DEF outbox
  <2> QED BY <1>1, <1>4, <2>1, <2>2, IdleFits, RequestStepKeeps
          DEF InsertPurchase, OnOutbox, outbox, IInv, TypeOK
<1> QED BY <1>3, <1>4 DEF InsertPurchase

\* An un-check clears the skips, of rows that are cancelled.
LEMMA UncheckKeeps ==
    ASSUME IInv, NEW j \in Jobs, Uncheck(j)
    PROVE  IInv' /\ RowsForward
<1> DEFINE new == [job[j] EXCEPT !.pc = "lookup"]
           f == [r \in Ids |-> IF r \in RowsOf(job[j].item)
                               THEN [rows[r] EXCEPT !.skipped = FALSE] ELSE rows[r]]
<1>1. job[j].pc \notin {"idle", "detach"} /\ SetJob(j, new)
  BY DEF Uncheck, Goto
<1>2. OutboxStep /\ rows' \in [Ids -> Row \cup {None}]
  <2>1. ASSUME NEW r \in Ids
        PROVE  \/ f[r] = None \/ f[r] = rows[r]
               \/ rows[r] # None /\ Replaces(f[r], rows[r])
    BY FlaggedReplaces, RowsAreSound DEF RowsOf
  <2>2. rows' = [r \in Ids |-> f[r]] /\ UNCHANGED nextRow /\ doubtful' = doubtful
    BY DEF Uncheck, OnOutbox
  <2> HIDE DEF f
  <2> QED BY <2>1, <2>2, RowsStep
<1>3. Fits(new)
  BY <1>1, AtWork DEF Fits, Job, OnRow
<1>4. Charging(j, new)
  BY <1>1, AtWork DEF Charging, Uncheck, OnOutbox
<1> HIDE DEF new
<1> QED BY <1>1, <1>2, <1>3, <1>4, RequestStepKeeps DEF Uncheck, OnOutbox, IInv, TypeOK

\* The current purchase is looked up.
LEMMA LookUpKeeps ==
    ASSUME IInv, NEW j \in Jobs, LookUp(j)
    PROVE  IInv' /\ RowsForward
<1> DEFINE active == ActiveRows(job[j].item)
           new == IF active = {} THEN IdleJob
                  ELSE [job[j] EXCEPT !.pc = "cancel", !.row = Latest(active)]
<1>1. job[j].pc \notin {"idle", "detach"} /\ SetJob(j, new)
  BY DEF LookUp
<1>2. Fits(new)
  <2>1. CASE active = {}
    BY <2>1, IdleFits
  <2>2. CASE active # {}
    <3>1. Latest(active) \in Ids /\ rows[Latest(active)] # None
      BY <2>2, LatestIsLast DEF ActiveRows, RowsOf
    <3>2. Latest(active) < nextRow
      BY <3>1, RowInIds
    <3> HIDE DEF active
    <3> QED BY <1>1, <2>2, <3>1, <3>2, AtWork DEF Fits, Job, OnRow
  <2> QED BY <2>1, <2>2
<1>3. Charging(j, new) /\ OutboxStep
  BY <1>1, AtWork, OutboxStays DEF Charging, LookUp, OnOutbox, outbox
<1> HIDE DEF new
<1> QED BY <1>1, <1>2, <1>3, RequestStepKeeps DEF LookUp, OnOutbox, outbox, IInv, TypeOK

\* It is cancelled: on the spot if it was never sent.
LEMMA CancelPurchaseKeeps ==
    ASSUME IInv, NEW j \in Jobs, CancelPurchase(j)
    PROVE  IInv' /\ RowsForward
<1> DEFINE r == job[j].row
           then == job[j].then
           new == IF then = "idle" THEN IdleJob ELSE [job[j] EXCEPT !.pc = then]
<1>1. job[j].pc = "cancel" /\ SetJob(j, new) /\ rows \in [Ids -> Row \cup {None}]
  BY DEF CancelPurchase, Goto, IInv, TypeOK
<1>2. r \in Ids /\ r < nextRow /\ job[j] \in Job
  BY <1>1 DEF IInv, TypeOK, JobOK, OnRow
<1>3. rows' = [rows EXCEPT ![r] = Cancelled(rows[r])]
  BY DEF CancelPurchase
<1>4. /\ rows[r] = None => Cancelled(rows[r]) = None
      /\ rows[r] # None => /\ Replaces(Cancelled(rows[r]), rows[r])
                           /\ Cancelled(rows[r]).desired = "cancel"
  BY <1>2, CancelledReplaces, RowsAreSound DEF Cancelled
<1>5. OutboxStep /\ rows' \in [Ids -> Row \cup {None}]
  BY <1>2, <1>3, <1>4, OneRowStep DEF CancelPurchase, OnOutbox
<1>6. Fits(new)
  <2>1. CASE then = "idle"
    BY <2>1, IdleFits
  <2>2. CASE then # "idle"
    <3>1. then \in {"insert", "flag"}
      BY <1>2, <2>2 DEF Job
    <3>2. new \in Job /\ new.pc = then /\ new.row = r
      BY <1>2, <2>2, <3>1 DEF Job
    <3>3. rows'[r] = None \/ rows'[r].desired = "cancel"
      BY <1>1, <1>2, <1>3, <1>4
    <3>4. new.item \in Items /\ new.user \in Users /\ new.after \in ItemState
      BY <1>1, <1>2, <2>2, AtWork DEF Job
    <3> HIDE DEF new
    <3> QED BY <1>2, <3>1, <3>2, <3>3, <3>4 DEF Fits, OnRow
  <2> QED BY <2>1, <2>2
<1>7. Charging(j, new)
  BY <1>1, AtWork DEF Charging, CancelPurchase, OnOutbox
<1> HIDE DEF new
<1> QED BY <1>1, <1>5, <1>6, <1>7, RequestStepKeeps
        DEF CancelPurchase, OnOutbox, IInv, TypeOK

\* A correction looks it up too.
LEMMA CorrectKeeps ==
    ASSUME IInv, NEW j \in Jobs, Correct(j)
    PROVE  IInv' /\ RowsForward
<1> DEFINE active == ActiveRows(job[j].item)
           r == Latest(active)
<1>1. job[j].pc \notin {"idle", "detach"}
  BY DEF Correct
<1>2. PICK new :
          /\ SetJob(j, new)
          /\ \/ new = IdleJob
             \/ new = [job[j] EXCEPT !.pc = "record"]
             \/ new = [job[j] EXCEPT !.pc = "lookup"]
             \/ active # {} /\ new = [job[j] EXCEPT !.pc = "reprice", !.row = r,
                                        !.user = rows[r].user, !.account = rows[r].account]
  BY DEF Correct
<1>3. ASSUME active # {}
      PROVE  r \in Ids /\ r < nextRow /\ rows[r] \in Row
  <2>1. r \in Ids /\ rows[r] # None
    BY <1>3, LatestIsLast DEF ActiveRows, RowsOf
  <2> QED BY <2>1, RowInIds, RowStays
<1>4. Fits(new)
  <2> HIDE DEF active, r
  <2>1. CASE new = IdleJob
    BY <2>1, IdleFits
  <2>2. CASE new = [job[j] EXCEPT !.pc = "record"]
    BY <1>1, <2>2, AtWork DEF Fits, Job, OnRow
  <2>3. CASE new = [job[j] EXCEPT !.pc = "lookup"]
    BY <1>1, <2>3, AtWork DEF Fits, Job, OnRow
  <2>4. CASE active # {} /\ new = [job[j] EXCEPT !.pc = "reprice", !.row = r,
                                     !.user = rows[r].user, !.account = rows[r].account]
    <3>1. rows[r].user \in Users /\ rows[r].account \in Accounts
      BY <1>3, <2>4 DEF Row
    <3>2. /\ new \in Job /\ new.pc = "reprice" /\ new.row = r /\ new.item = job[j].item
          /\ new.user = rows[r].user /\ new.after = job[j].after
      BY <1>1, <1>3, <2>4, <3>1, AtWork DEF Job
    <3> QED BY <1>1, <1>3, <2>4, <3>1, <3>2, AtWork DEF Fits, OnRow
  <2> QED BY <1>2, <2>1, <2>2, <2>3, <2>4
<1>5. Charging(j, new)
  BY <1>1, AtWork DEF Charging, Correct, OnOutbox, outbox
<1>6. OutboxStep
  BY OutboxStays DEF Correct, OnOutbox, outbox
<1> QED BY <1>2, <1>4, <1>5, <1>6, RequestStepKeeps
        DEF Correct, OnOutbox, outbox, IInv, TypeOK

\* It is repriced in place only while it was never sent.
LEMMA RepriceKeeps ==
    ASSUME IInv, NEW j \in Jobs, Reprice(j)
    PROVE  IInv' /\ RowsForward
<1> DEFINE r == job[j].row
           amount == CostOf(job[j].after)
           again == [job[j] EXCEPT !.pc = "cancel", !.then = "insert"]
<1>1. job[j].pc = "reprice" /\ r \in Ids /\ job[j] \in Job
  BY DEF Reprice, IInv, TypeOK, JobOK, OnRow
<1>2. amount \in Costs /\ rows \in [Ids -> Row \cup {None}]
  BY <1>1, AtWork DEF IInv, TypeOK
<1>3. CASE CanReprice(rows[r])
  <2>1. SetJob(j, IdleJob) /\ Charging(j, IdleJob)
    BY <1>3, IdleFits DEF Reprice, Goto, Charging, OnOutbox
  <2>2. rows' = [rows EXCEPT ![r] = [rows[r] EXCEPT !.amount = amount]]
    BY <1>1, <1>2, <1>3 DEF Reprice
  <2>3. rows[r] # None /\ Replaces([rows[r] EXCEPT !.amount = amount], rows[r])
    BY <1>1, <1>2, <1>3, RepricedReplaces, RowsAreSound DEF CanReprice
  <2>4. OutboxStep /\ rows' \in [Ids -> Row \cup {None}]
    BY <1>1, <2>2, <2>3, OneRowStep DEF Reprice, OnOutbox
  <2> QED BY <2>1, <2>4, IdleFits, RequestStepKeeps DEF Reprice, OnOutbox, IInv, TypeOK
<1>4. CASE ~CanReprice(rows[r])
  <2>1. SetJob(j, again) /\ UNCHANGED rows
    BY <1>4 DEF Reprice
  <2>2. Fits(again)
    BY <1>1, AtWork DEF Fits, Job, OnRow
  <2>3. Charging(j, again)
    BY <1>1, AtWork DEF Charging, Reprice, OnOutbox
  <2>4. OutboxStep
    BY <2>1, OutboxStays DEF Reprice
  <2> HIDE DEF again
  <2> QED BY <1>2, <2>1, <2>2, <2>3, <2>4, RequestStepKeeps DEF Reprice, OnOutbox, IInv, TypeOK
<1> QED BY <1>3, <1>4

\* The buyer's options look up the latest purchase.
LEMMA ReadPurchaseKeeps ==
    ASSUME IInv, NEW j \in Jobs, ReadPurchase(j)
    PROVE  IInv' /\ RowsForward
<1> DEFINE At(i, account, pc, then) ==
             [IdleJob EXCEPT !.pc = pc, !.item = i, !.user = rows[Latest(RowsOf(i))].user,
                             !.row = Latest(RowsOf(i)), !.after = items[i],
                             !.account = account, !.then = then]
<1>1. PICK i \in Items, account \in Accounts, skip \in BOOLEAN :
        /\ items[i].done /\ RowsOf(i) # {}
        /\ rows[Latest(RowsOf(i))].desired = "record" \/ rows[Latest(RowsOf(i))].skipped
        /\ LET p == rows[Latest(RowsOf(i))]
           IN  SetJob(j, CASE p.skipped /\ skip -> At(i, account, "file", "idle")
                           [] ~p.skipped /\ skip -> At(i, account, "cancel", "flag")
                           [] p.skipped /\ ~skip -> At(i, account, "unflag", "insert")
                           [] OTHER -> IF p.account = account THEN IdleJob
                                       ELSE At(i, account, "refile", "idle"))
  BY DEF ReadPurchase
<1> DEFINE r == Latest(RowsOf(i))
<1>2. r \in Ids /\ rows[r] # None /\ r < nextRow /\ rows[r] \in Row
  <2>1. r \in Ids /\ rows[r] # None
    BY <1>1, LatestIsLast DEF RowsOf
  <2> QED BY <2>1, RowInIds, RowStays
<1>3. ASSUME NEW pc \in OnRow \ {"flag"}, NEW then \in {"idle", "insert", "flag"}
      PROVE  Fits(At(i, account, pc, then))
  <2>1. rows[r].user \in Users /\ items[i] \in ItemState
    BY <1>2 DEF Row, IInv, TypeOK
  <2> DEFINE new == At(i, account, pc, then)
  <2>2. /\ new \in Job /\ new.pc = pc /\ new.item = i /\ new.user = rows[r].user
        /\ new.row = r /\ new.after = items[i]
    <3> HIDE DEF r
    <3>1. IdleJob \in Job
      BY IdleFits DEF Fits
    <3>2. new = [IdleJob EXCEPT !.pc = pc, !.item = i, !.user = rows[r].user, !.row = r,
                                !.after = items[i], !.account = account, !.then = then]
      BY DEF r
    <3> HIDE DEF new
    <3> QED BY <1>2, <2>1, <3>1, <3>2 DEF Job, OnRow
  <2> HIDE DEF new, r
  <2>3. Fits(new)
    BY <1>2, <2>1, <2>2 DEF Fits, OnRow
  <2> QED BY <2>3 DEF new
<1>4. PICK new : SetJob(j, new) /\ Fits(new)
  <2>1. /\ Fits(At(i, account, "file", "idle")) /\ Fits(At(i, account, "cancel", "flag"))
        /\ Fits(At(i, account, "unflag", "insert")) /\ Fits(At(i, account, "refile", "idle"))
    BY <1>3 DEF OnRow
  <2>2. \E new \in {At(i, account, "file", "idle"), At(i, account, "cancel", "flag"),
                    At(i, account, "unflag", "insert"), IdleJob,
                    At(i, account, "refile", "idle")} : SetJob(j, new)
    <3> DEFINE p == rows[r]
    <3>1. CASE p.skipped /\ skip
      BY <1>1, <3>1
    <3>2. CASE ~p.skipped /\ skip
      BY <1>1, <3>2
    <3>3. CASE p.skipped /\ ~skip
      BY <1>1, <3>3
    <3>4. CASE ~p.skipped /\ ~skip
      BY <1>1, <3>4
    <3> QED BY <3>1, <3>2, <3>3, <3>4
  <2> HIDE DEF At
  <2> QED BY <2>1, <2>2, IdleFits
<1>5. ops' = ops + 1 /\ ops' \in 0 .. MaxOps
  BY FluvOutboxAssumption DEF ReadPurchase, IInv, TypeOK
<1>6. Charging(j, new) /\ OutboxStep
  BY <1>5, OutboxStays DEF Charging, ReadPurchase, outbox
<1> QED BY <1>4, <1>5, <1>6, RequestStepKeeps DEF ReadPurchase, outbox, ghosts, IInv, TypeOK

\* A purchase flagged to stay out of Fluv is cancelled already.
LEMMA FlagSkippedKeeps ==
    ASSUME IInv, NEW j \in Jobs, FlagSkipped(j)
    PROVE  IInv' /\ RowsForward
<1> DEFINE r == job[j].row
           pc == IF job[j].pc = "flag" THEN "file" ELSE "insert"
           new == [job[j] EXCEPT !.pc = pc]
           q == [rows[r] EXCEPT !.skipped = (job[j].pc = "flag")]
<1>1. /\ job[j].pc \in {"flag", "unflag"} /\ SetJob(j, new)
      /\ rows \in [Ids -> Row \cup {None}]
  BY DEF FlagSkipped, Goto, IInv, TypeOK
<1>2. r \in Ids /\ job[j] \in Job
      /\ (job[j].pc = "flag" => rows[r] = None \/ rows[r].desired = "cancel")
  BY <1>1 DEF IInv, TypeOK, JobOK, OnRow
<1>3. OutboxStep /\ rows' \in [Ids -> Row \cup {None}]
  <2>1. CASE rows[r] = None
    <3>1. UNCHANGED <<rows, nextRow>>
      BY <2>1 DEF FlagSkipped
    <3> QED BY <1>1, <3>1, OutboxStays
  <2>2. CASE rows[r] # None
    <3>1. rows' = [rows EXCEPT ![r] = q]
      BY <1>1, <2>2 DEF FlagSkipped
    <3>2. Replaces(q, rows[r])
      BY <1>2, <2>2, FlaggedReplaces, RowsAreSound
    <3> HIDE DEF q
    <3> QED BY <1>2, <2>2, <3>1, <3>2, OneRowStep DEF FlagSkipped, OnOutbox
  <2> QED BY <2>1, <2>2
<1>4. Fits(new)
  BY <1>1, <1>2, AtWork DEF Fits, Job, OnRow
<1>5. Charging(j, new)
  BY <1>1, AtWork DEF Charging, FlagSkipped, OnOutbox
<1> HIDE DEF new
<1> QED BY <1>1, <1>3, <1>4, <1>5, RequestStepKeeps DEF FlagSkipped, OnOutbox, IInv, TypeOK

\* A purchase is filed elsewhere in place only while it may be.
LEMMA FilePurchaseKeeps ==
    ASSUME IInv, NEW j \in Jobs, FilePurchase(j)
    PROVE  IInv' /\ RowsForward
<1> DEFINE r == job[j].row
           q == [rows[r] EXCEPT !.account = job[j].account]
           again == [job[j] EXCEPT !.pc = "cancel", !.then = "insert"]
           new == IF job[j].pc = "file" \/ CanRefile(rows[r]) THEN IdleJob ELSE again
<1>1. /\ job[j].pc \in {"file", "refile"} /\ SetJob(j, new)
      /\ rows \in [Ids -> Row \cup {None}]
  BY DEF FilePurchase, IInv, TypeOK
<1>2. r \in Ids /\ job[j] \in Job /\ job[j].account \in Accounts
  BY <1>1 DEF IInv, TypeOK, JobOK, OnRow, Job
<1>3. OutboxStep /\ rows' \in [Ids -> Row \cup {None}]
  <2>1. CASE ~CanRefile(rows[r])
    <3>1. UNCHANGED <<rows, nextRow>>
      BY <2>1 DEF FilePurchase
    <3> QED BY <1>1, <3>1, OutboxStays
  <2>2. CASE CanRefile(rows[r])
    <3>1. rows' = [rows EXCEPT ![r] = q]
      BY <1>1, <1>2, <2>2 DEF FilePurchase
    <3>2. rows[r] # None /\ Replaces(q, rows[r])
      BY <1>2, <2>2, RefiledReplaces, RowsAreSound DEF CanRefile
    <3> HIDE DEF q
    <3> QED BY <1>2, <3>1, <3>2, OneRowStep DEF FilePurchase, OnOutbox
  <2> QED BY <2>1, <2>2
<1>4. Fits(new)
  <2>1. Fits(again)
    BY <1>1, <1>2, AtWork DEF Fits, Job, OnRow
  <2> QED BY <2>1, IdleFits
<1>5. Charging(j, new)
  BY <1>1, AtWork DEF Charging, FilePurchase, OnOutbox
<1> HIDE DEF new
<1> QED BY <1>1, <1>3, <1>4, <1>5, RequestStepKeeps DEF FilePurchase, OnOutbox, IInv, TypeOK

\* An item to buy again.
LEMMA ReactivateKeeps ==
    ASSUME IInv, NEW j \in Jobs, Reactivate(j)
    PROVE  IInv' /\ RowsForward
<1>1. PICK i \in Items :
        /\ items' = [items EXCEPT ![i] = [done |-> FALSE, paid |-> None]]
        /\ SetJob(j, [IdleJob EXCEPT !.pc = "detach", !.item = i])
  BY DEF Reactivate
<1> DEFINE new == [IdleJob EXCEPT !.pc = "detach", !.item = i]
<1>2. Fits(new) /\ new.pc = "detach"
  BY IdleFits DEF Fits, IdleJob, Job, OnRow
<1>3. items' \in [Items -> ItemState]
  BY <1>1 DEF IInv, TypeOK, ItemState
<1>4. Charging(j, new) /\ OutboxStep
  BY <1>2, OutboxStays DEF Charging, Reactivate, outbox
<1> HIDE DEF new
<1>5. SetJob(j, new)
  BY <1>1 DEF new
<1> QED BY <1>2, <1>3, <1>4, <1>5, RequestStepKeeps DEF Reactivate, outbox, ghosts, IInv, TypeOK

\* Purchases are detached from an item.
LEMMA DetachedStep ==
    ASSUME IInv, UNCHANGED nextRow, doubtful' = doubtful, NEW i, rows' = Detached(RowsOf(i))
    PROVE  OutboxStep /\ rows' \in [Ids -> Row \cup {None}]
<1> DEFINE f == [r \in Ids |-> IF r \in RowsOf(i) THEN [rows[r] EXCEPT !.item = None]
                               ELSE rows[r]]
<1>1. ASSUME NEW r \in Ids
      PROVE  \/ f[r] = None \/ f[r] = rows[r]
             \/ rows[r] # None /\ Replaces(f[r], rows[r])
  BY DetachedReplaces, RowsAreSound DEF RowsOf
<1>2. rows' = [r \in Ids |-> f[r]]
  BY DEF Detached
<1> HIDE DEF f
<1> QED BY <1>1, <1>2, RowsStep

\* Its purchases so far forget it, and stay.
LEMMA DetachPurchasesKeeps ==
    ASSUME IInv, NEW j \in Jobs, DetachPurchases(j)
    PROVE  IInv' /\ RowsForward
<1>1. SetJob(j, IdleJob)
  BY DEF DetachPurchases, Goto
<1>2. OutboxStep /\ rows' \in [Ids -> Row \cup {None}]
  BY DetachedStep DEF DetachPurchases, OnOutbox
<1>3. Charging(j, IdleJob)
  BY IdleFits DEF Charging, DetachPurchases, OnOutbox
<1> QED BY <1>1, <1>2, <1>3, IdleFits, RequestStepKeeps
        DEF DetachPurchases, OnOutbox, IInv, TypeOK

\* A request that stops half way leaves what it wrote.
LEMMA AbortKeeps ==
    ASSUME IInv, NEW j \in Jobs, Abort(j)
    PROVE  IInv' /\ RowsForward
<1>1. job' \in [Jobs -> Job] /\ Requesting' \subseteq Requesting
  BY IdleFits DEF Abort, Goto, SetJob, Fits, IInv, TypeOK, Requesting
<1>2. /\ Cardinality(Requesting') <= Cardinality(Requesting)
      /\ Cardinality(Requesting') \in Nat /\ Cardinality(Requesting) \in Nat
  BY <1>1, RequestingIsFinite, FS_Subset, FS_CardinalityType
<1>3. Charged' /\ TypeOK'
  BY <1>1, <1>2, FluvOutboxAssumption DEF Abort, Fault, outbox, ghosts, IInv, TypeOK, Charged
<1>4. OutboxStep
  BY OutboxStays DEF Abort, outbox
<1>5. /\ UnusedOK' /\ LateOK' /\ SenderOK' /\ (\A r \in Ids : RowOK(r)')
      /\ RowsForward
      /\ \A k \in Jobs : job'[k] = job[k] => JobOK(k)'
  BY <1>4, OutboxStepKeeps DEF Abort, ghosts
<1>6. \A k \in Jobs : job'[k] = job[k] \/ job'[k] = IdleJob
  BY DEF Abort, Goto, SetJob, IInv, TypeOK
<1>7. \A k \in Jobs : job'[k] = IdleJob => JobOK(k)'
  BY <1>4, IdleFits, FluvOutboxAssumption DEF JobOK, Fits, OutboxStep, IInv, TypeOK, OnRow, IdleJob
<1> QED BY <1>3, <1>5, <1>6, <1>7 DEF IInv

-----------------------------------------------------------------------------
\* Deleting an item, the connection settings, pruning.

\* A step that is no request's, and changes rows only as a request may.
LEMMA OtherStepKeeps ==
    ASSUME IInv, TypeOK', OutboxStep, UNCHANGED <<job, nextRow, sender, fluv, late>>,
           ops' \in {ops, ops + 1}, doubtful \subseteq doubtful'
    PROVE  IInv' /\ RowsForward
<1>1. Charged'
  BY RequestingIsFinite, FluvOutboxAssumption DEF IInv, TypeOK, Charged, Requesting
<1>2. /\ UnusedOK' /\ LateOK' /\ SenderOK' /\ (\A r \in Ids : RowOK(r)')
      /\ RowsForward
      /\ \A k \in Jobs : job'[k] = job[k] => JobOK(k)'
  BY OutboxStepKeeps
<1> QED BY <1>1, <1>2 DEF IInv

\* The purchases of a deleted item forget it, and stay.
LEMMA DeleteItemKeeps ==
    ASSUME IInv, NEW i \in Items, DeleteItem(i)
    PROVE  IInv' /\ RowsForward
<1>1. OutboxStep /\ rows' \in [Ids -> Row \cup {None}]
  BY DetachedStep DEF DeleteItem, ghosts
<1>2. items' \in [Items -> ItemState]
  BY DEF DeleteItem, ghosts, IInv, TypeOK, ItemState
<1>3. TypeOK'
  BY <1>1, <1>2 DEF DeleteItem, ghosts, IInv, TypeOK
<1> QED BY <1>1, <1>3, OtherStepKeeps DEF DeleteItem, ghosts

\* What failed is due again, and nobody knows any more what Fluv holds of it.
LEMMA RetryFailedStep ==
    ASSUME IInv, NEW u, RetryFailed(u), UNCHANGED nextRow
    PROVE  /\ OutboxStep /\ rows' \in [Ids -> Row \cup {None}]
           /\ doubtful \subseteq doubtful' /\ doubtful' \subseteq Ids
<1> DEFINE retried == {r \in Ids : rows[r] # None /\ rows[r].user = u /\ rows[r].failed}
<1>1. doubtful' = doubtful \cup {r \in retried : rows[r].desired = "record"}
      /\ doubtful \subseteq Ids /\ retried \subseteq Ids
  BY DEF RetryFailed, IInv, TypeOK
<1>2. ASSUME NEW r \in Ids, rows'[r] # None
      PROVE  /\ rows[r] # None /\ Evolves(rows[r], rows'[r]) /\ rows'[r] \in Row
             /\ r \notin doubtful' /\ Known(rows[r], fluv[r]) => Known(rows'[r], fluv[r])
  <2>1. CASE r \in retried
    <3>1. rows'[r] = [rows[r] EXCEPT !.failed = FALSE, !.attempts = 0]
      BY <2>1 DEF RetryFailed
    <3>2. rows[r] # None /\ Sound(rows[r])
      BY <2>1, RowsAreSound
    <3>3. /\ Evolves(rows[r], rows'[r])
          /\ rows[r].desired # "record" => Replaces(rows'[r], rows[r])
      BY <3>1, <3>2, RetriedEvolves
    <3>4. r \notin doubtful' => rows[r].desired # "record"
      BY <1>1, <2>1
    <3> QED BY <3>2, <3>3, <3>4 DEF Replaces, Evolves
  <2>2. CASE r \notin retried
    <3>1. rows'[r] = rows[r]
      BY <2>2 DEF RetryFailed
    <3> QED BY <1>2, <3>1, RowStays
  <2> QED BY <2>1, <2>2
<1>3. rows' \in [Ids -> Row \cup {None}]
  BY <1>2 DEF RetryFailed
<1> HIDE DEF retried
<1> QED BY <1>1, <1>2, <1>3 DEF OutboxStep

\* The connection is saved, which retries what failed.
LEMMA SaveConnectionKeeps ==
    ASSUME IInv, NEW u \in Users, SaveConnection(u)
    PROVE  IInv' /\ RowsForward
<1>1. /\ OutboxStep /\ rows' \in [Ids -> Row \cup {None}]
      /\ doubtful \subseteq doubtful' /\ doubtful' \subseteq Ids
  BY RetryFailedStep DEF SaveConnection
<1>2. integ' \in [Users -> {"none", "on", "paused"}] /\ ops' \in 0 .. MaxOps /\ ops' = ops + 1
  BY FluvOutboxAssumption DEF SaveConnection, IInv, TypeOK
<1>3. TypeOK'
  BY <1>1, <1>2 DEF SaveConnection, IInv, TypeOK
<1> QED BY <1>1, <1>2, <1>3, OtherStepKeeps DEF SaveConnection

\* The user asks for it.
LEMMA RetryKeeps ==
    ASSUME IInv, NEW u \in Users, Retry(u)
    PROVE  IInv' /\ RowsForward
<1>1. /\ OutboxStep /\ rows' \in [Ids -> Row \cup {None}]
      /\ doubtful \subseteq doubtful' /\ doubtful' \subseteq Ids
  BY RetryFailedStep DEF Retry
<1>2. ops' \in 0 .. MaxOps /\ ops' = ops + 1
  BY FluvOutboxAssumption DEF Retry, IInv, TypeOK
<1>3. TypeOK'
  BY <1>1, <1>2 DEF Retry, IInv, TypeOK
<1> QED BY <1>1, <1>2, <1>3, OtherStepKeeps DEF Retry

\* Rows that go.
LEMMA LosingIsTyped ==
    ASSUME IInv, NEW ids \in SUBSET Ids, \A r \in ids : rows[r] # None
    PROVE  untracked \cup Losing(ids) \subseteq Items \cup {None}
<1>1. \A r \in ids : rows[r].item \in Items \cup {None}
  BY RowStays DEF Row
<1> QED BY <1>1 DEF Losing, IInv, TypeOK

\* The connection goes, and its rows.
LEMMA DisconnectKeeps ==
    ASSUME IInv, NEW u \in Users, Disconnect(u)
    PROVE  IInv' /\ RowsForward
<1> DEFINE theirs == {r \in Ids : rows[r] # None /\ rows[r].user = u}
           f == [r \in Ids |-> IF r \in theirs THEN None ELSE rows[r]]
<1>1. OutboxStep /\ rows' \in [Ids -> Row \cup {None}]
  <2>1. rows' = [r \in Ids |-> f[r]] /\ UNCHANGED nextRow /\ doubtful' = doubtful
    BY DEF Disconnect
  <2>2. \A r \in Ids : f[r] = None \/ f[r] = rows[r]
    OBVIOUS
  <2> HIDE DEF f
  <2> QED BY <2>1, <2>2, RowsStep
<1>2. untracked' \subseteq Items \cup {None}
  BY LosingIsTyped DEF Disconnect
<1>3. integ' \in [Users -> {"none", "on", "paused"}] /\ ops' \in 0 .. MaxOps /\ ops' = ops + 1
  BY FluvOutboxAssumption DEF Disconnect, IInv, TypeOK
<1>4. TypeOK'
  BY <1>1, <1>2, <1>3 DEF Disconnect, IInv, TypeOK
<1> QED BY <1>1, <1>3, <1>4, OtherStepKeeps DEF Disconnect

\* A row settled long ago goes.
LEMMA PruneKeeps ==
    ASSUME IInv, NEW r \in Ids, Prune(r)
    PROVE  IInv' /\ RowsForward
<1>1. OutboxStep /\ rows' \in [Ids -> Row \cup {None}]
  <2> DEFINE f == [k \in Ids |-> IF k = r THEN None ELSE rows[k]]
  <2>1. rows' = [k \in Ids |-> f[k]] /\ UNCHANGED nextRow /\ doubtful' = doubtful
    BY DEF Prune, IInv, TypeOK
  <2>2. \A k \in Ids : f[k] = None \/ f[k] = rows[k]
    OBVIOUS
  <2> HIDE DEF f
  <2> QED BY <2>1, <2>2, RowsStep
<1>2. untracked' \subseteq Items \cup {None}
  BY LosingIsTyped DEF Prune
<1>3. TypeOK'
  BY <1>1, <1>2 DEF Prune, IInv, TypeOK
<1> QED BY <1>1, <1>3, OtherStepKeeps DEF Prune

-----------------------------------------------------------------------------
\* The sender.  Its steps touch rows it claimed, Fluv and what is on its way there.

\* A step of the sender that leaves the outbox, and Fluv but for what it is sending.
LEMMA SendingKeeps ==
    ASSUME IInv, TypeOK', UNCHANGED <<job, nextRow, ops>>, RowsForward,
           \A r \in Ids : rows[r] = None => rows'[r] = None,
           \A r \in Ids : r >= nextRow => fluv'[r] = fluv[r],
           LateOK', SenderOK', \A r \in Ids : RowOK(r)'
    PROVE  IInv'
<1>1. Charged'
  BY DEF IInv, Charged, Requesting
<1>2. UnusedOK'
  BY DEF IInv, UnusedOK
<1>3. ASSUME NEW j \in Jobs PROVE JobOK(j)'
  <2>1. JobOK(j)
    BY DEF IInv
  <2>2. ASSUME job[j].pc = "flag", rows'[job[j].row] # None
        PROVE  rows'[job[j].row].desired = "cancel"
    BY <2>1, <2>2 DEF JobOK, OnRow, RowsForward
  <2> QED BY <2>1, <2>2 DEF JobOK
<1> QED BY <1>1, <1>2, <1>3 DEF IInv

\* A step at which neither the rows nor Fluv change.
LEMMA SenderOnlyKeeps ==
    ASSUME IInv, TypeOK', UNCHANGED <<job, nextRow, ops, rows, fluv>>, LateOK', SenderOK',
           doubtful \subseteq doubtful'
    PROVE  IInv' /\ RowsForward
<1>1. RowsForward /\ \A r \in Ids : RowOK(r)'
  BY DEF RowsForward, IInv, RowOK
<1> QED BY <1>1, SendingKeeps

\* A sender that starts releases what was on the wire, unsure of what became of it.
LEMMA ReleaseKeeps ==
    ASSUME IInv, Release
    PROVE  IInv' /\ RowsForward
<1> DEFINE sent == {r \in Ids : rows[r] # None /\ rows[r].inFlight}
<1>0. /\ rows \in [Ids -> Row \cup {None}] /\ doubtful \subseteq Ids
      /\ UNCHANGED <<fluv, late, job, nextRow, ops>>
      /\ sender' = [pc |-> "idle", row |-> 0, snap |-> None, result |-> None]
      /\ doubtful' = doubtful \cup {r \in sent : rows[r].desired = "record"}
      /\ rows' = [r \in Ids |-> IF r \in sent THEN [rows[r] EXCEPT !.inFlight = FALSE]
                                ELSE rows[r]]
  BY DEF Release, OnSending, Sender, IInv, TypeOK
<1>1. ASSUME NEW r \in Ids, rows[r] # None
      PROVE  /\ rows'[r] \in Row
             /\ rows'[r].desired = rows[r].desired /\ rows'[r].synced = rows[r].synced
             /\ rows'[r].skipped = rows[r].skipped
             /\ ContentOf(rows'[r]) = ContentOf(rows[r])
             /\ r \notin sent => rows'[r] = rows[r]
  <2>1. rows[r] \in Row
    BY <1>0, <1>1
  <2> QED BY <1>0, <1>1, <2>1 DEF Row, ContentOf
<1>2. \A r \in Ids : rows[r] = None => rows'[r] = None
  BY <1>0
<1>3. TypeOK'
  BY <1>0, <1>1, <1>2 DEF Release, OnSending, IInv, TypeOK
<1>4. RowsForward /\ LateOK' /\ SenderOK'
  BY <1>0, <1>1 DEF RowsForward, LateOK, SenderOK, IInv
<1>5. ASSUME NEW r \in Ids PROVE RowOK(r)'
  <2>1. CASE rows[r] = None
    BY <1>2, <2>1 DEF RowOK
  <2>2. CASE rows[r] # None
    <3>1. RowOK(r) /\ rows[r] \in Row
      BY <1>0, <2>2 DEF IInv
    <3>2. r \notin doubtful' => r \notin doubtful /\ (r \in sent => rows[r].desired # "record")
      BY <1>0
    <3> QED BY <1>0, <1>1, <2>2, <3>1, <3>2 DEF RowOK, Known, NeverSent
  <2> QED BY <2>1, <2>2
<1> QED BY <1>0, <1>2, <1>3, <1>4, <1>5, SendingKeeps

\* The sender claims a row that is due, and remembers it as it is.
LEMMA ClaimKeeps ==
    ASSUME IInv, NEW r \in Ids, Claim(r)
    PROVE  IInv' /\ RowsForward
<1> DEFINE p == rows[r]
           q == [p EXCEPT !.inFlight = TRUE]
<1>0. /\ rows \in [Ids -> Row \cup {None}] /\ p # None /\ p \in Row /\ RowOK(r)
      /\ Pending(p) /\ rows' = [rows EXCEPT ![r] = q]
      /\ UNCHANGED <<fluv, late, doubtful, job, nextRow, ops>>
      /\ sender' = [pc |-> "send", row |-> r, snap |-> p, result |-> None]
      /\ r < nextRow
  BY RowInIds DEF Claim, OnSending, IInv, TypeOK
<1>1. /\ q \in Row /\ q.inFlight /\ q.desired = p.desired /\ q.synced = p.synced
      /\ q.skipped = p.skipped /\ ContentOf(q) = ContentOf(p)
  BY <1>0 DEF Row, ContentOf
<1> HIDE DEF q
<1>2. rows' \in [Ids -> Row \cup {None}] /\ rows'[r] = q
      /\ \A k \in Ids : k # r => rows'[k] = rows[k]
  BY <1>0, <1>1
<1>3. TypeOK'
  <2>1. sender' \in [pc : {"down", "idle", "send", "finish"}, row : Ids \cup {0},
                     snap : Row \cup {None}, result : {"ok", "error", "refused", None}]
    BY <1>0
  <2> QED BY <1>2, <2>1 DEF Claim, OnSending, IInv, TypeOK
<1>4. RowsForward
  BY <1>0, <1>1, <1>2 DEF RowsForward
<1>5. p.synced # "cancelled"
  BY <1>0 DEF Pending, Settled, RowOK
<1>6. SenderOK'
  BY <1>0, <1>1, <1>2, <1>5 DEF SenderOK, OnTheWire
<1>7. LateOK'
  BY <1>0 DEF LateOK, IInv
<1>8. ASSUME NEW k \in Ids PROVE RowOK(k)'
  <2>1. CASE k = r
    BY <1>0, <1>1, <1>2, <2>1 DEF RowOK, Known, NeverSent
  <2>2. CASE k # r
    BY <1>0, <1>2, <2>2 DEF RowOK, IInv
  <2> QED BY <2>1, <2>2
<1> QED BY <1>0, <1>2, <1>3, <1>4, <1>6, <1>7, <1>8, SendingKeeps

\* A row whose connection went meanwhile is not sent.
LEMMA DropKeeps ==
    ASSUME IInv, Drop
    PROVE  IInv' /\ RowsForward
<1>1. TypeOK'
  BY DEF Drop, OnSending, Sender, IInv, TypeOK
<1>2. LateOK' /\ SenderOK'
  BY DEF Drop, OnSending, Sender, IInv, LateOK, SenderOK
<1> QED BY <1>1, <1>2, SenderOnlyKeeps DEF Drop, OnSending

\* An outcome that cannot be written leaves the row in flight.
LEMMA FinishFailsKeeps ==
    ASSUME IInv, FinishFails
    PROVE  IInv' /\ RowsForward
<1>1. TypeOK'
  BY FluvOutboxAssumption DEF FinishFails, Fault, OnSending, Sender, IInv, TypeOK
<1>2. LateOK' /\ SenderOK'
  BY DEF FinishFails, OnSending, Sender, IInv, LateOK, SenderOK
<1> QED BY <1>1, <1>2, SenderOnlyKeeps DEF FinishFails, OnSending

\* The snapshot being sent, and what sending it makes of Fluv.
LEMMA SendingFacts ==
    ASSUME IInv, Sending
    PROVE  /\ sender.row \in Ids /\ sender.row < nextRow
           /\ sender.snap \in Row /\ sender.snap.synced # "cancelled"
           /\ rows[sender.row] # None => OnTheWire(rows[sender.row], sender.snap)
           /\ ContentOf(sender.snap) \in Content
           /\ Applied \in [Ids -> Content \cup {None}]
           /\ \A k \in Ids : k # sender.row => Applied[k] = fluv[k]
           /\ sender.snap.desired = "cancel" => Applied[sender.row] = None
           /\ sender.snap.desired = "record" =>
                  Applied[sender.row] = IF fluv[sender.row] = None THEN ContentOf(sender.snap)
                                        ELSE fluv[sender.row]
<1>1. /\ sender.row \in Ids /\ sender.row < nextRow
      /\ sender.snap \in Row /\ sender.snap.synced # "cancelled"
      /\ rows[sender.row] # None => OnTheWire(rows[sender.row], sender.snap)
  BY DEF IInv, SenderOK, Sending
<1>2. ContentOf(sender.snap) \in Content
  BY <1>1 DEF ContentOf, Content, Row
<1>3. fluv \in [Ids -> Content \cup {None}] /\ sender.snap.desired \in {"record", "cancel"}
  BY <1>1 DEF IInv, TypeOK, Row
<1> QED BY <1>1, <1>2, <1>3 DEF Applied, Post

\* What an attempt may leave in Fluv agrees with what is known of the row.
LEMMA AppliedIsKnown ==
    ASSUME IInv, Sending, NEW p, p = rows[sender.row], p # None,
           sender.row \notin doubtful
    PROVE  /\ Known(p, Applied[sender.row])
           /\ Answered(p, sender.snap, Applied[sender.row])
<1> DEFINE r == sender.row
           s == sender.snap
<1>1. /\ OnTheWire(p, s) /\ s \in Row /\ p \in Row /\ s.synced # "cancelled"
      /\ Known(p, fluv[r])
  BY SendingFacts, RowStays DEF IInv, RowOK
<1>2. ~NeverSent(p) /\ p.synced # "cancelled"
  BY <1>1 DEF OnTheWire, NeverSent
<1>3. CASE s.desired = "cancel"
  <2>1. p.desired = "cancel" /\ Applied[r] = None
    BY <1>1, <1>3, SendingFacts DEF OnTheWire
  <2> QED BY <1>2, <1>3, <2>1 DEF Known, Answered
<1>4. CASE s.desired = "record"
  <2>1. Applied[r] = IF fluv[r] = None THEN ContentOf(s) ELSE fluv[r]
    BY <1>4, SendingFacts
  <2>2. p.desired = "record" => Applied[r] = ContentOf(p)
    BY <1>1, <1>4, <2>1 DEF OnTheWire, Known
  <2> QED BY <1>2, <1>4, <2>2 DEF Known, Answered
<1> QED BY <1>1, <1>3, <1>4 DEF Row

\* The end of an attempt, with or without an effect on Fluv.
LEMMA AttemptKeeps ==
    ASSUME IInv, Sending, TypeOK', UNCHANGED <<job, nextRow, ops, rows, doubtful>>, LateOK',
           NEW result \in {"ok", "error", "refused"}, Outcome(result),
           fluv' = Applied \/ (fluv' = fluv /\ result # "ok")
    PROVE  IInv' /\ RowsForward
<1> DEFINE r == sender.row
<1>1. /\ sender'.pc = "finish" /\ sender'.row = r /\ sender'.snap = sender.snap
      /\ sender'.result = result
  BY DEF Outcome, IInv, TypeOK
<1>2. RowsForward
  BY DEF RowsForward
<1>3. \A k \in Ids : k # r => fluv'[k] = fluv[k]
  BY SendingFacts
<1>4. r \in Ids /\ r < nextRow /\ nextRow \in Int /\ r \in Int
  BY SendingFacts, FluvOutboxAssumption DEF IInv, TypeOK, Ids
<1>5. ASSUME rows[r] # None, r \notin doubtful
      PROVE  /\ Known(rows[r], fluv'[r])
             /\ result = "ok" => Answered(rows[r], sender.snap, fluv'[r])
  <2>1. Known(rows[r], fluv[r])
    BY <1>4, <1>5 DEF IInv, RowOK
  <2> QED BY <1>5, <2>1, AppliedIsKnown
<1>6. SenderOK'
  BY <1>1, <1>4, <1>5, SendingFacts DEF SenderOK
<1>7. ASSUME NEW k \in Ids PROVE RowOK(k)'
  BY <1>3, <1>5 DEF RowOK, IInv
<1>8. \A k \in Ids : k >= nextRow => fluv'[k] = fluv[k]
  BY <1>3, <1>4 DEF Ids
<1> QED BY <1>2, <1>6, <1>7, <1>8, SendingKeeps

\* What the sender holds once it was answered.
LEMMA OutcomeIsTyped ==
    ASSUME IInv, NEW result \in {"ok", "error", "refused"}, Outcome(result)
    PROVE  sender' \in [pc : {"down", "idle", "send", "finish"}, row : Ids \cup {0},
                        snap : Row \cup {None}, result : {"ok", "error", "refused", None}]
BY DEF Outcome, IInv, TypeOK

\* Fluv applies what it is sent.
LEMMA DeliverKeeps ==
    ASSUME IInv, Deliver
    PROVE  IInv' /\ RowsForward
<1>1. TypeOK'
  BY OutcomeIsTyped, SendingFacts DEF Deliver, OnSending, IInv, TypeOK
<1>2. LateOK'
  BY DEF Deliver, OnSending, IInv, LateOK
<1> QED BY <1>1, <1>2, AttemptKeeps DEF Deliver, OnSending

\* Or nobody knows whether it did.
LEMMA TimeOutKeeps ==
    ASSUME IInv, TimeOut
    PROVE  IInv' /\ RowsForward
<1>1. faults' \in 0 .. MaxFaults
  BY FluvOutboxAssumption DEF TimeOut, Fault, IInv, TypeOK
<1>2. TypeOK'
  BY <1>1, OutcomeIsTyped, SendingFacts DEF TimeOut, OnSending, IInv, TypeOK
<1>3. LateOK'
  BY DEF TimeOut, OnSending, IInv, LateOK
<1> QED BY <1>2, <1>3, AttemptKeeps DEF TimeOut, OnSending

\* Or it refuses it.
LEMMA RefuseKeeps ==
    ASSUME IInv, Refuse
    PROVE  IInv' /\ RowsForward
<1>1. faults' \in 0 .. MaxFaults
  BY FluvOutboxAssumption DEF Refuse, Fault, IInv, TypeOK
<1>2. TypeOK'
  BY <1>1, OutcomeIsTyped, SendingFacts DEF Refuse, OnSending, IInv, TypeOK
<1>3. LateOK'
  BY DEF Refuse, OnSending, IInv, LateOK
<1> QED BY <1>2, <1>3, AttemptKeeps DEF Refuse, OnSending

\* Or it applies it later: what it holds of that row is in doubt from now on.
LEMMA DelayKeeps ==
    ASSUME IInv, Delay
    PROVE  IInv' /\ RowsForward
<1>1. faults' \in 0 .. MaxFaults
  BY FluvOutboxAssumption DEF Delay, Fault, IInv, TypeOK
<1>2. TypeOK'
  BY <1>1, OutcomeIsTyped, SendingFacts DEF Delay, OnSending, IInv, TypeOK
<1>3. LateOK'
  BY SendingFacts DEF Delay, OnSending, IInv, LateOK
<1>4. SenderOK'
  BY SendingFacts DEF Delay, OnSending, Outcome, IInv, TypeOK, SenderOK
<1> QED BY <1>2, <1>3, <1>4, SenderOnlyKeeps DEF Delay, OnSending

\* A POST that comes late changes what Fluv holds of a doubtful row only.
LEMMA LateArrivesKeeps ==
    ASSUME IInv, LateArrives
    PROVE  IInv' /\ RowsForward
<1>1. PICK l \in late : fluv' = Post(l.row, l.content) /\ late' = late \ {l}
  BY DEF LateArrives
<1>2. /\ l.row \in Ids /\ l.content \in Content /\ l.row \in doubtful /\ l.row < nextRow
      /\ l.row \in Int /\ nextRow \in Int
      /\ UNCHANGED <<rows, nextRow, sender, job, ops, doubtful>>
  BY <1>1, FluvOutboxAssumption DEF LateArrives, OnSending, IInv, TypeOK, LateOK, Ids
<1>3. /\ fluv' \in [Ids -> Content \cup {None}]
      /\ \A k \in Ids : k # l.row => fluv'[k] = fluv[k]
  BY <1>1, <1>2 DEF Post, IInv, TypeOK
<1>4. TypeOK'
  BY <1>1, <1>3 DEF LateArrives, OnSending, IInv, TypeOK
<1>5. RowsForward /\ LateOK' /\ SenderOK'
  BY <1>1, <1>2, <1>3 DEF RowsForward, LateOK, SenderOK, IInv
<1>6. ASSUME NEW k \in Ids PROVE RowOK(k)'
  BY <1>2, <1>3 DEF RowOK, IInv
<1>7. \A k \in Ids : k >= nextRow => fluv'[k] = fluv[k]
  BY <1>2, <1>3 DEF Ids
<1> QED BY <1>2, <1>4, <1>5, <1>6, <1>7, SendingKeeps

\* FinishFluvAttempt, of a row that is still there.
LEMMA FinishedIsSound ==
    ASSUME IInv, sender.pc = "finish", NEW p, p = rows[sender.row], p # None
    PROVE  /\ Finished(p) \in Row
           /\ Finished(p).desired = p.desired /\ Finished(p).skipped = p.skipped
           /\ Finished(p).synced = "cancelled" => p.desired = "cancel"
           /\ p.synced # "cancelled"
           /\ sender.row \notin doubtful => Known(Finished(p), fluv[sender.row])
<1> DEFINE r == sender.row
           s == sender.snap
           q == Finished(p)
           ok == sender.result = "ok"
<1>1. /\ r \in Ids /\ OnTheWire(p, s) /\ s \in Row /\ p \in Row /\ s.synced # "cancelled"
      /\ RowOK(r)
      /\ ok /\ r \notin doubtful => Answered(p, s, fluv[r])
  BY RowStays DEF IInv, SenderOK
<1>2. s.attempts + 1 \in Nat \ {0}
  BY <1>1 DEF Row
<1>3. /\ q \in Row /\ q.desired = p.desired /\ q.skipped = p.skipped
      /\ ContentOf(q) = ContentOf(p)
      /\ q.synced = IF ~ok THEN s.synced ELSE IF s.desired = "record" THEN "recorded"
                    ELSE "cancelled"
      /\ q.attempts = IF p.desired = s.desired THEN s.attempts + 1 ELSE 0
  <2> DEFINE synced == IF ~ok THEN s.synced ELSE IF s.desired = "record" THEN "recorded"
                       ELSE "cancelled"
             attempts == IF p.desired = s.desired THEN s.attempts + 1 ELSE 0
  <2>1. synced \in {"none", "recorded", "cancelled"} /\ attempts \in Nat
    BY <1>1, <1>2 DEF Row
  <2>2. PICK failed \in BOOLEAN :
          q = [p EXCEPT !.inFlight = FALSE, !.synced = synced, !.failed = failed,
                        !.attempts = attempts]
    <3> DEFINE failed == /\ p.desired = s.desired
                         /\ \/ sender.result = "refused"
                            \/ sender.result = "error" /\ s.attempts + 1 >= MaxAttempts
    <3>1. failed \in BOOLEAN
      OBVIOUS
    <3>2. q = [p EXCEPT !.inFlight = FALSE, !.synced = synced, !.failed = failed,
                        !.attempts = attempts]
      BY Zenon DEF Finished
    <3> HIDE DEF failed
    <3> QED BY <3>1, <3>2
  <2> HIDE DEF synced, attempts, q
  <2>3. /\ q \in Row /\ q.desired = p.desired /\ q.skipped = p.skipped
        /\ ContentOf(q) = ContentOf(p) /\ q.synced = synced /\ q.attempts = attempts
    BY <1>1, <2>1, <2>2 DEF Row, ContentOf
  <2> QED BY <2>3 DEF synced, attempts
<1> HIDE DEF q
<1>4. ~NeverSent(q)
  <2>1. CASE p.desired = s.desired
    BY <1>2, <1>3, <2>1 DEF NeverSent
  <2>2. CASE p.desired # s.desired
    BY <1>1, <1>3, <2>2 DEF NeverSent, OnTheWire, Row
  <2> QED BY <2>1, <2>2
<1>5. q.synced = "cancelled" => p.desired = "cancel"
  BY <1>1, <1>3 DEF OnTheWire, Row
<1>6. ASSUME r \notin doubtful PROVE Known(q, fluv[r])
  <2>1. Known(p, fluv[r])
    BY <1>1, <1>6 DEF RowOK
  <2>2. CASE ~ok
    BY <1>1, <1>3, <1>4, <2>1, <2>2 DEF Known, OnTheWire
  <2>3. CASE ok
    BY <1>1, <1>3, <1>4, <1>6, <2>1, <2>3 DEF Known, Answered, OnTheWire, Row
  <2> QED BY <2>2, <2>3
<1> QED BY <1>1, <1>3, <1>5, <1>6 DEF q, OnTheWire

\* The outcome is written, of what was sent to the row as it is now.
LEMMA FinishKeeps ==
    ASSUME IInv, Finish
    PROVE  IInv' /\ RowsForward
<1> DEFINE r == sender.row
<1>0. /\ sender.pc = "finish" /\ r \in Ids /\ rows \in [Ids -> Row \cup {None}]
      /\ sender' = [pc |-> "idle", row |-> 0, snap |-> None, result |-> None]
      /\ UNCHANGED <<fluv, late, doubtful, job, nextRow, ops>>
  BY DEF Finish, OnSending, Sender, IInv, TypeOK, SenderOK
<1>1. CASE rows[r] = None
  <2>1. UNCHANGED rows
    BY <1>1 DEF Finish
  <2>2. TypeOK'
    BY <1>0, <2>1 DEF Finish, OnSending, IInv, TypeOK
  <2>3. LateOK' /\ SenderOK'
    BY <1>0 DEF IInv, LateOK, SenderOK
  <2> QED BY <1>0, <2>1, <2>2, <2>3, SenderOnlyKeeps
<1>2. CASE rows[r] # None
  <2> DEFINE p == rows[r]
             q == Finished(p)
  <2>1. rows' = [rows EXCEPT ![r] = q]
    BY <1>0, <1>2 DEF Finish
  <2>2. /\ q \in Row /\ q.desired = p.desired /\ q.skipped = p.skipped
        /\ q.synced = "cancelled" => p.desired = "cancel"
        /\ p.synced # "cancelled"
        /\ r \notin doubtful => Known(q, fluv[r])
    BY <1>0, <1>2, FinishedIsSound
  <2> HIDE DEF q
  <2>3. /\ rows' \in [Ids -> Row \cup {None}] /\ rows'[r] = q
        /\ \A k \in Ids : k # r => rows'[k] = rows[k]
    BY <1>0, <2>1, <2>2
  <2>4. TypeOK'
    BY <1>0, <2>3 DEF Finish, OnSending, IInv, TypeOK
  <2>5. RowsForward /\ \A k \in Ids : rows[k] = None => rows'[k] = None
    BY <1>2, <2>2, <2>3 DEF RowsForward
  <2>6. LateOK' /\ SenderOK'
    BY <1>0 DEF IInv, LateOK, SenderOK
  <2>7. ASSUME NEW k \in Ids PROVE RowOK(k)'
    <3>1. CASE k = r
      BY <1>0, <1>2, <2>2, <2>3, <3>1 DEF RowOK, IInv
    <3>2. CASE k # r
      BY <1>0, <2>3, <3>2 DEF RowOK, IInv
    <3> QED BY <3>1, <3>2
  <2> QED BY <1>0, <2>4, <2>5, <2>6, <2>7, SendingKeeps
<1> QED BY <1>1, <1>2

\* The process stops: the rows stay, in flight or not.
LEMMA CrashKeeps ==
    ASSUME IInv, Crash
    PROVE  IInv' /\ RowsForward
<1>0. /\ job' = [j \in Jobs |-> IdleJob]
      /\ sender' = [pc |-> "down", row |-> 0, snap |-> None, result |-> None]
      /\ UNCHANGED <<items, rows, nextRow, integ, fluv, late, ops, doubtful, untracked>>
  BY DEF Crash, Sender, outbox, ghosts
<1>1. TypeOK'
  <2>1. faults' \in 0 .. MaxFaults
    BY FluvOutboxAssumption DEF Crash, Fault, IInv, TypeOK
  <2>2. IdleJob \in Job
    BY IdleFits DEF Fits
  <2> QED BY <1>0, <2>1, <2>2 DEF IInv, TypeOK
<1>2. Charged'
  <2>1. Requesting' = {}
    BY <1>0 DEF Requesting, IdleJob
  <2>2. Cardinality(Requesting') = 0
    BY <2>1, FS_EmptySet
  <2> QED BY <1>0, <2>2, RequestingIsFinite, FluvOutboxAssumption DEF IInv, TypeOK, Charged
<1>3. ASSUME NEW j \in Jobs PROVE JobOK(j)'
  BY <1>0, IdleFits DEF JobOK, Fits, OnRow, IdleJob
<1>4. UnusedOK' /\ LateOK' /\ SenderOK' /\ RowsForward
  BY <1>0 DEF IInv, UnusedOK, LateOK, SenderOK, RowsForward
<1>5. ASSUME NEW r \in Ids PROVE RowOK(r)'
  BY <1>0 DEF RowOK, IInv
<1> QED BY <1>1, <1>2, <1>3, <1>4, <1>5 DEF IInv

-----------------------------------------------------------------------------
\* At first the outbox is empty, and Fluv holds nothing.
LEMMA InitIsGood == Init => IInv
<1> SUFFICES ASSUME Init PROVE IInv
  OBVIOUS
<1>1. TypeOK
  <2>1. IdleJob \in Job
    BY FluvOutboxAssumption DEF IdleJob, Job
  <2>2. MaxOps \in Nat /\ MaxFaults \in Nat
    BY FluvOutboxAssumption
  <2> QED BY <2>1, <2>2 DEF Init, Sender, TypeOK, ItemState
<1>2. Charged
  <2>1. Requesting = {}
    BY DEF Init, Requesting, IdleJob
  <2>2. Cardinality(Requesting) = 0
    BY <2>1, FS_EmptySet
  <2> QED BY <2>2 DEF Init, Charged
<1>3. /\ \A j \in Jobs : JobOK(j)
      /\ UnusedOK /\ LateOK /\ SenderOK
      /\ \A r \in Ids : RowOK(r)
  BY DEF Init, Sender, IdleJob, JobOK, OnRow, UnusedOK, LateOK, SenderOK, RowOK
<1> QED BY <1>1, <1>2, <1>3 DEF IInv

\* Every step keeps the invariant, and rows only go forward.
LEMMA NextKeeps ==
    ASSUME IInv, [Next]_vars
    PROVE  IInv' /\ (RowsForward \/ UNCHANGED vars)
<1>1. ASSUME NEW j \in Jobs, Request(j) PROVE IInv' /\ RowsForward
  BY <1>1, ReadItemKeeps, ReadPurchaseKeeps, ReactivateKeeps DEF Request
<1>2. ASSUME NEW j \in Jobs, Step(j) PROVE IInv' /\ RowsForward
  BY <1>2, WriteItemKeeps, RecordPurchaseKeeps, UncheckKeeps, LookUpKeeps,
     CancelPurchaseKeeps, CorrectKeeps, RepriceKeeps, InsertPurchaseKeeps, FlagSkippedKeeps, FilePurchaseKeeps,
     DetachPurchasesKeeps DEF Step
<1>3. ASSUME NEW u \in Users, SaveConnection(u) \/ Retry(u) \/ Disconnect(u)
      PROVE  IInv' /\ RowsForward
  BY <1>3, SaveConnectionKeeps, RetryKeeps, DisconnectKeeps
<1>4. CASE Sends
  BY <1>4, ReleaseKeeps, ClaimKeeps, DropKeeps, DeliverKeeps, TimeOutKeeps, DelayKeeps,
     RefuseKeeps, FinishKeeps DEF Sends, Send
<1>5. CASE UNCHANGED vars
  <2>1. /\ UNCHANGED <<items, rows, nextRow, integ, job, sender, fluv, late, ops, faults>>
        /\ UNCHANGED <<doubtful, untracked>>
    BY <1>5 DEF vars, outbox, ghosts
  <2> QED BY <1>5, <2>1 DEF IInv, TypeOK, Charged, Requesting, JobOK, UnusedOK, LateOK,
                            SenderOK, RowOK
<1> QED BY <1>1, <1>2, <1>3, <1>4, <1>5, AbortKeeps, DeleteItemKeeps, PruneKeeps,
           LateArrivesKeeps, FinishFailsKeeps, CrashKeeps DEF Next

\* The inductive invariant: types, what each request has read, the row on the wire
\* against what is being sent, and what Fluv may hold of each row.
THEOREM Invariance == Spec => []IInv
<1>1. IInv /\ [Next]_vars => IInv'
  BY NextKeeps
<1> QED BY InitIsGood, <1>1, PTL DEF Spec

\* The variables keep their types, and the references suffice: no request queues more
\* than one purchase (record, correct, resend of internal/fluv/service.go).
THEOREM TypeCorrect == Spec => []TypeOK
<1>1. IInv => TypeOK
  BY DEF IInv
<1> QED BY <1>1, Invariance, PTL

\* What the outbox says Fluv holds is what it holds (FinishFluvAttempt against the
\* requests that rewrite, cancel and re-file rows during an attempt), unless the row's
\* history was forgotten: doubtful.
THEOREM SettledRowsAreTrue == Spec => []SettledIsTrue
<1>1. IInv => SettledIsTrue
  BY DEF IInv, RowOK, Known, SettledIsTrue, Truthful
<1> QED BY <1>1, Invariance, PTL

\* A row only goes from record to cancel, and a settled cancellation stays settled.
THEOREM RowsGoForward == Spec => RowsOnlyGoForward
<1>1. IInv /\ [Next]_vars => [RowsForward]_vars
  BY NextKeeps
<1>2. Spec => [][RowsForward]_vars
  BY <1>1, Invariance, PTL DEF Spec
<1> QED BY <1>2 DEF RowsOnlyGoForward, RowsForward

-----------------------------------------------------------------------------
(* The items and their purchases, when requests come in turn *)

\* The newest purchase of an item is the only one meant for Fluv, if any is.
LastActive(i) == \A r \in ActiveRows(i), s \in RowsOf(i) : s <= r

\* No purchase for what is not bought, nor at another price.
Priced(i, it) == \A r \in ActiveRows(i) : it.done /\ rows[r].amount = CostOf(it)

\* A purchase for what is bought, unless the newest one was kept out of Fluv.
Bought(i, it) ==
    it.done /\ CostOf(it) > 0 /\ i \notin untracked =>
        ActiveRows(i) # {} \/ (RowsOf(i) # {} /\ rows[Latest(RowsOf(i))].skipped)

Mirrored(i, it) == Priced(i, it) /\ Bought(i, it)

NoneActive(i) == ActiveRows(i) = {}

\* Reference r, if it is not the item's newest, went with the item's purchase.
Newest(i, r) == i \in untracked \/ (r \in RowsOf(i) /\ \A s \in RowsOf(i) : s <= r)

\* What each point of a request knows of its item's purchases.
MirrorOf(t) ==
    LET i == t.item
        it == t.after
    IN  /\ t.pc = "idle" => t = IdleJob
        /\ t.pc # "idle" => i \in Items
        /\ t.pc = "write" => t.before = items[i] /\ Mirrored(i, t.before)
        /\ t.pc = "detach" => ~items[i].done
        /\ t.pc \notin {"idle", "write", "detach"} => it = items[i]
        /\ t.pc \in {"write", "record", "uncheck", "lookup", "correct", "reprice"} => t.then = "idle"
        /\ t.pc \notin {"idle", "write", "detach", "uncheck", "lookup", "cancel"} => it.done
        /\ t.pc \in OnRow /\ rows[t.row] # None => rows[t.row].item = i
        /\ t.pc \in {"record", "insert", "flag", "unflag", "file"} => NoneActive(i)
        /\ t.pc \in {"cancel", "reprice", "refile"} => ActiveRows(i) \subseteq {t.row}
        /\ t.pc = "uncheck" => ~it.done
        /\ t.pc = "lookup" \/ (t.pc = "cancel" /\ t.then = "idle") => ~it.done \/ CostOf(it) = 0
        /\ t.pc = "correct" => t.before.done /\ Bought(i, t.before)
        /\ t.pc = "reprice" => CostOf(it) > 0
        /\ t.pc = "cancel" /\ t.then # "idle" => it.done
        /\ t.pc = "flag" \/ (t.pc = "cancel" /\ t.then = "flag") => Newest(i, t.row)
        /\ t.pc = "refile" => Mirrored(i, it)
        /\ t.pc = "file" => Bought(i, it)

MirrorInv ==
    /\ \A i \in Items : LastActive(i)
    /\ \A i \in Items : Quiet(i) => Mirrored(i, items[i])
    /\ \A j \in Jobs : MirrorOf(job[j])

\* No two requests about one item at once.
InTurn == \A j, k \in Jobs : j # k /\ job[j].item \in Items => job[k].item # job[j].item

-----------------------------------------------------------------------------
\* What leaves an item's purchases as they are: a row may leave, the last one not without a
\* mark.
ItemKept(i) ==
    /\ \A r \in Ids : rows'[r] # None /\ rows'[r].item = i =>
         /\ rows[r] # None /\ rows[r].item = i
         /\ rows'[r].desired = rows[r].desired /\ rows'[r].amount = rows[r].amount
         /\ rows'[r].skipped = rows[r].skipped
    /\ \A r \in RowsOf(i) : rows'[r] = None \/ rows'[r].item = i
    /\ i \in untracked => i \in untracked'
    /\ i \notin untracked' /\ ActiveRows(i)' = {} => RowsOf(i) \subseteq RowsOf(i)'

\* No row comes back.
GoneStays == \A r \in Ids : r < nextRow /\ rows[r] = None => rows'[r] = None

\* Nothing is done to the other items, their purchases and their marks.
Aside(i) ==
    /\ \A k \in Items \ {i} : items'[k] = items[k] /\ (k \in untracked' <=> k \in untracked)
    /\ \A r \in Ids : \/ rows'[r] = rows[r]
                      \/ /\ rows[r] = None \/ rows[r].item = i
                         /\ rows'[r] = None \/ rows'[r].item \in {i, None}

\* Rows of an item that is kept are rows it had.
LEMMA KeptRows ==
    ASSUME NEW i \in Items, ItemKept(i)
    PROVE  /\ RowsOf(i)' \subseteq RowsOf(i)
           /\ \A r : r \in ActiveRows(i)' <=> r \in RowsOf(i)' /\ r \in ActiveRows(i)
           /\ \A r \in RowsOf(i)' : /\ rows'[r].amount = rows[r].amount
                                    /\ rows'[r].skipped = rows[r].skipped
BY DEF ItemKept, RowsOf, ActiveRows

\* What is known of its purchases stays known.
LEMMA KeptItem ==
    ASSUME NEW i \in Items, ItemKept(i), NEW it
    PROVE  /\ LastActive(i) => LastActive(i)'
           /\ Priced(i, it) => Priced(i, it)'
           /\ Bought(i, it) => Bought(i, it)'
           /\ NoneActive(i) => NoneActive(i)'
           /\ \A r : ActiveRows(i) \subseteq {r} => ActiveRows(i)' \subseteq {r}
           /\ \A r : ActiveRows(i) \subseteq {r} /\ Newest(i, r) => Newest(i, r)'
<1>1. LastActive(i) => LastActive(i)'
  BY KeptRows DEF LastActive
<1>2. Priced(i, it) => Priced(i, it)'
  BY KeptRows DEF Priced, CostOf, ActiveRows
<1>3. Bought(i, it) => Bought(i, it)'
  <2> SUFFICES ASSUME Bought(i, it), it.done, CostOf(it) > 0, i \notin untracked',
                      ActiveRows(i)' = {}
               PROVE  RowsOf(i)' # {} /\ rows'[Latest(RowsOf(i)')].skipped
    BY DEF Bought, CostOf
  <2>1. RowsOf(i)' = RowsOf(i)  BY KeptRows DEF ItemKept
  <2>2. ActiveRows(i) = {}
    BY <2>1, KeptRows DEF ActiveRows
  <2>3. RowsOf(i) # {} /\ rows[Latest(RowsOf(i))].skipped
    BY <2>2 DEF Bought, ItemKept
  <2>4. Latest(RowsOf(i)) \in RowsOf(i)
    BY <2>3, LatestIsLast DEF RowsOf
  <2> QED  BY <2>1, <2>3, <2>4, KeptRows
<1>4. NoneActive(i) => NoneActive(i)'
  BY KeptRows DEF NoneActive
<1>5. \A r : ActiveRows(i) \subseteq {r} => ActiveRows(i)' \subseteq {r}
  BY KeptRows
<1>6. ASSUME NEW r, ActiveRows(i) \subseteq {r}, Newest(i, r) PROVE Newest(i, r)'
  <2>1. CASE i \in untracked  BY <2>1 DEF ItemKept, Newest
  <2>2. CASE r \in RowsOf(i) /\ \A s \in RowsOf(i) : s <= r
    <3>1. CASE r \in RowsOf(i)'  BY <2>2, <3>1, KeptRows DEF Newest
    <3>2. CASE r \notin RowsOf(i)'
      <4>1. ActiveRows(i)' = {}  BY <1>6, <3>2, KeptRows
      <4> QED  BY <2>2, <3>2, <4>1 DEF ItemKept, Newest
    <3> QED  BY <3>1, <3>2
  <2> QED  BY <1>6, <2>1, <2>2 DEF Newest
<1> QED  BY <1>1, <1>2, <1>3, <1>4, <1>5, <1>6

\* A request about an item that is kept goes on knowing what it knew.
LEMMA KeptRequest ==
    ASSUME IInv, NEW j \in Jobs, MirrorOf(job[j]), job'[j] = job[j], GoneStays,
           job[j].item \in Items => ItemKept(job[j].item) /\ items'[job[j].item] = items[job[j].item]
    PROVE  MirrorOf(job[j])'
<1> DEFINE t == job[j]
           i == job[j].item
<1>1. CASE t.pc = "idle"
  BY <1>1 DEF MirrorOf, IdleJob, OnRow
<1>2. CASE t.pc # "idle"
  <2>1. i \in Items /\ ItemKept(i) /\ items'[i] = items[i]
    BY <1>2 DEF MirrorOf
  <2>2. t.pc \in OnRow /\ rows'[t.row] # None => rows'[t.row].item = i
    <3> SUFFICES ASSUME t.pc \in OnRow, rows'[t.row] # None PROVE rows'[t.row].item = i
      OBVIOUS
    <3>1. t.row \in Ids /\ t.row < nextRow  BY DEF IInv, JobOK
    <3>2. rows[t.row] # None  BY <3>1 DEF GoneStays
    <3>3. t.row \in RowsOf(i)  BY <3>1, <3>2 DEF MirrorOf, RowsOf
    <3> QED  BY <2>1, <3>3 DEF ItemKept
  <2> DEFINE P(it) == Mirrored(i, it)
             B(it) == Bought(i, it)
  <2>3. /\ NoneActive(i) => NoneActive(i)'
        /\ ActiveRows(i) \subseteq {t.row} => ActiveRows(i)' \subseteq {t.row}
        /\ ActiveRows(i) \subseteq {t.row} /\ Newest(i, t.row) => Newest(i, t.row)'
    BY <2>1, KeptItem
  <2>4. \A it : Mirrored(i, it) => Mirrored(i, it)'
    BY <2>1, KeptItem DEF Mirrored
  <2>5. \A it : Bought(i, it) => Bought(i, it)'
    BY <2>1, KeptItem
  <2>6. /\ t.pc = "write" => Mirrored(i, t.before)'
        /\ t.pc = "correct" => Bought(i, t.before)'
        /\ t.pc = "refile" => Mirrored(i, t.after)'
        /\ t.pc = "file" => Bought(i, t.after)'
    BY <1>2, <2>4, <2>5 DEF MirrorOf
  <2>7. t.pc = "flag" \/ (t.pc = "cancel" /\ t.then = "flag") => Newest(i, t.row)'
    BY <2>3 DEF MirrorOf, NoneActive
  <2>8. /\ t.pc \in {"record", "insert", "flag", "unflag", "file"} => NoneActive(i)'
        /\ t.pc \in {"cancel", "reprice", "refile"} => ActiveRows(i)' \subseteq {t.row}
    BY <2>3 DEF MirrorOf
  <2> QED
    BY <1>2, <2>1, <2>2, <2>6, <2>7, <2>8 DEF MirrorOf
<1> QED  BY <1>1, <1>2

\* An item nothing is done to is kept.
LEMMA AsideKept ==
    ASSUME NEW i, Aside(i), NEW k \in Items \ {i}
    PROVE  ItemKept(k) /\ items'[k] = items[k]
<1>0. k # None  BY FluvOutboxAssumption
<1>1. \A r \in Ids : rows'[r] # None /\ rows'[r].item = k =>
          rows[r] = rows'[r]
  BY <1>0 DEF Aside
<1>2. \A r \in RowsOf(k) : rows'[r] = rows[r]
  BY DEF Aside, RowsOf
<1>3. RowsOf(k)' = RowsOf(k)  BY <1>1, <1>2 DEF RowsOf
<1>4. \A r \in RowsOf(k) : rows'[r] = None \/ rows'[r].item = k
  BY <1>2 DEF RowsOf
<1> QED  BY <1>1, <1>3, <1>4 DEF Aside, ItemKept

\* A step that keeps every item, and lets the requests be.
LEMMA KeepsMirror ==
    ASSUME IInv, MirrorInv, UNCHANGED <<items, job>>, GoneStays, \A i \in Items : ItemKept(i)
    PROVE  MirrorInv'
<1>1. \A i \in Items : LastActive(i)'
  BY KeptItem DEF MirrorInv
<1>2. ASSUME NEW i \in Items, Quiet(i)' PROVE Mirrored(i, items[i])'
  <2>1. Mirrored(i, items[i])  BY <1>2 DEF Quiet, MirrorInv
  <2> DEFINE it == items[i]
  <2>2. \A x : Priced(i, x) => Priced(i, x)'  BY KeptItem
  <2>3. \A x : Bought(i, x) => Bought(i, x)'  BY KeptItem
  <2>4. Priced(i, items[i])' /\ Bought(i, items[i])'
    BY <2>1, <2>2, <2>3 DEF Mirrored
  <2> QED  BY <2>4 DEF Mirrored
<1>3. ASSUME NEW j \in Jobs PROVE MirrorOf(job[j])'
  BY KeptRequest DEF MirrorInv
<1> QED  BY <1>1, <1>2, <1>3 DEF MirrorInv

\* A step of the request about item i, or of one that begins to be about it.
LEMMA TurnKeeps ==
    ASSUME IInv, MirrorInv, NEW j \in Jobs, NEW i \in Items,
           \A k \in Jobs \ {j} : job'[k] = job[k] /\ job[k].item # i,
           job[j].item \in {i, None}, Aside(i), GoneStays, LastActive(i)',
           \/ job'[j] = IdleJob /\ Mirrored(i, items[i])'
           \/ job'[j].item = i /\ MirrorOf(job[j])'
    PROVE  MirrorInv'
<1>0. None \notin Items  BY FluvOutboxAssumption
<1>1. \A k \in Items \ {i} : ItemKept(k) /\ items'[k] = items[k]
  BY AsideKept
<1>2. \A k \in Items : LastActive(k)'
  BY <1>1, KeptItem DEF MirrorInv
<1>3. ASSUME NEW k \in Items, Quiet(k)' PROVE Mirrored(k, items[k])'
  <2>1. CASE k = i
    BY <1>3, <2>1 DEF Quiet
  <2>2. CASE k # i
    <3>1. Quiet(k)  BY <1>0, <1>3, <2>2 DEF Quiet
    <3>2. Mirrored(k, items[k])  BY <3>1 DEF MirrorInv
    <3>3. \A x : Priced(k, x) => Priced(k, x)'  BY <1>1, <2>2, KeptItem
    <3>4. \A x : Bought(k, x) => Bought(k, x)'  BY <1>1, <2>2, KeptItem
    <3>5. items'[k] = items[k]  BY <1>1, <2>2
    <3>6. Priced(k, items[k])' /\ Bought(k, items[k])'
      BY <3>2, <3>3, <3>4, <3>5 DEF Mirrored
    <3> QED  BY <3>6 DEF Mirrored
  <2> QED  BY <2>1, <2>2
<1>4. ASSUME NEW k \in Jobs PROVE MirrorOf(job[k])'
  <2>1. CASE k # j
    BY <1>1, <2>1, KeptRequest DEF MirrorInv
  <2>2. CASE k = j /\ job'[j] = IdleJob
    BY <2>2 DEF MirrorOf, IdleJob, OnRow
  <2> QED  BY <2>1, <2>2
<1> QED  BY <1>2, <1>3, <1>4 DEF MirrorInv

\* The other requests, while request j works on its item.
LEMMA TheOthers ==
    ASSUME IInv, MirrorInv, InTurn, NEW j \in Jobs, job[j].pc # "idle", NEW new, SetJob(j, new)
    PROVE  /\ job[j].item \in Items /\ job'[j] = new
           /\ \A k \in Jobs \ {j} : job'[k] = job[k] /\ job[k].item # job[j].item
BY DEF MirrorInv, MirrorOf, InTurn, SetJob, IInv, TypeOK

\* A request that begins is the only one about its item.
LEMMA Begins ==
    ASSUME IInv, MirrorInv, InTurn', NEW j \in Jobs, job[j].pc = "idle",
           NEW new, SetJob(j, new), NEW i \in Items, new.item = i
    PROVE  /\ job[j] = IdleJob /\ job[j].item = None /\ job'[j] = new
           /\ \A k \in Jobs \ {j} : job'[k] = job[k] /\ job[k].item # i
           /\ Mirrored(i, items[i])
<1>1. job[j] = IdleJob /\ job[j].item = None
  BY DEF MirrorInv, MirrorOf, IdleJob
<1>2. job'[j] = new /\ \A k \in Jobs \ {j} : job'[k] = job[k]
  BY DEF SetJob, IInv, TypeOK
<1>3. \A k \in Jobs \ {j} : job[k].item # i
  BY <1>2 DEF InTurn
<1>4. Quiet(i)
  BY <1>1, <1>3, FluvOutboxAssumption DEF Quiet
<1> QED  BY <1>1, <1>2, <1>3, <1>4 DEF MirrorInv

\* A step that leaves the rows alone.
LEMMA SameRows ==
    ASSUME UNCHANGED <<rows, untracked>>, NEW i \in Items
    PROVE  /\ ItemKept(i) /\ GoneStays
           /\ RowsOf(i)' = RowsOf(i) /\ ActiveRows(i)' = ActiveRows(i)
           /\ (\A k \in Items \ {i} : items'[k] = items[k]) => Aside(i)
BY DEF ItemKept, GoneStays, RowsOf, ActiveRows, Aside

\* PATCH of an item reads it.
LEMMA ReadItemMirrors ==
    ASSUME IInv, MirrorInv, InTurn', NEW j \in Jobs, ReadItem(j)
    PROVE  MirrorInv'
<1>1. PICK i \in Items, u \in Users, it \in ItemState :
          SetJob(j, [IdleJob EXCEPT !.pc = "write", !.item = i, !.user = u,
                                    !.before = items[i], !.after = it])
  BY DEF ReadItem
<1> DEFINE new == [IdleJob EXCEPT !.pc = "write", !.item = i, !.user = u,
                                  !.before = items[i], !.after = it]
<1>2. new.pc = "write" /\ new.item = i /\ new.before = items[i] /\ new.then = "idle"
  BY DEF IdleJob
<1>a. job[j].pc = "idle" /\ SetJob(j, new)
  BY <1>1 DEF ReadItem
<1> HIDE DEF new
<1>3. /\ job[j].item = None /\ job'[j] = new
      /\ \A k \in Jobs \ {j} : job'[k] = job[k] /\ job[k].item # i
      /\ Mirrored(i, items[i])
  BY <1>2, <1>a, Begins
<1>4. UNCHANGED <<items, rows, untracked>>
  BY DEF ReadItem, outbox, ghosts
<1>5. LastActive(i)' /\ Aside(i) /\ GoneStays
  BY <1>4, SameRows, KeptItem DEF MirrorInv
<1>6. Mirrored(i, items[i])'
  BY <1>3, <1>4, SameRows DEF Mirrored, Priced, Bought, CostOf
<1>7. MirrorOf(job[j])'
  BY <1>2, <1>3, <1>4, <1>6 DEF MirrorOf, OnRow
<1> QED  BY <1>2, <1>3, <1>5, <1>7, TurnKeeps

\* It writes it, as it was to: nobody else has since it read it.
LEMMA WriteItemMirrors ==
    ASSUME IInv, MirrorInv, InTurn, NEW j \in Jobs, WriteItem(j)
    PROVE  MirrorInv'
<1>1. PICK i \in Items, it \in ItemState, before \in ItemState :
          /\ i = job[j].item /\ it = job[j].after /\ before = job[j].before
          /\ before = items[i] /\ Mirrored(i, before)
          /\ job[j].pc = "write" /\ job[j].then = "idle"
  <2>1. job[j].pc = "write"  BY DEF WriteItem
  <2>2. job[j].item \in Items /\ job[j].after \in ItemState
    BY <2>1, AtWork
  <2>3. /\ job[j].before = items[job[j].item] /\ Mirrored(job[j].item, job[j].before)
        /\ job[j].then = "idle"
    BY <2>1 DEF MirrorInv, MirrorOf
  <2>4. items[job[j].item] \in ItemState
    BY <2>2 DEF IInv, TypeOK
  <2> QED  BY <2>1, <2>2, <2>3, <2>4
<1> DEFINE pc == Notice(before, it)
           new == IF pc = "idle" THEN IdleJob ELSE [job[j] EXCEPT !.pc = pc, !.after = it]
<1>2. /\ items' = [items EXCEPT ![i] = it] /\ SetJob(j, new)
      /\ UNCHANGED <<rows, nextRow, untracked>>
  <2> DEFINE written == [done |-> it.done,
                         paid |-> IF it.paid # before.paid THEN it.paid ELSE items[i].paid]
  <2>1. written = it
    BY <1>1 DEF ItemState
  <2>2. /\ items' = [items EXCEPT ![i] = written]
        /\ SetJob(j, IF Notice(before, written) = "idle" THEN IdleJob
                     ELSE [job[j] EXCEPT !.pc = Notice(before, written), !.after = written])
        /\ UNCHANGED <<rows, nextRow, untracked>>
    BY <1>1 DEF WriteItem, outbox, ghosts
  <2> HIDE DEF written
  <2> QED  BY <2>1, <2>2
<1>3. /\ job'[j] = new
      /\ \A k \in Jobs \ {j} : job'[k] = job[k] /\ job[k].item # i
  BY <1>1, <1>2, TheOthers
<1>4. items'[i] = it /\ \A k \in Items \ {i} : items'[k] = items[k]
  BY <1>1, <1>2 DEF IInv, TypeOK
<1>5. LastActive(i)' /\ Aside(i) /\ GoneStays
  BY <1>2, <1>4, SameRows, KeptItem DEF MirrorInv
<1>6. /\ Priced(i, before) /\ Bought(i, before)
      /\ RowsOf(i)' = RowsOf(i) /\ ActiveRows(i)' = ActiveRows(i)
  BY <1>1, <1>2, SameRows DEF Mirrored
<1>7. before.done \in BOOLEAN /\ it.done \in BOOLEAN
  BY DEF ItemState
<1>8. CASE pc = "idle"
  <2>1. ~before.done /\ ~it.done  BY <1>7, <1>8 DEF Notice
  <2>2. Mirrored(i, items[i])'
    BY <1>2, <1>4, <1>6, <2>1 DEF Mirrored, Priced, Bought
  <2> QED  BY <1>1, <1>3, <1>5, <1>8, <2>2, TurnKeeps
<1>9. CASE pc # "idle"
  <2>1. pc \in {"record", "uncheck", "correct"}  BY <1>7, <1>9 DEF Notice
  <2>2. /\ pc = "record" => ~before.done /\ it.done
        /\ pc = "uncheck" => ~it.done
        /\ pc = "correct" => before.done /\ it.done
    BY <1>7 DEF Notice
  <2> HIDE DEF pc
  <2>3. /\ new.pc = pc /\ new.item = i /\ new.before = before /\ new.after = it
        /\ new.then = "idle"
    <3>1. job[j] \in Job  BY DEF IInv, TypeOK
    <3> QED  BY <1>1, <1>9, <3>1 DEF Job
  <2> HIDE DEF new
  <2>4. pc = "record" => NoneActive(i)'
    BY <1>6, <2>2 DEF NoneActive, Priced
  <2>5. pc = "correct" => Bought(i, before)'
    BY <1>2, <1>6 DEF Bought
  <2>6. MirrorOf(job[j])'
    BY <1>3, <1>4, <2>1, <2>2, <2>3, <2>4, <2>5 DEF MirrorOf, OnRow
  <2> QED  BY <1>1, <1>3, <1>5, <2>3, <2>6, TurnKeeps
<1> QED  BY <1>8, <1>9

\* A request at the outbox is about an item as it is now.
LEMMA AtOutbox ==
    ASSUME IInv, MirrorInv, InTurn, NEW j \in Jobs, job[j].pc \notin {"idle", "write", "detach"},
           NEW new, SetJob(j, new)
    PROVE  \E i \in Items, it \in ItemState :
              /\ i = job[j].item /\ it = job[j].after /\ it = items[i] /\ job'[j] = new
              /\ \A k \in Jobs \ {j} : job'[k] = job[k] /\ job[k].item # i
<1>1. job[j].item \in Items /\ job[j].after \in ItemState
  BY AtWork
<1>2. job[j].after = items[job[j].item]
  BY DEF MirrorInv, MirrorOf
<1> QED  BY <1>1, <1>2, TheOthers

\* A purchase queued for an item that is bought, and has none.
LEMMA InsertMirrors ==
    ASSUME IInv, MirrorInv, NEW j \in Jobs, InsertRow(j), UNCHANGED items,
           job[j].pc \in {"record", "insert"},
           NEW i \in Items, i = job[j].item, NEW it, it = job[j].after, it.done, NoneActive(i)
    PROVE  Aside(i) /\ GoneStays /\ LastActive(i)' /\ Mirrored(i, it)'
<1>1. j \in Requesting  BY AtWork
<1>2. nextRow \in Ids  BY <1>1, RoomForARow
<1>3. /\ rows[nextRow] = None /\ rows \in [Ids -> Row \cup {None}]
      /\ \A s \in Ids : s \in Nat
  BY <1>2, FluvOutboxAssumption DEF IInv, UnusedOK, TypeOK, Ids
<1> DEFINE p == NewRow(j)
<1>4. /\ rows'[nextRow] = p /\ \A s \in Ids \ {nextRow} : rows'[s] = rows[s]
      /\ untracked' = untracked \ {i}
  BY <1>2, <1>3 DEF InsertRow
<1>5. p # None /\ p.item = i /\ p.desired = "record" /\ p.amount = CostOf(it)
  <2>1. p.item = i /\ p.desired = "record" /\ p.amount = CostOf(it)
    BY DEF NewRow
  <2>2. p \in Row
    BY AtWork, FluvOutboxAssumption DEF NewRow, Row, Job
  <2> QED  BY <2>1, <2>2, FluvOutboxAssumption
<1> HIDE DEF p
<1>6. Aside(i)  BY <1>3, <1>4, <1>5 DEF Aside
<1>7. GoneStays  BY <1>3, <1>4 DEF GoneStays, Ids
<1>8. ActiveRows(i)' = {nextRow} /\ RowsOf(i)' = RowsOf(i) \cup {nextRow}
  <2>1. \A s \in Ids : s # nextRow => ~(rows'[s] # None /\ rows'[s].item = i
                                        /\ rows'[s].desired = "record")
    BY <1>4 DEF NoneActive, ActiveRows, RowsOf
  <2>2. \A s \in Ids : s # nextRow => (s \in RowsOf(i)' <=> s \in RowsOf(i))
    BY <1>4 DEF RowsOf
  <2>3. nextRow \in RowsOf(i)' /\ nextRow \in ActiveRows(i)'
    BY <1>2, <1>4, <1>5 DEF RowsOf, ActiveRows
  <2> QED  BY <2>1, <2>2, <2>3 DEF RowsOf, ActiveRows
<1>9. LastActive(i)'
  <2>1. \A s \in RowsOf(i) : s <= nextRow
    BY <1>2, <1>3, RowInIds DEF RowsOf
  <2> QED  BY <1>2, <1>3, <1>8, <2>1 DEF LastActive
<1>10. Mirrored(i, it)'
  BY <1>4, <1>5, <1>8 DEF Mirrored, Priced, Bought, CostOf
<1> QED  BY <1>6, <1>7, <1>9, <1>10

\* The purchase is recorded, or the item is marked if its buyer's connection is off.
LEMMA RecordPurchaseMirrors ==
    ASSUME IInv, MirrorInv, InTurn, NEW j \in Jobs, RecordPurchase(j)
    PROVE  MirrorInv'
<1>0. job[j].pc = "record" /\ SetJob(j, IdleJob) /\ UNCHANGED items
  BY DEF RecordPurchase, Goto, OnOutbox
<1>1. PICK i \in Items, it \in ItemState :
          /\ i = job[j].item /\ it = job[j].after /\ it = items[i] /\ job'[j] = IdleJob
          /\ \A k \in Jobs \ {j} : job'[k] = job[k] /\ job[k].item # i
  BY <1>0, AtOutbox
<1>2. it.done /\ NoneActive(i)
  BY <1>0, <1>1 DEF MirrorInv, MirrorOf
<1>3. CASE InsertRow(j)
  <2>1. Aside(i) /\ GoneStays /\ LastActive(i)' /\ Mirrored(i, it)'
    BY <1>0, <1>1, <1>2, <1>3, InsertMirrors
  <2>2. Mirrored(i, items[i])'
    BY <1>0, <1>1, <2>1 DEF Mirrored, Priced, Bought
  <2> QED  BY <1>1, <2>1, <2>2, TurnKeeps
<1>4. CASE ~InsertRow(j)
  <2>1. /\ UNCHANGED rows
        /\ untracked' = IF CostOf(it) > 0 THEN untracked \cup {i} ELSE untracked
    BY <1>1, <1>4 DEF RecordPurchase, outbox
  <2>2. Aside(i) /\ GoneStays
    BY <1>0, <2>1 DEF Aside, GoneStays
  <2>3. RowsOf(i)' = RowsOf(i) /\ ActiveRows(i)' = ActiveRows(i)
    BY <2>1 DEF RowsOf, ActiveRows
  <2>4. LastActive(i)'  BY <2>3 DEF LastActive, MirrorInv
  <2>5. Mirrored(i, items[i])'
    BY <1>0, <1>1, <1>2, <2>1, <2>3 DEF Mirrored, Priced, Bought, NoneActive, CostOf
  <2> QED  BY <1>1, <2>2, <2>4, <2>5, TurnKeeps
<1> QED  BY <1>3, <1>4

\* The item is queued again, for whoever bought it.
LEMMA InsertPurchaseMirrors ==
    ASSUME IInv, MirrorInv, InTurn, NEW j \in Jobs, InsertPurchase(j)
    PROVE  MirrorInv'
<1>0. job[j].pc = "insert" /\ SetJob(j, IdleJob) /\ UNCHANGED items
  BY DEF InsertPurchase, Goto, OnOutbox
<1>1. PICK i \in Items, it \in ItemState :
          /\ i = job[j].item /\ it = job[j].after /\ it = items[i] /\ job'[j] = IdleJob
          /\ \A k \in Jobs \ {j} : job'[k] = job[k] /\ job[k].item # i
  BY <1>0, AtOutbox
<1>2. it.done /\ NoneActive(i)
  BY <1>0, <1>1 DEF MirrorInv, MirrorOf
<1>3. CASE CostOf(it) > 0
  <2>0. InsertRow(j)  BY <1>1, <1>3 DEF InsertPurchase
  <2>1. Aside(i) /\ GoneStays /\ LastActive(i)' /\ Mirrored(i, it)'
    BY <1>0, <1>1, <1>2, <2>0, InsertMirrors
  <2>2. Mirrored(i, items[i])'
    BY <1>0, <1>1, <2>1 DEF Mirrored, Priced, Bought
  <2> QED  BY <1>1, <2>1, <2>2, TurnKeeps
<1>4. CASE ~(CostOf(it) > 0)
  <2>1. UNCHANGED <<rows, untracked>>
    BY <1>1, <1>4 DEF InsertPurchase, outbox
  <2>2. Aside(i) /\ GoneStays /\ RowsOf(i)' = RowsOf(i) /\ ActiveRows(i)' = ActiveRows(i)
    BY <1>0, <2>1, SameRows
  <2>4. LastActive(i)'  BY <2>2 DEF LastActive, MirrorInv
  <2>5. Mirrored(i, items[i])'
    BY <1>0, <1>1, <1>2, <1>4, <2>1, <2>2 DEF Mirrored, Priced, Bought, NoneActive, CostOf
  <2> QED  BY <1>1, <2>2, <2>4, <2>5, TurnKeeps
<1> QED  BY <1>3, <1>4

\* A row of item i is rewritten, and stays one of its rows.
LEMMA RowMirrors ==
    ASSUME IInv, MirrorInv, UNCHANGED <<items, untracked>>, NEW i \in Items, NEW r \in Ids, NEW p,
           rows' = [rows EXCEPT ![r] = p],
           rows[r] = None => p = None,
           rows[r] # None => rows[r].item = i /\ p # None /\ p.item = i
    PROVE  /\ Aside(i) /\ GoneStays /\ RowsOf(i)' = RowsOf(i)
           /\ rows'[r] = p /\ \A s \in Ids \ {r} : rows'[s] = rows[s]
<1>1. rows'[r] = p /\ \A s \in Ids \ {r} : rows'[s] = rows[s]
  BY DEF IInv, TypeOK
<1>2. Aside(i)  BY <1>1 DEF Aside
<1>3. GoneStays  BY <1>1 DEF GoneStays
<1>4. RowsOf(i)' = RowsOf(i)  BY <1>1 DEF RowsOf
<1> QED  BY <1>1, <1>2, <1>3, <1>4

\* An un-check clears the skips.
LEMMA UncheckMirrors ==
    ASSUME IInv, MirrorInv, InTurn, NEW j \in Jobs, Uncheck(j)
    PROVE  MirrorInv'
<1> DEFINE new == [job[j] EXCEPT !.pc = "lookup"]
<1>0. job[j].pc = "uncheck" /\ SetJob(j, new) /\ UNCHANGED <<items, untracked>>
  BY DEF Uncheck, Goto, OnOutbox
<1>1. new.pc = "lookup" /\ new.item = job[j].item /\ new.after = job[j].after
      /\ new.then = job[j].then
  BY DEF IInv, TypeOK, Job
<1> HIDE DEF new
<1>2. PICK i \in Items, it \in ItemState :
          /\ i = job[j].item /\ it = job[j].after /\ it = items[i] /\ job'[j] = new
          /\ \A k \in Jobs \ {j} : job'[k] = job[k] /\ job[k].item # i
  BY <1>0, AtOutbox
<1>3. ~it.done /\ job[j].then = "idle"
  BY <1>0, <1>2 DEF MirrorInv, MirrorOf
<1>4. \A r \in Ids : rows'[r] = IF r \in RowsOf(i) THEN [rows[r] EXCEPT !.skipped = FALSE] ELSE rows[r]
  BY <1>2 DEF Uncheck
<1>5. \A r \in RowsOf(i) : /\ rows'[r] # None /\ rows'[r].item = i
                           /\ rows'[r].desired = rows[r].desired
  <2> SUFFICES ASSUME NEW r \in RowsOf(i)
               PROVE  /\ rows'[r] # None /\ rows'[r].item = i
                      /\ rows'[r].desired = rows[r].desired
    OBVIOUS
  <2>1. rows[r] \in Row /\ rows[r].item = i /\ r \in Ids
    BY DEF RowsOf, IInv, TypeOK
  <2>2. rows'[r] = [rows[r] EXCEPT !.skipped = FALSE]  BY <1>4, <2>1
  <2>3. rows'[r] \in Row /\ rows'[r].item = i /\ rows'[r].desired = rows[r].desired
    BY <2>1, <2>2 DEF Row
  <2> QED  BY <2>3, FluvOutboxAssumption
<1>6. \A r \in Ids : r \notin RowsOf(i) => rows'[r] = rows[r]
  BY <1>4
<1>7. RowsOf(i)' = RowsOf(i) /\ ActiveRows(i)' = ActiveRows(i)
  BY <1>5, <1>6 DEF RowsOf, ActiveRows
<1>8. Aside(i)
  BY <1>0, <1>5, <1>6 DEF Aside, RowsOf
<1>9. GoneStays
  BY <1>6 DEF GoneStays, RowsOf
<1>10. LastActive(i)'
  BY <1>7 DEF LastActive, MirrorInv
<1>11. MirrorOf(job[j])'
  BY <1>0, <1>1, <1>2, <1>3 DEF MirrorOf, OnRow
<1> QED  BY <1>1, <1>2, <1>8, <1>9, <1>10, <1>11, TurnKeeps

\* The current purchase is looked up, of an item that is to have none.
LEMMA LookUpMirrors ==
    ASSUME IInv, MirrorInv, InTurn, NEW j \in Jobs, LookUp(j)
    PROVE  MirrorInv'
<1> DEFINE active == ActiveRows(job[j].item)
           new == IF active = {} THEN IdleJob
                  ELSE [job[j] EXCEPT !.pc = "cancel", !.row = Latest(active)]
<1>0. /\ job[j].pc = "lookup" /\ SetJob(j, new) /\ UNCHANGED <<items, rows, untracked>>
      /\ job[j] \in Job
  BY DEF LookUp, OnOutbox, outbox, IInv, TypeOK
<1>a. new = IdleJob \/ active # {}
  OBVIOUS
<1>b. active # {} => new = [job[j] EXCEPT !.pc = "cancel", !.row = Latest(active)]
  OBVIOUS
<1> HIDE DEF new
<1>1. PICK i \in Items, it \in ItemState :
          /\ i = job[j].item /\ it = job[j].after /\ it = items[i] /\ job'[j] = new
          /\ \A k \in Jobs \ {j} : job'[k] = job[k] /\ job[k].item # i
  BY <1>0, AtOutbox
<1>2. job[j].then = "idle" /\ (~it.done \/ CostOf(it) = 0)
  BY <1>0, <1>1 DEF MirrorInv, MirrorOf
<1>3. Aside(i) /\ GoneStays /\ RowsOf(i)' = RowsOf(i) /\ ActiveRows(i)' = ActiveRows(i)
  BY <1>0, SameRows
<1>4. LastActive(i)  BY DEF MirrorInv
<1>5. LastActive(i)'  BY <1>3, <1>4 DEF LastActive
<1>6. CASE active = {}
  <2>1. new = IdleJob  BY <1>6, <1>a
  <2>2. Mirrored(i, items[i])'
    BY <1>0, <1>1, <1>2, <1>3, <1>6 DEF Mirrored, Priced, Bought, CostOf
  <2> QED  BY <1>1, <1>3, <1>5, <2>1, <2>2, TurnKeeps
<1>7. CASE active # {}
  <2>1. PICK r \in active : r = Latest(active) /\ \A s \in active : s <= r
    BY <1>7, LatestIsLast DEF ActiveRows, RowsOf
  <2>2. /\ new.pc = "cancel" /\ new.row = r /\ new.item = i /\ new.after = it
        /\ new.then = "idle"
    BY <1>0, <1>1, <1>2, <1>7, <1>b, <2>1 DEF Job
  <2>3. r \in Ids /\ rows[r].item = i /\ r \in ActiveRows(i)
    BY <1>1, <2>1 DEF ActiveRows, RowsOf
  <2>4. ActiveRows(i) \subseteq {r}
    BY <1>4, <2>3, FluvOutboxAssumption DEF LastActive, ActiveRows, RowsOf, Ids
  <2>5. MirrorOf(job[j])'
    BY <1>0, <1>1, <1>2, <1>3, <2>2, <2>3, <2>4 DEF MirrorOf, OnRow, CostOf
  <2> QED  BY <1>1, <1>3, <1>5, <2>2, <2>5, TurnKeeps
<1> QED  BY <1>6, <1>7

\* It is cancelled, and with it the item's only purchase.
LEMMA CancelPurchaseMirrors ==
    ASSUME IInv, MirrorInv, InTurn, NEW j \in Jobs, CancelPurchase(j)
    PROVE  MirrorInv'
<1> DEFINE new == IF job[j].then = "idle" THEN IdleJob ELSE [job[j] EXCEPT !.pc = job[j].then]
<1>0. /\ job[j].pc = "cancel" /\ SetJob(j, new) /\ UNCHANGED <<items, untracked>>
      /\ job[j] \in Job
  BY DEF CancelPurchase, Goto, OnOutbox, IInv, TypeOK
<1>a. /\ job[j].then = "idle" => new = IdleJob
      /\ job[j].then # "idle" =>
            new.pc = job[j].then /\ new.item = job[j].item /\ new.after = job[j].after
            /\ new.row = job[j].row
  BY <1>0 DEF Job
<1> HIDE DEF new
<1>1. PICK i \in Items, it \in ItemState :
          /\ i = job[j].item /\ it = job[j].after /\ it = items[i] /\ job'[j] = new
          /\ \A k \in Jobs \ {j} : job'[k] = job[k] /\ job[k].item # i
  BY <1>0, AtOutbox
<1>2. PICK r \in Ids : r = job[j].row
  BY <1>0 DEF IInv, JobOK, OnRow
<1>3. /\ ActiveRows(i) \subseteq {r} /\ (rows[r] # None => rows[r].item = i)
      /\ job[j].then = "idle" => ~it.done \/ CostOf(it) = 0
      /\ job[j].then # "idle" => it.done
      /\ job[j].then = "flag" => Newest(i, r)
  BY <1>0, <1>1, <1>2 DEF MirrorInv, MirrorOf, OnRow
<1> DEFINE p == Cancelled(rows[r])
<1>4. rows' = [rows EXCEPT ![r] = p]
  BY <1>2 DEF CancelPurchase
<1>5. /\ rows[r] = None => p = None
      /\ rows[r] # None => p # None /\ p.item = i /\ p.desired = "cancel"
  <2>1. rows[r] = None => p = None  BY DEF Cancelled
  <2>2. ASSUME rows[r] # None PROVE p \in Row /\ p.item = rows[r].item /\ p.desired = "cancel"
    <3>1. rows[r] \in Row  BY <2>2 DEF IInv, TypeOK
    <3> QED  BY <2>2, <3>1 DEF Cancelled, Row
  <2> QED  BY <1>3, <2>1, <2>2, FluvOutboxAssumption
<1> HIDE DEF p
<1>6. /\ Aside(i) /\ GoneStays /\ RowsOf(i)' = RowsOf(i)
      /\ rows'[r] = p /\ \A s \in Ids \ {r} : rows'[s] = rows[s]
  BY <1>0, <1>3, <1>4, <1>5, RowMirrors
<1>7. ActiveRows(i)' = {}
  BY <1>3, <1>5, <1>6 DEF ActiveRows, RowsOf
<1>8. LastActive(i)'  BY <1>7 DEF LastActive
<1>9. CASE job[j].then = "idle"
  <2>1. Mirrored(i, items[i])'
    BY <1>0, <1>1, <1>3, <1>7, <1>9 DEF Mirrored, Priced, Bought, CostOf
  <2> QED  BY <1>1, <1>6, <1>8, <1>9, <1>a, <2>1, TurnKeeps
<1>10. CASE job[j].then # "idle"
  <2>1. new.pc \in {"insert", "flag"}  BY <1>0, <1>10, <1>a DEF Job
  <2>2. NoneActive(i)'  BY <1>7 DEF NoneActive
  <2>3. new.pc = "flag" => Newest(i, r)'
    BY <1>0, <1>3, <1>6, <1>10, <1>a DEF Newest
  <2>4. rows'[r] # None => rows'[r].item = i
    BY <1>5, <1>6
  <2>5. MirrorOf(job[j])'
    BY <1>0, <1>1, <1>2, <1>3, <1>10, <1>a, <2>1, <2>2, <2>3, <2>4 DEF MirrorOf, OnRow
  <2> QED  BY <1>1, <1>6, <1>8, <1>10, <1>a, <2>5, TurnKeeps
<1> QED  BY <1>9, <1>10

\* A correction looks at what the item has, and what it costs.
LEMMA CorrectMirrors ==
    ASSUME IInv, MirrorInv, InTurn, NEW j \in Jobs, Correct(j)
    PROVE  MirrorInv'
<1>0. job[j].pc = "correct" /\ UNCHANGED <<items, rows, untracked>> /\ job[j] \in Job
  BY DEF Correct, OnOutbox, outbox, IInv, TypeOK
<1>a. PICK i \in Items, it \in ItemState :
          i = job[j].item /\ it = job[j].after /\ it = items[i]
  BY <1>0, AtWork DEF MirrorInv, MirrorOf
<1>b. PICK before : before = job[j].before
  OBVIOUS
<1>1. /\ i = job[j].item /\ it = job[j].after /\ it = items[i] /\ before = job[j].before
  BY <1>a, <1>b
<1>2. it.done /\ before.done /\ Bought(i, before) /\ job[j].then = "idle"
  BY <1>0, <1>1 DEF MirrorInv, MirrorOf
<1> DEFINE active == ActiveRows(i)
           r == Latest(active)
           ended == IF active = {} THEN \/ CostOf(before) > 0 \/ CostOf(it) = 0
                                        \/ RowsOf(i) # {} /\ rows[Latest(RowsOf(i))].skipped
                    ELSE rows[r].amount = CostOf(it)
           new == IF ended THEN IdleJob
                  ELSE IF active = {} THEN [job[j] EXCEPT !.pc = "record"]
                  ELSE IF CostOf(it) = 0 THEN [job[j] EXCEPT !.pc = "lookup"]
                  ELSE [job[j] EXCEPT !.pc = "reprice", !.row = r, !.user = rows[r].user,
                                      !.account = rows[r].account]
<1>3. SetJob(j, new)
  BY <1>1 DEF Correct
<1>4. Aside(i) /\ GoneStays /\ RowsOf(i)' = RowsOf(i) /\ ActiveRows(i)' = ActiveRows(i)
  BY <1>0, SameRows
<1>5. LastActive(i)  BY DEF MirrorInv
<1>6. LastActive(i)'  BY <1>4, <1>5 DEF LastActive
<1>7. job'[j] = new /\ \A k \in Jobs \ {j} : job'[k] = job[k] /\ job[k].item # i
  BY <1>0, <1>1, <1>3, TheOthers
<1>8. active # {} => /\ r \in active /\ active \subseteq {r} /\ r \in Ids
                     /\ rows[r] # None /\ rows[r].item = i
  <2> SUFFICES ASSUME active # {}
               PROVE  /\ r \in active /\ active \subseteq {r} /\ r \in Ids
                      /\ rows[r] # None /\ rows[r].item = i
    OBVIOUS
  <2>1. r \in active /\ \A s \in active : s <= r
    BY LatestIsLast DEF ActiveRows, RowsOf
  <2>2. \A s \in active : r <= s
    BY <1>5, <2>1 DEF LastActive, ActiveRows, RowsOf
  <2>3. \A s \in active : s \in Int
    BY FluvOutboxAssumption DEF ActiveRows, RowsOf, Ids
  <2>4. active \subseteq {r}  BY <2>1, <2>2, <2>3
  <2> QED  BY <2>1, <2>4 DEF ActiveRows, RowsOf
<1>9. CASE ended
  <2>1. Priced(i, it)
    BY <1>2, <1>8, <1>9 DEF Priced
  <2>2. Bought(i, it)
    BY <1>2, <1>8, <1>9 DEF Bought
  <2>3. Mirrored(i, items[i])'
    BY <1>0, <1>1, <1>4, <2>1, <2>2 DEF Mirrored, Priced, Bought, CostOf
  <2> QED  BY <1>1, <1>4, <1>6, <1>7, <1>9, <2>3, TurnKeeps
<1>10. CASE ~ended
  <2>1. /\ new.item = i /\ new.after = it /\ new.then = "idle"
        /\ new.pc \in {"record", "lookup", "reprice"}
        /\ new.pc = "record" => active = {}
        /\ new.pc = "lookup" => CostOf(it) = 0
        /\ new.pc = "reprice" => active # {} /\ CostOf(it) # 0 /\ new.row = r
    BY <1>0, <1>1, <1>2, <1>10 DEF Job
  <2>2. CostOf(it) \in Nat
    BY <1>1, FluvOutboxAssumption DEF CostOf, ItemState
  <2>3. new.pc = "record" => NoneActive(i)'
    BY <1>4, <2>1 DEF NoneActive
  <2>4. new.pc = "reprice" =>
          /\ ActiveRows(i)' \subseteq {new.row} /\ rows'[new.row].item = i /\ CostOf(it) > 0
    BY <1>0, <1>4, <1>8, <2>1, <2>2
  <2> HIDE DEF new, active, r, ended
  <2>5. MirrorOf(job[j])'
    BY <1>0, <1>1, <1>2, <1>7, <2>1, <2>3, <2>4 DEF MirrorOf, OnRow, CostOf
  <2> QED  BY <1>1, <1>4, <1>6, <1>7, <2>1, <2>5, TurnKeeps
<1> QED  BY <1>9, <1>10

\* It is repriced in place, or is to be cancelled and queued again.
LEMMA RepriceMirrors ==
    ASSUME IInv, MirrorInv, InTurn, NEW j \in Jobs, Reprice(j)
    PROVE  MirrorInv'
<1>0. job[j].pc = "reprice" /\ UNCHANGED <<items, untracked>> /\ job[j] \in Job
  BY DEF Reprice, OnOutbox, IInv, TypeOK
<1>1. PICK i \in Items, it \in ItemState, r \in Ids :
          i = job[j].item /\ it = job[j].after /\ it = items[i] /\ r = job[j].row
  <2>1. job[j].row \in Ids  BY <1>0 DEF IInv, JobOK, OnRow
  <2> QED  BY <1>0, <2>1, AtWork DEF MirrorInv, MirrorOf
<1>2. /\ it.done /\ CostOf(it) > 0 /\ ActiveRows(i) \subseteq {r} /\ LastActive(i)
      /\ rows[r] # None => rows[r].item = i
  BY <1>0, <1>1 DEF MirrorInv, MirrorOf, OnRow
<1>3. CASE CanReprice(rows[r])
  <2> DEFINE p == [rows[r] EXCEPT !.amount = CostOf(it)]
  <2>1. rows' = [rows EXCEPT ![r] = p] /\ SetJob(j, IdleJob)
    BY <1>1, <1>3 DEF Reprice, Goto
  <2>2. /\ rows[r] # None /\ rows[r].desired = "record"
        /\ p # None /\ p.item = i /\ p.desired = "record" /\ p.amount = CostOf(it)
    <3>1. rows[r] \in Row /\ rows[r].desired = "record" /\ rows[r].item = i /\ rows[r] # None
      BY <1>2, <1>3 DEF CanReprice, NeverSent, IInv, TypeOK
    <3>2. CostOf(it) \in Costs
      BY <1>1, FluvOutboxAssumption DEF CostOf, ItemState
    <3>3. p \in Row /\ p.item = i /\ p.desired = "record" /\ p.amount = CostOf(it)
      BY <3>1, <3>2 DEF Row
    <3> QED  BY <3>1, <3>3, FluvOutboxAssumption
  <2> HIDE DEF p
  <2>3. /\ Aside(i) /\ GoneStays /\ RowsOf(i)' = RowsOf(i)
        /\ rows'[r] = p /\ \A s \in Ids \ {r} : rows'[s] = rows[s]
    BY <1>0, <1>2, <2>1, <2>2, RowMirrors
  <2>4. r \in ActiveRows(i) /\ ActiveRows(i)' = ActiveRows(i)
    BY <1>2, <2>2, <2>3 DEF ActiveRows, RowsOf
  <2>5. LastActive(i)'  BY <1>2, <2>3, <2>4 DEF LastActive
  <2>6. Mirrored(i, items[i])'
    BY <1>0, <1>1, <1>2, <2>2, <2>3, <2>4 DEF Mirrored, Priced, Bought, CostOf
  <2>7. job'[j] = IdleJob /\ \A k \in Jobs \ {j} : job'[k] = job[k] /\ job[k].item # i
    BY <1>0, <1>1, <2>1, TheOthers
  <2> QED  BY <1>1, <2>3, <2>5, <2>6, <2>7, TurnKeeps
<1>4. CASE ~CanReprice(rows[r])
  <2> DEFINE new == [job[j] EXCEPT !.pc = "cancel", !.then = "insert"]
  <2>1. UNCHANGED rows /\ SetJob(j, new)
    BY <1>1, <1>4 DEF Reprice
  <2>2. /\ new.pc = "cancel" /\ new.then = "insert" /\ new.item = i /\ new.after = it
        /\ new.row = r
    BY <1>0, <1>1 DEF Job
  <2> HIDE DEF new
  <2>3. Aside(i) /\ GoneStays /\ RowsOf(i)' = RowsOf(i) /\ ActiveRows(i)' = ActiveRows(i)
    BY <1>0, <2>1, SameRows
  <2>4. LastActive(i)'  BY <1>2, <2>3 DEF LastActive
  <2>5. job'[j] = new /\ \A k \in Jobs \ {j} : job'[k] = job[k] /\ job[k].item # i
    BY <1>0, <1>1, <2>1, TheOthers
  <2>6. MirrorOf(job[j])'
    BY <1>0, <1>1, <1>2, <2>1, <2>2, <2>3, <2>5 DEF MirrorOf, OnRow
  <2> QED  BY <1>1, <2>2, <2>3, <2>4, <2>5, <2>6, TurnKeeps
<1> QED  BY <1>3, <1>4

\* The newest purchase is flagged, or the flag is taken off what is to be sent again.
LEMMA FlagSkippedMirrors ==
    ASSUME IInv, MirrorInv, InTurn, NEW j \in Jobs, FlagSkipped(j)
    PROVE  MirrorInv'
<1> DEFINE new == [job[j] EXCEPT !.pc = IF job[j].pc = "flag" THEN "file" ELSE "insert"]
<1>0. /\ job[j].pc \in {"flag", "unflag"} /\ SetJob(j, new) /\ UNCHANGED <<items, untracked>>
      /\ job[j] \in Job
  BY DEF FlagSkipped, Goto, OnOutbox, IInv, TypeOK
<1>a. /\ new.item = job[j].item /\ new.after = job[j].after /\ new.row = job[j].row
      /\ new.pc = IF job[j].pc = "flag" THEN "file" ELSE "insert"
  BY <1>0 DEF Job
<1> HIDE DEF new
<1>1. PICK i \in Items, it \in ItemState :
          /\ i = job[j].item /\ it = job[j].after /\ it = items[i] /\ job'[j] = new
          /\ \A k \in Jobs \ {j} : job'[k] = job[k] /\ job[k].item # i
  BY <1>0, AtOutbox
<1>2. PICK r \in Ids : r = job[j].row
  BY <1>0 DEF IInv, JobOK, OnRow
<1>3. /\ it.done /\ NoneActive(i) /\ (rows[r] # None => rows[r].item = i)
      /\ job[j].pc = "flag" => Newest(i, r)
  BY <1>0, <1>1, <1>2 DEF MirrorInv, MirrorOf, OnRow
<1> DEFINE p == IF rows[r] = None THEN None
                ELSE [rows[r] EXCEPT !.skipped = (job[j].pc = "flag")]
<1>4. rows' = [rows EXCEPT ![r] = p]
  BY <1>2 DEF FlagSkipped, IInv, TypeOK
<1>5. /\ rows[r] = None => p = None
      /\ rows[r] # None => /\ p # None /\ p.item = i /\ p.desired = rows[r].desired
                           /\ p.skipped = (job[j].pc = "flag")
  <2>1. ASSUME rows[r] # None
        PROVE  /\ p \in Row /\ p.item = rows[r].item /\ p.desired = rows[r].desired
               /\ p.skipped = (job[j].pc = "flag")
    <3>1. rows[r] \in Row  BY <2>1 DEF IInv, TypeOK
    <3> QED  BY <2>1, <3>1 DEF Row
  <2> QED  BY <1>3, <2>1, FluvOutboxAssumption
<1> HIDE DEF p
<1>6. /\ Aside(i) /\ GoneStays /\ RowsOf(i)' = RowsOf(i)
      /\ rows'[r] = p /\ \A s \in Ids \ {r} : rows'[s] = rows[s]
  BY <1>0, <1>3, <1>4, <1>5, RowMirrors
<1>7. ActiveRows(i)' = {} /\ NoneActive(i)'
  BY <1>3, <1>5, <1>6 DEF NoneActive, ActiveRows, RowsOf
<1>8. LastActive(i)'  BY <1>7 DEF LastActive
<1>9. job[j].pc = "flag" => Bought(i, it)'
  <2> SUFFICES ASSUME job[j].pc = "flag", i \notin untracked
               PROVE  RowsOf(i)' # {} /\ rows'[Latest(RowsOf(i)')].skipped
    BY <1>0 DEF Bought, CostOf
  <2>1. r \in RowsOf(i) /\ \A s \in RowsOf(i) : s <= r
    BY <1>3 DEF Newest
  <2>2. Latest(RowsOf(i)) \in RowsOf(i) /\ r <= Latest(RowsOf(i))
    BY <2>1, LatestIsLast DEF RowsOf
  <2>3. Latest(RowsOf(i)) = r
    BY <2>1, <2>2, FluvOutboxAssumption DEF RowsOf, Ids
  <2>4. rows[r] # None  BY <2>1 DEF RowsOf
  <2> QED  BY <1>5, <1>6, <2>1, <2>3, <2>4
<1>10. rows'[r] # None => rows'[r].item = i
  BY <1>5, <1>6
<1>11. MirrorOf(job[j])'
  BY <1>0, <1>1, <1>2, <1>3, <1>7, <1>9, <1>10, <1>a DEF MirrorOf, OnRow
<1> QED  BY <1>1, <1>6, <1>8, <1>11, <1>a, TurnKeeps

\* It is filed in another account, or is to be cancelled and queued again.
LEMMA FilePurchaseMirrors ==
    ASSUME IInv, MirrorInv, InTurn, NEW j \in Jobs, FilePurchase(j)
    PROVE  MirrorInv'
<1>0. /\ job[j].pc \in {"file", "refile"} /\ UNCHANGED <<items, untracked>>
      /\ job[j] \in Job
  BY DEF FilePurchase, OnOutbox, IInv, TypeOK
<1>1. PICK i \in Items, it \in ItemState, r \in Ids :
          i = job[j].item /\ it = job[j].after /\ it = items[i] /\ r = job[j].row
  <2>1. job[j].row \in Ids  BY <1>0 DEF IInv, JobOK, OnRow
  <2> QED  BY <1>0, <2>1, AtWork DEF MirrorInv, MirrorOf
<1>2. /\ it.done /\ LastActive(i) /\ (rows[r] # None => rows[r].item = i)
      /\ job[j].pc = "file" => NoneActive(i) /\ Bought(i, it)
      /\ job[j].pc = "refile" => ActiveRows(i) \subseteq {r} /\ Mirrored(i, it)
  BY <1>0, <1>1 DEF MirrorInv, MirrorOf, OnRow
<1>3. Mirrored(i, it)
  BY <1>0, <1>2 DEF Mirrored, Priced, NoneActive
<1> DEFINE p == IF CanRefile(rows[r]) THEN [rows[r] EXCEPT !.account = job[j].account]
                ELSE rows[r]
<1>4. rows' = [rows EXCEPT ![r] = p]
  BY <1>1 DEF FilePurchase, IInv, TypeOK
<1>5. /\ rows[r] = None => p = None
      /\ rows[r] # None => /\ p # None /\ p.item = i /\ p.desired = rows[r].desired
                           /\ p.amount = rows[r].amount /\ p.skipped = rows[r].skipped
  <2>1. rows[r] = None => p = None  BY DEF CanRefile
  <2>2. ASSUME rows[r] # None
        PROVE  /\ p \in Row /\ p.item = rows[r].item /\ p.desired = rows[r].desired
               /\ p.amount = rows[r].amount /\ p.skipped = rows[r].skipped
    <3>1. rows[r] \in Row /\ job[j].account \in Accounts
      BY <1>0, <2>2 DEF IInv, TypeOK, Job
    <3> QED  BY <2>2, <3>1 DEF Row
  <2> QED  BY <1>2, <2>1, <2>2, FluvOutboxAssumption
<1> HIDE DEF p
<1>6. /\ Aside(i) /\ GoneStays /\ RowsOf(i)' = RowsOf(i)
      /\ rows'[r] = p /\ \A s \in Ids \ {r} : rows'[s] = rows[s]
  BY <1>0, <1>2, <1>4, <1>5, RowMirrors
<1>7. ItemKept(i)
  BY <1>0, <1>5, <1>6 DEF ItemKept, RowsOf
<1>8. /\ LastActive(i)' /\ Mirrored(i, it)'
      /\ ActiveRows(i) \subseteq {r} => ActiveRows(i)' \subseteq {r}
  BY <1>2, <1>3, <1>7, KeptItem DEF Mirrored
<1>9. CASE job[j].pc = "file" \/ CanRefile(rows[r])
  <2>1. SetJob(j, IdleJob)
    BY <1>1, <1>9 DEF FilePurchase
  <2>2. job'[j] = IdleJob /\ \A k \in Jobs \ {j} : job'[k] = job[k] /\ job[k].item # i
    BY <1>0, <1>1, <2>1, TheOthers
  <2>3. Mirrored(i, items[i])'
    BY <1>0, <1>1, <1>8 DEF Mirrored, Priced, Bought
  <2> QED  BY <1>1, <1>6, <1>8, <2>2, <2>3, TurnKeeps
<1>10. CASE ~(job[j].pc = "file" \/ CanRefile(rows[r]))
  <2> DEFINE new == [job[j] EXCEPT !.pc = "cancel", !.then = "insert"]
  <2>1. SetJob(j, new)
    BY <1>1, <1>10 DEF FilePurchase
  <2>2. /\ new.pc = "cancel" /\ new.then = "insert" /\ new.item = i /\ new.after = it
        /\ new.row = r
    BY <1>0, <1>1 DEF Job
  <2> HIDE DEF new
  <2>3. job'[j] = new /\ \A k \in Jobs \ {j} : job'[k] = job[k] /\ job[k].item # i
    BY <1>0, <1>1, <2>1, TheOthers
  <2>4. /\ ActiveRows(i)' \subseteq {r} /\ (rows'[r] # None => rows'[r].item = i)
    BY <1>0, <1>2, <1>5, <1>6, <1>8, <1>10
  <2>5. MirrorOf(job[j])'
    BY <1>0, <1>1, <1>2, <2>2, <2>3, <2>4 DEF MirrorOf, OnRow
  <2> QED  BY <1>1, <1>6, <1>8, <2>2, <2>3, <2>5, TurnKeeps
<1> QED  BY <1>9, <1>10

\* A purchase's options are read off the item's newest row, the only one that may be active.
LEMMA ReadPurchaseMirrors ==
    ASSUME IInv, MirrorInv, InTurn', NEW j \in Jobs, ReadPurchase(j)
    PROVE  MirrorInv'
<1>0. job[j].pc = "idle" /\ UNCHANGED <<items, rows, untracked>>
  BY DEF ReadPurchase, outbox, ghosts
<1>b. PICK i \in Items, account \in Accounts, skip \in BOOLEAN :
        /\ items[i].done /\ RowsOf(i) # {}
        /\ LET r == Latest(RowsOf(i))
               p == rows[r]
               at(pc, then) == [IdleJob EXCEPT !.pc = pc, !.item = i, !.user = p.user, !.row = r,
                                               !.after = items[i], !.account = account,
                                               !.then = then]
           IN  /\ p.desired = "record" \/ p.skipped
               /\ SetJob(j, CASE p.skipped /\ skip -> at("file", "idle")
                              [] ~p.skipped /\ skip -> at("cancel", "flag")
                              [] p.skipped /\ ~skip -> at("unflag", "insert")
                              [] OTHER -> IF p.account = account THEN IdleJob
                                          ELSE at("refile", "idle"))
  BY DEF ReadPurchase
<1>c. PICK r : r = Latest(RowsOf(i))  OBVIOUS
<1>d. PICK p : p = rows[r]  OBVIOUS
<1> DEFINE At(pc, then) == [IdleJob EXCEPT !.pc = pc, !.item = i, !.user = p.user, !.row = r,
                                           !.after = items[i], !.account = account,
                                           !.then = then]
<1>1. /\ items[i].done /\ RowsOf(i) # {}
      /\ r = Latest(RowsOf(i)) /\ p = rows[r] /\ (p.desired = "record" \/ p.skipped)
      /\ p.skipped /\ skip => SetJob(j, At("file", "idle"))
      /\ ~p.skipped /\ skip => SetJob(j, At("cancel", "flag"))
      /\ p.skipped /\ ~skip => SetJob(j, At("unflag", "insert"))
      /\ ~p.skipped /\ ~skip => SetJob(j, IF p.account = account THEN IdleJob
                                          ELSE At("refile", "idle"))
  BY <1>b, <1>c, <1>d
<1>2. /\ r \in RowsOf(i) /\ r \in Ids /\ rows[r] # None /\ rows[r].item = i
      /\ \A s \in RowsOf(i) : s <= r
  BY <1>1, LatestIsLast DEF RowsOf
<1>3. LastActive(i)  BY DEF MirrorInv
<1>4. ActiveRows(i) \subseteq {r}
  <2>1. ASSUME NEW s \in ActiveRows(i) PROVE s = r
    <3>1. s \in RowsOf(i)  BY DEF ActiveRows
    <3>2. s <= r /\ r <= s  BY <1>2, <1>3, <3>1 DEF LastActive
    <3> QED  BY <1>2, <3>1, <3>2, FluvOutboxAssumption DEF RowsOf, Ids
  <2> QED  BY <2>1
<1>5. /\ p.skipped => NoneActive(i)
      /\ p.skipped \in BOOLEAN
  <2>1. rows[r] \in Row /\ (rows[r].skipped => rows[r].desired = "cancel")
    BY <1>2 DEF IInv, TypeOK, RowOK
  <2> QED  BY <1>1, <1>4, <2>1 DEF NoneActive, ActiveRows, Row
<1>6. Newest(i, r)  BY <1>2 DEF Newest
<1>7. PICK it : it = items[i]  OBVIOUS
<1>8. /\ Aside(i) /\ GoneStays /\ RowsOf(i)' = RowsOf(i) /\ ActiveRows(i)' = ActiveRows(i)
      /\ \A k \in Items : ItemKept(k)
  BY <1>0, SameRows
<1>9. /\ LastActive(i)' /\ ActiveRows(i)' \subseteq {r} /\ Newest(i, r)'
      /\ NoneActive(i) => NoneActive(i)'
  BY <1>3, <1>4, <1>6, <1>8, KeptItem
<1>10. ASSUME NEW new, SetJob(j, new), new.item = i, new.row = r, new.after = it,
              \/ new.pc = "file" /\ p.skipped
              \/ new.pc = "cancel" /\ new.then = "flag"
              \/ new.pc = "unflag" /\ p.skipped
              \/ new.pc = "refile"
       PROVE  MirrorInv'
  <2>1. /\ job[j].item = None /\ job'[j] = new
        /\ \A k \in Jobs \ {j} : job'[k] = job[k] /\ job[k].item # i
        /\ Mirrored(i, items[i])
    BY <1>0, <1>10, Begins
  <2>2. Mirrored(i, it)' /\ Bought(i, it)'
    BY <1>7, <1>8, <2>1, KeptItem DEF Mirrored
  <2>3. rows'[r] # None => rows'[r].item = i
    BY <1>0, <1>2
  <2>4. MirrorOf(job[j])'
    BY <1>0, <1>1, <1>5, <1>7, <1>9, <1>10, <2>1, <2>2, <2>3 DEF MirrorOf, OnRow
  <2> QED  BY <1>8, <1>9, <1>10, <2>1, <2>4, TurnKeeps
<1>11. \A pc, then : /\ At(pc, then).pc = pc /\ At(pc, then).then = then
                     /\ At(pc, then).item = i /\ At(pc, then).row = r
                     /\ At(pc, then).after = it
  BY <1>7 DEF IdleJob
<1>12. CASE p.skipped /\ skip
  <2>1. SetJob(j, At("file", "idle"))  BY <1>1, <1>12
  <2> HIDE DEF At
  <2> QED  BY <1>10, <1>11, <1>12, <2>1
<1>13. CASE ~p.skipped /\ skip
  <2>1. SetJob(j, At("cancel", "flag"))  BY <1>1, <1>13
  <2> HIDE DEF At
  <2> QED  BY <1>10, <1>11, <2>1
<1>14. CASE p.skipped /\ ~skip
  <2>1. SetJob(j, At("unflag", "insert"))  BY <1>1, <1>14
  <2> HIDE DEF At
  <2> QED  BY <1>10, <1>11, <1>14, <2>1
<1>15. CASE ~p.skipped /\ ~skip /\ p.account # account
  <2>1. SetJob(j, At("refile", "idle"))  BY <1>1, <1>15
  <2> HIDE DEF At
  <2> QED  BY <1>10, <1>11, <2>1
<1>16. CASE ~p.skipped /\ ~skip /\ p.account = account
  <2>1. SetJob(j, IdleJob)  BY <1>1, <1>16
  <2>2. UNCHANGED job
    BY <1>0, <2>1 DEF SetJob, MirrorInv, MirrorOf, IInv, TypeOK
  <2> QED  BY <1>0, <1>8, <2>2, KeepsMirror
<1> QED  BY <1>5, <1>12, <1>13, <1>14, <1>15, <1>16

\* The purchases of item i forget it.
LEMMA DetachedMirrors ==
    ASSUME IInv, NEW i \in Items, rows' = Detached(RowsOf(i)), UNCHANGED untracked,
           \A k \in Items \ {i} : items'[k] = items[k]
    PROVE  /\ Aside(i) /\ GoneStays /\ LastActive(i)'
           /\ ~items'[i].done => Mirrored(i, items[i])'
<1>1. ASSUME NEW r \in Ids
      PROVE  /\ rows[r] = None => rows'[r] = None
             /\ r \in RowsOf(i) => rows'[r].item = None
             /\ r \notin RowsOf(i) => rows'[r] = rows[r]
  <2>1. rows[r] \in Row \cup {None}  BY DEF IInv, TypeOK
  <2>2. rows'[r] = IF r \in RowsOf(i) THEN [rows[r] EXCEPT !.item = None] ELSE rows[r]
    BY DEF Detached
  <2>3. ASSUME r \in RowsOf(i) PROVE [rows[r] EXCEPT !.item = None].item = None
    <3>1. rows[r] \in Row  BY <2>1, <2>3 DEF RowsOf
    <3> QED  BY <3>1 DEF Row
  <2> QED  BY <2>2, <2>3 DEF RowsOf
<1>2. Aside(i)
  BY <1>1 DEF Aside, RowsOf
<1>3. GoneStays
  BY <1>1 DEF GoneStays
<1>4. RowsOf(i)' = {} /\ ActiveRows(i)' = {}
  <2>1. \A r \in Ids : ~(rows'[r] # None /\ rows'[r].item = i)
    BY <1>1, FluvOutboxAssumption DEF RowsOf
  <2>2. RowsOf(i)' = {}  BY <2>1 DEF RowsOf
  <2> QED  BY <2>2 DEF ActiveRows
<1>5. LastActive(i)'  BY <1>4 DEF LastActive
<1>6. ~items'[i].done => Mirrored(i, items[i])'
  BY <1>4 DEF Mirrored, Priced, Bought
<1> QED  BY <1>2, <1>3, <1>5, <1>6

\* An item to buy again has its purchases until they are detached.
LEMMA ReactivateMirrors ==
    ASSUME IInv, MirrorInv, InTurn', NEW j \in Jobs, Reactivate(j)
    PROVE  MirrorInv'
<1>0. job[j].pc = "idle" /\ UNCHANGED <<rows, untracked>>
  BY DEF Reactivate, outbox, ghosts
<1>1. PICK i \in Items :
        /\ items' = [items EXCEPT ![i] = [done |-> FALSE, paid |-> None]]
        /\ SetJob(j, [IdleJob EXCEPT !.pc = "detach", !.item = i])
  BY DEF Reactivate
<1> DEFINE new == [IdleJob EXCEPT !.pc = "detach", !.item = i]
<1>2. new.pc = "detach" /\ new.item = i /\ SetJob(j, new)
  BY <1>1 DEF IdleJob
<1> HIDE DEF new
<1>3. ~items'[i].done /\ \A k \in Items \ {i} : items'[k] = items[k]
  BY <1>1 DEF IInv, TypeOK
<1>4. /\ job[j].item = None /\ job'[j] = new
      /\ \A k \in Jobs \ {j} : job'[k] = job[k] /\ job[k].item # i
  BY <1>0, <1>2, Begins
<1>5. LastActive(i)' /\ Aside(i) /\ GoneStays
  BY <1>0, <1>3, SameRows, KeptItem DEF MirrorInv
<1>6. MirrorOf(job[j])'
  BY <1>2, <1>3, <1>4 DEF MirrorOf, OnRow
<1> QED  BY <1>2, <1>4, <1>5, <1>6, TurnKeeps

\* It has none then.
LEMMA DetachPurchasesMirrors ==
    ASSUME IInv, MirrorInv, InTurn, NEW j \in Jobs, DetachPurchases(j)
    PROVE  MirrorInv'
<1>0. job[j].pc = "detach" /\ SetJob(j, IdleJob) /\ UNCHANGED <<items, untracked>>
  BY DEF DetachPurchases, Goto, OnOutbox
<1>1. PICK i \in Items :
          /\ i = job[j].item /\ job'[j] = IdleJob /\ ~items[i].done
          /\ \A k \in Jobs \ {j} : job'[k] = job[k] /\ job[k].item # i
  BY <1>0, TheOthers DEF MirrorInv, MirrorOf
<1>2. rows' = Detached(RowsOf(i))
  BY <1>1 DEF DetachPurchases
<1>3. /\ Aside(i) /\ GoneStays /\ LastActive(i)' /\ Mirrored(i, items[i])'
  BY <1>0, <1>1, <1>2, DetachedMirrors
<1> QED  BY <1>1, <1>3, TurnKeeps

\* A deleted item's too, and the item that takes its place has none.
LEMMA DeleteItemMirrors ==
    ASSUME IInv, MirrorInv, NEW i \in Items, DeleteItem(i)
    PROVE  MirrorInv'
<1>1. /\ ~items'[i].done /\ \A k \in Items \ {i} : items'[k] = items[k]
      /\ rows' = Detached(RowsOf(i)) /\ UNCHANGED <<job, untracked>>
      /\ \A j \in Jobs : job[j].item # i
  BY DEF DeleteItem, ghosts, IInv, TypeOK
<1>2. /\ Aside(i) /\ GoneStays /\ LastActive(i)' /\ Mirrored(i, items[i])'
  BY <1>1, DetachedMirrors
<1>3. \A k \in Items \ {i} : ItemKept(k)
  BY <1>2, AsideKept
<1>4. \A k \in Items : LastActive(k)'
  BY <1>2, <1>3, KeptItem DEF MirrorInv
<1>5. ASSUME NEW k \in Items, k # i, Quiet(k)' PROVE Mirrored(k, items[k])'
  <2>1. Mirrored(k, items[k])  BY <1>1, <1>5 DEF Quiet, MirrorInv
  <2>2. \A x : Priced(k, x) => Priced(k, x)'  BY <1>3, <1>5, KeptItem
  <2>3. \A x : Bought(k, x) => Bought(k, x)'  BY <1>3, <1>5, KeptItem
  <2>4. items'[k] = items[k]  BY <1>1, <1>5
  <2>5. Priced(k, items[k])' /\ Bought(k, items[k])'
    BY <2>1, <2>2, <2>3, <2>4 DEF Mirrored
  <2> QED  BY <2>5 DEF Mirrored
<1>6. ASSUME NEW j \in Jobs PROVE MirrorOf(job[j])'
  BY <1>1, <1>2, <1>3, KeptRequest DEF MirrorInv
<1> QED  BY <1>2, <1>4, <1>5, <1>6 DEF MirrorInv

-----------------------------------------------------------------------------
\* Steps that are no request's leave the items' purchases as they are.

\* A step that changes nothing of what a purchase is for.
LEMMA SameForm ==
    ASSUME UNCHANGED <<items, job, untracked>>, IInv, MirrorInv,
           \A r \in Ids : rows[r] = None => rows'[r] = None,
           \A r \in Ids : rows[r] # None =>
              /\ rows'[r] # None /\ rows'[r].item = rows[r].item
              /\ rows'[r].desired = rows[r].desired /\ rows'[r].amount = rows[r].amount
              /\ rows'[r].skipped = rows[r].skipped
    PROVE  MirrorInv'
<1>1. GoneStays  BY DEF GoneStays
<1>2. ASSUME NEW i \in Items PROVE ItemKept(i)
  BY DEF ItemKept, RowsOf
<1> QED  BY <1>1, <1>2, KeepsMirror

\* Retrying, which touches what failed.
LEMMA RetryMirrors ==
    ASSUME IInv, MirrorInv, NEW u, RetryFailed(u), UNCHANGED <<items, job, untracked>>
    PROVE  MirrorInv'
<1>1. ASSUME NEW r \in Ids
      PROVE  rows'[r] = rows[r]
             \/ (rows[r] # None /\ rows'[r] = [rows[r] EXCEPT !.failed = FALSE, !.attempts = 0])
  BY DEF RetryFailed
<1>2. ASSUME NEW r \in Ids, rows[r] # None
      PROVE  /\ rows'[r] # None /\ rows'[r].item = rows[r].item
             /\ rows'[r].desired = rows[r].desired /\ rows'[r].amount = rows[r].amount
             /\ rows'[r].skipped = rows[r].skipped
  <2>1. rows[r] \in Row  BY <1>2 DEF IInv, TypeOK
  <2>2. CASE rows'[r] = rows[r]  BY <1>2, <2>2
  <2>3. CASE rows'[r] = [rows[r] EXCEPT !.failed = FALSE, !.attempts = 0]
    <3>0. Sound(rows[r])  BY <1>2, RowsAreSound
    <3>a. Evolves(rows[r], rows'[r])  BY <2>3, <3>0, RetriedEvolves
    <3>1. rows'[r] \in Row  BY <3>a DEF Evolves
    <3>2. /\ rows'[r].item = rows[r].item
          /\ rows'[r].desired = rows[r].desired /\ rows'[r].amount = rows[r].amount
          /\ rows'[r].skipped = rows[r].skipped
      BY <2>1, <2>3 DEF Row
    <3> QED  BY <3>1, <3>2, FluvOutboxAssumption
  <2> QED  BY <1>1, <2>2, <2>3
<1>3. \A r \in Ids : rows[r] = None => rows'[r] = None
  BY <1>1
<1> QED  BY <1>2, <1>3, SameForm

\* Rows that go, their items marked if that was their last purchase.
LEMMA RowsGoMirrors ==
    ASSUME IInv, MirrorInv, UNCHANGED <<items, job>>, NEW ids \in SUBSET Ids,
           \A r \in Ids : rows'[r] = IF r \in ids THEN None ELSE rows[r],
           untracked' = untracked \cup Losing(ids)
    PROVE  MirrorInv'
<1>1. GoneStays  BY DEF GoneStays
<1>2. ASSUME NEW i \in Items PROVE ItemKept(i)
  <2>1. ASSUME i \notin untracked', ActiveRows(i)' = {} PROVE RowsOf(i) \subseteq RowsOf(i)'
    <3>1. ActiveRows(i) \ ids = {}
      <4>1. \A r \in ActiveRows(i) \ ids : r \in ActiveRows(i)'
        BY DEF ActiveRows, RowsOf
      <4> QED  BY <2>1, <4>1
    <3>2. i \notin {rows[r].item : r \in ids}
      BY <2>1, <3>1 DEF Losing
    <3>3. RowsOf(i) \cap ids = {}
      BY <3>2 DEF RowsOf
    <3> QED  BY <3>3 DEF RowsOf
  <2> QED  BY <2>1 DEF ItemKept, RowsOf
<1> QED  BY <1>1, <1>2, KeepsMirror

\* The sender's steps that write a row.
LEMMA SenderRowMirrors ==
    ASSUME IInv, MirrorInv, UNCHANGED <<items, job, untracked>>, NEW r \in Ids, NEW p,
           rows' = [rows EXCEPT ![r] = p],
           rows[r] = None => p = None,
           rows[r] # None => /\ p # None /\ p.item = rows[r].item
                             /\ p.desired = rows[r].desired /\ p.amount = rows[r].amount
                             /\ p.skipped = rows[r].skipped
    PROVE  MirrorInv'
<1>1. rows'[r] = p /\ \A s \in Ids \ {r} : rows'[s] = rows[s]
  BY DEF IInv, TypeOK
<1>2. \A s \in Ids : rows[s] = None => rows'[s] = None
  BY <1>1
<1>3. \A s \in Ids : rows[s] # None =>
              /\ rows'[s] # None /\ rows'[s].item = rows[s].item
              /\ rows'[s].desired = rows[s].desired /\ rows'[s].amount = rows[s].amount
              /\ rows'[s].skipped = rows[s].skipped
  BY <1>1
<1> QED  BY <1>2, <1>3, SameForm

\* A row claimed is on the wire, and what it is for has not changed.
LEMMA ClaimMirrors ==
    ASSUME IInv, MirrorInv, NEW r \in Ids, Claim(r)
    PROVE  MirrorInv'
<1> DEFINE p == [rows[r] EXCEPT !.inFlight = TRUE]
<1>1. /\ rows[r] # None /\ rows' = [rows EXCEPT ![r] = p]
      /\ UNCHANGED <<items, job, untracked>>
  BY DEF Claim, OnSending
<1>2. /\ p \in Row /\ p.item = rows[r].item
      /\ p.desired = rows[r].desired /\ p.amount = rows[r].amount
      /\ p.skipped = rows[r].skipped
  <2>1. rows[r] \in Row  BY <1>1 DEF IInv, TypeOK
  <2> QED  BY <2>1 DEF Row
<1>3. p # None  BY <1>2, FluvOutboxAssumption
<1> HIDE DEF p
<1> QED  BY <1>1, <1>2, <1>3, SenderRowMirrors

\* Nor when its outcome is recorded.
LEMMA FinishMirrors ==
    ASSUME IInv, MirrorInv, Finish
    PROVE  MirrorInv'
<1>1. /\ sender.pc = "finish" /\ UNCHANGED <<items, job, untracked>>
      /\ rows' = IF rows[sender.row] = None THEN rows
                 ELSE [rows EXCEPT ![sender.row] = Finished(rows[sender.row])]
  BY DEF Finish, OnSending
<1>2. PICK r \in Ids : r = sender.row
  BY <1>1 DEF IInv, SenderOK
<1> DEFINE p == IF rows[r] = None THEN None ELSE Finished(rows[r])
<1>3. rows' = [rows EXCEPT ![r] = p]
  BY <1>1, <1>2 DEF IInv, TypeOK
<1>4. ASSUME rows[r] # None
      PROVE  /\ p # None /\ p.item = rows[r].item
             /\ p.desired = rows[r].desired /\ p.amount = rows[r].amount
             /\ p.skipped = rows[r].skipped
  <2>1. rows[r] \in Row
    BY <1>4 DEF IInv, TypeOK
  <2>2. p = Finished(rows[r])  BY <1>4
  <2>3. Finished(rows[r]) \in Row
    BY <1>1, <1>2, <1>4, FinishedIsSound
  <2>4. /\ Finished(rows[r]).item = rows[r].item
        /\ Finished(rows[r]).desired = rows[r].desired
        /\ Finished(rows[r]).amount = rows[r].amount
        /\ Finished(rows[r]).skipped = rows[r].skipped
    BY <2>1 DEF Finished, Row
  <2> QED  BY <2>2, <2>3, <2>4, FluvOutboxAssumption
<1> HIDE DEF p
<1>5. rows[r] = None => p = None  BY DEF p
<1> QED  BY <1>1, <1>3, <1>4, <1>5, SenderRowMirrors

\* Nor when it is released.
LEMMA ReleaseMirrors ==
    ASSUME IInv, MirrorInv, Release
    PROVE  MirrorInv'
<1>1. ASSUME NEW r \in Ids
      PROVE  rows'[r] = rows[r]
             \/ (rows[r] # None /\ rows'[r] = [rows[r] EXCEPT !.inFlight = FALSE])
  BY DEF Release
<1>2. ASSUME NEW r \in Ids, rows[r] # None
      PROVE  /\ rows'[r] # None /\ rows'[r].item = rows[r].item
             /\ rows'[r].desired = rows[r].desired /\ rows'[r].amount = rows[r].amount
             /\ rows'[r].skipped = rows[r].skipped
  <2>1. rows[r] \in Row  BY <1>2 DEF IInv, TypeOK
  <2>2. CASE rows'[r] = rows[r]  BY <1>2, <2>2
  <2>3. CASE rows'[r] = [rows[r] EXCEPT !.inFlight = FALSE]
    <3>1. /\ rows'[r] \in Row /\ rows'[r].item = rows[r].item
          /\ rows'[r].desired = rows[r].desired /\ rows'[r].amount = rows[r].amount
          /\ rows'[r].skipped = rows[r].skipped
      BY <2>1, <2>3 DEF Row
    <3> QED  BY <3>1, FluvOutboxAssumption
  <2> QED  BY <1>1, <2>2, <2>3
<1>3. \A r \in Ids : rows[r] = None => rows'[r] = None
  BY <1>1
<1>4. UNCHANGED <<items, job, untracked>>  BY DEF Release, OnSending
<1> QED  BY <1>2, <1>3, <1>4, SameForm

\* A step that writes no row.
LEMMA ElsewhereMirrors ==
    ASSUME IInv, MirrorInv, UNCHANGED <<items, rows, job, untracked>>
    PROVE  MirrorInv'
BY SameForm

\* In the beginning nothing is bought.
LEMMA InitMirrors == Init => MirrorInv
<1> SUFFICES ASSUME Init PROVE MirrorInv
  OBVIOUS
<1>1. \A i \in Items : RowsOf(i) = {} /\ ActiveRows(i) = {} /\ ~items[i].done
  BY DEF Init, RowsOf, ActiveRows
<1>2. \A i \in Items : LastActive(i) /\ Mirrored(i, items[i])
  BY <1>1 DEF LastActive, Mirrored, Priced, Bought
<1>3. \A j \in Jobs : job[j] = IdleJob  BY DEF Init
<1>4. ASSUME NEW j \in Jobs PROVE MirrorOf(job[j])
  BY <1>3 DEF MirrorOf, IdleJob, OnRow
<1> QED  BY <1>2, <1>4 DEF MirrorInv

\* Every step keeps it, if none is a crash or an abort and requests come in turn.
LEMMA NextMirrors ==
    ASSUME Faults \cap {"crash", "abort"} = {}, IInv, MirrorInv, InTurn, InTurn', [Next]_vars
    PROVE  MirrorInv'
<1>1. ASSUME NEW j \in Jobs, Request(j) PROVE MirrorInv'
  BY <1>1, ReadItemMirrors, ReadPurchaseMirrors, ReactivateMirrors DEF Request
<1>2. ASSUME NEW j \in Jobs, Step(j) PROVE MirrorInv'
  BY <1>2, WriteItemMirrors, RecordPurchaseMirrors, UncheckMirrors, LookUpMirrors,
     CancelPurchaseMirrors, CorrectMirrors, RepriceMirrors, InsertPurchaseMirrors,
     FlagSkippedMirrors, FilePurchaseMirrors, DetachPurchasesMirrors DEF Step
<1>3. ASSUME NEW j \in Jobs, Abort(j) PROVE FALSE
  BY <1>3 DEF Abort, Fault
<1>4. CASE Crash
  BY <1>4 DEF Crash, Fault
<1>5. ASSUME NEW i \in Items, DeleteItem(i) PROVE MirrorInv'
  BY <1>5, DeleteItemMirrors
<1>6. ASSUME NEW u \in Users, SaveConnection(u) \/ Retry(u) PROVE MirrorInv'
  BY <1>6, RetryMirrors DEF SaveConnection, Retry
<1>7. ASSUME NEW u \in Users, Disconnect(u) PROVE MirrorInv'
  <2> DEFINE theirs == {r \in Ids : rows[r] # None /\ rows[r].user = u}
  <2>1. /\ UNCHANGED <<items, job>> /\ theirs \in SUBSET Ids
        /\ \A r \in Ids : rows'[r] = IF r \in theirs THEN None ELSE rows[r]
        /\ untracked' = untracked \cup Losing(theirs)
    BY <1>7 DEF Disconnect
  <2> HIDE DEF theirs
  <2> QED  BY <2>1, RowsGoMirrors
<1>8. ASSUME NEW r \in Ids, Prune(r) PROVE MirrorInv'
  <2>1. /\ UNCHANGED <<items, job>> /\ {r} \in SUBSET Ids
        /\ \A s \in Ids : rows'[s] = IF s \in {r} THEN None ELSE rows[s]
        /\ untracked' = untracked \cup Losing({r})
    BY <1>8 DEF Prune, IInv, TypeOK
  <2> QED  BY <2>1, RowsGoMirrors
<1>9. CASE Sends
  <2>1. CASE Drop \/ Send
    BY <2>1, ElsewhereMirrors DEF Drop, Send, Deliver, TimeOut, Delay, Refuse, OnSending
  <2> QED  BY <1>9, <2>1, ReleaseMirrors, ClaimMirrors, FinishMirrors DEF Sends
<1>10. CASE LateArrives \/ FinishFails
  BY <1>10, ElsewhereMirrors DEF LateArrives, FinishFails, OnSending
<1>11. CASE UNCHANGED vars
  BY <1>11, ElsewhereMirrors DEF vars, outbox, ghosts
<1> QED  BY <1>1, <1>2, <1>3, <1>4, <1>5, <1>6, <1>7, <1>8, <1>9, <1>10, <1>11 DEF Next

\* The inductive invariant of the items and their purchases (service.go's record, correct,
\* cancelItem, resend and SetItemPurchase): if no request is cut short, and no two about one
\* item run at once, each point of a request knows what its item's purchases are.
THEOREM MirrorInvariance ==
    ASSUME Faults \cap {"crash", "abort"} = {}
    PROVE  Spec /\ []InTurn => []MirrorInv
<1>1. IInv /\ MirrorInv /\ InTurn /\ InTurn' /\ [Next]_vars => MirrorInv'
  BY NextMirrors
<1> QED  BY <1>1, InitMirrors, Invariance, PTL DEF Spec

\* Between the requests about an item, no purchase is meant for Fluv unless the item is
\* bought, and then at what it cost.
THEOREM PurchasesFollowItems ==
    ASSUME Faults \cap {"crash", "abort"} = {}
    PROVE  Spec /\ []InTurn => []PurchaseFollowsItem
<1>1. MirrorInv => PurchaseFollowsItem
  BY DEF MirrorInv, Mirrored, Priced, PurchaseFollowsItem
<1> QED  BY <1>1, MirrorInvariance, PTL

\* And at most one is, however often the item was checked, repriced or refiled.
THEOREM OnePurchaseEach ==
    ASSUME Faults \cap {"crash", "abort"} = {}
    PROVE  Spec /\ []InTurn => []OnePurchase
<1>1. MirrorInv => OnePurchase
  <2> SUFFICES ASSUME MirrorInv, NEW i \in Items PROVE Cardinality(ActiveRows(i)) <= 1
    BY DEF OnePurchase
  <2>1. ASSUME NEW r \in ActiveRows(i), NEW s \in ActiveRows(i) PROVE r = s
    <3>1. r <= s /\ s <= r  BY DEF MirrorInv, LastActive, ActiveRows
    <3> QED  BY <3>1, FluvOutboxAssumption DEF ActiveRows, RowsOf, Ids
  <2>2. CASE ActiveRows(i) = {}
    BY <2>2, FS_EmptySet
  <2>3. CASE ActiveRows(i) # {}
    <3>1. PICK r : ActiveRows(i) = {r}  BY <2>1, <2>3
    <3>2. Cardinality({r}) = 1  BY FS_Singleton
    <3> QED  BY <3>1, <3>2
  <2> QED  BY <2>2, <2>3
<1> QED  BY <1>1, MirrorInvariance, PTL

\* A bought item with a price has one, unless its buyer keeps it out of Fluv, or none was
\* queued (untracked: the buyer's connection was off, or its rows were removed).
THEOREM PurchasesAreKept ==
    ASSUME Faults \cap {"crash", "abort"} = {}
    PROVE  Spec /\ []InTurn => []PurchaseKept
<1>1. MirrorInv => PurchaseKept
  BY DEF MirrorInv, Mirrored, Bought, PurchaseKept
<1> QED  BY <1>1, MirrorInvariance, PTL
=============================================================================
