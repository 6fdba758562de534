------------------------- MODULE BackHistory_proofs -------------------------
(***************************************************************************)
(* The history of the app has one entry per level, or is about to have     *)
(* it, and a back closes one level, whatever modals there are and however  *)
(* backs, timers and the page's own traversals interleave.                 *)
(***************************************************************************)
EXTENDS BackHistory, SequenceTheorems, TLAPS

\* While a traversal of the page's own is pending, one is in the queue that will land
\* on an entry: the entries stay as they are until then.
OwnTraversalLands ==
    historyTraversalPending =>
        \E n \in DOMAIN traversals : /\ traversals[n].by = "page"
                                     /\ at + traversals[n].delta \in DOMAIN entries

\* The inductive invariant.
IInv == TypeOK /\ OneEntryPerLevel /\ InStep /\ OwnTraversalLands

Overlay == openOverlays \in Seq(Overlays) /\ listOpen \in BOOLEAN

-----------------------------------------------------------------------------
(* The history *)

\* The depth of the UI is a number.
LEMMA DepthType == ASSUME Overlay PROVE uiDepth \in Nat
BY DEF Overlay, uiDepth, Depth

\* What is pushed continues the entries that are kept.
LEMMA Extended ==
    ASSUME NEW s \in Seq(Nat), NEW p \in 1 .. Len(s), NEW want \in Nat, want > p - 1,
           \A n \in 1 .. Len(s) : s[n] = n - 1
    PROVE  LET e == SubSeq(s, 1, p) \o Pushed(p - 1, want)
           IN  e \in Seq(Nat) /\ Len(e) = want + 1 /\ \A n \in 1 .. want + 1 : e[n] = n - 1
<1> DEFINE kept == SubSeq(s, 1, p)
           new == Pushed(p - 1, want)
           more == want - (p - 1)
<1>0. p \in Nat /\ Len(s) \in Nat  OBVIOUS
<1>1. kept \in Seq(Nat) /\ Len(kept) = p /\ \A n \in 1 .. p : kept[n] = n - 1
  <2>1. kept \in Seq(Nat) /\ Len(kept) = p /\ \A n \in 1 .. p : kept[n] = s[n]  OBVIOUS
  <2> QED  BY <2>1
<1>2. more \in Nat /\ more + p = want + 1  OBVIOUS
<1>3. new = [k \in 1 .. more |-> p - 1 + k]  BY DEF Pushed
<1>4. \A k \in 1 .. more : p - 1 + k \in Nat  OBVIOUS
<1> HIDE DEF kept, new, more
<1>5. new \in Seq(Nat) /\ Len(new) = more /\ \A k \in 1 .. more : new[k] = p - 1 + k
  BY <1>2, <1>3, <1>4
<1> DEFINE e == kept \o new
<1>6. /\ e \in Seq(Nat) /\ Len(e) = p + more
      /\ \A n \in 1 .. p + more : e[n] = IF n <= p THEN kept[n] ELSE new[n - p]
  BY <1>1, <1>5, ConcatProperties
<1> HIDE DEF e
<1>7. ASSUME NEW n \in 1 .. want + 1 PROVE e[n] = n - 1
  <2>1. n \in Nat /\ n \in 1 .. p + more  BY <1>2
  <2>2. CASE n <= p
    <3>1. n \in 1 .. p  BY <2>1, <2>2
    <3> QED  BY <1>1, <1>6, <2>1, <2>2, <3>1
  <2>3. CASE n > p
    <3>1. n - p \in 1 .. more  BY <1>0, <1>2, <2>1, <2>3
    <3>2. new[n - p] = p - 1 + (n - p)  BY <1>5, <3>1
    <3>3. ~(n <= p)  BY <1>0, <2>1, <2>3
    <3> QED  BY <1>0, <1>6, <2>1, <3>2, <3>3
  <2> QED  BY <1>0, <2>1, <2>2, <2>3
<1>8. e \in Seq(Nat) /\ Len(e) = want + 1 /\ \A n \in 1 .. want + 1 : e[n] = n - 1
  BY <1>0, <1>2, <1>6, <1>7
<1> QED  BY <1>8, Zenon DEF e, kept, new

\* What syncHistory leaves, from any entry the browser has come to: one entry per level,
\* and a history in step unless a traversal is pending.
LEMMA Synchronised ==
    ASSUME TypeOK, OneEntryPerLevel, Overlay',
           NEW p \in DOMAIN entries, NEW pending \in BOOLEAN, NEW count \in BOOLEAN,
           syncHistory(p, pending, count)
    PROVE  /\ entries' \in Seq(Nat) /\ at' \in DOMAIN entries' /\ skippable' \in BOOLEAN
           /\ dropEntriesTimer' \in BOOLEAN
           /\ historyTraversalPending' = pending /\ activationHonored' = count
           /\ OneEntryPerLevel' /\ InStep'
           /\ pending => entries' = entries /\ at' = p
<1> DEFINE have == entries[p]
           want == uiDepth'
           push == ~pending /\ want > have /\ count
<1>1. want \in Nat  BY DepthType DEF Overlay, uiDepth, Depth
<1>2. entries \in Seq(Nat) /\ p \in 1 .. Len(entries) /\ Len(entries) \in Nat /\ have = p - 1
  BY DEF TypeOK, OneEntryPerLevel
<1>3. /\ entries' = IF push THEN SubSeq(entries, 1, p) \o Pushed(have, want) ELSE entries
      /\ at' = IF push THEN p + want - have ELSE p
      /\ skippable' = (skippable \/ (push /\ ~honored'))
      /\ dropEntriesTimer' = (dropEntriesTimer \/ (~pending /\ Extra(have, want)))
      /\ historyTraversalPending' = pending /\ activationHonored' = count
  BY DEF syncHistory
<1>4. skippable' \in BOOLEAN /\ dropEntriesTimer' \in BOOLEAN  BY <1>3 DEF TypeOK
<1>5. CASE push
  <2>1. /\ entries' = SubSeq(entries, 1, p) \o Pushed(p - 1, want)
        /\ at' = want + 1 /\ want > p - 1
    <3>1. /\ entries' = SubSeq(entries, 1, p) \o Pushed(have, want)
          /\ at' = p + want - have /\ want > have
      BY <1>3, <1>5
    <3>2. have = p - 1 /\ p \in Nat  BY <1>2
    <3> HIDE DEF have, want
    <3> QED  BY <1>1, <3>1, <3>2
  <2>2. \A n \in 1 .. Len(entries) : entries[n] = n - 1  BY <1>2 DEF OneEntryPerLevel
  <2> HIDE DEF want
  <2>3. /\ entries' \in Seq(Nat) /\ Len(entries') = want + 1
        /\ \A n \in 1 .. want + 1 : entries'[n] = n - 1
    BY <1>1, <1>2, <2>1, <2>2, Extended
  <2>4. at' \in DOMAIN entries' /\ entries'[at'] = want  BY <1>1, <2>1, <2>3
  <2>5. OneEntryPerLevel'  BY <2>3 DEF OneEntryPerLevel
  <2>6. InStep'  BY <1>1, <2>4 DEF InStep, historyDepth, want
  <2> QED  BY <1>3, <1>4, <1>5, <2>3, <2>4, <2>5, <2>6
<1>6. CASE ~push
  <2>1. entries' = entries /\ at' = p  BY <1>3, <1>6
  <2>2. OneEntryPerLevel'  BY <2>1 DEF OneEntryPerLevel
  <2>3. InStep'  BY <1>1, <1>2, <1>3, <1>6, <2>1 DEF InStep, historyDepth, Extra
  <2> QED  BY <1>2, <1>3, <1>4, <2>1, <2>2, <2>3
<1> QED  BY <1>5, <1>6

-----------------------------------------------------------------------------
(* The steps *)

\* What the user or the page does keeps the invariant.
LEMMA ChangeStep ==
    ASSUME IInv, NEW overlays \in Seq(Overlays), NEW list \in BOOLEAN, Change(overlays, list)
    PROVE  IInv'
<1>1. Overlay' /\ UNCHANGED <<traversals, left, honored>> /\ acts' \in Nat
  BY DEF Change, Overlay, Act, IInv, TypeOK
<1>2. at \in DOMAIN entries /\ historyTraversalPending \in BOOLEAN /\ activationHonored \in BOOLEAN
  BY DEF IInv, TypeOK
<1>3. /\ entries' \in Seq(Nat) /\ at' \in DOMAIN entries' /\ skippable' \in BOOLEAN
      /\ dropEntriesTimer' \in BOOLEAN /\ OneEntryPerLevel' /\ InStep'
      /\ historyTraversalPending' = historyTraversalPending
      /\ activationHonored' = activationHonored
      /\ historyTraversalPending => entries' = entries /\ at' = at
  BY <1>1, <1>2, Synchronised DEF Change, IInv
<1>4. TypeOK'  BY <1>1, <1>3 DEF IInv, TypeOK, Overlay
<1>5. OwnTraversalLands'  BY <1>1, <1>3 DEF IInv, OwnTraversalLands
<1> QED  BY <1>3, <1>4, <1>5 DEF IInv

\* goBack leaves overlays that were open.
LEMMA BackType ==
    ASSUME Overlay, NEW depth, GoBack(depth)
    PROVE  Overlay'
<1>1. PICK kept \in 0 .. Len(openOverlays) :
        openOverlays' = SubSeq(openOverlays, 1, kept) /\ listOpen' \in BOOLEAN
  BY DEF GoBack, Overlay
<1> QED  BY <1>1 DEF Overlay

\* A traversal queued keeps the queue's type and its own in it.
LEMMA Queued ==
    ASSUME TypeOK, NEW by \in {"user", "swipe", "page"}, NEW delta \in Int, Queue(by, delta)
    PROVE  /\ traversals' \in Seq([by : {"user", "swipe", "page"}, delta : Int, behind : BOOLEAN])
           /\ Len(traversals') = Len(traversals) + 1
           /\ \A n \in 1 .. Len(traversals) : traversals'[n] = traversals[n]
           /\ traversals'[Len(traversals) + 1].by = by
           /\ traversals'[Len(traversals) + 1].delta = delta
<1> DEFINE t == [by |-> by, delta |-> delta, behind |-> traversals # <<>>]
<1>1. traversals' = Append(traversals, t)  BY DEF Queue
<1>2. t \in [by : {"user", "swipe", "page"}, delta : Int, behind : BOOLEAN]  OBVIOUS
<1>3. t.by = by /\ t.delta = delta  OBVIOUS
<1> HIDE DEF t
<1> QED  BY <1>1, <1>2, <1>3 DEF TypeOK

\* A traversal asked for by the user, or by a swipe, keeps the invariant.
LEMMA QueueStep ==
    ASSUME IInv, NEW by \in {"user", "swipe"}, NEW delta \in Int, Queue(by, delta), Act,
           UNCHANGED <<openOverlays, listOpen, entries, at, flags, left>>
    PROVE  IInv'
<1>1. /\ traversals' \in Seq([by : {"user", "swipe", "page"}, delta : Int, behind : BOOLEAN])
      /\ Len(traversals') = Len(traversals) + 1
      /\ \A n \in 1 .. Len(traversals) : traversals'[n] = traversals[n]
  BY Queued DEF IInv
<1>2. TypeOK'  BY <1>1 DEF IInv, TypeOK, Act, flags
<1>3. OwnTraversalLands'
  <2> SUFFICES ASSUME historyTraversalPending'
               PROVE  \E n \in DOMAIN traversals' : /\ traversals'[n].by = "page"
                                                    /\ at' + traversals'[n].delta \in DOMAIN entries'
    BY DEF OwnTraversalLands
  <2>1. PICK n \in DOMAIN traversals : /\ traversals[n].by = "page"
                                       /\ at + traversals[n].delta \in DOMAIN entries
    BY DEF IInv, OwnTraversalLands, flags
  <2>2. n \in 1 .. Len(traversals) /\ Len(traversals) \in Nat  BY <2>1 DEF IInv, TypeOK
  <2>3. n \in DOMAIN traversals' /\ traversals'[n] = traversals[n]  BY <1>1, <2>2
  <2> QED  BY <2>1, <2>3
<1>4. OneEntryPerLevel' /\ InStep'
  BY DEF IInv, OneEntryPerLevel, InStep, flags, uiDepth, Depth, historyDepth
<1> QED  BY <1>2, <1>3, <1>4 DEF IInv

\* A swipe keeps the invariant, whether it goes through the history or not.
LEMMA SwipeStep == ASSUME IInv, requestBack PROVE IInv'
<1>1. CASE Queue("swipe", -1) /\ UNCHANGED <<openOverlays, listOpen, entries, at, flags>>
  BY <1>1, QueueStep DEF requestBack
<1>2. CASE /\ GoBack(uiDepth - 1) /\ honored' = honored
           /\ syncHistory(at, historyTraversalPending, activationHonored)
           /\ UNCHANGED traversals
  <2>1. Overlay  BY DEF IInv, TypeOK, Overlay
  <2>2. Overlay'  BY <1>2, <2>1, BackType
  <2>3. openOverlays' \in Seq(Overlays) /\ listOpen' \in BOOLEAN  BY <2>2 DEF Overlay
  <2>4. Change(openOverlays', listOpen')  BY <1>2 DEF requestBack, Change
  <2> QED  BY <2>3, <2>4, ChangeStep
<1> QED  BY <1>1, <1>2 DEF requestBack

\* The timer's drop lands on the entry of the level the UI is at.
LEMMA DropStep == ASSUME IInv, dropExtraEntries PROVE IInv'
<1>1. Overlay /\ uiDepth \in Nat  BY DepthType DEF IInv, TypeOK, Overlay
<1>2. at \in 1 .. Len(entries) /\ historyDepth = at - 1 /\ Len(entries) \in Nat
  BY DEF IInv, TypeOK, OneEntryPerLevel, historyDepth
<1>3. CASE /\ historyTraversalPending \/ ~Extra(historyDepth, uiDepth)
           /\ UNCHANGED <<traversals, historyTraversalPending>>
  BY <1>1, <1>2, <1>3 DEF dropExtraEntries, IInv, TypeOK, OneEntryPerLevel, InStep, OwnTraversalLands,
                    Extra, uiDepth, Depth, historyDepth
<1>4. CASE /\ Extra(historyDepth, uiDepth)
           /\ Queue("page", uiDepth - historyDepth) /\ historyTraversalPending' = TRUE
  <2>1. uiDepth - historyDepth \in Int  BY <1>1, <1>2
  <2>2. /\ traversals' \in Seq([by : {"user", "swipe", "page"}, delta : Int, behind : BOOLEAN])
        /\ Len(traversals') = Len(traversals) + 1
        /\ traversals'[Len(traversals) + 1].by = "page"
        /\ traversals'[Len(traversals) + 1].delta = uiDepth - historyDepth
    BY <1>4, <2>1, Queued DEF IInv
  <2>3. Len(traversals) + 1 \in DOMAIN traversals'  BY <2>2 DEF IInv, TypeOK
  <2>4. at + (uiDepth - historyDepth) \in DOMAIN entries
    BY <1>1, <1>2, <1>4 DEF Extra, IInv, TypeOK
  <2>5. OwnTraversalLands'  BY <2>2, <2>3, <2>4 DEF OwnTraversalLands, dropExtraEntries
  <2>6. TypeOK'  BY <1>4, <2>2 DEF IInv, TypeOK, dropExtraEntries
  <2>7. OneEntryPerLevel' /\ InStep'
    BY <1>4 DEF IInv, OneEntryPerLevel, InStep, dropExtraEntries
  <2> QED  BY <2>5, <2>6, <2>7 DEF IInv
<1> QED  BY <1>3, <1>4 DEF dropExtraEntries

\* What lands keeps the invariant: on an entry, nothing is pending any more; beyond the
\* entries, it was not the traversal that is pending.
LEMMA LandStep == ASSUME IInv, Land PROVE IInv'
<1> DEFINE t == Head(traversals)
           p == at + t.delta
           T == [by : {"user", "swipe", "page"}, delta : Int, behind : BOOLEAN]
<1>1. traversals \in Seq(T) /\ traversals # <<>> /\ traversals' = Tail(traversals) /\ acts' = acts
  BY DEF Land, IInv, TypeOK
<1>2. /\ traversals' \in Seq(T) /\ Len(traversals) \in Nat \ {0} /\ Len(traversals') = Len(traversals) - 1
      /\ t = traversals[1] /\ t \in T
      /\ \A n \in 2 .. Len(traversals) : traversals'[n - 1] = traversals[n]
  <2> HIDE DEF T
  <2>1. /\ traversals' \in Seq(T) /\ Len(traversals) \in Nat \ {0} /\ Len(traversals') = Len(traversals) - 1
        /\ t = traversals[1] /\ t \in T
    BY <1>1
  <2>2. \A n \in 2 .. Len(traversals) : traversals'[n - 1] = traversals[n]  BY <1>1, <2>1
  <2> QED  BY <2>1, <2>2
<1>3. CASE p \in DOMAIN entries /\ Lands(p)
  <2>1. Overlay'
    <3>1. Overlay  BY DEF IInv, TypeOK, Overlay
    <3>2. CASE UNCHANGED <<openOverlays, listOpen>>  BY <3>1, <3>2 DEF Overlay
    <3>3. CASE GoBack(entries[p])  BY <3>1, <3>3, BackType
    <3> QED  BY <1>3, <3>2, <3>3 DEF Lands
  <2>2. /\ entries' \in Seq(Nat) /\ at' \in DOMAIN entries' /\ skippable' \in BOOLEAN
        /\ dropEntriesTimer' \in BOOLEAN /\ OneEntryPerLevel' /\ InStep'
        /\ historyTraversalPending' = FALSE /\ activationHonored' = FALSE
    <3>1. syncHistory(p, FALSE, FALSE)  BY <1>3 DEF Lands, PendingAfterLand, HonoredAfterBack
    <3> QED  BY <1>3, <2>1, <3>1, Synchronised DEF IInv
  <2>3. TypeOK'  BY <1>1, <1>2, <1>3, <2>1, <2>2 DEF IInv, TypeOK, Overlay, Lands
  <2>4. OwnTraversalLands'  BY <2>2 DEF OwnTraversalLands
  <2> QED  BY <2>2, <2>3, <2>4 DEF IInv
<1>4. CASE /\ p \notin DOMAIN entries \/ t.by = "user"
           /\ left' \in BOOLEAN /\ UNCHANGED <<openOverlays, listOpen, entries, at, flags>>
  <2>1. TypeOK'  BY <1>1, <1>2, <1>4 DEF IInv, TypeOK, flags
  <2>2. OneEntryPerLevel' /\ InStep'
    BY <1>4 DEF IInv, OneEntryPerLevel, InStep, flags, uiDepth, Depth, historyDepth
  <2>3. OwnTraversalLands'
    <3> SUFFICES ASSUME historyTraversalPending'
                 PROVE  \E n \in DOMAIN traversals' : /\ traversals'[n].by = "page"
                                                      /\ at' + traversals'[n].delta \in DOMAIN entries'
      BY DEF OwnTraversalLands
    <3>1. PICK n \in DOMAIN traversals : /\ traversals[n].by = "page"
                                         /\ at + traversals[n].delta \in DOMAIN entries
      BY <1>4 DEF IInv, OwnTraversalLands, flags
    <3>2. n # 1  BY <1>2, <1>4, <3>1
    <3>3. n \in 2 .. Len(traversals)  BY <1>1, <1>2, <3>1, <3>2
    <3>4. n - 1 \in DOMAIN traversals' /\ traversals'[n - 1] = traversals[n]  BY <1>2, <3>3
    <3> QED  BY <1>4, <3>1, <3>4
  <2> QED  BY <2>1, <2>2, <2>3 DEF IInv
<1>5. DOMAIN entries = 1 .. Len(entries) /\ at \in Int /\ p \in Int
  BY <1>2 DEF IInv, TypeOK
<1>6. \/ p \in DOMAIN entries /\ Lands(p)
      \/ /\ p \notin DOMAIN entries \/ t.by = "user"
         /\ left' \in BOOLEAN /\ UNCHANGED <<openOverlays, listOpen, entries, at, flags>>
  <2>1. left \in BOOLEAN  BY DEF IInv, TypeOK
  <2>2. p < 1 => p \notin DOMAIN entries  BY <1>5
  <2> QED  BY <2>1, <2>2 DEF Land
<1> QED  BY <1>3, <1>4, <1>6

\* Every step keeps the invariant.
LEMMA Step == IInv /\ [Next]_vars => IInv'
<1> SUFFICES ASSUME IInv, [Next]_vars PROVE IInv'  OBVIOUS
<1>0. openOverlays \in Seq(Overlays) /\ listOpen \in BOOLEAN  BY DEF IInv, TypeOK
<1>1. ASSUME NEW o \in Overlays, Open(o) PROVE IInv'
  <2>1. Append(openOverlays, o) \in Seq(Overlays)  BY <1>0
  <2> QED  BY <1>0, <1>1, <2>1, ChangeStep DEF Open
<1>2. ASSUME NEW o \in Overlays, Close(o) PROVE IInv'
  <2>1. PICK n \in DOMAIN openOverlays :
          Change(SubSeq(openOverlays, 1, n - 1) \o SubSeq(openOverlays, n + 1, Len(openOverlays)), listOpen)
    BY <1>2 DEF Close
  <2>2. SubSeq(openOverlays, 1, n - 1) \in Seq(Overlays)  BY <1>0, <2>1
  <2>3. SubSeq(openOverlays, n + 1, Len(openOverlays)) \in Seq(Overlays)  BY <1>0, <2>1
  <2>4. SubSeq(openOverlays, 1, n - 1) \o SubSeq(openOverlays, n + 1, Len(openOverlays)) \in Seq(Overlays)
    BY <2>2, <2>3
  <2> QED  BY <1>0, <2>1, <2>4, ChangeStep
<1>3. CASE OpenList \/ CloseList  BY <1>0, <1>3, ChangeStep DEF OpenList, CloseList
<1>4. CASE Activate
  <2>1. Overlay'  BY <1>0, <1>4 DEF Activate, Overlay
  <2>2. at \in DOMAIN entries /\ historyTraversalPending \in BOOLEAN  BY DEF IInv, TypeOK
  <2>3. /\ entries' \in Seq(Nat) /\ at' \in DOMAIN entries' /\ skippable' \in BOOLEAN
        /\ dropEntriesTimer' \in BOOLEAN /\ OneEntryPerLevel' /\ InStep'
        /\ historyTraversalPending' = historyTraversalPending /\ activationHonored' = TRUE
        /\ historyTraversalPending => entries' = entries /\ at' = at
    BY <1>4, <2>1, <2>2, Synchronised DEF Activate, IInv
  <2>4. TypeOK'  BY <1>4, <2>1, <2>3 DEF IInv, TypeOK, Overlay, Activate, Act
  <2>5. OwnTraversalLands'  BY <1>4, <2>3 DEF IInv, OwnTraversalLands, Activate
  <2> QED  BY <2>3, <2>4, <2>5 DEF IInv
<1>5. CASE SystemBack(-1) \/ SystemBack(1)  BY <1>5, QueueStep DEF SystemBack
<1>6. CASE requestBack  BY <1>6, SwipeStep
<1>7. CASE dropExtraEntries  BY <1>7, DropStep
<1>8. CASE Land  BY <1>8, LandStep
<1>9. CASE UNCHANGED vars
  BY <1>9 DEF vars, flags, IInv, TypeOK, OneEntryPerLevel, InStep, OwnTraversalLands, uiDepth, Depth,
              historyDepth
<1> QED  BY <1>1, <1>2, <1>3, <1>4, <1>5, <1>6, <1>7, <1>8, <1>9 DEF Next

\* The inductive invariant holds, whatever levels are opened and closed and however
\* traversals cross.
THEOREM Invariance == Spec => []IInv
<1>1. Init => IInv
  <2> SUFFICES ASSUME Init PROVE IInv  OBVIOUS
  <2>1. TypeOK
    <3>1. openOverlays \in Seq(Overlays)  BY DEF Init
    <3>2. entries \in Seq(Nat) /\ at \in DOMAIN entries  BY DEF Init
    <3>3. traversals \in Seq([by : {"user", "swipe", "page"}, delta : Int, behind : BOOLEAN])
      BY DEF Init
    <3> QED  BY <3>1, <3>2, <3>3 DEF Init, TypeOK
  <2>2. OneEntryPerLevel  BY DEF Init, OneEntryPerLevel
  <2>3. InStep  BY DEF Init, InStep, uiDepth, Depth, historyDepth
  <2>4. OwnTraversalLands  BY DEF Init, OwnTraversalLands
  <2> QED  BY <2>1, <2>2, <2>3, <2>4 DEF IInv
<1> QED  BY <1>1, Step, PTL DEF Spec

\* Every variable keeps its type: the current entry is always one of the document's.
THEOREM TypeCorrect == Spec => []TypeOK
<1>1. IInv => TypeOK  BY DEF IInv
<1> QED  BY Invariance, <1>1, PTL

\* There is one entry per level, or a push waits for an activation, the timer that drops
\* entries runs, or the page's own traversal is under way: for any modals, and however
\* many acts and traversals.
THEOREM HistoryFollowsLevels == Spec => []EntriesFollowLevels
<1>1. IInv => EntriesFollowLevels
  BY DEF IInv, TypeOK, EntriesFollowLevels, OwnTraversalLands, PendingEnds
<1> QED  BY Invariance, <1>1, PTL

-----------------------------------------------------------------------------
(* A back closes one level *)

\* The browser counts an activation exactly when the page does, and so skips no entry.
Counted == honored = activationHonored /\ ~skippable

\* The user and a swipe go one entry; all but the first were queued behind another.
OneEntry(t) == t.by # "page" => t.delta \in {-1, 1}
QueueOK ==
    \A n \in DOMAIN traversals : OneEntry(traversals[n]) /\ (n # 1 => traversals[n].behind)

\* A traversal of the page's own starts above the first entry, and if it comes first it
\* is still the one pending and stays in the document.
OwnFirst ==
    /\ historyTraversalPending => at > 1
    /\ traversals # <<>> /\ traversals[1].by = "page" /\ ~traversals[1].behind =>
            historyTraversalPending /\ at + traversals[1].delta >= 1

BackInv == Counted /\ QueueOK /\ OwnFirst

\* goBack closes nothing below the depth it goes to.
LEMMA BackDepth ==
    ASSUME Overlay, NEW depth \in Int, GoBack(depth)
    PROVE  Overlay' /\ (uiDepth' >= uiDepth \/ uiDepth' >= depth)
<1> DEFINE N == Len(openOverlays)
           l == IF listOpen THEN 1 ELSE 0
           m == IF listOpen' THEN 1 ELSE 0
<1>1. PICK kept \in 0 .. N :
        /\ \A n \in DOMAIN openOverlays : n > kept =>
                Depth(SubSeq(openOverlays, 1, n), listOpen) > depth
        /\ openOverlays' = SubSeq(openOverlays, 1, kept)
        /\ listOpen' = (listOpen /\ (depth > 0 \/ kept > 0))
  BY DEF GoBack
<1>2. /\ N \in Nat /\ kept \in Nat /\ l \in 0 .. 1 /\ m \in 0 .. 1 /\ kept <= N
      /\ DOMAIN openOverlays = 1 .. N
  BY DEF Overlay
<1>3. \A n \in 0 .. N : Depth(SubSeq(openOverlays, 1, n), listOpen) = n + l
  <2>1. \A n \in 0 .. N : Len(SubSeq(openOverlays, 1, n)) = n  BY DEF Overlay
  <2> QED  BY <2>1 DEF Depth
<1>4. uiDepth = N + l /\ uiDepth' = kept + m
  <2>1. Len(SubSeq(openOverlays, 1, kept)) = kept  BY DEF Overlay
  <2> QED  BY <1>1, <2>1 DEF uiDepth, Depth
<1>5. m = l \/ (m = 0 /\ kept = 0 /\ depth <= 0)
  <2>1. CASE listOpen' /\ listOpen  BY <2>1
  <2>2. CASE ~listOpen' /\ ~listOpen  BY <2>2
  <2>3. CASE ~listOpen' /\ listOpen
    <3>1. ~(depth > 0) /\ ~(kept > 0)  BY <1>1, <2>3
    <3> QED  BY <1>2, <2>3, <3>1
  <2> QED  BY <1>1, <2>1, <2>2, <2>3
<1>6. kept = N \/ kept + 1 + l > depth
  <2> SUFFICES ASSUME kept # N PROVE kept + 1 + l > depth
    OBVIOUS
  <2> HIDE DEF N, l, m
  <2>1. kept + 1 \in 0 .. N /\ kept + 1 \in DOMAIN openOverlays /\ kept + 1 > kept
    BY <1>2
  <2> QED  BY <1>1, <1>3, <2>1
<1>7. Overlay'  BY BackType
<1> HIDE DEF N, l, m
<1> QED  BY <1>2, <1>4, <1>5, <1>6, <1>7

\* What syncHistory leaves of the browser's counting, if it counts as the page does.
LEMMA SyncCounts ==
    ASSUME Counted, NEW p, NEW pending, NEW count, syncHistory(p, pending, count),
           honored' = count
    PROVE  /\ Counted' /\ historyTraversalPending' = pending
           /\ pending => at' = p
BY DEF Counted, syncHistory

\* A step that leaves the queue.
LEMMA QueueStays ==
    ASSUME BackInv, Counted', UNCHANGED <<traversals, historyTraversalPending>>,
           historyTraversalPending => at' = at
    PROVE  BackInv'
BY DEF BackInv, QueueOK, OwnFirst

\* A traversal is queued last.
LEMMA QueuedBehind ==
    ASSUME IInv, BackInv, NEW by \in {"user", "swipe", "page"}, NEW delta \in Int,
           Queue(by, delta), at' = at, Counted',
           by # "page" => delta \in {-1, 1},
           historyTraversalPending => historyTraversalPending',
           historyTraversalPending' => at > 1,
           by = "page" => historyTraversalPending' /\ at + delta >= 1
    PROVE  BackInv' /\ (traversals # <<>> => traversals' # Tail(traversals))
<1> DEFINE N == Len(traversals)
           t == [by |-> by, delta |-> delta, behind |-> traversals # <<>>]
           T == [by : {"user", "swipe", "page"}, delta : Int, behind : BOOLEAN]
<1>1. /\ traversals \in Seq(T) /\ N \in Nat /\ t \in T
      /\ traversals' = Append(traversals, t)
  BY DEF Queue, IInv, TypeOK
<1>2. t.by = by /\ t.delta = delta /\ (t.behind <=> traversals # <<>>)
  OBVIOUS
<1> HIDE DEF t, T
<1>3. /\ DOMAIN traversals' = 1 .. N + 1 /\ DOMAIN traversals = 1 .. N
      /\ traversals'[N + 1] = t
      /\ \A n \in 1 .. N : traversals'[n] = traversals[n]
      /\ (traversals # <<>> <=> N # 0)
  BY <1>1
<1>4. QueueOK'
  <2> SUFFICES ASSUME NEW n \in 1 .. N + 1
               PROVE  OneEntry(traversals'[n]) /\ (n # 1 => traversals'[n].behind)
    BY <1>3 DEF QueueOK
  <2>1. CASE n = N + 1
    BY <1>1, <1>2, <1>3, <2>1 DEF OneEntry
  <2>2. CASE n # N + 1
    <3>1. n \in 1 .. N  BY <1>1, <2>2
    <3> QED  BY <1>3, <3>1 DEF BackInv, QueueOK
  <2> QED  BY <2>1, <2>2
<1>5. OwnFirst'
  <2>1. CASE N = 0
    BY <1>2, <1>3, <2>1 DEF OwnFirst
  <2>2. CASE N # 0
    <3>1. traversals'[1] = traversals[1] /\ traversals # <<>>
      BY <1>1, <1>3, <2>2
    <3> QED  BY <3>1 DEF BackInv, OwnFirst
  <2> QED  BY <2>1, <2>2
<1>6. ASSUME traversals # <<>> PROVE traversals' # Tail(traversals)
  <2>1. Len(traversals') = N + 1 /\ Len(Tail(traversals)) = N - 1
    BY <1>1, <1>6
  <2>2. N + 1 # N - 1  BY <1>1
  <2> QED  BY <2>1, <2>2
<1> QED  BY <1>4, <1>5, <1>6 DEF BackInv

\* A queue that is left is not one less.
LEMMA NotItsTail ==
    ASSUME IInv, traversals # <<>>
    PROVE  traversals # Tail(traversals)
<1>1. traversals \in Seq([by : {"user", "swipe", "page"}, delta : Int, behind : BOOLEAN])
  BY DEF IInv, TypeOK
<1> DEFINE n == Len(traversals)
           k == Len(Tail(traversals))
<1>2. k = n - 1 /\ n \in Nat  BY <1>1
<1> HIDE DEF n, k
<1>3. n # k  BY <1>2
<1>4. traversals = Tail(traversals) => n = k  BY DEF n, k
<1> QED  BY <1>3, <1>4

\* What a step may do: close one level; leave only from the dashboard; close none to drop
\* entries.
OneLevel ==
    /\ uiDepth' >= uiDepth - 1
    /\ left' /\ ~left => uiDepth = 0
    /\ traversals # <<>> /\ traversals[1].by = "page" /\ traversals' = Tail(traversals) =>
            uiDepth' >= uiDepth

\* A step that queues or drops no traversal.
LEMMA NoTraversal ==
    ASSUME IInv, UNCHANGED <<traversals, left>>, uiDepth' >= uiDepth - 1
    PROVE  OneLevel
BY NotItsTail DEF OneLevel

\* Levels opened and closed.
LEMMA ChangeBack ==
    ASSUME IInv, BackInv, NEW overlays \in Seq(Overlays), NEW list \in BOOLEAN,
           Change(overlays, list), Depth(overlays, list) >= uiDepth - 1
    PROVE  BackInv' /\ OneLevel
<1>1. /\ Counted' /\ historyTraversalPending' = historyTraversalPending
      /\ historyTraversalPending => at' = at
  BY SyncCounts DEF Change, BackInv, Counted
<1>2. BackInv'  BY <1>1, QueueStays DEF Change
<1>3. uiDepth' = Depth(overlays, list)  BY DEF Change, uiDepth, Depth
<1> QED  BY <1>2, <1>3, NoTraversal DEF Change

\* An activation.
LEMMA ActivateBack ==
    ASSUME IInv, BackInv, Activate
    PROVE  BackInv' /\ OneLevel
<1>1. /\ Counted' /\ historyTraversalPending' = historyTraversalPending
      /\ historyTraversalPending => at' = at
  BY SyncCounts DEF Activate, BackInv
<1>2. BackInv'  BY <1>1, QueueStays DEF Activate
<1>3. uiDepth' = uiDepth /\ uiDepth \in Nat
  BY DepthType DEF Activate, uiDepth, Depth, IInv, TypeOK, Overlay
<1> QED  BY <1>2, <1>3, NoTraversal DEF Activate

\* Where the history is.
LEMMA Place ==
    ASSUME IInv
    PROVE  /\ at \in Nat /\ at >= 1 /\ historyDepth = at - 1 /\ uiDepth \in Nat
           /\ \A p \in DOMAIN entries : p \in Nat /\ entries[p] = p - 1
<1>1. Overlay  BY DEF IInv, TypeOK, Overlay
<1>2. uiDepth \in Nat  BY <1>1, DepthType
<1>3. at \in 1 .. Len(entries) /\ DOMAIN entries = 1 .. Len(entries) /\ Len(entries) \in Nat
  BY DEF IInv, TypeOK
<1> QED  BY <1>2, <1>3 DEF IInv, OneEntryPerLevel, historyDepth

\* The user's back or forward, a swipe through the history.
LEMMA QueueBack ==
    ASSUME IInv, BackInv, NEW by \in {"user", "swipe"}, NEW delta \in {-1, 1}, Queue(by, delta),
           UNCHANGED <<openOverlays, listOpen, at, flags, left>>
    PROVE  BackInv' /\ OneLevel
<1>1. Counted' /\ (historyTraversalPending => at > 1)
      /\ historyTraversalPending' = historyTraversalPending
  BY DEF BackInv, Counted, OwnFirst, flags
<1>2. BackInv' /\ (traversals # <<>> => traversals' # Tail(traversals))
  BY <1>1, QueuedBehind
<1>3. uiDepth' = uiDepth /\ uiDepth \in Nat  BY Place DEF uiDepth, Depth
<1> QED  BY <1>2, <1>3 DEF OneLevel

\* A swipe.
LEMMA SwipeBack ==
    ASSUME IInv, BackInv, requestBack
    PROVE  BackInv' /\ OneLevel
<1>1. CASE Queue("swipe", -1) /\ UNCHANGED <<openOverlays, listOpen, entries, at, flags>>
  BY <1>1, QueueBack DEF requestBack
<1>2. CASE /\ GoBack(uiDepth - 1) /\ honored' = honored
           /\ syncHistory(at, historyTraversalPending, activationHonored)
           /\ UNCHANGED traversals
  <2>1. Overlay /\ uiDepth - 1 \in Int  BY Place DEF IInv, TypeOK, Overlay
  <2>2. Overlay' /\ (uiDepth' >= uiDepth \/ uiDepth' >= uiDepth - 1)
    BY <1>2, <2>1, BackDepth
  <2>3. uiDepth' \in Nat
    BY <2>2 DEF Overlay, uiDepth, Depth
  <2>4. Depth(openOverlays', listOpen') >= uiDepth - 1
    BY <2>2, <2>3, Place DEF uiDepth, Depth
  <2>5. Change(openOverlays', listOpen')  BY <1>2 DEF requestBack, Change
  <2> QED  BY <2>2, <2>4, <2>5, ChangeBack DEF Overlay
<1> QED  BY <1>1, <1>2 DEF requestBack

\* The timer that drops entries.
LEMMA DropBack ==
    ASSUME IInv, BackInv, dropExtraEntries
    PROVE  BackInv' /\ OneLevel
<1>1. Counted' /\ at' = at /\ left' = left /\ uiDepth' = uiDepth
  BY DEF dropExtraEntries, BackInv, Counted, uiDepth, Depth
<1>2. CASE UNCHANGED <<traversals, historyTraversalPending>>
  BY <1>1, <1>2, QueueStays, NoTraversal, Place
<1>3. CASE /\ Extra(historyDepth, uiDepth)
           /\ Queue("page", uiDepth - historyDepth) /\ historyTraversalPending' = TRUE
  <2>1. at > 1 /\ at + (uiDepth - historyDepth) >= 1 /\ uiDepth - historyDepth \in Int
    BY <1>3, Place DEF Extra
  <2>2. BackInv' /\ (traversals # <<>> => traversals' # Tail(traversals))
    BY <1>1, <1>3, <2>1, QueuedBehind
  <2> QED  BY <1>1, <2>2, Place DEF OneLevel
<1> QED  BY <1>2, <1>3 DEF dropExtraEntries

\* What lands: the first of the queue, and the next was queued behind it.
LEMMA LandBack ==
    ASSUME IInv, BackInv, Land
    PROVE  BackInv' /\ (activationHonored /\ ~Crossed => OneLevel)
<1> DEFINE t == traversals[1]
           p == at + t.delta
           N == Len(traversals)
           T == [by : {"user", "swipe", "page"}, delta : Int, behind : BOOLEAN]
<1>1. traversals \in Seq(T) /\ traversals # <<>> /\ traversals' = Tail(traversals)
  BY DEF Land, IInv, TypeOK
<1>2. /\ N \in Nat \ {0} /\ DOMAIN traversals = 1 .. N /\ DOMAIN traversals' = 1 .. N - 1
      /\ Head(traversals) = t /\ t \in T
      /\ \A n \in 1 .. N - 1 : traversals'[n] = traversals[n + 1]
  <2> HIDE DEF T
  <2>1. N \in Nat \ {0} /\ DOMAIN traversals = 1 .. N /\ Head(traversals) = t /\ t \in T
    BY <1>1
  <2>2. Len(traversals') = N - 1 /\ traversals' \in Seq(T)  BY <1>1
  <2>3. \A n \in 1 .. N - 1 : traversals'[n] = traversals[n + 1]  BY <1>1, <2>1
  <2> QED  BY <2>1, <2>2, <2>3
<1>3. QueueOK' /\ (traversals' # <<>> => traversals'[1].behind)
  <2>1. \A n \in 1 .. N - 1 : /\ n + 1 \in 1 .. N /\ n + 1 # 1
                              /\ OneEntry(traversals[n + 1]) /\ traversals[n + 1].behind
    BY <1>2 DEF BackInv, QueueOK
  <2>2. QueueOK'  BY <1>2, <2>1 DEF QueueOK
  <2>3. ASSUME traversals' # <<>> PROVE traversals'[1].behind
    <3>1. N - 1 # 0
      <4>1. traversals' \in Seq(T) /\ Len(traversals') = N - 1  BY <1>1
      <4> HIDE DEF T
      <4>2. Len(traversals') # 0  BY <2>3, <4>1, EmptySeq
      <4> QED  BY <4>1, <4>2
    <3>2. 1 \in 1 .. N - 1  BY <1>2, <3>1
    <3> QED  BY <1>2, <2>1, <3>2
  <2> QED  BY <2>2, <2>3
<1>4. \/ p \in DOMAIN entries /\ Lands(p)
      \/ /\ t.delta < 0 /\ (p < 1 \/ skippable)
         /\ UNCHANGED <<openOverlays, listOpen, entries, at, flags>>
      \/ UNCHANGED <<openOverlays, listOpen, entries, at, flags, left>>
  BY <1>2 DEF Land
<1>5. /\ ~skippable /\ (historyTraversalPending => at > 1)
      /\ t.by = "page" /\ ~t.behind => historyTraversalPending /\ p >= 1
      /\ t.by # "page" => t.delta \in {-1, 1}
      /\ ~historyTraversalPending /\ activationHonored => uiDepth <= at - 1
  <2>1. 1 \in DOMAIN traversals  BY <1>2
  <2>2. ~historyTraversalPending /\ activationHonored => ~(uiDepth > historyDepth)
    BY DEF IInv, InStep
  <2> QED  BY <1>1, <2>1, <2>2, Place DEF BackInv, Counted, QueueOK, OneEntry, OwnFirst
<1>6. Crossed <=> t.by = "page" /\ t.behind
  BY <1>2 DEF Crossed
<1>7. p \in Int /\ t.delta \in Int /\ t.by \in {"user", "swipe", "page"} /\ t.behind \in BOOLEAN
  BY <1>2, Place
<1> HIDE DEF p, t, T
<1>8. CASE p \in DOMAIN entries /\ Lands(p)
  <2>1. Counted' /\ historyTraversalPending' = FALSE /\ left' = left
    <3>1. syncHistory(p, FALSE, FALSE) /\ honored' = FALSE /\ left' = left
      BY <1>8 DEF Lands, PendingAfterLand, HonoredAfterBack
    <3> QED  BY <3>1, SyncCounts DEF BackInv
  <2>2. BackInv'
    BY <1>3, <2>1 DEF BackInv, OwnFirst
  <2>3. ASSUME activationHonored, ~Crossed PROVE OneLevel
    <3>1. CASE historyTraversalPending
      <4>1. uiDepth' = uiDepth  BY <1>8, <3>1 DEF Lands, uiDepth, Depth
      <4> QED  BY <2>1, <4>1, Place DEF OneLevel
    <3>2. CASE ~historyTraversalPending
      <4>1. t.by # "page"  BY <1>5, <1>6, <1>7, <2>3, <3>2
      <4>2. p >= at - 1 /\ entries[p] = p - 1
        BY <1>5, <1>7, <1>8, <4>1, Place DEF p
      <4>3. Overlay /\ entries[p] \in Int /\ GoBack(entries[p])
        BY <1>7, <1>8, <3>2, <4>2 DEF Lands, IInv, TypeOK, Overlay
      <4>4. uiDepth' >= uiDepth \/ uiDepth' >= p - 1
        BY <4>2, <4>3, BackDepth
      <4>5. uiDepth' \in Nat
        <5>1. Overlay'  BY <4>3, BackDepth
        <5> QED  BY <5>1 DEF Overlay, uiDepth, Depth
      <4>6. uiDepth <= at - 1  BY <1>5, <2>3, <3>2
      <4>7. uiDepth' >= uiDepth - 1
        BY <1>7, <4>2, <4>4, <4>5, <4>6, Place
      <4> QED  BY <2>1, <4>1, <4>7 DEF OneLevel, t
    <3> QED  BY <3>1, <3>2
  <2> QED  BY <2>2, <2>3
<1>9. CASE UNCHANGED <<openOverlays, listOpen, entries, at, flags>>
  <2>1. Counted' /\ historyTraversalPending' = historyTraversalPending /\ at' = at
        /\ uiDepth' = uiDepth
    BY <1>9 DEF BackInv, Counted, flags, uiDepth, Depth
  <2>2. BackInv'
    BY <1>3, <2>1 DEF BackInv, OwnFirst
  <2>3. ASSUME activationHonored, ~Crossed PROVE OneLevel
    <3>1. left' /\ ~left => t.delta < 0 /\ p < 1
      <4>1. CASE t.delta < 0 /\ (p < 1 \/ skippable)  BY <1>5, <4>1
      <4>2. CASE left' = left  BY <4>2
      <4>3. CASE Lands(p)  BY <4>3 DEF Lands
      <4> QED  BY <1>4, <4>1, <4>2, <4>3
    <3>2. ASSUME t.delta < 0, p < 1 PROVE uiDepth = 0
      <4>1. t.by # "page"  BY <1>5, <1>6, <1>7, <2>3, <3>2
      <4>2. at = 1  BY <1>5, <3>2, <4>1, Place DEF p
      <4> QED  BY <1>5, <2>3, <4>2, Place
    <3> QED  BY <2>1, <3>1, <3>2, Place DEF OneLevel
  <2> QED  BY <2>2, <2>3
<1> QED  BY <1>4, <1>8, <1>9

\* Every step.
LEMMA BackStep ==
    ASSUME IInv, BackInv, [Next]_vars
    PROVE  BackInv' /\ (activationHonored /\ ~Crossed => OneLevel \/ UNCHANGED vars)
<1>0. openOverlays \in Seq(Overlays) /\ listOpen \in BOOLEAN /\ uiDepth \in Nat
      /\ Len(openOverlays) \in Nat
  BY Place DEF IInv, TypeOK
<1>1. ASSUME NEW o \in Overlays, Open(o) PROVE BackInv' /\ OneLevel
  <2>1. Append(openOverlays, o) \in Seq(Overlays)
        /\ Len(Append(openOverlays, o)) = Len(openOverlays) + 1
    BY <1>0
  <2>2. Depth(Append(openOverlays, o), listOpen) >= uiDepth - 1
    BY <1>0, <2>1 DEF uiDepth, Depth
  <2> QED  BY <1>0, <1>1, <2>1, <2>2, ChangeBack DEF Open
<1>2. ASSUME NEW o \in Overlays, Close(o) PROVE BackInv' /\ OneLevel
  <2>1. PICK n \in DOMAIN openOverlays :
          Change(SubSeq(openOverlays, 1, n - 1) \o SubSeq(openOverlays, n + 1, Len(openOverlays)), listOpen)
    BY <1>2 DEF Close
  <2> DEFINE a == SubSeq(openOverlays, 1, n - 1)
             b == SubSeq(openOverlays, n + 1, Len(openOverlays))
  <2>2. a \in Seq(Overlays) /\ Len(a) = n - 1  BY <1>0, <2>1
  <2>3. b \in Seq(Overlays) /\ Len(b) = Len(openOverlays) - n  BY <1>0, <2>1
  <2>4. Change(a \o b, listOpen)  BY <2>1
  <2>5. n \in Nat  BY <1>0, <2>1
  <2> HIDE DEF a, b
  <2>6. a \o b \in Seq(Overlays) /\ Len(a \o b) = Len(openOverlays) - 1
    BY <1>0, <2>2, <2>3, <2>5
  <2>7. Depth(a \o b, listOpen) >= uiDepth - 1
    BY <1>0, <2>6 DEF uiDepth, Depth
  <2> QED  BY <1>0, <2>4, <2>6, <2>7, ChangeBack
<1>3. CASE OpenList \/ CloseList
  <2>1. \A list \in BOOLEAN : Depth(openOverlays, list) >= uiDepth - 1
    BY <1>0 DEF uiDepth, Depth
  <2> QED  BY <1>0, <1>3, <2>1, ChangeBack DEF OpenList, CloseList
<1>4. CASE SystemBack(-1) \/ SystemBack(1)
  BY <1>4, QueueBack DEF SystemBack
<1>5. CASE UNCHANGED vars
  <2>1. Counted'  BY <1>5 DEF BackInv, Counted, vars, flags
  <2>2. BackInv'  BY <1>5, <2>1, QueueStays DEF vars, flags
  <2> QED  BY <1>5, <2>2
<1> QED  BY <1>1, <1>2, <1>3, <1>4, <1>5, ActivateBack, SwipeBack, DropBack, LandBack DEF Next

\* With an activation counted and no drop queued behind another traversal, a back closes
\* one level, leaves the app only from the dashboard, and dropping entries closes none:
\* for any modals, stubborn or not, and however many acts and traversals.
THEOREM OneLevelPerBack == Spec => BackClosesOneLevel
<1>1. Init => BackInv
  BY DEF Init, BackInv, Counted, QueueOK, OwnFirst
<1>2. IInv /\ BackInv /\ [Next]_vars => BackInv'
  BY BackStep
<1>3. IInv /\ BackInv /\ [Next]_vars =>
        [activationHonored /\ ~Crossed => OneLevel]_vars
  BY BackStep
<1>4. Spec => [][activationHonored /\ ~Crossed => OneLevel]_vars
  BY <1>1, <1>2, <1>3, Invariance, PTL DEF Spec
<1> DEFINE A == \/ uiDepth' < uiDepth - 1
                \/ left' /\ ~left /\ uiDepth > 0
                \/ traversals # <<>> /\ Head(traversals).by = "page" /\ uiDepth' < uiDepth
                                    /\ traversals' = Tail(traversals)
                => ~activationHonored \/ Crossed
<1>5. TypeOK /\ TypeOK' /\ [activationHonored /\ ~Crossed => OneLevel]_vars => [A]_vars
  <2> SUFFICES ASSUME TypeOK, TypeOK', OneLevel PROVE A
    OBVIOUS
  <2>1. uiDepth \in Nat /\ uiDepth' \in Nat
    BY DEF TypeOK, uiDepth, Depth
  <2>2. traversals # <<>> => Head(traversals) = traversals[1]
    BY DEF TypeOK
  <2> QED  BY <2>1, <2>2 DEF OneLevel
<1>6. Spec => [][A]_vars
  BY <1>4, <1>5, TypeCorrect, PTL
<1> QED  BY <1>6 DEF BackClosesOneLevel
=============================================================================
