---------------------------- MODULE HandoverProofs ----------------------------
(***************************************************************************)
(* What is proved of Handover for every value of its constants.            *)
(***************************************************************************)
EXTENDS Handover, TLAPS

\* The inductive invariant.  The properties below follow from it together.

\* Rows that were not inserted yet are blank, and a scan that goes on to set the
\* stage or to mail has inserted one.
RowsInOrder ==
  /\ \A e \in EventId : e > rows => events[e].status = "none"
  /\ spc \in {"stage", "mail"} => rows >= 1

\* Between the COUNT and the INSERT nobody else creates an event for the asset.
StillUndecided ==
  spc = "insert" /\ cur.asset # NoAsset => ~LiveOn(cur.asset)

\* A claim past its UPDATE: nobody else will deliver the key of this event.
Holds(c) == cpc[c] \in {"stage", "deliver"}

Taken(e) == events[e].status \in {"claimed", "reversed"}

ClaimsExclusive ==
  /\ \A c \in Claimant : cpc[c] \in {"take", "stage", "deliver"} => cev[c] \in mailed
  /\ \A c \in Claimant : Holds(c) =>
       Taken(cev[c]) /\ \A r \in released : r.event # cev[c]
  /\ \A c, d \in Claimant : Holds(c) /\ Holds(d) /\ cev[c] = cev[d] => c = d
  /\ \A r \in released : Taken(r.event)

\* last_login_at lags behind the owner's last request by the gap at most, in the
\* row and in the snapshot of a scan that went on to the bindings.
LagBounded ==
  /\ lastSeen <= lastLogin + HeartbeatGap
  /\ snap.seen <= snap.last + HeartbeatGap
  /\ spc \notin {"idle", "ladder"} => DaysSince >= TriggerDays

IInv ==
  /\ TypeOK
  /\ RowsInOrder
  /\ StillUndecided
  /\ OneLiveEventPerAsset
  /\ ClaimsExclusive
  /\ KeyReleasedOnce
  /\ LagBounded

------------------------------------------------------------------------------
(* Type correctness *)

\* The initial state is well typed.
LEMMA InitType == Init => TypeOK
<1> SUFFICES ASSUME Init PROVE TypeOK
  OBVIOUS
<1> USE HandoverAssumption DEF HandoverAssumption, Init
<1>1. OwnerTypeOK
  BY DEF OwnerTypeOK
<1>2. EventTypeOK
  BY DEF EventTypeOK, EventId, Event, Status, NoEvent
<1>3. ScanTypeOK
  BY DEF ScanTypeOK, ScanStep, NoSnap, NoTarget
<1>4. RequestTypeOK
  BY DEF RequestTypeOK
<1> QED
  BY <1>1, <1>2, <1>3, <1>4 DEF TypeOK

\* What the loops of the scan do to its local variables.
LEMMA EndScanType ==
  ASSUME EndScan
  PROVE  ScanTypeOK'
BY DEF EndScan, ScanTypeOK, ScanStep, NoSnap, NoTarget

\* Going on with a known step, or ending the scan, keeps the types.
LEMMA ProceedType ==
  ASSUME ScanTypeOK, NEW step \in ScanStep, Proceed(step)
  PROVE  ScanTypeOK'
BY EndScanType DEF Proceed, ScanTypeOK, scanLocals

\* A row of the scan that leads to an insert names an asset and an heir.
LEMMA DecideType ==
  ASSUME ScanTypeOK, NEW b \in todo, NEW step \in {"asset", "category"},
         DecideBinding(b, step) \/ UNCHANGED <<spc, cur>>
  PROVE  /\ spc' \in ScanStep
         /\ cur' \in [asset : Asset \union {NoAsset}, heir : Heir \union {NoHeir},
                      back : {"idle", "asset", "category"}]
BY DEF ScanTypeOK, DecideBinding, Binding, ScanStep

\* A mailed event is a row.
LEMMA MailedIsRow ==
  ASSUME EventTypeOK, NEW e \in mailed
  PROVE  e \in EventId /\ events[e] \in Event
BY HandoverAssumption DEF HandoverAssumption, EventTypeOK, EventId

\* Only the scheduler and a crash touch the scan.
LEMMA ScanFrame ==
  ASSUME [Next]_vars
  PROVE  Crash \/ StartScan \/ ScanStepTaken \/ UNCHANGED scanVars
BY DEF Next, vars, Tick, Heartbeat, ToggleInheritance, PurgeAsset, LoginReadsStage,
       LoginResets, LoginReverses, ClaimReads, ClaimTakes, ClaimFails, ClaimSetsStage,
       ClaimDelivers

\* The scheduler leaves the requests alone.
LEMMA RequestFrame ==
  ASSUME StartScan \/ ScanStepTaken
  PROVE  UNCHANGED <<loginVars, claimVars>>
BY DEF ScanStepTaken, StartScan, Escalate, LoadOwnBindings, OpenCategories,
       CloseCategories, CountAssets, PickGlobalHeir, InsertEvent, InsertFails,
       SetTriggered, MailHeir, ScanGivesUp, OwnBinding, SkipCategoryBinding, CategoryBinding

\* Types of the scan: one step per statement that moves it.
LEMMA ScanTypeStep ==
  ASSUME TypeOK, [Next]_vars
  PROVE  ScanTypeOK'
<1> USE DEF TypeOK
<1>1. CASE Crash
  BY <1>1, EndScanType DEF Crash
<1>2. CASE StartScan
  BY <1>2 DEF StartScan, ScanTypeOK, OwnerTypeOK, ScanStep
<1>3. CASE Escalate
  BY <1>3, ProceedType DEF Escalate, ScanStep
<1>4. CASE LoadOwnBindings
  BY <1>4 DEF LoadOwnBindings, ScanTypeOK, OwnerTypeOK, Configuration, ScanStep
<1>5. CASE OpenCategories
  BY <1>5 DEF OpenCategories, ScanTypeOK, OwnerTypeOK, Configuration, ScanStep
<1>6. CASE CloseCategories
  BY <1>6 DEF CloseCategories, ScanTypeOK, ScanStep
<1>7. CASE CountAssets
  BY <1>7, ProceedType DEF CountAssets, ScanStep
<1>8. CASE PickGlobalHeir
  <2>1. CASE EndScan
    BY <2>1, EndScanType
  <2>2. CASE ~EndScan
    BY <1>8, <2>2 DEF PickGlobalHeir, ScanTypeOK, OwnerTypeOK, Configuration, ScanStep
  <2> QED
    BY <2>1, <2>2
<1>9. CASE InsertEvent
  BY <1>9 DEF InsertEvent, ScanTypeOK, ScanStep
<1>10. CASE InsertFails
  BY <1>10, ProceedType DEF InsertFails, ScanTypeOK, ScanStep
<1>11. CASE SetTriggered
  BY <1>11 DEF SetTriggered, ScanTypeOK, ScanStep
<1>12. CASE MailHeir
  BY <1>12, ProceedType DEF MailHeir, ScanTypeOK, ScanStep
<1>13. CASE ScanGivesUp
  BY <1>13, EndScanType DEF ScanGivesUp
<1>14. ASSUME NEW b \in todo, OwnBinding(b) PROVE ScanTypeOK'
  BY <1>14, DecideType DEF OwnBinding, ScanTypeOK, Binding
<1>15. ASSUME NEW b \in todo, SkipCategoryBinding(b) PROVE ScanTypeOK'
  BY <1>15 DEF SkipCategoryBinding, ScanTypeOK
<1>16. ASSUME NEW b \in todo, CategoryBinding(b) PROVE ScanTypeOK'
  BY <1>16, DecideType DEF CategoryBinding, ScanTypeOK, Binding
<1>17. CASE UNCHANGED scanVars
  BY <1>17 DEF ScanTypeOK, scanVars, scanLocals
<1> QED
  BY <1>1, <1>2, <1>3, <1>4, <1>5, <1>6, <1>7, <1>8, <1>9, <1>10, <1>11, <1>12, <1>13,
     <1>14, <1>15, <1>16, <1>17, ScanFrame
  DEF ScanStepTaken

\* Types of the logins and claims: one step per statement of theirs.
LEMMA RequestTypeStep ==
  ASSUME TypeOK, [Next]_vars
  PROVE  RequestTypeOK'
<1> USE DEF TypeOK, RequestTypeOK, loginVars, claimVars
<1>1. CASE Crash
  BY <1>1 DEF Crash
<1>2. CASE StartScan \/ ScanStepTaken
  BY <1>2, RequestFrame
<1>3. CASE Tick \/ Heartbeat \/ ToggleInheritance
  BY <1>3 DEF Tick, Heartbeat, ToggleInheritance
<1>4. ASSUME NEW a \in assets, PurgeAsset(a) PROVE RequestTypeOK'
  BY <1>4 DEF PurgeAsset
<1>5. ASSUME NEW l \in Login, LoginReadsStage(l) PROVE RequestTypeOK'
  BY <1>5 DEF LoginReadsStage, OwnerTypeOK
<1>6. ASSUME NEW l \in Login, LoginResets(l) \/ LoginReverses(l) PROVE RequestTypeOK'
  <2>1. UNCHANGED claimVars
    BY <1>6 DEF LoginResets, LoginReverses
  <2>2. EndLogin(l) \/ (lpc' = [lpc EXCEPT ![l] = "reverse"] /\ lstage' = lstage)
    BY <1>6 DEF LoginResets, LoginReverses
  <2>3. lpc' \in [Login -> {"idle", "reset", "reverse", "done"}]
    BY <2>2 DEF EndLogin
  <2>4. lstage' \in [Login -> {"inactive", "triggered", "claimed"}]
    BY <2>2 DEF EndLogin
  <2> QED
    BY <2>1, <2>3, <2>4
<1>7. ASSUME NEW c \in Claimant, NEW e \in mailed, ClaimReads(c, e) PROVE RequestTypeOK'
  <2>1. e \in EventId /\ events[e].asset \in Asset \union {NoAsset}
    BY MailedIsRow DEF Event
  <2> QED
    BY <1>7, <2>1 DEF ClaimReads
<1>8. ASSUME NEW c \in Claimant,
             ClaimTakes(c) \/ ClaimFails(c) \/ ClaimSetsStage(c) \/ ClaimDelivers(c)
      PROVE  RequestTypeOK'
  BY <1>8 DEF ClaimTakes, ClaimFails, ClaimSetsStage, ClaimDelivers, EndClaim
<1>9. CASE UNCHANGED vars
  BY <1>9 DEF vars
<1> QED
  BY <1>1, <1>2, <1>3, <1>4, <1>5, <1>6, <1>7, <1>8, <1>9 DEF Next

\* Types of the owner's row: one step per statement that writes it.
LEMMA OwnerTypeStep ==
  ASSUME TypeOK, [Next]_vars
  PROVE  OwnerTypeOK'
<1> USE HandoverAssumption
    DEF HandoverAssumption, TypeOK, OwnerTypeOK, clockVars, ownerVars, estateVars
<1>1. CASE Tick
  BY <1>1 DEF Tick
<1>2. CASE Crash
  BY <1>2 DEF Crash, Fails
<1>3. CASE StartScan
  BY <1>3 DEF StartScan
<1>4. CASE Escalate
  BY <1>4 DEF Escalate, Fails
<1>5. CASE LoadOwnBindings \/ OpenCategories \/ CloseCategories \/ CountAssets
  BY <1>5 DEF LoadOwnBindings, OpenCategories, CloseCategories, CountAssets
<1>6. CASE PickGlobalHeir \/ ScanGivesUp
  BY <1>6 DEF PickGlobalHeir, ScanGivesUp, Fails
<1>7. CASE InsertEvent \/ InsertFails
  BY <1>7 DEF InsertEvent, InsertFails, Fails
<1>8. CASE SetTriggered \/ MailHeir
  BY <1>8 DEF SetTriggered, MailHeir, Fails
<1>9. ASSUME NEW b \in todo, OwnBinding(b) \/ SkipCategoryBinding(b) \/ CategoryBinding(b)
      PROVE  OwnerTypeOK'
  BY <1>9 DEF OwnBinding, SkipCategoryBinding, CategoryBinding, Fails
<1>10. ASSUME NEW l \in Login, LoginReadsStage(l) PROVE OwnerTypeOK'
  BY <1>10 DEF LoginReadsStage, Fails
<1>11. ASSUME NEW l \in Login, LoginResets(l) PROVE OwnerTypeOK'
  BY <1>11 DEF LoginResets, EndLogin, Fails
<1>12. ASSUME NEW l \in Login, LoginReverses(l) PROVE OwnerTypeOK'
  BY <1>12 DEF LoginReverses, EndLogin, Fails
<1>13. CASE Heartbeat \/ ToggleInheritance
  BY <1>13 DEF Heartbeat, ToggleInheritance, TouchLastLogin
<1>14. ASSUME NEW a \in assets, PurgeAsset(a) PROVE OwnerTypeOK'
  BY <1>14 DEF PurgeAsset, TouchLastLogin
<1>15. ASSUME NEW c \in Claimant, NEW e \in mailed, ClaimReads(c, e) PROVE OwnerTypeOK'
  BY <1>15 DEF ClaimReads
<1>16. ASSUME NEW c \in Claimant,
              ClaimTakes(c) \/ ClaimFails(c) \/ ClaimSetsStage(c) \/ ClaimDelivers(c)
       PROVE  OwnerTypeOK'
  BY <1>16 DEF ClaimTakes, ClaimFails, ClaimSetsStage, ClaimDelivers, Fails
<1>17. CASE UNCHANGED vars
  BY <1>17 DEF vars
<1> QED
  BY <1>1, <1>2, <1>3, <1>4, <1>5, <1>6, <1>7, <1>8, <1>9, <1>10, <1>11, <1>12, <1>13,
     <1>14, <1>15, <1>16, <1>17
  DEF Next, ScanStepTaken

\* What the UPDATEs of a row keep.
LEMMA RowType ==
  ASSUME NEW r \in Event, NEW s \in Status, NEW u \in Nat
  PROVE  /\ [r EXCEPT !.status = s] \in Event
         /\ [r EXCEPT !.status = s, !.until = u] \in Event
BY DEF Event

\* MailHeir and ClaimDelivers name a row: it must be one that was inserted.
LEMMA EventTypeStep ==
  ASSUME TypeOK, RowsInOrder, ClaimsExclusive, [Next]_vars
  PROVE  EventTypeOK'
<1> USE HandoverAssumption DEF HandoverAssumption, TypeOK, EventTypeOK, EventId, eventVars
<1>1. CASE Tick \/ Crash \/ StartScan \/ Heartbeat \/ ToggleInheritance
  BY <1>1 DEF Tick, Crash, StartScan, Heartbeat, ToggleInheritance
<1>2. CASE Escalate \/ LoadOwnBindings \/ OpenCategories \/ CloseCategories \/ CountAssets
  BY <1>2 DEF Escalate, LoadOwnBindings, OpenCategories, CloseCategories, CountAssets
<1>3. CASE PickGlobalHeir \/ InsertFails \/ SetTriggered \/ ScanGivesUp
  BY <1>3 DEF PickGlobalHeir, InsertFails, SetTriggered, ScanGivesUp
<1>4. CASE InsertEvent
  <2>1. rows + 1 \in EventId /\ rows' \in 0..MaxEvents
    BY <1>4 DEF InsertEvent
  <2>2. events' \in [EventId -> Event]
    BY <1>4, <2>1 DEF InsertEvent, Event, Status, ScanTypeOK
  <2> QED
    BY <1>4, <2>1, <2>2 DEF InsertEvent
<1>5. CASE MailHeir
  <2>1. rows \in 1..rows
    BY <1>5 DEF MailHeir, RowsInOrder
  <2> QED
    BY <1>5, <2>1 DEF MailHeir
<1>6. ASSUME NEW b \in todo, OwnBinding(b) \/ SkipCategoryBinding(b) \/ CategoryBinding(b)
      PROVE  EventTypeOK'
  BY <1>6 DEF OwnBinding, SkipCategoryBinding, CategoryBinding
<1>7. ASSUME NEW l \in Login, LoginReadsStage(l) \/ LoginResets(l) PROVE EventTypeOK'
  BY <1>7 DEF LoginReadsStage, LoginResets
<1>8. ASSUME NEW l \in Login, LoginReverses(l) PROVE EventTypeOK'
  <2>1. events' \in [EventId -> Event]
    <3>1. ASSUME NEW e \in EventId PROVE [events[e] EXCEPT !.status = "reversed"] \in Event
      BY RowType DEF Status
    <3> QED
      BY <1>8, <3>1 DEF LoginReverses
  <2> QED
    BY <1>8, <2>1 DEF LoginReverses
<1>9. ASSUME NEW a \in assets, PurgeAsset(a) PROVE EventTypeOK'
  <2>1. events' \in [EventId -> Event]
    <3>1. ASSUME NEW e \in EventId PROVE [events[e] EXCEPT !.asset = NoAsset] \in Event
      BY DEF Event
    <3> QED
      BY <1>9, <3>1 DEF PurgeAsset
  <2> QED
    BY <1>9, <2>1 DEF PurgeAsset
<1>10. ASSUME NEW c \in Claimant, NEW e \in mailed, ClaimReads(c, e) PROVE EventTypeOK'
  BY <1>10 DEF ClaimReads
<1>11. ASSUME NEW c \in Claimant, ClaimTakes(c) PROVE EventTypeOK'
  <2>1. events' \in [EventId -> Event]
    <3> DEFINE e == cev[c]
    <3>1. e \in EventId
      BY <1>11 DEF ClaimTakes, ClaimsExclusive
    <3>2. events[e] \in Event /\ now + ReversalWindow \in Nat /\ "claimed" \in Status
      BY <3>1 DEF OwnerTypeOK, Status
    <3>3. [events[e] EXCEPT !.status = "claimed", !.until = now + ReversalWindow] \in Event
      BY <3>2, RowType
    <3>4. events' = [events EXCEPT ![e] =
                      [events[e] EXCEPT !.status = "claimed", !.until = now + ReversalWindow]]
          \/ events' = events
      BY <1>11, <3>1 DEF ClaimTakes
    <3> HIDE DEF e
    <3> QED
      BY <3>1, <3>3, <3>4
  <2> QED
    BY <1>11, <2>1 DEF ClaimTakes
<1>12. ASSUME NEW c \in Claimant, ClaimFails(c) \/ ClaimSetsStage(c) PROVE EventTypeOK'
  BY <1>12 DEF ClaimFails, ClaimSetsStage
<1>13. ASSUME NEW c \in Claimant, ClaimDelivers(c) PROVE EventTypeOK'
  <2>1. cev[c] \in EventId
    <3>1. cpc[c] = "deliver"
      BY <1>13 DEF ClaimDelivers
    <3>2. cev[c] \in mailed
      BY <3>1 DEF ClaimsExclusive
    <3> QED
      BY <3>2, MailedIsRow
  <2>2. ASSUME NEW k \in {"asset", "master"}
        PROVE  [event |-> cev[c], by |-> c, key |-> k] \in Delivery
    BY <2>1 DEF Delivery
  <2>3. released' \subseteq Delivery
    BY <1>13, <2>2 DEF ClaimDelivers
  <2> QED
    BY <1>13, <2>3 DEF ClaimDelivers
<1>14. CASE UNCHANGED vars
  BY <1>14 DEF vars
<1> QED
  BY <1>1, <1>2, <1>3, <1>4, <1>5, <1>6, <1>7, <1>8, <1>9, <1>10, <1>11, <1>12, <1>13,
     <1>14
  DEF Next, ScanStepTaken

------------------------------------------------------------------------------
(* What a step may do to an event *)

\* The rows of inheritance_events change in five actions only.
LEMMA EventsFrame ==
  ASSUME [Next]_vars
  PROVE  \/ InsertEvent
         \/ \E l \in Login : LoginReverses(l)
         \/ \E a \in assets : PurgeAsset(a)
         \/ \E c \in Claimant : ClaimTakes(c)
         \/ UNCHANGED <<rows, events>>
<1>1. CASE Tick \/ Crash \/ StartScan \/ Heartbeat \/ ToggleInheritance
  BY <1>1 DEF Tick, Crash, StartScan, Heartbeat, ToggleInheritance, eventVars
<1>2. CASE Escalate \/ LoadOwnBindings \/ OpenCategories \/ CloseCategories \/ CountAssets
  BY <1>2 DEF Escalate, LoadOwnBindings, OpenCategories, CloseCategories, CountAssets,
              eventVars
<1>3. CASE PickGlobalHeir \/ InsertFails \/ SetTriggered \/ MailHeir \/ ScanGivesUp
  BY <1>3 DEF PickGlobalHeir, InsertFails, SetTriggered, MailHeir, ScanGivesUp, eventVars
<1>4. ASSUME NEW b \in todo, OwnBinding(b) \/ SkipCategoryBinding(b) \/ CategoryBinding(b)
      PROVE  UNCHANGED <<rows, events>>
  BY <1>4 DEF OwnBinding, SkipCategoryBinding, CategoryBinding, eventVars
<1>5. ASSUME NEW l \in Login, LoginReadsStage(l) \/ LoginResets(l)
      PROVE  UNCHANGED <<rows, events>>
  BY <1>5 DEF LoginReadsStage, LoginResets, eventVars
<1>6. ASSUME NEW c \in Claimant, NEW e \in mailed, ClaimReads(c, e)
      PROVE  UNCHANGED <<rows, events>>
  BY <1>6 DEF ClaimReads, eventVars
<1>7. ASSUME NEW c \in Claimant, ClaimFails(c) \/ ClaimSetsStage(c) \/ ClaimDelivers(c)
      PROVE  UNCHANGED <<rows, events>>
  BY <1>7 DEF ClaimFails, ClaimSetsStage, ClaimDelivers, eventVars
<1>8. CASE UNCHANGED vars
  BY <1>8 DEF vars, eventVars
<1> QED
  BY <1>1, <1>2, <1>3, <1>4, <1>5, <1>6, <1>7, <1>8 DEF Next, ScanStepTaken

\* The life of an event, one step of it, and of the asset it names.
Ages(e) ==
  \/ events'[e].status = events[e].status
  \/ events[e].status = "pending" /\ events'[e].status = "claimed"
  \/ Reversible(e) /\ events'[e].status = "reversed"

\* What any step may do to one row.
LEMMA EventStep ==
  ASSUME TypeOK, ClaimsExclusive, [Next]_vars, NEW e \in EventId
  PROVE  \/ /\ InsertEvent /\ e = rows + 1
            /\ events'[e].status = "pending" /\ events'[e].asset = cur.asset
         \/ Ages(e) /\ events'[e].asset \in {events[e].asset, NoAsset}
<1> USE DEF TypeOK, EventTypeOK
<1> events[e] \in Event
  OBVIOUS
<1>1. CASE InsertEvent
  BY <1>1 DEF InsertEvent, Ages
<1>2. ASSUME NEW l \in Login, LoginReverses(l)
      PROVE  Ages(e) /\ events'[e].asset = events[e].asset
  BY <1>2 DEF LoginReverses, Ages, Event
<1>3. ASSUME NEW a \in assets, PurgeAsset(a)
      PROVE  Ages(e) /\ events'[e].asset \in {events[e].asset, NoAsset}
  BY <1>3 DEF PurgeAsset, Ages, Event
<1>4. ASSUME NEW c \in Claimant, ClaimTakes(c)
      PROVE  Ages(e) /\ events'[e].asset = events[e].asset
  BY <1>4 DEF ClaimTakes, Ages, Event
<1>5. CASE UNCHANGED <<rows, events>>
  BY <1>5 DEF Ages
<1> QED
  BY <1>1, <1>2, <1>3, <1>4, <1>5, EventsFrame

\* RowsInOrder is kept.
LEMMA RowsStep ==
  ASSUME TypeOK, RowsInOrder, ClaimsExclusive, [Next]_vars
  PROVE  RowsInOrder'
<1> USE DEF RowsInOrder
<1>1. rows' >= rows /\ rows \in Nat /\ rows' \in Nat
  <2>1. rows' = rows \/ rows' = rows + 1
    BY EventsFrame DEF InsertEvent, LoginReverses, PurgeAsset, ClaimTakes
  <2> QED
    BY <2>1, HandoverAssumption DEF HandoverAssumption, TypeOK, EventTypeOK
<1>2. ASSUME NEW e \in EventId, e > rows' PROVE events'[e].status = "none"
  <2>1. e > rows
    BY <1>1, <1>2 DEF EventId
  <2>2. events[e].status = "none"
    BY <2>1
  <2>3. ~(InsertEvent /\ e = rows + 1)
    BY <1>1, <1>2 DEF InsertEvent
  <2> QED
    BY <2>2, <2>3, EventStep DEF Ages, Reversible
<1>3. ASSUME spc' \in {"stage", "mail"} PROVE rows' >= 1
  <2>1. CASE spc' = spc
    BY <1>1, <1>3, <2>1
  <2>2. CASE InsertEvent
    BY <1>1, <2>2 DEF InsertEvent
  <2>3. CASE SetTriggered
    BY <1>1, <2>3 DEF SetTriggered
  <2>4. spc' = spc \/ InsertEvent \/ SetTriggered
    BY <1>3, ScanFrame
    DEF Crash, StartScan, ScanStepTaken, Escalate, LoadOwnBindings, OpenCategories,
        CloseCategories, CountAssets, PickGlobalHeir, InsertFails, MailHeir, ScanGivesUp,
        OwnBinding, SkipCategoryBinding, CategoryBinding, DecideBinding, Proceed, EndScan,
        scanVars, TypeOK, ScanTypeOK
  <2> QED
    BY <2>1, <2>2, <2>3, <2>4
<1> QED
  BY <1>2, <1>3

\* Only an INSERT puts another event in force for an asset.
LEMMA LiveOnStep ==
  ASSUME TypeOK, ClaimsExclusive, [Next]_vars, ~InsertEvent,
         NEW a \in Asset, LiveOn(a)'
  PROVE  LiveOn(a)
<1>1. PICK e \in EventId : Live(e)' /\ events'[e].asset = a
  BY DEF LiveOn
<1>2. a # NoAsset
  BY HandoverAssumption DEF HandoverAssumption
<1>3. Ages(e) /\ events[e].asset = a
  BY <1>1, <1>2, EventStep
<1>4. Live(e)
  BY <1>1, <1>3 DEF Ages, Live, Reversible
<1> QED
  BY <1>3, <1>4 DEF LiveOn

\* StillUndecided is kept: logins, claims and purges only take events out of force.
LEMMA UndecidedStep ==
  ASSUME TypeOK, ClaimsExclusive, StillUndecided, [Next]_vars
  PROVE  StillUndecided'
<1>1. cur'.asset \in Asset \union {NoAsset}
  BY ScanTypeStep DEF ScanTypeOK
<1> SUFFICES ASSUME NEW a \in Asset, spc' = "insert", cur'.asset = a, LiveOn(a)' PROVE FALSE
  BY <1>1 DEF StillUndecided, LiveOn, Live
<1> a # NoAsset
  BY HandoverAssumption DEF HandoverAssumption
<1>2. ~InsertEvent
  BY DEF InsertEvent
<1>3. LiveOn(a)
  BY <1>2, LiveOnStep
<1>4. CASE spc' = spc /\ cur' = cur
  BY <1>3, <1>4 DEF StillUndecided
<1>5. ASSUME NEW b \in todo, NEW step, DecideBinding(b, step), ~UNCHANGED <<spc, cur>>
      PROVE  FALSE
  BY <1>3, <1>5 DEF DecideBinding
<1>6. CASE PickGlobalHeir
  BY <1>6 DEF PickGlobalHeir, EndScan
<1>7. \/ spc' = spc /\ cur' = cur
      \/ \E b \in todo : DecideBinding(b, "asset") \/ DecideBinding(b, "category")
      \/ PickGlobalHeir
  BY <1>2, ScanFrame
  DEF Crash, StartScan, ScanStepTaken, Escalate, LoadOwnBindings, OpenCategories,
      CloseCategories, CountAssets, InsertFails, SetTriggered, MailHeir, ScanGivesUp,
      OwnBinding, SkipCategoryBinding, CategoryBinding, Proceed, EndScan,
      scanVars, scanLocals, TypeOK, ScanTypeOK
<1> QED
  BY <1>4, <1>5, <1>6, <1>7

\* OneLiveEventPerAsset is kept: the INSERT is the only step to worry about.
LEMMA OneLiveStep ==
  ASSUME TypeOK, ClaimsExclusive, StillUndecided, OneLiveEventPerAsset, [Next]_vars
  PROVE  OneLiveEventPerAsset'
<1> SUFFICES ASSUME NEW e \in EventId, NEW f \in EventId, Live(e)', Live(f)',
                    events'[e].asset = events'[f].asset, events'[e].asset # NoAsset
             PROVE  e = f
  BY DEF OneLiveEventPerAsset
<1> DEFINE New(x) == InsertEvent /\ x = rows + 1
<1>1. ASSUME NEW x \in {e, f}, ~New(x)
      PROVE  Live(x) /\ events[x].asset = events'[x].asset
  BY <1>1, EventStep DEF Ages, Live, Reversible
<1>2. CASE ~New(e) /\ ~New(f)
  BY <1>1, <1>2 DEF OneLiveEventPerAsset
<1>3. CASE New(e) /\ New(f)
  BY <1>3
<1>4. ASSUME NEW x \in {e, f}, NEW y \in {e, f}, New(x), ~New(y) PROVE FALSE
  <2>1. spc = "insert" /\ events'[x].asset = cur.asset
    BY <1>4 DEF InsertEvent, TypeOK, EventTypeOK
  <2>2. LiveOn(cur.asset)
    BY <1>1, <1>4, <2>1 DEF LiveOn
  <2> QED
    BY <2>1, <2>2 DEF StillUndecided
<1> QED
  BY <1>2, <1>3, <1>4

------------------------------------------------------------------------------
(* The claims and the release of a key *)

\* Only a claim moves a claim on, short of a crash, and only a delivery releases.
LEMMA ClaimFrame ==
  ASSUME [Next]_vars
  PROVE  \/ Crash
         \/ \E c \in Claimant :
              \/ \E e \in mailed : ClaimReads(c, e)
              \/ ClaimTakes(c) \/ ClaimFails(c) \/ ClaimSetsStage(c) \/ ClaimDelivers(c)
         \/ UNCHANGED <<claimVars, released>>
<1>1. CASE StartScan \/ ScanStepTaken
  <2>1. UNCHANGED claimVars
    BY <1>1, RequestFrame
  <2>2. UNCHANGED released
    BY <1>1
    DEF ScanStepTaken, StartScan, Escalate, LoadOwnBindings, OpenCategories,
        CloseCategories, CountAssets, PickGlobalHeir, InsertEvent, InsertFails,
        SetTriggered, MailHeir, ScanGivesUp, OwnBinding, SkipCategoryBinding,
        CategoryBinding, eventVars
  <2> QED
    BY <2>1, <2>2
<1>2. CASE Tick \/ Heartbeat \/ ToggleInheritance \/ \E a \in assets : PurgeAsset(a)
  BY <1>2 DEF Tick, Heartbeat, ToggleInheritance, PurgeAsset, eventVars
<1>3. CASE \E l \in Login : LoginReadsStage(l) \/ LoginResets(l) \/ LoginReverses(l)
  BY <1>3 DEF LoginReadsStage, LoginResets, LoginReverses, eventVars
<1>4. CASE UNCHANGED vars
  BY <1>4 DEF vars, eventVars
<1> QED
  BY <1>1, <1>2, <1>3, <1>4 DEF Next

\* A mail cannot be taken back.
LEMMA MailedGrows ==
  ASSUME [Next]_vars
  PROVE  mailed \subseteq mailed'
<1>1. CASE MailHeir
  BY <1>1 DEF MailHeir
<1>2. CASE ~MailHeir
  BY <1>2
  DEF Next, ScanStepTaken, Tick, Crash, StartScan, Escalate, LoadOwnBindings,
      OpenCategories, CloseCategories, CountAssets, PickGlobalHeir, InsertEvent,
      InsertFails, SetTriggered, ScanGivesUp, OwnBinding, SkipCategoryBinding,
      CategoryBinding, LoginReadsStage, LoginResets, LoginReverses, Heartbeat,
      ToggleInheritance, PurgeAsset, ClaimReads, ClaimTakes, ClaimFails, ClaimSetsStage,
      ClaimDelivers, eventVars, vars
<1> QED
  BY <1>1, <1>2

\* A row once claimed never becomes pending again.
StaysTaken(e) == events'[e].status \in {"claimed", "reversed"}

\* An event once claimed is never pending again.
LEMMA TakenStep ==
  ASSUME TypeOK, RowsInOrder, ClaimsExclusive, [Next]_vars, NEW e \in EventId, Taken(e)
  PROVE  StaysTaken(e)
<1>1. ~(InsertEvent /\ e = rows + 1)
  BY DEF RowsInOrder, Taken, TypeOK, EventTypeOK, EventId
<1> QED
  BY <1>1, EventStep DEF Taken, StaysTaken, Ages

\* The claims other than c stay as they are in a step of c.
LEMMA OtherClaims ==
  ASSUME TypeOK, NEW c \in Claimant, NEW d \in Claimant, d # c,
         \/ \E e \in mailed : ClaimReads(c, e)
         \/ ClaimTakes(c) \/ ClaimFails(c) \/ ClaimSetsStage(c) \/ ClaimDelivers(c)
  PROVE  cpc'[d] = cpc[d] /\ cev'[d] = cev[d]
BY DEF TypeOK, RequestTypeOK, ClaimReads, ClaimTakes, ClaimFails, ClaimSetsStage,
       ClaimDelivers, EndClaim

\* What one claim does to itself.
LEMMA OwnClaim ==
  ASSUME TypeOK, RowsInOrder, ClaimsExclusive, NEW c \in Claimant,
         \/ \E e \in mailed : ClaimReads(c, e)
         \/ ClaimTakes(c) \/ ClaimFails(c) \/ ClaimSetsStage(c) \/ ClaimDelivers(c)
  PROVE  /\ cpc'[c] \in {"take", "stage", "deliver"} => cev'[c] \in mailed
         /\ Holds(c)' => cev'[c] = cev[c] /\ released' = released
         /\ Holds(c)' =>
              \/ Holds(c)
              \/ events[cev[c]].status = "pending" /\ events'[cev[c]].status = "claimed"
         /\ released' = released \/
              (Holds(c) /\ \E k : released' =
                               released \union {[event |-> cev[c], by |-> c, key |-> k]})
<1> USE DEF TypeOK, RequestTypeOK, Holds, eventVars
<1>1. ASSUME NEW e \in mailed, ClaimReads(c, e)
      PROVE  cpc'[c] = "take" /\ cev'[c] = e /\ released' = released
  BY <1>1 DEF ClaimReads
<1>2. ASSUME ClaimTakes(c)
      PROVE  /\ released' = released /\ cev[c] \in mailed
             /\ \/ cpc'[c] = "done"
                \/ /\ cpc'[c] = "stage" /\ cev' = cev
                   /\ events[cev[c]].status = "pending"
                   /\ events'[cev[c]].status = "claimed"
  <2>1. cev[c] \in mailed
    BY <1>2 DEF ClaimTakes, ClaimsExclusive
  <2>2. cev[c] \in EventId /\ events[cev[c]] \in Event
    BY <2>1, MailedIsRow
  <2> QED
    BY <1>2, <2>1, <2>2 DEF ClaimTakes, EndClaim, EventTypeOK, Event
<1>3. ASSUME ClaimFails(c) PROVE cpc'[c] = "done" /\ released' = released
  BY <1>3 DEF ClaimFails, EndClaim
<1>4. ASSUME ClaimSetsStage(c)
      PROVE  /\ Holds(c) /\ cpc'[c] = "deliver" /\ cev' = cev /\ released' = released
             /\ cev[c] \in mailed
  BY <1>4 DEF ClaimSetsStage, ClaimsExclusive
<1>5. ASSUME ClaimDelivers(c)
      PROVE  /\ Holds(c) /\ cpc'[c] = "done"
             /\ \/ released' = released
                \/ \E k : released' =
                          released \union {[event |-> cev[c], by |-> c, key |-> k]}
  BY <1>5 DEF ClaimDelivers, EndClaim
<1> QED
  BY <1>1, <1>2, <1>3, <1>4, <1>5

\* ClaimsExclusive is kept.
LEMMA ClaimsStep ==
  ASSUME TypeOK, RowsInOrder, ClaimsExclusive, [Next]_vars
  PROVE  ClaimsExclusive'
<1> USE DEF ClaimsExclusive
<1>1. mailed \subseteq mailed'
  BY MailedGrows
<1>2. ASSUME NEW c \in Claimant, Holds(c) PROVE StaysTaken(cev[c])
  <2>1. cev[c] \in EventId /\ Taken(cev[c])
    BY <1>2, MailedIsRow DEF Holds, TypeOK
  <2> QED
    BY <2>1, TakenStep
<1>3. ASSUME NEW r \in released PROVE StaysTaken(r.event)
  <2>1. r.event \in EventId /\ Taken(r.event)
    BY <1>3 DEF TypeOK, EventTypeOK, Delivery
  <2> QED
    BY <2>1, TakenStep
<1>4. CASE Crash
  <2>1. \A c \in Claimant : cpc'[c] \notin {"take", "stage", "deliver"}
    BY <1>4 DEF Crash
  <2>2. released' = released
    BY <1>4 DEF Crash, eventVars
  <2> QED
    BY <1>3, <2>1, <2>2 DEF Holds, Taken, StaysTaken
<1>5. CASE UNCHANGED <<claimVars, released>>
  BY <1>1, <1>2, <1>3, <1>5 DEF Holds, Taken, StaysTaken, claimVars
<1>6. ASSUME NEW c \in Claimant,
             \/ \E e \in mailed : ClaimReads(c, e)
             \/ ClaimTakes(c) \/ ClaimFails(c) \/ ClaimSetsStage(c) \/ ClaimDelivers(c)
      PROVE  ClaimsExclusive'
  <2>1. \A d \in Claimant \ {c} : cpc'[d] = cpc[d] /\ cev'[d] = cev[d]
    BY <1>6, OtherClaims
  <2> DEFINE Fresh == events[cev[c]].status = "pending" /\ events'[cev[c]].status = "claimed"
  <2>2. /\ cpc'[c] \in {"take", "stage", "deliver"} => cev'[c] \in mailed
        /\ Holds(c)' => cev'[c] = cev[c] /\ released' = released
        /\ Holds(c)' => Holds(c) \/ Fresh
    BY <1>6, OwnClaim
  <2>3. \/ released' = released
        \/ Holds(c) /\ \E k : released' =
                             released \union {[event |-> cev[c], by |-> c, key |-> k]}
    BY <1>6, OwnClaim
  <2>4. ASSUME NEW d \in Claimant \ {c}, Holds(d)' PROVE Holds(d) /\ cev'[d] = cev[d]
    BY <2>1, <2>4 DEF Holds
  <2>5. Fresh => /\ \A r \in released : r.event # cev[c]
                 /\ \A d \in Claimant : Holds(d) => cev[d] # cev[c]
    BY DEF Taken
  <2>6. ASSUME NEW d \in Claimant, cpc'[d] \in {"take", "stage", "deliver"}
        PROVE  cev'[d] \in mailed'
    BY <1>1, <2>1, <2>2, <2>6
  <2>7. ASSUME NEW d \in Claimant, Holds(d)' PROVE StaysTaken(cev'[d])
    BY <1>2, <2>2, <2>4, <2>7 DEF StaysTaken
  <2>8. ASSUME NEW d \in Claimant, Holds(d)', NEW r \in released' PROVE r.event # cev'[d]
    <3>1. CASE d = c
      BY <2>2, <2>5, <2>8, <3>1
    <3>2. CASE d # c
      BY <2>3, <2>4, <2>8, <3>2
    <3> QED
      BY <3>1, <3>2
  <2>9. ASSUME NEW d \in Claimant, NEW f \in Claimant, Holds(d)', Holds(f)',
               cev'[d] = cev'[f]
        PROVE  d = f
    BY <2>2, <2>4, <2>5, <2>9
  <2>10. ASSUME NEW r \in released' PROVE StaysTaken(r.event)
    BY <1>2, <1>3, <2>3, <2>10
  <2> QED
    BY <2>6, <2>7, <2>8, <2>9, <2>10 DEF Holds, Taken, StaysTaken
<1> QED
  BY <1>4, <1>5, <1>6, ClaimFrame

\* The delivery of a claim that holds its event is the only one of that event.
LEMMA KeyStep ==
  ASSUME TypeOK, RowsInOrder, ClaimsExclusive, KeyReleasedOnce, [Next]_vars
  PROVE  KeyReleasedOnce'
<1>1. CASE released' = released
  BY <1>1 DEF KeyReleasedOnce
<1>2. ASSUME NEW c \in Claimant, Holds(c), NEW k,
             released' = released \union {[event |-> cev[c], by |-> c, key |-> k]}
      PROVE  KeyReleasedOnce'
  <2>1. \A r \in released : r.event # cev[c]
    BY <1>2 DEF ClaimsExclusive
  <2> QED
    BY <1>2, <2>1 DEF KeyReleasedOnce
<1>3. \/ released' = released
      \/ \E c \in Claimant : Holds(c) /\ \E k :
           released' = released \union {[event |-> cev[c], by |-> c, key |-> k]}
  BY ClaimFrame, OwnClaim DEF Crash, eventVars
<1> QED
  BY <1>1, <1>2, <1>3

------------------------------------------------------------------------------
(* How long the owner has been silent *)

\* n whole days have n times Day units in them.
LEMMA WholeDays ==
  ASSUME NEW x \in Int, NEW d \in Nat \ {0}, NEW t \in Nat, x \div d >= t
  PROVE  x >= t * d
<1> DEFINE q == x \div d
<1>1. q \in Int /\ x >= q * d
  OBVIOUS
<1>2. q * d >= t * d
  BY <1>1
<1> QED
  BY <1>1, <1>2

\* LagBounded is kept: the heartbeat gap bounds what is not written.
LEMMA LagStep ==
  ASSUME TypeOK, LagBounded, [Next]_vars
  PROVE  LagBounded'
<1> USE HandoverAssumption DEF HandoverAssumption, TypeOK, OwnerTypeOK, LagBounded
<1>1. lastSeen' <= lastLogin' + HeartbeatGap
  <2>1. CASE TouchLastLogin
    BY <2>1 DEF TouchLastLogin
  <2>2. ASSUME NEW l \in Login, LoginResets(l) PROVE lastSeen' <= lastLogin' + HeartbeatGap
    BY <2>2 DEF LoginResets
  <2>3. TouchLastLogin \/ (\E l \in Login : LoginResets(l)) \/ UNCHANGED <<lastSeen, lastLogin>>
    BY DEF Next, ScanStepTaken, Tick, Crash, StartScan, Escalate, LoadOwnBindings,
           OpenCategories, CloseCategories, CountAssets, PickGlobalHeir, InsertEvent,
           InsertFails, SetTriggered, MailHeir, ScanGivesUp, OwnBinding,
           SkipCategoryBinding, CategoryBinding, LoginReadsStage, LoginReverses, Heartbeat,
           ToggleInheritance, PurgeAsset, ClaimReads, ClaimTakes, ClaimFails,
           ClaimSetsStage, ClaimDelivers, ownerVars, vars
  <2> QED
    BY <2>1, <2>2, <2>3
<1>2. CASE UNCHANGED scanVars
  BY <1>1, <1>2 DEF scanVars, scanLocals, DaysSince
<1>3. CASE StartScan
  BY <1>1, <1>3 DEF StartScan
<1>4. CASE EndScan
  BY <1>1, <1>4 DEF EndScan, NoSnap
<1>5. CASE Escalate /\ ~EndScan
  BY <1>1, <1>5 DEF Escalate, Proceed, DaysSince, scanLocals
<1>6. CASE ScanStepTaken /\ ~Escalate /\ ~EndScan
  <2>1. scanNow' = scanNow /\ snap' = snap /\ spc \notin {"idle", "ladder"}
    BY <1>6
    DEF ScanStepTaken, LoadOwnBindings, OpenCategories, CloseCategories, CountAssets,
        PickGlobalHeir, InsertEvent, InsertFails, SetTriggered, MailHeir, ScanGivesUp,
        OwnBinding, SkipCategoryBinding, CategoryBinding, Proceed, scanLocals
  <2> QED
    BY <1>1, <2>1 DEF DaysSince
<1> QED
  BY <1>2, <1>3, <1>4, <1>5, <1>6, ScanFrame DEF Crash

------------------------------------------------------------------------------
(* The theorems *)

\* The inductive invariant holds initially...
LEMMA InitInv == Init => IInv
<1> SUFFICES ASSUME Init PROVE IInv
  OBVIOUS
<1>1. TypeOK
  BY InitType
<1>2. RowsInOrder /\ StillUndecided /\ OneLiveEventPerAsset
  BY DEF Init, RowsInOrder, StillUndecided, OneLiveEventPerAsset, Live, NoEvent
<1>3. ClaimsExclusive /\ KeyReleasedOnce
  BY DEF Init, ClaimsExclusive, KeyReleasedOnce, Holds
<1>4. LagBounded
  BY HandoverAssumption DEF HandoverAssumption, Init, LagBounded, NoSnap
<1> QED
  BY <1>1, <1>2, <1>3, <1>4 DEF IInv

\* ... is kept by every step...
LEMMA NextInv == IInv /\ [Next]_vars => IInv'
BY ScanTypeStep, RequestTypeStep, OwnerTypeStep, EventTypeStep, RowsStep, UndecidedStep,
   OneLiveStep, ClaimsStep, KeyStep, LagStep
DEF IInv, TypeOK

\* ... and so holds throughout every behaviour of the server.
THEOREM Invariance == Spec => []IInv
BY InitInv, NextInv, PTL DEF Spec

\* Every state of the server is well formed: levels stay on the ladder, keys are
\* mailed for inserted events only, and the handlers' variables keep their types.
THEOREM TypeCorrect == Spec => []TypeOK
<1>1. IInv => TypeOK
  BY DEF IInv
<1> QED
  BY <1>1, Invariance, PTL

\* An asset never has two events in force, however scheduler, claims, logins and
\* purges interleave.
THEOREM OneLiveEvent == Spec => []OneLiveEventPerAsset
<1>1. IInv => OneLiveEventPerAsset
  BY DEF IInv
<1> QED
  BY <1>1, Invariance, PTL

\* The key of an event is handed out once, however many inheritors claim it
\* together and whatever fails or crashes in between.
THEOREM KeyOnce == Spec => []KeyReleasedOnce
<1>1. IInv => KeyReleasedOnce
  BY DEF IInv
<1> QED
  BY <1>1, Invariance, PTL

\* After the reversal window a claim is never reversed.
THEOREM FinalStays == Spec => FinalIsFinal
<1>1. IInv /\ [Next]_vars =>
        [\A e \in EventId : Final(e) => events'[e].status = "claimed"]_vars
  <2> SUFFICES ASSUME IInv, [Next]_vars, NEW e \in EventId, Final(e)
               PROVE  events'[e].status = "claimed"
    OBVIOUS
  <2>1. ~Reversible(e)
    BY HandoverAssumption
    DEF HandoverAssumption, IInv, TypeOK, OwnerTypeOK, EventTypeOK, Event, Final, Reversible
  <2>2. ~(InsertEvent /\ e = rows + 1)
    BY DEF IInv, RowsInOrder, TypeOK, EventTypeOK, EventId, Final
  <2> QED
    BY <2>1, <2>2, EventStep DEF IInv, Ages, Final
<1> QED
  BY <1>1, Invariance, PTL DEF Spec, FinalIsFinal

\* No event is created for an owner who was seen within the ladder, short of the
\* heartbeat gap, as far as the scan could know.
THEOREM SilenceFirst == Spec => TriggeredOnlyWhenSilent
<1>1. IInv /\ [Next]_vars =>
        [rows' # rows => (scanNow - snap.seen) + HeartbeatGap >= TriggerDays * Day]_vars
  <2> SUFFICES ASSUME IInv, [Next]_vars, rows' # rows
               PROVE  (scanNow - snap.seen) + HeartbeatGap >= TriggerDays * Day
    OBVIOUS
  <2> USE HandoverAssumption DEF HandoverAssumption, IInv, TypeOK, ScanTypeOK
  <2>1. InsertEvent
    BY EventsFrame DEF LoginReverses, PurgeAsset, ClaimTakes
  <2>2. (scanNow - snap.last) \div Day >= TriggerDays
    BY <2>1 DEF InsertEvent, LagBounded, DaysSince
  <2>3. scanNow - snap.last >= TriggerDays * Day
    BY <2>2, WholeDays
  <2>4. snap.seen <= snap.last + HeartbeatGap
    BY DEF LagBounded
  <2> QED
    BY <2>3, <2>4
<1> QED
  BY <1>1, Invariance, PTL DEF Spec, TriggeredOnlyWhenSilent

------------------------------------------------------------------------------
(* The server implements the ledger of events *)

\* The statements that matter to the ledger.
LEMMA LedgerFrame ==
  ASSUME [Next]_vars
  PROVE  \/ Tick \/ InsertEvent
         \/ \E l \in Login : LoginReverses(l)
         \/ \E a \in assets : PurgeAsset(a)
         \/ \E c \in Claimant : ClaimTakes(c) \/ ClaimDelivers(c)
         \/ UNCHANGED <<now, events, released>>
<1>1. Tick \/ now' = now
  BY DEF Next, ScanStepTaken, Crash, StartScan, Escalate, LoadOwnBindings, OpenCategories,
         CloseCategories, CountAssets, PickGlobalHeir, InsertEvent, InsertFails,
         SetTriggered, MailHeir, ScanGivesUp, OwnBinding, SkipCategoryBinding,
         CategoryBinding, LoginReadsStage, LoginResets, LoginReverses, Heartbeat,
         ToggleInheritance, PurgeAsset, ClaimReads, ClaimTakes, ClaimFails, ClaimSetsStage,
         ClaimDelivers, clockVars, vars
<1>2. (\E c \in Claimant : ClaimDelivers(c)) \/ released' = released
  BY ClaimFrame DEF Crash, ClaimReads, ClaimTakes, ClaimFails, ClaimSetsStage, eventVars
<1> QED
  BY <1>1, <1>2, EventsFrame

\* What the ledger sees of the events.
Entry(r) == [status |-> r.status, asset |-> r.asset, until |-> r.until]

\* The INSERT of the scheduler is Create.
LEMMA InsertIsCreate ==
  ASSUME IInv, InsertEvent, NEW e \in EventId, NEW a \in Asset \union {NoAsset},
         e = rows + 1, a = cur.asset
  PROVE  Ledger!Create(e, a)
<1>1. events[e].status = "none"
  BY DEF IInv, TypeOK, EventTypeOK, EventId, RowsInOrder
<1>2. a # NoAsset => \A f \in EventId : Live(f) => events[f].asset # a
  BY DEF InsertEvent, IInv, StillUndecided, LiveOn
<1>3. events' = [events EXCEPT ![e] =
                   [status |-> "pending", asset |-> a, scope |-> a,
                    heir |-> cur.heir, until |-> 0]]
  BY DEF InsertEvent
<1>4. [f \in EventId |-> Entry(events'[f])] =
      [[f \in EventId |-> Entry(events[f])] EXCEPT ![e] =
         [status |-> "pending", asset |-> a, until |-> 0]]
  BY <1>3 DEF IInv, TypeOK, EventTypeOK, Entry
<1>5. now' = now /\ released' = released
  BY DEF InsertEvent, clockVars
<1> QED
  BY <1>1, <1>2, <1>4, <1>5 DEF Ledger!Create, Ledger!InForce, Live, Entry

\* The reversal of a login is OwnerReturns.
LEMMA LoginIsOwnerReturns ==
  ASSUME IInv, NEW l \in Login, LoginReverses(l)
  PROVE  Ledger!OwnerReturns \/ UNCHANGED <<now, events, released>>
<1>1. now' = now /\ released' = released
  BY DEF LoginReverses
<1>2. ASSUME events' = [e \in EventId |->
                         IF Reversible(e) THEN [events[e] EXCEPT !.status = "reversed"]
                                          ELSE events[e]]
      PROVE  [e \in EventId |-> Entry(events'[e])] =
             [e \in EventId |-> IF Reversible(e)
                                 THEN [Entry(events[e]) EXCEPT !.status = "reversed"]
                                 ELSE Entry(events[e])]
  <2>1. ASSUME NEW e \in EventId
        PROVE  Entry(events'[e]) = IF Reversible(e)
                                   THEN [Entry(events[e]) EXCEPT !.status = "reversed"]
                                   ELSE Entry(events[e])
    <3>1. events[e] \in Event
      BY DEF IInv, TypeOK, EventTypeOK
    <3> QED
      BY <1>2, <3>1 DEF Entry, Event
  <2> QED
    BY <2>1
<1>3. CASE events' = events
  BY <1>1, <1>3
<1>4. CASE events' # events
  BY <1>1, <1>2, <1>4 DEF LoginReverses, Ledger!OwnerReturns, Ledger!Reversible, Reversible, Entry
<1> QED
  BY <1>3, <1>4

\* ON DELETE SET NULL is Detach.
LEMMA PurgeIsDetach ==
  ASSUME IInv, NEW a \in assets, PurgeAsset(a)
  PROVE  Ledger!Detach(a)
<1>1. now' = now /\ released' = released
  BY DEF PurgeAsset, clockVars
<1>2. ASSUME NEW e \in EventId
      PROVE  Entry(events'[e]) = IF events[e].asset = a
                                 THEN [Entry(events[e]) EXCEPT !.asset = NoAsset]
                                 ELSE Entry(events[e])
  <2>1. events[e] \in Event
    BY DEF IInv, TypeOK, EventTypeOK
  <2> QED
    BY <2>1 DEF PurgeAsset, Entry, Event
<1>3. [e \in EventId |-> Entry(events'[e])] =
      [e \in EventId |-> IF events[e].asset = a
                          THEN [Entry(events[e]) EXCEPT !.asset = NoAsset]
                          ELSE Entry(events[e])]
  BY <1>2
<1> QED
  BY <1>1, <1>3 DEF Ledger!Detach, Entry

\* The conditional UPDATE of a claim is TakeUp, or nothing.
LEMMA ClaimIsTakeUp ==
  ASSUME IInv, NEW c \in Claimant, ClaimTakes(c), NEW e \in EventId, e = cev[c]
  PROVE  Ledger!TakeUp(e) \/ UNCHANGED <<now, events, released>>
<1>1. now' = now /\ released' = released
  BY DEF ClaimTakes, clockVars
<1>2. CASE events' = events
  BY <1>1, <1>2
<1>3. CASE events' # events
  <2>1. /\ events[e].status = "pending"
        /\ events' = [events EXCEPT ![e].status = "claimed", ![e].until = now + ReversalWindow]
    BY <1>3 DEF ClaimTakes
  <2>2. [f \in EventId |-> Entry(events'[f])] =
        [[f \in EventId |-> Entry(events[f])] EXCEPT
            ![e].status = "claimed", ![e].until = now + ReversalWindow]
    <3>1. ASSUME NEW f \in EventId
          PROVE  Entry(events'[f]) =
                   IF f = e THEN [status |-> "claimed", asset |-> events[e].asset,
                                  until |-> now + ReversalWindow]
                   ELSE Entry(events[f])
      BY <2>1 DEF Entry, IInv, TypeOK, EventTypeOK, Event
    <3> QED
      BY <3>1 DEF Entry
  <2> QED
    BY <1>1, <2>1, <2>2 DEF Ledger!TakeUp, Entry
<1> QED
  BY <1>2, <1>3

\* The answer of a claim is Release, or nothing.
LEMMA DeliveryIsRelease ==
  ASSUME IInv, NEW c \in Claimant, ClaimDelivers(c), NEW e \in EventId, e = cev[c]
  PROVE  (\E k \in {"asset", "master"} : Ledger!Release(e, k))
         \/ UNCHANGED <<now, events, released>>
<1> DEFINE Key(r) == [event |-> r.event, key |-> r.key]
<1>1. now' = now /\ events' = events
  BY DEF ClaimDelivers, clockVars
<1>2. Taken(e) /\ \A r \in released : r.event # e
  BY DEF ClaimDelivers, Holds, IInv, ClaimsExclusive
<1>3. ASSUME NEW k \in {"asset", "master"},
             released' = released \union {[event |-> e, by |-> c, key |-> k]}
      PROVE  Ledger!Release(e, k)
  <2>1. {Key(r) : r \in released'} = {Key(r) : r \in released} \union {[event |-> e, key |-> k]}
    <3> DEFINE d == [event |-> e, by |-> c, key |-> k]
    <3>1. Key(d) = [event |-> e, key |-> k]
      OBVIOUS
    <3>2. released' = released \union {d}
      BY <1>3
    <3> HIDE DEF d, Key
    <3>3. {Key(r) : r \in released'} = {Key(r) : r \in released} \union {Key(d)}
      BY <3>2
    <3> QED
      BY <3>1, <3>3
  <2>2. \A q \in {Key(r) : r \in released} : q.event # e
    BY <1>2
  <2>3. [f \in EventId |-> Entry(events[f])][e].status \in {"claimed", "reversed"}
    BY <1>2 DEF Taken, Entry
  <2> QED
    BY <1>1, <2>1, <2>2, <2>3 DEF Ledger!Release, Entry
<1>4. released' = released \/ \E k \in {"asset", "master"} :
        released' = released \union {[event |-> e, by |-> c, key |-> k]}
  BY DEF ClaimDelivers
<1> QED
  BY <1>1, <1>3, <1>4

\* The server implements EventLedger: the statements of its handlers, taken one at
\* a time, add up to the life of an event that the ledger allows.
THEOREM Refinement == Spec => ImplementsLedger
<1>1. Init => Ledger!LedgerInit
  BY DEF Init, NoEvent, Ledger!LedgerInit
<1>2. IInv /\ [Next]_vars => [Ledger!LedgerNext]_(Ledger!ledgerVars)
  <2> SUFFICES ASSUME IInv, [Next]_vars
               PROVE  Ledger!LedgerNext \/ UNCHANGED Ledger!ledgerVars
    OBVIOUS
  <2>1. CASE Tick
    BY <2>1 DEF Tick, eventVars, Ledger!LedgerNext, Ledger!Advance
  <2>2. CASE InsertEvent
    <3>1. PICK e \in EventId, a \in Asset \union {NoAsset} : e = rows + 1 /\ a = cur.asset
      BY <2>2, HandoverAssumption
      DEF HandoverAssumption, InsertEvent, IInv, TypeOK, EventTypeOK, ScanTypeOK, EventId
    <3>2. Ledger!Create(e, a)
      BY <2>2, <3>1, InsertIsCreate
    <3> QED
      BY <3>2 DEF Ledger!LedgerNext
  <2>3. ASSUME NEW l \in Login, LoginReverses(l)
        PROVE  Ledger!LedgerNext \/ UNCHANGED <<now, events, released>>
    BY <2>3, LoginIsOwnerReturns DEF Ledger!LedgerNext
  <2>4. ASSUME NEW a \in assets, PurgeAsset(a) PROVE Ledger!LedgerNext
    BY <2>4, PurgeIsDetach DEF Ledger!LedgerNext, IInv, TypeOK, OwnerTypeOK
  <2>5. ASSUME NEW c \in Claimant, ClaimTakes(c) \/ ClaimDelivers(c)
        PROVE  Ledger!LedgerNext \/ UNCHANGED <<now, events, released>>
    <3>1. cpc[c] \in {"take", "stage", "deliver"}
      BY <2>5 DEF ClaimTakes, ClaimDelivers
    <3>2. PICK e \in EventId : e = cev[c]
      BY <3>1, MailedIsRow DEF IInv, TypeOK, ClaimsExclusive
    <3>3. \/ Ledger!TakeUp(e) \/ \E k \in {"asset", "master"} : Ledger!Release(e, k)
          \/ UNCHANGED <<now, events, released>>
      BY <2>5, <3>2, ClaimIsTakeUp, DeliveryIsRelease
    <3> QED
      BY <3>3 DEF Ledger!LedgerNext
  <2>6. UNCHANGED <<now, events, released>> => UNCHANGED Ledger!ledgerVars
    BY DEF Ledger!ledgerVars
  <2> QED
    BY <2>1, <2>2, <2>3, <2>4, <2>5, <2>6, LedgerFrame
<1> QED
  BY <1>1, <1>2, Invariance, PTL DEF Spec, ImplementsLedger, Ledger!LedgerSpec

==============================================================================
