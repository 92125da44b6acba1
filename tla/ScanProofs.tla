------------------------------ MODULE ScanProofs ------------------------------
(***************************************************************************)
(* What is proved of a whole scan of the scheduler, for any number of      *)
(* bindings in any order: that it hands an asset to the first inheritor    *)
(* whose days are over, and that every statement of it brings it nearer to *)
(* its end.                                                                *)
(***************************************************************************)
EXTENDS HandoverProofs

------------------------------------------------------------------------------
(* The inductive invariant *)

\* Nothing has failed, and the owner was not seen since the scan began.
Quiet == faults = 0 /\ lastSeen = snap.seen

\* A scan belongs to one moment; so does a login that goes on to reverse events.
OneMoment ==
  /\ lastSeen <= now
  /\ spc # "idle" => scanNow = now
  /\ faults = 0 => \A l \in Login : lpc[l] = "reverse" => lastSeen = now

\* The loop over one of the two queries, while it creates an event as well.
InLoop(step) == spc = step \/ (spc \in {"insert", "stage", "mail"} /\ cur.back = step)
OwnRows == {b \in conf.own : b.asset \in assets}
CategoryRows == {b \in conf.cat : b.asset \in assets /\ \A o \in conf.own : o.asset # b.asset}

\* A due binding the first loop has dealt with has its asset in force, or is about to.
Served(a) == LiveOn(a) \/ (spc = "insert" /\ cur.asset = a)
OwnLoop ==
  InLoop("asset") /\ Quiet =>
    /\ todo \subseteq OwnRows
    /\ \A b \in OwnRows \ todo : Due(b) => Served(b.asset)

\* A due binding the second loop has dealt with has its asset among those bound.
CategoryLoop ==
  InLoop("category") /\ Quiet =>
    /\ todo \subseteq CategoryRows
    /\ \A b \in CategoryRows \ todo : Due(b) => b.asset \in bound

\* The event about to be inserted is that of the first due binding.
FirstDue(a, h) ==
  \E b \in Candidates(a) : b.heir = h /\ \A c \in Candidates(a) : b.rank <= c.rank
FirstIsNext ==
  spc = "insert" /\ Quiet /\ cur.asset # NoAsset => FirstDue(cur.asset, cur.heir)

HInv == OneMoment /\ OwnLoop /\ CategoryLoop /\ FirstIsNext

------------------------------------------------------------------------------
(* A scan of an owner who stays silent *)

\* The owner of a scan that reached the bindings was last seen before this moment.
LEMMA SeenBefore ==
  ASSUME IInv, OneMoment, spc \notin {"idle", "ladder"}
  PROVE  snap.seen < now
<1> USE HandoverAssumption DEF HandoverAssumption
<1>1. snap.last \in Nat /\ snap.seen \in Nat /\ now \in Nat /\ scanNow = now
  BY DEF IInv, TypeOK, OwnerTypeOK, ScanTypeOK, OneMoment
<1>2. (now - snap.last) \div Day >= TriggerDays /\ snap.seen <= snap.last + HeartbeatGap
  BY <1>1 DEF IInv, LagBounded, DaysSince
<1>3. (now - snap.last) \div Day >= 1
  BY <1>1, <1>2
<1>4. now - snap.last >= 1 * Day
  BY <1>1, <1>3, WholeDays
<1> QED
  BY <1>1, <1>2, <1>4

\* Who writes last_login_at, in a way the model remembers.
LEMMA SeenFrame ==
  ASSUME [Next]_vars
  PROVE  \/ TouchLastLogin /\ UNCHANGED <<now, faults, lpc, scanVars>>
         \/ \E l \in Login : LoginResets(l)
         \/ UNCHANGED lastSeen
BY DEF Next, ScanStepTaken, Tick, Crash, StartScan, Escalate, LoadOwnBindings,
       OpenCategories, CloseCategories, CountAssets, PickGlobalHeir, InsertEvent,
       InsertFails, SetTriggered, MailHeir, ScanGivesUp, OwnBinding,
       SkipCategoryBinding, CategoryBinding, LoginReadsStage, LoginReverses, Heartbeat,
       ToggleInheritance, PurgeAsset, ClaimReads, ClaimTakes, ClaimFails,
       ClaimSetsStage, ClaimDelivers, ownerVars, vars, clockVars, loginVars

\* Failures are counted, never forgotten.
LEMMA FaultsGrow ==
  ASSUME TypeOK, [Next]_vars
  PROVE  faults' \in Nat /\ faults' >= faults
<1>1. faults' = faults \/ faults' = faults + 1
  BY DEF Next, ScanStepTaken, Tick, Crash, StartScan, Escalate, LoadOwnBindings, Fails,
         OpenCategories, CloseCategories, CountAssets, PickGlobalHeir, InsertEvent,
         InsertFails, SetTriggered, MailHeir, ScanGivesUp, OwnBinding,
         SkipCategoryBinding, CategoryBinding, LoginReadsStage, LoginResets, LoginReverses,
         Heartbeat, ToggleInheritance, PurgeAsset, ClaimReads, ClaimTakes, ClaimFails,
         ClaimSetsStage, ClaimDelivers, clockVars, vars
<1> QED
  BY <1>1 DEF TypeOK, OwnerTypeOK

\* The clock waits for scans and logins.
LEMMA ClockFrame ==
  ASSUME [Next]_vars
  PROVE  Tick \/ UNCHANGED now
BY DEF Next, ScanStepTaken, Crash, StartScan, Escalate, LoadOwnBindings,
       OpenCategories, CloseCategories, CountAssets, PickGlobalHeir, InsertEvent,
       InsertFails, SetTriggered, MailHeir, ScanGivesUp, OwnBinding,
       SkipCategoryBinding, CategoryBinding, LoginReadsStage, LoginResets, LoginReverses,
       Heartbeat, ToggleInheritance, PurgeAsset, ClaimReads, ClaimTakes, ClaimFails,
       ClaimSetsStage, ClaimDelivers, clockVars, vars

\* What the scan read at its start it keeps until its end.
LEMMA SnapFrame ==
  ASSUME TypeOK, [Next]_vars, spc' # "idle"
  PROVE  \/ StartScan
         \/ spc # "idle" /\ UNCHANGED <<scanNow, snap>>
<1>1. CASE UNCHANGED scanVars
  BY <1>1 DEF scanVars, scanLocals
<1>2. CASE Crash
  BY <1>2 DEF Crash, EndScan
<1>3. CASE ScanStepTaken
  <2>1. spc # "idle" \/ \E b \in todo : OwnBinding(b) \/ SkipCategoryBinding(b) \/ CategoryBinding(b)
    BY <1>3 DEF ScanStepTaken, Escalate, LoadOwnBindings, OpenCategories, CloseCategories,
                CountAssets, PickGlobalHeir, InsertEvent, InsertFails, SetTriggered, MailHeir,
                ScanGivesUp
  <2>2. spc # "idle"
    BY <2>1 DEF OwnBinding, SkipCategoryBinding, CategoryBinding
  <2>3. UNCHANGED <<scanNow, snap>>
    BY <1>3 DEF ScanStepTaken, Escalate, LoadOwnBindings, OpenCategories, CloseCategories,
                CountAssets, PickGlobalHeir, InsertEvent, InsertFails, SetTriggered, MailHeir,
                ScanGivesUp, OwnBinding, SkipCategoryBinding, CategoryBinding, Proceed, EndScan,
                scanLocals
  <2> QED
    BY <2>2, <2>3
<1> QED
  BY <1>1, <1>2, <1>3, ScanFrame

\* OneMoment is kept.
LEMMA MomentStep ==
  ASSUME IInv, OneMoment, [Next]_vars
  PROVE  OneMoment'
<1> USE DEF OneMoment
<1>0. TypeOK /\ now \in Nat /\ lastSeen \in Nat /\ faults \in Nat
  BY DEF IInv, TypeOK, OwnerTypeOK
<1>1. CASE Tick
  <2>1. now' = now + 1 /\ lastSeen' = lastSeen /\ spc' = spc /\ spc = "idle" /\ lpc' = lpc
    BY <1>1 DEF Tick, ownerVars, scanVars, loginVars
  <2>2. \A l \in Login : lpc[l] # "reverse"
    BY <1>1 DEF Tick
  <2> QED
    BY <2>1, <2>2, <1>0
<1>2. CASE now' = now
  <2>1. lastSeen' = lastSeen \/ lastSeen' = now
    BY SeenFrame DEF TouchLastLogin, LoginResets
  <2>2. spc' # "idle" => scanNow' = now
    BY <1>0, <1>2, SnapFrame DEF StartScan
  <2>3. ASSUME faults' = 0, NEW l \in Login, lpc'[l] = "reverse"
        PROVE  lastSeen' = now
    <3>1. faults = 0
      BY <2>3, <1>0, FaultsGrow
    <3>2. CASE lpc[l] = "reverse"
      BY <2>1, <3>1, <3>2
    <3>3. CASE lpc[l] # "reverse"
      <4>1. lpc \in [Login -> {"idle", "reset", "reverse", "done"}]
        BY <1>0 DEF TypeOK, RequestTypeOK
      <4>2. \E k \in Login : LoginResets(k)
        BY <4>1, <2>3, <3>3, RequestFrame
           DEF Next, vars, Tick, Crash, Heartbeat, ToggleInheritance, PurgeAsset, LoginReadsStage,
               LoginReverses, EndLogin, ClaimReads, ClaimTakes, ClaimFails, ClaimSetsStage,
               ClaimDelivers, loginVars
      <4> QED
        BY <4>2, <2>3, <3>1 DEF LoginResets, Fails
    <3> QED
      BY <3>2, <3>3
  <2> QED
    BY <2>1, <2>2, <2>3, <1>0, <1>2
<1> QED
  BY <1>1, <1>2, ClockFrame

\* While the owner stays silent, a scan at its bindings sees no asset go and no
\* event reversed: a login or a purge would be a sign of life of this moment.
LEMMA QuietStep ==
  ASSUME IInv, OneMoment, [Next]_vars, spc \notin {"idle", "ladder"}, spc' # "idle", Quiet'
  PROVE  /\ Quiet
         /\ UNCHANGED <<conf, assets, scanNow, snap>>
         /\ faults' = faults
         /\ \A a \in Asset : LiveOn(a) => LiveOn(a)'
<1>0. TypeOK /\ RowsInOrder
  BY DEF IInv
<1>1. snap.seen < now /\ snap.seen \in Nat /\ now \in Nat
  BY <1>0, SeenBefore DEF TypeOK, OwnerTypeOK, ScanTypeOK
<1>2. UNCHANGED <<scanNow, snap>>
  BY <1>0, SnapFrame DEF StartScan
<1>3. faults' = 0 /\ faults = 0
  BY <1>0, FaultsGrow DEF Quiet, TypeOK, OwnerTypeOK
<1>4. lastSeen' = snap.seen /\ lastSeen' # now
  BY <1>1, <1>2 DEF Quiet
<1>5. ~TouchLastLogin /\ \A l \in Login : ~LoginResets(l)
  BY <1>3, <1>4 DEF TouchLastLogin, LoginResets, Fails
<1>6. Quiet
  BY <1>3, <1>4, <1>5, SeenFrame DEF Quiet
<1>7. \A l \in Login : ~LoginReverses(l)
  BY <1>1, <1>3, <1>6 DEF LoginReverses, OneMoment, Quiet
<1>8. \A a \in assets : ~PurgeAsset(a)
  BY <1>5 DEF PurgeAsset
<1>9. UNCHANGED <<conf, assets>>
  BY <1>8 DEF Next, ScanStepTaken, Tick, Crash, StartScan, Escalate, LoadOwnBindings,
              OpenCategories, CloseCategories, CountAssets, PickGlobalHeir, InsertEvent,
              InsertFails, SetTriggered, MailHeir, ScanGivesUp, OwnBinding,
              SkipCategoryBinding, CategoryBinding, LoginReadsStage, LoginResets, LoginReverses,
              Heartbeat, ToggleInheritance, ClaimReads, ClaimTakes, ClaimFails,
              ClaimSetsStage, ClaimDelivers, estateVars, vars
<1>10. ASSUME NEW a \in Asset, LiveOn(a)
       PROVE  LiveOn(a)'
  <2>1. PICK e \in EventId : Live(e) /\ events[e].asset = a
    BY <1>10 DEF LiveOn
  <2>2. events[e] \in Event /\ e \in Nat /\ rows \in Nat
    BY <1>0 DEF TypeOK, EventTypeOK, EventId
  <2>3. CASE InsertEvent
    <3>1. e # rows + 1
      BY <2>1, <2>2, <1>0 DEF RowsInOrder, Live
    <3>2. events'[e] = events[e]
      BY <2>3, <3>1, <1>0 DEF InsertEvent, TypeOK, EventTypeOK
    <3> QED
      BY <2>1, <3>2 DEF LiveOn, Live
  <2>4. ASSUME NEW c \in Claimant, ClaimTakes(c)
        PROVE  LiveOn(a)'
    <3>1. events'[e].asset = events[e].asset /\ Live(e)'
      BY <2>1, <2>2, <2>4, <1>0 DEF ClaimTakes, Live, TypeOK, EventTypeOK, Event
    <3> QED
      BY <2>1, <3>1 DEF LiveOn
  <2>5. CASE UNCHANGED <<rows, events>>
    BY <2>1, <2>5 DEF LiveOn, Live
  <2> QED
    BY <2>3, <2>4, <2>5, <1>7, <1>8, EventsFrame
<1> QED
  BY <1>2, <1>3, <1>6, <1>9, <1>10

------------------------------------------------------------------------------
(* The two loops *)

\* How a scan is at, or comes into, the loop over one query.
LEMMA LoopFrame ==
  ASSUME TypeOK, [Next]_vars, NEW step \in {"asset", "category"}, InLoop(step)'
  PROVE  \/ UNCHANGED scanVars /\ InLoop(step)
         \/ LoadOwnBindings /\ step = "asset"
         \/ OpenCategories /\ step = "category"
         \/ step = "asset" /\ \E b \in todo : OwnBinding(b)
         \/ step = "category" /\ \E b \in todo : SkipCategoryBinding(b) \/ CategoryBinding(b)
         \/ (InsertEvent \/ InsertFails \/ SetTriggered \/ MailHeir)
              /\ cur' = cur /\ todo' = todo /\ bound' = bound /\ InLoop(step)
<1> USE DEF InLoop
<1>1. CASE UNCHANGED scanVars
  BY <1>1 DEF scanVars, scanLocals
<1>2. CASE Crash \/ ScanGivesUp
  BY <1>2 DEF Crash, ScanGivesUp, EndScan
<1>3. CASE StartScan \/ CloseCategories
  BY <1>3 DEF StartScan, CloseCategories
<1>4. CASE Escalate \/ CountAssets
  BY <1>4 DEF Escalate, CountAssets, Proceed, EndScan
<1>5. CASE PickGlobalHeir
  <2>1. CASE EndScan
    BY <2>1 DEF EndScan
  <2>2. CASE ~EndScan
    BY <1>5, <2>2 DEF PickGlobalHeir
  <2> QED
    BY <2>1, <2>2
<1>6. CASE LoadOwnBindings
  BY <1>6 DEF LoadOwnBindings, TypeOK, ScanTypeOK
<1>7. CASE OpenCategories
  BY <1>7 DEF OpenCategories
<1>8. CASE InsertEvent \/ SetTriggered
  BY <1>8 DEF InsertEvent, SetTriggered
<1>9. CASE InsertFails \/ MailHeir
  BY <1>9 DEF InsertFails, MailHeir, Proceed, EndScan, scanLocals
<1>10. ASSUME NEW b \in todo, OwnBinding(b)
       PROVE  step = "asset"
  BY <1>10 DEF OwnBinding, DecideBinding
<1>11. ASSUME NEW b \in todo, SkipCategoryBinding(b) \/ CategoryBinding(b)
       PROVE  step = "category"
  BY <1>11 DEF SkipCategoryBinding, CategoryBinding, DecideBinding
<1> QED
  BY <1>1, <1>2, <1>3, <1>4, <1>5, <1>6, <1>7, <1>8, <1>9, <1>10, <1>11, ScanFrame
  DEF ScanStepTaken

\* An asset that is served stays so, until the scan inserts its event.
LEMMA ServedStep ==
  ASSUME IInv, OneMoment, [Next]_vars, spc \notin {"idle", "ladder"}, spc' # "idle", Quiet',
         NEW a \in assets, Served(a)
  PROVE  Served(a)'
<1>0. TypeOK /\ RowsInOrder /\ a \in Asset
  BY DEF IInv, TypeOK, OwnerTypeOK
<1>1. CASE LiveOn(a)
  BY <1>0, <1>1, QuietStep DEF Served
<1>2. CASE spc = "insert" /\ cur.asset = a
  <2>1. CASE InsertEvent
    <3>1. rows + 1 \in EventId
      BY <2>1, <1>0, HandoverAssumption
         DEF InsertEvent, TypeOK, EventTypeOK, EventId, HandoverAssumption
    <3>2. ASSUME NEW e \in EventId, e = rows + 1
          PROVE  events'[e].asset = a /\ Live(e)'
      BY <1>2, <2>1, <3>2, <1>0 DEF InsertEvent, Live, TypeOK, EventTypeOK
    <3> QED
      BY <3>1, <3>2 DEF Served, LiveOn
  <2>2. CASE InsertFails
    <3>1. faults' = faults
      BY <1>0, QuietStep
    <3>2. faults \in Nat
      BY <1>0 DEF TypeOK, OwnerTypeOK
    <3> QED
      BY <1>2, <2>2, <3>1, <3>2 DEF InsertFails, Fails
  <2>3. CASE spc' = spc /\ cur' = cur
    BY <1>2, <2>3 DEF Served
  <2>4. (spc' = spc /\ cur' = cur) \/ InsertEvent \/ InsertFails
    BY <1>2, ScanFrame
    DEF Crash, StartScan, ScanStepTaken, Escalate, LoadOwnBindings, OpenCategories,
        CloseCategories, CountAssets, PickGlobalHeir, SetTriggered, MailHeir, ScanGivesUp,
        OwnBinding, SkipCategoryBinding, CategoryBinding, EndScan, scanVars, scanLocals
  <2> QED
    BY <2>1, <2>2, <2>3, <2>4
<1> QED
  BY <1>1, <1>2 DEF Served

\* OwnLoop is kept: each row leaves its asset served.
LEMMA OwnLoopStep ==
  ASSUME IInv, OneMoment, OwnLoop, [Next]_vars
  PROVE  OwnLoop'
<1> SUFFICES ASSUME InLoop("asset")', Quiet'
             PROVE  /\ todo' \subseteq OwnRows'
                    /\ \A b \in OwnRows' \ todo' : Due(b)' => Served(b.asset)'
  BY DEF OwnLoop
<1>0. TypeOK /\ "asset" \in {"asset", "category"}
  BY DEF IInv
<1>1. spc \notin {"idle", "ladder"} /\ spc' # "idle"
  BY <1>0, LoopFrame DEF InLoop, LoadOwnBindings, OwnBinding, scanVars
<1>2. Quiet /\ UNCHANGED <<conf, assets, scanNow, snap>> /\ faults' = faults /\ faults \in Nat
  BY <1>0, <1>1, QuietStep DEF TypeOK, OwnerTypeOK
<1>3. OwnRows' = OwnRows /\ \A b \in OwnRows : (Due(b)' <=> Due(b)) /\ b.asset \in assets
  BY <1>2 DEF OwnRows, Due, DaysSince
<1>4. ASSUME NEW b \in OwnRows, Served(b.asset)
      PROVE  Served(b.asset)'
  BY <1>1, <1>3, <1>4, ServedStep
<1>5. CASE LoadOwnBindings
  BY <1>3, <1>5 DEF LoadOwnBindings, OwnRows
<1>6. ASSUME NEW b \in todo, OwnBinding(b)
      PROVE  /\ todo' \subseteq OwnRows'
             /\ \A c \in OwnRows' \ todo' : Due(c)' => Served(c.asset)'
  <2>1. InLoop("asset") /\ todo' = todo \ {b}
    BY <1>6 DEF OwnBinding, InLoop
  <2>2. b \in OwnRows
    BY <1>2, <2>1 DEF OwnLoop
  <2>3. Due(b) => LiveOn(b.asset) \/ (spc' = "insert" /\ cur'.asset = b.asset)
    <3>1. faults' # faults + 1
      BY <1>2
    <3>2. Due(b) => DecideBinding(b, "asset")
      BY <1>6, <3>1 DEF OwnBinding, Fails
    <3> QED
      BY <3>2 DEF DecideBinding
  <2>4. Due(b) => Served(b.asset)'
    BY <1>4, <2>2, <2>3 DEF Served
  <2> QED
    BY <1>2, <1>3, <1>4, <2>1, <2>4 DEF OwnLoop
<1>7. CASE InLoop("asset") /\ todo' = todo
  BY <1>2, <1>3, <1>4, <1>7 DEF OwnLoop
<1> QED
  BY <1>0, <1>5, <1>6, <1>7, LoopFrame DEF scanVars, scanLocals

\* CategoryLoop is kept: a due row is passed over only for an asset that is bound.
LEMMA CategoryLoopStep ==
  ASSUME IInv, OneMoment, CategoryLoop, [Next]_vars
  PROVE  CategoryLoop'
<1> SUFFICES ASSUME InLoop("category")', Quiet'
             PROVE  /\ todo' \subseteq CategoryRows'
                    /\ \A b \in CategoryRows' \ todo' : Due(b)' => b.asset \in bound'
  BY DEF CategoryLoop
<1>0. TypeOK /\ "category" \in {"asset", "category"}
  BY DEF IInv
<1>1. spc \notin {"idle", "ladder"} /\ spc' # "idle"
  BY <1>0, LoopFrame
     DEF InLoop, OpenCategories, SkipCategoryBinding, CategoryBinding, scanVars
<1>2. Quiet /\ UNCHANGED <<conf, assets, scanNow, snap>>
  BY <1>1, QuietStep
<1>3. CategoryRows' = CategoryRows /\ \A b \in CategoryRows : Due(b)' <=> Due(b)
  BY <1>2 DEF CategoryRows, Due, DaysSince
<1>4. CASE OpenCategories
  BY <1>3, <1>4 DEF OpenCategories, CategoryRows
<1>5. ASSUME NEW b \in todo, SkipCategoryBinding(b) \/ CategoryBinding(b)
      PROVE  /\ todo' \subseteq CategoryRows'
             /\ \A c \in CategoryRows' \ todo' : Due(c)' => c.asset \in bound'
  <2>1. InLoop("category") /\ todo' = todo \ {b} /\ bound \subseteq bound'
    BY <1>5 DEF SkipCategoryBinding, CategoryBinding, InLoop
  <2>2. Due(b) => b.asset \in bound'
    BY <1>5 DEF SkipCategoryBinding, CategoryBinding
  <2> QED
    BY <1>2, <1>3, <2>1, <2>2 DEF CategoryLoop
<1>6. CASE InLoop("category") /\ todo' = todo /\ bound' = bound
  BY <1>2, <1>3, <1>6 DEF CategoryLoop
<1> QED
  BY <1>0, <1>4, <1>5, <1>6, LoopFrame DEF scanVars, scanLocals

------------------------------------------------------------------------------
(* The event about to be inserted *)

\* The inheritors of an asset do not change while the scan and its owner's
\* configuration stay what they are.
LEMMA CandidatesStay ==
  ASSUME UNCHANGED <<conf, scanNow, snap>>, NEW a, NEW h, FirstDue(a, h)
  PROVE  FirstDue(a, h)'
<1>1. Candidates(a)' = Candidates(a)
  BY DEF Candidates, Due, DaysSince
<1> QED
  BY <1>1 DEF FirstDue

\* A row of the first loop that leads to an insert is the first due of its asset.
LEMMA OwnIsFirst ==
  ASSUME OwnLoop, Quiet, NEW b \in todo, OwnBinding(b), spc' = "insert"
  PROVE  FirstDue(b.asset, b.heir)
<1>1. spc = "asset" /\ IsNext(b) /\ Due(b) /\ ~LiveOn(b.asset)
  BY DEF OwnBinding, DecideBinding
<1>2. b \in OwnRows /\ \A c \in OwnRows \ todo : Due(c) => LiveOn(c.asset)
  BY <1>1 DEF OwnLoop, InLoop, Served
<1>3. Candidates(b.asset) = {c \in OwnRows : c.asset = b.asset /\ Due(c)}
  BY <1>2 DEF OwnRows, Candidates
<1>4. b \in Candidates(b.asset) /\ Candidates(b.asset) \subseteq todo
  BY <1>1, <1>2, <1>3
<1> QED
  BY <1>1, <1>4 DEF FirstDue, IsNext

\* So is a row of the second loop.
LEMMA CategoryIsFirst ==
  ASSUME CategoryLoop, Quiet, NEW b \in todo, CategoryBinding(b)
  PROVE  FirstDue(b.asset, b.heir)
<1>1. spc = "category" /\ IsNext(b) /\ Due(b) /\ b.asset \notin bound
  BY DEF CategoryBinding
<1>2. b \in CategoryRows /\ \A c \in CategoryRows \ todo : Due(c) => c.asset \in bound
  BY <1>1 DEF CategoryLoop, InLoop
<1>3. Candidates(b.asset) = {c \in CategoryRows : c.asset = b.asset /\ Due(c)}
  BY <1>2 DEF CategoryRows, Candidates
<1>4. b \in Candidates(b.asset) /\ Candidates(b.asset) \subseteq todo
  BY <1>1, <1>2, <1>3
<1> QED
  BY <1>1, <1>4 DEF FirstDue, IsNext

\* FirstIsNext is kept.
LEMMA FirstStep ==
  ASSUME IInv, HInv, [Next]_vars
  PROVE  FirstIsNext'
<1> SUFFICES ASSUME spc' = "insert", Quiet', cur'.asset # NoAsset
             PROVE  FirstDue(cur.asset, cur.heir)'
  BY DEF FirstIsNext
<1> USE DEF HInv
<1>1. \/ spc' = spc /\ cur' = cur
      \/ PickGlobalHeir
      \/ \E b \in todo : OwnBinding(b) \/ CategoryBinding(b)
  BY ScanFrame
  DEF Crash, StartScan, ScanStepTaken, Escalate, LoadOwnBindings, OpenCategories,
      CloseCategories, CountAssets, InsertEvent, InsertFails, SetTriggered, MailHeir,
      ScanGivesUp, SkipCategoryBinding, Proceed, EndScan, scanVars, scanLocals, IInv,
      TypeOK, ScanTypeOK
<1>2. CASE PickGlobalHeir
  BY <1>2 DEF PickGlobalHeir, EndScan
<1>3. CASE spc' = spc /\ cur' = cur
  <2>1. Quiet /\ UNCHANGED <<conf, scanNow, snap>>
    BY <1>3, QuietStep
  <2>2. FirstDue(cur.asset, cur.heir)
    BY <1>3, <2>1 DEF FirstIsNext
  <2>3. ASSUME NEW a, NEW h, a = cur.asset, h = cur.heir
        PROVE  FirstDue(a, h)'
    BY <2>1, <2>2, <2>3, CandidatesStay
  <2> QED
    BY <1>3, <2>3 DEF FirstDue
<1>4. ASSUME NEW b \in todo, OwnBinding(b) \/ CategoryBinding(b)
      PROVE  FirstDue(cur.asset, cur.heir)'
  <2>1. spc \in {"asset", "category"}
    BY <1>4 DEF OwnBinding, CategoryBinding
  <2>2. Quiet /\ UNCHANGED <<conf, scanNow, snap>>
    BY <2>1, QuietStep
  <2>3. FirstDue(b.asset, b.heir)
    BY <1>4, <2>2, OwnIsFirst, CategoryIsFirst
  <2>4. cur'.asset = b.asset /\ cur'.heir = b.heir
    BY <1>4, <2>1 DEF OwnBinding, CategoryBinding, DecideBinding
  <2>5. ASSUME NEW a, NEW h, a = b.asset, h = b.heir
        PROVE  FirstDue(a, h)'
    BY <2>2, <2>3, <2>5, CandidatesStay
  <2> QED
    BY <2>4, <2>5 DEF FirstDue
<1> QED
  BY <1>1, <1>2, <1>3, <1>4

------------------------------------------------------------------------------
(* The theorem *)

\* The initial state satisfies the inductive invariant.
LEMMA InitHeir == Init => HInv
BY HandoverAssumption
DEF Init, HInv, OneMoment, OwnLoop, CategoryLoop, FirstIsNext, InLoop, HandoverAssumption

\* Each step preserves it, given the inductive invariant of Handover.
LEMMA NextHeir == IInv /\ HInv /\ [Next]_vars => HInv'
<1> SUFFICES ASSUME IInv, HInv, [Next]_vars PROVE HInv'
  OBVIOUS
<1> QED
  BY MomentStep, OwnLoopStep, CategoryLoopStep, FirstStep DEF HInv

\* An inserted event names the asset and the inheritor the scan had decided on.
LEMMA InsertedIsDecided ==
  ASSUME IInv, [Next]_vars, rows' # rows, NEW e, e = rows'
  PROVE  /\ InsertEvent
         /\ events'[e].asset = cur.asset /\ events'[e].heir = cur.heir
         /\ UNCHANGED <<conf, scanNow, snap>>
<1>1. InsertEvent
  BY EventsFrame DEF LoginReverses, PurgeAsset, ClaimTakes
<1>2. rows + 1 \in EventId
  BY <1>1, HandoverAssumption
     DEF InsertEvent, IInv, TypeOK, EventTypeOK, EventId, HandoverAssumption
<1> QED
  BY <1>1, <1>2 DEF InsertEvent, IInv, TypeOK, EventTypeOK, estateVars

\* Whatever the bindings of an owner who stays silent, however many and in
\* whatever order, an asset goes to the first inheritor whose days are over: the
\* loops stop at the first event of an asset, and own bindings exclude those of
\* the category (scheduler.go, triggerInheritance).
THEOREM FirstHeir == Spec => FirstDueHeirGetsTheAsset
<1>1. ASSUME IInv, HInv, [Next]_vars, rows' # rows, faults = 0, lastSeen = snap.seen,
             events'[rows'].asset # NoAsset
      PROVE  \E b \in Candidates(events'[rows'].asset) :
               /\ b.heir = events'[rows'].heir
               /\ \A c \in Candidates(events'[rows'].asset) : b.rank <= c.rank
  <2>1. PICK e : e = rows'
    OBVIOUS
  <2>2. InsertEvent /\ events'[e].asset = cur.asset /\ events'[e].heir = cur.heir
    BY <1>1, <2>1, InsertedIsDecided
  <2>3. spc = "insert" /\ Quiet /\ cur.asset # NoAsset
    BY <1>1, <2>1, <2>2 DEF InsertEvent, Quiet
  <2> QED
    BY <1>1, <2>1, <2>2, <2>3 DEF HInv, FirstIsNext, FirstDue
<1>2. IInv /\ HInv /\ [Next]_vars =>
        [rows' # rows /\ faults = 0 /\ lastSeen = snap.seen /\ events'[rows'].asset # NoAsset =>
           \E b \in Candidates(events'[rows'].asset) :
             /\ b.heir = events'[rows'].heir
             /\ \A c \in Candidates(events'[rows'].asset) : b.rank <= c.rank]_vars
  BY <1>1
<1> QED
  BY <1>2, Invariance, InitHeir, NextHeir, PTL DEF Spec, FirstDueHeirGetsTheAsset

------------------------------------------------------------------------------
(* Every scan goes on *)

\* The part of triggerInheritance a scan is in; an event belongs to the part that
\* creates it.
Part == CASE spc \in {"insert", "stage", "mail"} -> cur.back [] OTHER -> spc
PartsLeft == [ladder |-> 6, own |-> 5, asset |-> 4, category |-> 3, total |-> 2, pick |-> 1,
              idle |-> 0]

\* What is left of the event being created.
EventLeft == CASE spc = "insert" -> 3 [] spc = "stage" -> 2 [] spc = "mail" -> 1 [] OTHER -> 0

\* A part ends, a row is used up, or the event is carried further.
Advances ==
  \/ spc' = "idle"
  \/ PartsLeft[Part'] < PartsLeft[Part]
  \/ Part' = Part /\ todo' \subseteq todo /\ todo' # todo
  \/ Part' = Part /\ todo' = todo /\ EventLeft' < EventLeft

\* A scan is never sent back: each of its statements, failed ones included, ends
\* a part of it, uses up a row or carries an event further, so that a scan of
\* finitely many bindings takes finitely many steps (scheduler.go,
\* triggerInheritance, createInheritanceEvent).
ScanAdvances == [][ScanStepTaken => Advances]_vars

\* A statement of the scan that ends it or goes on with its loop.
LEMMA ProceedAdvances ==
  ASSUME ScanTypeOK, spc \in {"insert", "mail"}, Proceed(cur.back)
  PROVE  Advances
<1>1. cur.back \in {"idle", "asset", "category"}
  BY DEF ScanTypeOK
<1>2. CASE cur.back = "idle"
  BY <1>2 DEF Proceed, EndScan, Advances
<1>3. CASE cur.back # "idle"
  BY <1>1, <1>3 DEF Proceed, Advances, Part, EventLeft, scanLocals
<1> QED
  BY <1>2, <1>3

\* A row used up, whether its event is created or not.
LEMMA RowAdvances ==
  ASSUME NEW b \in todo, NEW step \in {"asset", "category"}, spc = step, todo' = todo \ {b},
         DecideBinding(b, step) \/ UNCHANGED <<spc, cur>>
  PROVE  Advances
<1>1. Part = step /\ Part' = step
  BY DEF Part, DecideBinding
<1> QED
  BY <1>1 DEF Advances

\* One statement of the scan.
LEMMA StepAdvances ==
  ASSUME TypeOK, ScanStepTaken
  PROVE  Advances
<1>0. ScanTypeOK
  BY DEF TypeOK
<1>1. CASE Escalate
  BY <1>1 DEF Escalate, Proceed, EndScan, Advances, Part, PartsLeft
<1>2. CASE LoadOwnBindings \/ OpenCategories \/ CloseCategories
  BY <1>2 DEF LoadOwnBindings, OpenCategories, CloseCategories, Advances, Part, PartsLeft
<1>3. CASE CountAssets
  BY <1>3 DEF CountAssets, Proceed, EndScan, Advances, Part, PartsLeft
<1>4. CASE PickGlobalHeir
  <2>1. CASE EndScan
    BY <2>1 DEF EndScan, Advances
  <2>2. CASE ~EndScan
    BY <1>4, <2>2 DEF PickGlobalHeir, Advances, Part, PartsLeft
  <2> QED
    BY <2>1, <2>2
<1>5. CASE InsertEvent \/ SetTriggered
  BY <1>5 DEF InsertEvent, SetTriggered, Advances, Part, EventLeft
<1>6. CASE InsertFails \/ MailHeir
  BY <1>0, <1>6, ProceedAdvances DEF InsertFails, MailHeir
<1>7. CASE ScanGivesUp
  BY <1>7 DEF ScanGivesUp, EndScan, Advances
<1>8. ASSUME NEW b \in todo, OwnBinding(b)
      PROVE  Advances
  BY <1>8, RowAdvances DEF OwnBinding
<1>9. ASSUME NEW b \in todo, SkipCategoryBinding(b) \/ CategoryBinding(b)
      PROVE  Advances
  BY <1>9, RowAdvances DEF SkipCategoryBinding, CategoryBinding
<1> QED
  BY <1>1, <1>2, <1>3, <1>4, <1>5, <1>6, <1>7, <1>8, <1>9 DEF ScanStepTaken

\* The half of ScanEnds that needs no fairness: no loop of the scheduler turns
\* in place, whatever the requests beside it do to the tables it reads.
THEOREM NoScanTurnsBack == Spec => ScanAdvances
<1>1. TypeOK /\ [Next]_vars => [ScanStepTaken => Advances]_vars
  BY StepAdvances
<1> QED
  BY <1>1, TypeCorrect, PTL DEF Spec, ScanAdvances

==============================================================================
