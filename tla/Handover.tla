------------------------------- MODULE Handover -------------------------------
(***************************************************************************)
(* The dead man's switch of one owner, at the grain the server runs it:    *)
(* every SQL statement is one step, and between two statements of a        *)
(* handler or of the scheduler any other handler may run.                  *)
(*                                                                         *)
(* The processes are the scheduler goroutine (one scan at a time), the     *)
(* owner's login requests, the owner's other authenticated requests and    *)
(* the claims of inheritors.  They share the owner's rows of users, assets *)
(* and inheritance_events, and the connections of the database pool.       *)
(*                                                                         *)
(* One time unit is a fraction of a day (Day units are 24 hours).          *)
(***************************************************************************)
EXTENDS Integers, FiniteSets

CONSTANTS
  Asset, NoAsset,   \* the owner's assets; asset_id NULL
  Heir, NoHeir,     \* inheritors, numbered in ORDER BY priority, id; no row
  Login,            \* bound: the owner's login requests
  Claimant,         \* bound: the claim requests of inheritors
  Config,           \* the owner's possible inheritance configurations
  Day,              \* time units in 24 hours
  WarnDays,         \* first tier of the ladder
  TriggerDays,      \* last tier of the ladder
  HeartbeatGap,     \* 12 hours, less than a day: touchLastLogin writes no more often
  TokenLife,        \* tokenTTL, 24 hours
  ReversalWindow,   \* 72 hours
  PoolSize,         \* MaxOpenConns: 1 with SQLite, 25 with MySQL and PostgreSQL
  MaxEvents,        \* bound: rows of inheritance_events
  MaxTime,          \* bound: the clock
  MaxFaults         \* bound: failed statements and crashes of the server

EventId == 1..MaxEvents

\* A row of asset_inheritors, or of category_inheritors joined with one asset
\* of the category.  rank numbers the rows in the ORDER BY of their query;
\* days is trigger_days, with 0 for NULL (both are always due).
Binding == [rank : Nat, asset : Asset, heir : Heir, days : Nat]

\* own, cat: the bindings.  default: default_inheritor_id.  heirs: the rows of
\* inheritors.  wrapped: the assets with an asset_key_wrapped_wk.
Configuration ==
  [own : SUBSET Binding, cat : SUBSET Binding, default : Heir \union {NoHeir},
   heirs : SUBSET Heir, wrapped : SUBSET Asset]

ASSUME HandoverAssumption ==
  /\ NoAsset \notin Asset
  /\ NoHeir \notin Heir
  /\ Heir \subseteq Nat
  /\ Config \subseteq Configuration
  /\ Day \in Nat \ {0}
  /\ WarnDays \in Nat \ {0} /\ TriggerDays \in Nat /\ WarnDays < TriggerDays
  /\ HeartbeatGap \in Nat /\ HeartbeatGap < Day
  /\ TokenLife \in Nat /\ ReversalWindow \in Nat
  /\ PoolSize \in Nat \ {0}
  /\ MaxEvents \in Nat /\ MaxTime \in Nat /\ MaxFaults \in Nat

VARIABLES
  now,                        \* dbNow()
  conf, assets,               \* configuration; assets rows with status 'active'
  lastLogin, stage, level, enabled,  \* the owner's row of users
  session,                    \* exp of the owner's latest token, 0 without one
  rows, events,               \* inheritance_events: rows inserted, and each row
  mailed, released,           \* event keys that left by mail; keys handed over
  spc, scanNow, snap, todo, bound, cur, catOpen,  \* the scheduler's scan
  lpc, lstage,                \* logins: next statement, the stage they read
  cpc, cev, casset,           \* claims: next statement, the event row they read
  faults,                     \* failed statements and crashes so far
  lastSeen                    \* history: last request the owner authenticated

clockVars == <<now, faults>>
ownerVars == <<lastLogin, stage, level, enabled, session, lastSeen>>
estateVars == <<conf, assets>>
eventVars == <<rows, events, mailed, released>>
scanLocals == <<scanNow, snap, todo, bound, cur, catOpen>>
scanVars == <<spc, scanLocals>>
loginVars == <<lpc, lstage>>
claimVars == <<cpc, cev, casset>>
vars == <<clockVars, ownerVars, estateVars, eventVars, scanVars, loginVars, claimVars>>

Status == {"none", "pending", "claimed", "reversed"}
\* scope is history: the asset the event was created for.
Event == [status : Status, asset : Asset \union {NoAsset}, scope : Asset \union {NoAsset},
          heir : Heir \union {NoHeir}, until : Nat]
Delivery == [event : EventId, by : Claimant, key : {"asset", "master"}]
ScanStep == {"idle", "ladder", "own", "asset", "category", "total", "pick",
             "insert", "stage", "mail"}

NoEvent == [status |-> "none", asset |-> NoAsset, scope |-> NoAsset, heir |-> NoHeir,
            until |-> 0]
NoTarget == [asset |-> NoAsset, heir |-> NoHeir, back |-> "idle"]
NoSnap == [last |-> 0, level |-> 0, seen |-> 0]

\* The owner has registered and sent a first authenticated request, which sets
\* last_login_at; before it the scheduler does not select the row.
Init ==
  /\ now = 0 /\ faults = 0
  /\ conf \in Config
  /\ assets = Asset
  /\ lastLogin = 0 /\ lastSeen = 0 /\ stage = "inactive" /\ level = 0
  /\ enabled = TRUE
  /\ session = TokenLife
  /\ rows = 0 /\ events = [e \in EventId |-> NoEvent]
  /\ mailed = {} /\ released = {}
  /\ spc = "idle" /\ scanNow = 0 /\ snap = NoSnap
  /\ todo = {} /\ bound = {} /\ cur = NoTarget /\ catOpen = FALSE
  /\ lpc = [l \in Login |-> "idle"] /\ lstage = [l \in Login |-> "inactive"]
  /\ cpc = [c \in Claimant |-> "idle"]
  /\ cev = [c \in Claimant |-> 0] /\ casset = [c \in Claimant |-> NoAsset]

------------------------------------------------------------------------------
(* Shared by every process *)

\* Mutant: the cursor over the own bindings stays open as well.
ConnFreeTwoCursors == (IF catOpen THEN 2 ELSE 0) < PoolSize

\* A statement needs a connection; the open cursor of catRows keeps one.
ConnFree == (IF catOpen THEN 1 ELSE 0) < PoolSize

\* A statement fails: its error is logged and the handler goes on without it.
Fails == faults < MaxFaults /\ faults' = faults + 1

\* The scan ends and its local variables with it.
EndScan ==
  /\ spc' = "idle" /\ scanNow' = 0 /\ snap' = NoSnap
  /\ todo' = {} /\ bound' = {} /\ cur' = NoTarget /\ catOpen' = FALSE

Proceed(step) ==
  IF step = "idle" THEN EndScan ELSE spc' = step /\ UNCHANGED scanLocals

\* A claim answers; its local variables end with it.
EndClaim(c) ==
  /\ cpc' = [cpc EXCEPT ![c] = "done"]
  /\ cev' = [cev EXCEPT ![c] = 0]
  /\ casset' = [casset EXCEPT ![c] = NoAsset]

\* A login answers with a token.
EndLogin(l) ==
  /\ lpc' = [lpc EXCEPT ![l] = "done"]
  /\ lstage' = [lstage EXCEPT ![l] = "inactive"]
  /\ session' = now + TokenLife

Live(e) == events[e].status \in {"pending", "claimed"}
\* Mutant: only a pending event blocks a new one.
LiveOnPending(a) == \E e \in EventId : events[e].status = "pending" /\ events[e].asset = a

LiveOn(a) == \E e \in EventId : Live(e) /\ events[e].asset = a

\* A scan or a login takes less than a time unit; a claim may take longer.
Tick ==
  /\ now < MaxTime
  /\ spc = "idle" /\ \A l \in Login : lpc[l] \in {"idle", "done"}
  /\ now' = now + 1
  /\ UNCHANGED <<faults, ownerVars, estateVars, eventVars, scanVars, loginVars, claimVars>>

\* The process dies and is started again: the database and the tokens stay.
Crash ==
  /\ Fails
  /\ EndScan
  /\ lpc' = [l \in Login |-> IF lpc[l] = "idle" THEN "idle" ELSE "done"]
  /\ lstage' = [l \in Login |-> "inactive"]
  /\ cpc' = [c \in Claimant |-> IF cpc[c] = "idle" THEN "idle" ELSE "done"]
  /\ cev' = [c \in Claimant |-> 0] /\ casset' = [c \in Claimant |-> NoAsset]
  /\ UNCHANGED <<now, ownerVars, estateVars, eventVars>>

------------------------------------------------------------------------------
(* The scheduler: processEscalation, triggerInheritance, createInheritanceEvent *)

\* Mutant: a day that has begun counts.
DaysSinceRoundedUp == (scanNow - snap.last + Day - 1) \div Day

DaysSince == (scanNow - snap.last) \div Day

Due(b) == b.days <= DaysSince

\* Mutant: ORDER BY priority DESC.
IsNextDescending(b) == b \in todo /\ \A c \in todo : c.rank <= b.rank

\* ORDER BY priority, id
IsNext(b) == b \in todo /\ \A c \in todo : b.rank <= c.rank

\* The scan reads the owner's row once; switched off, the row is not selected.
StartScan ==
  /\ spc = "idle" /\ ConnFree /\ enabled
  /\ scanNow' = now
  /\ snap' = [last |-> lastLogin, level |-> level, seen |-> lastSeen]
  /\ spc' = "ladder"
  /\ UNCHANGED <<clockVars, ownerVars, estateVars, eventVars, todo, bound, cur, catOpen,
                 loginVars, claimVars>>

\* Mutant: the level is raised by one whenever a tier is reached.
EscalateAgain ==
  /\ spc = "ladder" /\ ConnFree
  /\ level' = IF DaysSince >= WarnDays THEN level + 1 ELSE level
  /\ Proceed(IF DaysSince >= TriggerDays THEN "own" ELSE "idle")
  /\ UNCHANGED <<clockVars, lastLogin, stage, enabled, session, lastSeen, estateVars,
                 eventVars, loginVars, claimVars>>

\* Raise escalation_level from the value the scan read, then notify the owner;
\* behind the last tier the inheritance is triggered.
Escalate ==
  /\ spc = "ladder" /\ ConnFree
  /\ IF DaysSince >= WarnDays /\ snap.level < 1
       THEN \/ level' = 1 /\ UNCHANGED faults
            \/ Fails /\ UNCHANGED level
       ELSE UNCHANGED <<level, faults>>
  /\ Proceed(IF DaysSince >= TriggerDays THEN "own" ELSE "idle")
  /\ UNCHANGED <<now, lastLogin, stage, enabled, session, lastSeen, estateVars, eventVars,
                 loginVars, claimVars>>

LoadOwnBindings ==
  /\ spc = "own" /\ ConnFree
  /\ todo' = {b \in conf.own : b.asset \in assets}
  /\ bound' = {}
  /\ spc' = "asset"
  /\ UNCHANGED <<clockVars, ownerVars, estateVars, eventVars, scanNow, snap, cur, catOpen,
                 loginVars, claimVars>>

\* Mutant: the events in force are not counted.
DecideBindingBlind(b, step) ==
  /\ cur' = [asset |-> b.asset, heir |-> b.heir, back |-> step]
  /\ spc' = "insert"

\* COUNT, then create the event of b unless one is in force; the loop over
\* the rows of `step` goes on afterwards.
DecideBinding(b, step) ==
  IF LiveOn(b.asset)
    THEN UNCHANGED <<spc, cur>>
    ELSE /\ cur' = [asset |-> b.asset, heir |-> b.heir, back |-> step]
         /\ spc' = "insert"

\* One row of asset_inheritors.  The asset counts as configured even while its
\* trigger_days are not reached.
OwnBinding(b) ==
  /\ spc = "asset" /\ ConnFree /\ IsNext(b)
  /\ todo' = todo \ {b}
  /\ bound' = bound \union {b.asset}
  /\ \/ /\ IF Due(b) THEN DecideBinding(b, "asset") ELSE UNCHANGED <<spc, cur>>
        /\ UNCHANGED faults
     \/ Due(b) /\ Fails /\ UNCHANGED <<spc, cur>>
  /\ UNCHANGED <<now, ownerVars, estateVars, eventVars, scanNow, snap, catOpen,
                 loginVars, claimVars>>

\* Open the cursor over the category bindings of assets without their own.
OpenCategories ==
  /\ spc = "asset" /\ todo = {} /\ ConnFree
  /\ todo' = {b \in conf.cat : b.asset \in assets /\ \A o \in conf.own : o.asset # b.asset}
  /\ catOpen' = TRUE
  /\ spc' = "category"
  /\ UNCHANGED <<clockVars, ownerVars, estateVars, eventVars, scanNow, snap, bound, cur,
                 loginVars, claimVars>>

\* One row of the cursor is passed over: not due, or its asset has been dealt
\* with.  A row that is not due leaves its asset unconfigured.
SkipCategoryBinding(b) ==
  /\ spc = "category" /\ IsNext(b)
  /\ ~Due(b) \/ b.asset \in bound
  /\ todo' = todo \ {b}
  /\ UNCHANGED <<clockVars, ownerVars, estateVars, eventVars, spc, scanNow, snap, bound,
                 cur, catOpen, loginVars, claimVars>>

\* One row of the cursor is used.  The statements inside the loop need a second
\* connection.
CategoryBinding(b) ==
  /\ spc = "category" /\ IsNext(b) /\ ConnFree
  /\ Due(b) /\ b.asset \notin bound
  /\ todo' = todo \ {b}
  /\ bound' = bound \union {b.asset}
  /\ \/ DecideBinding(b, "category") /\ UNCHANGED faults
     \/ Fails /\ UNCHANGED <<spc, cur>>
  /\ UNCHANGED <<now, ownerVars, estateVars, eventVars, scanNow, snap, catOpen,
                 loginVars, claimVars>>

CloseCategories ==
  /\ spc = "category" /\ todo = {}
  /\ catOpen' = FALSE
  /\ spc' = "total"
  /\ UNCHANGED <<clockVars, ownerVars, estateVars, eventVars, scanNow, snap, todo, bound,
                 cur, loginVars, claimVars>>

\* Mutant: one configured asset is enough to leave out the whole estate.
CountAssetsAny ==
  /\ spc = "total" /\ ConnFree
  /\ Proceed(IF bound # {} THEN "idle" ELSE "pick")
  /\ UNCHANGED <<clockVars, ownerVars, estateVars, eventVars, loginVars, claimVars>>

\* Everything configured: no event for the whole estate.
CountAssets ==
  /\ spc = "total" /\ ConnFree
  /\ Proceed(IF Cardinality(bound) >= Cardinality(assets) /\ assets # {}
               THEN "idle" ELSE "pick")
  /\ UNCHANGED <<clockVars, ownerVars, estateVars, eventVars, loginVars, claimVars>>

\* The default inheritor if its row exists, or else the first in order.
IsGlobalHeir(h) ==
  h = conf.default \/ (conf.default \notin conf.heirs /\ \A g \in conf.heirs : h <= g)

PickGlobalHeir ==
  /\ spc = "pick" /\ ConnFree
  /\ IF LiveOn(NoAsset) \/ conf.heirs = {}
       THEN EndScan
       ELSE /\ \E h \in conf.heirs :
                 IsGlobalHeir(h) /\ cur' = [asset |-> NoAsset, heir |-> h, back |-> "idle"]
            /\ spc' = "insert"
            /\ UNCHANGED <<scanNow, snap, todo, bound, catOpen>>
  /\ UNCHANGED <<clockVars, ownerVars, estateVars, eventVars, loginVars, claimVars>>

InsertEvent ==
  /\ spc = "insert" /\ ConnFree
  /\ cur.asset \in assets \union {NoAsset}
  /\ rows < MaxEvents
  /\ rows' = rows + 1
  /\ events' = [events EXCEPT ![rows + 1] =
                  [status |-> "pending", asset |-> cur.asset, scope |-> cur.asset,
                   heir |-> cur.heir, until |-> 0]]
  /\ spc' = "stage"
  /\ UNCHANGED <<clockVars, ownerVars, estateVars, mailed, released, scanNow, snap, todo,
                 bound, cur, catOpen, loginVars, claimVars>>

\* The INSERT fails, also because the asset was destroyed meanwhile (foreign
\* key): createInheritanceEvent returns.
InsertFails ==
  /\ spc = "insert" /\ ConnFree
  /\ \/ cur.asset \notin assets \union {NoAsset} /\ UNCHANGED faults
     \/ Fails
  /\ Proceed(cur.back)
  /\ UNCHANGED <<now, ownerVars, estateVars, eventVars, loginVars, claimVars>>

SetTriggered ==
  /\ spc = "stage" /\ ConnFree
  /\ \/ stage' = "triggered" /\ UNCHANGED faults
     \/ Fails /\ UNCHANGED stage
  /\ spc' = "mail"
  /\ UNCHANGED <<now, lastLogin, level, enabled, session, lastSeen, estateVars, eventVars,
                 scanNow, snap, todo, bound, cur, catOpen, loginVars, claimVars>>

\* Reminder, audit record and the mail with the key of the row just inserted.
MailHeir ==
  /\ spc = "mail" /\ ConnFree
  /\ \/ mailed' = mailed \union {rows} /\ UNCHANGED faults
     \/ Fails /\ UNCHANGED mailed
  /\ Proceed(cur.back)
  /\ UNCHANGED <<now, ownerVars, estateVars, rows, events, released, loginVars, claimVars>>

\* A query of triggerInheritance fails and it returns.
ScanGivesUp ==
  /\ spc \in {"own", "total", "pick"} \/ (spc = "asset" /\ todo = {})
  /\ ConnFree /\ Fails
  /\ EndScan
  /\ UNCHANGED <<now, ownerVars, estateVars, eventVars, loginVars, claimVars>>

ScanStepTaken ==
  \/ Escalate \/ LoadOwnBindings \/ OpenCategories \/ CloseCategories \/ CountAssets
  \/ PickGlobalHeir \/ InsertEvent \/ InsertFails \/ SetTriggered \/ MailHeir
  \/ ScanGivesUp
  \/ \E b \in todo : OwnBinding(b) \/ SkipCategoryBinding(b) \/ CategoryBinding(b)

------------------------------------------------------------------------------
(* The owner: handleLogin, requireAuth and the requests behind it *)

\* Credentials were right.  A stage that cannot be read counts as inactive.
LoginReadsStage(l) ==
  /\ lpc[l] = "idle" /\ ConnFree
  /\ \/ lstage' = [lstage EXCEPT ![l] = stage] /\ UNCHANGED faults
     \/ Fails /\ lstage' = [lstage EXCEPT ![l] = "inactive"]
  /\ lpc' = [lpc EXCEPT ![l] = "reset"]
  /\ UNCHANGED <<now, ownerVars, estateVars, eventVars, scanVars, claimVars>>

\* Refresh last_login_at, drop stage and level.  Only a login that read a stage
\* goes on to reverse events.
LoginResets(l) ==
  /\ lpc[l] = "reset" /\ ConnFree
  /\ \/ /\ lastLogin' = now /\ lastSeen' = now /\ stage' = "inactive" /\ level' = 0
        /\ UNCHANGED faults
     \/ Fails /\ UNCHANGED <<lastLogin, lastSeen, stage, level>>
  /\ IF lstage[l] = "inactive"
       THEN EndLogin(l)
       ELSE lpc' = [lpc EXCEPT ![l] = "reverse"] /\ UNCHANGED <<session, lstage>>
  /\ UNCHANGED <<now, enabled, estateVars, eventVars, scanVars, claimVars>>

\* Mutant: reversible_until is not looked at.
ReversibleForever(e) == events[e].status \in {"pending", "claimed"}

Reversible(e) ==
  \/ events[e].status = "pending"
  \/ events[e].status = "claimed" /\ now < events[e].until

LoginReverses(l) ==
  /\ lpc[l] = "reverse" /\ ConnFree
  /\ \/ /\ events' = [e \in EventId |->
                        IF Reversible(e) THEN [events[e] EXCEPT !.status = "reversed"]
                                         ELSE events[e]]
        /\ UNCHANGED faults
     \/ Fails /\ UNCHANGED events
  /\ EndLogin(l)
  /\ UNCHANGED <<now, lastLogin, stage, level, enabled, lastSeen, estateVars, rows, mailed,
                 released, scanVars, claimVars>>

\* Every authenticated request passes touchLastLogin, which leaves stage and
\* level alone and writes only when the stored time is old enough.
TouchLastLogin ==
  /\ now < session /\ ConnFree
  /\ lastSeen' = now
  /\ lastLogin' = IF lastLogin + HeartbeatGap < now THEN now ELSE lastLogin

Heartbeat ==
  /\ TouchLastLogin
  /\ UNCHANGED <<clockVars, stage, level, enabled, session, estateVars, eventVars, scanVars,
                 loginVars, claimVars>>

ToggleInheritance ==
  /\ TouchLastLogin
  /\ enabled' = ~enabled
  /\ UNCHANGED <<clockVars, stage, level, session, estateVars, eventVars, scanVars,
                 loginVars, claimVars>>

\* The final DELETE of an asset the owner has put into the recycle bin.  Being in
\* the bin (deleted_at) means nothing to the scheduler, which selects by status.
\* ON DELETE SET NULL turns the asset's events into events without an asset.
PurgeAsset(a) ==
  /\ TouchLastLogin
  /\ a \in assets
  /\ assets' = assets \ {a}
  /\ events' = [e \in EventId |->
                  IF events[e].asset = a THEN [events[e] EXCEPT !.asset = NoAsset]
                                         ELSE events[e]]
  /\ UNCHANGED <<clockVars, stage, level, enabled, session, conf, rows, mailed, released,
                 scanVars, loginVars, claimVars>>

------------------------------------------------------------------------------
(* An inheritor: handleClaim *)

\* The key of the mail and the access code are right and the row is pending.
ClaimReads(c, e) ==
  /\ cpc[c] = "idle" /\ ConnFree
  /\ e \in mailed /\ events[e].status = "pending"
  /\ cev' = [cev EXCEPT ![c] = e]
  /\ casset' = [casset EXCEPT ![c] = events[e].asset]
  /\ cpc' = [cpc EXCEPT ![c] = "take"]
  /\ UNCHANGED <<clockVars, ownerVars, estateVars, eventVars, scanVars, loginVars>>

\* Mutant: UPDATE without the condition on the status.
ClaimTakesAnyway(c) ==
  /\ cpc[c] = "take" /\ ConnFree
  /\ events' = [events EXCEPT ![cev[c]].status = "claimed",
                              ![cev[c]].until = now + ReversalWindow]
  /\ cpc' = [cpc EXCEPT ![c] = "stage"]
  /\ UNCHANGED <<clockVars, ownerVars, estateVars, rows, mailed, released, scanVars,
                 loginVars, cev, casset>>

\* UPDATE ... WHERE status = 'pending'; no row means somebody was faster (409).
ClaimTakes(c) ==
  /\ cpc[c] = "take" /\ ConnFree
  /\ IF events[cev[c]].status = "pending"
       THEN /\ events' = [events EXCEPT ![cev[c]].status = "claimed",
                                        ![cev[c]].until = now + ReversalWindow]
            /\ cpc' = [cpc EXCEPT ![c] = "stage"]
            /\ UNCHANGED <<cev, casset>>
       ELSE EndClaim(c) /\ UNCHANGED events
  /\ UNCHANGED <<clockVars, ownerVars, estateVars, rows, mailed, released, scanVars,
                 loginVars>>

ClaimFails(c) ==
  /\ cpc[c] = "take" /\ ConnFree /\ Fails
  /\ EndClaim(c)
  /\ UNCHANGED <<now, ownerVars, estateVars, eventVars, scanVars, loginVars>>

ClaimSetsStage(c) ==
  /\ cpc[c] = "stage" /\ ConnFree
  /\ \/ stage' = "claimed" /\ UNCHANGED faults
     \/ Fails /\ UNCHANGED stage
  /\ cpc' = [cpc EXCEPT ![c] = "deliver"]
  /\ UNCHANGED <<now, lastLogin, level, enabled, session, lastSeen, estateVars, eventVars,
                 scanVars, loginVars, cev, casset>>

\* The answer, after the asset_id the claim read first.  An asset without its
\* wrapped key, or already destroyed, is answered with an error.
ClaimDelivers(c) ==
  /\ cpc[c] = "deliver" /\ ConnFree
  /\ released' =
       IF casset[c] = NoAsset
         THEN released \union {[event |-> cev[c], by |-> c, key |-> "master"]}
       ELSE IF casset[c] \in assets \intersect conf.wrapped
         THEN released \union {[event |-> cev[c], by |-> c, key |-> "asset"]}
       ELSE released
  /\ EndClaim(c)
  /\ UNCHANGED <<clockVars, ownerVars, estateVars, rows, events, mailed, scanVars, loginVars>>

------------------------------------------------------------------------------

Next ==
  \/ Tick \/ Crash
  \/ StartScan \/ ScanStepTaken
  \/ \E l \in Login : LoginReadsStage(l) \/ LoginResets(l) \/ LoginReverses(l)
  \/ Heartbeat \/ ToggleInheritance \/ \E a \in assets : PurgeAsset(a)
  \/ \E c \in Claimant :
       \/ \E e \in mailed : ClaimReads(c, e)
       \/ ClaimTakes(c) \/ ClaimFails(c) \/ ClaimSetsStage(c) \/ ClaimDelivers(c)

Spec == Init /\ [][Next]_vars

\* The scheduler goroutine never stops, and the server finishes the requests it
\* has begun.  Nothing obliges the owner or an inheritor to send one.
Fairness ==
  /\ WF_vars(StartScan \/ ScanStepTaken)
  /\ \A l \in Login : WF_vars(LoginResets(l) \/ LoginReverses(l))
  /\ \A c \in Claimant : WF_vars(ClaimTakes(c) \/ ClaimSetsStage(c) \/ ClaimDelivers(c))

FairSpec == Spec /\ Fairness

------------------------------------------------------------------------------
(* What the handover promises *)

OwnerTypeOK ==
  /\ now \in Nat /\ faults \in Nat
  /\ conf \in Configuration /\ assets \subseteq Asset
  /\ lastLogin \in Nat /\ lastSeen \in Nat /\ session \in Nat
  /\ stage \in {"inactive", "triggered", "claimed"}
  /\ level \in {0, 1} /\ enabled \in BOOLEAN

EventTypeOK ==
  /\ rows \in 0..MaxEvents /\ events \in [EventId -> Event]
  /\ mailed \subseteq 1..rows /\ released \subseteq Delivery

ScanTypeOK ==
  /\ spc \in ScanStep /\ scanNow \in Nat /\ catOpen \in BOOLEAN
  /\ snap \in [last : Nat, level : {0, 1}, seen : Nat]
  /\ todo \subseteq Binding /\ bound \subseteq Asset
  /\ cur \in [asset : Asset \union {NoAsset}, heir : Heir \union {NoHeir},
              back : {"idle", "asset", "category"}]

RequestTypeOK ==
  /\ lpc \in [Login -> {"idle", "reset", "reverse", "done"}]
  /\ lstage \in [Login -> {"inactive", "triggered", "claimed"}]
  /\ cpc \in [Claimant -> {"idle", "take", "stage", "deliver", "done"}]
  /\ cev \in [Claimant -> EventId \union {0}]
  /\ casset \in [Claimant -> Asset \union {NoAsset}]

\* The shapes of the rows and of the handlers' variables: among other things a
\* level is never raised beyond the ladder, and only inserted rows are mailed.
TypeOK == OwnerTypeOK /\ EventTypeOK /\ ScanTypeOK /\ RequestTypeOK

\* An asset never has two events in force, although the scheduler counts the
\* events of an asset in one statement and inserts in another, while claims,
\* logins and purges run in between (scheduler.go, triggerInheritance).
OneLiveEventPerAsset ==
  \A e, f \in EventId :
    Live(e) /\ Live(f) /\ events[e].asset = events[f].asset /\ events[e].asset # NoAsset
      => e = f

\* However many inheritors claim the same event together, and whatever login or
\* crash comes between, its key is handed out once (inheritance.go, handleClaim).
KeyReleasedOnce ==
  \A r, q \in released : r.event = q.event => r = q

\* Once the reversal window of a claim is over the handover is final: no login,
\* however late or slow, takes it back (auth.go, handleLogin).
Final(e) == events[e].status = "claimed" /\ events[e].until <= now

FinalIsFinal ==
  [][\A e \in EventId : Final(e) => events'[e].status = "claimed"]_vars

\* An event is only ever created for an owner whose last authenticated request
\* before the scan lies the whole ladder back, give or take the 12 hours that
\* touchLastLogin leaves unwritten (scheduler.go, middleware.go).
TriggeredOnlyWhenSilent ==
  [][rows' # rows => (scanNow - snap.seen) + HeartbeatGap >= TriggerDays * Day]_vars

\* While the owner stays silent and nothing fails, the event of an asset goes to
\* the first of its inheritors whose days are over: among its own bindings where
\* it has any, among those of its category otherwise (scheduler.go,
\* triggerInheritance).  A login during the scan may reverse that event and let
\* the next inheritor in.
Candidates(a) ==
  LET own == {b \in conf.own : b.asset = a}
  IN {b \in (IF own # {} THEN own ELSE {c \in conf.cat : c.asset = a}) : Due(b)}

FirstDueHeirGetsTheAsset ==
  [][rows' # rows /\ faults = 0 /\ lastSeen = snap.seen /\ events'[rows'].asset # NoAsset =>
       \E b \in Candidates(events'[rows'].asset) :
         /\ b.heir = events'[rows'].heir
         /\ \A c \in Candidates(events'[rows'].asset) : b.rank <= c.rank]_vars

\* Whatever the other requests do, every scan comes to its end (main.go,
\* runScheduler: the next scan starts only then).
ScanEnds == (spc # "idle") ~> (spc = "idle")

\* An owner who stays silent beyond the ladder is handed over: every asset that
\* has a due inheritor ends up with an event in force, of its own or for the
\* whole estate, whose key was mailed (scheduler.go, triggerInheritance).
Overdue == enabled /\ now - lastLogin >= TriggerDays * Day

Owed(a) ==
  LET Over(b) == b.days <= (now - lastLogin) \div Day
      mine == {b \in conf.own : b.asset = a}
      ours == {b \in conf.cat : b.asset = a}
  IN /\ a \in assets
     /\ \/ \E b \in mine : Over(b)
        \/ mine = {} /\ \E b \in ours : Over(b)
        \/ mine = {} /\ ours = {} /\ conf.heirs # {}

HandedOver(a) == \E e \in mailed : Live(e) /\ events[e].scope \in {a, NoAsset}

SilentOwnerIsHandedOver ==
  \A a \in Asset : (Overdue /\ Owed(a)) ~> (HandedOver(a) \/ ~(Overdue /\ Owed(a)))

\* The same with one escape: while the event of a destroyed asset is in force it
\* counts as an event for the whole estate, and none is created for what has no
\* inheritor of its own (scheduler.go, triggerInheritance).
Detached == \E e \in EventId : Live(e) /\ events[e].asset = NoAsset /\ events[e].scope # NoAsset

SilentOwnerIsHandedOverOrDetached ==
  \A a \in Asset : (Overdue /\ Owed(a)) ~>
                     (HandedOver(a) \/ ~(Overdue /\ Owed(a)) \/ Detached)

\* A login that ends while no scan is running leaves no event pending (auth.go:
\* the owner is alive, pending events are reversed unconditionally).
LoginReversesPending ==
  [][\A l \in Login : lpc[l] # "done" /\ lpc'[l] = "done" /\ spc = "idle"
       => \A e \in EventId : events'[e].status # "pending"]_vars

\* The event that hands over the whole estate is only created when some asset has
\* neither an inheritor of its own nor one of its category (scheduler.go).
EstateOnlyForUnconfigured ==
  [][rows' # rows /\ events'[rows'].asset = NoAsset /\ assets # {} =>
       \E a \in assets : \A b \in conf.own \union conf.cat : b.asset # a]_vars

Ledger ==
  INSTANCE EventLedger WITH
    events <- [e \in EventId |-> [status |-> events[e].status, asset |-> events[e].asset,
                                  until |-> events[e].until]],
    released <- {[event |-> r.event, key |-> r.key] : r \in released}

\* The server implements the ledger of events.
ImplementsLedger == Ledger!LedgerSpec

==============================================================================
