----------------------------- MODULE EventLedger -----------------------------
(***************************************************************************)
(* What one owner's inheritance events promise, whoever runs the server:   *)
(* the life of an event from its creation to its claim, its reversal or    *)
(* its final hand-over, and the single release of the key it stands for.   *)
(* Nothing here says how the scheduler, a login or a claim is programmed;  *)
(* module Handover does, and implements this one.                          *)
(***************************************************************************)
EXTENDS Naturals

CONSTANTS
  EventId,         \* identities of the events that may ever be created
  Asset,           \* the owner's assets
  NoAsset,         \* the asset of an event that hands over everything
  ReversalWindow   \* how long a claim can still be reversed

VARIABLES
  now,       \* the clock
  events,    \* what is recorded of each event
  released   \* the keys that were handed out, and for which event

ledgerVars == <<now, events, released>>

LedgerStatus == {"none", "pending", "claimed", "reversed"}
LedgerEvent == [status : LedgerStatus, asset : Asset \union {NoAsset}, until : Nat]
LedgerKey == [event : EventId, key : {"asset", "master"}]

LedgerTypeOK ==
  /\ now \in Nat
  /\ events \in [EventId -> LedgerEvent]
  /\ released \subseteq LedgerKey

InForce(e) == events[e].status \in {"pending", "claimed"}

Reversible(e) ==
  \/ events[e].status = "pending"
  \/ events[e].status = "claimed" /\ now < events[e].until

LedgerInit ==
  /\ now \in Nat
  /\ events = [e \in EventId |-> [status |-> "none", asset |-> NoAsset, until |-> 0]]
  /\ released = {}

Advance ==
  /\ now' = now + 1
  /\ UNCHANGED <<events, released>>

\* An asset has at most one event in force at a time.
Create(e, a) ==
  /\ events[e].status = "none"
  /\ a # NoAsset => \A f \in EventId : InForce(f) => events[f].asset # a
  /\ events' = [events EXCEPT ![e] = [status |-> "pending", asset |-> a, until |-> 0]]
  /\ UNCHANGED <<now, released>>

TakeUp(e) ==
  /\ events[e].status = "pending"
  /\ events' = [events EXCEPT ![e].status = "claimed", ![e].until = now + ReversalWindow]
  /\ UNCHANGED <<now, released>>

\* The key of an event leaves once, and only after somebody claimed the event.
Release(e, k) ==
  /\ events[e].status \in {"claimed", "reversed"}
  /\ \A r \in released : r.event # e
  /\ released' = released \union {[event |-> e, key |-> k]}
  /\ UNCHANGED <<now, events>>

\* The owner is back: everything that can be reversed is, at once.
OwnerReturns ==
  /\ events' = [e \in EventId |->
                  IF Reversible(e) THEN [events[e] EXCEPT !.status = "reversed"]
                                   ELSE events[e]]
  /\ UNCHANGED <<now, released>>

\* The asset itself is destroyed; its events stay, without an asset.
Detach(a) ==
  /\ events' = [e \in EventId |->
                  IF events[e].asset = a THEN [events[e] EXCEPT !.asset = NoAsset]
                                         ELSE events[e]]
  /\ UNCHANGED <<now, released>>

LedgerNext ==
  \/ Advance
  \/ OwnerReturns
  \/ \E e \in EventId :
       \/ TakeUp(e)
       \/ \E a \in Asset \union {NoAsset} : Create(e, a)
       \/ \E k \in {"asset", "master"} : Release(e, k)
  \/ \E a \in Asset : Detach(a)

LedgerSpec == LedgerInit /\ [][LedgerNext]_ledgerVars

==============================================================================
