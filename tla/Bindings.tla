------------------------------ MODULE Bindings ------------------------------
(***************************************************************************)
(* Who is to inherit what: the inheritors of one owner, their bindings to  *)
(* assets and to categories, the trigger ladders the bindings name, and    *)
(* the two readings of all this: the preview the owner is shown and the    *)
(* plan the scheduler acts upon.  A handler whose last statement repeats   *)
(* every condition it read, by its WHERE or by a foreign key, is one step. *)
(* The bindings of an item are a sequence, ORDER BY priority, id.          *)
(***************************************************************************)
EXTENDS Integers, Sequences, FiniteSets, SequencesExt

CONSTANTS
  Asset, Category,
  MaxHeirs,     \* bound: rows of inheritors
  MaxLadders,   \* bound: rows of trigger_ladders
  BoundItem,    \* bound: items that are bound,
  LadderItem,   \* bound: and those whose bindings may name a ladder
  Request,      \* bound: requests of several statements in progress at once
  None          \* NULL

ASSUME BindingsAssumption ==
  /\ Asset \intersect Category = {} /\ None \notin Asset \union Category
  /\ IsFiniteSet(Asset)
  /\ MaxHeirs \in Nat /\ MaxLadders \in Nat
  /\ LadderItem \subseteq BoundItem /\ BoundItem \subseteq Asset \union Category

Item == Asset \union Category
HeirId == 1..MaxHeirs
LadderId == 1..MaxLadders
NoHeir == 0
Global == 0      \* ladder_id IS NULL: the global ladder

VARIABLES
  category,   \* assets.category_id of the rows of assets that are 'active'
  categories, \* rows of categories
  heirs,      \* rows of inheritors
  heirRows,   \* ids of inheritors handed out (AUTOINCREMENT)
  default,    \* users.default_inheritor_id
  bound,      \* rows of asset_inheritors and category_inheritors, per item
  ladders,    \* rows of trigger_ladders, by id
  req         \* what the requests in progress have read

vars == <<category, categories, heirs, heirRows, default, bound, ladders, req>>

Assets == DOMAIN category
Items == Assets \union categories
Binding == [heir : HeirId, ladder : LadderId \union {Global}]
NoReq == [step |-> "idle", ladder |-> Global, on |-> {}, seen |-> 0]

TypeOK ==
  /\ Assets \subseteq Asset /\ \A a \in Assets : category[a] \in Category \union {None}
  /\ categories \subseteq Category
  /\ heirRows \in 0..MaxHeirs /\ heirs \subseteq 1..heirRows
  /\ default \in HeirId \union {NoHeir}
  /\ DOMAIN bound = Item /\ \A i \in Item : IsInjective(bound[i]) /\ Range(bound[i]) \subseteq Binding
  /\ Len(ladders) <= MaxLadders /\ Range(ladders) \subseteq {"global", "custom", "gone"}
  /\ req \in [Request -> [step : {"idle", "insert", "update"},
                          ladder : LadderId \union {Global},
                          on : SUBSET (Item \X HeirId), seen : 0..MaxLadders]]

\* An owner from before the ladders has no global one yet.
Init ==
  /\ category = [a \in Asset |-> None]
  /\ categories = Category
  /\ heirs = {} /\ heirRows = 0 /\ default = NoHeir
  /\ bound = [i \in Item |-> <<>>]
  /\ ladders = <<>>
  /\ req = [r \in Request |-> NoReq]

------------------------------------------------------------------------------
(* Queries *)

HeirsOf(i) == {b.heir : b \in Range(bound[i])}
FirstOf(i) == Head(bound[i]).heir
FirstHeir == CHOOSE h \in heirs : \A g \in heirs : h <= g

\* ladderOwnedBy, and what ladder_id may be in a row.
LadderOwned(l) == l \in DOMAIN ladders /\ ladders[l] # "gone"
ValidLadder(l) == l = Global \/ LadderOwned(l)
GlobalLadders == {l \in DOMAIN ladders : ladders[l] = "global"}
CustomLadders == {l \in DOMAIN ladders : ladders[l] = "custom"}

\* handleListLadderBindings: of a custom ladder, and of the global one.
LadderBindings(l) ==
  LET named == IF ladders[l] = "global" THEN Global ELSE l
  IN {p \in Items \X HeirId : \E b \in Range(bound[p[1]]) : b.heir = p[2] /\ b.ladder = named}

\* handleListInheritorAssets, handleListCategoryInheritorAssets.
InheritorItems(h) == {i \in Items : h \in HeirsOf(i)}
InheritedByCategory(c) == {a \in Assets : category[a] = c /\ bound[a] = <<>>}

Via(a) == IF bound[a] # <<>> THEN a
          ELSE IF category[a] # None /\ bound[category[a]] # <<>> THEN category[a]
          ELSE None

\* Who gets the estate: the default inheritor or the first.
EstateHeir == IF default \in heirs THEN default ELSE IF heirs # {} THEN FirstHeir ELSE NoHeir

\* Mutant: a category goes before the binding of the asset.
PreviewCategoryFirst ==
  [a \in Assets |-> IF category[a] # None /\ bound[category[a]] # <<>> THEN FirstOf(category[a])
                    ELSE IF bound[a] # <<>> THEN FirstOf(a) ELSE EstateHeir]

\* handleInheritancePreview: the heir of every asset.
Preview ==
  [a \in Assets |-> IF Via(a) # None THEN FirstOf(Via(a)) ELSE EstateHeir]

\* Mutant: the estate is left to nobody as soon as one asset is configured.
TriggeredEstateOnlyIfNothingBound ==
  LET own == {[asset |-> a, heir |-> FirstOf(a)] : a \in {x \in Assets : bound[x] # <<>>}}
  IN IF own # {} \/ EstateHeir = NoHeir THEN own ELSE {[asset |-> None, heir |-> EstateHeir]}

\* triggerInheritance when every binding is due and no event is in force: the
\* events of the bindings of assets, of those of categories, and of the estate.
Triggered ==
  LET own == {[asset |-> a, heir |-> FirstOf(a)] : a \in {x \in Assets : bound[x] # <<>>}}
      byCategory == UNION {{[asset |-> a, heir |-> FirstOf(c)] : a \in InheritedByCategory(c)} :
                             c \in {d \in categories : bound[d] # <<>>}}
      configured == Cardinality(own \union byCategory)
      total == Cardinality(Assets)
  IN own \union byCategory \union
     IF (configured >= total /\ total > 0) \/ EstateHeir = NoHeir THEN {}
     ELSE {[asset |-> None, heir |-> EstateHeir]}

\* The asset is handed over by an event of its own, or with the estate.
HeirByTrigger(a) ==
  IF \E e \in Triggered : e.asset = a THEN (CHOOSE e \in Triggered : e.asset = a).heir
  ELSE IF \E e \in Triggered : e.asset = None THEN (CHOOSE e \in Triggered : e.asset = None).heir
  ELSE NoHeir

------------------------------------------------------------------------------
(* Steps shared by the requests.  An id of a row that is gone matches        *)
(* nothing any more, so it is dropped from the requests that hold it.        *)

At(r, step) == req[r].step = step
Forget(P) == req' = [r \in Request |-> [req[r] EXCEPT !.on = @ \ P]]
Answer(r) == req' = [req EXCEPT ![r] = NoReq]

SetLadder(P, l) ==
  bound' = [i \in Item |-> [k \in DOMAIN bound[i] |->
              IF <<i, bound[i][k].heir>> \in P THEN [bound[i][k] EXCEPT !.ladder = l]
              ELSE bound[i][k]]]

\* DELETE ... WHERE inheritor_id = ?: UNIQUE (item, inheritor_id) leaves one at most.
Without(s, h) ==
  IF \E k \in DOMAIN s : s[k].heir = h THEN RemoveAt(s, CHOOSE k \in DOMAIN s : s[k].heir = h)
  ELSE s

------------------------------------------------------------------------------
(* Inheritors *)

\* handleCreateInheritor: priority is left at its default.
CreateInheritor ==
  /\ heirRows < MaxHeirs /\ heirRows' = heirRows + 1
  /\ heirs' = heirs \union {heirRows + 1}
  /\ UNCHANGED <<category, categories, default, bound, ladders, req>>

\* Mutant: the default inheritor is no obstacle.
DeleteInheritorDefault ==
  \E h \in heirs :
    /\ heirs' = heirs \ {h}
    /\ bound' = [i \in Item |-> Without(bound[i], h)]
    /\ Forget(Item \X {h})
    /\ UNCHANGED <<category, categories, heirRows, default, ladders>>

\* handleDeleteInheritor: the bindings go with it (ON DELETE CASCADE); the
\* DELETE fails for the default inheritor, and where there is an event.
DeleteInheritor ==
  \E h \in heirs :
    /\ h # default
    /\ heirs' = heirs \ {h}
    /\ bound' = [i \in Item |-> Without(bound[i], h)]
    /\ Forget(Item \X {h})
    /\ UNCHANGED <<category, categories, heirRows, default, ladders>>

\* handlePutDefaultInheritor.
PutDefaultInheritor ==
  \E h \in heirs \union {NoHeir} :
    /\ default' = h
    /\ UNCHANGED <<category, categories, heirs, heirRows, bound, ladders, req>>

------------------------------------------------------------------------------
(* Bindings *)

\* Mutant: no UNIQUE (asset_id, inheritor_id).
CreateBindingTwice ==
  \E i \in Items \intersect BoundItem, h \in heirs, l \in LadderId \union {Global} :
    /\ ValidLadder(l) /\ (i \in LadderItem \/ l = Global)
    /\ Len(bound[i]) < MaxHeirs
    /\ \E k \in 1..(Len(bound[i]) + 1) :
         bound' = [bound EXCEPT ![i] = InsertAt(@, k, [heir |-> h, ladder |-> l])]
    /\ UNCHANGED <<category, categories, heirs, heirRows, default, ladders, req>>

\* handleCreateAssetInheritor, handleCreateCategoryInheritor: the priority asked
\* for decides the place.
CreateBinding ==
  \E i \in Items \intersect BoundItem, h \in heirs, l \in LadderId \union {Global} :
    /\ ValidLadder(l) /\ (i \in LadderItem \/ l = Global)
    /\ h \notin HeirsOf(i)
    /\ \E k \in 1..(Len(bound[i]) + 1) :
         bound' = [bound EXCEPT ![i] = InsertAt(@, k, [heir |-> h, ladder |-> l])]
    /\ UNCHANGED <<category, categories, heirs, heirRows, default, ladders, req>>

\* handleDeleteAssetInheritor, handleDeleteCategoryInheritor.
DeleteBinding ==
  \E i \in Items : \E h \in HeirsOf(i) :
    /\ bound' = [bound EXCEPT ![i] = Without(@, h)]
    /\ Forget({<<i, h>>})
    /\ UNCHANGED <<category, categories, heirs, heirRows, default, ladders>>

\* handleUpdateAssetInheritorLadder, handleUpdateCategoryInheritorLadder.
UpdateBindingLadder ==
  \E i \in Items \intersect LadderItem, l \in LadderId \union {Global} :
    /\ ValidLadder(l)
    /\ \E h \in HeirsOf(i) : SetLadder({<<i, h>>}, l)
    /\ UNCHANGED <<category, categories, heirs, heirRows, default, ladders, req>>

------------------------------------------------------------------------------
(* Ladders *)

\* Mutant: looks for the ladder of a name the owner may change.
EnsureLooksByName(r) ==
  /\ At(r, "idle")
  /\ req' = [req EXCEPT ![r] = [NoReq EXCEPT !.step = "insert", !.seen = Len(ladders)]]
  /\ UNCHANGED <<category, categories, heirs, heirRows, default, bound, ladders>>

\* ensureGlobalLadder, called by the list and by the preview.
EnsureLooks(r) ==
  /\ At(r, "idle")
  /\ GlobalLadders = {}
  /\ req' = [req EXCEPT ![r] = [NoReq EXCEPT !.step = "insert", !.seen = Len(ladders)]]
  /\ UNCHANGED <<category, categories, heirs, heirRows, default, bound, ladders>>

EnsureInserts(r) ==
  /\ At(r, "insert")
  /\ Len(ladders) < MaxLadders /\ ladders' = Append(ladders, "global")
  /\ Answer(r)
  /\ UNCHANGED <<category, categories, heirs, heirRows, default, bound>>

\* handleCreateTriggerLadder.
CreateLadder ==
  /\ Len(ladders) < MaxLadders /\ ladders' = Append(ladders, "custom")
  /\ UNCHANGED <<category, categories, heirs, heirRows, default, bound, req>>

\* handleDeleteTriggerLadders, for one of the ids: never a global ladder; its
\* bindings go back to the global one (ON DELETE SET NULL, and an UPDATE).
DeleteLadder ==
  \E l \in CustomLadders :
    /\ ladders' = [ladders EXCEPT ![l] = "gone"]
    /\ SetLadder(LadderBindings(l), Global)
    /\ UNCHANGED <<category, categories, heirs, heirRows, default, req>>

\* handleUnbindLadder: the ladder is looked up, then one UPDATE for the bindings
\* of assets and one for those of categories, both WHERE ladder_id = ?; they are
\* one step, as the rows of the two tables have nothing in common.
UnbindReads(r) ==
  \E l \in CustomLadders :
    \E P \in SUBSET {p \in (Items \intersect LadderItem) \X heirs : p[2] \in HeirsOf(p[1])} :
      /\ At(r, "idle") /\ P # {}
      /\ \A q \in Request : ~At(q, "update")   \* bound: one at a time
      /\ req' = [req EXCEPT ![r] = [NoReq EXCEPT !.step = "update", !.ladder = l, !.on = P]]
      /\ UNCHANGED <<category, categories, heirs, heirRows, default, bound, ladders>>

\* Mutant: the ladder the binding has by now is not compared.
UnbindWhatever(r) == req[r].on

Unbind(r) == LadderBindings(req[r].ladder) \intersect req[r].on

UnbindUpdates(r) ==
  /\ At(r, "update")
  /\ SetLadder(Unbind(r), Global)
  /\ Answer(r)
  /\ UNCHANGED <<category, categories, heirs, heirRows, default, ladders>>

------------------------------------------------------------------------------
(* The vault (module Vault): an asset is moved or purged, a category purged.  *)

MoveAsset ==
  \E a \in Assets, c \in categories \union {None} :
    /\ category' = [category EXCEPT ![a] = c]
    /\ UNCHANGED <<categories, heirs, heirRows, default, bound, ladders, req>>

PurgeAsset ==
  \E a \in Assets :
    /\ category' = [x \in Assets \ {a} |-> category[x]]
    /\ bound' = [bound EXCEPT ![a] = <<>>]
    /\ Forget({a} \X HeirId)
    /\ UNCHANGED <<categories, heirs, heirRows, default, ladders>>

PurgeCategory ==
  \E c \in categories :
    /\ categories' = categories \ {c}
    /\ category' = [a \in Assets |-> IF category[a] = c THEN None ELSE category[a]]
    /\ bound' = [bound EXCEPT ![c] = <<>>]
    /\ Forget({c} \X HeirId)
    /\ UNCHANGED <<heirs, heirRows, default, ladders>>

Next ==
  \/ CreateInheritor \/ DeleteInheritor \/ PutDefaultInheritor
  \/ CreateBinding \/ DeleteBinding \/ UpdateBindingLadder
  \/ CreateLadder \/ DeleteLadder
  \/ \E r \in Request :
       \/ EnsureLooks(r) \/ EnsureInserts(r)
       \/ UnbindReads(r) \/ UnbindUpdates(r)
  \/ MoveAsset \/ PurgeAsset \/ PurgeCategory

Spec == Init /\ [][Next]_vars

------------------------------------------------------------------------------
(* Properties *)

\* Every row a binding, an asset or the account refers to is there, whatever is
\* deleted while a binding is being made: an event can always name its heir.
ReferencesResolve ==
  /\ default \in heirs \union {NoHeir}
  /\ \A a \in Assets : category[a] \in categories \union {None}
  /\ \A i \in Item : bound[i] # <<>> => i \in Items
  /\ \A i \in Item : \A b \in Range(bound[i]) : b.heir \in heirs /\ ValidLadder(b.ladder)

\* Nobody is bound twice to one item.
NoHeirTwice == \A i \in Item : Cardinality(HeirsOf(i)) = Len(bound[i])

\* What the owner is shown is what will happen: every asset goes to the heir of
\* the preview, and the assets listed under a category go to its first heir.
PreviewIsWhatIsTriggered ==
  /\ \A a \in Assets : Preview[a] = HeirByTrigger(a)
  /\ \A c \in categories : bound[c] # <<>> =>
       \A a \in InheritedByCategory(c) : HeirByTrigger(a) = FirstOf(c)

\* As long as the owner has one inheritor, no asset is left without a heir,
\* however bindings, categories and the default came and went.
EveryAssetHasAnHeir == heirs # {} => \A a \in Assets : HeirByTrigger(a) \in heirs

\* A second global ladder comes only of two requests that overlap.
TwoGlobalsOnlyByOverlap ==
  [][\A l \in DOMAIN ladders' \ DOMAIN ladders :
       ladders'[l] = "global" /\ GlobalLadders # {} =>
         \E r \in Request : At(r, "insert") /\ req[r].seen < Len(ladders)]_vars

\* A binding that has been given another ladder since the owner chose what to
\* unbind keeps that ladder.
UnbindOnlyFromThatLadder ==
  [][\A r \in Request : At(r, "update") /\ ~At(r, "update")' =>
       \A i \in Item : \A k \in DOMAIN bound[i] :
         bound[i][k].ladder # req[r].ladder => bound'[i][k] = bound[i][k]]_vars
=============================================================================
