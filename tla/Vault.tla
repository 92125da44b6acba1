-------------------------------- MODULE Vault --------------------------------
(***************************************************************************)
(* The assets, the categories and the recycle bin of one owner.  A handler *)
(* that reads in one SQL statement and writes in a later one is a request  *)
(* of several steps, and the owner's other requests (several devices, one  *)
(* account) run in between; a handler whose last statement repeats every   *)
(* condition it has read is one step.  Foreign keys are enforced.          *)
(***************************************************************************)
EXTENDS Integers, FiniteSets

CONSTANTS
  Request,      \* bound: requests of several statements in progress at once
  Preset,       \* categories seeded by the registration
  MaxCats,      \* bound: rows of categories
  MaxAssets,    \* bound: rows of assets
  Name, NoName, \* names of categories; of a row that is not there yet
  Quota         \* freeAssetQuota

AssetId == 1..MaxAssets
CatId == 1..MaxCats
NoCat == 0

ASSUME VaultAssumption ==
  /\ NoName \notin Name
  /\ MaxCats \in Nat /\ MaxAssets \in Nat /\ Quota \in Nat
  /\ Preset \in 0..MaxCats
  /\ \E seed \in [1..Preset -> Name] : \A c, d \in 1..Preset : seed[c] = seed[d] => c = d

VARIABLES
  assets,     \* rows of assets: deleted_at, category_id
  cats,       \* rows of categories: deleted_at, name, sort_order
  rows,       \* ids of assets handed out (AUTOINCREMENT)
  catRows,    \* ids of categories handed out
  req         \* what the requests in progress have read

vars == <<assets, cats, rows, catRows, req>>

RowState == {"none", "live", "binned", "purged"}
AssetRow == [state : RowState, cat : CatId \union {NoCat}]
CatRow == [state : RowState, name : Name \union {NoName}, sort : Nat]
Step == {"idle", "quota", "insert", "set", "out", "bin", "sort", "emptyCats"}
Req == [step : Step, on : SUBSET AssetId, cat : CatId \union {NoCat},
        to : CatId \union {NoCat}, free : BOOLEAN, seen : Nat]

GoneAsset == [state |-> "purged", cat |-> NoCat]
GoneCat == [state |-> "purged", name |-> NoName, sort |-> 0]
NoReq == [step |-> "idle", on |-> {}, cat |-> NoCat, to |-> NoCat, free |-> FALSE, seen |-> 0]

TypeOK ==
  /\ assets \in [AssetId -> AssetRow]
  /\ cats \in [CatId -> CatRow]
  /\ rows \in 0..MaxAssets /\ catRows \in 0..MaxCats
  /\ req \in [Request -> Req]

Init ==
  /\ assets = [a \in AssetId |-> [state |-> "none", cat |-> NoCat]]
  /\ \E seed \in [1..Preset -> Name] :
       /\ \A c, d \in 1..Preset : seed[c] = seed[d] => c = d
       /\ cats = [c \in CatId |->
                    IF c <= Preset THEN [state |-> "live", name |-> seed[c], sort |-> 0]
                    ELSE [state |-> "none", name |-> NoName, sort |-> 0]]
  /\ rows = 0 /\ catRows = Preset
  /\ req = [r \in Request |-> NoReq]

------------------------------------------------------------------------------
(* Queries *)

Exists(row) == row.state \in {"live", "binned"}
Stored == {a \in AssetId : Exists(assets[a])}
Listed == {a \in AssetId : assets[a].state = "live"}
StoredCats == {c \in CatId : Exists(cats[c])}
ListedCats == {c \in CatId : cats[c].state = "live"}

\* Mutant: only what the list shows.
AssetCountListed == Cardinality(Listed)

\* SELECT COUNT(*) FROM assets WHERE user_id: the bin counts.
AssetCount == Cardinality(Stored)

\* A category the validation accepts: deleted_at is not looked at.
ValidCat(c) == c \in StoredCats \union {NoCat}

\* The list of one category, of the uncategorised, and of the bin.
ListOf(c) == {a \in Listed : assets[a].cat = c}
RecycleList == <<{a \in Stored : assets[a].state = "binned"},
                 {c \in StoredCats : cats[c].state = "binned"}>>
ListCategories == [c \in ListedCats |-> Cardinality(ListOf(c))]

\* A name is free when no row has it, in the bin or not (UNIQUE).
NameFreeShown(n, c) == \A d \in ListedCats \ {c} : cats[d].name # n   \* mutant
NameFree(n, c) == \A d \in StoredCats \ {c} : cats[d].name # n

------------------------------------------------------------------------------
(* Steps shared by the requests *)

Begin(r, q) == req[r].step = "idle" /\ req' = [req EXCEPT ![r] = q]
At(r, step) == req[r].step = step
Goto(r, step) == req' = [req EXCEPT ![r].step = step]
Answer(r) == req' = [req EXCEPT ![r] = NoReq]

\* Mutant: an upsert by id, which brings purged rows back.
SetCategoryUpsert(S, c) ==
  assets' = [a \in AssetId |-> IF a \in S /\ ValidCat(c)
                               THEN [state |-> "live", cat |-> c] ELSE assets[a]]

\* UPDATE assets SET category_id: an unknown category fails the statement.
SetCategory(S, c) ==
  assets' = [a \in AssetId |-> IF a \in S \intersect Stored /\ ValidCat(c)
                               THEN [assets[a] EXCEPT !.cat = c] ELSE assets[a]]

\* Mutant: no foreign key.
InsertAssetUnchecked(c) ==
  /\ rows < MaxAssets /\ rows' = rows + 1
  /\ assets' = [assets EXCEPT ![rows + 1] = [state |-> "live", cat |-> c]]

\* INSERT INTO assets, with the next id; an unknown category fails it.
InsertAsset(c) ==
  IF ValidCat(c)
  THEN /\ rows < MaxAssets /\ rows' = rows + 1
       /\ assets' = [assets EXCEPT ![rows + 1] = [state |-> "live", cat |-> c]]
  ELSE UNCHANGED <<assets, rows>>

\* DELETE FROM categories, and ON DELETE SET NULL of assets.category_id.
DropCats(C) ==
  /\ cats' = [c \in CatId |-> IF c \in C THEN GoneCat ELSE cats[c]]
  /\ assets' = [a \in AssetId |-> IF assets[a].cat \in C
                                  THEN [assets[a] EXCEPT !.cat = NoCat] ELSE assets[a]]

------------------------------------------------------------------------------
(* Assets *)

\* handleCreateAsset: validateAsset, tier and count, INSERT.  The tier is
\* whatever module Membership made of it by then.
CreateValidates(r) ==
  \E c \in StoredCats \union {NoCat} :
    /\ Begin(r, [NoReq EXCEPT !.step = "quota", !.cat = c])
    /\ UNCHANGED <<assets, cats, rows, catRows>>

CreateReadsQuota(r) ==
  /\ At(r, "quota")
  /\ \/ AssetCount >= Quota /\ Answer(r)
     \/ AssetCount < Quota /\ req' = [req EXCEPT ![r].step = "insert", ![r].free = TRUE, ![r].seen = rows]
     \/ Goto(r, "insert")     \* a member
  /\ UNCHANGED <<assets, cats, rows, catRows>>

AssetInserted(r) ==
  /\ At(r, "insert")
  /\ InsertAsset(req[r].cat)
  /\ Answer(r)
  /\ UNCHANGED <<cats, catRows>>

\* handleCopyAsset: SELECT of the original, INSERT of the copy.  No quota.
CopyReads(r) ==
  \E a \in Listed :
    /\ Begin(r, [NoReq EXCEPT !.step = "insert", !.cat = assets[a].cat])
    /\ UNCHANGED <<assets, cats, rows, catRows>>

\* handleUpdateAsset: validateAsset, UPDATE.  The asset may be in the bin.
UpdateValidates(r) ==
  \E a \in 1..rows, c \in StoredCats \union {NoCat} :
    /\ Begin(r, [NoReq EXCEPT !.step = "set", !.on = {a}, !.cat = c])
    /\ UNCHANGED <<assets, cats, rows, catRows>>

\* handleBatchMoveAssets: COUNT of the target category, UPDATE.
MoveValidates(r) ==
  \E S \in SUBSET (1..rows), c \in StoredCats \union {NoCat} :
    /\ S # {}
    /\ Begin(r, [NoReq EXCEPT !.step = "set", !.on = S, !.cat = c])
    /\ UNCHANGED <<assets, cats, rows, catRows>>

AssetsUpdated(r) ==
  /\ At(r, "set")
  /\ SetCategory(req[r].on, req[r].cat)
  /\ Answer(r)
  /\ UNCHANGED <<cats, rows, catRows>>

\* handleDeleteAsset and handleBatchDeleteAssets.
BinAssets ==
  \E S \in SUBSET Listed :
    /\ S # {}
    /\ assets' = [a \in AssetId |-> IF a \in S THEN [assets[a] EXCEPT !.state = "binned"]
                                    ELSE assets[a]]
    /\ UNCHANGED <<cats, rows, catRows, req>>

------------------------------------------------------------------------------
(* Categories *)

\* handleCreateCategory: INSERT, then UPDATE of sort_order.
CreateCategoryInserts(r) ==
  \E n \in Name :
    /\ catRows < MaxCats /\ catRows' = catRows + 1
    /\ NameFree(n, NoCat)
    /\ Begin(r, [NoReq EXCEPT !.step = "sort", !.cat = catRows + 1])
    /\ cats' = [cats EXCEPT ![catRows + 1] = [state |-> "live", name |-> n, sort |-> 0]]
    /\ UNCHANGED <<assets, rows>>

\* Mutant: numbered among the categories the list shows.
CreateCategorySortsShown(r) ==
  /\ At(r, "sort")
  /\ cats' = [cats EXCEPT ![req[r].cat].sort = Cardinality(ListedCats) - 1]
  /\ Answer(r)
  /\ UNCHANGED <<assets, rows, catRows>>

CreateCategorySorts(r) ==
  /\ At(r, "sort")
  /\ cats' = [c \in CatId |-> IF c = req[r].cat /\ c \in StoredCats
                              THEN [cats[c] EXCEPT !.sort = c] ELSE cats[c]]
  /\ Answer(r)
  /\ UNCHANGED <<assets, rows, catRows>>

\* handleUpdateCategory: the name.  The bin is no obstacle.
RenameCategory ==
  \E c \in StoredCats, n \in Name :
    /\ NameFree(n, c)
    /\ cats' = [cats EXCEPT ![c].name = n]
    /\ UNCHANGED <<assets, rows, catRows, req>>

\* handleReorderCategories: one transaction, the client sends every listed row.
ReorderCategories ==
  \E order \in [ListedCats -> 0..(Cardinality(ListedCats) - 1)] :
    /\ \A c, d \in ListedCats : order[c] = order[d] => c = d
    /\ cats' = [c \in CatId |-> IF c \in ListedCats
                                THEN [cats[c] EXCEPT !.sort = order[c]] ELSE cats[c]]
    /\ UNCHANGED <<assets, rows, catRows, req>>

\* handleDeleteCategory: SELECT, with move_to the UPDATE of the assets, UPDATE.
DeleteCategoryReads(r) ==
  \E c \in ListedCats :
    /\ \/ Begin(r, [NoReq EXCEPT !.step = "bin", !.cat = c])
       \/ \E t \in StoredCats \ {c} :
            Begin(r, [NoReq EXCEPT !.step = "out", !.cat = c, !.to = t])
    /\ UNCHANGED <<assets, cats, rows, catRows>>

InCategory(c) == {a \in Stored : assets[a].cat = c}

DeleteCategoryMoves(r) ==
  /\ At(r, "out")
  /\ SetCategory(InCategory(req[r].cat), req[r].to)
  /\ IF InCategory(req[r].cat) # {} /\ ~ValidCat(req[r].to) THEN Answer(r) ELSE Goto(r, "bin")
  /\ UNCHANGED <<cats, rows, catRows>>

\* Mutant: the row is not looked for again.
DeleteCategoryBinsAnyway(r) ==
  /\ At(r, "bin")
  /\ cats' = [cats EXCEPT ![req[r].cat].state = "binned"]
  /\ Answer(r)
  /\ UNCHANGED <<assets, rows, catRows>>

DeleteCategoryBins(r) ==
  /\ At(r, "bin")
  /\ cats' = [c \in CatId |-> IF c = req[r].cat /\ c \in StoredCats
                              THEN [cats[c] EXCEPT !.state = "binned"] ELSE cats[c]]
  /\ Answer(r)
  /\ UNCHANGED <<assets, rows, catRows>>

------------------------------------------------------------------------------
(* The recycle bin *)

\* Mutant: a category that is in the bin does not count.
RestoreAssetListed ==
  \E a \in Stored \ Listed :
    /\ assets' = [assets EXCEPT ![a] = [state |-> "live",
                                        cat |-> IF @.cat \in ListedCats THEN @.cat ELSE NoCat]]
    /\ UNCHANGED <<cats, rows, catRows, req>>

\* handleRestoreRecycleItem: an asset keeps a category that is in the bin.
RestoreAsset ==
  \E a \in Stored \ Listed :
    /\ assets' = [assets EXCEPT ![a] = [state |-> "live",
                                        cat |-> IF @.cat \in StoredCats THEN @.cat ELSE NoCat]]
    /\ UNCHANGED <<cats, rows, catRows, req>>

RestoreCategory ==
  \E c \in StoredCats \ ListedCats :
    /\ cats' = [cats EXCEPT ![c].state = "live"]
    /\ UNCHANGED <<assets, rows, catRows, req>>

\* handlePurgeRecycleItem.
PurgeAsset ==
  \E a \in Stored \ Listed :
    /\ assets' = [assets EXCEPT ![a] = GoneAsset]
    /\ UNCHANGED <<cats, rows, catRows, req>>

PurgeCategory ==
  \E c \in StoredCats \ ListedCats :
    /\ DropCats({c})
    /\ UNCHANGED <<rows, catRows, req>>

\* handleEmptyRecycleBin: DELETE of the assets, then of the categories.
EmptyBinAssets(r) ==
  /\ Begin(r, [NoReq EXCEPT !.step = "emptyCats"])
  /\ assets' = [a \in AssetId |-> IF a \in Stored \ Listed
                                  THEN GoneAsset ELSE assets[a]]
  /\ UNCHANGED <<cats, rows, catRows>>

EmptyBinCategories(r) ==
  /\ At(r, "emptyCats")
  /\ DropCats(StoredCats \ ListedCats)
  /\ Answer(r)
  /\ UNCHANGED <<rows, catRows>>

Next ==
  \/ \E r \in Request :
       \/ CreateValidates(r) \/ CreateReadsQuota(r) \/ CopyReads(r) \/ AssetInserted(r)
       \/ UpdateValidates(r) \/ MoveValidates(r) \/ AssetsUpdated(r)
       \/ CreateCategoryInserts(r) \/ CreateCategorySorts(r)
       \/ DeleteCategoryReads(r) \/ DeleteCategoryMoves(r) \/ DeleteCategoryBins(r)
       \/ EmptyBinAssets(r) \/ EmptyBinCategories(r)
  \/ BinAssets \/ RenameCategory \/ ReorderCategories
  \/ RestoreAsset \/ RestoreCategory \/ PurgeAsset \/ PurgeCategory

Spec == Init /\ [][Next]_vars

------------------------------------------------------------------------------
(* Properties *)

\* An asset is in no category or in one that has a row, even when the category
\* is purged between the validation of a request and its write.
CategoryOfAssetExists == \A a \in Stored : ValidCat(assets[a].cat)

\* Two categories of the owner never have one name, the bin included: a
\* category that is restored collides with none created in the meantime.
NamesAreDistinct == \A c, d \in StoredCats : cats[c].name = cats[d].name => c = d

\* handleCreateAsset goes over the quota of a free owner only if another asset was
\* inserted between its count and its INSERT.
QuotaBeatenOnlyByOverlap ==
  [][\A r \in Request :
       /\ At(r, "insert") /\ req'[r] # req[r] /\ rows' # rows
       /\ req[r].free /\ req[r].seen = rows
       => AssetCount < Quota]_vars

\* An asset changes its category only as a request says, or to none when the
\* category is purged: the bin and the way back out of it keep the category.
CategoryChangesOnRequest ==
  [][\A a \in Stored \intersect Stored' :
       assets'[a].cat # assets[a].cat =>
         \/ assets'[a].cat = NoCat /\ assets[a].cat \notin StoredCats'
         \/ \E r \in Request :
              \/ At(r, "set") /\ a \in req[r].on /\ assets'[a].cat = req[r].cat
              \/ At(r, "out") /\ assets[a].cat = req[r].cat /\ assets'[a].cat = req[r].to]_vars

\* A category that is still the newest when its place is written is sorted last,
\* whatever the owner reorders between its INSERT and its UPDATE.
NewCategoryIsLast ==
  [][\A r \in Request :
       /\ At(r, "sort") /\ req'[r] # req[r]
       /\ req[r].cat = catRows /\ catRows \in StoredCats
       => \A d \in StoredCats : cats'[d].sort <= cats'[catRows].sort]_vars

\* Assets and categories keep to the recycle bin: nothing is purged that is not
\* in the bin at that moment, and no late request brings a purged row back.
AssetBin == INSTANCE RecycleBin WITH Item <- AssetId, state <- [a \in AssetId |-> assets[a].state]
CatBin == INSTANCE RecycleBin WITH Item <- CatId, state <- [c \in CatId |-> cats[c].state]
AssetsKeepToTheBin == AssetBin!Spec
CategoriesKeepToTheBin == CatBin!Spec
=============================================================================
