---------------------------- MODULE VaultProofs ----------------------------
(***************************************************************************)
(* For any number of requests, assets and categories: the vault's types,   *)
(* its references and names, what its actions may do, and that both tables *)
(* keep to the recycle bin.                                                *)
(***************************************************************************)
EXTENDS Vault, FiniteSetTheorems, TLAPS

------------------------------------------------------------------------------
(* The inductive invariant *)

\* Ids that were not handed out yet have no row.
FreshRows ==
  /\ \A a \in AssetId : a > rows => assets[a].state = "none"
  /\ \A c \in CatId : c > catRows => cats[c].state = "none"

\* A creation that found room, and since when no asset was inserted, still has it.
CountStands ==
  \A r \in Request :
    /\ At(r, "quota") => ~req[r].free
    /\ At(r, "insert") /\ req[r].free =>
         req[r].seen <= rows /\ (req[r].seen = rows => AssetCount < Quota)

\* No place lies beyond the newest category.
PlacesBounded ==
  /\ \A c \in CatId : cats[c].sort <= catRows
  /\ \A r \in Request : At(r, "sort") => req[r].cat \in 1..catRows

IInv ==
  /\ TypeOK
  /\ FreshRows
  /\ CategoryOfAssetExists
  /\ NamesAreDistinct
  /\ CountStands
  /\ PlacesBounded

------------------------------------------------------------------------------
(* Who writes what *)

AssetStep ==
  \/ BinAssets \/ RestoreAsset \/ PurgeAsset \/ PurgeCategory
  \/ \E r \in Request : \/ AssetInserted(r) \/ AssetsUpdated(r) \/ DeleteCategoryMoves(r)
                        \/ EmptyBinAssets(r) \/ EmptyBinCategories(r)

CatStep ==
  \/ RenameCategory \/ ReorderCategories \/ RestoreCategory \/ PurgeCategory
  \/ \E r \in Request : \/ CreateCategoryInserts(r) \/ CreateCategorySorts(r)
                        \/ DeleteCategoryBins(r) \/ EmptyBinCategories(r)

\* All other steps leave the rows of assets alone.
LEMMA AssetFrame ==
  ASSUME [Next]_vars
  PROVE  AssetStep \/ UNCHANGED <<assets, rows>>
BY DEF Next, vars, AssetStep, CreateValidates, CreateReadsQuota, CopyReads, UpdateValidates,
       MoveValidates, CreateCategoryInserts, CreateCategorySorts, DeleteCategoryReads,
       DeleteCategoryBins, RenameCategory, ReorderCategories, RestoreCategory

\* All other steps leave the rows of categories alone.
LEMMA CatFrame ==
  ASSUME [Next]_vars
  PROVE  CatStep \/ UNCHANGED <<cats, catRows>>
BY DEF Next, vars, CatStep, CreateValidates, CreateReadsQuota, CopyReads, UpdateValidates,
       MoveValidates, AssetInserted, AssetsUpdated, DeleteCategoryReads, DeleteCategoryMoves,
       EmptyBinAssets, BinAssets, RestoreAsset, PurgeAsset

\* The sets of rows are finite, and counted by natural numbers.
LEMMA Finite ==
  ASSUME TypeOK
  PROVE  /\ IsFiniteSet(Stored) /\ AssetCount \in Nat
         /\ IsFiniteSet(ListedCats) /\ Cardinality(ListedCats) \in Nat
<1>1. IsFiniteSet(AssetId) /\ IsFiniteSet(CatId)
  BY FS_Interval, VaultAssumption DEF AssetId, CatId, VaultAssumption
<1>2. Stored \subseteq AssetId /\ ListedCats \subseteq CatId
  BY DEF Stored, ListedCats
<1> QED
  BY <1>1, <1>2, FS_Subset, FS_CardinalityType DEF AssetCount

------------------------------------------------------------------------------
(* Types *)

AssetTypeOK == assets \in [AssetId -> AssetRow] /\ rows \in 0..MaxAssets
CatTypeOK == cats \in [CatId -> CatRow] /\ catRows \in 0..MaxCats
ReqTypeOK == req \in [Request -> Req]

\* TypeOK by tables.
LEMMA TypeParts == TypeOK <=> AssetTypeOK /\ CatTypeOK /\ ReqTypeOK
BY DEF TypeOK, AssetTypeOK, CatTypeOK, ReqTypeOK

\* The bounds are natural numbers.
LEMMA Bounds == MaxCats \in Nat /\ MaxAssets \in Nat /\ Quota \in Nat /\ Preset \in 0..MaxCats
BY VaultAssumption DEF VaultAssumption

\* A row stays one when a field is overwritten.
LEMMA AssetRowWith ==
  ASSUME NEW row \in AssetRow
  PROVE  /\ \A s \in RowState : [row EXCEPT !.state = s] \in AssetRow
         /\ \A c \in CatId \union {NoCat} : [row EXCEPT !.cat = c] \in AssetRow
BY DEF AssetRow

\* A category with another place.
LEMMA CatRowWith ==
  ASSUME NEW row \in CatRow
  PROVE  /\ \A s \in RowState : [row EXCEPT !.state = s] \in CatRow
         /\ \A n \in Name : [row EXCEPT !.name = n] \in CatRow
         /\ \A k \in Nat : [row EXCEPT !.sort = k] \in CatRow
BY DEF CatRow

\* The initial state is well typed.
LEMMA InitType ==
  ASSUME Init
  PROVE  TypeOK
<1> USE VaultAssumption DEF VaultAssumption, Init
<1>1. AssetTypeOK
  BY DEF AssetTypeOK, AssetRow, RowState
<1>2. CatTypeOK
  BY DEF CatTypeOK, CatRow, RowState, CatId
<1>3. ReqTypeOK
  BY DEF ReqTypeOK, Req, NoReq, Step
<1> QED
  BY <1>1, <1>2, <1>3, TypeParts

\* Types of the assets: one step per action that writes them.
LEMMA AssetTypeStep ==
  ASSUME TypeOK, [Next]_vars
  PROVE  AssetTypeOK'
<1> USE DEF AssetTypeOK, RowState
<1>1. AssetTypeOK /\ ReqTypeOK
  BY TypeParts
<1>2. CASE UNCHANGED <<assets, rows>>
  BY <1>1, <1>2
<1>3. CASE BinAssets
  BY <1>1, <1>3, AssetRowWith DEF BinAssets
<1>4. CASE RestoreAsset
  <2>1. ASSUME NEW a \in AssetId
        PROVE  assets'[a] \in AssetRow
    BY <1>1, <1>4 DEF RestoreAsset, Stored, AssetRow
  <2> QED
    BY <1>1, <1>4, <2>1 DEF RestoreAsset, Stored
<1>5. CASE PurgeAsset
  BY <1>1, <1>5 DEF PurgeAsset, GoneAsset, AssetRow, Stored
<1>6. CASE PurgeCategory
  <2>1. ASSUME NEW a \in AssetId
        PROVE  assets'[a] \in AssetRow
    BY <1>1, <1>6 DEF PurgeCategory, DropCats, AssetRow
  <2> QED
    BY <1>1, <1>6, <2>1 DEF PurgeCategory, DropCats
<1>7. ASSUME NEW r \in Request, AssetInserted(r)
      PROVE  AssetTypeOK'
  <2>1. req[r].cat \in CatId \union {NoCat}
    BY <1>1 DEF ReqTypeOK, Req
  <2>2. [state |-> "live", cat |-> req[r].cat] \in AssetRow
    BY <2>1 DEF AssetRow
  <2> QED
    BY <1>1, <1>7, <2>2, Bounds DEF AssetInserted, InsertAsset, AssetId
<1>8. ASSUME NEW r \in Request, AssetsUpdated(r)
      PROVE  AssetTypeOK'
  BY <1>1, <1>8, AssetRowWith DEF AssetsUpdated, SetCategory, ReqTypeOK, Req
<1>9. ASSUME NEW r \in Request, DeleteCategoryMoves(r)
      PROVE  AssetTypeOK'
  BY <1>1, <1>9, AssetRowWith DEF DeleteCategoryMoves, SetCategory, ReqTypeOK, Req
<1>10. ASSUME NEW r \in Request, EmptyBinAssets(r)
       PROVE  AssetTypeOK'
  BY <1>1, <1>10 DEF EmptyBinAssets, GoneAsset, AssetRow
<1>11. ASSUME NEW r \in Request, EmptyBinCategories(r)
       PROVE  AssetTypeOK'
  BY <1>1, <1>11, AssetRowWith DEF EmptyBinCategories, DropCats
<1> QED
  BY <1>2, <1>3, <1>4, <1>5, <1>6, <1>7, <1>8, <1>9, <1>10, <1>11, AssetFrame DEF AssetStep

\* Types of the categories.
LEMMA CatTypeStep ==
  ASSUME TypeOK, [Next]_vars
  PROVE  CatTypeOK'
<1> USE DEF CatTypeOK, RowState
<1>1. CatTypeOK /\ ReqTypeOK
  BY TypeParts
<1>2. CASE UNCHANGED <<cats, catRows>>
  BY <1>1, <1>2
<1>3. CASE RenameCategory
  <2>1. ASSUME NEW c \in CatId
        PROVE  cats'[c] \in CatRow
    BY <1>1, <1>3 DEF RenameCategory, StoredCats, CatRow
  <2> QED
    BY <1>1, <1>3, <2>1 DEF RenameCategory, StoredCats
<1>4. CASE ReorderCategories
  <2>1. ASSUME NEW order \in [ListedCats -> 0..(Cardinality(ListedCats) - 1)], NEW c \in ListedCats
        PROVE  order[c] \in Nat
    BY <2>1, Finite
  <2> QED
    <3>1. ASSUME NEW c \in CatId
          PROVE  cats'[c] \in CatRow
      BY <1>1, <1>4, <2>1 DEF ReorderCategories, CatRow
    <3> QED
      BY <1>1, <1>4, <3>1 DEF ReorderCategories
<1>5. CASE RestoreCategory
  <2>1. ASSUME NEW c \in CatId PROVE [cats[c] EXCEPT !.state = "live"] \in CatRow
    BY <1>1, CatRowWith DEF RowState
  <2> QED
    BY <1>1, <1>5, <2>1 DEF RestoreCategory, StoredCats
<1>6. CASE PurgeCategory
  BY <1>1, <1>6 DEF PurgeCategory, DropCats, GoneCat, CatRow
<1>7. ASSUME NEW r \in Request, CreateCategoryInserts(r)
      PROVE  CatTypeOK'
  BY <1>1, <1>7, VaultAssumption DEF CreateCategoryInserts, VaultAssumption, CatRow, CatId
<1>8. ASSUME NEW r \in Request, CreateCategorySorts(r)
      PROVE  CatTypeOK'
  <2>1. ASSUME NEW c \in CatId
        PROVE  cats'[c] \in CatRow
    <3>1. cats[c] \in CatRow /\ c \in Nat
      BY <1>1, Bounds DEF CatId
    <3>2. [cats[c] EXCEPT !.sort = c] \in CatRow
      BY <3>1, CatRowWith
    <3>3. cats'[c] \in {[cats[c] EXCEPT !.sort = c], cats[c]}
      BY <1>1, <1>8 DEF CreateCategorySorts
    <3> QED
      BY <3>1, <3>2, <3>3
  <2> QED
    BY <1>1, <1>8, <2>1 DEF CreateCategorySorts, CatId
<1>9. ASSUME NEW r \in Request, DeleteCategoryBins(r)
      PROVE  CatTypeOK'
  BY <1>1, <1>9, CatRowWith DEF DeleteCategoryBins
<1>10. ASSUME NEW r \in Request, EmptyBinCategories(r)
       PROVE  CatTypeOK'
  BY <1>1, <1>10 DEF EmptyBinCategories, DropCats, GoneCat, CatRow
<1> QED
  BY <1>2, <1>3, <1>4, <1>5, <1>6, <1>7, <1>8, <1>9, <1>10, CatFrame DEF CatStep

\* Beginning, going on and answering keep the types of the requests.
LEMMA RequestType ==
  ASSUME ReqTypeOK, NEW r \in Request
  PROVE  /\ Answer(r) => ReqTypeOK'
         /\ \A s \in Step : Goto(r, s) => ReqTypeOK'
         /\ \A q \in Req : Begin(r, q) => ReqTypeOK'
<1>1. NoReq \in Req
  BY DEF NoReq, Req, Step
<1>2. Answer(r) => ReqTypeOK'
  BY <1>1 DEF Answer, ReqTypeOK
<1>3. ASSUME NEW s \in Step, Goto(r, s)
      PROVE  ReqTypeOK'
  <2>1. [req[r] EXCEPT !.step = s] \in Req
    BY DEF ReqTypeOK, Req
  <2> QED
    BY <1>3, <2>1 DEF Goto, ReqTypeOK
<1>4. ASSUME NEW q \in Req, Begin(r, q)
      PROVE  ReqTypeOK'
  BY <1>4 DEF Begin, ReqTypeOK
<1> QED
  BY <1>2, <1>3, <1>4

\* What a request may have read when it begins.
LEMMA BeginReq ==
  ASSUME NEW S \in SUBSET AssetId, NEW c \in CatId \union {NoCat}, NEW d \in CatId \union {NoCat}
  PROVE  /\ [NoReq EXCEPT !.step = "quota", !.cat = c] \in Req
         /\ [NoReq EXCEPT !.step = "insert", !.cat = c] \in Req
         /\ [NoReq EXCEPT !.step = "set", !.on = S, !.cat = c] \in Req
         /\ [NoReq EXCEPT !.step = "sort", !.cat = c] \in Req
         /\ [NoReq EXCEPT !.step = "bin", !.cat = c] \in Req
         /\ [NoReq EXCEPT !.step = "out", !.cat = c, !.to = d] \in Req
         /\ [NoReq EXCEPT !.step = "emptyCats"] \in Req
BY DEF NoReq, Req, Step

\* Types of the requests in progress.
LEMMA ReqTypeStep ==
  ASSUME TypeOK, [Next]_vars
  PROVE  ReqTypeOK'
<1>1. AssetTypeOK /\ CatTypeOK /\ ReqTypeOK
  BY TypeParts
<1>2. StoredCats \subseteq CatId /\ ListedCats \subseteq CatId
  BY DEF StoredCats, ListedCats
<1>3. 1..rows \subseteq AssetId
  BY <1>1, Bounds DEF AssetTypeOK, AssetId
<1>4. CASE UNCHANGED req
  BY <1>1, <1>4 DEF ReqTypeOK
<1>5. ASSUME NEW r \in Request, CreateReadsQuota(r)
      PROVE  ReqTypeOK'
  <2>1. CASE AssetCount < Quota /\ req' = [req EXCEPT ![r].step = "insert", ![r].free = TRUE, ![r].seen = rows]
    <3>1. rows \in Nat
      BY <1>1, Bounds DEF AssetTypeOK
    <3>2. [req[r] EXCEPT !.step = "insert", !.free = TRUE, !.seen = rows] \in Req
      BY <1>1, <3>1 DEF ReqTypeOK, Req, Step
    <3> QED
      BY <1>1, <2>1, <3>2 DEF ReqTypeOK
  <2> QED
    BY <1>1, <1>5, <2>1, RequestType DEF CreateReadsQuota, Step
<1>6. ASSUME NEW r \in Request, CreateValidates(r) \/ CopyReads(r)
      PROVE  ReqTypeOK'
  <2>1. PICK c \in CatId \union {NoCat} : \/ Begin(r, [NoReq EXCEPT !.step = "quota", !.cat = c])
                                           \/ Begin(r, [NoReq EXCEPT !.step = "insert", !.cat = c])
    BY <1>1, <1>2, <1>6 DEF CreateValidates, CopyReads, Listed, AssetTypeOK, AssetRow
  <2> QED
    BY <1>1, <2>1, RequestType, BeginReq
<1>7. ASSUME NEW r \in Request, UpdateValidates(r) \/ MoveValidates(r)
      PROVE  ReqTypeOK'
  <2>1. PICK S \in SUBSET AssetId, c \in CatId \union {NoCat} :
               Begin(r, [NoReq EXCEPT !.step = "set", !.on = S, !.cat = c])
    BY <1>2, <1>3, <1>7 DEF UpdateValidates, MoveValidates
  <2> QED
    BY <1>1, <2>1, RequestType, BeginReq
<1>8. ASSUME NEW r \in Request, CreateCategoryInserts(r)
      PROVE  ReqTypeOK'
  <2>1. catRows + 1 \in CatId
    BY <1>1, <1>8, Bounds DEF CreateCategoryInserts, CatTypeOK, CatId
  <2> QED
    BY <1>1, <1>8, <2>1, RequestType, BeginReq DEF CreateCategoryInserts
<1>9. ASSUME NEW r \in Request, DeleteCategoryReads(r)
      PROVE  ReqTypeOK'
  BY <1>1, <1>2, <1>9, RequestType, BeginReq DEF DeleteCategoryReads
<1>10. ASSUME NEW r \in Request, DeleteCategoryMoves(r)
       PROVE  ReqTypeOK'
  BY <1>1, <1>10, RequestType DEF DeleteCategoryMoves, Step
<1>11. ASSUME NEW r \in Request, EmptyBinAssets(r)
       PROVE  ReqTypeOK'
  BY <1>1, <1>11, RequestType, BeginReq DEF EmptyBinAssets
<1>12. ASSUME NEW r \in Request,
              AssetInserted(r) \/ AssetsUpdated(r) \/ CreateCategorySorts(r)
                \/ DeleteCategoryBins(r) \/ EmptyBinCategories(r)
       PROVE  ReqTypeOK'
  BY <1>1, <1>12, RequestType
     DEF AssetInserted, AssetsUpdated, CreateCategorySorts, DeleteCategoryBins, EmptyBinCategories
<1>13. CASE BinAssets \/ RenameCategory \/ ReorderCategories \/ RestoreAsset \/ RestoreCategory
              \/ PurgeAsset \/ PurgeCategory
  BY <1>4, <1>13 DEF BinAssets, RenameCategory, ReorderCategories, RestoreAsset, RestoreCategory,
                     PurgeAsset, PurgeCategory
<1> QED
  BY <1>4, <1>5, <1>6, <1>7, <1>8, <1>9, <1>10, <1>11, <1>12, <1>13 DEF Next, vars

\* TypeOK is kept.
LEMMA TypeStep ==
  ASSUME TypeOK, [Next]_vars
  PROVE  TypeOK'
BY AssetTypeStep, CatTypeStep, ReqTypeStep, TypeParts DEF TypeOK, AssetTypeOK, CatTypeOK, ReqTypeOK

\* The vault's rows and requests have their types, whatever overlaps.
THEOREM TypeCorrect == Spec => []TypeOK
<1>1. Init => TypeOK
  BY InitType
<1>2. TypeOK /\ [Next]_vars => TypeOK'
  BY TypeStep
<1> QED
  BY <1>1, <1>2, PTL DEF Spec

------------------------------------------------------------------------------
(* The recycle bin *)

\* Moving some items one way is a step of the bin.
LEMMA AssetsBecome ==
  ASSUME NEW S \in SUBSET AssetId
  PROVE  /\ AssetBin!Become(S, "none", "live") => AssetBin!Next
         /\ AssetBin!Become(S, "live", "binned") => AssetBin!Next
         /\ AssetBin!Become(S, "binned", "live") => AssetBin!Next
         /\ AssetBin!Become(S, "binned", "purged") => AssetBin!Next
BY DEF AssetBin!Next

\* A change of state the bin of the categories allows.
LEMMA CatsBecome ==
  ASSUME NEW C \in SUBSET CatId
  PROVE  /\ CatBin!Become(C, "none", "live") => CatBin!Next
         /\ CatBin!Become(C, "live", "binned") => CatBin!Next
         /\ CatBin!Become(C, "binned", "live") => CatBin!Next
         /\ CatBin!Become(C, "binned", "purged") => CatBin!Next
BY DEF CatBin!Next

\* Of the assets: a step is one of the bin, or leaves their states alone; and only
\* an INSERT hands out an id, the next one.
AssetBinStep ==
  /\ AssetBin!Next \/ \A a \in AssetId : assets'[a].state = assets[a].state
  /\ \/ rows' = rows /\ \A a \in AssetId : assets[a].state = "none" => assets'[a].state = "none"
     \/ /\ rows' = rows + 1
        /\ \A a \in AssetId \ {rows + 1} : assets'[a] = assets[a]

\* Every step is one of the bin of the assets, or leaves their states alone.
LEMMA AssetSteps ==
  ASSUME TypeOK, FreshRows, [Next]_vars
  PROVE  AssetBinStep
<1> USE DEF AssetBinStep
<1>1. AssetTypeOK
  BY TypeParts
<1>2. CASE UNCHANGED <<assets, rows>>
  BY <1>2
<1>3. ASSUME AssetBin!Next, rows' = rows,
             \A a \in AssetId : assets[a].state = "none" => assets'[a].state = "none"
      PROVE  AssetBinStep
  BY <1>3
<1>4. ASSUME rows' = rows, \A a \in AssetId : assets'[a].state = assets[a].state
      PROVE  AssetBinStep
  BY <1>4
<1>5. CASE BinAssets
  <2>1. PICK S \in SUBSET Listed :
          assets' = [a \in AssetId |-> IF a \in S THEN [assets[a] EXCEPT !.state = "binned"] ELSE assets[a]]
    BY <1>5 DEF BinAssets
  <2>2. \A a \in AssetId : assets'[a].state = IF a \in S THEN "binned" ELSE assets[a].state
    BY <1>1, <2>1 DEF AssetTypeOK, AssetRow
  <2>3. AssetBin!Become(S, "live", "binned")
    BY <2>2 DEF AssetBin!Become, Listed
  <2> QED
    BY <1>3, <1>5, <2>2, <2>3, AssetsBecome DEF BinAssets, Listed
<1>6. CASE RestoreAsset
  <2>1. PICK a \in Stored \ Listed :
          assets' = [assets EXCEPT ![a] = [state |-> "live",
                                           cat |-> IF @.cat \in StoredCats THEN @.cat ELSE NoCat]]
    BY <1>6 DEF RestoreAsset
  <2>2. \A b \in AssetId : assets'[b].state = IF b \in {a} THEN "live" ELSE assets[b].state
    BY <1>1, <2>1 DEF AssetTypeOK, AssetRow
  <2>3. {a} \in SUBSET AssetId /\ assets[a].state = "binned"
    BY DEF Stored, Listed, Exists
  <2>4. AssetBin!Become({a}, "binned", "live")
    BY <2>2, <2>3 DEF AssetBin!Become
  <2> QED
    BY <1>3, <1>6, <2>2, <2>3, <2>4, AssetsBecome DEF RestoreAsset
<1>7. CASE PurgeAsset
  <2>1. PICK a \in Stored \ Listed : assets' = [assets EXCEPT ![a] = GoneAsset]
    BY <1>7 DEF PurgeAsset
  <2>2. \A b \in AssetId : assets'[b].state = IF b \in {a} THEN "purged" ELSE assets[b].state
    BY <1>1, <2>1 DEF AssetTypeOK, AssetRow, GoneAsset
  <2>3. {a} \in SUBSET AssetId /\ assets[a].state = "binned"
    BY DEF Stored, Listed, Exists
  <2>4. AssetBin!Become({a}, "binned", "purged")
    BY <2>2, <2>3 DEF AssetBin!Become
  <2> QED
    BY <1>3, <1>7, <2>2, <2>3, <2>4, AssetsBecome DEF PurgeAsset
<1>8. ASSUME NEW r \in Request, EmptyBinAssets(r)
      PROVE  AssetBinStep
  <2>1. \A a \in AssetId : assets'[a].state = IF a \in Stored \ Listed THEN "purged" ELSE assets[a].state
    BY <1>8 DEF EmptyBinAssets, GoneAsset
  <2>2. /\ Stored \ Listed \in SUBSET AssetId
        /\ \A a \in Stored \ Listed : assets[a].state = "binned"
    BY DEF Stored, Listed, Exists
  <2>3. AssetBin!Become(Stored \ Listed, "binned", "purged")
    BY <2>1, <2>2 DEF AssetBin!Become
  <2> QED
    BY <1>3, <1>8, <2>1, <2>2, <2>3, AssetsBecome DEF EmptyBinAssets
<1>9. ASSUME NEW C, DropCats(C), rows' = rows
      PROVE  AssetBinStep
  <2>1. \A a \in AssetId : assets'[a].state = assets[a].state
    BY <1>1, <1>9 DEF DropCats, AssetTypeOK, AssetRow
  <2> QED
    BY <1>4, <1>9, <2>1
<1>10. ASSUME NEW S, NEW c, SetCategory(S, c), rows' = rows
       PROVE  AssetBinStep
  <2>1. \A a \in AssetId : assets'[a].state = assets[a].state
    BY <1>1, <1>10 DEF SetCategory, AssetTypeOK, AssetRow
  <2> QED
    BY <1>4, <1>10, <2>1
<1>11. ASSUME NEW r \in Request, AssetInserted(r), UNCHANGED <<assets, rows>> => AssetBinStep
       PROVE  AssetBinStep
  <2>1. CASE ValidCat(req[r].cat)
    <3>1. rows + 1 \in AssetId /\ rows' = rows + 1 /\ assets[rows + 1].state = "none"
      BY <1>1, <1>11, <2>1, Bounds DEF AssetInserted, InsertAsset, AssetTypeOK, AssetId, FreshRows
    <3>2. \A a \in AssetId : assets'[a].state = IF a \in {rows + 1} THEN "live" ELSE assets[a].state
      BY <1>1, <1>11, <2>1, <3>1 DEF AssetInserted, InsertAsset, AssetTypeOK, AssetRow
    <3>3. AssetBin!Become({rows + 1}, "none", "live")
      BY <3>1, <3>2 DEF AssetBin!Become
    <3>4. AssetBin!Next
      BY <3>1, <3>3, AssetsBecome
    <3> QED
      BY <1>1, <1>11, <2>1, <3>1, <3>4 DEF AssetInserted, InsertAsset, AssetTypeOK
  <2> QED
    BY <1>11, <2>1 DEF AssetInserted, InsertAsset
<1> QED
  BY <1>2, <1>5, <1>6, <1>7, <1>8, <1>9, <1>10, <1>11, AssetFrame
     DEF AssetStep, PurgeCategory, AssetsUpdated, DeleteCategoryMoves, EmptyBinCategories

\* The same of the categories.
CatBinStep ==
  /\ CatBin!Next \/ \A c \in CatId : cats'[c].state = cats[c].state
  /\ \/ catRows' = catRows /\ \A c \in CatId : cats[c].state = "none" => cats'[c].state = "none"
     \/ /\ catRows' = catRows + 1
        /\ \A c \in CatId \ {catRows + 1} : cats'[c] = cats[c]

\* The same for the categories.
LEMMA CatSteps ==
  ASSUME TypeOK, FreshRows, [Next]_vars
  PROVE  CatBinStep
<1> USE DEF CatBinStep
<1>1. CatTypeOK
  BY TypeParts
<1>2. CASE UNCHANGED <<cats, catRows>>
  BY <1>2
<1>3. ASSUME CatBin!Next, catRows' = catRows,
             \A c \in CatId : cats[c].state = "none" => cats'[c].state = "none"
      PROVE  CatBinStep
  BY <1>3
<1>4. ASSUME catRows' = catRows, \A c \in CatId : cats'[c].state = cats[c].state
      PROVE  CatBinStep
  BY <1>4
<1>5. CASE RenameCategory
  <2>1. \A c \in CatId : cats'[c].state = cats[c].state
    BY <1>1, <1>5 DEF RenameCategory, CatTypeOK, CatRow
  <2> QED
    BY <1>4, <1>5, <2>1 DEF RenameCategory
<1>6. CASE ReorderCategories
  <2>1. \A c \in CatId : cats'[c].state = cats[c].state
    BY <1>1, <1>6 DEF ReorderCategories, CatTypeOK, CatRow
  <2> QED
    BY <1>4, <1>6, <2>1 DEF ReorderCategories
<1>7. CASE RestoreCategory
  <2>1. PICK c \in StoredCats \ ListedCats : cats' = [cats EXCEPT ![c].state = "live"]
    BY <1>7 DEF RestoreCategory
  <2>2. \A d \in CatId : cats'[d].state = IF d \in {c} THEN "live" ELSE cats[d].state
    BY <1>1, <2>1 DEF CatTypeOK, CatRow
  <2>3. {c} \in SUBSET CatId /\ cats[c].state = "binned"
    BY DEF StoredCats, ListedCats, Exists
  <2>4. CatBin!Become({c}, "binned", "live")
    BY <2>2, <2>3 DEF CatBin!Become
  <2> QED
    BY <1>3, <1>7, <2>2, <2>3, <2>4, CatsBecome DEF RestoreCategory
<1>8. ASSUME NEW C \in SUBSET (StoredCats \ ListedCats), DropCats(C), catRows' = catRows
      PROVE  CatBinStep
  <2>1. \A c \in CatId : cats'[c].state = IF c \in C THEN "purged" ELSE cats[c].state
    BY <1>8 DEF DropCats, GoneCat
  <2>2. C \in SUBSET CatId /\ \A c \in C : cats[c].state = "binned"
    BY DEF StoredCats, ListedCats, Exists
  <2>3. CatBin!Become(C, "binned", "purged")
    BY <2>1, <2>2 DEF CatBin!Become
  <2> QED
    BY <1>3, <1>8, <2>1, <2>2, <2>3, CatsBecome
<1>9. ASSUME NEW r \in Request, CreateCategorySorts(r)
      PROVE  CatBinStep
  <2>1. \A c \in CatId : cats'[c].state = cats[c].state
    BY <1>1, <1>9 DEF CreateCategorySorts, CatTypeOK, CatRow
  <2> QED
    BY <1>4, <1>9, <2>1 DEF CreateCategorySorts
<1>10. ASSUME NEW r \in Request, DeleteCategoryBins(r)
       PROVE  CatBinStep
  <2> DEFINE C == {c \in StoredCats : c = req[r].cat}
  <2>1. \A c \in CatId : cats'[c].state = IF c \in C THEN "binned" ELSE cats[c].state
    BY <1>1, <1>10 DEF DeleteCategoryBins, CatTypeOK, CatRow
  <2>2. C \in SUBSET CatId /\ \A c \in C : cats[c].state \in {"live", "binned"}
    BY DEF StoredCats, Exists
  <2> HIDE DEF C
  <2>3. CASE \A c \in C : cats[c].state = "binned"
    BY <1>4, <1>10, <2>1, <2>3 DEF DeleteCategoryBins
  <2>4. CASE \A c \in C : cats[c].state = "live"
    <3>1. CatBin!Become(C, "live", "binned")
      BY <2>1, <2>2, <2>4 DEF CatBin!Become
    <3> QED
      BY <1>3, <1>10, <2>1, <2>2, <3>1, CatsBecome DEF DeleteCategoryBins
  <2> QED
    BY <2>2, <2>3, <2>4 DEF C
<1>11. ASSUME NEW r \in Request, CreateCategoryInserts(r)
       PROVE  CatBinStep
  <2>1. catRows + 1 \in CatId /\ catRows' = catRows + 1 /\ cats[catRows + 1].state = "none"
    BY <1>1, <1>11, Bounds DEF CreateCategoryInserts, CatTypeOK, CatId, FreshRows
  <2>2. PICK n \in Name :
          cats' = [cats EXCEPT ![catRows + 1] = [state |-> "live", name |-> n, sort |-> 0]]
    BY <1>11 DEF CreateCategoryInserts
  <2>3. \A c \in CatId : cats'[c].state = IF c \in {catRows + 1} THEN "live" ELSE cats[c].state
    BY <1>1, <2>1, <2>2 DEF CatTypeOK, CatRow
  <2>4. CatBin!Become({catRows + 1}, "none", "live")
    BY <2>1, <2>3 DEF CatBin!Become
  <2>5. CatBin!Next
    BY <2>1, <2>4, CatsBecome
  <2> QED
    BY <1>1, <2>1, <2>2, <2>5 DEF CatTypeOK
<1>12. CASE PurgeCategory
  BY <1>8, <1>12 DEF PurgeCategory
<1>13. ASSUME NEW r \in Request, EmptyBinCategories(r)
       PROVE  CatBinStep
  BY <1>8, <1>13 DEF EmptyBinCategories
<1> QED
  BY <1>2, <1>5, <1>6, <1>7, <1>9, <1>10, <1>11, <1>12, <1>13, CatFrame DEF CatStep

\* Ids that were not handed out stay without a row.
LEMMA FreshStep ==
  ASSUME TypeOK, FreshRows, [Next]_vars
  PROVE  FreshRows'
<1>1. AssetTypeOK /\ CatTypeOK
  BY TypeParts
<1>2. \A a \in AssetId : a > rows' => assets'[a].state = "none"
  BY <1>1, AssetSteps, Bounds DEF AssetBinStep, FreshRows, AssetTypeOK, AssetId
<1>3. \A c \in CatId : c > catRows' => cats'[c].state = "none"
  BY <1>1, CatSteps, Bounds DEF CatBinStep, FreshRows, CatTypeOK, CatId
<1> QED
  BY <1>2, <1>3 DEF FreshRows, AssetId, CatId

------------------------------------------------------------------------------
(* References and names *)

\* A category loses its row only by a purge.
LEMMA CatsStay ==
  ASSUME TypeOK, [Next]_vars
  PROVE  \/ StoredCats \subseteq StoredCats'
         \/ \E C \in SUBSET (StoredCats \ ListedCats) : DropCats(C) /\ rows' = rows
<1> USE DEF StoredCats, Exists, CatTypeOK, CatRow
<1>1. CatTypeOK
  BY TypeParts
<1>2. CASE UNCHANGED <<cats, catRows>>
  BY <1>2
<1>3. CASE RenameCategory
  BY <1>1, <1>3 DEF RenameCategory
<1>4. CASE ReorderCategories
  BY <1>1, <1>4 DEF ReorderCategories
<1>5. CASE RestoreCategory
  BY <1>1, <1>5 DEF RestoreCategory
<1>6. CASE PurgeCategory
  BY <1>6 DEF PurgeCategory
<1>7. ASSUME NEW r \in Request, CreateCategoryInserts(r)
      PROVE  StoredCats \subseteq StoredCats'
  BY <1>1, <1>7 DEF CreateCategoryInserts
<1>8. ASSUME NEW r \in Request, CreateCategorySorts(r)
      PROVE  StoredCats \subseteq StoredCats'
  BY <1>1, <1>8 DEF CreateCategorySorts
<1>9. ASSUME NEW r \in Request, DeleteCategoryBins(r)
      PROVE  StoredCats \subseteq StoredCats'
  BY <1>1, <1>9 DEF DeleteCategoryBins
<1>10. ASSUME NEW r \in Request, EmptyBinCategories(r)
       PROVE  \E C \in SUBSET (StoredCats \ ListedCats) : DropCats(C) /\ rows' = rows
  BY <1>10 DEF EmptyBinCategories
<1> QED
  BY <1>2, <1>3, <1>4, <1>5, <1>6, <1>7, <1>8, <1>9, <1>10, CatFrame DEF CatStep

\* No step leaves an asset in a category without a row.
LEMMA ReferenceStep ==
  ASSUME TypeOK, CategoryOfAssetExists, [Next]_vars
  PROVE  CategoryOfAssetExists'
<1> USE DEF CategoryOfAssetExists, ValidCat, Stored, Exists
<1>1. AssetTypeOK /\ ReqTypeOK
  BY TypeParts
<1>2. ASSUME NEW C \in SUBSET StoredCats, DropCats(C)
      PROVE  CategoryOfAssetExists'
  <2>1. StoredCats' = StoredCats \ C
    BY <1>2 DEF DropCats, GoneCat, StoredCats
  <2>2. ASSUME NEW a \in Stored'
        PROVE  a \in Stored /\ assets'[a].cat = IF assets[a].cat \in C THEN NoCat ELSE assets[a].cat
    BY <1>1, <1>2, <2>2 DEF DropCats, AssetTypeOK, AssetRow
  <2> QED
    BY <2>1, <2>2
<1>3. ASSUME StoredCats \subseteq StoredCats',
             \A a \in Stored' : \/ a \in Stored /\ assets'[a].cat = assets[a].cat
                               \/ ValidCat(assets'[a].cat)
      PROVE  CategoryOfAssetExists'
  BY <1>3
<1>4. CASE StoredCats \subseteq StoredCats'
  <2>1. CASE UNCHANGED <<assets, rows>>
    BY <1>3, <1>4, <2>1
  <2>2. CASE BinAssets
    BY <1>1, <1>3, <1>4, <2>2 DEF BinAssets, Listed, AssetTypeOK, AssetRow
  <2>3. CASE RestoreAsset
    <3>1. PICK a \in Stored \ Listed :
            assets' = [assets EXCEPT ![a] = [state |-> "live",
                                             cat |-> IF @.cat \in StoredCats THEN @.cat ELSE NoCat]]
      BY <2>3 DEF RestoreAsset
    <3>2. assets'[a].cat = IF assets[a].cat \in StoredCats THEN assets[a].cat ELSE NoCat
      BY <1>1, <3>1 DEF AssetTypeOK
    <3>3. \A b \in AssetId \ {a} : assets'[b] = assets[b]
      BY <1>1, <3>1 DEF AssetTypeOK
    <3> QED
      BY <1>3, <1>4, <3>2, <3>3
  <2>4. CASE PurgeAsset
    BY <1>1, <1>3, <1>4, <2>4 DEF PurgeAsset, GoneAsset, AssetTypeOK
  <2>5. CASE \E C \in SUBSET StoredCats : DropCats(C)
    BY <1>2, <2>5
  <2>6. ASSUME NEW r \in Request, AssetInserted(r)
        PROVE  CategoryOfAssetExists'
    <3>1. CASE ValidCat(req[r].cat)
      BY <1>1, <1>3, <1>4, <2>6, <3>1 DEF AssetInserted, InsertAsset, AssetTypeOK
    <3> QED
      BY <1>3, <1>4, <2>6, <3>1 DEF AssetInserted, InsertAsset
  <2>7. ASSUME NEW S, NEW c, SetCategory(S, c)
        PROVE  CategoryOfAssetExists'
    <3>1. ASSUME NEW a \in AssetId
          PROVE  /\ assets'[a].state = assets[a].state
                 /\ assets'[a].cat = assets[a].cat \/ ValidCat(assets'[a].cat)
      BY <1>1, <2>7 DEF SetCategory, AssetTypeOK, AssetRow
    <3> QED
      BY <1>3, <1>4, <3>1
  <2>8. ASSUME NEW r \in Request, EmptyBinAssets(r)
        PROVE  CategoryOfAssetExists'
    BY <1>1, <1>3, <1>4, <2>8 DEF EmptyBinAssets, GoneAsset, AssetTypeOK
  <2> QED
    BY <2>1, <2>2, <2>3, <2>4, <2>5, <2>6, <2>7, <2>8, AssetFrame
       DEF AssetStep, PurgeCategory, AssetsUpdated, DeleteCategoryMoves, EmptyBinCategories
<1> QED
  BY <1>2, <1>4, CatsStay

\* No step gives two categories one name.
LEMMA NamesStep ==
  ASSUME TypeOK, NamesAreDistinct, [Next]_vars
  PROVE  NamesAreDistinct'
<1> USE DEF NamesAreDistinct, StoredCats, Exists, CatTypeOK, CatRow
<1>1. CatTypeOK
  BY TypeParts
<1>2. ASSUME \A c \in StoredCats' : c \in StoredCats /\ cats'[c].name = cats[c].name
      PROVE  NamesAreDistinct'
  BY <1>2
<1>3. CASE UNCHANGED <<cats, catRows>>
  BY <1>2, <1>3
<1>4. CASE RenameCategory
  <2>1. PICK c \in StoredCats, n \in Name : NameFree(n, c) /\ cats' = [cats EXCEPT ![c].name = n]
    BY <1>4 DEF RenameCategory
  <2>2. \A d \in CatId : /\ cats'[d].state = cats[d].state
                        /\ cats'[d].name = IF d = c THEN n ELSE cats[d].name
    BY <1>1, <2>1
  <2> QED
    BY <2>1, <2>2 DEF NameFree
<1>5. CASE ReorderCategories
  BY <1>1, <1>2, <1>5 DEF ReorderCategories
<1>6. CASE RestoreCategory
  BY <1>1, <1>2, <1>6 DEF RestoreCategory
<1>7. ASSUME NEW C, DropCats(C)
      PROVE  NamesAreDistinct'
  BY <1>1, <1>2, <1>7 DEF DropCats, GoneCat
<1>8. ASSUME NEW r \in Request, CreateCategoryInserts(r)
      PROVE  NamesAreDistinct'
  <2>1. PICK n \in Name :
          /\ NameFree(n, NoCat)
          /\ cats' = [cats EXCEPT ![catRows + 1] = [state |-> "live", name |-> n, sort |-> 0]]
    BY <1>8 DEF CreateCategoryInserts
  <2>2. catRows + 1 \in CatId
    BY <1>1, <1>8, Bounds DEF CreateCategoryInserts, CatId
  <2>3. \A d \in StoredCats : cats[d].name # n
    BY <2>1, Bounds DEF NameFree, NoCat, CatId
  <2>4. cats'[catRows + 1].name = n /\ \A d \in CatId \ {catRows + 1} : cats'[d] = cats[d]
    BY <1>1, <2>1, <2>2
  <2> QED
    BY <2>3, <2>4
<1>9. ASSUME NEW r \in Request, CreateCategorySorts(r)
      PROVE  NamesAreDistinct'
  BY <1>1, <1>2, <1>9 DEF CreateCategorySorts
<1>10. ASSUME NEW r \in Request, DeleteCategoryBins(r)
       PROVE  NamesAreDistinct'
  BY <1>1, <1>2, <1>10 DEF DeleteCategoryBins
<1> QED
  BY <1>3, <1>4, <1>5, <1>6, <1>7, <1>8, <1>9, <1>10, CatFrame
     DEF CatStep, PurgeCategory, EmptyBinCategories

------------------------------------------------------------------------------
(* Quota and places *)

\* Without an INSERT no asset is added to those that count.
LEMMA CountFalls ==
  ASSUME TypeOK, FreshRows, [Next]_vars, rows' = rows
  PROVE  AssetCount' <= AssetCount
<1>1. AssetTypeOK /\ AssetBinStep
  BY TypeParts, AssetSteps
<1>2. \A a \in AssetId : assets[a].state = "none" => assets'[a].state = "none"
  BY <1>1 DEF AssetBinStep, AssetTypeOK
<1>3. Stored' \subseteq Stored
  <2>1. CASE AssetBin!Next
    <3>1. PICK S \in SUBSET AssetId :
            \/ AssetBin!Become(S, "none", "live") \/ AssetBin!Become(S, "live", "binned")
            \/ AssetBin!Become(S, "binned", "live") \/ AssetBin!Become(S, "binned", "purged")
      BY <2>1 DEF AssetBin!Next
    <3>2. ASSUME NEW a \in AssetId
          PROVE  \/ assets'[a].state = assets[a].state
                 \/ assets[a].state = "none" /\ assets'[a].state = "live"
                 \/ assets[a].state \in {"live", "binned"}
      BY <3>1 DEF AssetBin!Become
    <3> QED
      BY <1>2, <3>2 DEF Stored, Exists
  <2> QED
    BY <1>1, <2>1 DEF AssetBinStep, Stored, Exists
<1>4. IsFiniteSet(Stored) /\ AssetCount \in Nat
  BY Finite
<1> QED
  BY <1>3, <1>4, FS_Subset DEF AssetCount

\* After a step the assets are still counted by a natural number.
LEMMA FinitePrimed ==
  ASSUME TypeOK'
  PROVE  AssetCount' \in Nat
<1>1. IsFiniteSet(AssetId)
  BY FS_Interval, Bounds DEF AssetId
<1>2. Stored' \subseteq AssetId
  BY DEF Stored
<1> QED
  BY <1>1, <1>2, FS_Subset, FS_CardinalityType DEF AssetCount

\* What a step makes of a request, as far as a creation is concerned.
Progress(r) ==
  \/ req'[r] = req[r]
  \/ req'[r].step \notin {"quota", "insert", "sort"}
  \/ req'[r].step \in {"quota", "insert"} /\ ~req'[r].free
  \/ /\ req'[r].step = "insert" /\ UNCHANGED <<assets, rows>>
     /\ req'[r].seen = rows /\ AssetCount < Quota
  \/ req'[r].step = "sort" /\ req'[r].cat = catRows + 1 /\ catRows' = catRows + 1

\* What a step may do to a request in progress.
LEMMA Requests ==
  ASSUME TypeOK, CountStands, [Next]_vars, NEW r \in Request
  PROVE  Progress(r)
<1> USE DEF Progress
<1>1. ReqTypeOK
  BY TypeParts
<1>2. ASSUME NEW q \in Request, Answer(q)
      PROVE  Progress(r)
  BY <1>1, <1>2 DEF Answer, NoReq, ReqTypeOK
<1>3. CASE UNCHANGED req
  BY <1>3
<1>4. ASSUME NEW q \in Request, CreateReadsQuota(q)
      PROVE  Progress(r)
  <2>1. CASE AssetCount < Quota /\ req' = [req EXCEPT ![q].step = "insert", ![q].free = TRUE, ![q].seen = rows]
    BY <1>1, <1>4, <2>1 DEF CreateReadsQuota, ReqTypeOK, Req
  <2>2. CASE Goto(q, "insert")
    <3>1. ~req[q].free
      BY <1>4 DEF CreateReadsQuota, CountStands
    <3> QED
      BY <1>1, <2>2, <3>1 DEF Goto, ReqTypeOK, Req
  <2> QED
    BY <1>2, <1>4, <2>1, <2>2 DEF CreateReadsQuota
<1>5. ASSUME NEW q \in Request, CreateValidates(q) \/ CopyReads(q) \/ UpdateValidates(q) \/ MoveValidates(q)
                                \/ DeleteCategoryReads(q) \/ EmptyBinAssets(q) \/ CreateCategoryInserts(q)
      PROVE  Progress(r)
  <2> USE <1>1 DEF Begin, NoReq, ReqTypeOK
  <2>1. CASE CreateValidates(q)
    BY <2>1 DEF CreateValidates
  <2>2. CASE CopyReads(q)
    BY <2>2 DEF CopyReads
  <2>3. CASE UpdateValidates(q)
    BY <2>3 DEF UpdateValidates
  <2>4. CASE MoveValidates(q)
    BY <2>4 DEF MoveValidates
  <2>5. CASE DeleteCategoryReads(q)
    <3>1. PICK c \in ListedCats :
            \/ Begin(q, [NoReq EXCEPT !.step = "bin", !.cat = c])
            \/ \E t \in StoredCats \ {c} :
                 Begin(q, [NoReq EXCEPT !.step = "out", !.cat = c, !.to = t])
      BY <2>5 DEF DeleteCategoryReads
    <3>2. CASE Begin(q, [NoReq EXCEPT !.step = "bin", !.cat = c])
      BY <3>2
    <3>3. ASSUME NEW t, Begin(q, [NoReq EXCEPT !.step = "out", !.cat = c, !.to = t])
          PROVE  Progress(r)
      BY <3>3
    <3> QED
      BY <3>1, <3>2, <3>3
  <2>6. CASE EmptyBinAssets(q)
    BY <2>6 DEF EmptyBinAssets
  <2>7. CASE CreateCategoryInserts(q)
    BY <2>7 DEF CreateCategoryInserts
  <2> QED
    BY <1>5, <2>1, <2>2, <2>3, <2>4, <2>5, <2>6, <2>7
<1>6. ASSUME NEW q \in Request, DeleteCategoryMoves(q)
      PROVE  Progress(r)
  BY <1>1, <1>2, <1>6 DEF DeleteCategoryMoves, Goto, ReqTypeOK, Req
<1>7. ASSUME NEW q \in Request,
             AssetInserted(q) \/ AssetsUpdated(q) \/ CreateCategorySorts(q)
               \/ DeleteCategoryBins(q) \/ EmptyBinCategories(q)
      PROVE  Progress(r)
  BY <1>2, <1>7 DEF AssetInserted, AssetsUpdated, CreateCategorySorts, DeleteCategoryBins,
                    EmptyBinCategories
<1>8. CASE BinAssets \/ RenameCategory \/ ReorderCategories \/ RestoreAsset \/ RestoreCategory
             \/ PurgeAsset \/ PurgeCategory
  BY <1>3, <1>8 DEF BinAssets, RenameCategory, ReorderCategories, RestoreAsset, RestoreCategory,
                    PurgeAsset, PurgeCategory
<1> QED
  BY <1>3, <1>4, <1>5, <1>6, <1>7, <1>8 DEF Next, vars

\* No step outdates a count that still stands.
LEMMA CountStep ==
  ASSUME TypeOK, FreshRows, CountStands, [Next]_vars
  PROVE  CountStands'
<1>1. rows \in Nat /\ ReqTypeOK
  BY TypeParts, Bounds DEF AssetTypeOK
<1>2. rows' = rows \/ rows' = rows + 1
  BY AssetSteps DEF AssetBinStep
<1>3. AssetCount \in Nat /\ AssetCount' \in Nat
  BY TypeStep, Finite, FinitePrimed
<1>4. rows' = rows => AssetCount' <= AssetCount
  <2> SUFFICES ASSUME rows' = rows PROVE AssetCount' <= AssetCount
    OBVIOUS
  <2> QED
    BY CountFalls
<1>5. ASSUME NEW r \in Request
      PROVE  /\ req'[r].step = "quota" => ~req'[r].free
             /\ req'[r].step = "insert" /\ req'[r].free =>
                  req'[r].seen <= rows' /\ (req'[r].seen = rows' => AssetCount' < Quota)
  <2>1. req[r].seen \in Nat
    BY <1>1 DEF ReqTypeOK, Req
  <2>2. CASE req'[r] = req[r]
    BY <1>1, <1>2, <1>3, <1>4, <2>1, <2>2, Bounds DEF CountStands, At
  <2>3. CASE /\ req'[r].step = "insert" /\ UNCHANGED <<assets, rows>>
             /\ req'[r].seen = rows /\ AssetCount < Quota
    BY <1>1, <1>3, <1>4, <2>3, Bounds
  <2> QED
    BY <2>2, <2>3, Requests DEF Progress
<1> QED
  BY <1>5 DEF CountStands, At

\* No step puts a category beyond the newest one.
LEMMA PlaceStep ==
  ASSUME TypeOK, FreshRows, CountStands, PlacesBounded, [Next]_vars
  PROVE  PlacesBounded'
<1>1. CatTypeOK /\ ReqTypeOK /\ catRows \in Nat
  BY TypeParts, Bounds DEF CatTypeOK
<1>2. catRows' = catRows \/ catRows' = catRows + 1
  BY CatSteps DEF CatBinStep
<1>3. \A c \in CatId : cats'[c].sort = cats[c].sort \/ cats'[c].sort \in 0..catRows
  <2> USE DEF CatTypeOK, CatRow
  <2>1. CASE UNCHANGED <<cats, catRows>>
    BY <2>1
  <2>2. CASE RenameCategory
    BY <1>1, <2>2 DEF RenameCategory
  <2>3. CASE ReorderCategories
    <3>1. ListedCats \subseteq 1..catRows
      BY <1>1, Bounds DEF ListedCats, FreshRows, CatId
    <3>2. Cardinality(ListedCats) \in Nat /\ Cardinality(ListedCats) <= catRows
      <4>1. IsFiniteSet(1..catRows) /\ Cardinality(1..catRows) = catRows
        BY <1>1, FS_Interval
      <4>2. Cardinality(ListedCats) <= Cardinality(1..catRows)
        BY <3>1, <4>1, FS_Subset
      <4> QED
        BY <4>1, <4>2, Finite
    <3>3. PICK order \in [ListedCats -> 0..(Cardinality(ListedCats) - 1)] :
            cats' = [c \in CatId |-> IF c \in ListedCats
                                     THEN [cats[c] EXCEPT !.sort = order[c]] ELSE cats[c]]
      BY <2>3 DEF ReorderCategories
    <3>4. \A c \in ListedCats : order[c] \in 0..catRows
      BY <1>1, <3>2, <3>3
    <3> QED
      BY <1>1, <3>3, <3>4
  <2>4. CASE RestoreCategory
    BY <1>1, <2>4 DEF RestoreCategory
  <2>5. ASSUME NEW C, DropCats(C)
        PROVE  \A c \in CatId : cats'[c].sort = cats[c].sort \/ cats'[c].sort \in 0..catRows
    BY <1>1, <2>5 DEF DropCats, GoneCat
  <2>6. ASSUME NEW r \in Request, CreateCategoryInserts(r)
        PROVE  \A c \in CatId : cats'[c].sort = cats[c].sort \/ cats'[c].sort \in 0..catRows
    BY <1>1, <2>6 DEF CreateCategoryInserts
  <2>7. ASSUME NEW r \in Request, CreateCategorySorts(r)
        PROVE  \A c \in CatId : cats'[c].sort = cats[c].sort \/ cats'[c].sort \in 0..catRows
    <3>1. req[r].cat \in 0..catRows
      BY <1>1, <2>7 DEF CreateCategorySorts, PlacesBounded
    <3> QED
      BY <1>1, <2>7, <3>1 DEF CreateCategorySorts
  <2>8. ASSUME NEW r \in Request, DeleteCategoryBins(r)
        PROVE  \A c \in CatId : cats'[c].sort = cats[c].sort \/ cats'[c].sort \in 0..catRows
    BY <1>1, <2>8 DEF DeleteCategoryBins
  <2> QED
    BY <2>1, <2>2, <2>3, <2>4, <2>5, <2>6, <2>7, <2>8, CatFrame
       DEF CatStep, PurgeCategory, EmptyBinCategories
<1>4. \A c \in CatId : cats'[c].sort <= catRows'
  BY <1>1, <1>2, <1>3 DEF PlacesBounded, CatTypeOK, CatRow
<1>5. ASSUME NEW r \in Request, req'[r].step = "sort"
      PROVE  req'[r].cat \in 1..catRows'
  <2>1. CASE req'[r] = req[r]
    BY <1>1, <1>2, <1>5, <2>1 DEF PlacesBounded, At
  <2>2. CASE req'[r].cat = catRows + 1 /\ catRows' = catRows + 1
    BY <1>1, <2>2
  <2> QED
    BY <1>5, <2>1, <2>2, Requests DEF Progress
<1> QED
  BY <1>4, <1>5 DEF PlacesBounded, At, CatId

------------------------------------------------------------------------------
(* The theorems *)

\* The initial state satisfies the inductive invariant.
LEMMA InitInv ==
  ASSUME Init
  PROVE  IInv
<1>1. TypeOK
  BY InitType
<1>2. \A r \in Request : req[r].step = "idle"
  BY DEF Init, NoReq
<1>3. Stored = {}
  BY DEF Init, Stored, Exists
<1>4. FreshRows
  BY Bounds DEF Init, FreshRows, CatId
<1>5. CategoryOfAssetExists
  BY <1>3 DEF CategoryOfAssetExists
<1>6. NamesAreDistinct
  <2>1. PICK seed \in [1..Preset -> Name] :
          /\ \A c, d \in 1..Preset : seed[c] = seed[d] => c = d
          /\ cats = [c \in CatId |-> IF c <= Preset THEN [state |-> "live", name |-> seed[c], sort |-> 0]
                                     ELSE [state |-> "none", name |-> NoName, sort |-> 0]]
    BY DEF Init
  <2>2. \A c \in StoredCats : c \in 1..Preset /\ cats[c].name = seed[c]
    BY <2>1, Bounds DEF StoredCats, Exists, CatId
  <2>3. \A c, d \in 1..Preset : seed[c] = seed[d] => c = d
    BY <2>1
  <2> QED
    BY <2>2, <2>3 DEF NamesAreDistinct
<1>7. CountStands
  BY <1>2 DEF CountStands, At
<1>8. PlacesBounded
  BY <1>2, Bounds DEF PlacesBounded, At, Init, CatId
<1> QED
  BY <1>1, <1>4, <1>5, <1>6, <1>7, <1>8 DEF IInv

\* The conjuncts of the inductive invariant, taken together, survive every step.
LEMMA Invariance == Spec => []IInv
<1>1. IInv /\ [Next]_vars => IInv'
  BY TypeStep, FreshStep, ReferenceStep, NamesStep, CountStep, PlaceStep DEF IInv
<1> QED
  BY <1>1, InitInv, PTL DEF Spec

\* No asset is left in a category without a row, whichever requests overlap.
THEOREM References == Spec => []CategoryOfAssetExists
<1>1. IInv => CategoryOfAssetExists
  BY DEF IInv
<1> QED
  BY <1>1, Invariance, PTL

\* No two categories of the owner have one name, the bin included.
THEOREM Names == Spec => []NamesAreDistinct
<1>1. IInv => NamesAreDistinct
  BY DEF IInv
<1> QED
  BY <1>1, Invariance, PTL

\* A free owner's quota is passed only when another INSERT overlaps the creation.
THEOREM Quotas == Spec => QuotaBeatenOnlyByOverlap
<1>1. IInv => \A r \in Request : At(r, "insert") /\ req[r].free /\ req[r].seen = rows => AssetCount < Quota
  BY DEF IInv, CountStands
<1>2. IInv /\ [Next]_vars =>
        [\A r \in Request :
           /\ At(r, "insert") /\ req'[r] # req[r] /\ rows' # rows
           /\ req[r].free /\ req[r].seen = rows
           => AssetCount < Quota]_vars
  BY <1>1
<1> QED
  BY <1>2, Invariance, PTL DEF Spec, QuotaBeatenOnlyByOverlap

\* An asset changes its category only as a request says, or when the category goes.
THEOREM CategoryMoves == Spec => CategoryChangesOnRequest
<1> DEFINE Allowed(a) ==
      \/ assets'[a].cat = assets[a].cat
      \/ assets'[a].cat = NoCat /\ assets[a].cat \notin StoredCats'
      \/ \E r \in Request :
           \/ At(r, "set") /\ a \in req[r].on /\ assets'[a].cat = req[r].cat
           \/ At(r, "out") /\ assets[a].cat = req[r].cat /\ assets'[a].cat = req[r].to
<1>1. ASSUME IInv, [Next]_vars, NEW a \in Stored \intersect Stored'
      PROVE  Allowed(a)
  <2>1. AssetTypeOK /\ CatTypeOK /\ a \in AssetId
    BY <1>1, TypeParts DEF IInv, Stored
  <2>2. ValidCat(assets[a].cat)
    BY <1>1 DEF IInv, CategoryOfAssetExists
  <2>3. CASE UNCHANGED <<assets, rows>>
    BY <2>3
  <2>4. CASE BinAssets
    BY <2>1, <2>4 DEF BinAssets, AssetTypeOK, AssetRow
  <2>5. CASE RestoreAsset
    <3>1. assets'[a].cat \in {assets[a].cat, IF assets[a].cat \in StoredCats THEN assets[a].cat ELSE NoCat}
      BY <2>1, <2>5 DEF RestoreAsset, AssetTypeOK
    <3> QED
      BY <2>2, <3>1 DEF ValidCat
  <2>6. CASE PurgeAsset
    <3>1. assets'[a] = assets[a]
      BY <1>1, <2>1, <2>6 DEF PurgeAsset, AssetTypeOK, Stored, Exists, GoneAsset
    <3> QED
      BY <3>1
  <2>7. ASSUME NEW C, DropCats(C)
        PROVE  Allowed(a)
    BY <2>1, <2>7 DEF DropCats, StoredCats, Exists, GoneCat, AssetTypeOK, AssetRow
  <2>8. ASSUME NEW r \in Request, AssetInserted(r)
        PROVE  Allowed(a)
    <3>1. assets'[a] = assets[a]
      BY <1>1, <2>1, <2>8, Bounds DEF AssetInserted, InsertAsset, IInv, FreshRows, AssetTypeOK, Stored, Exists, AssetId
    <3> QED
      BY <3>1
  <2>9. ASSUME NEW r \in Request, AssetsUpdated(r)
        PROVE  Allowed(a)
    BY <2>1, <2>9 DEF AssetsUpdated, SetCategory, AssetTypeOK, AssetRow
  <2>10. ASSUME NEW r \in Request, DeleteCategoryMoves(r)
         PROVE  Allowed(a)
    BY <2>1, <2>10 DEF DeleteCategoryMoves, SetCategory, InCategory, AssetTypeOK, AssetRow
  <2>11. ASSUME NEW r \in Request, EmptyBinAssets(r)
         PROVE  Allowed(a)
    <3>1. assets'[a] = assets[a]
      BY <1>1, <2>1, <2>11 DEF EmptyBinAssets, Stored, Exists, GoneAsset
    <3> QED
      BY <3>1
  <2> HIDE DEF Allowed
  <2> QED
    BY <1>1, <2>3, <2>4, <2>5, <2>6, <2>7, <2>8, <2>9, <2>10, <2>11, AssetFrame
       DEF AssetStep, PurgeCategory, EmptyBinCategories
<1>2. IInv /\ [Next]_vars =>
        [\A a \in Stored \intersect Stored' :
           assets'[a].cat # assets[a].cat =>
             \/ assets'[a].cat = NoCat /\ assets[a].cat \notin StoredCats'
             \/ \E r \in Request :
                  \/ At(r, "set") /\ a \in req[r].on /\ assets'[a].cat = req[r].cat
                  \/ At(r, "out") /\ assets[a].cat = req[r].cat /\ assets'[a].cat = req[r].to]_vars
  BY <1>1
<1> QED
  BY <1>2, Invariance, PTL DEF Spec, CategoryChangesOnRequest

\* A request that is at the place of its category goes on only by writing it.
LEMMA SortGoesOn ==
  ASSUME TypeOK, [Next]_vars, NEW r \in Request, At(r, "sort"), req'[r] # req[r]
  PROVE  CreateCategorySorts(r)
<1>1. ReqTypeOK
  BY TypeParts
<1>2. ASSUME NEW q \in Request, q # r,
             (\E x : req' = [req EXCEPT ![q] = x])
      PROVE  FALSE
  BY <1>1, <1>2 DEF ReqTypeOK
<1>3. ASSUME NEW q \in Request, req[q].step # "sort", (\E x : req' = [req EXCEPT ![q] = x])
      PROVE  FALSE
  BY <1>1, <1>2, <1>3 DEF At
<1>4. UNCHANGED req => FALSE
  OBVIOUS
<1>5. ASSUME NEW q \in Request, NEW s, Goto(q, s)
      PROVE  \E x : req' = [req EXCEPT ![q] = x]
  BY <1>5 DEF Goto
<1>6. ASSUME NEW q \in Request, NEW x, Begin(q, x)
      PROVE  FALSE
  BY <1>3, <1>6 DEF Begin
<1>7. ASSUME NEW q \in Request, Answer(q)
      PROVE  \E x : req' = [req EXCEPT ![q] = x]
  BY <1>7 DEF Answer
<1>8. ASSUME NEW q \in Request, CreateReadsQuota(q)
      PROVE  FALSE
  BY <1>3, <1>8 DEF CreateReadsQuota, At, Goto, Answer
<1>9. ASSUME NEW q \in Request,
             AssetInserted(q) \/ AssetsUpdated(q) \/ DeleteCategoryMoves(q) \/ DeleteCategoryBins(q)
               \/ EmptyBinCategories(q)
      PROVE  FALSE
  BY <1>3, <1>5, <1>7, <1>9
     DEF AssetInserted, AssetsUpdated, DeleteCategoryMoves, DeleteCategoryBins, EmptyBinCategories, At
<1>10. ASSUME NEW q \in Request,
              CreateValidates(q) \/ CopyReads(q) \/ UpdateValidates(q) \/ MoveValidates(q)
                \/ CreateCategoryInserts(q) \/ DeleteCategoryReads(q) \/ EmptyBinAssets(q)
       PROVE  FALSE
  BY <1>6, <1>10 DEF CreateValidates, CopyReads, UpdateValidates, MoveValidates,
                     CreateCategoryInserts, DeleteCategoryReads, EmptyBinAssets
<1>11. ASSUME NEW q \in Request, CreateCategorySorts(q)
       PROVE  q = r
  BY <1>2, <1>7, <1>11 DEF CreateCategorySorts
<1>12. CASE BinAssets \/ RenameCategory \/ ReorderCategories \/ RestoreAsset \/ RestoreCategory
              \/ PurgeAsset \/ PurgeCategory
  BY <1>4, <1>12 DEF BinAssets, RenameCategory, ReorderCategories, RestoreAsset, RestoreCategory,
                     PurgeAsset, PurgeCategory
<1> QED
  BY <1>4, <1>8, <1>9, <1>10, <1>11, <1>12 DEF Next, vars

\* A category that is still the newest when its place is written is sorted last.
THEOREM PlaceOfNewest == Spec => NewCategoryIsLast
<1>1. ASSUME IInv, [Next]_vars, NEW r \in Request, At(r, "sort"), req'[r] # req[r],
             req[r].cat = catRows, catRows \in StoredCats
      PROVE  \A d \in StoredCats : cats'[d].sort <= cats'[catRows].sort
  <2>1. CreateCategorySorts(r)
    BY <1>1, SortGoesOn DEF IInv
  <2>2. \A c \in CatId : cats[c].sort <= catRows /\ cats[c] \in CatRow
    BY <1>1, TypeParts DEF IInv, PlacesBounded, CatTypeOK
  <2>3. cats'[catRows].sort = catRows
    BY <1>1, <2>1, <2>2 DEF CreateCategorySorts, StoredCats, CatRow
  <2>4. \A d \in StoredCats \ {catRows} : cats'[d] = cats[d]
    BY <1>1, <2>1 DEF CreateCategorySorts, StoredCats
  <2>5. catRows <= catRows
    BY <1>1, Bounds DEF StoredCats, CatId
  <2> QED
    BY <2>2, <2>3, <2>4, <2>5 DEF StoredCats
<1>2. IInv /\ [Next]_vars =>
        [\A r \in Request :
           /\ At(r, "sort") /\ req'[r] # req[r]
           /\ req[r].cat = catRows /\ catRows \in StoredCats
           => \A d \in StoredCats : cats'[d].sort <= cats'[catRows].sort]_vars
  BY <1>1
<1> QED
  BY <1>2, Invariance, PTL DEF Spec, NewCategoryIsLast

\* The table of assets implements the recycle bin.
THEOREM AssetsInBin == Spec => AssetsKeepToTheBin
<1>1. Init => AssetBin!Init
  BY DEF Init, AssetBin!Init
<1>2. IInv /\ [Next]_vars => [AssetBin!Next]_[a \in AssetId |-> assets[a].state]
  <2> SUFFICES ASSUME IInv, [Next]_vars
               PROVE  AssetBin!Next \/ UNCHANGED [a \in AssetId |-> assets[a].state]
    OBVIOUS
  <2> QED
    BY AssetSteps DEF IInv, AssetBinStep
<1> QED
  BY <1>1, <1>2, Invariance, PTL DEF Spec, AssetsKeepToTheBin, AssetBin!Spec

\* The table of categories implements the recycle bin.
THEOREM CategoriesInBin == Spec => CategoriesKeepToTheBin
<1>1. Init => CatBin!Init
  BY DEF Init, CatBin!Init
<1>2. IInv /\ [Next]_vars => [CatBin!Next]_[c \in CatId |-> cats[c].state]
  <2> SUFFICES ASSUME IInv, [Next]_vars
               PROVE  CatBin!Next \/ UNCHANGED [c \in CatId |-> cats[c].state]
    OBVIOUS
  <2> QED
    BY CatSteps DEF IInv, CatBinStep
<1> QED
  BY <1>1, <1>2, Invariance, PTL DEF Spec, CategoriesKeepToTheBin, CatBin!Spec

=============================================================================
