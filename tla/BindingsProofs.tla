--------------------------- MODULE BindingsProofs ---------------------------
(***************************************************************************)
(* For any number of assets, categories, inheritors, ladders and requests: *)
(* the types and references of the bindings, that no inheritor is bound    *)
(* twice to one item, that the preview names the heir the trigger chooses, *)
(* and what may happen to ladders.                                         *)
(***************************************************************************)
EXTENDS Bindings, FiniteSetTheorems, SequenceTheorems, WellFoundedInduction, TLAPS

------------------------------------------------------------------------------
(* The inductive invariant *)

Distinct(s) == \A j, k \in DOMAIN s : s[j].heir = s[k].heir => j = k

RowsOK ==
  /\ bound \in [Item -> Seq(Binding)]
  /\ \A i \in Item : Distinct(bound[i])

VaultOK ==
  /\ Assets \subseteq Asset /\ categories \subseteq Category
  /\ category \in [Assets -> Category \union {None}]

HeirsOK == heirRows \in 0..MaxHeirs /\ heirs \subseteq 1..heirRows

LaddersOK == ladders \in Seq({"global", "custom", "gone"}) /\ Len(ladders) <= MaxLadders

ReqOK == req \in [Request -> [step : {"idle", "insert", "update"},
                              ladder : LadderId \union {Global},
                              on : SUBSET (Item \X HeirId), seen : 0..MaxLadders]]

\* A request that found no global ladder: those there were then are none now.
NoneWasGlobal ==
  \A r \in Request : At(r, "insert") =>
    req[r].seen <= Len(ladders) /\ \A l \in 1..req[r].seen : ladders[l] # "global"

\* What is unbound is a custom ladder, or one that is gone by now.
UnbindsCustom ==
  \A r \in Request : At(r, "update") =>
    req[r].ladder \in DOMAIN ladders /\ ladders[req[r].ladder] # "global"

IInv ==
  /\ RowsOK /\ VaultOK /\ HeirsOK /\ LaddersOK /\ ReqOK
  /\ ReferencesResolve
  /\ NoneWasGlobal /\ UnbindsCustom

------------------------------------------------------------------------------
(* Sequences of bindings *)

\* What DELETE leaves of a sequence.
LEMMA Removed ==
  ASSUME NEW S, NEW s \in Seq(S), NEW k \in 1..Len(s)
  PROVE  /\ RemoveAt(s, k) \in Seq(S) /\ Len(RemoveAt(s, k)) = Len(s) - 1
         /\ \A j \in 1..(Len(s) - 1) : RemoveAt(s, k)[j] = IF j < k THEN s[j] ELSE s[j + 1]
<1> DEFINE u == SubSeq(s, 1, k - 1)
           v == SubSeq(s, k + 1, Len(s))
<1>1. Len(s) \in Nat
  OBVIOUS
<1>2. u \in Seq(S) /\ Len(u) = k - 1 /\ \A j \in 1..(k - 1) : u[j] = s[j]
  BY SubSeqProperties
<1>3. v \in Seq(S) /\ Len(v) = Len(s) - k /\ \A j \in 1..(Len(s) - k) : v[j] = s[k + j]
  BY SubSeqProperties
<1>4. RemoveAt(s, k) = u \o v
  BY DEF RemoveAt
<1> HIDE DEF u, v
<1>5. /\ u \o v \in Seq(S) /\ Len(u \o v) = Len(u) + Len(v)
      /\ \A j \in 1..(Len(u) + Len(v)) : (u \o v)[j] = IF j <= Len(u) THEN u[j] ELSE v[j - Len(u)]
  BY <1>2, <1>3, ConcatProperties, Zenon
<1>6. ASSUME NEW j \in 1..(Len(s) - 1)
      PROVE  (u \o v)[j] = IF j < k THEN s[j] ELSE s[j + 1]
  <2>1. j \in 1..(Len(u) + Len(v))
    BY <1>1, <1>2, <1>3
  <2>2. CASE j < k
    BY <2>1, <2>2, <1>1, <1>2, <1>5
  <2>3. CASE k <= j
    <3>1. j - Len(u) \in 1..(Len(s) - k) /\ k + (j - Len(u)) = j + 1 /\ ~(j <= Len(u))
      BY <2>3, <1>1, <1>2
    <3>2. (u \o v)[j] = v[j - Len(u)] /\ v[j - Len(u)] = s[k + (j - Len(u))]
      BY <2>1, <3>1, <1>3, <1>5
    <3> QED
      BY <3>1, <3>2, <2>3
  <2>4. j < k \/ k <= j
    BY <1>1
  <2> QED
    BY <2>2, <2>3, <2>4, Zenon
<1> QED
  BY <1>1, <1>2, <1>3, <1>4, <1>5, <1>6

\* What INSERT makes of a sequence.
LEMMA Inserted ==
  ASSUME NEW S, NEW s \in Seq(S), NEW k \in 1..(Len(s) + 1), NEW e \in S
  PROVE  /\ InsertAt(s, k, e) \in Seq(S) /\ Len(InsertAt(s, k, e)) = Len(s) + 1
         /\ \A j \in 1..(Len(s) + 1) :
              InsertAt(s, k, e)[j] = IF j < k THEN s[j] ELSE IF j = k THEN e ELSE s[j - 1]
<1> DEFINE u == SubSeq(s, 1, k - 1)
           v == SubSeq(s, k, Len(s))
           w == u \o <<e>>
<1>1. Len(s) \in Nat
  OBVIOUS
<1>2. u \in Seq(S) /\ Len(u) = k - 1 /\ \A j \in 1..(k - 1) : u[j] = s[j]
  BY SubSeqProperties
<1>3. /\ v \in Seq(S) /\ Len(v) = Len(s) - k + 1
      /\ \A j \in 1..(Len(s) - k + 1) : v[j] = s[k + j - 1]
  BY SubSeqProperties
<1>4. InsertAt(s, k, e) = w \o v
  BY DEF InsertAt
<1>5. <<e>> \in Seq(S) /\ Len(<<e>>) = 1 /\ <<e>>[1] = e
  OBVIOUS
<1> HIDE DEF u, v
<1>6. /\ w \in Seq(S) /\ Len(w) = Len(u) + Len(<<e>>)
      /\ \A j \in 1..(Len(u) + Len(<<e>>)) : w[j] = IF j <= Len(u) THEN u[j] ELSE <<e>>[j - Len(u)]
  BY <1>2, <1>5, ConcatProperties, Zenon
<1> HIDE DEF w
<1>7. /\ w \in Seq(S) /\ Len(w) = k
      /\ \A j \in 1..(k - 1) : w[j] = s[j]
      /\ w[k] = e
  <2>1. /\ Len(w) = k /\ k \in 1..(Len(u) + Len(<<e>>)) /\ ~(k <= Len(u)) /\ k - Len(u) = 1
        /\ \A j \in 1..(k - 1) : j \in 1..(Len(u) + Len(<<e>>)) /\ j <= Len(u)
    BY <1>1, <1>2, <1>5, <1>6
  <2> QED
    BY <2>1, <1>2, <1>5, <1>6
<1>8. /\ w \o v \in Seq(S) /\ Len(w \o v) = Len(w) + Len(v)
      /\ \A j \in 1..(Len(w) + Len(v)) : (w \o v)[j] = IF j <= Len(w) THEN w[j] ELSE v[j - Len(w)]
  BY <1>3, <1>7, ConcatProperties, Zenon
<1>9. ASSUME NEW j \in 1..(Len(s) + 1)
      PROVE  (w \o v)[j] = IF j < k THEN s[j] ELSE IF j = k THEN e ELSE s[j - 1]
  <2>1. j \in 1..(Len(w) + Len(v))
    BY <1>1, <1>3, <1>7
  <2>2. CASE j < k
    <3>1. j <= Len(w) /\ j \in 1..(k - 1)
      BY <2>2, <1>1, <1>7
    <3> QED
      BY <2>1, <2>2, <3>1, <1>7, <1>8
  <2>3. CASE j = k
    BY <2>1, <2>3, <1>1, <1>7, <1>8
  <2>4. CASE j > k
    <3>1. j - Len(w) \in 1..(Len(s) - k + 1) /\ k + (j - Len(w)) - 1 = j - 1 /\ ~(j <= Len(w))
      BY <2>4, <1>1, <1>7
    <3>2. (w \o v)[j] = v[j - Len(w)] /\ v[j - Len(w)] = s[k + (j - Len(w)) - 1]
      BY <2>1, <3>1, <1>3, <1>8
    <3> QED
      BY <3>1, <3>2, <2>4
  <2>5. j < k \/ j = k \/ j > k
    BY <1>1
  <2> QED
    BY <2>2, <2>3, <2>4, <2>5, Zenon
<1> QED
  BY <1>1, <1>3, <1>4, <1>7, <1>8, <1>9

\* A binding of an heir who had none keeps the heirs apart.
LEMMA RowInserted ==
  ASSUME NEW s \in Seq(Binding), Distinct(s), NEW k \in 1..(Len(s) + 1), NEW e \in Binding,
         \A j \in DOMAIN s : s[j].heir # e.heir
  PROVE  /\ InsertAt(s, k, e) \in Seq(Binding) /\ Distinct(InsertAt(s, k, e))
         /\ \A b \in Range(InsertAt(s, k, e)) : b \in Range(s) \/ b = e
<1> DEFINE t == InsertAt(s, k, e)
           old(j) == IF j < k THEN j ELSE j - 1
<1> HIDE DEF t
<1>1. t \in Seq(Binding) /\ Len(s) \in Nat /\ DOMAIN s = 1..Len(s) /\ DOMAIN t = 1..(Len(s) + 1)
  BY Inserted DEF t
<1>a. \A j \in 1..(Len(s) + 1) : t[j] = IF j < k THEN s[j] ELSE IF j = k THEN e ELSE s[j - 1]
  BY Inserted DEF t
<1>2. /\ \A j \in DOMAIN t : j # k => old(j) \in DOMAIN s /\ t[j] = s[old(j)]
      /\ t[k] = e
  <2>1. ASSUME NEW j \in DOMAIN t, j # k
        PROVE  old(j) \in DOMAIN s /\ t[j] = s[old(j)]
    <3>1. CASE j < k
      BY <3>1, <1>1, <1>a
    <3>2. CASE j > k
      BY <3>2, <1>1, <1>a
    <3> QED
      BY <3>1, <3>2, <2>1, <1>1
  <2>2. t[k] = e
    BY <1>1, <1>a
  <2> QED
    BY <2>1, <2>2
<1>3. \A i, j \in DOMAIN t : i # k /\ j # k /\ old(i) = old(j) => i = j
  BY <1>1
<1> HIDE DEF old
<1>4. Distinct(t)
  BY <1>2, <1>3 DEF Distinct
<1>5. \A b \in Range(t) : b \in Range(s) \/ b = e
  BY <1>2 DEF Range
<1> QED
  BY <1>1, <1>4, <1>5 DEF t

\* Without the row of an heir: the other rows, and none of his.
LEMMA RowRemoved ==
  ASSUME NEW s \in Seq(Binding), Distinct(s), NEW h
  PROVE  /\ Without(s, h) \in Seq(Binding) /\ Distinct(Without(s, h))
         /\ \A b \in Range(Without(s, h)) : b \in Range(s) /\ b.heir # h
         /\ Without(s, h) # <<>> => s # <<>>
<1>1. CASE \A k \in DOMAIN s : s[k].heir # h
  BY <1>1 DEF Without, Range
<1>2. CASE \E k \in DOMAIN s : s[k].heir = h
  <2> DEFINE k == CHOOSE x \in DOMAIN s : s[x].heir = h
             t == RemoveAt(s, k)
             old(j) == IF j < k THEN j ELSE j + 1
  <2>1. k \in DOMAIN s /\ s[k].heir = h
    BY <1>2
  <2>2. Without(s, h) = t
    BY <1>2 DEF Without
  <2>3. Len(s) \in Nat /\ DOMAIN s = 1..Len(s)
    OBVIOUS
  <2> HIDE DEF k, t
  <2>4. t \in Seq(Binding) /\ DOMAIN t = 1..(Len(s) - 1)
    BY <2>1, <2>3, Removed DEF t
  <2>a. \A j \in 1..(Len(s) - 1) : t[j] = IF j < k THEN s[j] ELSE s[j + 1]
    BY <2>1, <2>3, Removed DEF t
  <2>5. ASSUME NEW j \in DOMAIN t
        PROVE  old(j) \in DOMAIN s /\ old(j) # k /\ t[j] = s[old(j)]
    <3>1. CASE j < k
      BY <3>1, <2>1, <2>3, <2>4, <2>a
    <3>2. CASE ~(j < k)
      BY <3>2, <2>1, <2>3, <2>4, <2>a
    <3> QED
      BY <3>1, <3>2
  <2>6. \A i, j \in DOMAIN t : old(i) = old(j) => i = j
    BY <2>1, <2>3, <2>4
  <2> HIDE DEF old
  <2>7. Distinct(t)
    BY <2>5, <2>6 DEF Distinct
  <2>8. \A b \in Range(t) : b \in Range(s) /\ b.heir # h
    BY <2>1, <2>5 DEF Range, Distinct
  <2>9. s # <<>>
    BY <2>1
  <2> QED
    BY <2>2, <2>4, <2>7, <2>8, <2>9
<1> QED
  BY <1>1, <1>2

\* Nobody twice: as many heirs as rows.
LEMMA RowsAreHeirs ==
  ASSUME NEW s \in Seq(Binding), Distinct(s)
  PROVE  Cardinality({b.heir : b \in Range(s)}) = Len(s)
<1> DEFINE f == [j \in 1..Len(s) |-> s[j].heir]
           T == {b.heir : b \in Range(s)}
<1>1. Len(s) \in Nat /\ DOMAIN s = 1..Len(s)
  OBVIOUS
<1>2. f \in Bijection(1..Len(s), T)
  BY <1>1 DEF Distinct, Range, Bijection, Injection, Surjection, IsInjective
<1>3. IsFiniteSet(1..Len(s)) /\ Cardinality(1..Len(s)) = Len(s)
  BY <1>1, FS_Interval
<1> QED
  BY <1>2, <1>3, FS_Bijection DEF ExistsBijection

------------------------------------------------------------------------------
(* Types *)

\* The rows of one item, from the invariant.
LEMMA Rows ==
  ASSUME RowsOK, NEW i \in Item
  PROVE  /\ bound[i] \in Seq(Binding) /\ Distinct(bound[i])
         /\ Len(bound[i]) \in Nat /\ DOMAIN bound[i] = 1..Len(bound[i])
         /\ \A k \in DOMAIN bound[i] :
              /\ bound[i][k] \in Binding
              /\ bound[i][k].heir \in HeirId /\ bound[i][k].ladder \in LadderId \union {Global}
<1>1. bound[i] \in Seq(Binding) /\ Distinct(bound[i])
  BY DEF RowsOK
<1>2. Len(bound[i]) \in Nat /\ DOMAIN bound[i] = 1..Len(bound[i])
  BY <1>1
<1>3. \A k \in DOMAIN bound[i] : bound[i][k] \in Binding
  BY <1>1
<1> QED
  BY <1>1, <1>2, <1>3 DEF Binding

\* An UPDATE of ladder_id touches nothing else of a row.
LEMMA LadderIsSet ==
  ASSUME RowsOK, NEW P, NEW l \in LadderId \union {Global}, SetLadder(P, l)
  PROVE  /\ RowsOK'
         /\ \A i \in Item :
              /\ DOMAIN bound'[i] = DOMAIN bound[i]
              /\ \A k \in DOMAIN bound[i] :
                   /\ bound'[i][k].heir = bound[i][k].heir
                   /\ <<i, bound[i][k].heir>> \in P => bound'[i][k].ladder = l
                   /\ <<i, bound[i][k].heir>> \notin P => bound'[i][k] = bound[i][k]
<1> DEFINE row(i, k) == IF <<i, bound[i][k].heir>> \in P THEN [bound[i][k] EXCEPT !.ladder = l]
                        ELSE bound[i][k]
           seq(i) == [k \in DOMAIN bound[i] |-> row(i, k)]
<1>1. bound' = [i \in Item |-> seq(i)]
  BY DEF SetLadder
<1>2. ASSUME NEW i \in Item, NEW k \in DOMAIN bound[i]
      PROVE  /\ row(i, k) \in Binding /\ row(i, k).heir = bound[i][k].heir
             /\ <<i, bound[i][k].heir>> \in P => row(i, k).ladder = l
             /\ <<i, bound[i][k].heir>> \notin P => row(i, k) = bound[i][k]
  BY Rows DEF Binding
<1> HIDE DEF row
<1>3. ASSUME NEW i \in Item
      PROVE  /\ bound'[i] \in Seq(Binding) /\ DOMAIN bound'[i] = DOMAIN bound[i]
             /\ \A k \in DOMAIN bound[i] : bound'[i][k] = row(i, k)
  <2>1. bound'[i] = seq(i)
    BY <1>1
  <2>2. Len(bound[i]) \in Nat /\ DOMAIN bound[i] = 1..Len(bound[i])
    BY Rows
  <2>3. seq(i) \in [1..Len(bound[i]) -> Binding]
    BY <2>2, <1>2
  <2>4. seq(i) \in Seq(Binding)
    BY <2>2, <2>3, SeqDef
  <2> QED
    BY <2>1, <2>2, <2>4
<1>4. ASSUME NEW i \in Item
      PROVE  Distinct(bound'[i])
  <2>1. DOMAIN bound'[i] = DOMAIN bound[i] /\ Distinct(bound[i])
    BY <1>3, Rows
  <2>2. \A k \in DOMAIN bound[i] : bound'[i][k].heir = bound[i][k].heir
    BY <1>2, <1>3
  <2> QED
    BY <2>1, <2>2 DEF Distinct
<1>5. bound' = [i \in Item |-> bound'[i]]
  BY <1>1
<1> QED
  BY <1>2, <1>3, <1>4, <1>5 DEF RowsOK

\* A new ladder leaves the others as they were.
LEMMA LadderIsAppended ==
  ASSUME LaddersOK, NEW kind \in {"global", "custom"}, Len(ladders) < MaxLadders,
         ladders' = Append(ladders, kind)
  PROVE  /\ LaddersOK'
         /\ Len(ladders) \in Nat /\ Len(ladders') = Len(ladders) + 1
         /\ DOMAIN ladders = 1..Len(ladders) /\ DOMAIN ladders' = 1..(Len(ladders) + 1)
         /\ \A l \in DOMAIN ladders : ladders'[l] = ladders[l]
         /\ ladders'[Len(ladders) + 1] = kind
<1>1. Len(ladders) \in Nat /\ DOMAIN ladders = 1..Len(ladders)
  BY DEF LaddersOK
<1>2. /\ ladders' \in Seq({"global", "custom", "gone"})
      /\ Len(ladders') = Len(ladders) + 1 /\ DOMAIN ladders' = 1..(Len(ladders) + 1)
  BY <1>1 DEF LaddersOK
<1>3. /\ \A l \in 1..Len(ladders) : ladders'[l] = ladders[l]
      /\ ladders'[Len(ladders) + 1] = kind
  BY <1>1 DEF LaddersOK
<1> QED
  BY <1>1, <1>2, <1>3, BindingsAssumption DEF LaddersOK, BindingsAssumption

\* A ladder that is deleted keeps its place.
LEMMA LadderIsGone ==
  ASSUME LaddersOK, NEW l \in DOMAIN ladders, ladders' = [ladders EXCEPT ![l] = "gone"]
  PROVE  /\ LaddersOK'
         /\ Len(ladders') = Len(ladders) /\ DOMAIN ladders' = DOMAIN ladders
         /\ ladders'[l] = "gone"
         /\ \A m \in DOMAIN ladders : m # l => ladders'[m] = ladders[m]
BY ExceptSeq DEF LaddersOK

\* The ids of ladders are among LadderId.
LEMMA LadderIds ==
  ASSUME LaddersOK
  PROVE  /\ Len(ladders) \in 0..MaxLadders /\ DOMAIN ladders = 1..Len(ladders)
         /\ DOMAIN ladders \subseteq LadderId
BY BindingsAssumption DEF LaddersOK, LadderId, BindingsAssumption

------------------------------------------------------------------------------
(* References *)

\* The part of ReferencesResolve that is about bindings.
RowsResolve ==
  \A i \in Item :
    /\ bound[i] # <<>> => i \in Items
    /\ \A b \in Range(bound[i]) : b.heir \in heirs /\ ValidLadder(b.ladder)

\* The parts of the invariant that speak of rows.
LEMMA InvRows ==
  ASSUME IInv
  PROVE  RowsOK /\ VaultOK /\ HeirsOK /\ LaddersOK /\ ReqOK /\ RowsResolve /\ Items \subseteq Item
BY DEF IInv, RowsResolve, ReferencesResolve, VaultOK, Items, Item

\* Ladders that are added or unchanged are as valid as before.
LEMMA ValidStays ==
  ASSUME \/ UNCHANGED ladders
         \/ LaddersOK /\ LaddersOK' /\ \E k \in {"global", "custom"} :
              ladders' = Append(ladders, k) /\ Len(ladders) < MaxLadders
  PROVE  \A l : ValidLadder(l) => ValidLadder(l)'
<1>1. CASE UNCHANGED ladders
  BY <1>1 DEF ValidLadder, LadderOwned
<1>2. ASSUME LaddersOK, LaddersOK', NEW k \in {"global", "custom"}, Len(ladders) < MaxLadders,
             ladders' = Append(ladders, k)
      PROVE  \A l : ValidLadder(l) => ValidLadder(l)'
  <2>1. /\ \A l \in DOMAIN ladders : l \in DOMAIN ladders' /\ ladders'[l] = ladders[l]
    BY <1>2, LadderIsAppended
  <2> QED
    BY <2>1 DEF ValidLadder, LadderOwned
<1> QED
  BY <1>1, <1>2

\* Rows stay sound when an inheritor is created or deleted.
LEMMA RowsAfterInheritors ==
  ASSUME IInv, CreateInheritor \/ DeleteInheritor \/ PutDefaultInheritor
  PROVE  RowsOK' /\ RowsResolve'
<1> USE InvRows
<1>1. Items' = Items /\ UNCHANGED ladders
  BY DEF CreateInheritor, DeleteInheritor, PutDefaultInheritor, Items, Assets
<1>2. \A l : ValidLadder(l) => ValidLadder(l)'
  BY <1>1, ValidStays
<1>3. CASE CreateInheritor \/ PutDefaultInheritor
  <2>1. bound' = bound /\ heirs \subseteq heirs'
    BY <1>3 DEF CreateInheritor, PutDefaultInheritor
  <2> QED
    BY <2>1, <1>1, <1>2 DEF RowsOK, RowsResolve
<1>4. CASE DeleteInheritor
  <2>1. PICK h \in heirs : heirs' = heirs \ {h} /\ bound' = [i \in Item |-> Without(bound[i], h)]
    BY <1>4 DEF DeleteInheritor
  <2>2. ASSUME NEW i \in Item
        PROVE  /\ bound'[i] \in Seq(Binding) /\ Distinct(bound'[i])
               /\ \A b \in Range(bound'[i]) : b \in Range(bound[i]) /\ b.heir # h
               /\ bound'[i] # <<>> => bound[i] # <<>>
    <3>1. bound'[i] = Without(bound[i], h)
      BY <2>1
    <3> QED
      BY <3>1, Rows, RowRemoved
  <2>3. RowsOK'
    BY <2>1, <2>2 DEF RowsOK
  <2>4. RowsResolve'
    BY <2>1, <2>2, <1>1, <1>2 DEF RowsResolve
  <2> QED
    BY <2>3, <2>4
<1> QED
  BY <1>3, <1>4

\* Rows stay sound when a binding is created: UNIQUE keeps out a second row of an
\* inheritor.
LEMMA RowsAfterCreate ==
  ASSUME IInv, CreateBinding
  PROVE  RowsOK' /\ RowsResolve'
<1> USE InvRows
<1>1. PICK i \in Items \intersect BoundItem, h \in heirs, l \in LadderId \union {Global} :
        /\ ValidLadder(l) /\ h \notin HeirsOf(i)
        /\ \E k \in 1..(Len(bound[i]) + 1) :
             bound' = [bound EXCEPT ![i] = InsertAt(@, k, [heir |-> h, ladder |-> l])]
        /\ UNCHANGED <<category, categories, heirs, ladders>>
  BY DEF CreateBinding
<1>2. PICK k \in 1..(Len(bound[i]) + 1) :
        bound' = [bound EXCEPT ![i] = InsertAt(@, k, [heir |-> h, ladder |-> l])]
  BY <1>1
<1> DEFINE e == [heir |-> h, ladder |-> l]
<1>3. i \in Item /\ e \in Binding
  BY BindingsAssumption DEF Binding, HeirsOK, HeirId, BindingsAssumption
<1>4. \A j \in DOMAIN bound[i] : bound[i][j].heir # e.heir
  BY <1>1 DEF HeirsOf, Range
<1>5. /\ bound'[i] = InsertAt(bound[i], k, e)
      /\ \A x \in Item : x # i => bound'[x] = bound[x]
      /\ bound' = [x \in Item |-> bound'[x]]
  BY <1>2, <1>3 DEF RowsOK
<1>h. e.heir = h /\ e.ladder = l
  OBVIOUS
<1> HIDE DEF e
<1>6. /\ bound'[i] \in Seq(Binding) /\ Distinct(bound'[i])
      /\ \A b \in Range(bound'[i]) : b \in Range(bound[i]) \/ b = e
  BY <1>3, <1>4, <1>5, Rows, RowInserted
<1>7. RowsOK'
  BY <1>5, <1>6 DEF RowsOK
<1>8. Items' = Items /\ heirs' = heirs /\ \A m : ValidLadder(m) => ValidLadder(m)'
  BY <1>1, ValidStays DEF Items, Assets
<1>9. ASSUME NEW x \in Item
      PROVE  /\ bound'[x] # <<>> => x \in Items'
             /\ \A b \in Range(bound'[x]) : b.heir \in heirs' /\ ValidLadder(b.ladder)'
  <2>1. CASE x = i
    BY <2>1, <1>1, <1>6, <1>8, <1>3, <1>h DEF RowsResolve
  <2>2. CASE x # i
    BY <2>2, <1>5, <1>8 DEF RowsResolve
  <2> QED
    BY <2>1, <2>2
<1> QED
  BY <1>7, <1>9 DEF RowsResolve

\* Rows stay sound when a binding is deleted.
LEMMA RowsAfterDelete ==
  ASSUME IInv, DeleteBinding
  PROVE  RowsOK' /\ RowsResolve'
<1> USE InvRows
<1>0. PICK i \in Items : \E h \in HeirsOf(i) :
        /\ bound' = [bound EXCEPT ![i] = Without(@, h)]
        /\ UNCHANGED <<category, categories, heirs, ladders>>
  BY DEF DeleteBinding
<1>1. PICK h \in HeirsOf(i) : /\ bound' = [bound EXCEPT ![i] = Without(@, h)]
                              /\ UNCHANGED <<category, categories, heirs, ladders>>
  BY <1>0
<1>2. /\ i \in Item /\ bound'[i] = Without(bound[i], h)
      /\ \A x \in Item : x # i => bound'[x] = bound[x]
      /\ bound' = [x \in Item |-> bound'[x]]
  BY <1>1 DEF RowsOK
<1>3. /\ bound'[i] \in Seq(Binding) /\ Distinct(bound'[i])
      /\ \A b \in Range(bound'[i]) : b \in Range(bound[i])
      /\ bound'[i] # <<>> => bound[i] # <<>>
  BY <1>2, Rows, RowRemoved
<1>4. RowsOK'
  BY <1>2, <1>3 DEF RowsOK
<1>5. Items' = Items /\ heirs' = heirs /\ \A m : ValidLadder(m) => ValidLadder(m)'
  BY <1>1, ValidStays DEF Items, Assets
<1>6. ASSUME NEW x \in Item
      PROVE  /\ bound'[x] # <<>> => x \in Items'
             /\ \A b \in Range(bound'[x]) : b.heir \in heirs' /\ ValidLadder(b.ladder)'
  BY <1>2, <1>3, <1>5 DEF RowsResolve
<1> QED
  BY <1>4, <1>6 DEF RowsResolve

\* A row is named by LadderBindings when it names that ladder.
LEMMA BindingsOfLadder ==
  ASSUME IInv, NEW l \in DOMAIN ladders, ladders[l] # "global",
         NEW i \in Item, NEW k \in DOMAIN bound[i]
  PROVE  <<i, bound[i][k].heir>> \in LadderBindings(l) <=> bound[i][k].ladder = l
<1> USE InvRows
<1>1. i \in Items /\ bound[i][k].heir \in HeirId
  <2>1. bound[i] # <<>>
    OBVIOUS
  <2> QED
    BY <2>1, Rows DEF RowsResolve
<1>2. <<i, bound[i][k].heir>> \in LadderBindings(l) <=>
        \E j \in DOMAIN bound[i] : bound[i][j].heir = bound[i][k].heir /\ bound[i][j].ladder = l
  BY <1>1 DEF LadderBindings, Range
<1>3. \A j \in DOMAIN bound[i] : bound[i][j].heir = bound[i][k].heir => j = k
  BY Rows DEF Distinct
<1> QED
  BY <1>2, <1>3

\* Setting a ladder keeps the references, where it is there.
LEMMA ResolveAfterSet ==
  ASSUME IInv, NEW P, NEW l \in LadderId \union {Global}, SetLadder(P, l),
         UNCHANGED <<category, categories, heirs>>, ValidLadder(l)',
         \A i \in Item : \A k \in DOMAIN bound[i] : \A m :
           <<i, bound[i][k].heir>> \notin P /\ m = bound[i][k].ladder => ValidLadder(m)'
  PROVE  RowsOK' /\ RowsResolve'
<1> USE InvRows
<1>1. /\ RowsOK'
      /\ \A i \in Item :
           /\ DOMAIN bound'[i] = DOMAIN bound[i]
           /\ \A k \in DOMAIN bound[i] :
                /\ bound'[i][k].heir = bound[i][k].heir
                /\ <<i, bound[i][k].heir>> \in P => bound'[i][k].ladder = l
                /\ <<i, bound[i][k].heir>> \notin P => bound'[i][k] = bound[i][k]
  BY LadderIsSet
<1>2. Items' = Items /\ heirs' = heirs
  BY DEF Items, Assets
<1>3. ASSUME NEW i \in Item, bound'[i] # <<>>
      PROVE  i \in Items
  <2>1. Len(bound'[i]) = Len(bound[i])
    BY <1>1
  <2>2. bound[i] # <<>>
    BY <2>1, <1>1, <1>3, Rows, EmptySeq DEF RowsOK
  <2> QED
    BY <2>2 DEF RowsResolve
<1>4. ASSUME NEW i \in Item, NEW k \in DOMAIN bound[i], NEW m, m = bound'[i][k].ladder
      PROVE  bound'[i][k].heir \in heirs /\ ValidLadder(m)'
  <2>0. bound[i][k].heir \in heirs
    BY DEF RowsResolve, Range
  <2>1. bound'[i][k].heir \in heirs
    BY <2>0, <1>1
  <2>2. CASE <<i, bound[i][k].heir>> \in P
    <3>1. m = l
      BY <2>2, <1>1, <1>4
    <3> QED
      BY <2>1, <3>1
  <2>3. CASE <<i, bound[i][k].heir>> \notin P
    <3>1. m = bound[i][k].ladder
      BY <2>3, <1>1, <1>4
    <3> QED
      BY <2>1, <2>3, <3>1
  <2> QED
    BY <2>2, <2>3
<1>5. \A i \in Item : \A b \in Range(bound'[i]) : b.heir \in heirs' /\ ValidLadder(b.ladder)'
  BY <1>1, <1>2, <1>4 DEF Range
<1> QED
  BY <1>1, <1>2, <1>3, <1>5 DEF RowsResolve

\* Rows stay sound when they change their ladder.
LEMMA RowsAfterSet ==
  ASSUME IInv, UpdateBindingLadder \/ DeleteLadder \/ \E r \in Request : UnbindUpdates(r)
  PROVE  RowsOK' /\ RowsResolve'
<1> USE InvRows
<1>1. \A i \in Item : \A k \in DOMAIN bound[i] : ValidLadder(bound[i][k].ladder)
  BY DEF RowsResolve, Range
<1>2. CASE UpdateBindingLadder
  <2>1. PICK i \in Items, l \in LadderId \union {Global} :
          /\ ValidLadder(l) /\ \E h \in HeirsOf(i) : SetLadder({<<i, h>>}, l)
          /\ UNCHANGED <<category, categories, heirs, ladders>>
    BY <1>2 DEF UpdateBindingLadder
  <2>2. PICK h \in HeirsOf(i) : SetLadder({<<i, h>>}, l)
    BY <2>1
  <2>3. \A m : ValidLadder(m) => ValidLadder(m)'
    BY <2>1, ValidStays
  <2> QED
    BY <2>1, <2>2, <2>3, <1>1, ResolveAfterSet
<1>3. CASE DeleteLadder
  <2>1. PICK l \in CustomLadders :
          /\ ladders' = [ladders EXCEPT ![l] = "gone"] /\ SetLadder(LadderBindings(l), Global)
          /\ UNCHANGED <<category, categories, heirs>>
    BY <1>3 DEF DeleteLadder
  <2>2. l \in DOMAIN ladders /\ ladders[l] = "custom"
    BY DEF CustomLadders
  <2>3. /\ DOMAIN ladders' = DOMAIN ladders
        /\ \A m \in DOMAIN ladders : m # l => ladders'[m] = ladders[m]
    BY <2>1, <2>2, LadderIsGone
  <2>4. ASSUME NEW i \in Item, NEW k \in DOMAIN bound[i],
               <<i, bound[i][k].heir>> \notin LadderBindings(l)
        PROVE  \A m : m = bound[i][k].ladder => ValidLadder(m)'
    <3>1. bound[i][k].ladder # l
      BY <2>2, <2>4, BindingsOfLadder
    <3>2. ValidLadder(bound[i][k].ladder)
      BY <1>1
    <3> QED
      BY <3>1, <3>2, <2>3 DEF ValidLadder, LadderOwned
  <2>5. ValidLadder(Global)'
    BY DEF ValidLadder
  <2> QED
    BY <2>1, <2>4, <2>5, ResolveAfterSet
<1>4. CASE \E r \in Request : UnbindUpdates(r)
  <2>1. PICK r \in Request : /\ SetLadder(Unbind(r), Global)
                             /\ UNCHANGED <<category, categories, heirs, ladders>>
    BY <1>4 DEF UnbindUpdates
  <2>2. \A m : ValidLadder(m) => ValidLadder(m)'
    BY <2>1, ValidStays
  <2>3. ValidLadder(Global)'
    BY DEF ValidLadder
  <2> QED
    BY <2>1, <2>2, <2>3, <1>1, ResolveAfterSet
<1> QED
  BY <1>2, <1>3, <1>4

\* Rows stay sound when a ladder is added, or only looked at.
LEMMA RowsAfterLadders ==
  ASSUME IInv, \/ CreateLadder
               \/ \E r \in Request : EnsureLooks(r) \/ EnsureInserts(r) \/ UnbindReads(r)
  PROVE  RowsOK' /\ RowsResolve'
<1> USE InvRows
<1>1. UNCHANGED <<category, categories, heirs, bound>>
  BY DEF CreateLadder, EnsureLooks, EnsureInserts, UnbindReads
<1>2. \/ UNCHANGED ladders
      \/ \E k \in {"global", "custom"} : ladders' = Append(ladders, k) /\ Len(ladders) < MaxLadders
  BY DEF CreateLadder, EnsureLooks, EnsureInserts, UnbindReads
<1>3. LaddersOK'
  <2>1. CASE UNCHANGED ladders
    BY <2>1 DEF LaddersOK
  <2>2. CASE \E k \in {"global", "custom"} : ladders' = Append(ladders, k) /\ Len(ladders) < MaxLadders
    BY <2>2, LadderIsAppended
  <2> QED
    BY <1>2, <2>1, <2>2
<1>4. \A m : ValidLadder(m) => ValidLadder(m)'
  BY <1>2, <1>3, ValidStays
<1>5. Items' = Items
  BY <1>1 DEF Items, Assets
<1> QED
  BY <1>1, <1>4, <1>5 DEF RowsOK, RowsResolve

\* Rows stay sound when an asset is moved, or an item purged.
LEMMA RowsAfterVault ==
  ASSUME IInv, MoveAsset \/ PurgeAsset \/ PurgeCategory
  PROVE  RowsOK' /\ RowsResolve'
<1> USE InvRows
<1>1. UNCHANGED <<heirs, ladders>>
  BY DEF MoveAsset, PurgeAsset, PurgeCategory
<1>2. \A m : ValidLadder(m) => ValidLadder(m)'
  BY <1>1, ValidStays
<1>3. CASE MoveAsset
  <2>1. bound' = bound /\ Items' = Items
    BY <1>3 DEF MoveAsset, Items, Assets
  <2> QED
    BY <2>1, <1>1, <1>2 DEF RowsOK, RowsResolve
<1>4. ASSUME NEW p \in Item, bound' = [bound EXCEPT ![p] = <<>>], Items \ {p} \subseteq Items'
      PROVE  RowsOK' /\ RowsResolve'
  <2>1. /\ bound'[p] = <<>> /\ \A x \in Item : x # p => bound'[x] = bound[x]
        /\ bound' = [x \in Item |-> bound'[x]]
    BY <1>4 DEF RowsOK
  <2>2. <<>> \in Seq(Binding) /\ Distinct(<<>>) /\ Range(<<>>) = {}
    BY DEF Distinct, Range
  <2>3. RowsOK'
    BY <2>1, <2>2 DEF RowsOK
  <2>4. ASSUME NEW x \in Item
        PROVE  /\ bound'[x] # <<>> => x \in Items'
               /\ \A b \in Range(bound'[x]) : b.heir \in heirs' /\ ValidLadder(b.ladder)'
    <3>1. CASE x = p
      BY <3>1, <2>1, <2>2
    <3>2. CASE x # p
      BY <3>2, <2>1, <1>1, <1>2, <1>4 DEF RowsResolve
    <3> QED
      BY <3>1, <3>2
  <2> QED
    BY <2>3, <2>4 DEF RowsResolve
<1>5. CASE PurgeAsset
  <2>1. PICK a \in Assets : /\ category' = [x \in Assets \ {a} |-> category[x]]
                            /\ bound' = [bound EXCEPT ![a] = <<>>] /\ categories' = categories
    BY <1>5 DEF PurgeAsset
  <2>2. a \in Item /\ Items \ {a} \subseteq Items'
    BY <2>1 DEF Items, Assets, Item, VaultOK
  <2> QED
    BY <2>1, <2>2, <1>4
<1>6. CASE PurgeCategory
  <2>1. PICK c \in categories :
          /\ categories' = categories \ {c}
          /\ category' = [a \in Assets |-> IF category[a] = c THEN None ELSE category[a]]
          /\ bound' = [bound EXCEPT ![c] = <<>>]
    BY <1>6 DEF PurgeCategory
  <2>2. c \in Item /\ Items \ {c} \subseteq Items'
    BY <2>1 DEF Items, Assets, Item, VaultOK
  <2> QED
    BY <2>1, <2>2, <1>4
<1> QED
  BY <1>3, <1>5, <1>6

\* Every step keeps the rows sound.
LEMMA RowsKept ==
  ASSUME IInv, [Next]_vars
  PROVE  RowsOK' /\ RowsResolve'
<1>1. CASE UNCHANGED vars
  BY <1>1, InvRows DEF vars, RowsOK, RowsResolve, Items, Assets, ValidLadder, LadderOwned
<1> QED
  BY <1>1, RowsAfterInheritors, RowsAfterCreate, RowsAfterDelete, RowsAfterSet,
     RowsAfterLadders, RowsAfterVault DEF Next

------------------------------------------------------------------------------
(* The other parts of the invariant *)

\* Assets and categories, and that the ones an asset refers to are there.
LEMMA VaultKept ==
  ASSUME IInv, [Next]_vars
  PROVE  VaultOK' /\ (\A a \in Assets : category[a] \in categories \union {None})'
<1> USE InvRows
<1>1. \A a \in Assets : category[a] \in categories \union {None}
  BY DEF IInv, ReferencesResolve
<1>2. CASE MoveAsset
  <2>1. PICK a \in Assets, c \in categories \union {None} :
          category' = [category EXCEPT ![a] = c] /\ categories' = categories
    BY <1>2 DEF MoveAsset
  <2>2. /\ Assets' = Assets /\ category'[a] = c
        /\ \A x \in Assets : x # a => category'[x] = category[x]
        /\ category' = [x \in Assets |-> category'[x]]
    BY <2>1 DEF Assets, VaultOK
  <2> QED
    BY <2>1, <2>2, <1>1 DEF VaultOK
<1>3. CASE PurgeAsset
  <2>1. PICK a \in Assets : category' = [x \in Assets \ {a} |-> category[x]] /\ categories' = categories
    BY <1>3 DEF PurgeAsset
  <2>2. /\ Assets' = Assets \ {a} /\ \A x \in Assets \ {a} : category'[x] = category[x]
        /\ category' = [x \in Assets \ {a} |-> category'[x]]
    BY <2>1 DEF Assets
  <2> QED
    BY <2>1, <2>2, <1>1 DEF VaultOK
<1>4. CASE PurgeCategory
  <2>1. PICK c \in categories :
          /\ categories' = categories \ {c}
          /\ category' = [a \in Assets |-> IF category[a] = c THEN None ELSE category[a]]
    BY <1>4 DEF PurgeCategory
  <2>2. /\ Assets' = Assets /\ category' = [x \in Assets |-> category'[x]]
        /\ \A x \in Assets : category'[x] \in categories' \union {None}
    BY <2>1, <1>1 DEF Assets
  <2> QED
    BY <2>1, <2>2 DEF VaultOK
<1>5. CASE UNCHANGED <<category, categories>>
  BY <1>5, <1>1 DEF VaultOK, Assets
<1>6. MoveAsset \/ PurgeAsset \/ PurgeCategory \/ UNCHANGED <<category, categories>>
  BY DEF Next, vars, CreateInheritor, DeleteInheritor, PutDefaultInheritor, CreateBinding,
         DeleteBinding, UpdateBindingLadder, CreateLadder, DeleteLadder, EnsureLooks,
         EnsureInserts, UnbindReads, UnbindUpdates
<1> QED
  BY <1>2, <1>3, <1>4, <1>5, <1>6

\* Inheritors, and that the default one is there.
LEMMA HeirsKept ==
  ASSUME IInv, [Next]_vars
  PROVE  HeirsOK' /\ (default \in heirs \union {NoHeir})'
<1> USE InvRows, BindingsAssumption
<1>1. default \in heirs \union {NoHeir}
  BY DEF IInv, ReferencesResolve
<1>2. CASE CreateInheritor
  BY <1>1, <1>2 DEF CreateInheritor, HeirsOK, BindingsAssumption
<1>3. CASE DeleteInheritor
  <2>1. PICK h \in heirs : h # default /\ heirs' = heirs \ {h} /\ UNCHANGED <<heirRows, default>>
    BY <1>3 DEF DeleteInheritor
  <2> QED
    BY <2>1, <1>1 DEF HeirsOK
<1>4. CASE PutDefaultInheritor
  BY <1>4 DEF PutDefaultInheritor, HeirsOK
<1>5. CASE UNCHANGED <<heirs, heirRows, default>>
  BY <1>1, <1>5 DEF HeirsOK
<1>6. CreateInheritor \/ DeleteInheritor \/ PutDefaultInheritor \/ UNCHANGED <<heirs, heirRows, default>>
  BY DEF Next, vars, CreateBinding, DeleteBinding, UpdateBindingLadder, CreateLadder, DeleteLadder,
         EnsureLooks, EnsureInserts, UnbindReads, UnbindUpdates, MoveAsset, PurgeAsset, PurgeCategory
<1> QED
  BY <1>2, <1>3, <1>4, <1>5, <1>6

\* What may happen to the table of ladders.
LEMMA LadderSteps ==
  ASSUME [Next]_vars
  PROVE  \/ UNCHANGED ladders
         \/ CreateLadder
         \/ DeleteLadder
         \/ \E r \in Request : EnsureInserts(r)
BY DEF Next, vars, CreateInheritor, DeleteInheritor, PutDefaultInheritor, CreateBinding,
       DeleteBinding, UpdateBindingLadder, EnsureLooks, UnbindReads, UnbindUpdates,
       MoveAsset, PurgeAsset, PurgeCategory

\* Ids of ladders are never given twice, and a ladder becomes global when it is
\* made, or never.
LEMMA LaddersKept ==
  ASSUME IInv, [Next]_vars
  PROVE  /\ LaddersOK'
         /\ Len(ladders') >= Len(ladders)
         /\ \A l \in DOMAIN ladders : l \in DOMAIN ladders' /\ (ladders'[l] = "global" => ladders[l] = "global")
<1> USE InvRows
<1>1. CASE UNCHANGED ladders
  BY <1>1, LadderIds DEF LaddersOK
<1>2. CASE \E k \in {"global", "custom"} : ladders' = Append(ladders, k) /\ Len(ladders) < MaxLadders
  BY <1>2, LadderIsAppended
<1>3. CASE DeleteLadder
  <2>1. PICK l \in DOMAIN ladders : ladders' = [ladders EXCEPT ![l] = "gone"]
    BY <1>3 DEF DeleteLadder, CustomLadders
  <2>2. /\ LaddersOK' /\ Len(ladders') = Len(ladders) /\ DOMAIN ladders' = DOMAIN ladders
        /\ ladders'[l] = "gone" /\ \A m \in DOMAIN ladders : m # l => ladders'[m] = ladders[m]
    BY <2>1, LadderIsGone
  <2>3. Len(ladders) \in 0..MaxLadders
    BY LadderIds
  <2> QED
    BY <2>2, <2>3
<1> QED
  BY <1>1, <1>2, <1>3, LadderSteps DEF CreateLadder, EnsureInserts

\* What may happen to one request.
ReqStep(r) ==
  \/ req'[r] = NoReq
  \/ \E on \in SUBSET req[r].on :
       req'[r] = [step |-> req[r].step, ladder |-> req[r].ladder, on |-> on, seen |-> req[r].seen]
  \/ req'[r] = [step |-> "insert", ladder |-> Global, on |-> {}, seen |-> Len(ladders)]
     /\ GlobalLadders = {} /\ UNCHANGED ladders
  \/ /\ \E l \in CustomLadders : \E P \in SUBSET (Item \X HeirId) :
          req'[r] = [step |-> "update", ladder |-> l, on |-> P, seen |-> 0]
     /\ UNCHANGED ladders

\* What a step may do to a request.
LEMMA ReqSteps ==
  ASSUME IInv, [Next]_vars
  PROVE  /\ \A r \in Request : ReqStep(r)
         /\ req' = [r \in Request |-> req'[r]]
<1> USE InvRows
<1>0. req = [r \in Request |-> req[r]]
  BY DEF ReqOK
<1>a. \A r \in Request :
        req[r] = [step |-> req[r].step, ladder |-> req[r].ladder, on |-> req[r].on, seen |-> req[r].seen]
  BY DEF ReqOK
<1>b. \A r \in Request : req'[r] = req[r] => ReqStep(r)
  BY <1>a DEF ReqStep
<1>1. CASE UNCHANGED req
  BY <1>0, <1>1, <1>b
<1>2. ASSUME NEW P, Forget(P)
      PROVE  (\A r \in Request : ReqStep(r)) /\ req' = [r \in Request |-> req'[r]]
  <2>1. ASSUME NEW r \in Request
        PROVE  ReqStep(r)
    <3>1. req'[r] = [req[r] EXCEPT !.on = @ \ P]
      BY <1>2 DEF Forget
    <3>2. req'[r] = [step |-> req[r].step, ladder |-> req[r].ladder, on |-> req[r].on \ P,
                     seen |-> req[r].seen]
      BY <3>1, <1>a
    <3> QED
      BY <3>2 DEF ReqStep
  <2> QED
    BY <2>1, <1>2 DEF Forget
<1>3. ASSUME NEW r \in Request, NEW v, req' = [req EXCEPT ![r] = v]
      PROVE  /\ req' = [q \in Request |-> req'[q]] /\ req'[r] = v
             /\ \A q \in Request : q # r => req'[q] = req[q]
  BY <1>3, <1>0
<1>4. ASSUME NEW r \in Request, Answer(r)
      PROVE  (\A q \in Request : ReqStep(q)) /\ req' = [q \in Request |-> req'[q]]
  <2>1. /\ req' = [q \in Request |-> req'[q]] /\ req'[r] = NoReq
        /\ \A q \in Request : q # r => req'[q] = req[q]
    BY <1>3, <1>4 DEF Answer
  <2>2. ReqStep(r)
    BY <2>1 DEF ReqStep
  <2> QED
    BY <2>1, <2>2, <1>b
<1>5. ASSUME NEW r \in Request, EnsureLooks(r)
      PROVE  (\A q \in Request : ReqStep(q)) /\ req' = [q \in Request |-> req'[q]]
  <2> DEFINE v == [step |-> "insert", ladder |-> Global, on |-> {}, seen |-> Len(ladders)]
  <2>0. ASSUME NEW w, w = [NoReq EXCEPT !.step = "insert", !.seen = Len(ladders)]
        PROVE  w = v
    BY <2>0 DEF NoReq
  <2>1. req' = [req EXCEPT ![r] = v] /\ GlobalLadders = {} /\ UNCHANGED ladders
    BY <1>5, <2>0 DEF EnsureLooks
  <2> HIDE DEF v
  <2>2. /\ req' = [q \in Request |-> req'[q]] /\ req'[r] = v
        /\ \A q \in Request : q # r => req'[q] = req[q]
    BY <2>1, <1>3
  <2>3. ReqStep(r)
    BY <2>1, <2>2 DEF ReqStep, v
  <2> QED
    BY <2>2, <2>3, <1>b
<1>6. ASSUME NEW r \in Request, UnbindReads(r)
      PROVE  (\A q \in Request : ReqStep(q)) /\ req' = [q \in Request |-> req'[q]]
  <2>1. PICK l \in CustomLadders :
          \E P \in SUBSET {p \in (Items \intersect LadderItem) \X heirs : p[2] \in HeirsOf(p[1])} :
            req' = [req EXCEPT ![r] = [NoReq EXCEPT !.step = "update", !.ladder = l, !.on = P]]
            /\ UNCHANGED ladders
    BY <1>6 DEF UnbindReads
  <2>2. PICK P \in SUBSET {p \in (Items \intersect LadderItem) \X heirs : p[2] \in HeirsOf(p[1])} :
          req' = [req EXCEPT ![r] = [NoReq EXCEPT !.step = "update", !.ladder = l, !.on = P]]
          /\ UNCHANGED ladders
    BY <2>1
  <2>3. heirs \subseteq HeirId
    BY BindingsAssumption DEF HeirsOK, HeirId, BindingsAssumption
  <2>4. P \in SUBSET (Item \X HeirId)
    BY <2>3
  <2> DEFINE v == [step |-> "update", ladder |-> l, on |-> P, seen |-> 0]
  <2>a. ASSUME NEW w, w = [NoReq EXCEPT !.step = "update", !.ladder = l, !.on = P]
        PROVE  w = v
    BY <2>a DEF NoReq
  <2>5. [NoReq EXCEPT !.step = "update", !.ladder = l, !.on = P] = v
    BY <2>a
  <2>6. req' = [req EXCEPT ![r] = v]
    BY <2>2, <2>5
  <2> HIDE DEF v
  <2>7. /\ req' = [q \in Request |-> req'[q]] /\ req'[r] = v
        /\ \A q \in Request : q # r => req'[q] = req[q]
    BY <2>6, <1>3
  <2>8. ReqStep(r)
    BY <2>2, <2>4, <2>7 DEF ReqStep, v
  <2> QED
    BY <2>7, <2>8, <1>b
<1> QED
  <2>1. \/ UNCHANGED req
        \/ \E P : Forget(P)
        \/ \E r \in Request : Answer(r) \/ EnsureLooks(r) \/ UnbindReads(r)
    BY DEF Next, vars, CreateInheritor, DeleteInheritor, PutDefaultInheritor, CreateBinding,
           DeleteBinding, UpdateBindingLadder, CreateLadder, DeleteLadder, EnsureInserts,
           UnbindUpdates, MoveAsset, PurgeAsset, PurgeCategory
  <2> QED
    BY <2>1, <1>1, <1>2, <1>4, <1>5, <1>6

\* The requests keep their types and what they know of the ladders.
LEMMA ReqKept ==
  ASSUME IInv, [Next]_vars
  PROVE  ReqOK' /\ NoneWasGlobal' /\ UnbindsCustom'
<1> USE InvRows
<1>1. /\ LaddersOK' /\ Len(ladders') >= Len(ladders)
      /\ \A l \in DOMAIN ladders : l \in DOMAIN ladders' /\ (ladders'[l] = "global" => ladders[l] = "global")
  BY LaddersKept
<1>2. /\ Len(ladders) \in 0..MaxLadders /\ DOMAIN ladders = 1..Len(ladders)
      /\ DOMAIN ladders \subseteq LadderId
  BY LadderIds
<1>a. Len(ladders') \in 0..MaxLadders
  BY <1>1, BindingsAssumption DEF LaddersOK, BindingsAssumption
<1> DEFINE Types(v) == v \in [step : {"idle", "insert", "update"}, ladder : LadderId \union {Global},
                              on : SUBSET (Item \X HeirId), seen : 0..MaxLadders]
           Seen(v) == v.step = "insert" => /\ v.seen <= Len(ladders')
                                           /\ \A l \in 1..v.seen : ladders'[l] # "global"
           Custom(v) == v.step = "update" => v.ladder \in DOMAIN ladders' /\ ladders'[v.ladder] # "global"
<1>3. ASSUME NEW r \in Request
      PROVE  Types(req'[r]) /\ Seen(req'[r]) /\ Custom(req'[r])
  <2>0. Types(req[r]) /\ 0 \in 0..MaxLadders
    BY BindingsAssumption DEF ReqOK, BindingsAssumption
  <2>1. /\ req[r].step = "insert" => /\ req[r].seen <= Len(ladders)
                                     /\ \A l \in 1..req[r].seen : ladders[l] # "global"
        /\ req[r].step = "update" => req[r].ladder \in DOMAIN ladders /\ ladders[req[r].ladder] # "global"
    BY DEF IInv, NoneWasGlobal, UnbindsCustom, At
  <2>2. CASE req'[r] = NoReq
    BY <2>0, <2>2 DEF NoReq
  <2>3. ASSUME NEW on \in SUBSET req[r].on,
               req'[r] = [step |-> req[r].step, ladder |-> req[r].ladder, on |-> on, seen |-> req[r].seen]
        PROVE  Types(req'[r]) /\ Seen(req'[r]) /\ Custom(req'[r])
    <3>1. Types(req'[r])
      BY <2>0, <2>3
    <3>2. Seen(req'[r])
      <4>1. req'[r].step = req[r].step /\ req'[r].seen = req[r].seen /\ req[r].seen \in 0..MaxLadders
        BY <2>0, <2>3
      <4>2. req[r].step = "insert" => 1..req[r].seen \subseteq DOMAIN ladders
        BY <4>1, <2>1, <1>2
      <4> QED
        BY <4>1, <4>2, <2>1, <1>1, <1>2, <1>a
    <3>3. Custom(req'[r])
      BY <2>1, <2>3, <1>1
    <3> QED
      BY <3>1, <3>2, <3>3
  <2>4. CASE /\ req'[r] = [step |-> "insert", ladder |-> Global, on |-> {}, seen |-> Len(ladders)]
             /\ GlobalLadders = {} /\ UNCHANGED ladders
    BY <2>0, <2>4, <1>2 DEF GlobalLadders
  <2>5. CASE /\ \E l \in CustomLadders : \E P \in SUBSET (Item \X HeirId) :
                  req'[r] = [step |-> "update", ladder |-> l, on |-> P, seen |-> 0]
             /\ UNCHANGED ladders
    BY <2>0, <2>5, <1>2 DEF CustomLadders
  <2> QED
    BY <2>2, <2>3, <2>4, <2>5, ReqSteps DEF ReqStep
<1>4. req' = [r \in Request |-> req'[r]]
  BY ReqSteps
<1> QED
  BY <1>3, <1>4 DEF ReqOK, NoneWasGlobal, UnbindsCustom, At

------------------------------------------------------------------------------
(* The theorems *)

\* The initial state satisfies the inductive invariant.
LEMMA InitInv == Init => IInv
<1> SUFFICES ASSUME Init PROVE IInv
  OBVIOUS
<1>1. Assets = Asset /\ Items = Item
  BY DEF Init, Assets, Items, Item
<1>2. VaultOK /\ HeirsOK /\ LaddersOK
  BY <1>1, BindingsAssumption DEF Init, VaultOK, HeirsOK, LaddersOK, BindingsAssumption
<1>3. <<>> \in Seq(Binding) /\ Distinct(<<>>) /\ Range(<<>>) = {}
  BY DEF Distinct, Range
<1>4. RowsOK /\ ReferencesResolve
  BY <1>1, <1>3 DEF Init, RowsOK, ReferencesResolve
<1>5. ReqOK /\ NoneWasGlobal /\ UnbindsCustom
  BY BindingsAssumption DEF Init, ReqOK, NoneWasGlobal, UnbindsCustom, At, NoReq, BindingsAssumption
<1> QED
  BY <1>2, <1>4, <1>5 DEF IInv

\* Each step preserves it.
LEMMA StepInv == IInv /\ [Next]_vars => IInv'
<1> SUFFICES ASSUME IInv, [Next]_vars PROVE IInv'
  OBVIOUS
<1>1. RowsOK' /\ RowsResolve'
  BY RowsKept
<1>2. VaultOK' /\ (\A a \in Assets : category[a] \in categories \union {None})'
  BY VaultKept
<1>3. HeirsOK' /\ (default \in heirs \union {NoHeir})'
  BY HeirsKept
<1>4. ReferencesResolve'
  BY <1>1, <1>2, <1>3 DEF RowsResolve, ReferencesResolve
<1> QED
  BY <1>1, <1>2, <1>3, <1>4, LaddersKept, ReqKept DEF IInv

\* The inductive invariant, on which the theorems below rest: whatever requests
\* interleave, rows and references of the bindings stay sound.
THEOREM Inductive == Spec => []IInv
BY InitInv, StepInv, PTL DEF Spec

\* What follows from it in one state.
LEMMA Implied == IInv => TypeOK /\ NoHeirTwice
<1> SUFFICES ASSUME IInv PROVE TypeOK /\ NoHeirTwice
  OBVIOUS
<1> USE InvRows
<1>1. ASSUME NEW i \in Item
      PROVE  IsInjective(bound[i]) /\ Range(bound[i]) \subseteq Binding
  BY Rows DEF Distinct, IsInjective, Range
<1>2. default \in HeirId \union {NoHeir}
  <2>1. default \in heirs \union {NoHeir} /\ heirRows \in 0..MaxHeirs /\ heirs \subseteq 1..heirRows
    BY DEF IInv, ReferencesResolve, HeirsOK
  <2>2. heirs \subseteq HeirId
    BY <2>1, BindingsAssumption DEF HeirId, BindingsAssumption
  <2> QED
    BY <2>1, <2>2
<1>3. Range(ladders) \subseteq {"global", "custom", "gone"}
  BY DEF LaddersOK, Range
<1>4. TypeOK
  BY <1>1, <1>2, <1>3 DEF TypeOK, VaultOK, HeirsOK, LaddersOK, ReqOK, RowsOK
<1>5. NoHeirTwice
  <2>1. ASSUME NEW i \in Item
        PROVE  Cardinality(HeirsOf(i)) = Len(bound[i])
    BY Rows, RowsAreHeirs DEF HeirsOf
  <2> QED
    BY <2>1 DEF NoHeirTwice
<1> QED
  BY <1>4, <1>5

\* The rows of assets, bindings, ladders and requests keep their types.
THEOREM TypeCorrect == Spec => []TypeOK
BY Inductive, Implied, PTL

\* ReferencesResolve: an event can always name its heir, whatever is deleted
\* while a binding is being made.
THEOREM References == Spec => []ReferencesResolve
<1>1. IInv => ReferencesResolve
  BY DEF IInv
<1> QED
  BY <1>1, Inductive, PTL

\* NoHeirTwice: nobody is bound twice to one item.
THEOREM HeirsDiffer == Spec => []NoHeirTwice
BY Inductive, Implied, PTL

\* TwoGlobalsOnlyByOverlap: a second global ladder comes only of two requests
\* that overlap.
THEOREM TwoGlobals == Spec => TwoGlobalsOnlyByOverlap
<1> DEFINE A == \A l \in DOMAIN ladders' \ DOMAIN ladders :
                  ladders'[l] = "global" /\ GlobalLadders # {} =>
                    \E r \in Request : At(r, "insert") /\ req[r].seen < Len(ladders)
<1>1. ASSUME IInv, Next, NEW l \in DOMAIN ladders' \ DOMAIN ladders,
             ladders'[l] = "global", GlobalLadders # {}
      PROVE  \E r \in Request : At(r, "insert") /\ req[r].seen < Len(ladders)
  <2>1. CASE UNCHANGED ladders
    BY <2>1, <1>1
  <2>2. CASE CreateLadder
    <3>1. /\ DOMAIN ladders = 1..Len(ladders) /\ DOMAIN ladders' = 1..(Len(ladders) + 1)
          /\ Len(ladders) \in Nat /\ ladders'[Len(ladders) + 1] = "custom"
      BY <2>2, <1>1, InvRows, LadderIsAppended DEF CreateLadder
    <3>2. l = Len(ladders) + 1
      BY <3>1, <1>1
    <3> QED
      BY <3>1, <3>2, <1>1
  <2>3. CASE DeleteLadder
    BY <2>3, <1>1, InvRows, LadderIsGone DEF DeleteLadder, CustomLadders
  <2>4. ASSUME NEW r \in Request, EnsureInserts(r)
        PROVE  At(r, "insert") /\ req[r].seen < Len(ladders)
    <3>1. At(r, "insert")
      BY <2>4 DEF EnsureInserts
    <3>2. req[r].seen <= Len(ladders) /\ \A m \in 1..req[r].seen : ladders[m] # "global"
      BY <3>1, <1>1 DEF IInv, NoneWasGlobal
    <3>3. PICK m \in DOMAIN ladders : ladders[m] = "global"
      BY <1>1 DEF GlobalLadders
    <3>4. Len(ladders) \in Nat /\ m \in 1..Len(ladders) /\ req[r].seen \in Nat
      BY <3>3, <1>1, InvRows, LadderIds DEF ReqOK
    <3> QED
      BY <3>1, <3>2, <3>3, <3>4
  <2> QED
    BY <2>1, <2>2, <2>3, <2>4, <1>1, LadderSteps
<1>2. IInv /\ [Next]_vars => [A]_vars
  BY <1>1
<1> QED
  BY <1>2, Inductive, PTL DEF Spec, TwoGlobalsOnlyByOverlap

\* UnbindOnlyFromThatLadder: a binding that has been given another ladder since
\* the owner chose what to unbind keeps that ladder.
THEOREM UnbindKeeps == Spec => UnbindOnlyFromThatLadder
<1> DEFINE A == \A r \in Request : At(r, "update") /\ ~At(r, "update")' =>
                  \A i \in Item : \A k \in DOMAIN bound[i] :
                    bound[i][k].ladder # req[r].ladder => bound'[i][k] = bound[i][k]
<1>1. ASSUME IInv, Next, NEW r \in Request, At(r, "update"), ~At(r, "update")',
             NEW i \in Item, NEW k \in DOMAIN bound[i], bound[i][k].ladder # req[r].ladder
      PROVE  bound'[i][k] = bound[i][k]
  <2>1. ASSUME NEW q \in Request, EnsureLooks(q) \/ EnsureInserts(q) \/ UnbindReads(q)
        PROVE  bound'[i][k] = bound[i][k]
    BY <2>1 DEF EnsureLooks, EnsureInserts, UnbindReads
  <2>2. ASSUME NEW q \in Request, UnbindUpdates(q)
        PROVE  bound'[i][k] = bound[i][k]
    <3>1. q = r
      BY <2>2, <1>1, InvRows DEF UnbindUpdates, Answer, At, ReqOK
    <3>2. req[r].ladder \in DOMAIN ladders /\ ladders[req[r].ladder] # "global"
      BY <1>1 DEF IInv, UnbindsCustom
    <3>3. <<i, bound[i][k].heir>> \notin Unbind(r)
      BY <3>2, <1>1, BindingsOfLadder DEF Unbind
    <3> QED
      BY <2>2, <3>1, <3>3, InvRows, <1>1, LadderIsSet DEF UnbindUpdates
  <2>3. \E q \in Request : EnsureLooks(q) \/ EnsureInserts(q) \/ UnbindReads(q) \/ UnbindUpdates(q)
    <3>1. ~UNCHANGED req
      BY <1>1 DEF At
    <3>2. ASSUME NEW P, Forget(P)
          PROVE  FALSE
      <4>1. req'[r] = [req[r] EXCEPT !.on = @ \ P]
        BY <3>2 DEF Forget
      <4>2. req'[r].step = req[r].step
        BY <4>1, <1>1, InvRows DEF ReqOK
      <4> QED
        BY <4>2, <1>1 DEF At
    <3> QED
      BY <3>1, <3>2, <1>1
         DEF Next, CreateInheritor, DeleteInheritor, PutDefaultInheritor, CreateBinding,
             DeleteBinding, UpdateBindingLadder, CreateLadder, DeleteLadder,
             MoveAsset, PurgeAsset, PurgeCategory
  <2> QED
    BY <2>1, <2>2, <2>3
<1>2. IInv /\ [Next]_vars => [A]_vars
  BY <1>1
<1> QED
  BY <1>2, Inductive, PTL DEF Spec, UnbindOnlyFromThatLadder

------------------------------------------------------------------------------
(* The preview and the trigger *)

\* A finite set of numbers has a least one.
LEMMA Least ==
  ASSUME NEW S, S \subseteq Nat, S # {}, IsFiniteSet(S)
  PROVE  \E h \in S : \A g \in S : h <= g
<1> DEFINE Below(x) == {y \in S : y < x}
           T == {Below(x) : x \in S}
           R == StrictSubsetOrdering(S)
<1>1. T \subseteq SUBSET S /\ T # {}
  OBVIOUS
<1>2. IsWellFoundedOn(R, SUBSET S)
  <2>1. IsWellFoundedOn(R, FiniteSubsetsOf(S))
    BY FS_StrictSubsetOrderingWellFounded, Zenon
  <2>2. SUBSET S = FiniteSubsetsOf(S)
    BY FS_FiniteSubsetsOfFinite, Zenon
  <2> QED
    BY <2>1, <2>2
<1> HIDE DEF T, R
<1>3. \E D \in T : \A E \in T : ~(<<E, D>> \in R)
  BY <1>1, <1>2, WFMin
<1>4. PICK D \in T : \A E \in T : <<E, D>> \notin R
  BY <1>3
<1>5. PICK h \in S : D = Below(h)
  BY DEF T
<1>6. ASSUME NEW g \in S, ~(h <= g)
      PROVE  FALSE
  <2>1. g \in Int /\ h \in Int /\ g < h
    BY <1>6
  <2>2. \A y \in S : y < g => y < h
    BY <2>1
  <2>3. ~(g < g)
    BY <2>1
  <2>4. Below(g) \subseteq Below(h) /\ g \in Below(h) /\ g \notin Below(g)
    BY <2>1, <2>2, <2>3, Zenon
  <2>5. Below(g) \in T
    BY DEF T
  <2>6. Below(g) \in SUBSET S /\ D \in SUBSET S /\ Below(g) # D /\ Below(g) \subseteq D
    BY <2>4, <1>1, <1>5
  <2>7. <<Below(g), D>> \in R
    BY <2>6, Zenon DEF StrictSubsetOrdering, R
  <2> QED
    BY <1>4, <2>5, <2>7
<1> QED
  BY <1>6

\* The default inheritor or the first one: an inheritor, if there is any.
LEMMA EstateGoesToAnHeir ==
  ASSUME IInv
  PROVE  /\ heirs = {} => EstateHeir = NoHeir
         /\ heirs # {} => EstateHeir \in heirs /\ EstateHeir # NoHeir
<1> USE InvRows
<1>1. heirs \subseteq Nat \ {0} /\ IsFiniteSet(heirs)
  <2>1. IsFiniteSet(1..heirRows)
    BY FS_Interval DEF HeirsOK
  <2> QED
    BY <2>1, FS_Subset DEF HeirsOK
<1>2. heirs # {} => FirstHeir \in heirs
  BY <1>1, Least DEF FirstHeir
<1> QED
  BY <1>1, <1>2 DEF EstateHeir, NoHeir

\* The assets that have an event of their own, and who is its heir.
Configured == {a \in Assets : Via(a) # None}
OwnEvents == {[asset |-> a, heir |-> FirstOf(Via(a))] : a \in Configured}
EstateEvents ==
  IF (Cardinality(OwnEvents) >= Cardinality(Assets) /\ Cardinality(Assets) > 0) \/ EstateHeir = NoHeir
  THEN {} ELSE {[asset |-> None, heir |-> EstateHeir]}

\* The two readings name the same event: for an asset bound itself, or listed
\* under a category that is.
LEMMA TriggeredIs ==
  ASSUME IInv
  PROVE  Triggered = OwnEvents \union EstateEvents
<1> USE InvRows
<1> DEFINE own == {[asset |-> a, heir |-> FirstOf(a)] : a \in {x \in Assets : bound[x] # <<>>}}
           byCategory == UNION {{[asset |-> a, heir |-> FirstOf(c)] : a \in InheritedByCategory(c)} :
                                  c \in {d \in categories : bound[d] # <<>>}}
<1>0. /\ \A a \in Assets : a \in Asset /\ a # None /\ category[a] \in categories \union {None}
      /\ categories \subseteq Category /\ None \notin Category
  BY BindingsAssumption DEF IInv, ReferencesResolve, VaultOK, BindingsAssumption
<1>1. own \union byCategory \subseteq OwnEvents
  <2>1. ASSUME NEW a \in Assets, bound[a] # <<>>
        PROVE  Via(a) = a /\ a \in Configured
    BY <2>1, <1>0 DEF Via, Configured
  <2>2. own \subseteq OwnEvents
    BY <2>1 DEF OwnEvents
  <2>3. ASSUME NEW c \in categories, bound[c] # <<>>, NEW a \in InheritedByCategory(c)
        PROVE  Via(a) = c /\ a \in Configured
    BY <2>3, <1>0 DEF Via, Configured, InheritedByCategory
  <2>4. byCategory \subseteq OwnEvents
    BY <2>3 DEF OwnEvents
  <2> QED
    BY <2>2, <2>4
<1>2. OwnEvents \subseteq own \union byCategory
  <2>1. ASSUME NEW a \in Configured
        PROVE  [asset |-> a, heir |-> FirstOf(Via(a))] \in own \union byCategory
    <3>1. CASE bound[a] # <<>>
      BY <3>1 DEF Configured, Via
    <3>2. CASE bound[a] = <<>>
      <4>1. /\ a \in Assets /\ category[a] \in categories /\ bound[category[a]] # <<>>
            /\ Via(a) = category[a]
        BY <3>2, <1>0 DEF Configured, Via
      <4>2. a \in InheritedByCategory(category[a])
        BY <4>1, <3>2 DEF InheritedByCategory
      <4> QED
        BY <4>1, <4>2
    <3> QED
      BY <3>1, <3>2
  <2> QED
    BY <2>1 DEF OwnEvents
<1>3. own \union byCategory = OwnEvents
  BY <1>1, <1>2
<1>4. Triggered = own \union byCategory \union
        (IF (Cardinality(own \union byCategory) >= Cardinality(Assets) /\ Cardinality(Assets) > 0)
            \/ EstateHeir = NoHeir THEN {} ELSE {[asset |-> None, heir |-> EstateHeir]})
  BY Zenon DEF Triggered
<1> HIDE DEF own, byCategory
<1> QED
  BY <1>3, <1>4 DEF EstateEvents

\* An asset without an event of its own leaves room for the estate.
LEMMA EstateIsTriggered ==
  ASSUME IInv, NEW a \in Assets, a \notin Configured, EstateHeir # NoHeir
  PROVE  EstateEvents = {[asset |-> None, heir |-> EstateHeir]}
<1>1. IsFiniteSet(Assets) /\ Configured \subseteq Assets \ {a}
  BY InvRows, FS_Subset, BindingsAssumption DEF VaultOK, Configured, BindingsAssumption
<1>2. IsFiniteSet(Assets \ {a}) /\ Cardinality(Assets \ {a}) = Cardinality(Assets) - 1
  BY <1>1, FS_RemoveElement
<1>3. IsFiniteSet(Configured) /\ Cardinality(Configured) <= Cardinality(Assets \ {a})
  BY <1>1, <1>2, FS_Subset
<1>4. Cardinality(OwnEvents) <= Cardinality(Configured) /\ IsFiniteSet(OwnEvents)
  <2> DEFINE f == [x \in Configured |-> [asset |-> x, heir |-> FirstOf(Via(x))]]
  <2>1. f \in Surjection(Configured, OwnEvents)
    BY DEF Surjection, OwnEvents
  <2> QED
    BY <2>1, <1>3, FS_Surjection
<1>5. /\ Cardinality(Assets) \in Nat /\ Cardinality(Configured) \in Nat
      /\ Cardinality(OwnEvents) \in Nat
  BY <1>1, <1>3, <1>4, FS_CardinalityType
<1>6. ~(Cardinality(OwnEvents) >= Cardinality(Assets))
  BY <1>2, <1>3, <1>4, <1>5
<1> QED
  BY <1>6 DEF EstateEvents

\* The heir the trigger chooses for an asset, in the terms of the preview.
LEMMA PreviewIsTrigger ==
  ASSUME IInv, NEW a \in Assets
  PROVE  HeirByTrigger(a) = IF Via(a) # None THEN FirstOf(Via(a)) ELSE EstateHeir
<1>0. a # None /\ \A x \in Assets : x # None
  BY InvRows, BindingsAssumption DEF VaultOK, BindingsAssumption
<1>1. Triggered = OwnEvents \union EstateEvents
  BY TriggeredIs
<1>2. \A e \in EstateEvents : e.asset = None
  BY DEF EstateEvents
<1>3. \A e \in OwnEvents : e.asset # None /\ e.heir = FirstOf(Via(e.asset)) /\ e.asset \in Configured
  BY <1>0 DEF OwnEvents, Configured
<1>4. CASE Via(a) # None
  <2>1. [asset |-> a, heir |-> FirstOf(Via(a))] \in Triggered
    BY <1>4, <1>1 DEF OwnEvents, Configured
  <2>2. \E e \in Triggered : e.asset = a
    BY <2>1
  <2>3. \A e \in Triggered : e.asset = a => e.heir = FirstOf(Via(a))
    BY <1>0, <1>1, <1>2, <1>3
  <2>4. HeirByTrigger(a) = (CHOOSE e \in Triggered : e.asset = a).heir
    BY <2>2 DEF HeirByTrigger
  <2> QED
    BY <2>2, <2>3, <2>4, <1>4
<1>5. CASE Via(a) = None
  <2>1. a \notin Configured /\ ~\E e \in Triggered : e.asset = a
    BY <1>0, <1>1, <1>2, <1>3, <1>5 DEF Configured
  <2>2. CASE EstateHeir = NoHeir
    <3>1. EstateEvents = {}
      BY <2>2 DEF EstateEvents
    <3>2. ~\E e \in Triggered : e.asset = None
      BY <3>1, <1>1, <1>3
    <3> QED
      BY <2>1, <2>2, <3>2, <1>5 DEF HeirByTrigger
  <2>3. CASE EstateHeir # NoHeir
    <3>1. EstateEvents = {[asset |-> None, heir |-> EstateHeir]}
      BY <2>1, <2>3, EstateIsTriggered
    <3>2. \E e \in Triggered : e.asset = None
      <4>1. [asset |-> None, heir |-> EstateHeir] \in Triggered
        BY <3>1, <1>1
      <4> QED
        BY <4>1
    <3>3. \A e \in Triggered : e.asset = None => e.heir = EstateHeir
      BY <3>1, <1>1, <1>3
    <3>4. HeirByTrigger(a) = (CHOOSE e \in Triggered : e.asset = None).heir
      BY <2>1, <3>2 DEF HeirByTrigger
    <3> QED
      BY <3>2, <3>3, <3>4, <1>5
  <2> QED
    BY <2>2, <2>3
<1> QED
  BY <1>4, <1>5

\* PreviewIsWhatIsTriggered: every asset goes to the heir the owner was shown.
THEOREM PreviewHolds == Spec => []PreviewIsWhatIsTriggered
<1>1. ASSUME IInv
      PROVE  PreviewIsWhatIsTriggered
  <2>1. \A a \in Assets : Preview[a] = HeirByTrigger(a)
    BY <1>1, PreviewIsTrigger DEF Preview
  <2>2. ASSUME NEW c \in categories, bound[c] # <<>>, NEW a \in InheritedByCategory(c)
        PROVE  HeirByTrigger(a) = FirstOf(c)
    <3>1. a \in Assets /\ category[a] = c /\ bound[a] = <<>> /\ c # None
      BY <2>2, <1>1, InvRows, BindingsAssumption
         DEF InheritedByCategory, VaultOK, BindingsAssumption
    <3>2. Via(a) = c
      BY <3>1, <2>2 DEF Via
    <3> QED
      BY <3>1, <3>2, <1>1, PreviewIsTrigger
  <2> QED
    BY <2>1, <2>2 DEF PreviewIsWhatIsTriggered
<1> QED
  BY <1>1, Inductive, PTL

\* EveryAssetHasAnHeir: as long as the owner has one inheritor, no asset is left
\* without a heir.
THEOREM NoAssetLeft == Spec => []EveryAssetHasAnHeir
<1>1. ASSUME IInv, heirs # {}, NEW a \in Assets
      PROVE  HeirByTrigger(a) \in heirs
  <2>1. CASE Via(a) # None
    <3>1. Via(a) \in Item /\ bound[Via(a)] # <<>>
      <4>1. a \in Asset /\ category[a] \in categories \union {None} /\ categories \subseteq Category
        BY <1>1, InvRows DEF IInv, ReferencesResolve, VaultOK
      <4> QED
        BY <4>1, <2>1 DEF Via, Item
    <3>2. 1 \in DOMAIN bound[Via(a)] /\ FirstOf(Via(a)) = bound[Via(a)][1].heir
      BY <3>1, <1>1, InvRows, Rows, EmptySeq DEF FirstOf
    <3>3. FirstOf(Via(a)) \in heirs
      BY <3>1, <3>2, <1>1, InvRows DEF RowsResolve, Range
    <3> QED
      BY <3>3, <2>1, <1>1, PreviewIsTrigger
  <2>2. CASE Via(a) = None
    BY <2>2, <1>1, PreviewIsTrigger, EstateGoesToAnHeir
  <2> QED
    BY <2>1, <2>2
<1>2. IInv => EveryAssetHasAnHeir
  BY <1>1 DEF EveryAssetHasAnHeir
<1> QED
  BY <1>2, Inductive, PTL

=============================================================================
