----------------------------- MODULE MCHandover -----------------------------
(* A small instance of Handover for TLC. *)
EXTENDS Handover, TLC

CONSTANTS a1, a2

\* a1 has two inheritors, the first of them one day later than the ladder;
\* a2 is left to the estate, and has no wrapped key.
OwnBindings ==
  [own |-> {[rank |-> 1, asset |-> a1, heir |-> 1, days |-> TriggerDays + 1],
            [rank |-> 2, asset |-> a1, heir |-> 2, days |-> 0]},
   cat |-> {},
   default |-> NoHeir, heirs |-> {1, 2}, wrapped |-> {a1}]

\* Both assets are in one category; a2 has its own inheritor as well.
Categories ==
  [own |-> {[rank |-> 1, asset |-> a2, heir |-> 2, days |-> 0]},
   cat |-> {[rank |-> 1, asset |-> a1, heir |-> 1, days |-> 0],
            [rank |-> 2, asset |-> a2, heir |-> 1, days |-> 0],
            [rank |-> 3, asset |-> a1, heir |-> 2, days |-> 0]},
   default |-> NoHeir, heirs |-> {1, 2}, wrapped |-> {a1, a2}]

\* One asset with two inheritors of its own.
OneAsset ==
  [own |-> {[rank |-> 1, asset |-> a1, heir |-> 1, days |-> 0],
            [rank |-> 2, asset |-> a1, heir |-> 2, days |-> 0]},
   cat |-> {}, default |-> 2, heirs |-> {1, 2}, wrapped |-> {a1}]

\* The category of both assets waits longer than the ladder.
LateCategory ==
  [own |-> {},
   cat |-> {[rank |-> 1, asset |-> a1, heir |-> 2, days |-> TriggerDays + 1],
            [rank |-> 2, asset |-> a2, heir |-> 2, days |-> TriggerDays + 1]},
   default |-> 1, heirs |-> {1, 2}, wrapped |-> {a1, a2}]

MCConfig == {OwnBindings, Categories}
MCOwn == {OwnBindings}
MCOne == {OneAsset}
MCCategory == {Categories}
MCLateCategory == {LateCategory}
MCAsset == {a1, a2}

\* Claims are interchangeable.
MCSymmetry == Permutations(Claimant)
=============================================================================
