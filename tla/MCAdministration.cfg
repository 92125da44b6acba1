\* An operator and a user who redeems, two codes of one day each, two requests, three days.
SPECIFICATION Spec
CONSTANTS
  User = {op, ann}
  Operator = op
  Redeemer = {ann}
  Code = {c1, c2}
  Request = {r1, r2}
  MaxDay = 2
  Duration = 1
SYMMETRY MCSymmetry
INVARIANTS TypeOK CodeRedeemedOnce RedeemerStays
PROPERTIES RedeemingAddsTime LastAdminStays
