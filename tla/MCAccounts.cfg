\* Two requests at once; two failures lock, two wrong answers use up a code.
SPECIFICATION Spec
CONSTANTS
  Request = {r1, r2}
  MaxFails = 2
  MaxAttempts = 2
  MaxVersion = 1
  MaxCodes = 1
SYMMETRY MCSymmetry
INVARIANTS TypeOK CaptchaPassesOne   CodeIsCounted
