\* Two tiers after one and two days, an asset that expires on the third day, and
\* months of two days.
SPECIFICATION Spec
CONSTANTS
  Address = {e1}
  Phone = {p1}
  Registered = e0
  Request = {r1, r2}
  Kind = {"expiry", "escalation"}
  MaxTemplates = 2
  Expires = 2
  Advances = {1}
  WarnDays = 1
  TriggerDays = 2
  MonthDays = 2
  FreeMails = 1
  MemberMails = 2
  MemberSms = 1
  MaxTime = 5
  MaxEdits = 1
  MaxRestarts = 1
CONSTRAINT MCTemplatesApart
SYMMETRY MCSymmetry
INVARIANTS TypeOK  EscalationFollowsReminder
PROPERTIES ReminderStaysRead  OneTemplateAnswers
