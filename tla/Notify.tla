------------------------------- MODULE Notify -------------------------------
(***************************************************************************)
(* What reaches the owner before a handover: the reminders that the scans  *)
(* of the scheduler write and send, the monthly quota of the system's mail *)
(* and SMS, and the channels and templates that the owner edits meanwhile. *)
(* One owner with one asset that expires.  The scheduler is one process,   *)
(* reads before it sends and counts after it has sent; a restart leaves    *)
(* its scan where it is.  Times are half days, so that a day of silence    *)
(* does not begin with a day of the calendar.                              *)
(***************************************************************************)
EXTENDS Integers, FiniteSets

CONSTANTS
  Address, Phone,       \* bound: what the owner may list as channels
  Registered,           \* the address of the account
  Request,              \* bound: requests of the owner in progress at once
  Kind,                 \* types of templates
  MaxTemplates,         \* bound: templates ever created
  Expires,              \* the day on which the asset expires
  Advances,             \* expiryAdvances, in days
  WarnDays, TriggerDays,  \* the two tiers of the ladder
  MonthDays,            \* days of a month
  FreeMails, MemberMails, MemberSms,   \* monthly quotas
  MaxTime,              \* bound: the last half day
  MaxEdits,             \* bound: what happens to the account, templates apart
  MaxRestarts           \* bound: restarts of the server

ASSUME NotifyAssumption ==
  /\ Registered \notin Address /\ IsFiniteSet(Address) /\ IsFiniteSet(Phone)
  /\ {"none", "deleted"} \intersect Kind = {}
  /\ {MaxTemplates, MaxEdits, MaxRestarts} \subseteq Nat /\ MaxTime \in Nat \ {0, 1}
  /\ {Expires, WarnDays, MonthDays, FreeMails} \subseteq Nat \ {0}
  /\ Advances \subseteq Nat \ {0}
  /\ TriggerDays \in Nat /\ WarnDays < TriggerDays
  /\ MemberMails \in Nat /\ FreeMails <= MemberMails /\ MemberSms \in Nat

VARIABLES
  now,
  owner,       \* tier, last_login_at, whether it ever was a member
  channels,    \* notification_channels, and whether user_smtp is set up
  templates,   \* the owner's rows of reminder_templates, by id
  req,         \* what the owner's requests in progress have read
  reminders,   \* rows of reminders, by dedup_key
  scan,        \* the scheduler
  sent,        \* system mails and SMS that left, by month
  counted,     \* notification_quota
  escalated,   \* what the escalation of a day sent besides mail
  edits, restarts

vars == <<now, owner, channels, templates, req, reminders, scan, sent, counted,
          escalated, edits, restarts>>
account == <<owner, channels, templates>>
sending == <<reminders, sent, counted, escalated>>

Day(t) == t \div 2
Today == Day(now)
Month(t) == Day(t) \div MonthDays
Days == 0..Day(MaxTime)
Months == 0..Month(MaxTime)
Past == 0                                    \* the key of "past"
Key == ({"expiry"} \X (Advances \union {Past})) \union ({"escalation"} \X Days)
Medium == {"email", "sms"}

NoTemplate == [kind |-> "none", default |-> FALSE]
DeletedTemplate == [kind |-> "deleted", default |-> FALSE]
NoReq == [step |-> "idle", id |-> 0, kind |-> "none", first |-> FALSE, emails |-> {}, phones |-> {}]
Idle == [at |-> "idle", time |-> 0, tier |-> "free", windows |-> {}, key |-> <<"expiry", Past>>,
         days |-> 0, medium |-> "email", todo |-> {}]

TypeOK ==
  /\ now \in 0..MaxTime /\ edits \in 0..MaxEdits /\ restarts \in 0..MaxRestarts
  /\ owner \in [tier : {"free", "member"}, seen : 0..now, wasMember : BOOLEAN]
  /\ channels \in [emails : SUBSET Address, phones : SUBSET Phone, smtp : BOOLEAN]
  /\ templates \in [1..MaxTemplates -> [kind : Kind \union {"none", "deleted"}, default : BOOLEAN]]
  /\ req \in [Request -> [step : {"idle", "create", "channels", "default"},
                          id : 0..MaxTemplates, kind : Kind \union {"none"}, first : BOOLEAN,
                          emails : SUBSET Address, phones : SUBSET Phone]]
  /\ reminders \in [Key -> [status : {"none", "pending", "read"}, days : 0..Day(MaxTime)]]
  /\ scan \in [at : {"idle", "expiry", "escalation", "im", "send", "count", "trigger"},
               time : 0..now, tier : {"free", "member"}, windows : SUBSET (Advances \union {Past}),
               key : Key, days : Days, medium : Medium,
               todo : SUBSET (Address \union {Registered} \union Phone)]
  /\ sent \in [Months -> [Medium -> Nat]] /\ counted \in [Months -> [Medium -> Nat]]
  /\ escalated \in [Days -> [im : Nat, sms : BOOLEAN]]

Init ==
  /\ now = 2 /\ edits = 0 /\ restarts = 0
  /\ \E tier \in {"free", "member"}, seen \in {0, 1} :
       owner = [tier |-> tier, seen |-> seen, wasMember |-> tier = "member"]
  /\ \E emails \in {{}, Address}, phones \in {{}, Phone} :
       /\ phones # {} => owner.wasMember
       /\ channels = [emails |-> emails, phones |-> phones, smtp |-> FALSE]
  /\ templates = [i \in 1..MaxTemplates |-> NoTemplate]
  /\ req = [r \in Request |-> NoReq]
  /\ reminders = [k \in Key |-> [status |-> "none", days |-> 0]]
  /\ scan = Idle
  /\ sent = [m \in Months |-> [x \in Medium |-> 0]] /\ counted = sent
  /\ escalated = [d \in Days |-> [im |-> 0, sms |-> FALSE]]

------------------------------------------------------------------------------
(* The owner *)

Tick ==
  /\ now < MaxTime /\ now' = now + 1
  /\ UNCHANGED <<account, req, scan, sending, edits, restarts>>

Edit == edits < MaxEdits /\ edits' = edits + 1 /\ UNCHANGED <<now, scan, restarts>>
At(r, step) == req[r].step = step
Answer(r) == req' = [req EXCEPT ![r] = NoReq]
Begin(r, q) == At(r, "idle") /\ req' = [req EXCEPT ![r] = q]

\* Mutant: the moment is rounded up.
OwnerSeenRounded ==
  /\ Edit /\ owner.seen < now
  /\ owner' = [owner EXCEPT !.seen = now + 1]
  /\ UNCHANGED <<channels, templates, req, sending>>

\* A login or a heartbeat.
OwnerSeen ==
  /\ Edit /\ owner.seen < now
  /\ owner' = [owner EXCEPT !.seen = now]
  /\ UNCHANGED <<channels, templates, req, sending>>

\* A membership begins or ends.
SetTier ==
  /\ Edit
  /\ \E tier \in {"free", "member"} \ {owner.tier} :
       owner' = [owner EXCEPT !.tier = tier, !.wasMember = @ \/ tier = "member"]
  /\ UNCHANGED <<channels, templates, req, sending>>

\* handlePutNotificationChannels: a list with phones is for members; the lists
\* replace all there were.
PutChannelsReads(r) ==
  /\ Edit
  /\ \E emails \in SUBSET Address, phones \in SUBSET Phone :
       /\ phones # {} => owner.tier = "member"
       /\ Begin(r, [NoReq EXCEPT !.step = "channels", !.emails = emails, !.phones = phones])
  /\ UNCHANGED <<account, sending>>

PutChannels(r) ==
  /\ At(r, "channels")
  /\ channels' = [channels EXCEPT !.emails = req[r].emails, !.phones = req[r].phones]
  /\ Answer(r)
  /\ UNCHANGED <<now, owner, templates, scan, sending, edits, restarts>>

\* handlePutSMTP, handleDeleteSMTP.
PutSMTP ==
  /\ Edit
  /\ channels' = [channels EXCEPT !.smtp = ~@]
  /\ UNCHANGED <<owner, templates, req, sending>>

\* handleMarkReminderRead, handleMarkAllRemindersRead.
MarkRead ==
  LET pending == {k \in Key : reminders[k].status = "pending"} IN
    /\ Edit /\ pending # {}
    /\ \E K \in {{k} : k \in pending} \union {pending} :
         reminders' = [k \in Key |-> IF k \in K THEN [reminders[k] EXCEPT !.status = "read"]
                                     ELSE reminders[k]]
    /\ UNCHANGED <<account, req, sent, counted, escalated>>

------------------------------------------------------------------------------
(* Templates *)

Own(kind) == {i \in 1..MaxTemplates : templates[i].kind = kind}
Defaults(kind) == {i \in Own(kind) : templates[i].default}
Preset == 0
Here(i) == templates[i].kind \in Kind

\* renderTemplate: the rows one of which the database may answer with.
Rendered(kind) ==
  IF owner.tier = "member" /\ Own(kind) # {}
  THEN IF Defaults(kind) # {} THEN Defaults(kind)
       ELSE {i \in Own(kind) : \A j \in Own(kind) : i <= j}
  ELSE {Preset}

\* handleCreateTemplate: the first of its type becomes the default.
CreateTemplateReads(r) ==
  /\ owner.tier = "member"
  /\ \E kind \in Kind :
       Begin(r, [NoReq EXCEPT !.step = "create", !.kind = kind, !.first = Own(kind) = {}])
  /\ UNCHANGED <<now, account, scan, sending, edits, restarts>>

\* Ids are not given twice.
CreateTemplate(r) ==
  /\ At(r, "create")
  /\ \E i \in 1..MaxTemplates :
       /\ templates[i] = NoTemplate /\ \A j \in 1..(i - 1) : templates[j] # NoTemplate
       /\ templates' = [templates EXCEPT ![i] = [kind |-> req[r].kind, default |-> req[r].first]]
  /\ Answer(r)
  /\ UNCHANGED <<now, owner, channels, scan, sending, edits, restarts>>

\* handleUpdateTemplate: the type may change; the default stays with the row.
UpdateTemplate ==
  /\ \E kind \in Kind, i \in 1..MaxTemplates :
       /\ Here(i) /\ templates[i].kind # kind
       /\ templates' = [templates EXCEPT ![i].kind = kind]
  /\ UNCHANGED <<now, owner, channels, req, scan, sending, edits, restarts>>

\* handleDeleteTemplate: no other template becomes the default.
DeleteTemplate ==
  /\ \E i \in 1..MaxTemplates :
       Here(i) /\ templates' = [templates EXCEPT ![i] = DeletedTemplate]
  /\ UNCHANGED <<now, owner, channels, req, scan, sending, edits, restarts>>

\* handleSetDefaultTemplate: the type is read before the transaction.
SetDefaultReads(r) ==
  /\ \E i \in 1..MaxTemplates :
       /\ Here(i)
       /\ Begin(r, [NoReq EXCEPT !.step = "default", !.id = i, !.kind = templates[i].kind])
  /\ UNCHANGED <<now, account, scan, sending, edits, restarts>>

\* Mutant: the old default is not cleared.
SetDefaultAdds(r) ==
  /\ At(r, "default")
  /\ templates' = [i \in 1..MaxTemplates |->
       IF i = req[r].id /\ Here(i) THEN [templates[i] EXCEPT !.default = TRUE]
       ELSE templates[i]]
  /\ Answer(r)
  /\ UNCHANGED <<now, owner, channels, scan, sending, edits, restarts>>

SetDefault(r) ==
  /\ At(r, "default")
  /\ templates' = [i \in 1..MaxTemplates |->
       IF i = req[r].id /\ Here(i) THEN [templates[i] EXCEPT !.default = TRUE]
       ELSE IF templates[i].kind = req[r].kind THEN [templates[i] EXCEPT !.default = FALSE]
       ELSE templates[i]]
  /\ Answer(r)
  /\ UNCHANGED <<now, owner, channels, scan, sending, edits, restarts>>

------------------------------------------------------------------------------
(* The scheduler *)

Scan(s) == scan' = s /\ UNCHANGED <<now, account, req, edits, restarts>>
ScanAt(at) == scan.at = at

\* The windows of processExpiryReminders that are open at time t.
Windows(t) == IF 2 * Expires > t THEN {a \in Advances : 2 * Expires <= t + 2 * a} ELSE {Past}

\* userEmails, userPhones, at the time of the call.
UserEmails == IF channels.emails = {} THEN {Registered} ELSE channels.emails
UserPhones == channels.phones

\* Mutant: overwrites the row that is there.
InsertReminderAgain(key, days) ==
  reminders' = [reminders EXCEPT ![key] = [status |-> "pending", days |-> days]]

\* insertReminder: nothing if the key is there.
InsertReminder(key, days) ==
  reminders' = [reminders EXCEPT ![key] =
                  IF @.status = "none" THEN [status |-> "pending", days |-> days] ELSE @]

\* scan, processExpiryReminders: the tier and the date are read once.
ScanBegins ==
  /\ ScanAt("idle")
  /\ Scan([Idle EXCEPT !.at = "expiry", !.time = now, !.tier = owner.tier,
                       !.windows = Windows(now)])
  /\ UNCHANGED sending

\* notifyUser begins: whether the reminder is new is not asked.
NotifyUser ==
  /\ ScanAt("expiry")
  /\ \E w \in scan.windows :
       /\ InsertReminder(<<"expiry", w>>, 0)
       /\ Scan([scan EXCEPT !.at = "send", !.windows = @ \ {w}, !.key = <<"expiry", w>>,
                            !.medium = "email", !.todo = UserEmails])
  /\ UNCHANGED <<sent, counted, escalated>>

\* processEscalation reads the owner; the ladder has two tiers.
ProcessEscalation ==
  LET days == Day(IF scan.time < owner.seen THEN 0 ELSE scan.time - owner.seen) IN
    /\ ScanAt("expiry") /\ scan.windows = {}
    /\ Scan(IF days < WarnDays THEN Idle
            ELSE [scan EXCEPT !.at = "escalation", !.tier = owner.tier, !.days = days])
    /\ UNCHANGED sending

AfterEscalation ==
  IF scan.days < TriggerDays THEN Idle
  ELSE [Idle EXCEPT !.at = "trigger", !.time = scan.time, !.days = scan.days]

\* Mutant: whether the reminder is new is not asked.
NotifyEscalationAgain ==
  LET key == <<"escalation", Today>> IN
    /\ ScanAt("escalation")
    /\ InsertReminder(key, scan.days)
    /\ Scan([scan EXCEPT !.at = "im", !.key = key])
    /\ UNCHANGED <<sent, counted, escalated>>

\* Mutant: nothing is written once the last tier is reached.
NotifyEscalationNoMore ==
  LET key == <<"escalation", Today>> IN
    /\ ScanAt("escalation")
    /\ IF scan.days >= TriggerDays
       THEN Scan(AfterEscalation) /\ UNCHANGED reminders
       ELSE /\ InsertReminder(key, scan.days)
            /\ Scan(IF reminders[key].status # "none" THEN AfterEscalation
                    ELSE [scan EXCEPT !.at = "im", !.key = key])
    /\ UNCHANGED <<sent, counted, escalated>>

\* notifyEscalation: the first scan of a day to come here sends.
NotifyEscalation ==
  LET key == <<"escalation", Today>> IN
    /\ ScanAt("escalation")
    /\ InsertReminder(key, scan.days)
    /\ Scan(IF reminders[key].status # "none" THEN AfterEscalation
            ELSE [scan EXCEPT !.at = "im", !.key = key])
    /\ UNCHANGED <<sent, counted, escalated>>

SendIMWebhook ==
  /\ ScanAt("im")
  /\ escalated' = [escalated EXCEPT ![scan.key[2]].im = @ + 1]
  /\ Scan([scan EXCEPT !.at = "send", !.medium = "email", !.todo = UserEmails])
  /\ UNCHANGED <<reminders, sent, counted>>

Quota(tier, medium) ==
  IF medium = "email" THEN (IF tier = "member" THEN MemberMails ELSE FreeMails)
  ELSE IF tier = "member" THEN MemberSms ELSE 0

\* Mutant: one message too many.
QuotaAllowedOneMore(tier, medium) == counted[Month(now)][medium] <= Quota(tier, medium)

\* The tier is the one the scan has read.
QuotaAllowed(tier, medium) == counted[Month(now)][medium] < Quota(tier, medium)

\* A mail of an expiry goes through the owner's own server, when there is one and
\* it works; every other message needs quota, and uses it up delivered or not.
SendByOwnSMTP ==
  /\ ScanAt("send") /\ scan.medium = "email" /\ scan.key[1] = "expiry" /\ channels.smtp
  /\ \E to \in scan.todo : Scan([scan EXCEPT !.todo = @ \ {to}])
  /\ UNCHANGED sending

Send ==
  /\ ScanAt("send")
  /\ \E to \in scan.todo :
       IF QuotaAllowed(scan.tier, scan.medium)
       THEN /\ Scan([scan EXCEPT !.at = "count", !.todo = @ \ {to}])
            /\ sent' = [sent EXCEPT ![Month(now)][scan.medium] = @ + 1]
            /\ escalated' = IF scan.medium = "sms" /\ scan.key[1] = "escalation"
                            THEN [escalated EXCEPT ![scan.key[2]].sms = TRUE] ELSE escalated
       ELSE /\ Scan([scan EXCEPT !.todo = @ \ {to}])
            /\ UNCHANGED <<sent, escalated>>
  /\ UNCHANGED <<reminders, counted>>

\* quotaIncr, of the month it is by now.
QuotaIncr ==
  /\ ScanAt("count")
  /\ counted' = [counted EXCEPT ![Month(now)][scan.medium] = @ + 1]
  /\ Scan([scan EXCEPT !.at = "send"])
  /\ UNCHANGED <<reminders, sent, escalated>>

\* After the mails the SMS of members, of an escalation at its second tier only.
AllSent ==
  LET expiry == scan.key[1] = "expiry" IN
    /\ ScanAt("send") /\ scan.todo = {}
    /\ Scan(IF scan.medium = "email" /\ scan.tier = "member"
               /\ (expiry \/ scan.days >= TriggerDays)
            THEN [scan EXCEPT !.medium = "sms", !.todo = UserPhones]
            ELSE IF expiry THEN [scan EXCEPT !.at = "expiry", !.key = Idle.key, !.medium = Idle.medium]
            ELSE AfterEscalation)
    /\ UNCHANGED sending

\* triggerInheritance is what module Handover is about.
TriggerInheritance ==
  /\ ScanAt("trigger")
  /\ Scan(Idle)
  /\ UNCHANGED sending

Restart ==
  /\ restarts < MaxRestarts /\ restarts' = restarts + 1
  /\ scan' = Idle /\ req' = [r \in Request |-> NoReq]
  /\ UNCHANGED <<now, account, sending, edits>>

Next ==
  \/ Tick \/ OwnerSeen \/ SetTier \/ PutSMTP \/ MarkRead \/ UpdateTemplate \/ DeleteTemplate
  \/ ScanBegins \/ NotifyUser \/ ProcessEscalation \/ NotifyEscalation \/ SendIMWebhook
  \/ SendByOwnSMTP \/ Send \/ QuotaIncr \/ AllSent \/ TriggerInheritance \/ Restart
  \/ \E r \in Request :
       \/ PutChannelsReads(r) \/ PutChannels(r) \/ CreateTemplateReads(r) \/ CreateTemplate(r)
       \/ SetDefaultReads(r) \/ SetDefault(r)

Spec == Init /\ [][Next]_vars

------------------------------------------------------------------------------
(* Properties *)

\* In no month more leaves by mail and SMS than the best tier the owner had
\* allows, and one more for every restart, which may fall between sending and
\* counting.
QuotaKept ==
  \A m \in Months, x \in Medium :
    sent[m][x] <= Quota(IF owner.wasMember THEN "member" ELSE "free", x) + restarts

\* The escalation of a day goes out once at most, whatever the number of scans and
\* restarts, and its SMS only if the reminder was written at the second tier: a
\* second tier reached later that day is heard of on the next.
EscalationFollowsReminder ==
  \A d \in Days :
    LET row == reminders[<<"escalation", d>>] IN
      /\ escalated[d].im <= (IF row.status = "none" THEN 0 ELSE 1)
      /\ escalated[d].sms => row.days >= TriggerDays

\* What the owner has read is not unread again when a scan comes upon the same
\* window or day.
ReminderStaysRead ==
  [][\A k \in Key : reminders[k].status = "read" => reminders'[k] = reminders[k]]_vars

\* A handover is triggered only after a reminder on the way to it: one written
\* since the owner was last seen before the scan.
HandoverIsAnnounced ==
  [][ScanAt("trigger") /\ ~ScanAt("trigger")' =>
       \E d \in Days : /\ reminders[<<"escalation", d>>].status # "none"
                       /\ d >= Day(scan.time) - scan.days /\ d <= Today]_vars

\* Which template a reminder is written with becomes uncertain only when two
\* creations overlap or a template changes its type.
OneTemplateAnswers ==
  [][\A kind \in Kind :
       Cardinality(Rendered(kind)) = 1 /\ Cardinality(Rendered(kind)') > 1 =>
         \/ Cardinality(Defaults(kind)) > 1     \* and the owner becomes a member
         \/ \E r \in Request : At(r, "create") /\ ~At(r, "create")' /\ Own(kind) # {} /\ req[r].first
         \/ \E i \in Defaults(kind)' : templates[i].kind # kind
         \/ \E r \in Request : /\ At(r, "default") /\ ~At(r, "default")'
                               /\ templates[req[r].id].kind # req[r].kind]_vars
=============================================================================
