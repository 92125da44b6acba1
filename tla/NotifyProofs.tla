---------------------------- MODULE NotifyProofs ----------------------------
(***************************************************************************)
(* For any ladder, quotas, channels and length of time: what the owner can *)
(* count on between the first reminder and the trigger.                    *)
(***************************************************************************)
EXTENDS Notify, FiniteSetTheorems, TLAPS

------------------------------------------------------------------------------
(* The inductive invariant *)

\* Nobody reads as a member, neither the requests nor the scan, who never was one.
MembersAreKnown ==
  (owner.tier = "member" \/ scan.tier = "member") => owner.wasMember

\* A message of this month or of a later one is counted, is about to be, or was
\* lost by a restart; and none has left for a month that has not begun.
SentIsCounted ==
  /\ \A m \in Months, x \in Medium : m >= Month(now) =>
       sent[m][x] <= counted[m][x] + restarts + (IF ScanAt("count") /\ scan.medium = x THEN 1 ELSE 0)
  /\ \A m \in Months, x \in Medium : m > Month(now) => sent[m][x] = 0

\* While an escalation goes out, its reminder is there, of that day, and says how
\* long the silence was.
Escalating == scan.at \in {"im", "send", "count"} /\ scan.key[1] = "escalation"
EscalatingIsWritten ==
  /\ scan.at \in {"expiry", "escalation", "im"} => scan.medium = "email"
  /\ ScanAt("im") => scan.key[1] = "escalation" /\ escalated[scan.key[2]].im = 0
  /\ Escalating =>
       /\ reminders[scan.key].status # "none" /\ reminders[scan.key].days = scan.days
       /\ scan.medium = "sms" => scan.days >= TriggerDays
       /\ scan.key[2] <= Today /\ scan.key[2] >= Day(scan.time) - scan.days

\* No SMS of an escalation without its reminder.
SmsIsWritten ==
  \A d \in Days : escalated[d].sms => reminders[<<"escalation", d>>].status # "none"

\* The scan triggers with such a reminder behind it.
Announced ==
  ScanAt("trigger") =>
    \E d \in Days : /\ reminders[<<"escalation", d>>].status # "none"
                    /\ d >= Day(scan.time) - scan.days /\ d <= Today

\* A template in the hands of a request is one.
TemplateInHand ==
  \A r \in Request :
    /\ At(r, "default") => req[r].id \in 1..MaxTemplates
    /\ At(r, "create") => req[r].kind \in Kind

IInv ==
  /\ TypeOK
  /\ MembersAreKnown
  /\ SentIsCounted
  /\ QuotaKept
  /\ EscalationFollowsReminder
  /\ EscalatingIsWritten
  /\ SmsIsWritten
  /\ Announced
  /\ TemplateInHand

------------------------------------------------------------------------------
(* Times *)

\* What the constants are.
LEMMA Constants ==
  /\ Registered \notin Address /\ IsFiniteSet(Address) /\ IsFiniteSet(Phone)
  /\ "none" \notin Kind /\ "deleted" \notin Kind
  /\ MaxTemplates \in Nat /\ MaxEdits \in Nat /\ MaxRestarts \in Nat
  /\ MaxTime \in Nat /\ MaxTime >= 2
  /\ Expires \in Nat \ {0} /\ WarnDays \in Nat \ {0} /\ MonthDays \in Nat \ {0}
  /\ FreeMails \in Nat \ {0} /\ MemberMails \in Nat /\ FreeMails <= MemberMails /\ MemberSms \in Nat
  /\ Advances \subseteq Nat \ {0} /\ TriggerDays \in Nat /\ WarnDays < TriggerDays
BY NotifyAssumption DEF NotifyAssumption

\* Days and months begin with time and pass with it.
LEMMA DaysOfTime ==
  /\ \A t \in Nat : Day(t) \in Nat /\ Month(t) \in Nat
  /\ \A s, t \in Nat : s <= t => Day(s) <= Day(t) /\ Month(s) <= Month(t)
<1>1. \A m \in Nat \ {0}, t \in Nat : t \div m \in Nat
  OBVIOUS
<1>2. \A m \in Nat \ {0} : \A s, t \in Nat : s <= t => s \div m <= t \div m
  OBVIOUS
<1>3. /\ \A t \in Nat : Day(t) \in Nat
      /\ \A s, t \in Nat : s <= t => Day(s) <= Day(t)
  BY <1>1, <1>2 DEF Day
<1> HIDE DEF Day
<1> QED
  BY <1>1, <1>2, <1>3, Constants DEF Month

\* Where the clock is.
LEMMA TimeNow ==
  ASSUME TypeOK
  PROVE  /\ now \in Nat /\ now <= MaxTime
         /\ Today \in Days /\ Month(now) \in Months
         /\ scan.time \in Nat /\ scan.time <= now /\ owner.seen \in Nat /\ owner.seen <= now
         /\ Day(scan.time) \in Nat /\ Day(scan.time) <= Today
         /\ scan.days \in Nat /\ Months \subseteq Nat /\ Days \subseteq Nat
<1>1. now \in Nat /\ now <= MaxTime
  BY Constants DEF TypeOK
<1>2. scan.time \in 0..now /\ owner.seen \in 0..now /\ scan.days \in Days
  BY DEF TypeOK
<1>3. Days \subseteq Nat /\ Months \subseteq Nat
  BY DEF Days, Months
<1> HIDE DEF Day, Month
<1>4. Today \in Days /\ Month(now) \in Months
  BY <1>1, DaysOfTime, Constants DEF Today, Days, Months
<1>5. scan.time \in Nat /\ scan.time <= now /\ owner.seen \in Nat /\ owner.seen <= now
  BY <1>1, <1>2
<1>6. Day(scan.time) \in Nat /\ Day(scan.time) <= Today
  BY <1>1, <1>5, DaysOfTime DEF Today
<1> QED
  BY <1>1, <1>2, <1>3, <1>4, <1>5, <1>6

------------------------------------------------------------------------------
(* What the scan is after each of its steps *)

Scanning(at, time, tier, windows, key, days, medium, todo) ==
  [at |-> at, time |-> time, tier |-> tier, windows |-> windows, key |-> key,
   days |-> days, medium |-> medium, todo |-> todo]

ScanType ==
  [at : {"idle", "expiry", "escalation", "im", "send", "count", "trigger"},
   time : 0..now, tier : {"free", "member"}, windows : SUBSET (Advances \union {Past}),
   key : Key, days : Days, medium : Medium,
   todo : SUBSET (Address \union {Registered} \union Phone)]

\* It goes idle, or triggers with the days it counted.
Rests == Scanning("idle", 0, "free", {}, <<"expiry", Past>>, 0, "email", {})
Triggers == Scanning("trigger", scan.time, "free", {}, <<"expiry", Past>>, scan.days, "email", {})

\* The steps of a scan, by where it is.
LEMMA ScanSteps ==
  ASSUME TypeOK
  PROVE  /\ ScanBegins =>
              scan' = Scanning("expiry", now, owner.tier, Windows(now), <<"expiry", Past>>, 0, "email", {})
         /\ NotifyUser => \E w \in scan.windows :
              /\ InsertReminder(<<"expiry", w>>, 0)
              /\ scan' = Scanning("send", scan.time, scan.tier, scan.windows \ {w}, <<"expiry", w>>,
                                  scan.days, "email", UserEmails)
         /\ ProcessEscalation => LET days == Day(IF scan.time < owner.seen THEN 0 ELSE scan.time - owner.seen) IN
              \/ scan' = Rests
              \/ scan' = Scanning("escalation", scan.time, owner.tier, scan.windows, scan.key,
                                  days, scan.medium, scan.todo)
         /\ NotifyEscalation =>
              \/ /\ reminders[<<"escalation", Today>>].status # "none"
                 /\ \/ scan' = Rests
                    \/ scan.days >= TriggerDays /\ scan' = Triggers
              \/ /\ reminders[<<"escalation", Today>>].status = "none"
                 /\ scan' = Scanning("im", scan.time, scan.tier, scan.windows, <<"escalation", Today>>,
                                     scan.days, scan.medium, scan.todo)
         /\ SendIMWebhook =>
              scan' = Scanning("send", scan.time, scan.tier, scan.windows, scan.key, scan.days, "email", UserEmails)
         /\ SendByOwnSMTP \/ Send => \E to \in scan.todo, at \in {"send", "count"} :
              scan' = Scanning(at, scan.time, scan.tier, scan.windows, scan.key, scan.days, scan.medium,
                               scan.todo \ {to})
         /\ QuotaIncr =>
              scan' = Scanning("send", scan.time, scan.tier, scan.windows, scan.key, scan.days, scan.medium, scan.todo)
         /\ AllSent =>
              \/ /\ scan.key[1] = "expiry" \/ scan.days >= TriggerDays
                 /\ scan' = Scanning("send", scan.time, scan.tier, scan.windows, scan.key, scan.days, "sms", UserPhones)
              \/ scan' = Scanning("expiry", scan.time, scan.tier, scan.windows, <<"expiry", Past>>, scan.days,
                                  "email", scan.todo)
              \/ scan' = Rests
              \/ scan.key[1] # "expiry" /\ scan.days >= TriggerDays /\ scan' = Triggers
         /\ TriggerInheritance \/ Restart => scan' = Rests
<1> USE DEF Scanning
<1>1. scan = Scanning(scan.at, scan.time, scan.tier, scan.windows, scan.key, scan.days, scan.medium, scan.todo)
  BY DEF TypeOK
<1>2. Idle = Rests /\ Idle.key = <<"expiry", Past>> /\ Idle.medium = "email"
  BY DEF Idle, Rests
<1>3. scan.days \in Nat /\ (AfterEscalation = Rests \/ (scan.days >= TriggerDays /\ AfterEscalation = Triggers))
  <2>1. [Idle EXCEPT !.at = "trigger", !.time = scan.time, !.days = scan.days] = Triggers
    <3> DEFINE t == scan.time
               d == scan.days
    <3>1. /\ Idle = Scanning(Idle.at, Idle.time, Idle.tier, Idle.windows, Idle.key, Idle.days, Idle.medium, Idle.todo)
          /\ Idle.tier = "free" /\ Idle.windows = {} /\ Idle.todo = {}
      BY DEF Idle
    <3> HIDE DEF t, d
    <3>2. ASSUME NEW s, s = [Idle EXCEPT !.at = "trigger", !.time = t, !.days = d]
          PROVE  s = Scanning("trigger", t, Idle.tier, Idle.windows, Idle.key, d, Idle.medium, Idle.todo)
      BY <3>1, <3>2
    <3> QED
      BY <1>2, <3>1, <3>2 DEF Triggers, t, d
  <2> QED
    BY <1>2, <2>1, TimeNow, Constants DEF AfterEscalation
<1>4. ScanBegins =>
        scan' = Scanning("expiry", now, owner.tier, Windows(now), <<"expiry", Past>>, 0, "email", {})
  BY DEF ScanBegins, Scan, Idle
<1>5. NotifyUser => \E w \in scan.windows :
        /\ InsertReminder(<<"expiry", w>>, 0)
        /\ scan' = Scanning("send", scan.time, scan.tier, scan.windows \ {w}, <<"expiry", w>>,
                            scan.days, "email", UserEmails)
  <2> SUFFICES ASSUME NotifyUser
               PROVE  \E w \in scan.windows :
                        /\ InsertReminder(<<"expiry", w>>, 0)
                        /\ scan' = Scanning("send", scan.time, scan.tier, scan.windows \ {w}, <<"expiry", w>>,
                                            scan.days, "email", UserEmails)
    OBVIOUS
  <2>1. PICK w \in scan.windows :
          /\ InsertReminder(<<"expiry", w>>, 0)
          /\ scan' = [scan EXCEPT !.at = "send", !.windows = scan.windows \ {w}, !.key = <<"expiry", w>>,
                                  !.medium = "email", !.todo = UserEmails]
    BY DEF NotifyUser, Scan
  <2> QED
    BY <1>1, <2>1
<1>6. ASSUME ProcessEscalation
      PROVE  LET days == Day(IF scan.time < owner.seen THEN 0 ELSE scan.time - owner.seen) IN
              \/ scan' = Rests
              \/ scan' = Scanning("escalation", scan.time, owner.tier, scan.windows, scan.key,
                                  days, scan.medium, scan.todo)
  <2> DEFINE days == Day(IF scan.time < owner.seen THEN 0 ELSE scan.time - owner.seen)
  <2>1. scan' = Idle \/ scan' = [scan EXCEPT !.at = "escalation", !.tier = owner.tier, !.days = days]
    BY <1>6 DEF ProcessEscalation, Scan
  <2> HIDE DEF days
  <2>2. scan' = Rests \/ scan' = Scanning("escalation", scan.time, owner.tier, scan.windows, scan.key,
                                          days, scan.medium, scan.todo)
    BY <1>1, <1>2, <2>1
  <2> QED
    BY <2>2 DEF days
<1>7. ASSUME NotifyEscalation
      PROVE  \/ /\ reminders[<<"escalation", Today>>].status # "none"
                /\ \/ scan' = Rests
                   \/ scan.days >= TriggerDays /\ scan' = Triggers
             \/ /\ reminders[<<"escalation", Today>>].status = "none"
                /\ scan' = Scanning("im", scan.time, scan.tier, scan.windows, <<"escalation", Today>>,
                                    scan.days, scan.medium, scan.todo)
  <2>1. CASE reminders[<<"escalation", Today>>].status # "none"
    <3>1. scan' = AfterEscalation
      BY <1>7, <2>1 DEF NotifyEscalation, Scan
    <3> QED
      BY <1>3, <2>1, <3>1
  <2>2. CASE reminders[<<"escalation", Today>>].status = "none"
    <3>1. scan' = [scan EXCEPT !.at = "im", !.key = <<"escalation", Today>>]
      BY <1>7, <2>2 DEF NotifyEscalation, Scan
    <3>2. scan' = Scanning("im", scan.time, scan.tier, scan.windows, <<"escalation", Today>>,
                           scan.days, scan.medium, scan.todo)
      BY <1>1, <3>1
    <3> QED
      BY <2>2, <3>2
  <2> QED
    BY <2>1, <2>2
<1>8. SendIMWebhook =>
        scan' = Scanning("send", scan.time, scan.tier, scan.windows, scan.key, scan.days, "email", UserEmails)
  BY <1>1 DEF SendIMWebhook, Scan
<1>9. ASSUME SendByOwnSMTP \/ Send
      PROVE  \E to \in scan.todo, at \in {"send", "count"} :
               scan' = Scanning(at, scan.time, scan.tier, scan.windows, scan.key, scan.days, scan.medium,
                                scan.todo \ {to})
  <2>1. PICK to \in scan.todo : \/ scan' = [scan EXCEPT !.todo = scan.todo \ {to}]
                               \/ scan' = [scan EXCEPT !.at = "count", !.todo = scan.todo \ {to}]
    BY <1>9 DEF SendByOwnSMTP, Send, Scan
  <2>2. scan.at = "send"
    BY <1>9 DEF SendByOwnSMTP, Send, ScanAt
  <2> QED
    BY <1>1, <2>1, <2>2
<1>10. QuotaIncr =>
         scan' = Scanning("send", scan.time, scan.tier, scan.windows, scan.key, scan.days, scan.medium, scan.todo)
  BY <1>1 DEF QuotaIncr, Scan
<1>11. ASSUME AllSent
       PROVE  \/ /\ scan.key[1] = "expiry" \/ scan.days >= TriggerDays
                 /\ scan' = Scanning("send", scan.time, scan.tier, scan.windows, scan.key, scan.days, "sms", UserPhones)
              \/ scan' = Scanning("expiry", scan.time, scan.tier, scan.windows, <<"expiry", Past>>, scan.days,
                                  "email", scan.todo)
              \/ scan' = Rests
              \/ scan.key[1] # "expiry" /\ scan.days >= TriggerDays /\ scan' = Triggers
  <2>1. CASE /\ scan.key[1] = "expiry" \/ scan.days >= TriggerDays
             /\ scan' = [scan EXCEPT !.medium = "sms", !.todo = UserPhones]
    <3>1. scan.at = "send"
      BY <1>11 DEF AllSent, ScanAt
    <3>2. scan' = Scanning("send", scan.time, scan.tier, scan.windows, scan.key, scan.days, "sms", UserPhones)
      BY <1>1, <2>1, <3>1
    <3> QED
      BY <2>1, <3>2
  <2>2. CASE scan' = [scan EXCEPT !.at = "expiry", !.key = Idle.key, !.medium = Idle.medium]
    BY <1>1, <1>2, <2>2
  <2>3. CASE scan' = AfterEscalation /\ scan.key[1] # "expiry"
    BY <1>3, <2>3
  <2> QED
    BY <1>11, <2>1, <2>2, <2>3 DEF AllSent, Scan
<1>12. TriggerInheritance \/ Restart => scan' = Rests
  BY <1>2 DEF TriggerInheritance, Restart, Scan
<1> QED
  BY <1>4, <1>5, <1>6, <1>7, <1>8, <1>9, <1>10, <1>11, <1>12

------------------------------------------------------------------------------
(* Who changes what *)

RequestStep(r) ==
  \/ PutChannelsReads(r) \/ PutChannels(r) \/ CreateTemplateReads(r) \/ CreateTemplate(r)
  \/ SetDefaultReads(r) \/ SetDefault(r)
OwnerStep ==
  \/ Tick \/ OwnerSeen \/ SetTier \/ PutSMTP \/ MarkRead \/ UpdateTemplate \/ DeleteTemplate
  \/ \E r \in Request : RequestStep(r)
SchedulerStep ==
  \/ ScanBegins \/ NotifyUser \/ ProcessEscalation \/ NotifyEscalation \/ SendIMWebhook
  \/ SendByOwnSMTP \/ Send \/ QuotaIncr \/ AllSent \/ TriggerInheritance

\* The actions by who takes them.
LEMMA Steps == Next <=> OwnerStep \/ SchedulerStep \/ Restart
BY DEF Next, OwnerStep, SchedulerStep, RequestStep

\* Time passes and the owner acts without touching what the scheduler counts.
LEMMA OwnerFrame ==
  ASSUME TypeOK, OwnerStep
  PROVE  /\ UNCHANGED <<scan, sent, counted, escalated, restarts>>
         /\ now' = now \/ (now < MaxTime /\ now' = now + 1)
         /\ edits' = edits \/ (edits < MaxEdits /\ edits' = edits + 1)
         /\ reminders' = reminders \/ MarkRead
<1>1. CASE Tick
  BY <1>1 DEF Tick, account, sending
<1>2. CASE OwnerSeen \/ SetTier \/ PutSMTP
  BY <1>2 DEF OwnerSeen, SetTier, PutSMTP, Edit, sending
<1>3. CASE MarkRead
  BY <1>3 DEF MarkRead, Edit
<1>4. CASE UpdateTemplate \/ DeleteTemplate
  BY <1>4 DEF UpdateTemplate, DeleteTemplate, sending
<1>5. ASSUME NEW r \in Request, RequestStep(r)
      PROVE  /\ UNCHANGED <<scan, sent, counted, escalated, restarts, now, reminders>>
             /\ edits' = edits \/ (edits < MaxEdits /\ edits' = edits + 1)
  BY <1>5 DEF RequestStep, PutChannelsReads, PutChannels, CreateTemplateReads, CreateTemplate,
              SetDefaultReads, SetDefault, Edit, sending
<1> QED
  BY <1>1, <1>2, <1>3, <1>4, <1>5 DEF OwnerStep

\* What the scheduler leaves alone.
LEMMA SchedulerFrame ==
  ASSUME SchedulerStep
  PROVE  UNCHANGED <<now, owner, channels, templates, req, edits, restarts>>
BY DEF SchedulerStep, ScanBegins, NotifyUser, ProcessEscalation, NotifyEscalation, SendIMWebhook,
       SendByOwnSMTP, Send, QuotaIncr, AllSent, TriggerInheritance, Scan, account

------------------------------------------------------------------------------
(* Types *)

\* The keys of reminders.
LEMMA Keys ==
  /\ \A k \in Key : k[1] = "escalation" => k[2] \in Days /\ k = <<"escalation", k[2]>>
  /\ \A d \in Days : <<"escalation", d>> \in Key
  /\ \A w \in Advances \union {Past} : <<"expiry", w>> \in Key
  /\ \A k \in Key : k[1] \in {"expiry", "escalation"}
BY DEF Key

\* The types of the scan's variables, by where it is.
LEMMA ScanTypeNow ==
  ASSUME TypeOK
  PROVE  scan \in ScanType
BY DEF TypeOK, ScanType

\* The scan after a step: fields of the right sorts.
LEMMA ScanTypeStep ==
  ASSUME TypeOK, OwnerStep \/ SchedulerStep \/ Restart
  PROVE  scan' \in ScanType'
<1>1. /\ scan.at \in {"idle", "expiry", "escalation", "im", "send", "count", "trigger"}
      /\ scan.time \in 0..now /\ scan.tier \in {"free", "member"}
      /\ scan.windows \in SUBSET (Advances \union {Past}) /\ scan.key \in Key /\ scan.days \in Days
      /\ scan.medium \in Medium /\ scan.todo \in SUBSET (Address \union {Registered} \union Phone)
      /\ scan = Scanning(scan.at, scan.time, scan.tier, scan.windows, scan.key, scan.days, scan.medium, scan.todo)
  BY DEF TypeOK, Scanning
<1>2. now \in Nat /\ now <= MaxTime /\ now' \in Nat /\ now <= now'
  <2>1. now \in Nat /\ now <= MaxTime
    BY TimeNow
  <2>2. CASE OwnerStep
    BY <2>1, <2>2, OwnerFrame
  <2>3. CASE SchedulerStep
    BY <2>1, <2>3, SchedulerFrame
  <2>4. CASE Restart
    BY <2>1, <2>4 DEF Restart
  <2> QED
    BY <2>1, <2>2, <2>3, <2>4
<1>3. /\ <<"expiry", Past>> \in Key /\ 0 \in Days /\ Today \in Days /\ "email" \in Medium /\ "sms" \in Medium
      /\ UserEmails \in SUBSET (Address \union {Registered} \union Phone)
      /\ UserPhones \in SUBSET (Address \union {Registered} \union Phone)
      /\ Windows(now) \in SUBSET (Advances \union {Past}) /\ owner.tier \in {"free", "member"}
  <2>1. 0 \in Days
    BY DaysOfTime, Constants DEF Days
  <2>2. Today \in Days
    BY TimeNow
  <2> QED
    BY <2>1, <2>2, Keys DEF Medium, UserEmails, UserPhones, Windows, TypeOK
<1>4. ASSUME NEW at \in {"idle", "expiry", "escalation", "im", "send", "count", "trigger"},
             NEW time \in 0..now, NEW tier \in {"free", "member"},
             NEW windows \in SUBSET (Advances \union {Past}), NEW key \in Key, NEW days \in Days,
             NEW medium \in Medium, NEW todo \in SUBSET (Address \union {Registered} \union Phone)
      PROVE  Scanning(at, time, tier, windows, key, days, medium, todo) \in ScanType'
  <2>1. time \in 0..now'
    BY <1>2
  <2>2. ScanType' = [at : {"idle", "expiry", "escalation", "im", "send", "count", "trigger"},
                     time : 0..now', tier : {"free", "member"}, windows : SUBSET (Advances \union {Past}),
                     key : Key, days : Days, medium : Medium,
                     todo : SUBSET (Address \union {Registered} \union Phone)]
    BY DEF ScanType, Key, Medium, Days, Past
  <2> HIDE DEF ScanType
  <2> QED
    BY <2>1, <2>2 DEF Scanning
<1> HIDE DEF ScanType
<1>5. Rests \in ScanType' /\ Triggers \in ScanType'
  <2>1. 0 \in 0..now
    BY <1>2
  <2> QED
    BY <1>1, <1>3, <1>4, <2>1 DEF Rests, Triggers
<1>6. CASE scan' = scan
  BY <1>1, <1>4, <1>6
<1>7. CASE ScanBegins
  <2>1. now \in 0..now
    BY <1>2
  <2> QED
    BY <1>3, <1>4, <1>7, <2>1, ScanSteps
<1>8. CASE NotifyUser
  <2>1. PICK w \in scan.windows :
          scan' = Scanning("send", scan.time, scan.tier, scan.windows \ {w}, <<"expiry", w>>,
                           scan.days, "email", UserEmails)
    BY <1>8, ScanSteps
  <2>2. <<"expiry", w>> \in Key /\ scan.windows \ {w} \in SUBSET (Advances \union {Past})
    BY <1>1, Keys
  <2> QED
    BY <1>1, <1>3, <1>4, <2>1, <2>2
<1>9. CASE ProcessEscalation
  <2> DEFINE days == Day(IF scan.time < owner.seen THEN 0 ELSE scan.time - owner.seen)
  <2>1. days \in Days
    <3>1. PICK t \in Nat : t <= MaxTime /\ t = IF scan.time < owner.seen THEN 0 ELSE scan.time - owner.seen
      BY TimeNow, Constants
    <3>2. Day(t) \in Days
      BY <3>1, DaysOfTime, Constants DEF Days
    <3> QED
      BY <3>1, <3>2
  <2>2. \/ scan' = Rests
        \/ scan' = Scanning("escalation", scan.time, owner.tier, scan.windows, scan.key,
                            days, scan.medium, scan.todo)
    BY <1>9, ScanSteps
  <2> HIDE DEF days
  <2> QED
    BY <1>1, <1>3, <1>4, <1>5, <2>1, <2>2
<1>10. CASE NotifyEscalation
  <2>1. <<"escalation", Today>> \in Key
    BY <1>3, Keys
  <2> QED
    BY <1>1, <1>4, <1>5, <1>10, <2>1, ScanSteps
<1>11. CASE SendIMWebhook \/ QuotaIncr
  BY <1>1, <1>3, <1>4, <1>11, ScanSteps
<1>12. CASE SendByOwnSMTP \/ Send
  <2>1. PICK to \in scan.todo, at \in {"send", "count"} :
          scan' = Scanning(at, scan.time, scan.tier, scan.windows, scan.key, scan.days, scan.medium,
                           scan.todo \ {to})
    BY <1>12, ScanSteps
  <2>2. scan.todo \ {to} \in SUBSET (Address \union {Registered} \union Phone)
    BY <1>1
  <2> QED
    BY <1>1, <1>4, <2>1, <2>2
<1>13. CASE AllSent
  BY <1>1, <1>3, <1>4, <1>5, <1>13, ScanSteps
<1>14. CASE TriggerInheritance \/ Restart
  BY <1>5, <1>14, ScanSteps
<1> QED
  BY <1>6, <1>7, <1>8, <1>9, <1>10, <1>11, <1>12, <1>13, <1>14, OwnerFrame DEF SchedulerStep

ReminderRow == [status : {"none", "pending", "read"}, days : 0..Day(MaxTime)]

\* A reminder is written once, with the silence its escalation counted, and read once.
LEMMA ReminderSteps ==
  ASSUME TypeOK, Next
  PROVE  /\ reminders' \in [Key -> ReminderRow]
         /\ \A k \in Key :
              \/ reminders'[k] = reminders[k]
              \/ /\ reminders[k].status = "pending" /\ reminders'[k].status = "read"
                 /\ reminders'[k].days = reminders[k].days
              \/ /\ reminders[k].status = "none" /\ reminders'[k].status = "pending"
                 /\ \/ k[1] = "expiry"
                    \/ NotifyEscalation /\ k = <<"escalation", Today>> /\ reminders'[k].days = scan.days
<1>1. reminders \in [Key -> ReminderRow] /\ 0 \in 0..Day(MaxTime) /\ scan.days \in 0..Day(MaxTime)
  <2>1. reminders \in [Key -> ReminderRow] /\ scan.days \in 0..Day(MaxTime)
    BY DEF TypeOK, ReminderRow, Days
  <2>2. Day(MaxTime) \in Nat
    BY DaysOfTime, Constants
  <2> QED
    BY <2>1, <2>2
<1> HIDE DEF Key, Day
<1> DEFINE Goal(k) ==
      \/ reminders'[k] = reminders[k]
      \/ /\ reminders[k].status = "pending" /\ reminders'[k].status = "read"
         /\ reminders'[k].days = reminders[k].days
      \/ /\ reminders[k].status = "none" /\ reminders'[k].status = "pending"
         /\ \/ k[1] = "expiry"
            \/ NotifyEscalation /\ k = <<"escalation", Today>> /\ reminders'[k].days = scan.days
<1>2. CASE reminders' = reminders
  BY <1>1, <1>2
<1>3. ASSUME NEW key \in Key, NEW days \in 0..Day(MaxTime), InsertReminder(key, days)
      PROVE  /\ reminders' \in [Key -> ReminderRow]
             /\ \A k \in Key : \/ reminders'[k] = reminders[k]
                              \/ /\ reminders[k].status = "none" /\ reminders'[k].status = "pending"
                                 /\ k = key /\ reminders'[k].days = days
  BY <1>1, <1>3 DEF InsertReminder, ReminderRow
<1>4. CASE NotifyUser
  <2>1. PICK w \in scan.windows : InsertReminder(<<"expiry", w>>, 0)
    BY <1>4 DEF NotifyUser
  <2>2. <<"expiry", w>> \in Key
    BY <2>1, Keys DEF TypeOK
  <2>3. /\ reminders' \in [Key -> ReminderRow]
        /\ \A k \in Key : \/ reminders'[k] = reminders[k]
                         \/ /\ reminders[k].status = "none" /\ reminders'[k].status = "pending"
                            /\ k = <<"expiry", w>> /\ reminders'[k].days = 0
    BY <1>1, <1>3, <2>1, <2>2
  <2> QED
    BY <2>3
<1>5. CASE NotifyEscalation
  <2>1. InsertReminder(<<"escalation", Today>>, scan.days)
    BY <1>5 DEF NotifyEscalation
  <2>2. <<"escalation", Today>> \in Key
    BY TimeNow, Keys
  <2>3. /\ reminders' \in [Key -> ReminderRow]
        /\ \A k \in Key : \/ reminders'[k] = reminders[k]
                         \/ /\ reminders[k].status = "none" /\ reminders'[k].status = "pending"
                            /\ k = <<"escalation", Today>> /\ reminders'[k].days = scan.days
    BY <1>1, <1>3, <2>1, <2>2
  <2> QED
    BY <1>5, <2>3
<1>6. CASE MarkRead
  <2>1. PICK K \in SUBSET {k \in Key : reminders[k].status = "pending"} :
          reminders' = [k \in Key |-> IF k \in K THEN [reminders[k] EXCEPT !.status = "read"]
                                      ELSE reminders[k]]
    BY <1>6 DEF MarkRead
  <2>2. ASSUME NEW k \in Key
        PROVE  /\ reminders'[k] \in ReminderRow
               /\ \/ reminders'[k] = reminders[k]
                  \/ /\ reminders[k].status = "pending" /\ reminders'[k].status = "read"
                     /\ reminders'[k].days = reminders[k].days
    BY <1>1, <2>1 DEF ReminderRow
  <2> QED
    BY <2>1, <2>2
<1>7. CASE OwnerStep
  BY <1>2, <1>6, <1>7, OwnerFrame
<1>8. CASE SchedulerStep /\ ~NotifyUser /\ ~NotifyEscalation
  BY <1>2, <1>8 DEF SchedulerStep, ScanBegins, ProcessEscalation, SendIMWebhook, SendByOwnSMTP, Send,
                    QuotaIncr, AllSent, TriggerInheritance, sending
<1>9. CASE Restart
  BY <1>2, <1>9 DEF Restart, sending
<1> QED
  BY <1>4, <1>5, <1>7, <1>8, <1>9, Steps

\* One message leaves at most, of the month it is, and it had quota.
LEMMA SentSteps ==
  ASSUME TypeOK, Next
  PROVE  /\ sent' \in [Months -> [Medium -> Nat]] /\ counted' \in [Months -> [Medium -> Nat]]
         /\ \/ /\ UNCHANGED <<sent, counted>> /\ (ScanAt("count") => scan' = scan \/ Restart)
            \/ /\ Send /\ ScanAt("send") /\ QuotaAllowed(scan.tier, scan.medium)
               /\ scan'.at = "count" /\ scan'.medium = scan.medium /\ counted' = counted
               /\ \A m \in Months, x \in Medium :
                    sent'[m][x] = sent[m][x] + (IF m = Month(now) /\ x = scan.medium THEN 1 ELSE 0)
            \/ /\ QuotaIncr /\ ScanAt("count") /\ scan'.at = "send" /\ sent' = sent
               /\ \A m \in Months, x \in Medium :
                    counted'[m][x] = counted[m][x] + (IF m = Month(now) /\ x = scan.medium THEN 1 ELSE 0)
<1>1. /\ sent \in [Months -> [Medium -> Nat]] /\ counted \in [Months -> [Medium -> Nat]]
      /\ scan.medium \in Medium /\ Month(now) \in Months
  BY TimeNow DEF TypeOK
<1> HIDE DEF Month, Months, Medium
<1>2. ASSUME NEW f \in [Months -> [Medium -> Nat]], NEW g,
             g = [f EXCEPT ![Month(now)][scan.medium] = @ + 1]
      PROVE  /\ g \in [Months -> [Medium -> Nat]]
             /\ \A m \in Months, x \in Medium :
                  g[m][x] = f[m][x] + (IF m = Month(now) /\ x = scan.medium THEN 1 ELSE 0)
  BY <1>1, <1>2
<1>3. CASE OwnerStep
  BY <1>1, <1>3, OwnerFrame
<1>4. CASE Restart
  BY <1>1, <1>4 DEF Restart, sending
<1>5. CASE Send
  <2>1. CASE QuotaAllowed(scan.tier, scan.medium)
    <3>1. PICK to \in scan.todo :
            /\ scan' = [scan EXCEPT !.at = "count", !.todo = @ \ {to}]
            /\ sent' = [sent EXCEPT ![Month(now)][scan.medium] = @ + 1] /\ counted' = counted
      BY <1>5, <2>1 DEF Send, Scan
    <3>2. scan'.at = "count" /\ scan'.medium = scan.medium
      BY <3>1 DEF TypeOK
    <3>3. /\ sent' \in [Months -> [Medium -> Nat]]
          /\ \A m \in Months, x \in Medium :
               sent'[m][x] = sent[m][x] + (IF m = Month(now) /\ x = scan.medium THEN 1 ELSE 0)
      BY <1>1, <1>2, <3>1
    <3>4. ScanAt("send")
      BY <1>5 DEF Send
    <3> QED
      BY <1>1, <1>5, <2>1, <3>1, <3>2, <3>3, <3>4
  <2>2. CASE ~QuotaAllowed(scan.tier, scan.medium)
    BY <1>1, <1>5, <2>2 DEF Send, ScanAt
  <2> QED
    BY <2>1, <2>2
<1>6. CASE QuotaIncr
  <2>1. /\ counted' = [counted EXCEPT ![Month(now)][scan.medium] = @ + 1] /\ sent' = sent
        /\ scan' = [scan EXCEPT !.at = "send"] /\ ScanAt("count")
    BY <1>6 DEF QuotaIncr, Scan
  <2>2. scan'.at = "send"
    BY <2>1 DEF TypeOK
  <2> QED
    BY <1>1, <1>2, <1>6, <2>1, <2>2
<1>7. CASE SchedulerStep /\ ~Send /\ ~QuotaIncr
  BY <1>1, <1>7 DEF SchedulerStep, ScanBegins, NotifyUser, ProcessEscalation, NotifyEscalation,
                    SendIMWebhook, SendByOwnSMTP, AllSent, TriggerInheritance, sending, ScanAt
<1> QED
  BY <1>3, <1>4, <1>5, <1>6, <1>7, Steps

\* An escalation goes out by IM from "im" and by SMS from "send".
LEMMA EscalatedSteps ==
  ASSUME TypeOK, EscalatingIsWritten, Next
  PROVE  /\ escalated' \in [Days -> [im : Nat, sms : BOOLEAN]]
         /\ \/ escalated' = escalated
            \/ /\ SendIMWebhook /\ ScanAt("im") /\ scan.key[2] \in Days
               /\ scan.key = <<"escalation", scan.key[2]>> /\ scan'.at = "send"
               /\ \A d \in Days :
                    /\ escalated'[d].im = escalated[d].im + (IF d = scan.key[2] THEN 1 ELSE 0)
                    /\ escalated'[d].sms = escalated[d].sms
            \/ /\ Send /\ ScanAt("send") /\ scan.medium = "sms" /\ scan.key[2] \in Days
               /\ scan.key = <<"escalation", scan.key[2]>>
               /\ \A d \in Days :
                    /\ escalated'[d].im = escalated[d].im
                    /\ escalated'[d].sms = (IF d = scan.key[2] THEN TRUE ELSE escalated[d].sms)
<1>1. escalated \in [Days -> [im : Nat, sms : BOOLEAN]] /\ scan.key \in Key
  BY DEF TypeOK
<1>2. scan.key[1] = "escalation" => scan.key[2] \in Days /\ scan.key = <<"escalation", scan.key[2]>>
  BY <1>1, Keys
<1> HIDE DEF Days, Key
<1>3. CASE escalated' = escalated
  BY <1>1, <1>3
<1>4. CASE SendIMWebhook
  <2>1. /\ ScanAt("im") /\ scan.key[1] = "escalation"
        /\ escalated' = [escalated EXCEPT ![scan.key[2]].im = @ + 1]
        /\ scan' = [scan EXCEPT !.at = "send", !.medium = "email", !.todo = UserEmails]
    BY <1>4 DEF SendIMWebhook, EscalatingIsWritten, Scan
  <2>2. scan'.at = "send"
    BY <2>1 DEF TypeOK
  <2>3. /\ escalated' \in [Days -> [im : Nat, sms : BOOLEAN]]
        /\ \A d \in Days :
             /\ escalated'[d].im = escalated[d].im + (IF d = scan.key[2] THEN 1 ELSE 0)
             /\ escalated'[d].sms = escalated[d].sms
    BY <1>1, <1>2, <2>1
  <2> QED
    BY <1>2, <1>4, <2>1, <2>2, <2>3
<1>5. CASE Send /\ escalated' # escalated
  <2>1. /\ ScanAt("send") /\ scan.medium = "sms" /\ scan.key[1] = "escalation"
        /\ escalated' = [escalated EXCEPT ![scan.key[2]].sms = TRUE]
    BY <1>5 DEF Send
  <2>2. /\ escalated' \in [Days -> [im : Nat, sms : BOOLEAN]]
        /\ \A d \in Days :
             /\ escalated'[d].im = escalated[d].im
             /\ escalated'[d].sms = (IF d = scan.key[2] THEN TRUE ELSE escalated[d].sms)
    BY <1>1, <1>2, <2>1
  <2> QED
    BY <1>2, <1>5, <2>1, <2>2
<1>6. CASE OwnerStep \/ Restart
  BY <1>3, <1>6, OwnerFrame DEF Restart, sending
<1>7. CASE SchedulerStep /\ ~Send /\ ~SendIMWebhook
  BY <1>3, <1>7 DEF SchedulerStep, ScanBegins, NotifyUser, ProcessEscalation, NotifyEscalation,
                    SendByOwnSMTP, QuotaIncr, AllSent, TriggerInheritance, sending
<1> QED
  BY <1>3, <1>4, <1>5, <1>6, <1>7, Steps

\* What the owner edits keeps its type, and requests act on templates that are there.
ReqRow == [step : {"idle", "create", "channels", "default"}, id : 0..MaxTemplates,
           kind : Kind \union {"none"}, first : BOOLEAN, emails : SUBSET Address, phones : SUBSET Phone]
TemplateRow == [kind : Kind \union {"none", "deleted"}, default : BOOLEAN]

\* The types are kept by what the owner does.
LEMMA OwnerTypeStep ==
  ASSUME TypeOK, TemplateInHand, Next
  PROVE  /\ owner' \in [tier : {"free", "member"}, seen : 0..now', wasMember : BOOLEAN]
         /\ channels' \in [emails : SUBSET Address, phones : SUBSET Phone, smtp : BOOLEAN]
         /\ templates' \in [1..MaxTemplates -> TemplateRow] /\ req' \in [Request -> ReqRow]
         /\ TemplateInHand'
<1> DEFINE Goal ==
      /\ owner' \in [tier : {"free", "member"}, seen : 0..now', wasMember : BOOLEAN]
      /\ channels' \in [emails : SUBSET Address, phones : SUBSET Phone, smtp : BOOLEAN]
      /\ templates' \in [1..MaxTemplates -> TemplateRow] /\ req' \in [Request -> ReqRow]
      /\ TemplateInHand'
<1>1. /\ owner \in [tier : {"free", "member"}, seen : 0..now, wasMember : BOOLEAN]
      /\ channels \in [emails : SUBSET Address, phones : SUBSET Phone, smtp : BOOLEAN]
      /\ templates \in [1..MaxTemplates -> TemplateRow] /\ req \in [Request -> ReqRow]
      /\ now \in Nat
  BY TimeNow DEF TypeOK, ReqRow, TemplateRow
<1>2. owner' = owner /\ now' \in Nat /\ now' >= now =>
        owner' \in [tier : {"free", "member"}, seen : 0..now', wasMember : BOOLEAN]
  BY <1>1
<1>3. req' = req => TemplateInHand'
  BY DEF TemplateInHand, At
<1>4. NoReq \in ReqRow /\ NoReq.step = "idle"
  BY Constants DEF NoReq, ReqRow
<1>5. ASSUME NEW r \in Request, Answer(r)
      PROVE  req' \in [Request -> ReqRow] /\ TemplateInHand'
  BY <1>1, <1>4, <1>5 DEF Answer, TemplateInHand, At
<1>6. ASSUME NEW r \in Request, NEW q \in ReqRow, Begin(r, q),
             q.step = "default" => q.id \in 1..MaxTemplates, q.step = "create" => q.kind \in Kind
      PROVE  req' \in [Request -> ReqRow] /\ TemplateInHand'
  BY <1>1, <1>6 DEF Begin, TemplateInHand, At
<1>7. CASE SchedulerStep
  BY <1>1, <1>2, <1>3, <1>7, SchedulerFrame
<1>8. CASE Restart
  <2>1. req' = [r \in Request |-> NoReq] /\ UNCHANGED <<now, owner, channels, templates>>
    BY <1>8 DEF Restart, account
  <2>2. req' \in [Request -> ReqRow] /\ TemplateInHand'
    BY <1>4, <2>1 DEF TemplateInHand, At
  <2> QED
    BY <1>1, <1>2, <2>1, <2>2
<1>9. CASE Tick \/ MarkRead
  <2>1. UNCHANGED <<owner, channels, templates, req>> /\ now' \in Nat /\ now' >= now
    BY <1>1, <1>9 DEF Tick, MarkRead, Edit, account
  <2> QED
    BY <1>1, <1>2, <1>3, <2>1
<1>10. CASE OwnerSeen
  <2>1. owner' = [owner EXCEPT !.seen = now] /\ UNCHANGED <<channels, templates, req, now>>
    BY <1>10 DEF OwnerSeen, Edit
  <2> QED
    BY <1>1, <1>3, <2>1
<1>11. CASE SetTier
  <2>1. PICK tier \in {"free", "member"} :
          owner' = [owner EXCEPT !.tier = tier, !.wasMember = owner.wasMember \/ tier = "member"]
    BY <1>11 DEF SetTier
  <2>2. UNCHANGED <<channels, templates, req, now>>
    BY <1>11 DEF SetTier, Edit
  <2> QED
    BY <1>1, <1>3, <2>1, <2>2
<1>12. CASE PutSMTP
  <2>1. channels' = [channels EXCEPT !.smtp = ~channels.smtp] /\ UNCHANGED <<owner, templates, req, now>>
    BY <1>12 DEF PutSMTP, Edit
  <2> QED
    BY <1>1, <1>2, <1>3, <2>1
<1>13. CASE UpdateTemplate \/ DeleteTemplate
  <2>1. UNCHANGED <<owner, channels, req, now>>
    BY <1>13 DEF UpdateTemplate, DeleteTemplate
  <2>2. templates' \in [1..MaxTemplates -> TemplateRow]
    <3>1. CASE UpdateTemplate
      BY <1>1, <3>1 DEF UpdateTemplate, TemplateRow
    <3>2. CASE DeleteTemplate
      BY <1>1, <3>2 DEF DeleteTemplate, DeletedTemplate, TemplateRow
    <3> QED
      BY <1>13, <3>1, <3>2
  <2> QED
    BY <1>1, <1>2, <1>3, <2>1, <2>2
<1>14. ASSUME NEW r \in Request, PutChannelsReads(r) \/ CreateTemplateReads(r) \/ SetDefaultReads(r)
       PROVE  Goal
  <2>1. UNCHANGED <<owner, channels, templates, now>>
    BY <1>14 DEF PutChannelsReads, CreateTemplateReads, SetDefaultReads, Edit, account
  <2>2. req' \in [Request -> ReqRow] /\ TemplateInHand'
    <3>1. CASE PutChannelsReads(r)
      <4>1. PICK emails \in SUBSET Address, phones \in SUBSET Phone :
              Begin(r, [NoReq EXCEPT !.step = "channels", !.emails = emails, !.phones = phones])
        BY <3>1 DEF PutChannelsReads
      <4>2. PICK q : q = [NoReq EXCEPT !.step = "channels", !.emails = emails, !.phones = phones]
        OBVIOUS
      <4>3. q \in ReqRow /\ q.step = "channels"
        BY <1>4, <4>2 DEF ReqRow
      <4> QED
        BY <1>6, <4>1, <4>2, <4>3
    <3>2. CASE CreateTemplateReads(r)
      <4>1. PICK kind \in Kind, first \in BOOLEAN :
              Begin(r, [NoReq EXCEPT !.step = "create", !.kind = kind, !.first = first])
        BY <3>2 DEF CreateTemplateReads
      <4>2. PICK q : q = [NoReq EXCEPT !.step = "create", !.kind = kind, !.first = first]
        OBVIOUS
      <4>3. q \in ReqRow /\ q.step = "create" /\ q.kind = kind
        BY <1>4, <4>2 DEF ReqRow
      <4> QED
        BY <1>6, <4>1, <4>2, <4>3
    <3>3. CASE SetDefaultReads(r)
      <4>1. PICK i \in 1..MaxTemplates :
              templates[i].kind \in Kind
              /\ Begin(r, [NoReq EXCEPT !.step = "default", !.id = i, !.kind = templates[i].kind])
        BY <3>3 DEF SetDefaultReads, Here
      <4>2. PICK q : q = [NoReq EXCEPT !.step = "default", !.id = i, !.kind = templates[i].kind]
        OBVIOUS
      <4>3. q \in ReqRow /\ q.step = "default" /\ q.id = i
        <5> DEFINE k == templates[i].kind
        <5>1. i \in 0..MaxTemplates /\ k \in Kind
          BY <4>1, Constants
        <5> HIDE DEF k
        <5>2. q = [NoReq EXCEPT !.step = "default", !.id = i, !.kind = k]
          BY <4>2 DEF k
        <5> QED
          BY <1>4, <5>1, <5>2 DEF ReqRow
      <4> QED
        BY <1>6, <4>1, <4>2, <4>3
    <3> QED
      BY <1>14, <3>1, <3>2, <3>3
  <2> QED
    BY <1>1, <1>2, <2>1, <2>2
<1>15. ASSUME NEW r \in Request, PutChannels(r) \/ CreateTemplate(r) \/ SetDefault(r)
       PROVE  Goal
  <2>1. Answer(r) /\ UNCHANGED <<owner, now>>
    BY <1>15 DEF PutChannels, CreateTemplate, SetDefault
  <2>2. req[r] \in ReqRow
    BY <1>1
  <2>3. channels' \in [emails : SUBSET Address, phones : SUBSET Phone, smtp : BOOLEAN]
    BY <1>1, <1>15, <2>2 DEF PutChannels, CreateTemplate, SetDefault, ReqRow
  <2>4. templates' \in [1..MaxTemplates -> TemplateRow]
    <3>1. CASE PutChannels(r)
      BY <1>1, <3>1 DEF PutChannels
    <3>2. CASE CreateTemplate(r)
      <4>1. PICK i \in 1..MaxTemplates :
              templates' = [templates EXCEPT ![i] = [kind |-> req[r].kind, default |-> req[r].first]]
        BY <3>2 DEF CreateTemplate
      <4>2. [kind |-> req[r].kind, default |-> req[r].first] \in TemplateRow
        BY <2>2 DEF ReqRow, TemplateRow
      <4> QED
        BY <1>1, <4>1, <4>2
    <3>3. CASE SetDefault(r)
      <4>1. \A i \in 1..MaxTemplates, b \in BOOLEAN : [templates[i] EXCEPT !.default = b] \in TemplateRow
        BY <1>1 DEF TemplateRow
      <4>2. templates' = [i \in 1..MaxTemplates |-> templates'[i]]
        BY <3>3 DEF SetDefault
      <4>3. ASSUME NEW i \in 1..MaxTemplates
            PROVE  templates'[i] = templates[i] \/ \E b \in BOOLEAN : templates'[i] = [templates[i] EXCEPT !.default = b]
        BY <3>3 DEF SetDefault
      <4>4. ASSUME NEW i \in 1..MaxTemplates
            PROVE  templates'[i] \in TemplateRow
        <5>1. templates'[i] = templates[i] \/ \E b \in BOOLEAN : templates'[i] = [templates[i] EXCEPT !.default = b]
          BY <4>3
        <5>2. templates[i] \in TemplateRow
          BY <1>1
        <5> QED
          BY <4>1, <5>1, <5>2
      <4> QED
        BY <4>2, <4>4, Zenon
    <3> QED
      BY <1>15, <3>1, <3>2, <3>3
  <2>5. owner' \in [tier : {"free", "member"}, seen : 0..now', wasMember : BOOLEAN]
    BY <1>1, <1>2, <2>1
  <2> QED
    BY <1>5, <2>1, <2>3, <2>4, <2>5
<1> QED
  BY <1>7, <1>8, <1>9, <1>10, <1>11, <1>12, <1>13, <1>14, <1>15, Steps DEF OwnerStep, RequestStep

\* The types are kept by every step.
LEMMA TypeStep ==
  ASSUME TypeOK, TemplateInHand, EscalatingIsWritten, Next
  PROVE  TypeOK'
<1>1. /\ now' \in 0..MaxTime /\ edits' \in 0..MaxEdits /\ restarts' \in 0..MaxRestarts
  <2>1. now \in 0..MaxTime /\ edits \in 0..MaxEdits /\ restarts \in 0..MaxRestarts
    BY DEF TypeOK
  <2>2. CASE OwnerStep
    BY <2>1, <2>2, OwnerFrame, Constants
  <2>3. CASE SchedulerStep
    BY <2>1, <2>3, SchedulerFrame
  <2>4. CASE Restart
    BY <2>1, <2>4, Constants DEF Restart
  <2> QED
    BY <2>2, <2>3, <2>4, Steps
<1>2. scan' \in ScanType'
  BY ScanTypeStep, Steps
<1> QED
  BY <1>1, <1>2, OwnerTypeStep, ReminderSteps, SentSteps, EscalatedSteps
     DEF TypeOK, ScanType, ReqRow, TemplateRow, ReminderRow, Days, Months, Key, Medium

------------------------------------------------------------------------------
(* Each part of the invariant *)

\* Time and restarts only grow.
LEMMA Grow ==
  ASSUME TypeOK, Next
  PROVE  /\ now' \in Nat /\ now' >= now /\ (~OwnerStep => now' = now)
         /\ Month(now') >= Month(now) /\ Day(now') >= Day(now)
         /\ Month(now') \in Nat /\ Month(now) \in Nat /\ Day(now') \in Nat /\ Day(now) \in Nat
         /\ restarts \in Nat /\ restarts' = (IF Restart THEN restarts + 1 ELSE restarts)
<1>1. now \in Nat /\ restarts \in Nat
  BY TimeNow DEF TypeOK
<1>2. /\ now' \in Nat /\ now' >= now /\ (~OwnerStep => now' = now)
      /\ restarts' = (IF Restart THEN restarts + 1 ELSE restarts)
  BY <1>1, OwnerFrame, SchedulerFrame, Steps DEF Restart
<1> QED
  BY <1>1, <1>2, DaysOfTime

\* MembersAreKnown is kept.
LEMMA MembersStep ==
  ASSUME TypeOK, MembersAreKnown, Next
  PROVE  /\ MembersAreKnown'
         /\ owner.wasMember => owner'.wasMember
<1>1. owner \in [tier : {"free", "member"}, seen : 0..now, wasMember : BOOLEAN]
  BY DEF TypeOK
<1>2. /\ owner'.tier = "member" => owner'.wasMember
      /\ owner.wasMember => owner'.wasMember
  <2>1. CASE owner' = owner
    BY <2>1 DEF MembersAreKnown
  <2>2. CASE OwnerSeen
    <3>1. owner' = [owner EXCEPT !.seen = now]
      BY <2>2 DEF OwnerSeen
    <3> QED
      BY <1>1, <3>1 DEF MembersAreKnown
  <2>3. CASE SetTier
    <3>1. PICK tier \in {"free", "member"} :
            owner' = [owner EXCEPT !.tier = tier, !.wasMember = owner.wasMember \/ tier = "member"]
      BY <2>3 DEF SetTier
    <3> QED
      BY <1>1, <3>1
  <2>4. CASE SchedulerStep \/ Restart
    BY <2>1, <2>4, SchedulerFrame DEF Restart, account
  <2>5. CASE Tick \/ PutSMTP \/ MarkRead \/ UpdateTemplate \/ DeleteTemplate
    BY <2>1, <2>5 DEF Tick, PutSMTP, MarkRead, UpdateTemplate, DeleteTemplate, account
  <2>6. ASSUME NEW r \in Request, RequestStep(r)
        PROVE  owner' = owner
    BY <2>6 DEF RequestStep, PutChannelsReads, PutChannels, CreateTemplateReads, CreateTemplate,
                SetDefaultReads, SetDefault, account
  <2> QED
    BY <2>1, <2>2, <2>3, <2>4, <2>5, <2>6, Steps DEF OwnerStep
<1>3. scan'.tier \in {scan.tier, owner.tier, "free"}
  <2>1. Rests.tier = "free" /\ Triggers.tier = "free"
    BY DEF Rests, Triggers, Scanning
  <2>2. \A at, time, tier, windows, key, days, medium, todo :
          Scanning(at, time, tier, windows, key, days, medium, todo).tier = tier
    BY DEF Scanning
  <2>3. CASE OwnerStep
    BY <2>3, OwnerFrame
  <2>4. CASE ScanBegins \/ ProcessEscalation \/ NotifyEscalation
    BY <2>1, <2>2, <2>4, ScanSteps
  <2>5. CASE NotifyUser
    <3>1. PICK w \in scan.windows :
            scan' = Scanning("send", scan.time, scan.tier, scan.windows \ {w}, <<"expiry", w>>,
                             scan.days, "email", UserEmails)
      BY <2>5, ScanSteps
    <3> QED
      BY <3>1 DEF Scanning
  <2>6. CASE SendByOwnSMTP \/ Send
    <3>1. PICK to \in scan.todo, at \in {"send", "count"} :
            scan' = Scanning(at, scan.time, scan.tier, scan.windows, scan.key, scan.days, scan.medium,
                             scan.todo \ {to})
      BY <2>6, ScanSteps
    <3> QED
      BY <3>1 DEF Scanning
  <2>7. CASE SendIMWebhook \/ QuotaIncr \/ AllSent
    BY <2>1, <2>2, <2>7, ScanSteps
  <2>8. CASE TriggerInheritance \/ Restart
    BY <2>1, <2>8, ScanSteps
  <2> QED
    BY <2>3, <2>4, <2>5, <2>6, <2>7, <2>8, Steps DEF SchedulerStep
<1> QED
  BY <1>2, <1>3 DEF MembersAreKnown

\* Counting follows sending, and only a restart comes between them.
LEMMA SentStep ==
  ASSUME TypeOK, SentIsCounted, Next
  PROVE  SentIsCounted'
<1> DEFINE flag(x) == IF ScanAt("count") /\ scan.medium = x THEN 1 ELSE 0
<1>1. /\ \A m \in Months, x \in Medium : sent[m][x] \in Nat /\ counted[m][x] \in Nat
      /\ scan.medium \in Medium /\ Months \subseteq Nat
  <2>1. sent \in [Months -> [Medium -> Nat]] /\ counted \in [Months -> [Medium -> Nat]]
    BY DEF TypeOK
  <2>2. scan.medium \in Medium
    BY DEF TypeOK
  <2>3. Months \subseteq Nat
    BY DEF Months
  <2> QED
    BY <2>1, <2>2, <2>3
<1> HIDE DEF Months, Month, Medium
<1>2. ASSUME NEW m \in Months, NEW x \in Medium, m >= Month(now')
      PROVE  sent'[m][x] <= counted'[m][x] + restarts' + (IF scan'.at = "count" /\ scan'.medium = x THEN 1 ELSE 0)
  <2>1. m >= Month(now) /\ m \in Nat
    BY <1>1, <1>2, Grow
  <2>2. sent[m][x] <= counted[m][x] + restarts + flag(x) /\ flag(x) \in {0, 1}
    BY <2>1 DEF SentIsCounted
  <2>3. CASE UNCHANGED <<sent, counted>> /\ (ScanAt("count") => scan' = scan \/ Restart)
    BY <1>1, <2>2, <2>3, Grow DEF ScanAt
  <2>4. CASE /\ ScanAt("send") /\ scan'.at = "count" /\ scan'.medium = scan.medium /\ counted' = counted
             /\ sent'[m][x] = sent[m][x] + (IF m = Month(now) /\ x = scan.medium THEN 1 ELSE 0)
    BY <1>1, <2>2, <2>4, Grow DEF ScanAt
  <2>5. CASE /\ ScanAt("count") /\ scan'.at = "send" /\ sent' = sent
             /\ counted'[m][x] = counted[m][x] + (IF m = Month(now) /\ x = scan.medium THEN 1 ELSE 0)
    <3>1. CASE m = Month(now)
      BY <1>1, <2>2, <2>5, <3>1, Grow DEF ScanAt
    <3>2. CASE m > Month(now)
      <4>1. sent[m][x] = 0
        BY <3>2 DEF SentIsCounted
      <4> QED
        BY <1>1, <2>5, <3>2, <4>1, Grow DEF ScanAt
    <3> QED
      BY <2>1, <3>1, <3>2, Grow
  <2> QED
    BY <2>3, <2>4, <2>5, SentSteps
<1>3. ASSUME NEW m \in Months, NEW x \in Medium, m > Month(now')
      PROVE  sent'[m][x] = 0
  <2>1. m > Month(now) /\ m \in Nat
    BY <1>1, <1>3, Grow
  <2>2. sent[m][x] = 0
    BY <2>1 DEF SentIsCounted
  <2> QED
    BY <2>1, <2>2, SentSteps, Grow
<1>4. Month(now)' = Month(now') /\ Months' = Months
  BY DEF Month, Months
<1> QED
  BY <1>2, <1>3, <1>4 DEF SentIsCounted, ScanAt

\* The quota of the tier the scan has read is at most that of the best tier.
LEMMA QuotaStep ==
  ASSUME TypeOK, MembersAreKnown, SentIsCounted, QuotaKept, Next
  PROVE  QuotaKept'
<1>1. /\ \A m \in Months, x \in Medium : sent[m][x] \in Nat /\ counted[m][x] \in Nat
      /\ scan.medium \in Medium /\ scan.tier \in {"free", "member"} /\ Month(now) \in Months
      /\ Months \subseteq Nat
  BY TimeNow DEF TypeOK
<1>2. \A x \in Medium :
        /\ Quota("free", x) \in Nat /\ Quota("member", x) \in Nat
        /\ Quota("free", x) <= Quota("member", x)
  BY Constants DEF Quota, Medium
<1> HIDE DEF Months, Month, Medium
<1>3. ASSUME NEW m \in Months, NEW x \in Medium
      PROVE  sent'[m][x] <= Quota(IF owner'.wasMember THEN "member" ELSE "free", x) + restarts'
  <2>1. sent[m][x] <= Quota(IF owner.wasMember THEN "member" ELSE "free", x) + restarts
    BY DEF QuotaKept
  <2>2. /\ Quota(IF owner.wasMember THEN "member" ELSE "free", x) <= Quota(IF owner'.wasMember THEN "member" ELSE "free", x)
        /\ Quota(IF owner'.wasMember THEN "member" ELSE "free", x) \in Nat
        /\ Quota(IF owner.wasMember THEN "member" ELSE "free", x) \in Nat
    BY <1>2, MembersStep
  <2>3. CASE sent'[m][x] = sent[m][x]
    BY <1>1, <2>1, <2>2, <2>3, Grow
  <2>4. CASE /\ m = Month(now) /\ x = scan.medium /\ ScanAt("send") /\ QuotaAllowed(scan.tier, scan.medium)
             /\ sent'[m][x] = sent[m][x] + 1
    <3>1. counted[m][x] < Quota(scan.tier, x)
      BY <2>4 DEF QuotaAllowed
    <3>2. sent[m][x] <= counted[m][x] + restarts
      BY <1>1, <2>4, Grow DEF SentIsCounted, ScanAt
    <3>3. Quota(scan.tier, x) <= Quota(IF owner.wasMember THEN "member" ELSE "free", x) /\ Quota(scan.tier, x) \in Nat
      BY <1>1, <1>2 DEF MembersAreKnown
    <3> QED
      BY <1>1, <2>2, <2>4, <3>1, <3>2, <3>3, Grow
  <2> QED
    BY <1>1, <2>3, <2>4, SentSteps
<1>4. Months' = Months /\ Medium' = Medium
  BY DEF Months, Medium
<1> QED
  BY <1>3, <1>4 DEF QuotaKept, Quota

\* What is written stays written, with the silence it says.
LEMMA WrittenStays ==
  ASSUME TypeOK, Next, NEW k \in Key, reminders[k].status # "none"
  PROVE  reminders'[k].status # "none" /\ reminders'[k].days = reminders[k].days
BY ReminderSteps

\* The reminder comes before what the escalation sends, and says the same.
LEMMA EscalatingStep ==
  ASSUME TypeOK, EscalationFollowsReminder, EscalatingIsWritten, Next
  PROVE  EscalatingIsWritten'
<1> DEFINE Goal ==
      /\ scan'.at \in {"expiry", "escalation", "im"} => scan'.medium = "email"
      /\ scan'.at = "im" => scan'.key[1] = "escalation" /\ escalated'[scan'.key[2]].im = 0
      /\ scan'.at \in {"im", "send", "count"} /\ scan'.key[1] = "escalation" =>
           /\ reminders'[scan'.key].status # "none" /\ reminders'[scan'.key].days = scan'.days
           /\ scan'.medium = "sms" => scan'.days >= TriggerDays
           /\ scan'.key[2] <= Day(now') /\ scan'.key[2] >= Day(scan'.time) - scan'.days
<1>0. SUFFICES Goal
  BY DEF EscalatingIsWritten, Escalating, ScanAt, Today, Day
<1>1. /\ scan.key \in Key /\ now \in Nat /\ Day(now) \in Nat /\ Day(scan.time) \in Nat /\ Day(scan.time) <= Day(now)
      /\ scan.days \in Nat /\ Days \subseteq Nat
      /\ (scan.key[1] = "escalation" => scan.key[2] \in Days /\ scan.key = <<"escalation", scan.key[2]>>)
  BY TimeNow, DaysOfTime, Keys DEF TypeOK, Today
<1> HIDE DEF Day, Days, Key
\* The same escalation goes on.
<1>2. ASSUME Escalating, scan'.key = scan.key, scan'.days = scan.days, scan'.time = scan.time
      PROVE  /\ reminders'[scan'.key].status # "none" /\ reminders'[scan'.key].days = scan'.days
             /\ scan'.key[2] <= Day(now') /\ scan'.key[2] >= Day(scan'.time) - scan'.days
  <2>1. /\ reminders[scan.key].status # "none" /\ reminders[scan.key].days = scan.days
        /\ scan.key[2] <= Day(now) /\ scan.key[2] >= Day(scan.time) - scan.days
        /\ scan.key[1] = "escalation"
    BY <1>2 DEF EscalatingIsWritten, Escalating, Today
  <2>2. reminders'[scan.key].status # "none" /\ reminders'[scan.key].days = scan.days
    BY <1>1, <2>1, WrittenStays
  <2>3. Day(now') >= Day(now) /\ Day(now') \in Nat /\ scan.key[2] \in Nat
    BY <1>1, <2>1, Grow
  <2>4. scan.key[2] <= Day(now')
    BY <1>1, <2>1, <2>3
  <2> QED
    BY <1>2, <2>1, <2>2, <2>4
<1>3. CASE OwnerStep
  BY <1>2, <1>3, OwnerFrame DEF EscalatingIsWritten, Escalating, ScanAt
<1>4. CASE ScanBegins \/ ProcessEscalation \/ TriggerInheritance \/ Restart
  <2>1. (scan'.at \in {"idle", "expiry", "escalation"} /\ scan'.medium = "email") \/ ProcessEscalation
    BY <1>4, ScanSteps DEF Scanning, Rests
  <2>2. CASE ProcessEscalation
    <3>1. scan.medium = "email"
      BY <2>2 DEF ProcessEscalation, ScanAt, EscalatingIsWritten
    <3>2. scan'.at \in {"idle", "escalation"} /\ scan'.medium = "email"
      BY <2>2, <3>1, ScanSteps DEF Scanning, Rests
    <3> QED
      BY <3>2
  <2> QED
    BY <2>1, <2>2
<1>5. CASE NotifyUser
  <2>1. PICK w \in scan.windows :
          scan' = Scanning("send", scan.time, scan.tier, scan.windows \ {w}, <<"expiry", w>>,
                           scan.days, "email", UserEmails)
    BY <1>5, ScanSteps
  <2>2. scan'.at = "send" /\ scan'.key[1] = "expiry"
    BY <2>1 DEF Scanning
  <2> QED
    BY <2>2
<1>6. CASE NotifyEscalation
  <2>1. scan.medium = "email"
    BY <1>6 DEF NotifyEscalation, ScanAt, EscalatingIsWritten
  <2>2. CASE scan' = Rests \/ scan' = Triggers
    BY <2>2 DEF Rests, Triggers, Scanning
  <2>3. CASE /\ reminders[<<"escalation", Today>>].status = "none"
             /\ scan' = Scanning("im", scan.time, scan.tier, scan.windows, <<"escalation", Today>>,
                                 scan.days, scan.medium, scan.todo)
    <3>1. /\ scan'.at = "im" /\ scan'.key = <<"escalation", Today>> /\ scan'.days = scan.days
          /\ scan'.time = scan.time /\ scan'.medium = "email" /\ scan'.key[1] = "escalation" /\ scan'.key[2] = Today
      BY <2>1, <2>3 DEF Scanning
    <3>2. <<"escalation", Today>> \in Key /\ Today \in Days
      BY TimeNow, Keys
    <3>3. InsertReminder(<<"escalation", Today>>, scan.days) /\ escalated' = escalated /\ now' = now
      BY <1>6 DEF NotifyEscalation, Scan
    <3>4. reminders'[<<"escalation", Today>>] = [status |-> "pending", days |-> scan.days]
      BY <2>3, <3>2, <3>3 DEF InsertReminder, TypeOK
    <3>5. escalated[Today].im = 0
      <4>1. escalated[Today].im <= 0 /\ escalated[Today].im \in Nat
        BY <2>3, <3>2 DEF EscalationFollowsReminder, TypeOK
      <4> QED
        BY <4>1
    <3>6. Today = Day(now) /\ Day(now) >= Day(scan.time) - scan.days
      BY <1>1 DEF Today
    <3> QED
      BY <1>1, <3>1, <3>3, <3>4, <3>5, <3>6
  <2> QED
    BY <1>6, <2>2, <2>3, ScanSteps
<1>7. CASE SendIMWebhook
  <2>1. /\ scan'.at = "send" /\ scan'.key = scan.key /\ scan'.days = scan.days /\ scan'.time = scan.time
        /\ scan'.medium = "email"
    BY <1>7, ScanSteps DEF Scanning
  <2>2. Escalating
    BY <1>7 DEF SendIMWebhook, EscalatingIsWritten, Escalating, ScanAt
  <2> QED
    BY <1>2, <2>1, <2>2
<1>8. CASE SendByOwnSMTP \/ Send \/ QuotaIncr
  <2>1. \E at \in {"send", "count"} : \E todo :
          scan' = Scanning(at, scan.time, scan.tier, scan.windows, scan.key, scan.days, scan.medium, todo)
    BY <1>8, ScanSteps
  <2>2. /\ scan'.at \in {"send", "count"} /\ scan'.key = scan.key /\ scan'.days = scan.days
        /\ scan'.time = scan.time /\ scan'.medium = scan.medium
    BY <2>1 DEF Scanning
  <2>3. scan.at \in {"send", "count"}
    BY <1>8 DEF SendByOwnSMTP, Send, QuotaIncr, ScanAt
  <2> QED
    BY <1>2, <2>2, <2>3 DEF EscalatingIsWritten, Escalating
<1>9. CASE AllSent
  <2>1. CASE /\ scan.key[1] = "expiry" \/ scan.days >= TriggerDays
             /\ scan' = Scanning("send", scan.time, scan.tier, scan.windows, scan.key, scan.days, "sms", UserPhones)
    <3>1. /\ scan'.at = "send" /\ scan'.key = scan.key /\ scan'.days = scan.days /\ scan'.time = scan.time
      BY <2>1 DEF Scanning
    <3>2. scan.at = "send"
      BY <1>9 DEF AllSent, ScanAt
    <3> QED
      BY <1>2, <2>1, <3>1, <3>2 DEF EscalatingIsWritten, Escalating
  <2>2. CASE scan' = Scanning("expiry", scan.time, scan.tier, scan.windows, <<"expiry", Past>>, scan.days,
                              "email", scan.todo)
    BY <2>2 DEF Scanning
  <2>3. CASE scan' = Rests \/ scan' = Triggers
    BY <2>3 DEF Rests, Triggers, Scanning
  <2> QED
    BY <1>9, <2>1, <2>2, <2>3, ScanSteps
<1> QED
  BY <1>3, <1>4, <1>5, <1>6, <1>7, <1>8, <1>9, Steps DEF SchedulerStep

\* EscalationFollowsReminder and SmsIsWritten are kept.
LEMMA EscalatedStep ==
  ASSUME TypeOK, EscalationFollowsReminder, EscalatingIsWritten, SmsIsWritten, Next
  PROVE  EscalationFollowsReminder' /\ SmsIsWritten'
<1> SUFFICES ASSUME NEW d \in Days
             PROVE  /\ escalated'[d].im <= (IF reminders'[<<"escalation", d>>].status = "none" THEN 0 ELSE 1)
                    /\ escalated'[d].sms => reminders'[<<"escalation", d>>].days >= TriggerDays
                    /\ escalated'[d].sms => reminders'[<<"escalation", d>>].status # "none"
  BY DEF EscalationFollowsReminder, SmsIsWritten, Days, Day
<1> DEFINE k == <<"escalation", d>>
<1>1. /\ k \in Key /\ escalated[d].im \in Nat
      /\ escalated[d].im <= (IF reminders[k].status = "none" THEN 0 ELSE 1)
      /\ escalated[d].sms => reminders[k].days >= TriggerDays /\ reminders[k].status # "none"
  BY Keys DEF EscalationFollowsReminder, SmsIsWritten, TypeOK
<1> HIDE DEF Key, Days, Day, k
<1>2. reminders[k].status # "none" =>
        reminders'[k].status # "none" /\ reminders'[k].days = reminders[k].days
  BY <1>1, WrittenStays
<1>3. CASE escalated'[d] = escalated[d]
  BY <1>1, <1>2, <1>3 DEF k
<1>4. CASE /\ ScanAt("im") /\ scan.key = <<"escalation", scan.key[2]>> /\ d = scan.key[2]
           /\ escalated'[d].im = escalated[d].im + 1 /\ escalated'[d].sms = escalated[d].sms
  <2>1. reminders[k].status # "none" /\ escalated[d].im = 0
    BY <1>4 DEF EscalatingIsWritten, Escalating, ScanAt, k
  <2> QED
    BY <1>1, <1>2, <1>4, <2>1 DEF k
<1>5. CASE /\ ScanAt("send") /\ scan.medium = "sms" /\ scan.key = <<"escalation", scan.key[2]>> /\ d = scan.key[2]
           /\ escalated'[d].im = escalated[d].im
  <2>1. reminders[k].status # "none" /\ reminders[k].days >= TriggerDays
    BY <1>5 DEF EscalatingIsWritten, Escalating, ScanAt, k
  <2> QED
    BY <1>1, <1>2, <1>5, <2>1 DEF k
<1>6. CASE /\ escalated'[d].im = escalated[d].im /\ escalated'[d].sms = escalated[d].sms
  BY <1>1, <1>2, <1>6 DEF k
<1>7. CASE SendIMWebhook /\ escalated' # escalated
  <2>1. /\ ScanAt("im") /\ scan.key = <<"escalation", scan.key[2]>>
        /\ escalated'[d].im = escalated[d].im + (IF d = scan.key[2] THEN 1 ELSE 0)
        /\ escalated'[d].sms = escalated[d].sms
    <3>1. ~Send
      BY <1>7 DEF SendIMWebhook, Send, ScanAt
    <3> QED
      BY <1>7, <3>1, EscalatedSteps
  <2> QED
    BY <1>1, <1>4, <1>6, <2>1
<1>8. CASE Send /\ escalated' # escalated
  <2>1. /\ ScanAt("send") /\ scan.medium = "sms" /\ scan.key = <<"escalation", scan.key[2]>>
        /\ escalated'[d].im = escalated[d].im
        /\ escalated'[d].sms = (IF d = scan.key[2] THEN TRUE ELSE escalated[d].sms)
    <3>1. ~SendIMWebhook
      BY <1>8 DEF SendIMWebhook, Send, ScanAt
    <3> QED
      BY <1>8, <3>1, EscalatedSteps
  <2> QED
    BY <1>5, <1>6, <2>1
<1> QED
  BY <1>3, <1>7, <1>8, EscalatedSteps

\* Whoever triggers has the reminder of a day within the silence behind them.
LEMMA AnnouncedStep ==
  ASSUME TypeOK, EscalatingIsWritten, Announced, Next
  PROVE  Announced'
<1> SUFFICES ASSUME scan'.at = "trigger"
             PROVE  \E d \in Days : /\ reminders'[<<"escalation", d>>].status # "none"
                                   /\ d >= Day(scan'.time) - scan'.days /\ d <= Day(now')
  BY DEF Announced, ScanAt, Days, Day, Today
<1>1. /\ scan.key \in Key /\ now \in Nat /\ Day(now) \in Nat /\ Day(scan.time) \in Nat /\ Day(scan.time) <= Day(now)
      /\ scan.days \in Nat /\ Days \subseteq Nat /\ Today \in Days
      /\ (scan.key[1] = "escalation" => scan.key[2] \in Days /\ scan.key = <<"escalation", scan.key[2]>>)
      /\ scan.key[1] \in {"expiry", "escalation"}
  BY TimeNow, DaysOfTime, Keys DEF TypeOK, Today
<1> HIDE DEF Day, Days, Key
<1>2. ASSUME NEW d \in Days, reminders[<<"escalation", d>>].status # "none",
             d >= Day(scan.time) - scan.days, d <= Day(now), scan'.time = scan.time, scan'.days = scan.days
      PROVE  \E e \in Days : /\ reminders'[<<"escalation", e>>].status # "none"
                            /\ e >= Day(scan'.time) - scan'.days /\ e <= Day(now')
  <2>1. reminders'[<<"escalation", d>>].status # "none"
    BY <1>2, Keys, WrittenStays
  <2>2. d <= Day(now')
    BY <1>1, <1>2, Grow
  <2> QED
    BY <1>2, <2>1, <2>2
<1>3. CASE OwnerStep
  <2>1. scan' = scan
    BY <1>3, OwnerFrame
  <2>2. PICK d \in Days : /\ reminders[<<"escalation", d>>].status # "none"
                          /\ d >= Day(scan.time) - scan.days /\ d <= Today
    BY <2>1 DEF Announced, ScanAt
  <2> QED
    BY <1>2, <2>1, <2>2 DEF Today
<1>4. CASE NotifyEscalation
  <2>1. reminders[<<"escalation", Today>>].status # "none" /\ scan'.time = scan.time /\ scan'.days = scan.days
    BY <1>4, ScanSteps DEF Scanning, Rests, Triggers
  <2>2. Today >= Day(scan.time) - scan.days /\ Today <= Day(now)
    BY <1>1 DEF Today
  <2> QED
    BY <1>1, <1>2, <2>1, <2>2
<1>5. CASE AllSent
  <2>1. scan.key[1] # "expiry" /\ scan'.time = scan.time /\ scan'.days = scan.days
    BY <1>5, ScanSteps DEF Scanning, Rests, Triggers
  <2>2. /\ reminders[scan.key].status # "none"
        /\ scan.key[2] <= Day(now) /\ scan.key[2] >= Day(scan.time) - scan.days
    BY <1>1, <1>5, <2>1 DEF AllSent, ScanAt, EscalatingIsWritten, Escalating, Today
  <2> QED
    BY <1>1, <1>2, <2>1, <2>2
<1>6. CASE ScanBegins \/ ProcessEscalation \/ SendIMWebhook \/ QuotaIncr \/ TriggerInheritance \/ Restart
  BY <1>6, ScanSteps DEF Scanning, Rests
<1>7. CASE NotifyUser
  <2>1. PICK w \in scan.windows :
          scan' = Scanning("send", scan.time, scan.tier, scan.windows \ {w}, <<"expiry", w>>,
                           scan.days, "email", UserEmails)
    BY <1>7, ScanSteps
  <2> QED
    BY <2>1 DEF Scanning
<1>8. CASE SendByOwnSMTP \/ Send
  <2>1. PICK to \in scan.todo, at \in {"send", "count"} :
          scan' = Scanning(at, scan.time, scan.tier, scan.windows, scan.key, scan.days, scan.medium,
                           scan.todo \ {to})
    BY <1>8, ScanSteps
  <2> QED
    BY <2>1 DEF Scanning
<1> QED
  BY <1>3, <1>4, <1>5, <1>6, <1>7, <1>8, Steps DEF SchedulerStep

------------------------------------------------------------------------------
(* Templates *)

\* More than one template can answer only among defaults.
LEMMA ManyAreDefaults ==
  ASSUME NEW kind \in Kind
  PROVE  /\ IsFiniteSet(Defaults(kind)) /\ Cardinality(Defaults(kind)) \in Nat
         /\ Cardinality(Rendered(kind)) > 1 => Rendered(kind) = Defaults(kind)
<1> DEFINE least == {i \in Own(kind) : \A j \in Own(kind) : i <= j}
<1>1. IsFiniteSet(Defaults(kind)) /\ Cardinality(Defaults(kind)) \in Nat
  <2>1. IsFiniteSet(1..MaxTemplates) /\ Defaults(kind) \in SUBSET (1..MaxTemplates)
    BY Constants, FS_Interval DEF Defaults, Own
  <2> QED
    BY <2>1, FS_Subset, FS_CardinalityType
<1>2. Cardinality(least) \in {0, 1}
  <2>1. \A i, j \in least : i = j
    BY Constants DEF Own
  <2>2. least = {} \/ \E i : least = {i}
    BY <2>1
  <2> HIDE DEF least
  <2> QED
    BY <2>2, FS_EmptySet, FS_Singleton
<1>3. Cardinality({Preset}) = 1
  BY FS_Singleton
<1>4. Rendered(kind) \in {Defaults(kind), least, {Preset}}
  BY DEF Rendered
<1> HIDE DEF least
<1> QED
  BY <1>1, <1>2, <1>3, <1>4

\* After a step there are finitely many defaults of a type, and several templates
\* answer only if they are defaults.
LEMMA ManyAreDefaultsNext ==
  ASSUME NEW kind \in Kind
  PROVE  /\ IsFiniteSet(Defaults(kind)') /\ Cardinality(Defaults(kind)') \in Nat
         /\ Cardinality(Rendered(kind)') > 1 => Rendered(kind)' = Defaults(kind)'
<1> DEFINE least == {i \in Own(kind)' : \A j \in Own(kind)' : i <= j}
<1>1. IsFiniteSet(Defaults(kind)') /\ Cardinality(Defaults(kind)') \in Nat
  <2>1. IsFiniteSet(1..MaxTemplates) /\ Defaults(kind)' \in SUBSET (1..MaxTemplates)
    BY Constants, FS_Interval DEF Defaults, Own
  <2> QED
    BY <2>1, FS_Subset, FS_CardinalityType
<1>2. Cardinality(least) \in {0, 1}
  <2>1. \A i, j \in least : i = j
    BY Constants DEF Own
  <2>2. least = {} \/ \E i : least = {i}
    BY <2>1
  <2> HIDE DEF least
  <2> QED
    BY <2>2, FS_EmptySet, FS_Singleton
<1>3. Cardinality({Preset}) = 1
  BY FS_Singleton
<1>4. Rendered(kind)' \in {Defaults(kind)', least, {Preset}}
  BY DEF Rendered, Preset
<1> HIDE DEF least
<1> QED
  BY <1>1, <1>2, <1>3, <1>4

\* What may add a default to a type.
AddsDefault(kind) ==
  \/ \E r \in Request : At(r, "create") /\ ~At(r, "create")' /\ Own(kind) # {} /\ req[r].first
  \/ \E i \in Defaults(kind)' : templates[i].kind # kind
  \/ \E r \in Request : /\ At(r, "default") /\ ~At(r, "default")'
                        /\ templates[req[r].id].kind # req[r].kind

\* A step that adds no default leaves those there were, or one at most.
LEMMA DefaultsStep ==
  ASSUME TypeOK, TemplateInHand, Next, NEW kind \in Kind, ~AddsDefault(kind)
  PROVE  Defaults(kind)' \subseteq Defaults(kind) \/ \E x : Defaults(kind)' \subseteq {x}
<1>1. templates \in [1..MaxTemplates -> TemplateRow] /\ req \in [Request -> ReqRow]
  BY DEF TypeOK, TemplateRow, ReqRow
<1>2. Defaults(kind)' = {i \in 1..MaxTemplates : templates'[i].kind = kind /\ templates'[i].default}
  BY DEF Defaults, Own
<1>3. Defaults(kind) = {i \in 1..MaxTemplates : templates[i].kind = kind /\ templates[i].default}
  BY DEF Defaults, Own
<1>4. CASE UNCHANGED templates
  BY <1>2, <1>3, <1>4
<1>5. ASSUME NEW r \in Request, Answer(r), req[r].step \in {"create", "default"}
      PROVE  req'[r].step = "idle"
  BY <1>1, <1>5 DEF Answer, NoReq
<1>6. ASSUME NEW r \in Request, CreateTemplate(r)
      PROVE  Defaults(kind)' \subseteq Defaults(kind) \/ \E x : Defaults(kind)' \subseteq {x}
  <2>1. PICK i \in 1..MaxTemplates :
          templates' = [templates EXCEPT ![i] = [kind |-> req[r].kind, default |-> req[r].first]]
    BY <1>6 DEF CreateTemplate
  <2>2. CASE ~req[r].first
    BY <1>1, <1>2, <1>3, <2>1, <2>2
  <2>3. CASE Own(kind) = {}
    <3>1. Defaults(kind)' \subseteq {i}
      BY <1>1, <1>2, <2>1, <2>3 DEF Own
    <3> QED
      BY <3>1
  <2>4. CASE req[r].first /\ Own(kind) # {}
    <3>1. At(r, "create") /\ ~At(r, "create")'
      BY <1>5, <1>6 DEF CreateTemplate, At
    <3> QED
      BY <2>4, <3>1 DEF AddsDefault
  <2> QED
    BY <2>2, <2>3, <2>4
<1>7. CASE UpdateTemplate
  <2>1. PICK k \in Kind, i \in 1..MaxTemplates : templates' = [templates EXCEPT ![i].kind = k]
    BY <1>7 DEF UpdateTemplate
  <2>2. \A j \in Defaults(kind)' : templates[j].kind = kind
    BY DEF AddsDefault
  <2>3. \A j \in 1..MaxTemplates : templates'[j].default = templates[j].default
    BY <1>1, <2>1 DEF TemplateRow
  <2> QED
    BY <1>2, <1>3, <2>2, <2>3
<1>8. CASE DeleteTemplate
  <2>1. PICK i \in 1..MaxTemplates : templates' = [templates EXCEPT ![i] = DeletedTemplate]
    BY <1>8 DEF DeleteTemplate
  <2> QED
    BY <1>1, <1>2, <1>3, <2>1 DEF DeletedTemplate
<1>9. ASSUME NEW r \in Request, SetDefault(r)
      PROVE  Defaults(kind)' \subseteq Defaults(kind) \/ \E x : Defaults(kind)' \subseteq {x}
  <2>1. At(r, "default") /\ ~At(r, "default")'
    BY <1>5, <1>9 DEF SetDefault, At
  <2>2. templates[req[r].id].kind = req[r].kind /\ req[r].id \in 1..MaxTemplates
    BY <2>1 DEF AddsDefault, TemplateInHand
  <2>3. ASSUME NEW i \in 1..MaxTemplates, templates'[i].kind = kind, templates'[i].default, i # req[r].id
        PROVE  templates[i].kind = kind /\ templates[i].default /\ templates[i].kind # req[r].kind
    <3>1. templates'[i] = IF templates[i].kind = req[r].kind THEN [templates[i] EXCEPT !.default = FALSE]
                          ELSE templates[i]
      BY <1>9, <2>3 DEF SetDefault
    <3> QED
      BY <1>1, <2>3, <3>1 DEF TemplateRow
  <2>4. templates'[req[r].id].kind = req[r].kind
    <3>1. templates'[req[r].id] \in {[templates[req[r].id] EXCEPT !.default = TRUE],
                                    [templates[req[r].id] EXCEPT !.default = FALSE], templates[req[r].id]}
      BY <1>9, <2>2 DEF SetDefault
    <3> QED
      BY <1>1, <2>2, <3>1 DEF TemplateRow
  <2>5. CASE req[r].kind = kind
    <3>1. Defaults(kind)' \subseteq {req[r].id}
      BY <1>2, <2>3, <2>5
    <3> QED
      BY <3>1
  <2>6. CASE req[r].kind # kind
    <3>1. Defaults(kind)' \subseteq Defaults(kind)
      BY <1>2, <1>3, <2>3, <2>4, <2>6
    <3> QED
      BY <3>1
  <2> QED
    BY <2>5, <2>6
<1>10. CASE SchedulerStep \/ Restart
  BY <1>4, <1>10, SchedulerFrame DEF Restart, account
<1>11. CASE Tick \/ OwnerSeen \/ SetTier \/ PutSMTP \/ MarkRead
  BY <1>4, <1>11 DEF Tick, OwnerSeen, SetTier, PutSMTP, MarkRead, account
<1>12. ASSUME NEW r \in Request,
              PutChannelsReads(r) \/ PutChannels(r) \/ CreateTemplateReads(r) \/ SetDefaultReads(r)
       PROVE  UNCHANGED templates
  BY <1>12 DEF PutChannelsReads, PutChannels, CreateTemplateReads, SetDefaultReads, account
<1> QED
  BY <1>4, <1>6, <1>7, <1>8, <1>9, <1>10, <1>11, <1>12, Steps DEF OwnerStep, RequestStep

------------------------------------------------------------------------------
(* The theorems *)

\* The initial state satisfies the inductive invariant.
LEMMA InvInit ==
  Init => IInv
<1> SUFFICES ASSUME Init
             PROVE  IInv
  OBVIOUS
<1>1. /\ 2 \in 0..MaxTime /\ 0 \in 0..MaxEdits /\ 0 \in 0..MaxRestarts
      /\ 0 \in Days /\ <<"expiry", Past>> \in Key /\ 0 \in 0..Day(MaxTime)
      /\ now = 2
  <2>1. now = 2 /\ 2 \in 0..MaxTime /\ 0 \in 0..MaxEdits /\ 0 \in 0..MaxRestarts
    BY Constants DEF Init
  <2>2. 0 \in 0..Day(MaxTime) /\ 0 \in Days
    BY Constants, DaysOfTime DEF Days
  <2> QED
    BY <2>1, <2>2, Keys
<1>2. TypeOK
  <2>1. /\ now \in 0..MaxTime /\ edits \in 0..MaxEdits /\ restarts \in 0..MaxRestarts
    BY <1>1 DEF Init
  <2>2. /\ owner \in [tier : {"free", "member"}, seen : 0..now, wasMember : BOOLEAN]
        /\ channels \in [emails : SUBSET Address, phones : SUBSET Phone, smtp : BOOLEAN]
    <3>1. PICK tier \in {"free", "member"}, seen \in {0, 1} :
            owner = [tier |-> tier, seen |-> seen, wasMember |-> tier = "member"]
      BY DEF Init
    <3>2. \E emails \in {{}, Address}, phones \in {{}, Phone} :
            channels = [emails |-> emails, phones |-> phones, smtp |-> FALSE]
      BY DEF Init
    <3> QED
      BY <1>1, <3>1, <3>2
  <2>3. /\ templates \in [1..MaxTemplates -> TemplateRow] /\ req \in [Request -> ReqRow]
    BY Constants DEF Init, NoTemplate, TemplateRow, NoReq, ReqRow
  <2>4. reminders \in [Key -> ReminderRow]
    BY <1>1 DEF Init, ReminderRow
  <2>5. scan \in ScanType
    <3>1. Idle.at = "idle" /\ Idle = [at |-> "idle", time |-> 0, tier |-> "free", windows |-> {},
                                       key |-> <<"expiry", Past>>, days |-> 0, medium |-> "email", todo |-> {}]
      BY DEF Idle
    <3>2. 0 \in 0..now /\ "email" \in Medium
      BY <1>1 DEF Medium
    <3> HIDE DEF Key, Days, Medium
    <3> QED
      BY <1>1, <3>1, <3>2 DEF Init, ScanType
  <2>6. /\ sent \in [Months -> [Medium -> Nat]] /\ counted \in [Months -> [Medium -> Nat]]
        /\ escalated \in [Days -> [im : Nat, sms : BOOLEAN]]
    BY DEF Init
  <2> QED
    BY <2>1, <2>2, <2>3, <2>4, <2>5, <2>6 DEF TypeOK, ScanType, TemplateRow, ReqRow, ReminderRow
<1>3. Idle.at = "idle" /\ Idle.tier = "free"
  BY DEF Idle
<1>4. MembersAreKnown
  <2>1. PICK tier \in {"free", "member"}, seen \in {0, 1} :
          owner = [tier |-> tier, seen |-> seen, wasMember |-> tier = "member"]
    BY DEF Init
  <2> QED
    BY <1>3, <2>1 DEF Init, MembersAreKnown
<1>5. \A m \in Months, x \in Medium : sent[m][x] = 0 /\ counted[m][x] = 0
  BY DEF Init
<1>6. SentIsCounted /\ QuotaKept
  <2>1. \A t \in {"free", "member"}, x \in Medium : Quota(t, x) \in Nat
    BY Constants DEF Quota
  <2>2. restarts = 0 /\ scan.at = "idle"
    BY <1>3 DEF Init
  <2> HIDE DEF Months, Medium
  <2> QED
    BY <1>5, <2>1, <2>2 DEF SentIsCounted, QuotaKept, ScanAt
<1>7. EscalationFollowsReminder /\ SmsIsWritten
  <2>1. \A d \in Days : escalated[d].im = 0 /\ ~escalated[d].sms
    BY DEF Init
  <2> HIDE DEF Days
  <2> QED
    BY <2>1 DEF EscalationFollowsReminder, SmsIsWritten
<1>8. EscalatingIsWritten /\ Announced
  BY <1>3 DEF Init, EscalatingIsWritten, Escalating, Announced, ScanAt
<1>9. TemplateInHand
  BY DEF Init, TemplateInHand, At, NoReq
<1> QED
  BY <1>2, <1>4, <1>6, <1>7, <1>8, <1>9 DEF IInv

\* Each step preserves it.
LEMMA InvStep ==
  IInv /\ [Next]_vars => IInv'
<1> SUFFICES ASSUME IInv, [Next]_vars
             PROVE  IInv'
  OBVIOUS
<1>1. CASE Next
  BY <1>1, TypeStep, MembersStep, SentStep, QuotaStep, EscalatingStep, EscalatedStep, AnnouncedStep,
     OwnerTypeStep DEF IInv
<1>2. CASE UNCHANGED vars
  <2>1. TypeOK'
    BY <1>2 DEF IInv, vars, TypeOK
  <2>2. MembersAreKnown' /\ SmsIsWritten' /\ TemplateInHand'
    BY <1>2 DEF IInv, vars, MembersAreKnown, SmsIsWritten, TemplateInHand, At
  <2>3. SentIsCounted' /\ QuotaKept' /\ EscalationFollowsReminder'
    BY <1>2 DEF IInv, vars, SentIsCounted, QuotaKept, EscalationFollowsReminder, ScanAt
  <2>4. EscalatingIsWritten' /\ Announced'
    BY <1>2 DEF IInv, vars, EscalatingIsWritten, Escalating, Announced, ScanAt, Today
  <2> QED
    BY <2>1, <2>2, <2>3, <2>4 DEF IInv
<1> QED
  BY <1>1, <1>2

\* The inductive invariant, on which the theorems rest.
LEMMA Invariance == Spec => []IInv
BY InvInit, InvStep, PTL DEF Spec

\* Rows, requests and the scan are always of their types: no scan looks for a
\* reminder, a month or a channel that cannot be.
THEOREM TypeCorrect == Spec => []TypeOK
<1>1. IInv => TypeOK
  BY DEF IInv
<1> QED
  BY <1>1, Invariance, PTL

\* However scans, months, memberships and restarts interleave, no month sends more
\* than the best tier's quota and one for each restart.
THEOREM QuotaIsKept == Spec => []QuotaKept
<1>1. IInv => QuotaKept
  BY DEF IInv
<1> QED
  BY <1>1, Invariance, PTL

\* The escalation of a day goes out at most once, after its reminder was written,
\* and by SMS only if that reminder is of the second tier.
THEOREM EscalationFollows == Spec => []EscalationFollowsReminder
<1>1. IInv => EscalationFollowsReminder
  BY DEF IInv
<1> QED
  BY <1>1, Invariance, PTL

\* A reminder that was read is never unread again by a scan.
THEOREM ReadStays == Spec => ReminderStaysRead
<1>1. IInv /\ [Next]_vars => \A k \in Key : reminders[k].status = "read" => reminders'[k] = reminders[k]
  <2> SUFFICES ASSUME IInv, [Next]_vars, NEW k \in Key, reminders[k].status = "read"
               PROVE  reminders'[k] = reminders[k]
    OBVIOUS
  <2>1. CASE Next
    BY <2>1, ReminderSteps DEF IInv
  <2>2. CASE UNCHANGED vars
    BY <2>2 DEF vars
  <2> QED
    BY <2>1, <2>2
<1> QED
  BY <1>1, Invariance, PTL DEF Spec, ReminderStaysRead

\* No trigger without a reminder of the silence that led to it.
THEOREM HandoverAnnounced == Spec => HandoverIsAnnounced
<1>1. IInv /\ [Next]_vars =>
        (ScanAt("trigger") /\ ~ScanAt("trigger")' =>
           \E d \in Days : /\ reminders[<<"escalation", d>>].status # "none"
                           /\ d >= Day(scan.time) - scan.days /\ d <= Today)
  BY DEF IInv, Announced
<1> QED
  BY <1>1, Invariance, PTL DEF Spec, HandoverIsAnnounced

\* Two defaults of one type come only of two creations that overlap, of a template
\* that changed its type, or of a default set on one that had; no other sequence of
\* edits makes the template of a reminder uncertain.
THEOREM OneTemplate == Spec => OneTemplateAnswers
<1>1. IInv /\ [Next]_vars =>
        \A kind \in Kind :
          Cardinality(Rendered(kind)) = 1 /\ Cardinality(Rendered(kind)') > 1 =>
            Cardinality(Defaults(kind)) > 1 \/ AddsDefault(kind)
  <2> SUFFICES ASSUME IInv, [Next]_vars, NEW kind \in Kind,
                      Cardinality(Rendered(kind)) = 1, Cardinality(Rendered(kind)') > 1,
                      ~AddsDefault(kind)
               PROVE  Cardinality(Defaults(kind)) > 1
    OBVIOUS
  <2>1. /\ IsFiniteSet(Defaults(kind)') /\ IsFiniteSet(Defaults(kind)) /\ Cardinality(Defaults(kind)') > 1
        /\ Cardinality(Defaults(kind)) \in Nat /\ Cardinality(Defaults(kind)') \in Nat
    BY ManyAreDefaults, ManyAreDefaultsNext
  <2>2. CASE Next
    <3>1. CASE Defaults(kind)' \subseteq Defaults(kind)
      <4>1. Cardinality(Defaults(kind)') <= Cardinality(Defaults(kind))
        BY <2>1, <3>1, FS_Subset
      <4> QED
        BY <2>1, <4>1
    <3>2. ASSUME NEW x, Defaults(kind)' \subseteq {x}
          PROVE  FALSE
      <4>1. Cardinality({x}) = 1 /\ IsFiniteSet({x})
        BY FS_Singleton
      <4>2. Cardinality(Defaults(kind)') <= 1
        BY <3>2, <4>1, FS_Subset
      <4> QED
        BY <2>1, <4>2
    <3> QED
      BY <2>2, <3>1, <3>2, DefaultsStep DEF IInv
  <2>3. CASE UNCHANGED vars
    <3>1. Defaults(kind)' = Defaults(kind)
      BY <2>3 DEF vars, Defaults, Own
    <3> QED
      BY <2>1, <3>1
  <2> QED
    BY <2>2, <2>3
<1>2. IInv /\ [Next]_vars =>
        \A kind \in Kind :
          Cardinality(Rendered(kind)) = 1 /\ Cardinality(Rendered(kind)') > 1 =>
            \/ Cardinality(Defaults(kind)) > 1
            \/ \E r \in Request : At(r, "create") /\ ~At(r, "create")' /\ Own(kind) # {} /\ req[r].first
            \/ \E i \in Defaults(kind)' : templates[i].kind # kind
            \/ \E r \in Request : /\ At(r, "default") /\ ~At(r, "default")'
                                  /\ templates[req[r].id].kind # req[r].kind
  BY <1>1 DEF AddsDefault
<1> QED
  BY <1>2, Invariance, PTL DEF Spec, OneTemplateAnswers
=============================================================================
