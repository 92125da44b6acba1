--------------------------- MODULE Administration ---------------------------
(***************************************************************************)
(* What the administrators do to the accounts, and the memberships that    *)
(* come of redemption codes.  Every handler has checked who is asking      *)
(* (requireAuth, requireAdmin) before its own statements, and these read   *)
(* before they write; the requests interleave at every such point where a  *)
(* property can tell.  A restart loses the requests in progress.           *)
(***************************************************************************)
EXTENDS Integers, FiniteSets

CONSTANTS
  User,
  Operator,     \* the user named by ADMIN_USERNAME
  Redeemer,     \* bound: users whose membership changes
  Code,         \* bound: codes generated
  Request,      \* bound: requests in progress at once
  MaxDay,       \* bound: days that pass
  Duration      \* duration_days of a code

Permanent == 0   \* member_expires_at is empty
NoOne == "no one"

ASSUME AdministrationAssumption ==
  /\ Operator \in User /\ Redeemer \subseteq User
  /\ NoOne \notin User \union Code
  /\ IsFiniteSet(Code) /\ IsFiniteSet(Request)
  /\ MaxDay \in Nat /\ Duration \in Nat \ {0}

VARIABLES
  day,
  users,      \* rows of users
  codes,      \* rows of redemption_codes
  req         \* what the requests in progress have read

vars == <<day, users, codes, req>>

\* No membership outlasts the codes put end to end, each as often as requests can
\* overlap on it.
Expiry == Permanent..(1 + MaxDay + Duration * Cardinality(Code) * Cardinality(Request))
UserRow == [here : BOOLEAN, role : {"user", "admin"}, disabled : BOOLEAN,
            tier : {"free", "member"}, expires : Expiry]
GoneUser == [here |-> FALSE, role |-> "user", disabled |-> FALSE, tier |-> "free",
             expires |-> Permanent]
NewUser == [GoneUser EXCEPT !.here = TRUE]
NewAdmin == [NewUser EXCEPT !.role = "admin"]

\* Of a code also what became of it: how often it was redeemed, and whether two
\* requests had it in their hands at the same time.
CodeRow == [row : {"none", "unused", "used", "deleted"}, by : User \union {NoOne},
            granted : Nat, overlap : BOOLEAN]
NoCodeRow == [row |-> "none", by |-> NoOne, granted |-> 0, overlap |-> FALSE]

ReqRow == [step : {"idle", "read", "commit", "deleteCode", "demote", "disable", "count", "delete"},
           actor : User \union {NoOne}, user : User \union {NoOne}, code : Code \union {NoOne},
           expires : Expiry, fresh : BOOLEAN]
NoReq == [step |-> "idle", actor |-> NoOne, user |-> NoOne, code |-> NoOne,
          expires |-> Permanent, fresh |-> FALSE]

TypeOK ==
  /\ day \in 1..(MaxDay + 1)
  /\ users \in [User -> UserRow]
  /\ codes \in [Code -> CodeRow]
  /\ req \in [Request -> ReqRow]

Init ==
  /\ day = 1
  /\ users = [u \in User |-> IF u = Operator THEN NewAdmin ELSE NewUser]
  /\ codes = [c \in Code |-> NoCodeRow]
  /\ req = [r \in Request |-> NoReq]

------------------------------------------------------------------------------

At(r, step) == req[r].step = step
Answer(r) == req' = [req EXCEPT ![r] = NoReq]
Begin(r, q) == At(r, "idle") /\ req' = [req EXCEPT ![r] = q]

\* requireAuth, requireAdmin: read once, when the request begins.
MayEnter(u) == users[u].here /\ ~users[u].disabled
IsAdmin(u) == MayEnter(u) /\ users[u].role = "admin"
Admins == {u \in User : IsAdmin(u)}

Held(c) == \E q \in Request : req[q].code = c
Taken(c) == [codes EXCEPT ![c] = IF Held(c) THEN [@ EXCEPT !.overlap = TRUE, !.granted = 0] ELSE @]

\* A new row of u, and the requests that have read the old one.
SetUser(u, row) ==
  /\ users' = [users EXCEPT ![u] = row]
  /\ req' = [r \in Request |-> IF req[r].user = u THEN [req[r] EXCEPT !.fresh = FALSE] ELSE req[r]]

Tomorrow ==
  /\ day <= MaxDay /\ day' = day + 1
  /\ UNCHANGED <<users, codes, req>>

\* The process is started again; ensureAdmin creates or promotes the operator.
Restart ==
  /\ users' = [users EXCEPT ![Operator] = IF @.here THEN [@ EXCEPT !.role = "admin"] ELSE NewAdmin]
  /\ req' = [r \in Request |-> NoReq]
  /\ UNCHANGED <<day, codes>>

------------------------------------------------------------------------------
(* Membership *)

Limited(u) == users[u].tier = "member" /\ users[u].expires # Permanent

\* syncMemberTier, at a login.
SyncMemberTier ==
  \E u \in User :
    /\ Limited(u) /\ users[u].expires < day
    /\ SetUser(u, [users[u] EXCEPT !.tier = "free"])
    /\ UNCHANGED <<day, codes>>

\* handleRedeemMembership: the code, the membership, then both written at once.
RedeemReadsCode(r) ==
  \E u \in Redeemer, c \in Code :
    /\ MayEnter(u) /\ codes[c].row = "unused"
    /\ Begin(r, [NoReq EXCEPT !.step = "read", !.user = u, !.code = c])
    /\ codes' = Taken(c)
    /\ UNCHANGED <<day, users>>

\* Mutant: always from today.
RedeemBaseToday(u) == day

\* Mutant: the months are added to what was added already.
RedeemBaseTwice(u) == (IF Limited(u) /\ users[u].expires > day THEN users[u].expires ELSE day) + Duration

\* A limited membership is extended; an empty expiry is not a date, so a permanent
\* one starts from today like none.
RedeemBase(u) == IF Limited(u) /\ users[u].expires > day THEN users[u].expires ELSE day

RedeemReadsUser(r) ==
  LET u == req[r].user IN
    /\ At(r, "read")
    /\ IF users[u].here
       THEN req' = [req EXCEPT ![r].step = "commit", ![r].fresh = TRUE,
                               ![r].expires = RedeemBase(u) + Duration]
       ELSE Answer(r)
    /\ UNCHANGED <<day, users, codes>>

\* Mutant: the code is not marked.
RedeemCommitsAlone(r) ==
  LET u == req[r].user
      c == req[r].code
      member == [users[u] EXCEPT !.tier = "member", !.expires = req[r].expires]
  IN /\ At(r, "commit")
     /\ users' = [users EXCEPT ![u] = IF @.here THEN member ELSE @]
     /\ req' = [q \in Request |-> IF q = r THEN NoReq ELSE req[q]]
     /\ codes' = [codes EXCEPT ![c] = [@ EXCEPT !.granted = IF codes[c].overlap THEN 0 ELSE @ + 1]]
     /\ UNCHANGED day

\* The account is gone: used_by fails, and everything is rolled back.  The code
\* is gone: the membership is granted all the same.
RedeemCommits(r) ==
  LET u == req[r].user
      c == req[r].code
      member == [users[u] EXCEPT !.tier = "member", !.expires = req[r].expires]
      used == [codes[c] EXCEPT !.row = IF @ = "deleted" THEN @ ELSE "used",
                               !.by = IF codes[c].row = "deleted" THEN @ ELSE u,
                               !.granted = IF codes[c].overlap THEN 0 ELSE @ + 1]
  IN /\ At(r, "commit")
     /\ IF users[u].here \/ codes[c].row = "deleted"
        THEN /\ users' = [users EXCEPT ![u] = IF @.here THEN member ELSE @]
             /\ codes' = [codes EXCEPT ![c] = used]
        ELSE UNCHANGED <<users, codes>>
     /\ req' = [q \in Request |-> IF q = r THEN NoReq
                                  ELSE IF req[q].user = u THEN [req[q] EXCEPT !.fresh = FALSE]
                                  ELSE req[q]]
     /\ UNCHANGED day

\* handleCreateRedemptionCodes.
CreateCodes ==
  \E C \in SUBSET {c \in Code : codes[c].row = "none"} :
    /\ Admins # {} /\ C # {}
    /\ codes' = [c \in Code |-> IF c \in C THEN [codes[c] EXCEPT !.row = "unused"] ELSE codes[c]]
    /\ UNCHANGED <<day, users, req>>

\* handleDeleteRedemptionCode: SELECT used_at, DELETE.
DeleteCodeReads(r) ==
  \E c \in Code :
    /\ Admins # {} /\ codes[c].row = "unused"
    /\ Begin(r, [NoReq EXCEPT !.step = "deleteCode", !.code = c])
    /\ codes' = Taken(c)
    /\ UNCHANGED <<day, users>>

DeleteCode(r) ==
  /\ At(r, "deleteCode")
  /\ codes' = [codes EXCEPT ![req[r].code] = [@ EXCEPT !.row = "deleted", !.by = NoOne]]
  /\ Answer(r)
  /\ UNCHANGED <<day, users>>

------------------------------------------------------------------------------
(* Administrators *)

\* handleAdminUpdateUser, when it takes nothing away from an administrator.
UpdateUser ==
  \E u \in User :
    /\ Admins # {} /\ users[u].here
    /\ \/ SetUser(u, [users[u] EXCEPT !.role = "admin"])
       \/ SetUser(u, [users[u] EXCEPT !.disabled = FALSE])
       \/ \E t \in {"free", "member"} : u \in Redeemer /\ SetUser(u, [users[u] EXCEPT !.tier = t])
    /\ UNCHANGED <<day, codes>>

\* Mutant: administrators may demote, disable or delete themselves.
AdminBeginsOnAnyone(r) ==
  \E actor \in Admins, u \in User, step \in {"demote", "disable", "count"} :
    /\ Begin(r, [NoReq EXCEPT !.step = step, !.actor = actor, !.user = u])
    /\ UNCHANGED <<day, users, codes>>

\* The same handler on its way to demote or disable, and handleAdminDeleteUser:
\* the administrator has been let in, and it is not about themselves.
AdminBegins(r) ==
  \E actor \in Admins, u \in User, step \in {"demote", "disable", "count"} :
    /\ u # actor
    /\ Begin(r, [NoReq EXCEPT !.step = step, !.actor = actor, !.user = u])
    /\ UNCHANGED <<day, users, codes>>

UserWritten(r, row) ==
  LET u == req[r].user IN
    /\ users' = [users EXCEPT ![u] = IF @.here THEN row ELSE @]
    /\ req' = [q \in Request |-> IF q = r THEN NoReq
                                 ELSE IF req[q].user = u THEN [req[q] EXCEPT !.fresh = FALSE]
                                 ELSE req[q]]

DemoteUser(r) ==
  /\ At(r, "demote")
  /\ UserWritten(r, [users[req[r].user] EXCEPT !.role = "user"])
  /\ UNCHANGED <<day, codes>>

DisableUser(r) ==
  /\ At(r, "disable")
  /\ UserWritten(r, [users[req[r].user] EXCEPT !.disabled = TRUE])
  /\ UNCHANGED <<day, codes>>

\* handleAdminDeleteUser: an administrator only if there is another one.
DeleteUserCounts(r) ==
  LET u == req[r].user
      admins == {v \in User : users[v].here /\ users[v].role = "admin"}
  IN /\ At(r, "count")
     /\ IF users[u].here /\ (u \in admins => Cardinality(admins) > 1)
        THEN req' = [req EXCEPT ![r].step = "delete"] ELSE Answer(r)
     /\ UNCHANGED <<day, users, codes>>

\* Mutant: nothing refers to the account.
DeleteUserAnyway(r) ==
  /\ At(r, "delete")
  /\ UserWritten(r, GoneUser)
  /\ UNCHANGED <<day, codes>>

\* used_by has no ON DELETE: who has redeemed a code cannot be deleted.
DeleteUser(r) ==
  /\ At(r, "delete")
  /\ IF \E c \in Code : codes[c].by = req[r].user THEN Answer(r) /\ UNCHANGED users
     ELSE UserWritten(r, GoneUser)
  /\ UNCHANGED <<day, codes>>

Next ==
  \/ Tomorrow \/ Restart \/ SyncMemberTier \/ CreateCodes \/ UpdateUser
  \/ \E r \in Request :
       \/ RedeemReadsCode(r) \/ RedeemReadsUser(r) \/ RedeemCommits(r)
       \/ DeleteCodeReads(r) \/ DeleteCode(r)
       \/ AdminBegins(r) \/ DemoteUser(r) \/ DisableUser(r)
       \/ DeleteUserCounts(r) \/ DeleteUser(r)

Spec == Init /\ [][Next]_vars

------------------------------------------------------------------------------
(* Properties *)

\* Unless two requests had it at the same time, a code is redeemed at most once,
\* is marked as used when it is, and is deleted only if it was not.
CodeRedeemedOnce ==
  \A c \in Code : ~codes[c].overlap =>
    /\ codes[c].granted <= 1
    /\ codes[c].granted = 1 <=> codes[c].row = "used"

\* A code names as its user somebody who has an account.
RedeemerStays == \A c \in Code : codes[c].by # NoOne => users[codes[c].by].here

\* A redemption takes no time from a limited membership that runs, unless the
\* account was changed, or the process ended, between what it read and what it wrote.
RedeemingAddsTime ==
  [][\A r \in Request :
       LET u == req[r].user IN
         At(r, "commit") /\ req[r].fresh /\ ~At(r, "commit")'
           /\ ~Restart   \* which loses it
           /\ Limited(u) /\ users[u].expires >= day
         => users'[u].tier = "member" /\ users'[u].expires = users[u].expires + Duration]_vars

\* The last administrator who can log in is lost only to one who was an
\* administrator when the request began and no longer is.
LastAdminStays ==
  [][Admins # {} /\ Admins' = {} =>
       \E r \in Request : req[r].actor \in User \ Admins /\ req'[r].step = "idle"]_vars
=============================================================================
