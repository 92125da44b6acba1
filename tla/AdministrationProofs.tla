------------------------ MODULE AdministrationProofs ------------------------
(***************************************************************************)
(* For any users, codes and requests in progress: what memberships and     *)
(* administrators can count on while the requests interleave.              *)
(***************************************************************************)
EXTENDS Administration, FiniteSetTheorems, TLAPS

------------------------------------------------------------------------------
(* The inductive invariant *)

\* What a request has in its hands at each step; no administrator acts on themselves.
InHand ==
  \A r \in Request :
    /\ IF req[r].step \in {"read", "commit", "deleteCode"}
       THEN req[r].code \in Code ELSE req[r].code = NoOne
    /\ req[r].step \in {"read", "commit"} => req[r].user \in User
    /\ req[r].step \in {"demote", "disable", "count", "delete"} =>
         req[r].actor \in User /\ req[r].user \in User /\ req[r].actor # req[r].user

\* A code that two requests never had at once is unused as long as one has it.
HeldAlone ==
  \A c \in Code : ~codes[c].overlap =>
    \A r \in Request : req[r].code = c =>
      codes[c].row = "unused" /\ \A q \in Request : req[q].code = c => q = r

\* A request about to write a membership of an account untouched since extends
\* what that account has.
FreshIsExtended ==
  \A r \in Request :
    LET u == req[r].user IN
      At(r, "commit") /\ req[r].fresh =>
        /\ users[u].here
        /\ Limited(u) /\ users[u].expires >= day => req[r].expires = users[u].expires + Duration

\* The grants still possible: each code as often as there are requests until it is
\* used or deleted, then once for each request that has it.
Chances == {p \in Code \X Request : codes[p[1]].row \in {"none", "unused"} \/ req[p[2]].code = p[1]}
Horizon == 1 + MaxDay + Duration * Cardinality(Code) * Cardinality(Request)
ExpiryIsEarned ==
  /\ \A u \in User : users[u].expires + Duration * Cardinality(Chances) <= Horizon
  /\ \A r \in Request :
       At(r, "commit") => req[r].expires + Duration * Cardinality(Chances) <= Horizon + Duration

IInv ==
  /\ TypeOK
  /\ InHand
  /\ HeldAlone
  /\ CodeRedeemedOnce
  /\ RedeemerStays
  /\ FreshIsExtended
  /\ ExpiryIsEarned

------------------------------------------------------------------------------
(* What a step may do to a request, an account and a code *)

\* What the constants are.
LEMMA Constants ==
  /\ Operator \in User /\ Redeemer \subseteq User
  /\ NoOne \notin User /\ NoOne \notin Code
  /\ IsFiniteSet(Code) /\ IsFiniteSet(Request)
  /\ MaxDay \in Nat /\ Duration \in Nat \ {0}
BY AdministrationAssumption DEF AdministrationAssumption

\* The request goes on with what it has read, and is fresh only if its account is untouched.
Waits(q) ==
  /\ req'[q] \in {req[q], [req[q] EXCEPT !.fresh = FALSE]}
  /\ req'[q].fresh => \A u \in User : req[q].user = u => users'[u] = users[u]

\* The request takes an unused code.
Takes(q) ==
  \E c \in Code :
    /\ req[q].step = "idle" /\ codes[c].row = "unused"
    /\ \/ \E u \in User : req'[q] = [NoReq EXCEPT !.step = "read", !.user = u, !.code = c]
       \/ req'[q] = [NoReq EXCEPT !.step = "deleteCode", !.code = c]
    /\ codes' = Taken(c)
    /\ \A p \in Request \ {q} : req'[p] = req[p]
    /\ users' = users /\ day' = day

\* The redemption reads its user, and computes what it will write.
Prepares(q) ==
  /\ At(q, "read") /\ users[req[q].user].here
  /\ req'[q] = [req[q] EXCEPT !.step = "commit", !.fresh = TRUE,
                              !.expires = RedeemBase(req[q].user) + Duration]
  /\ UNCHANGED <<day, users, codes>>

\* An administrator begins on somebody else.
Targets(q) ==
  \E actor, u \in User, step \in {"demote", "disable", "count"} :
    /\ u # actor
    /\ req'[q] = [NoReq EXCEPT !.step = step, !.actor = actor, !.user = u]

Confirms(q) ==
  /\ At(q, "count")
  /\ req'[q] = [req[q] EXCEPT !.step = "delete"]

RequestMove(q) ==
  \/ req'[q] = NoReq \/ Waits(q) \/ Takes(q) \/ Prepares(q) \/ Targets(q) \/ Confirms(q)

\* Whatever handler runs, a request does one of these.
LEMMA RequestMoves ==
  ASSUME IInv, Next, NEW q \in Request
  PROVE  RequestMove(q)
<1> DEFINE Same == req'[q] = req[q] /\ \A u \in User : req[q].user = u => users'[u] = users[u]
<1>0. TypeOK /\ InHand
  BY DEF IInv
<1>1. req \in [Request -> ReqRow] /\ users \in [User -> UserRow]
  BY <1>0 DEF TypeOK
<1>2. Same => Waits(q)
  BY DEF Waits
<1>3. ASSUME NEW u \in User, NEW row, SetUser(u, row)
      PROVE  Waits(q)
  <2>1. CASE req[q].user = u
    <3>1. req'[q] = [req[q] EXCEPT !.fresh = FALSE]
      BY <1>3, <2>1 DEF SetUser
    <3>2. ~req'[q].fresh
      BY <1>1, <3>1 DEF ReqRow
    <3> QED
      BY <3>1, <3>2 DEF Waits
  <2>2. CASE req[q].user # u
    BY <1>1, <1>3, <2>2 DEF SetUser, Waits
  <2> QED
    BY <2>1, <2>2
<1>4. ASSUME NEW r \in Request, NEW row, UserWritten(r, row), req[r].user \in User
      PROVE  req'[q] = NoReq \/ Waits(q)
  <2>1. CASE q = r
    BY <1>4, <2>1 DEF UserWritten
  <2>2. CASE q # r /\ req[q].user = req[r].user
    <3>1. req'[q] = [req[q] EXCEPT !.fresh = FALSE]
      BY <1>4, <2>2 DEF UserWritten
    <3>2. ~req'[q].fresh
      BY <1>1, <3>1 DEF ReqRow
    <3> QED
      BY <3>1, <3>2 DEF Waits
  <2>3. CASE q # r /\ req[q].user # req[r].user
    BY <1>1, <1>4, <2>3 DEF UserWritten, Waits
  <2> QED
    BY <2>1, <2>2, <2>3
<1>5. ASSUME NEW r \in Request, NEW new, Begin(r, new)
      PROVE  IF q = r THEN req[q].step = "idle" /\ req'[q] = new ELSE req'[q] = req[q]
  BY <1>1, <1>5 DEF Begin, At
<1>6. ASSUME NEW r \in Request, Answer(r), users' = users
      PROVE  req'[q] = NoReq \/ Same
  BY <1>1, <1>6 DEF Answer
<1>7. CASE Tomorrow \/ CreateCodes
  BY <1>2, <1>7 DEF Tomorrow, CreateCodes, RequestMove
<1>8. CASE Restart
  BY <1>8 DEF Restart, RequestMove
<1>9. CASE SyncMemberTier \/ UpdateUser
  BY <1>3, <1>9 DEF SyncMemberTier, UpdateUser, RequestMove
<1>10. ASSUME NEW r \in Request, RedeemReadsCode(r) \/ DeleteCodeReads(r)
       PROVE  RequestMove(q)
  <2>1. users' = users /\ day' = day
    BY <1>10 DEF RedeemReadsCode, DeleteCodeReads
  <2>2. CASE q # r
    <3>1. req'[q] = req[q]
      BY <1>5, <1>10, <2>2 DEF RedeemReadsCode, DeleteCodeReads
    <3> QED
      BY <1>2, <2>1, <3>1 DEF RequestMove
  <2>3. CASE q = r
    <3>1. PICK c \in Code :
            /\ codes[c].row = "unused" /\ codes' = Taken(c) /\ req[q].step = "idle"
            /\ \/ \E u \in User : Begin(q, [NoReq EXCEPT !.step = "read", !.user = u, !.code = c])
               \/ Begin(q, [NoReq EXCEPT !.step = "deleteCode", !.code = c])
      BY <1>10, <2>3, Constants DEF RedeemReadsCode, DeleteCodeReads, Begin, At
    <3>2. /\ \/ \E u \in User : req'[q] = [NoReq EXCEPT !.step = "read", !.user = u, !.code = c]
             \/ req'[q] = [NoReq EXCEPT !.step = "deleteCode", !.code = c]
          /\ \A p \in Request \ {q} : req'[p] = req[p]
      BY <1>1, <3>1 DEF Begin
    <3> QED
      BY <2>1, <3>1, <3>2 DEF RequestMove, Takes
  <2> QED
    BY <2>2, <2>3
<1>11. ASSUME NEW r \in Request, RedeemReadsUser(r)
       PROVE  RequestMove(q)
  <2>1. UNCHANGED <<day, users, codes>>
    BY <1>11 DEF RedeemReadsUser
  <2>2. CASE Answer(r)
    BY <1>2, <1>6, <2>1, <2>2 DEF RequestMove
  <2>3. CASE q # r
    <3>1. req'[q] = req[q]
      BY <1>1, <1>11, <2>3 DEF RedeemReadsUser, Answer
    <3> QED
      BY <1>2, <2>1, <3>1 DEF RequestMove
  <2>4. CASE q = r /\ ~Answer(r)
    <3>1. /\ At(q, "read") /\ users[req[q].user].here
          /\ req' = [req EXCEPT ![q].step = "commit", ![q].fresh = TRUE,
                                ![q].expires = RedeemBase(req[q].user) + Duration]
      BY <1>11, <2>4 DEF RedeemReadsUser
    <3>2. req'[q] = [req[q] EXCEPT !.step = "commit", !.fresh = TRUE,
                                   !.expires = RedeemBase(req[q].user) + Duration]
      BY <1>1, <3>1
    <3> QED
      BY <2>1, <3>1, <3>2 DEF RequestMove, Prepares
  <2> QED
    BY <2>2, <2>3, <2>4
<1>12. ASSUME NEW r \in Request, RedeemCommits(r)
       PROVE  RequestMove(q)
  <2>1. /\ req' = [p \in Request |-> IF p = r THEN NoReq
                                     ELSE IF req[p].user = req[r].user THEN [req[p] EXCEPT !.fresh = FALSE]
                                     ELSE req[p]]
        /\ \A u \in User : u # req[r].user => users'[u] = users[u]
    BY <1>1, <1>12 DEF RedeemCommits
  <2>2. CASE q = r
    BY <2>1, <2>2 DEF RequestMove
  <2>3. CASE q # r /\ req[q].user = req[r].user
    <3>1. req'[q] = [req[q] EXCEPT !.fresh = FALSE]
      BY <2>1, <2>3
    <3>2. ~req'[q].fresh
      BY <1>1, <3>1 DEF ReqRow
    <3> QED
      BY <3>1, <3>2 DEF Waits, RequestMove
  <2>4. CASE q # r /\ req[q].user # req[r].user
    BY <2>1, <2>4 DEF Waits, RequestMove
  <2> QED
    BY <2>2, <2>3, <2>4
<1>13. ASSUME NEW r \in Request, DeleteCode(r)
       PROVE  RequestMove(q)
  BY <1>2, <1>6, <1>13 DEF DeleteCode, RequestMove
<1>14. ASSUME NEW r \in Request, AdminBegins(r)
       PROVE  RequestMove(q)
  <2>1. PICK actor \in User, u \in User, step \in {"demote", "disable", "count"} :
          /\ u # actor /\ users' = users
          /\ Begin(r, [NoReq EXCEPT !.step = step, !.actor = actor, !.user = u])
    BY <1>14 DEF AdminBegins, Admins
  <2>2. CASE q = r
    BY <1>5, <2>1, <2>2 DEF RequestMove, Targets
  <2>3. CASE q # r
    <3>1. req'[q] = req[q]
      BY <1>5, <2>1, <2>3
    <3> QED
      BY <1>2, <2>1, <3>1 DEF RequestMove
  <2> QED
    BY <2>2, <2>3
<1>15. ASSUME NEW r \in Request, DemoteUser(r) \/ DisableUser(r)
       PROVE  RequestMove(q)
  <2>1. req[r].user \in User
    BY <1>0, <1>15 DEF DemoteUser, DisableUser, At, InHand
  <2> QED
    BY <1>4, <1>15, <2>1 DEF DemoteUser, DisableUser, RequestMove
<1>16. ASSUME NEW r \in Request, DeleteUserCounts(r)
       PROVE  RequestMove(q)
  <2>1. users' = users
    BY <1>16 DEF DeleteUserCounts
  <2>2. CASE Answer(r)
    BY <1>2, <1>6, <2>1, <2>2 DEF RequestMove
  <2>3. CASE At(r, "count") /\ req' = [req EXCEPT ![r].step = "delete"]
    <3>1. CASE q = r
      BY <1>1, <2>3, <3>1 DEF RequestMove, Confirms
    <3>2. CASE q # r
      BY <1>1, <1>2, <2>1, <2>3, <3>2 DEF RequestMove
    <3> QED
      BY <3>1, <3>2
  <2> QED
    BY <1>16, <2>2, <2>3 DEF DeleteUserCounts
<1>17. ASSUME NEW r \in Request, DeleteUser(r)
       PROVE  RequestMove(q)
  <2>1. req[r].user \in User
    BY <1>0, <1>17 DEF DeleteUser, At, InHand
  <2>2. CASE Answer(r) /\ users' = users
    BY <1>2, <1>6, <2>2 DEF RequestMove
  <2>3. CASE UserWritten(r, GoneUser)
    BY <1>4, <2>1, <2>3 DEF RequestMove
  <2> QED
    BY <1>17, <2>2, <2>3 DEF DeleteUser
<1> QED
  BY <1>7, <1>8, <1>9, <1>10, <1>11, <1>12, <1>13, <1>14, <1>15, <1>16, <1>17 DEF Next

\* An account keeps its expiry, loses it, or gets that of a redemption; it goes only
\* if it has redeemed no code.
UserMove(u) ==
  /\ users'[u] \in UserRow
  /\ \/ users'[u].expires \in {users[u].expires, Permanent}
     \/ \E r \in Request : RedeemCommits(r) /\ users[req[r].user].here
                           /\ users'[u].expires = req[r].expires
  /\ users[u].here /\ ~users'[u].here => codes' = codes /\ \A c \in Code : codes[c].by # u

\* Every step does one of these to an account.
LEMMA UserMoves ==
  ASSUME IInv, Next, NEW u \in User
  PROVE  UserMove(u)
<1>0. TypeOK /\ InHand
  BY DEF IInv
<1>1. /\ req \in [Request -> ReqRow] /\ users \in [User -> UserRow]
      /\ users[u] \in UserRow
  BY <1>0 DEF TypeOK
<1>2. users'[u] = users[u] => UserMove(u)
  BY <1>1 DEF UserMove
<1>3. GoneUser \in UserRow /\ NewAdmin \in UserRow /\ Permanent \in Expiry
      /\ NewAdmin.expires = Permanent /\ NewAdmin.here /\ GoneUser.expires = Permanent
  <2>1. Cardinality(Code) \in Nat /\ Cardinality(Request) \in Nat
    BY Constants, FS_CardinalityType
  <2>2. 1 + MaxDay + Duration * Cardinality(Code) * Cardinality(Request) \in Nat
    BY <2>1, Constants
  <2>3. Permanent \in Expiry
    BY <2>2 DEF Expiry, Permanent
  <2> QED
    BY <2>3 DEF GoneUser, NewAdmin, NewUser, UserRow
<1> DEFINE Kept(row) == row \in UserRow /\ row.expires = users[u].expires /\ row.here = users[u].here
<1>4. /\ \A t \in {"free", "member"} : Kept([users[u] EXCEPT !.tier = t])
      /\ \A t \in {"user", "admin"} : Kept([users[u] EXCEPT !.role = t])
      /\ \A t \in BOOLEAN : Kept([users[u] EXCEPT !.disabled = t])
  <2> HIDE DEF Expiry
  <2> QED
    BY <1>1 DEF UserRow
<1>5. Kept(users'[u]) => UserMove(u)
  BY DEF UserMove
<1> HIDE DEF Kept
<1>6. CASE UNCHANGED users
  BY <1>2, <1>6
<1>7. CASE Restart
  <2>1. users'[u] \in {users[u], [users[u] EXCEPT !.role = "admin"], NewAdmin}
    BY <1>1, <1>7 DEF Restart
  <2> QED
    BY <1>2, <1>3, <1>4, <1>5, <2>1 DEF UserMove
<1>8. CASE SyncMemberTier
  <2>1. users'[u] \in {users[u], [users[u] EXCEPT !.tier = "free"]}
    BY <1>1, <1>8 DEF SyncMemberTier, SetUser
  <2> QED
    BY <1>2, <1>4, <1>5, <2>1
<1>9. CASE UpdateUser
  <2>1. \/ users'[u] = users[u]
        \/ users'[u] = [users[u] EXCEPT !.role = "admin"]
        \/ users'[u] = [users[u] EXCEPT !.disabled = FALSE]
        \/ \E t \in {"free", "member"} : users'[u] = [users[u] EXCEPT !.tier = t]
    <3>1. PICK v \in User :
            \/ users' = [users EXCEPT ![v] = [users[v] EXCEPT !.role = "admin"]]
            \/ users' = [users EXCEPT ![v] = [users[v] EXCEPT !.disabled = FALSE]]
            \/ \E t \in {"free", "member"} : users' = [users EXCEPT ![v] = [users[v] EXCEPT !.tier = t]]
      BY <1>9 DEF UpdateUser, SetUser
    <3>2. CASE v = u
      BY <1>1, <3>1, <3>2
    <3>3. CASE v # u
      BY <1>1, <3>1, <3>3
    <3> QED
      BY <3>2, <3>3
  <2> QED
    BY <1>2, <1>4, <1>5, <2>1
<1>10. ASSUME NEW r \in Request, RedeemCommits(r)
       PROVE  UserMove(u)
  <2> DEFINE member == [users[u] EXCEPT !.tier = "member", !.expires = req[r].expires]
  <2>1. users'[u] = users[u] \/ (users[req[r].user].here /\ u = req[r].user /\ users'[u] = member)
    <3>1. UNCHANGED users => users'[u] = users[u]
      OBVIOUS
    <3>2. CASE ~UNCHANGED users
      <4> DEFINE v == req[r].user
                 row == [users[v] EXCEPT !.tier = "member", !.expires = req[r].expires]
      <4>1. users' = [users EXCEPT ![v] = IF users[v].here THEN row ELSE users[v]]
        BY <1>10, <3>2 DEF RedeemCommits
      <4>2. users' = [users EXCEPT ![v] = row] /\ users[v].here
        <5> HIDE DEF row
        <5> QED
          BY <1>1, <3>2, <4>1
      <4>3. v = u => row = member
        OBVIOUS
      <4> HIDE DEF row, v, member
      <4>4. users'[u] = users[u] \/ (v = u /\ users'[u] = row)
        BY <1>1, <4>2
      <4> QED
        BY <4>2, <4>3, <4>4 DEF v
    <3> HIDE DEF member
    <3> QED
      BY <3>1, <3>2
  <2>2. req[r].expires \in Expiry
    BY <1>1 DEF ReqRow
  <2>3. member \in UserRow /\ member.expires = req[r].expires /\ member.here = users[u].here
    <3> HIDE DEF Expiry
    <3> QED
      BY <1>1, <2>2 DEF UserRow
  <2> HIDE DEF member
  <2>4. CASE users'[u] = member /\ users[req[r].user].here
    BY <1>10, <2>3, <2>4 DEF UserMove
  <2> QED
    BY <1>2, <2>1, <2>4
<1>11. ASSUME NEW r \in Request, DemoteUser(r) \/ DisableUser(r)
       PROVE  UserMove(u)
  <2>1. users'[u] \in {users[u], [users[u] EXCEPT !.role = "user"], [users[u] EXCEPT !.disabled = TRUE]}
    BY <1>1, <1>11 DEF DemoteUser, DisableUser, UserWritten
  <2> QED
    BY <1>2, <1>4, <1>5, <2>1
<1>12. ASSUME NEW r \in Request, DeleteUser(r)
       PROVE  UserMove(u)
  <2>1. CASE UNCHANGED users
    BY <1>6, <2>1
  <2>2. CASE ~UNCHANGED users
    <3>1. /\ UserWritten(r, GoneUser) /\ codes' = codes
          /\ \A c \in Code : codes[c].by # req[r].user
      BY <1>12, <2>2 DEF DeleteUser
    <3>2. users'[u] = users[u] \/ (u = req[r].user /\ users'[u] = GoneUser)
      BY <1>1, <3>1 DEF UserWritten
    <3> QED
      BY <1>2, <1>3, <3>1, <3>2 DEF UserMove
  <2> QED
    BY <2>1, <2>2
<1>13. ASSUME NEW r \in Request,
              RedeemReadsCode(r) \/ RedeemReadsUser(r) \/ DeleteCodeReads(r) \/ DeleteCode(r)
                \/ AdminBegins(r) \/ DeleteUserCounts(r)
       PROVE  UserMove(u)
  BY <1>6, <1>13 DEF RedeemReadsCode, RedeemReadsUser, DeleteCodeReads, DeleteCode, AdminBegins, DeleteUserCounts
<1>14. CASE Tomorrow \/ CreateCodes
  BY <1>6, <1>14 DEF Tomorrow, CreateCodes
<1> QED
  BY <1>7, <1>8, <1>9, <1>10, <1>11, <1>12, <1>13, <1>14 DEF Next

\* What RedeemCommits makes of its code, when it is not rolled back.
Redeemed(c, u) == [codes[c] EXCEPT !.row = IF @ = "deleted" THEN @ ELSE "used",
                                   !.by = IF codes[c].row = "deleted" THEN @ ELSE u,
                                   !.granted = IF codes[c].overlap THEN 0 ELSE @ + 1]

\* A code is generated, taken a second time, redeemed or deleted.
CodeMove(c) ==
  \/ codes'[c] = codes[c]
  \/ codes[c].row = "none" /\ codes'[c] = [codes[c] EXCEPT !.row = "unused"]
  \/ codes[c].row = "unused" /\ Held(c) /\ codes'[c] = [codes[c] EXCEPT !.overlap = TRUE, !.granted = 0]
  \/ \E r \in Request :
       /\ At(r, "commit") /\ req[r].code = c /\ req'[r] = NoReq
       /\ users[req[r].user].here \/ codes[c].row = "deleted"
       /\ codes'[c] = Redeemed(c, req[r].user)
  \/ \E r \in Request :
       /\ At(r, "deleteCode") /\ req[r].code = c /\ req'[r] = NoReq
       /\ codes'[c] = [codes[c] EXCEPT !.row = "deleted", !.by = NoOne]

\* Every step does one of these to a code.
LEMMA CodeMoves ==
  ASSUME IInv, Next
  PROVE  DOMAIN codes' = Code /\ codes' = [c \in Code |-> codes'[c]] /\ \A c \in Code : CodeMove(c)
<1>0. TypeOK /\ InHand
  BY DEF IInv
<1>1. req \in [Request -> ReqRow] /\ codes \in [Code -> CodeRow]
  BY <1>0 DEF TypeOK
<1> DEFINE Goal == codes' = [c \in Code |-> codes'[c]] /\ \A c \in Code : CodeMove(c)
<1>2. CASE UNCHANGED codes
  BY <1>1, <1>2 DEF CodeMove
<1>3. CASE CreateCodes
  BY <1>1, <1>3 DEF CreateCodes, CodeMove
<1>4. ASSUME NEW r \in Request, RedeemReadsCode(r) \/ DeleteCodeReads(r)
      PROVE  Goal
  <2>1. PICK d \in Code : codes[d].row = "unused" /\ codes' = Taken(d)
    BY <1>4 DEF RedeemReadsCode, DeleteCodeReads
  <2> QED
    BY <1>1, <2>1 DEF Taken, CodeMove
<1>5. ASSUME NEW r \in Request, RedeemCommits(r)
      PROVE  Goal
  <2>1. CASE UNCHANGED codes
    BY <1>2, <2>1
  <2>2. CASE ~UNCHANGED codes
    <3>1. /\ codes' = [codes EXCEPT ![req[r].code] = Redeemed(req[r].code, req[r].user)]
          /\ users[req[r].user].here \/ codes[req[r].code].row = "deleted"
          /\ At(r, "commit") /\ req'[r] = NoReq
      BY <1>5, <2>2 DEF RedeemCommits, Redeemed
    <3> QED
      BY <1>1, <3>1 DEF CodeMove
  <2> QED
    BY <2>1, <2>2
<1>6. ASSUME NEW r \in Request, DeleteCode(r)
      PROVE  Goal
  <2>1. /\ codes' = [codes EXCEPT ![req[r].code] = [@ EXCEPT !.row = "deleted", !.by = NoOne]]
        /\ At(r, "deleteCode") /\ req'[r] = NoReq
    BY <1>1, <1>6 DEF DeleteCode, Answer
  <2> QED
    BY <1>1, <2>1 DEF CodeMove
<1>7. CASE Tomorrow \/ Restart \/ SyncMemberTier \/ UpdateUser
  BY <1>2, <1>7 DEF Tomorrow, Restart, SyncMemberTier, UpdateUser
<1>8. ASSUME NEW r \in Request,
             RedeemReadsUser(r) \/ AdminBegins(r) \/ DemoteUser(r) \/ DisableUser(r)
               \/ DeleteUserCounts(r) \/ DeleteUser(r)
      PROVE  Goal
  BY <1>2, <1>8 DEF RedeemReadsUser, AdminBegins, DemoteUser, DisableUser, DeleteUserCounts, DeleteUser
<1> QED
  BY <1>3, <1>4, <1>5, <1>6, <1>7, <1>8 DEF Next

\* Every code changes as one of these says, and its fields can be named.
LEMMA CodeFields ==
  ASSUME IInv, Next, NEW c \in Code
  PROVE  /\ codes[c] \in CodeRow /\ codes'[c] \in CodeRow
         /\ \/ codes'[c] = codes[c]
            \/ /\ codes[c].row = "none" /\ codes'[c].row = "unused"
               /\ codes'[c].by = codes[c].by /\ codes'[c].granted = codes[c].granted
               /\ codes'[c].overlap = codes[c].overlap
            \/ /\ codes[c].row = "unused" /\ codes'[c].row = "unused"
               /\ codes'[c].by = codes[c].by /\ codes'[c].overlap
            \/ \E r \in Request :
                 /\ At(r, "commit") /\ req[r].code = c /\ req'[r] = NoReq
                 /\ codes[c].row = "deleted" =>
                      codes'[c].row = "deleted" /\ codes'[c].by = codes[c].by
                 /\ codes[c].row # "deleted" =>
                      /\ users[req[r].user].here
                      /\ codes'[c].row = "used" /\ codes'[c].by = req[r].user
                 /\ codes'[c].granted = (IF codes[c].overlap THEN 0 ELSE codes[c].granted + 1)
                 /\ codes'[c].overlap = codes[c].overlap
            \/ \E r \in Request :
                 /\ At(r, "deleteCode") /\ req[r].code = c /\ req'[r] = NoReq
                 /\ codes'[c].row = "deleted" /\ codes'[c].by = NoOne
                 /\ codes'[c].granted = codes[c].granted /\ codes'[c].overlap = codes[c].overlap
<1>1. codes[c] \in CodeRow /\ InHand
  BY DEF IInv, TypeOK
<1>2. CodeMove(c)
  BY CodeMoves
<1>3. CASE codes'[c] = codes[c]
  BY <1>1, <1>3
<1>4. CASE codes[c].row = "none" /\ codes'[c] = [codes[c] EXCEPT !.row = "unused"]
  BY <1>1, <1>4 DEF CodeRow
<1>5. ASSUME codes'[c] = [codes[c] EXCEPT !.overlap = TRUE, !.granted = 0]
      PROVE  /\ codes'[c] \in CodeRow /\ codes'[c].row = codes[c].row
             /\ codes'[c].by = codes[c].by /\ codes'[c].overlap
  <2>1. codes'[c] = [row |-> codes[c].row, by |-> codes[c].by, granted |-> 0, overlap |-> TRUE]
    BY <1>1, <1>5 DEF CodeRow
  <2> QED
    BY <1>1, <2>1 DEF CodeRow
<1>6. ASSUME NEW r \in Request,
             At(r, "commit"), req[r].code = c, req'[r] = NoReq,
             users[req[r].user].here \/ codes[c].row = "deleted",
             codes'[c] = Redeemed(c, req[r].user)
      PROVE  /\ codes'[c] \in CodeRow
             /\ codes[c].row = "deleted" =>
                  codes'[c].row = "deleted" /\ codes'[c].by = codes[c].by
             /\ codes[c].row # "deleted" =>
                  /\ users[req[r].user].here
                  /\ codes'[c].row = "used" /\ codes'[c].by = req[r].user
             /\ codes'[c].granted = (IF codes[c].overlap THEN 0 ELSE codes[c].granted + 1)
             /\ codes'[c].overlap = codes[c].overlap
  <2>1. req[r].user \in User
    BY <1>1, <1>6 DEF InHand, At
  <2> DEFINE row == IF codes[c].row = "deleted" THEN codes[c].row ELSE "used"
             by == IF codes[c].row = "deleted" THEN codes[c].by ELSE req[r].user
             granted == IF codes[c].overlap THEN 0 ELSE codes[c].granted + 1
  <2>2. codes'[c] = [codes[c] EXCEPT !.row = row, !.by = by, !.granted = granted]
    BY <1>6 DEF Redeemed
  <2>3. row \in {"used", "deleted"} /\ by \in User \union {NoOne} /\ granted \in Nat
    BY <1>1, <2>1 DEF CodeRow
  <2>4. /\ codes'[c] \in CodeRow
        /\ codes'[c].row = row /\ codes'[c].by = by /\ codes'[c].granted = granted
        /\ codes'[c].overlap = codes[c].overlap
    <3> HIDE DEF row, by, granted
    <3>1. codes'[c] = [row |-> row, by |-> by, granted |-> granted, overlap |-> codes[c].overlap]
      BY <1>1, <2>2 DEF CodeRow
    <3> QED
      BY <1>1, <2>3, <3>1 DEF CodeRow
  <2> QED
    BY <1>6, <2>4
<1>7. ASSUME NEW r \in Request,
             At(r, "deleteCode"), req[r].code = c, req'[r] = NoReq,
             codes'[c] = [codes[c] EXCEPT !.row = "deleted", !.by = NoOne]
      PROVE  /\ codes'[c] \in CodeRow
             /\ codes'[c].row = "deleted" /\ codes'[c].by = NoOne
             /\ codes'[c].granted = codes[c].granted /\ codes'[c].overlap = codes[c].overlap
  BY <1>1, <1>7 DEF CodeRow
<1> QED
  BY <1>1, <1>2, <1>3, <1>4, <1>5, <1>6, <1>7 DEF CodeMove

\* Of a request, the same.
LEMMA RequestFields ==
  ASSUME IInv, Next, NEW q \in Request
  PROVE  /\ req[q] \in ReqRow
         /\ \/ req'[q] = NoReq
            \/ /\ req'[q].step = req[q].step /\ req'[q].actor = req[q].actor
               /\ req'[q].user = req[q].user /\ req'[q].code = req[q].code
               /\ req'[q].expires = req[q].expires /\ req'[q].fresh \in BOOLEAN
               /\ req'[q].fresh => req[q].fresh /\ \A u \in User : req[q].user = u => users'[u] = users[u]
            \/ /\ req[q].step = "idle" /\ req'[q].step \in {"read", "deleteCode"}
               /\ req'[q].actor = NoOne /\ req'[q].expires = Permanent /\ req'[q].fresh = FALSE
               /\ req'[q].user \in IF req'[q].step = "read" THEN User ELSE {NoOne}
               /\ req'[q].code \in Code /\ codes[req'[q].code].row = "unused"
               /\ codes' = Taken(req'[q].code)
               /\ \A p \in Request \ {q} : req'[p] = req[p]
            \/ /\ req[q].step = "read" /\ req'[q].step = "commit"
               /\ req'[q].actor = req[q].actor /\ req'[q].user = req[q].user
               /\ req'[q].code = req[q].code /\ req'[q].fresh = TRUE
               /\ req'[q].expires = RedeemBase(req[q].user) + Duration
               /\ users[req[q].user].here /\ UNCHANGED <<day, users, codes>>
            \/ /\ req'[q].step \in {"demote", "disable", "count"}
               /\ req'[q].actor \in User /\ req'[q].user \in User /\ req'[q].user # req'[q].actor
               /\ req'[q].code = NoOne /\ req'[q].expires = Permanent /\ req'[q].fresh = FALSE
            \/ /\ req[q].step = "count" /\ req'[q].step = "delete"
               /\ req'[q].actor = req[q].actor /\ req'[q].user = req[q].user
               /\ req'[q].code = req[q].code /\ req'[q].expires = req[q].expires
               /\ req'[q].fresh = req[q].fresh
<1>1. req[q] \in ReqRow
  BY DEF IInv, TypeOK
<1>2. RequestMove(q)
  BY RequestMoves
<1> HIDE DEF Expiry, Taken, RedeemBase
<1>3. CASE Waits(q)
  BY <1>1, <1>3 DEF Waits, ReqRow
<1>4. CASE Takes(q)
  BY <1>1, <1>4 DEF Takes, NoReq
<1>5. CASE Prepares(q)
  BY <1>1, <1>5 DEF Prepares, ReqRow, At
<1>6. CASE Targets(q)
  <2>1. PICK actor \in User, u \in User, step \in {"demote", "disable", "count"} :
          /\ u # actor
          /\ req'[q] = [NoReq EXCEPT !.step = step, !.actor = actor, !.user = u]
    BY <1>6 DEF Targets
  <2>2. req'[q] = [step |-> step, actor |-> actor, user |-> u, code |-> NoOne,
                   expires |-> Permanent, fresh |-> FALSE]
    BY <2>1 DEF NoReq
  <2>3. /\ req'[q].step = step /\ req'[q].actor = actor /\ req'[q].user = u
        /\ req'[q].code = NoOne /\ req'[q].expires = Permanent /\ req'[q].fresh = FALSE
    BY <2>2
  <2>4. actor \in User /\ u \in User /\ u # actor /\ step \in {"demote", "disable", "count"}
    BY <2>1
  <2> QED
    BY <1>1, <2>3, <2>4
<1>7. CASE Confirms(q)
  BY <1>1, <1>7 DEF Confirms, ReqRow, At
<1> QED
  BY <1>1, <1>2, <1>3, <1>4, <1>5, <1>6, <1>7 DEF RequestMove

------------------------------------------------------------------------------
(* Each part of the invariant *)

\* InHand is kept.
LEMMA InHandStep ==
  ASSUME IInv, Next
  PROVE  InHand'
<1> SUFFICES ASSUME NEW q \in Request
             PROVE  /\ IF req'[q].step \in {"read", "commit", "deleteCode"}
                       THEN req'[q].code \in Code ELSE req'[q].code = NoOne
                    /\ req'[q].step \in {"read", "commit"} => req'[q].user \in User
                    /\ req'[q].step \in {"demote", "disable", "count", "delete"} =>
                         /\ req'[q].actor \in User /\ req'[q].user \in User
                         /\ req'[q].actor # req'[q].user
  BY DEF InHand
<1>1. InHand /\ req[q] \in ReqRow
  BY RequestFields DEF IInv
<1>2. CASE req'[q] = NoReq
  BY <1>2 DEF NoReq
<1>3. CASE /\ req'[q].step = req[q].step /\ req'[q].actor = req[q].actor
           /\ req'[q].user = req[q].user /\ req'[q].code = req[q].code
  BY <1>1, <1>3 DEF InHand
<1>4. CASE /\ \/ req[q].step = "read" /\ req'[q].step = "commit"
              \/ req[q].step = "count" /\ req'[q].step = "delete"
           /\ req'[q].actor = req[q].actor
           /\ req'[q].user = req[q].user /\ req'[q].code = req[q].code
  BY <1>1, <1>4 DEF InHand
<1> QED
  BY <1>2, <1>3, <1>4, RequestFields

\* Who holds the code after the step held it before, or takes it now.
LEMMA HeldAloneStep ==
  ASSUME IInv, Next
  PROVE  HeldAlone'
<1> SUFFICES ASSUME NEW c \in Code, ~codes'[c].overlap, NEW q \in Request, req'[q].code = c
             PROVE  /\ codes'[c].row = "unused"
                    /\ \A p \in Request : req'[p].code = c => p = q
  BY DEF HeldAlone
<1>1. HeldAlone /\ InHand
  BY DEF IInv
<1>2. c # NoOne /\ NoReq.code = NoOne
  BY Constants DEF NoReq
<1> DEFINE TakesIt(p) ==
      /\ codes[c].row = "unused" /\ codes' = Taken(c)
      /\ \A o \in Request \ {p} : req'[o] = req[o]
<1>3. ASSUME NEW p \in Request, req'[p].code = c
      PROVE  req[p].code = c \/ TakesIt(p)
  <2>1. req'[p].code \in {req[p].code, NoOne} \/ TakesIt(p)
    <3>1. \/ req'[p] = NoReq
          \/ req'[p].code = req[p].code
          \/ /\ codes[req'[p].code].row = "unused" /\ codes' = Taken(req'[p].code)
             /\ \A o \in Request \ {p} : req'[o] = req[o]
          \/ req'[p].code = NoOne
      BY RequestFields
    <3> QED
      BY <1>2, <1>3, <3>1
  <2> QED
    BY <1>2, <1>3, <2>1
<1>4. codes[c] \in CodeRow /\ (codes' = Taken(c) => ~Held(c) /\ codes'[c] = codes[c])
  <2>1. codes \in [Code -> CodeRow]
    BY DEF IInv, TypeOK
  <2>2. CASE Held(c) /\ codes' = Taken(c)
    BY <2>1, <2>2 DEF Taken, CodeRow
  <2>3. CASE ~Held(c) /\ codes' = Taken(c)
    BY <2>1, <2>3 DEF Taken
  <2> QED
    BY <2>1, <2>2, <2>3
<1>5. CASE TakesIt(q)
  <2>1. ~Held(c) /\ codes'[c].row = "unused"
    BY <1>4, <1>5
  <2> QED
    BY <1>5, <2>1 DEF Held
<1>6. CASE req[q].code = c
  <2>1. Held(c)
    BY <1>6 DEF Held
  <2>2. ~codes[c].overlap
    BY CodeFields DEF CodeRow
  <2>3. codes[c].row = "unused" /\ \A p \in Request : req[p].code = c => p = q
    BY <1>1, <1>6, <2>2 DEF HeldAlone
  <2>4. \A p \in Request : req'[p].code = c => p = q
    BY <1>3, <1>4, <2>1, <2>3
  <2>5. codes'[c].row = "unused"
    BY <1>2, <2>3, CodeFields
  <2> QED
    BY <2>4, <2>5
<1> QED
  BY <1>3, <1>5, <1>6

\* CodeRedeemedOnce is kept: only a code held alone is marked.
LEMMA CodeRedeemedOnceStep ==
  ASSUME IInv, Next
  PROVE  CodeRedeemedOnce'
<1> SUFFICES ASSUME NEW c \in Code, ~codes'[c].overlap
             PROVE  codes'[c].granted <= 1 /\ (codes'[c].granted = 1 <=> codes'[c].row = "used")
  BY DEF CodeRedeemedOnce
<1>1. ~codes[c].overlap /\ codes[c] \in CodeRow
  BY CodeFields
<1>2. /\ codes[c].granted \in Nat /\ codes[c].granted <= 1
      /\ codes[c].granted = 1 <=> codes[c].row = "used"
  BY <1>1 DEF CodeRow, IInv, CodeRedeemedOnce
<1>3. \A r \in Request : req[r].code = c => codes[c].row = "unused"
  BY <1>1 DEF IInv, HeldAlone
<1> QED
  BY <1>1, <1>2, <1>3, CodeFields

\* A redeemer who goes has redeemed nothing, and nobody redeems in that step.
LEMMA RedeemerStaysStep ==
  ASSUME IInv, Next
  PROVE  RedeemerStays'
<1> SUFFICES ASSUME NEW c \in Code, codes'[c].by # NoOne
             PROVE  users'[codes'[c].by].here
  BY DEF RedeemerStays
<1>1. codes'[c] \in CodeRow /\ codes[c] \in CodeRow
  BY CodeFields
<1>2. codes'[c].by \in User
  BY <1>1 DEF CodeRow
<1>3. UserMove(codes'[c].by)
  BY <1>2, UserMoves
<1>4. codes[c].by # NoOne => users[codes[c].by].here
  BY DEF IInv, RedeemerStays
<1>5. CASE codes'[c].by = codes[c].by
  BY <1>3, <1>4, <1>5 DEF UserMove, UserRow
<1>6. CASE codes'[c].by # codes[c].by
  <2>1. users[codes'[c].by].here /\ codes' # codes
    BY <1>6, CodeFields
  <2> QED
    BY <1>2, <1>3, <2>1 DEF UserMove, UserRow
<1> QED
  BY <1>5, <1>6

\* Days only pass.
LEMMA DaysPass ==
  ASSUME IInv, Next
  PROVE  day \in Nat /\ day >= 1 /\ day' \in 1..(MaxDay + 1) /\ day' >= day
<1>1. day \in 1..(MaxDay + 1)
  BY DEF IInv, TypeOK
<1>2. CASE Tomorrow
  BY <1>1, <1>2, Constants DEF Tomorrow
<1>3. CASE day' = day
  BY <1>1, <1>3, Constants
<1>4. CASE Restart \/ SyncMemberTier \/ CreateCodes \/ UpdateUser
  BY <1>3, <1>4 DEF Restart, SyncMemberTier, CreateCodes, UpdateUser
<1>5. ASSUME NEW r \in Request,
             \/ RedeemReadsCode(r) \/ RedeemReadsUser(r) \/ RedeemCommits(r)
             \/ DeleteCodeReads(r) \/ DeleteCode(r)
             \/ AdminBegins(r) \/ DemoteUser(r) \/ DisableUser(r)
             \/ DeleteUserCounts(r) \/ DeleteUser(r)
      PROVE  day' = day
  BY <1>5 DEF RedeemReadsCode, RedeemReadsUser, RedeemCommits, DeleteCodeReads, DeleteCode,
              AdminBegins, DemoteUser, DisableUser, DeleteUserCounts, DeleteUser
<1> QED
  BY <1>2, <1>3, <1>4, <1>5 DEF Next

\* The bound of a membership is a number, and so is what a row holds.
LEMMA Numbers ==
  /\ Horizon \in Nat /\ Expiry = 0..Horizon
  /\ Cardinality(Code) \in Nat /\ Cardinality(Request) \in Nat
<1>1. Cardinality(Code) \in Nat /\ Cardinality(Request) \in Nat
  BY Constants, FS_CardinalityType
<1> QED
  BY <1>1, Constants DEF Horizon, Expiry, Permanent

\* The account of a fresh redemption is as it was, and a later day asks for less.
LEMMA FreshIsExtendedStep ==
  ASSUME IInv, Next
  PROVE  FreshIsExtended'
<1> SUFFICES ASSUME NEW q \in Request, req'[q].step = "commit", req'[q].fresh
             PROVE  LET u == req'[q].user IN
                    /\ users'[u].here
                    /\ users'[u].tier = "member" /\ users'[u].expires # Permanent /\ users'[u].expires >= day'
                         => req'[q].expires = users'[u].expires + Duration
  BY DEF FreshIsExtended, At, Limited
<1>1. req[q] \in ReqRow /\ InHand /\ FreshIsExtended /\ users \in [User -> UserRow]
  BY RequestFields DEF IInv, TypeOK
<1>2. CASE /\ req'[q].step = req[q].step /\ req'[q].user = req[q].user
           /\ req'[q].expires = req[q].expires
           /\ req[q].fresh /\ \A u \in User : req[q].user = u => users'[u] = users[u]
  <2>1. req[q].user \in User /\ users'[req[q].user] = users[req[q].user]
    BY <1>1, <1>2 DEF InHand
  <2>2. users[req[q].user].expires \in Nat
    BY <1>1, <2>1, Numbers DEF UserRow
  <2> QED
    BY <1>1, <1>2, <2>1, <2>2, DaysPass DEF FreshIsExtended, At, Limited
<1>3. CASE /\ req[q].step = "read" /\ req'[q].user = req[q].user
           /\ req'[q].expires = RedeemBase(req[q].user) + Duration
           /\ users[req[q].user].here /\ UNCHANGED <<day, users>>
  <2>1. req[q].user \in User
    BY <1>1, <1>3 DEF InHand
  <2>2. users[req[q].user].expires \in Nat
    BY <1>1, <2>1, Numbers DEF UserRow
  <2> QED
    BY <1>3, <2>1, <2>2, DaysPass DEF RedeemBase, Limited
<1>4. NoReq.step = "idle"
  BY DEF NoReq
<1> QED
  BY <1>2, <1>3, <1>4, RequestFields

\* No step opens a chance.
LEMMA ChancesShrink ==
  ASSUME IInv, Next
  PROVE  Chances' \subseteq Chances
<1> SUFFICES ASSUME NEW c \in Code, NEW q \in Request,
                    codes'[c].row \in {"none", "unused"} \/ req'[q].code = c
             PROVE  codes[c].row \in {"none", "unused"} \/ req[q].code = c
  BY DEF Chances
<1>1. CASE codes'[c].row \in {"none", "unused"}
  BY <1>1, CodeFields
<1>2. CASE req'[q].code = c
  <2>1. c # NoOne /\ NoReq.code = NoOne
    BY Constants DEF NoReq
  <2> QED
    BY <1>2, <2>1, RequestFields
<1> QED
  BY <1>1, <1>2

\* There are at most as many chances as codes times requests.
LEMMA ChancesCounted ==
  /\ IsFiniteSet(Chances) /\ Cardinality(Chances) \in Nat
  /\ Cardinality(Chances) <= Cardinality(Code) * Cardinality(Request)
<1>1. IsFiniteSet(Code \X Request) /\ Cardinality(Code \X Request) = Cardinality(Code) * Cardinality(Request)
  BY Constants, FS_Product
<1>2. Chances \in SUBSET (Code \X Request)
  BY DEF Chances
<1>3. IsFiniteSet(Chances) /\ Cardinality(Chances) <= Cardinality(Code \X Request)
  BY <1>1, <1>2, FS_Subset
<1> QED
  BY <1>1, <1>3, FS_CardinalityType

\* Every chance less leaves room for one more duration.
LEMMA Room ==
  ASSUME NEW m \in Nat, NEW n \in Nat
  PROVE  /\ Duration * m \in Nat
         /\ m <= n => Duration * m <= Duration * n
         /\ m < n => Duration * m + Duration <= Duration * n
<1>1. PICK d \in Nat : d = Duration
  BY Constants
<1>2. d * m \in Nat /\ (m <= n => d * m <= d * n)
  OBVIOUS
<1>3. m < n => d * (m + 1) <= d * n
  OBVIOUS
<1>4. d * (m + 1) = d * m + d
  OBVIOUS
<1> QED
  BY <1>1, <1>2, <1>3, <1>4

\* The codes generated, and the requests that may have one at once, bound how far
\* any membership reaches.
LEMMA ExpiryIsEarnedStep ==
  ASSUME IInv, Next
  PROVE  ExpiryIsEarned'
<1> DEFINE n == Cardinality(Chances)
           m == Cardinality(Chances')
<1>1. m \in Nat /\ n \in Nat /\ m <= n /\ IsFiniteSet(Chances)
  <2>1. m <= n /\ IsFiniteSet(Chances') /\ IsFiniteSet(Chances)
    BY ChancesShrink, ChancesCounted, FS_Subset
  <2> QED
    BY <2>1, ChancesCounted, FS_CardinalityType
<1>2. ExpiryIsEarned /\ InHand /\ users \in [User -> UserRow] /\ req \in [Request -> ReqRow]
  BY DEF IInv, TypeOK
<1>3. /\ \A u \in User : users[u].expires \in Nat /\ users[u].expires + Duration * n <= Horizon
      /\ \A r \in Request : req[r].expires \in Nat
           /\ (req[r].step = "commit" => req[r].expires + Duration * n <= Horizon + Duration)
  BY <1>2, Numbers DEF ExpiryIsEarned, UserRow, ReqRow, At
<1>4. /\ Duration * m \in Nat /\ Duration * n \in Nat /\ Duration * m <= Duration * n
      /\ m < n => Duration * m + Duration <= Duration * n
      /\ 1 + MaxDay + Duration * n <= Horizon
  <2>1. /\ Cardinality(Code) * Cardinality(Request) \in Nat
        /\ n <= Cardinality(Code) * Cardinality(Request)
        /\ Horizon = 1 + MaxDay + Duration * (Cardinality(Code) * Cardinality(Request))
    BY Numbers, ChancesCounted, Constants DEF Horizon
  <2>2. Duration * n <= Duration * (Cardinality(Code) * Cardinality(Request))
        /\ Duration * (Cardinality(Code) * Cardinality(Request)) \in Nat
    BY <1>1, <2>1, Room
  <2> QED
    BY <1>1, <2>1, <2>2, Room, Constants
<1> HIDE DEF m, n
<1> DEFINE dn == Duration * n
           dm == Duration * m
<1>5. /\ Horizon \in Nat /\ Duration \in Nat /\ MaxDay \in Nat
      /\ dm \in Nat /\ dn \in Nat /\ dm <= dn /\ 1 + MaxDay + dn <= Horizon
      /\ m < n => dm + Duration <= dn
  BY <1>4, Numbers, Constants
<1>6. /\ \A u \in User : users[u].expires \in Nat /\ users[u].expires + dn <= Horizon
      /\ \A r \in Request : req[r].expires \in Nat
           /\ (req[r].step = "commit" => req[r].expires + dn <= Horizon + Duration)
  BY <1>3
<1> HIDE DEF dn, dm
<1>7. ASSUME NEW u \in User
      PROVE  users'[u].expires + dm <= Horizon
  <2>3. users[u].expires \in Nat /\ users[u].expires + dn <= Horizon
    BY <1>6
  <2>1. CASE users'[u].expires \in {users[u].expires, 0}
    BY <1>5, <2>3, <2>1
  <2>2. ASSUME NEW r \in Request, RedeemCommits(r), users[req[r].user].here,
               users'[u].expires = req[r].expires
        PROVE  users'[u].expires + dm <= Horizon
    <3>1. req[r].step = "commit" /\ req[r].code \in Code /\ req'[r] = NoReq
      BY <1>2, <2>2 DEF RedeemCommits, At, InHand
    <3>2. codes'[req[r].code].row \in {"used", "deleted"}
      <4>1. codes \in [Code -> CodeRow]
        BY DEF IInv, TypeOK
      <4>2. codes' = [codes EXCEPT ![req[r].code] = Redeemed(req[r].code, req[r].user)]
        BY <2>2 DEF RedeemCommits, Redeemed
      <4>3. Redeemed(req[r].code, req[r].user).row \in {"used", "deleted"}
        BY <3>1, <4>1 DEF Redeemed, CodeRow
      <4> QED
        BY <3>1, <4>1, <4>2, <4>3
    <3>3. <<req[r].code, r>> \in Chances /\ <<req[r].code, r>> \notin Chances'
      BY <3>1, <3>2, Constants DEF Chances, NoReq
    <3>4. m < n
      <4>1. Chances' # Chances /\ Chances' \in SUBSET Chances
        BY <3>3, ChancesShrink
      <4> QED
        BY <1>1, <4>1, FS_Subset DEF m, n
    <3> QED
      BY <1>6, <1>5, <2>2, <3>1, <3>4
  <2> QED
    BY <2>1, <2>2, UserMoves DEF UserMove, Permanent
<1>8. ASSUME NEW q \in Request, req'[q].step = "commit"
      PROVE  req'[q].expires + dm <= Horizon + Duration
  <2>1. CASE req'[q].step = req[q].step /\ req'[q].expires = req[q].expires
    BY <1>6, <1>5, <1>8, <2>1
  <2>2. CASE /\ req[q].step = "read"
             /\ req'[q].expires = RedeemBase(req[q].user) + Duration
    <3>1. req[q].user \in User
      BY <1>2, <2>2 DEF InHand
    <3>2. CASE RedeemBase(req[q].user) = users[req[q].user].expires
      <4>1. /\ req'[q].expires = users[req[q].user].expires + Duration
            /\ users[req[q].user].expires \in Nat
            /\ users[req[q].user].expires + dn <= Horizon
        BY <1>6, <2>2, <3>1, <3>2
      <4> QED
        BY <1>5, <4>1
    <3>3. CASE RedeemBase(req[q].user) = day
      <4>1. day \in Nat /\ day <= 1 + MaxDay
        BY Constants DEF IInv, TypeOK
      <4> QED
        BY <1>5, <2>2, <3>3, <4>1
    <3> QED
      BY <3>2, <3>3 DEF RedeemBase
  <2>3. NoReq.step = "idle"
    BY DEF NoReq
  <2> QED
    BY <1>8, <2>1, <2>2, <2>3, RequestFields
<1>9. Horizon' = Horizon
  BY DEF Horizon
<1> QED
  BY <1>7, <1>8, <1>9 DEF ExpiryIsEarned, At, m, dm

\* Every row is of its type; an expiry stays within the bound because it is earned.
LEMMA TypeStep ==
  ASSUME IInv, Next
  PROVE  TypeOK'
<1>1. /\ TypeOK /\ ExpiryIsEarned
      /\ req \in [Request -> ReqRow] /\ users \in [User -> UserRow] /\ codes \in [Code -> CodeRow]
  BY DEF IInv, TypeOK
<1>2. DOMAIN users' = User /\ DOMAIN req' = Request
      /\ users' = [u \in User |-> users'[u]] /\ req' = [r \in Request |-> req'[r]]
  <2>1. ASSUME NEW u \in User, NEW row, SetUser(u, row)
        PROVE  users' = [v \in User |-> users'[v]] /\ req' = [r \in Request |-> req'[r]]
    BY <1>1, <2>1 DEF SetUser
  <2>2. ASSUME NEW r \in Request, NEW row, UserWritten(r, row)
        PROVE  users' = [v \in User |-> users'[v]] /\ req' = [q \in Request |-> req'[q]]
    BY <1>1, <2>2 DEF UserWritten
  <2>3. users' = users => users' = [v \in User |-> users'[v]]
    BY <1>1
  <2>4. req' = req => req' = [r \in Request |-> req'[r]]
    BY <1>1
  <2>5. ASSUME NEW r \in Request, Answer(r) \/ (\E q : Begin(r, q))
        PROVE  req' = [p \in Request |-> req'[p]]
    BY <1>1, <2>5 DEF Answer, Begin
  <2>6. CASE Tomorrow \/ CreateCodes
    BY <2>3, <2>4, <2>6 DEF Tomorrow, CreateCodes
  <2>7. CASE Restart
    BY <1>1, <2>7 DEF Restart
  <2>8. CASE SyncMemberTier \/ UpdateUser
    BY <2>1, <2>8 DEF SyncMemberTier, UpdateUser
  <2>9. ASSUME NEW r \in Request, RedeemReadsCode(r) \/ DeleteCodeReads(r) \/ DeleteCode(r) \/ AdminBegins(r)
        PROVE  users' = users /\ (Answer(r) \/ \E q : Begin(r, q))
    BY <2>9 DEF RedeemReadsCode, DeleteCodeReads, DeleteCode, AdminBegins
  <2>10. ASSUME NEW r \in Request, RedeemReadsUser(r)
         PROVE  users' = users /\ req' = [q \in Request |-> req'[q]]
    BY <1>1, <2>5, <2>10 DEF RedeemReadsUser
  <2>11. ASSUME NEW r \in Request, RedeemCommits(r)
         PROVE  users' = [v \in User |-> users'[v]] /\ req' = [q \in Request |-> req'[q]]
    BY <1>1, <2>11 DEF RedeemCommits
  <2>12. ASSUME NEW r \in Request, DemoteUser(r) \/ DisableUser(r)
         PROVE  users' = [v \in User |-> users'[v]] /\ req' = [q \in Request |-> req'[q]]
    BY <2>2, <2>12 DEF DemoteUser, DisableUser
  <2>13. ASSUME NEW r \in Request, DeleteUserCounts(r)
         PROVE  users' = users /\ req' = [q \in Request |-> req'[q]]
    BY <1>1, <2>5, <2>13 DEF DeleteUserCounts
  <2>14. ASSUME NEW r \in Request, DeleteUser(r)
         PROVE  users' = [v \in User |-> users'[v]] /\ req' = [q \in Request |-> req'[q]]
    BY <2>2, <2>3, <2>5, <2>14 DEF DeleteUser
  <2>15. users' = [v \in User |-> users'[v]] /\ req' = [q \in Request |-> req'[q]]
    BY <2>3, <2>5, <2>6, <2>7, <2>8, <2>9, <2>10, <2>11, <2>12, <2>13, <2>14 DEF Next
  <2> QED
    BY <2>15
<1>3. users' \in [User -> UserRow]
  BY <1>2, UserMoves DEF UserMove
<1>4. codes' \in [Code -> CodeRow]
  BY CodeMoves, CodeFields
<1>5. ASSUME NEW q \in Request
      PROVE  req'[q] \in ReqRow
  <2>1. req[q] \in ReqRow
    BY <1>1
  <2>2. Permanent \in Expiry
    BY Numbers DEF Permanent
  <2>3. NoReq \in ReqRow
    BY <2>2 DEF NoReq, ReqRow
  <2>4. CASE Waits(q)
    <3> HIDE DEF Expiry
    <3> QED
      BY <2>1, <2>4 DEF Waits, ReqRow
  <2>5. CASE Takes(q)
    <3> HIDE DEF Expiry
    <3> QED
      BY <2>2, <2>5 DEF Takes, ReqRow, NoReq
  <2>6. CASE Prepares(q)
    <3> DEFINE e == RedeemBase(req[q].user) + Duration
    <3>1. req[q].user \in User
      BY <2>6 DEF Prepares, At, IInv, InHand
    <3>2. users[req[q].user].expires \in Nat /\ day \in Nat
      BY <1>1, <3>1, Numbers DEF UserRow, TypeOK
    <3>3. RedeemBase(req[q].user) \in Nat
      BY <3>2 DEF RedeemBase
    <3>4. req'[q].expires = e /\ req'[q].step = "commit"
      BY <2>1, <2>6 DEF Prepares, ReqRow
    <3>5. e <= Horizon
      <4>1. <<req[q].code, q>> \in Chances
        BY <2>6 DEF Prepares, At, IInv, InHand, Chances
      <4>2. Cardinality(Chances) \in Nat /\ Cardinality(Chances) >= 1
        BY <4>1, ChancesCounted, FS_EmptySet
      <4>3. Duration * Cardinality(Chances) >= Duration
        <5>1. 0 \in Nat /\ Duration * 0 = 0
          BY Constants
        <5> QED
          BY <4>2, <5>1, Room, Constants
      <4>4. Duration * Cardinality(Chances) \in Nat
        BY <4>2, Room
      <4>5. CASE RedeemBase(req[q].user) = users[req[q].user].expires
        BY <1>1, <3>1, <3>2, <4>3, <4>4, <4>5, Numbers, Constants DEF ExpiryIsEarned
      <4>6. CASE RedeemBase(req[q].user) = day
        <5>1. day <= 1 + MaxDay
          BY Constants DEF IInv, TypeOK
        <5>2. /\ Cardinality(Code) * Cardinality(Request) \in Nat
              /\ Cardinality(Chances) <= Cardinality(Code) * Cardinality(Request)
              /\ Horizon = 1 + MaxDay + Duration * (Cardinality(Code) * Cardinality(Request))
          BY Numbers, ChancesCounted, Constants DEF Horizon
        <5>3. Duration * Cardinality(Chances) <= Duration * (Cardinality(Code) * Cardinality(Request))
              /\ Duration * (Cardinality(Code) * Cardinality(Request)) \in Nat
          BY <4>2, <5>2, Room
        <5> QED
          BY <3>2, <4>3, <4>4, <4>6, <5>1, <5>2, <5>3, Numbers, Constants
      <4> QED
        BY <4>5, <4>6 DEF RedeemBase
    <3>6. e \in Expiry
      BY <3>3, <3>5, Numbers, Constants
    <3> HIDE DEF e, Expiry
    <3>7. req'[q] = [req[q] EXCEPT !.step = "commit", !.fresh = TRUE, !.expires = e]
      BY <2>6 DEF Prepares, e
    <3> QED
      BY <2>1, <3>6, <3>7 DEF ReqRow
  <2>7. CASE Targets(q)
    <3>1. PICK actor \in User, u \in User, step \in {"demote", "disable", "count"} :
            req'[q] = [NoReq EXCEPT !.step = step, !.actor = actor, !.user = u]
      BY <2>7 DEF Targets
    <3>2. req'[q] = [step |-> step, actor |-> actor, user |-> u, code |-> NoOne,
                     expires |-> Permanent, fresh |-> FALSE]
      BY <3>1 DEF NoReq
    <3> HIDE DEF Expiry
    <3> QED
      BY <2>2, <3>2 DEF ReqRow
  <2>8. CASE Confirms(q)
    <3> HIDE DEF Expiry
    <3> QED
      BY <2>1, <2>8 DEF Confirms, ReqRow
  <2> QED
    BY <2>3, <2>4, <2>5, <2>6, <2>7, <2>8, RequestMoves DEF RequestMove
<1> QED
  BY <1>2, <1>3, <1>4, <1>5, DaysPass DEF TypeOK

------------------------------------------------------------------------------
(* The theorems *)

\* The initial state satisfies the inductive invariant.
LEMMA InvInit ==
  Init => IInv
<1> SUFFICES ASSUME Init
             PROVE  IInv
  OBVIOUS
<1>1. Permanent \in Expiry
  BY Numbers DEF Permanent
<1>2. TypeOK
  <2>1. NewUser \in UserRow /\ NewAdmin \in UserRow /\ NoReq \in ReqRow /\ NoCodeRow \in CodeRow
    <3> HIDE DEF Expiry
    <3> QED
      BY <1>1 DEF GoneUser, NewUser, NewAdmin, UserRow, NoReq, ReqRow, NoCodeRow, CodeRow
  <2> QED
    BY <2>1, Constants DEF Init, TypeOK
<1>3. InHand /\ HeldAlone /\ FreshIsExtended
  BY Constants DEF Init, InHand, HeldAlone, FreshIsExtended, NoReq, At
<1>4. CodeRedeemedOnce /\ RedeemerStays
  BY DEF Init, CodeRedeemedOnce, RedeemerStays, NoCodeRow
<1>5. ExpiryIsEarned
  <2>1. \A u \in User : users[u].expires = 0
    BY DEF Init, NewAdmin, NewUser, GoneUser, Permanent
  <2>2. /\ Cardinality(Code) * Cardinality(Request) \in Nat /\ Cardinality(Chances) \in Nat
        /\ Cardinality(Chances) <= Cardinality(Code) * Cardinality(Request)
        /\ Horizon = 1 + MaxDay + Duration * (Cardinality(Code) * Cardinality(Request))
    BY Numbers, ChancesCounted, Constants DEF Horizon
  <2>3. /\ Duration * Cardinality(Chances) <= Duration * (Cardinality(Code) * Cardinality(Request))
        /\ Duration * Cardinality(Chances) \in Nat
        /\ Duration * (Cardinality(Code) * Cardinality(Request)) \in Nat
    BY <2>2, Room
  <2> QED
    BY <2>1, <2>2, <2>3, Constants DEF Init, ExpiryIsEarned, NoReq, At
<1> QED
  BY <1>2, <1>3, <1>4, <1>5 DEF IInv

\* Each step preserves it.
LEMMA InvStep ==
  IInv /\ [Next]_vars => IInv'
<1> SUFFICES ASSUME IInv, [Next]_vars
             PROVE  IInv'
  OBVIOUS
<1>1. CASE Next
  BY <1>1, TypeStep, InHandStep, HeldAloneStep, CodeRedeemedOnceStep, RedeemerStaysStep,
     FreshIsExtendedStep, ExpiryIsEarnedStep DEF IInv
<1>2. CASE UNCHANGED vars
  BY <1>2 DEF IInv, vars, TypeOK, InHand, HeldAlone, Held, CodeRedeemedOnce, RedeemerStays,
              FreshIsExtended, Limited, ExpiryIsEarned, Chances, Horizon, At
<1> QED
  BY <1>1, <1>2

\* The inductive invariant, on which the theorems rest.
LEMMA Invariance == Spec => []IInv
BY InvInit, InvStep, PTL DEF Spec

\* Rows, codes and requests are always of their types; above all, no membership
\* outlasts the codes put end to end, each as often as requests can overlap on it.
THEOREM TypeCorrect == Spec => []TypeOK
<1>1. IInv => TypeOK
  BY DEF IInv
<1> QED
  BY <1>1, Invariance, PTL

\* A code that no two requests had at once is redeemed at most once, whatever
\* redemptions, deletions and restarts interleave.
THEOREM RedeemedOnce == Spec => []CodeRedeemedOnce
<1>1. IInv => CodeRedeemedOnce
  BY DEF IInv
<1> QED
  BY <1>1, Invariance, PTL

\* Nobody who has redeemed a code is ever deleted, not even by a deletion that was
\* let in before the code was redeemed.
THEOREM RedeemersStay == Spec => []RedeemerStays
<1>1. IInv => RedeemerStays
  BY DEF IInv
<1> QED
  BY <1>1, Invariance, PTL

\* A redemption that nothing came between adds its duration to what the account had,
\* even when days have passed since it read it.
THEOREM RedeemingAdds == Spec => RedeemingAddsTime
<1>1. ASSUME IInv, [Next]_vars
      PROVE  \A r \in Request :
               LET u == req[r].user IN
                 At(r, "commit") /\ req[r].fresh /\ ~At(r, "commit")' /\ ~Restart
                   /\ Limited(u) /\ users[u].expires >= day
                 => users'[u].tier = "member" /\ users'[u].expires = users[u].expires + Duration
  <2> SUFFICES ASSUME NEW r \in Request, At(r, "commit"), req[r].fresh, req'[r].step # "commit",
                      ~Restart, Limited(req[r].user), users[req[r].user].expires >= day
               PROVE  /\ users'[req[r].user].tier = "member"
                      /\ users'[req[r].user].expires = users[req[r].user].expires + Duration
    BY DEF At
  <2>1. /\ req[r].user \in User /\ req[r].code \in Code /\ users[req[r].user].here
        /\ req[r].expires = users[req[r].user].expires + Duration
    BY <1>1 DEF IInv, InHand, FreshIsExtended, At
  <2>2. users \in [User -> UserRow] /\ req \in [Request -> ReqRow]
    BY <1>1 DEF IInv, TypeOK
  <2>3. CASE RedeemCommits(r)
    <3> DEFINE u == req[r].user
               member == [users[u] EXCEPT !.tier = "member", !.expires = req[r].expires]
    <3>1. users' = [users EXCEPT ![u] = member]
      BY <2>1, <2>3 DEF RedeemCommits
    <3>2. member.tier = "member" /\ member.expires = req[r].expires
      <4> HIDE DEF Expiry
      <4> QED
        BY <2>1, <2>2 DEF UserRow
    <3> HIDE DEF member
    <3> QED
      BY <2>1, <2>2, <3>1, <3>2
  <2>4. CASE ~RedeemCommits(r)
    <3>1. CASE UNCHANGED vars
      BY <3>1 DEF vars, At
    <3>2. CASE Tomorrow \/ CreateCodes
      BY <3>2 DEF Tomorrow, CreateCodes, At
    <3>3. CASE SyncMemberTier \/ UpdateUser
      <4>1. \E u, row : SetUser(u, row)
        BY <3>3 DEF SyncMemberTier, UpdateUser
      <4>2. req'[r] \in {req[r], [req[r] EXCEPT !.fresh = FALSE]}
        BY <4>1 DEF SetUser
      <4> QED
        BY <2>2, <4>2 DEF At, ReqRow
    <3>4. ASSUME NEW q \in Request, Answer(q) \/ (\E new : Begin(q, new)),
                 req[q].step # "commit"
          PROVE  req'[r] = req[r]
      BY <2>2, <3>4 DEF Answer, Begin, At
    <3>5. ASSUME NEW q \in Request,
                 RedeemReadsCode(q) \/ DeleteCodeReads(q) \/ DeleteCode(q) \/ AdminBegins(q)
          PROVE  FALSE
      <4>1. (Answer(q) \/ \E new : Begin(q, new)) /\ req[q].step # "commit"
        BY <3>5 DEF RedeemReadsCode, DeleteCodeReads, DeleteCode, AdminBegins, Begin, At
      <4> QED
        BY <3>4, <4>1 DEF At
    <3>6. ASSUME NEW q \in Request, RedeemReadsUser(q)
          PROVE  FALSE
      BY <2>2, <3>6 DEF RedeemReadsUser, Answer, At
    <3>7. ASSUME NEW q \in Request, NEW row, UserWritten(q, row), req[q].step # "commit"
          PROVE  FALSE
      <4>1. req'[r] \in {req[r], [req[r] EXCEPT !.fresh = FALSE]}
        BY <3>7 DEF UserWritten, At
      <4> QED
        BY <2>2, <4>1 DEF At, ReqRow
    <3>8. ASSUME NEW q \in Request, RedeemCommits(q)
          PROVE  FALSE
      <4>1. req'[r] \in {req[r], [req[r] EXCEPT !.fresh = FALSE]}
        BY <2>4, <3>8 DEF RedeemCommits
      <4> QED
        BY <2>2, <4>1 DEF At, ReqRow
    <3>9. ASSUME NEW q \in Request, DemoteUser(q) \/ DisableUser(q)
          PROVE  FALSE
      BY <3>7, <3>9 DEF DemoteUser, DisableUser, At
    <3>10. ASSUME NEW q \in Request, DeleteUserCounts(q)
           PROVE  FALSE
      BY <2>2, <3>10 DEF DeleteUserCounts, Answer, At
    <3>11. ASSUME NEW q \in Request, DeleteUser(q)
           PROVE  FALSE
      <4>1. req[q].step # "commit"
        BY <3>11 DEF DeleteUser, At
      <4>2. CASE Answer(q)
        BY <3>4, <4>1, <4>2 DEF At
      <4>3. CASE UserWritten(q, GoneUser)
        BY <3>7, <4>1, <4>3
      <4> QED
        BY <3>11, <4>2, <4>3 DEF DeleteUser
    <3> QED
      BY <1>1, <2>4, <3>1, <3>2, <3>3, <3>5, <3>6, <3>8, <3>9, <3>10, <3>11 DEF Next
  <2> QED
    BY <2>3, <2>4
<1> QED
  BY <1>1, Invariance, PTL DEF Spec, RedeemingAddsTime

\* The last administrator who can log in is lost only to a request of somebody who
\* was let in as an administrator and is none any more.
THEOREM LastAdmin == Spec => LastAdminStays
<1>1. ASSUME IInv, [Next]_vars, Admins # {}, Admins' = {}
      PROVE  \E r \in Request : req[r].actor \in User \ Admins /\ req'[r].step = "idle"
  <2>1. InHand /\ users \in [User -> UserRow] /\ req \in [Request -> ReqRow]
    BY <1>1 DEF IInv, TypeOK
  <2>2. PICK a \in User : users[a].here /\ ~users[a].disabled /\ users[a].role = "admin"
    BY <1>1 DEF Admins, IsAdmin, MayEnter
  <2>3. ~(users'[a].here /\ ~users'[a].disabled /\ users'[a].role = "admin")
    BY <1>1 DEF Admins, IsAdmin, MayEnter
  <2>4. users' # users
    BY <2>2, <2>3
  <2>5. \E r \in Request : /\ req[r].step \in {"demote", "disable", "delete"}
                          /\ req'[r] = NoReq /\ \A v \in User : v # req[r].user => users'[v] = users[v]
    <3>1. users'[a] # users[a]
      BY <2>2, <2>3
    <3>2. ASSUME NEW r \in Request, NEW row, UserWritten(r, row)
          PROVE  req'[r] = NoReq /\ \A v \in User : v # req[r].user => users'[v] = users[v]
      BY <2>1, <3>2 DEF UserWritten
    <3>3. ASSUME NEW r \in Request, DemoteUser(r) \/ DisableUser(r) \/ DeleteUser(r)
          PROVE  \E row : /\ req[r].step \in {"demote", "disable", "delete"} /\ UserWritten(r, row)
      BY <2>4, <3>3 DEF DemoteUser, DisableUser, DeleteUser, At
    <3>4. CASE Restart
      <4>1. users'[a] \in {[users[a] EXCEPT !.role = "admin"], users[a]}
        BY <2>1, <2>2, <3>4 DEF Restart
      <4> QED
        BY <2>1, <2>2, <2>3, <4>1 DEF UserRow
    <3>5. CASE SyncMemberTier
      <4>1. users'[a] = [users[a] EXCEPT !.tier = "free"]
        BY <2>1, <3>1, <3>5 DEF SyncMemberTier, SetUser
      <4> QED
        BY <2>1, <2>2, <2>3, <4>1 DEF UserRow
    <3>6. CASE UpdateUser
      <4>1. \/ users'[a] = [users[a] EXCEPT !.role = "admin"]
            \/ users'[a] = [users[a] EXCEPT !.disabled = FALSE]
            \/ \E t \in {"free", "member"} : users'[a] = [users[a] EXCEPT !.tier = t]
        <5>1. PICK v \in User :
                \/ users' = [users EXCEPT ![v] = [users[v] EXCEPT !.role = "admin"]]
                \/ users' = [users EXCEPT ![v] = [users[v] EXCEPT !.disabled = FALSE]]
                \/ \E t \in {"free", "member"} : users' = [users EXCEPT ![v] = [users[v] EXCEPT !.tier = t]]
          BY <3>6 DEF UpdateUser, SetUser
        <5>2. v = a
          BY <2>1, <3>1, <5>1
        <5> QED
          BY <2>1, <5>1, <5>2
      <4> QED
        BY <2>1, <2>2, <2>3, <4>1 DEF UserRow
    <3>7. ASSUME NEW r \in Request, RedeemCommits(r)
          PROVE  FALSE
      <4> DEFINE u == req[r].user
                 member == [users[u] EXCEPT !.tier = "member", !.expires = req[r].expires]
      <4>1. users' = [users EXCEPT ![u] = IF users[u].here THEN member ELSE users[u]]
        BY <2>4, <3>7 DEF RedeemCommits
      <4>2. a = u => member.here = users[a].here /\ member.disabled = users[a].disabled
                     /\ member.role = users[a].role
        BY <2>1 DEF UserRow
      <4> HIDE DEF member, u
      <4> QED
        BY <2>1, <2>2, <2>3, <4>1, <4>2
    <3> QED
      BY <1>1, <2>4, <3>2, <3>3, <3>4, <3>5, <3>6, <3>7
         DEF Next, vars, Tomorrow, CreateCodes, RedeemReadsCode, RedeemReadsUser, DeleteCodeReads,
             DeleteCode, AdminBegins, DeleteUserCounts
  <2>6. PICK r \in Request : /\ req[r].step \in {"demote", "disable", "delete"}
                             /\ req'[r] = NoReq
                             /\ \A v \in User : v # req[r].user => users'[v] = users[v]
    BY <2>5
  <2>7. req[r].actor \in User /\ req[r].actor # req[r].user
    BY <2>1, <2>6 DEF InHand
  <2>8. req[r].actor \notin Admins
    BY <1>1, <2>6, <2>7 DEF Admins, IsAdmin, MayEnter
  <2>9. req'[r].step = "idle"
    BY <2>6 DEF NoReq
  <2> QED
    BY <2>7, <2>8, <2>9
<1> QED
  BY <1>1, Invariance, PTL DEF Spec, LastAdminStays
=============================================================================
