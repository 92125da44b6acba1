--------------------------- MODULE AccountsProofs ---------------------------
(***************************************************************************)
(* For any number of requests in progress and any limits: what signing in  *)
(* and the passwords of an account promise while the requests interleave.  *)
(***************************************************************************)
EXTENDS Accounts, FiniteSetTheorems, TLAPS

------------------------------------------------------------------------------
(* The inductive invariant *)

AccountTypeOK ==
  /\ captcha \in [row : {"none", "live", "expired"}, passed : Nat]
  /\ pw \in Password /\ fails \in Nat
  /\ locked \in BOOLEAN /\ totp \in BOOLEAN
  /\ sessions \subseteq Session
CodesTypeOK == codes \in [CodeId -> Code]
ReqTypeOK == req \in [Request -> [step : Step, pw : Password, code : CodeId \union {NoCode},
                                  attempts : 0..MaxAttempts]]

\* A captcha whose row is there has let nobody pass yet.
CaptchaUnspent ==
  captcha.passed <= 1 /\ (captcha.row # "none" => captcha.passed = 0)

\* Failures beyond the last but one are each in the hands of a request that has
\* yet to read the count, or to lock.
Counting == {r \in Request : req[r].step \in {"count", "lock"}}
FailsAreCounted == fails <= MaxFails - 1 + Cardinality(Counting)

\* Each change of the password in progress has its version.
Changing == {r \in Request : req[r].step = "change"}
VersionsSuffice == pw.version + Cardinality(Changing) <= MaxVersion

\* A request has a code in its hands while it answers, and one that no other has
\* read meanwhile is as it was when it was read.
CodesAsRead ==
  \A r \in Request :
    /\ IF req[r].step \in {"miss", "commit"}
       THEN req[r].code \in CodeId /\ req[r].attempts < MaxAttempts ELSE req[r].code = NoCode
    /\ \A c \in CodeId : req[r].code = c /\ ~codes[c].overlap =>
         /\ codes[c].row = "fresh" /\ codes[c].attempts = req[r].attempts
         /\ \A q \in Request : req[q].code = c => q = r

IInv ==
  /\ AccountTypeOK /\ CodesTypeOK /\ ReqTypeOK
  /\ CaptchaUnspent
  /\ SessionsEndWithThePassword
  /\ FailsAreCounted
  /\ VersionsSuffice
  /\ CodeIsCounted
  /\ CodesAsRead

------------------------------------------------------------------------------
(* Types *)

\* The limits are numbers, and the requests are finitely many.
LEMMA Limits ==
  /\ MaxFails \in Nat \ {0} /\ MaxAttempts \in Nat \ {0} /\ MaxVersion \in Nat /\ MaxCodes \in Nat
  /\ IsFiniteSet(Request)
BY AccountsAssumption DEF AccountsAssumption

\* The requests on their way to a lock, or to a new password, can be counted.
LEMMA Finite ==
  /\ IsFiniteSet(Counting) /\ Cardinality(Counting) \in Nat
  /\ Cardinality(Counting) <= Cardinality(Request) /\ Cardinality(Request) \in Nat
  /\ IsFiniteSet(Changing) /\ Cardinality(Changing) \in Nat
<1>1. Counting \in SUBSET Request /\ Changing \in SUBSET Request
  BY DEF Counting, Changing
<1>2. IsFiniteSet(Counting) /\ IsFiniteSet(Changing) /\ Cardinality(Counting) <= Cardinality(Request)
  BY <1>1, Limits, FS_Subset
<1> QED
  BY <1>2, Limits, FS_CardinalityType

\* Likewise after a step.
LEMMA FiniteNext ==
  /\ IsFiniteSet(Counting') /\ Cardinality(Counting') \in Nat
  /\ IsFiniteSet(Changing') /\ Cardinality(Changing') \in Nat
<1>1. Counting' \in SUBSET Request /\ Changing' \in SUBSET Request
  BY DEF Counting, Changing
<1>2. IsFiniteSet(Counting') /\ IsFiniteSet(Changing')
  BY <1>1, Limits, FS_Subset
<1> QED
  BY <1>2, FS_CardinalityType

\* What is written to the account is of its type; a change of the password has a
\* version left.
LEMMA AccountTypeStep ==
  ASSUME IInv, [Next]_vars
  PROVE  AccountTypeOK'
<1> USE DEF AccountTypeOK, ReqTypeOK, Password, Session
<1>1. AccountTypeOK /\ ReqTypeOK
  BY DEF IInv
<1>2. CASE UNCHANGED <<captcha, pw, fails, locked, totp, sessions>>
  BY <1>1, <1>2
<1>3. CASE GetCaptcha \/ CaptchaExpires
  BY <1>1, <1>3 DEF GetCaptcha, CaptchaExpires
<1>4. ASSUME NEW r \in Request, CaptchaDeletes(r)
      PROVE  AccountTypeOK'
  BY <1>1, <1>4 DEF CaptchaDeletes
<1>5. ASSUME NEW r \in Request, FailCounts(r) \/ Locks(r) \/ LoginUnlocks(r)
      PROVE  AccountTypeOK'
  <2>1. CASE FailCounts(r)
    BY <1>1, <2>1 DEF FailCounts
  <2>2. CASE Locks(r)
    BY <1>1, <2>2 DEF Locks
  <2>3. CASE LoginUnlocks(r)
    BY <1>1, <2>3 DEF LoginUnlocks
  <2> QED
    BY <1>5, <2>1, <2>2, <2>3
<1>6. ASSUME NEW r \in Request, LoginSigns(r) \/ Verify2FA(r)
      PROVE  AccountTypeOK'
  <2>1. req[r].pw \in Password
    BY <1>1
  <2>2. \A t \in BOOLEAN : [pw |-> req[r].pw, totp |-> t] \in Session
    BY <2>1
  <2>3. sessions' \in {sessions, sessions \union {[pw |-> req[r].pw, totp |-> FALSE]},
                       sessions \union {[pw |-> req[r].pw, totp |-> TRUE]}}
    BY <1>6 DEF LoginSigns, Verify2FA
  <2>4. UNCHANGED <<captcha, pw, fails, locked, totp>>
    BY <1>6 DEF LoginSigns, Verify2FA
  <2> HIDE DEF Password, Session
  <2>5. sessions' \subseteq Session
    BY <1>1, <2>2, <2>3
  <2> QED
    BY <1>1, <2>4, <2>5
<1>7. ASSUME NEW r \in Request, ChangeUpdates(r)
      PROVE  AccountTypeOK'
  <2>1. r \in Changing
    BY <1>7 DEF ChangeUpdates, At, Changing
  <2>2. pw.version < MaxVersion
    BY <1>1, <2>1, Finite, FS_EmptySet, Limits DEF IInv, VersionsSuffice
  <2> QED
    BY <1>1, <1>7, <2>2, Limits DEF ChangeUpdates
<1>8. ASSUME NEW r \in Request, ResetCommits(r)
      PROVE  AccountTypeOK'
  BY <1>1, <1>8 DEF ResetCommits
<1>9. CASE SessionExpires \/ SetTotp \/ LockEnds
  BY <1>1, <1>9 DEF SessionExpires, SetTotp, LockEnds
<1>10. ASSUME NEW r \in Request,
              CaptchaReads(r) \/ LoginReads(r) \/ FailReads(r) \/ PendingExpires(r) \/ ChangeReads(r)
                \/ ResetReads(r) \/ ResetMisses(r)
       PROVE  UNCHANGED <<captcha, pw, fails, locked, totp, sessions>>
  BY <1>10 DEF CaptchaReads, LoginReads, FailReads, PendingExpires, ChangeReads, ResetReads,
               ResetMisses
<1>11. CASE RequestPasswordReset \/ CodeExpires
  BY <1>2, <1>11 DEF RequestPasswordReset, CodeExpires
<1> QED
  BY <1>2, <1>3, <1>4, <1>5, <1>6, <1>7, <1>8, <1>9, <1>10, <1>11 DEF Next, vars

\* Who writes the codes.
LEMMA CodesFrame ==
  ASSUME [Next]_vars
  PROVE  \/ UNCHANGED codes
         \/ RequestPasswordReset \/ CodeExpires
         \/ \E r \in Request : ResetReads(r) \/ ResetMisses(r) \/ ResetCommits(r)
BY DEF Next, vars, GetCaptcha, CaptchaExpires, LockEnds, SessionExpires, SetTotp, CaptchaReads,
       CaptchaDeletes, LoginReads, FailCounts, FailReads, Locks, LoginUnlocks, LoginSigns,
       Verify2FA, PendingExpires, ChangeReads, ChangeUpdates

\* A row stays one when a field is overwritten.
LEMMA CodeWith ==
  ASSUME NEW code \in Code
  PROVE  /\ \A row \in {"none", "fresh", "used"} : [code EXCEPT !.row = row] \in Code
         /\ [code EXCEPT !.expired = TRUE] \in Code
         /\ Overlapped(code) \in Code
         /\ \A n \in 0..MaxAttempts, row \in {"none", "fresh", "used"}, k \in Nat :
              [code EXCEPT !.attempts = n, !.row = row, !.wrong = k] \in Code
         /\ \A k \in Nat : [code EXCEPT !.row = "used", !.resets = k] \in Code
BY DEF Code, Overlapped

\* The codes keep their types: attempts are counted only below the limit.
LEMMA CodesTypeStep ==
  ASSUME IInv, [Next]_vars
  PROVE  CodesTypeOK'
<1> USE DEF CodesTypeOK
<1>1. CodesTypeOK /\ ReqTypeOK
  BY DEF IInv
<1>2. CASE UNCHANGED codes
  BY <1>1, <1>2
<1>3. CASE RequestPasswordReset \/ CodeExpires
  <2>1. PICK c \in CodeId : \/ codes' = [codes EXCEPT ![c] = [codes[c] EXCEPT !.row = "fresh"]]
                            \/ codes' = [codes EXCEPT ![c] = [codes[c] EXCEPT !.expired = TRUE]]
    BY <1>3 DEF RequestPasswordReset, CodeExpires
  <2>2. /\ [codes[c] EXCEPT !.row = "fresh"] \in Code
        /\ [codes[c] EXCEPT !.expired = TRUE] \in Code
    BY <1>1, CodeWith
  <2> QED
    BY <1>1, <2>1, <2>2
<1>4. ASSUME NEW r \in Request, ResetReads(r)
      PROVE  CodesTypeOK'
  <2>1. PICK c \in CodeId : codes' = [codes EXCEPT ![c] = IF Held(c) THEN Overlapped(codes[c]) ELSE codes[c]]
    BY <1>4 DEF ResetReads
  <2>2. codes[c] \in Code /\ Overlapped(codes[c]) \in Code
    BY <1>1, CodeWith
  <2> QED
    BY <1>1, <2>1, <2>2
<1>5. ASSUME NEW r \in Request, ResetMisses(r)
      PROVE  CodesTypeOK'
  <2>1. req[r].attempts + 1 \in 0..MaxAttempts /\ req[r].code \in CodeId
    BY <1>1, <1>5, Limits DEF ResetMisses, At, IInv, CodesAsRead, ReqTypeOK
  <2>2. More(codes[req[r].code], codes[req[r].code].wrong) \in Nat
    BY <1>1, <2>1 DEF More, Code
  <2> DEFINE c == req[r].code
             n == req[r].attempts + 1
             row == IF n >= MaxAttempts THEN "used" ELSE "fresh"
             missed == [codes[c] EXCEPT !.attempts = n, !.row = row, !.wrong = More(codes[c], codes[c].wrong)]
  <2>3. codes' = [codes EXCEPT ![c] = missed]
    BY <1>5 DEF ResetMisses
  <2>4. missed \in Code
    BY <1>1, <2>1, <2>2, CodeWith
  <2> HIDE DEF missed
  <2> QED
    BY <1>1, <2>3, <2>4
<1>6. ASSUME NEW r \in Request, ResetCommits(r)
      PROVE  CodesTypeOK'
  <2>1. req[r].code \in CodeId
    BY <1>6 DEF ResetCommits, At, IInv, CodesAsRead
  <2>2. More(codes[req[r].code], codes[req[r].code].resets) \in Nat
    BY <1>1, <2>1 DEF More, Code
  <2> DEFINE c == req[r].code
             reset == [codes[c] EXCEPT !.row = "used", !.resets = More(codes[c], codes[c].resets)]
  <2>3. codes' = [codes EXCEPT ![c] = reset]
    BY <1>6 DEF ResetCommits
  <2>4. reset \in Code
    BY <1>1, <2>1, <2>2, CodeWith
  <2> HIDE DEF reset
  <2> QED
    BY <1>1, <2>3, <2>4
<1> QED
  BY <1>2, <1>3, <1>4, <1>5, <1>6, CodesFrame

\* What a step makes of the requests: it begins or moves one without a code, it
\* answers one, or it reads or answers with a code.
LEMMA ReqSteps ==
  ASSUME ReqTypeOK, [Next]_vars
  PROVE  \/ UNCHANGED req
         \/ \E r \in Request :
              \/ Answer(r)
              \/ \E s \in Step : /\ req[r].step \notin {"miss", "commit"} /\ s \notin {"miss", "commit"}
                                 /\ Goto(r, s)
              \/ LoginReads(r) /\ req' = [req EXCEPT ![r].step = "right", ![r].pw = pw]
              \/ ResetReads(r)
<1>1. CASE GetCaptcha \/ CaptchaExpires \/ LockEnds \/ SessionExpires \/ SetTotp
             \/ RequestPasswordReset \/ CodeExpires \/ UNCHANGED vars
  BY <1>1 DEF GetCaptcha, CaptchaExpires, LockEnds, SessionExpires, SetTotp, RequestPasswordReset,
              CodeExpires, vars
<1>2. ASSUME NEW r \in Request,
             CaptchaReads(r) \/ CaptchaDeletes(r) \/ LoginReads(r) \/ FailCounts(r) \/ FailReads(r)
               \/ Locks(r) \/ LoginUnlocks(r)
      PROVE  \/ Answer(r)
             \/ \E s \in Step : /\ req[r].step \notin {"miss", "commit"} /\ s \notin {"miss", "commit"}
                                /\ Goto(r, s)
             \/ LoginReads(r) /\ req' = [req EXCEPT ![r].step = "right", ![r].pw = pw]
  BY <1>2 DEF CaptchaReads, CaptchaDeletes, LoginReads, FailCounts, FailReads, Locks, LoginUnlocks,
              At, Step
<1>3. ASSUME NEW r \in Request,
             LoginSigns(r) \/ Verify2FA(r) \/ PendingExpires(r) \/ ChangeReads(r) \/ ChangeUpdates(r)
               \/ ResetMisses(r) \/ ResetCommits(r)
      PROVE  \/ Answer(r)
             \/ \E s \in Step : /\ req[r].step \notin {"miss", "commit"} /\ s \notin {"miss", "commit"}
                                /\ Goto(r, s)
  BY <1>3 DEF LoginSigns, Verify2FA, PendingExpires, ChangeReads, ChangeUpdates, ResetMisses,
              ResetCommits, At, Step
<1> QED
  BY <1>1, <1>2, <1>3 DEF Next

\* The requests keep their types.
LEMMA ReqTypeStep ==
  ASSUME IInv, [Next]_vars
  PROVE  ReqTypeOK'
<1> USE DEF ReqTypeOK
<1>1. ReqTypeOK /\ AccountTypeOK /\ CodesTypeOK
  BY DEF IInv
<1>2. NoReq \in [step : Step, pw : Password, code : CodeId \union {NoCode}, attempts : 0..MaxAttempts]
  BY Limits DEF NoReq, Step, Password, FirstPassword
<1>3. CASE UNCHANGED req
  BY <1>1, <1>3
<1>4. ASSUME NEW r \in Request, Answer(r)
      PROVE  ReqTypeOK'
  BY <1>1, <1>2, <1>4 DEF Answer
<1>5. ASSUME NEW r \in Request, NEW s \in Step, Goto(r, s)
      PROVE  ReqTypeOK'
  BY <1>1, <1>5 DEF Goto
<1>6. ASSUME NEW r \in Request, req' = [req EXCEPT ![r].step = "right", ![r].pw = pw]
      PROVE  ReqTypeOK'
  <2>1. [req[r] EXCEPT !.step = "right", !.pw = pw]
          \in [step : Step, pw : Password, code : CodeId \union {NoCode}, attempts : 0..MaxAttempts]
    BY <1>1 DEF AccountTypeOK, Step
  <2> QED
    BY <1>1, <1>6, <2>1
<1>7. ASSUME NEW r \in Request, ResetReads(r)
      PROVE  ReqTypeOK'
  <2>1. PICK c \in CodeId, s \in {"miss", "commit"} :
          req' = [req EXCEPT ![r] = [NoReq EXCEPT !.step = s, !.code = c, !.attempts = codes[c].attempts]]
    BY <1>7 DEF ResetReads
  <2>2. codes[c].attempts \in 0..MaxAttempts
    BY <1>1 DEF CodesTypeOK, Code
  <2> QED
    BY <1>1, <1>2, <2>1, <2>2 DEF Step
<1> QED
  BY <1>1, <1>3, <1>4, <1>5, <1>6, <1>7, ReqSteps

------------------------------------------------------------------------------
(* The captcha and the sessions *)

\* Who writes the captcha.
LEMMA CaptchaFrame ==
  ASSUME [Next]_vars
  PROVE  UNCHANGED captcha \/ GetCaptcha \/ CaptchaExpires \/ \E r \in Request : CaptchaDeletes(r)
BY DEF Next, vars, LockEnds, SessionExpires, SetTotp, RequestPasswordReset, CodeExpires, CaptchaReads,
       LoginReads, FailCounts, FailReads, Locks, LoginUnlocks, LoginSigns, Verify2FA,
       PendingExpires, ChangeReads, ChangeUpdates, ResetReads, ResetMisses, ResetCommits

\* A DELETE that finds the row is the first one, and takes the row with it.
LEMMA CaptchaStep ==
  ASSUME IInv, [Next]_vars
  PROVE  CaptchaUnspent'
<1> USE DEF CaptchaUnspent, AccountTypeOK
<1>1. CaptchaUnspent /\ AccountTypeOK
  BY DEF IInv
<1>2. CASE UNCHANGED captcha
  BY <1>1, <1>2
<1>3. CASE GetCaptcha \/ CaptchaExpires
  BY <1>1, <1>3 DEF GetCaptcha, CaptchaExpires
<1>4. ASSUME NEW r \in Request, CaptchaDeletes(r)
      PROVE  CaptchaUnspent'
  BY <1>1, <1>4 DEF CaptchaDeletes
<1> QED
  BY <1>2, <1>3, <1>4, CaptchaFrame

\* Who writes the password and the sessions.
LEMMA SessionFrame ==
  ASSUME [Next]_vars
  PROVE  \/ UNCHANGED <<pw, sessions>>
         \/ SessionExpires
         \/ \E r \in Request : LoginSigns(r) \/ Verify2FA(r) \/ ChangeUpdates(r) \/ ResetCommits(r)
BY DEF Next, vars, GetCaptcha, CaptchaExpires, LockEnds, SetTotp, RequestPasswordReset, CodeExpires,
       CaptchaReads, CaptchaDeletes, LoginReads, FailCounts, FailReads, Locks, LoginUnlocks,
       PendingExpires, ChangeReads, ResetReads, ResetMisses

\* A change of the password ends every session, and a login that read the older
\* password signs a token nobody accepts.
LEMMA SessionStep ==
  ASSUME IInv, [Next]_vars
  PROVE  SessionsEndWithThePassword'
<1> USE DEF SessionsEndWithThePassword
<1>1. SessionsEndWithThePassword /\ pw \in Password
  BY DEF IInv, AccountTypeOK
<1>2. CASE UNCHANGED <<pw, sessions>>
  BY <1>1, <1>2
<1>3. CASE SessionExpires
  BY <1>1, <1>3 DEF SessionExpires
<1>4. ASSUME NEW r \in Request, LoginSigns(r)
      PROVE  SessionsEndWithThePassword'
  BY <1>1, <1>4 DEF LoginSigns
<1>5. ASSUME NEW r \in Request, Verify2FA(r)
      PROVE  SessionsEndWithThePassword'
  BY <1>1, <1>5 DEF Verify2FA
<1>6. ASSUME NEW r \in Request, ChangeUpdates(r)
      PROVE  SessionsEndWithThePassword'
  BY <1>6 DEF ChangeUpdates
<1>7. ASSUME NEW r \in Request, ResetCommits(r)
      PROVE  SessionsEndWithThePassword'
  <2>1. pw'.version = pw.version /\ sessions' = sessions
    BY <1>1, <1>7 DEF ResetCommits, Password
  <2> QED
    BY <1>1, <2>1
<1> QED
  BY <1>2, <1>3, <1>4, <1>5, <1>6, <1>7, SessionFrame

------------------------------------------------------------------------------
(* Failures and versions *)

\* Only the statements after a failure take a request out of those that count it.
LEMMA CountingGrows ==
  ASSUME ReqTypeOK, [Next]_vars,
         \A r \in Request : ~FailReads(r) /\ ~Locks(r)
  PROVE  Counting \subseteq Counting'
<1>1. ASSUME NEW r \in Request, req[r].step \notin {"count", "lock"},
             \A q \in Request \ {r} : req'[q] = req[q]
      PROVE  Counting \subseteq Counting'
  BY <1>1 DEF Counting
<1>2. CASE UNCHANGED req
  BY <1>2 DEF Counting
<1>3. ASSUME NEW r \in Request, \E x : req' = [req EXCEPT ![r] = x]
      PROVE  \A q \in Request \ {r} : req'[q] = req[q]
  BY <1>3 DEF ReqTypeOK
<1>4. ASSUME NEW r \in Request, NEW s, Goto(r, s) \/ Answer(r)
      PROVE  \E x : req' = [req EXCEPT ![r] = x]
  BY <1>4 DEF Goto, Answer
<1>5. CASE GetCaptcha \/ CaptchaExpires \/ LockEnds \/ SessionExpires \/ SetTotp
             \/ RequestPasswordReset \/ CodeExpires \/ UNCHANGED vars
  BY <1>2, <1>5 DEF GetCaptcha, CaptchaExpires, LockEnds, SessionExpires, SetTotp,
                    RequestPasswordReset, CodeExpires, vars
<1>6. ASSUME NEW r \in Request,
             CaptchaReads(r) \/ CaptchaDeletes(r) \/ FailCounts(r) \/ LoginUnlocks(r)
               \/ LoginSigns(r) \/ Verify2FA(r) \/ PendingExpires(r) \/ ChangeReads(r) \/ ChangeUpdates(r)
               \/ ResetMisses(r) \/ ResetCommits(r)
      PROVE  /\ req[r].step \notin {"count", "lock"}
             /\ (\E s : Goto(r, s)) \/ Answer(r)
  BY <1>6 DEF CaptchaReads, CaptchaDeletes, FailCounts, LoginUnlocks, LoginSigns, Verify2FA,
              PendingExpires, ChangeReads, ChangeUpdates, ResetMisses, ResetCommits, At
<1>7. ASSUME NEW r \in Request, LoginReads(r) \/ ResetReads(r)
      PROVE  req[r].step \notin {"count", "lock"} /\ \E x : req' = [req EXCEPT ![r] = x]
  BY <1>7 DEF LoginReads, ResetReads, At, Goto, Answer
<1> QED
  BY <1>1, <1>3, <1>4, <1>5, <1>6, <1>7 DEF Next

\* Who writes the count of failures.
LEMMA FailsFrame ==
  ASSUME [Next]_vars
  PROVE  \/ UNCHANGED fails
         \/ \E r \in Request : FailCounts(r) \/ Locks(r) \/ LoginUnlocks(r)
BY DEF Next, vars, GetCaptcha, CaptchaExpires, LockEnds, SetTotp, RequestPasswordReset, CodeExpires,
       SessionExpires, CaptchaReads, CaptchaDeletes, LoginReads, FailReads, LoginSigns, Verify2FA,
       PendingExpires, ChangeReads, ChangeUpdates, ResetReads, ResetMisses, ResetCommits

\* A failure adds to the count and to the requests that have yet to read it; one of
\* them leaves only when the count is not full, or when it is reset.
LEMMA FailsStep ==
  ASSUME IInv, [Next]_vars
  PROVE  FailsAreCounted'
<1> USE Limits, Finite, FiniteNext DEF FailsAreCounted
<1>1. FailsAreCounted /\ fails \in Nat /\ ReqTypeOK
  BY DEF IInv, AccountTypeOK
<1>2. ASSUME NEW r \in Request, FailCounts(r)
      PROVE  FailsAreCounted'
  <2>1. r \notin Counting
    BY <1>2 DEF FailCounts, At, Counting
  <2>2. Counting' = Counting \union {r}
    BY <1>1, <1>2 DEF FailCounts, Goto, Counting, ReqTypeOK
  <2>3. Cardinality(Counting') = Cardinality(Counting) + 1
    BY <2>1, <2>2, FS_AddElement
  <2> QED
    BY <1>1, <1>2, <2>3 DEF FailCounts
<1>3. ASSUME NEW r \in Request, FailReads(r)
      PROVE  FailsAreCounted'
  <2>1. CASE fails >= MaxFails
    <3>1. Counting' = Counting
      BY <1>1, <1>3, <2>1 DEF FailReads, At, Goto, Counting, ReqTypeOK
    <3> QED
      BY <1>1, <1>3, <3>1 DEF FailReads
  <2>2. CASE fails < MaxFails
    BY <1>1, <1>3, <2>2 DEF FailReads
  <2> QED
    BY <1>1, <2>1, <2>2
<1>4. ASSUME NEW r \in Request, Locks(r) \/ LoginUnlocks(r)
      PROVE  FailsAreCounted'
  BY <1>4 DEF Locks, LoginUnlocks
<1>5. CASE UNCHANGED fails /\ Counting \subseteq Counting'
  <2>1. Cardinality(Counting) <= Cardinality(Counting')
    BY <1>5, FS_Subset
  <2> QED
    BY <1>1, <1>5, <2>1
<1> QED
  BY <1>1, <1>2, <1>3, <1>4, <1>5, FailsFrame, CountingGrows

\* Only reading the account for a change makes one more that changes the password.
LEMMA ChangingShrinks ==
  ASSUME ReqTypeOK, [Next]_vars, \A r \in Request : ~ChangeReads(r)
  PROVE  Changing' \subseteq Changing
<1>1. ASSUME NEW r \in Request, req'[r].step # "change",
             \A q \in Request \ {r} : req'[q] = req[q]
      PROVE  Changing' \subseteq Changing
  BY <1>1 DEF Changing
<1>2. CASE UNCHANGED req
  BY <1>2 DEF Changing
<1>3. ASSUME NEW r \in Request, Answer(r)
      PROVE  Changing' \subseteq Changing
  BY <1>1, <1>3 DEF Answer, NoReq, ReqTypeOK
<1>4. ASSUME NEW r \in Request, NEW s, s # "change", Goto(r, s)
      PROVE  Changing' \subseteq Changing
  BY <1>1, <1>4 DEF Goto, ReqTypeOK
<1>5. CASE GetCaptcha \/ CaptchaExpires \/ LockEnds \/ SessionExpires \/ SetTotp
             \/ RequestPasswordReset \/ CodeExpires \/ UNCHANGED vars
  BY <1>2, <1>5 DEF GetCaptcha, CaptchaExpires, LockEnds, SessionExpires, SetTotp,
                    RequestPasswordReset, CodeExpires, vars
<1>6. ASSUME NEW r \in Request,
             CaptchaReads(r) \/ CaptchaDeletes(r) \/ FailCounts(r) \/ FailReads(r) \/ Locks(r)
               \/ LoginUnlocks(r) \/ LoginSigns(r) \/ Verify2FA(r) \/ PendingExpires(r)
               \/ ChangeUpdates(r) \/ ResetMisses(r) \/ ResetCommits(r)
      PROVE  (\E s : s # "change" /\ Goto(r, s)) \/ Answer(r)
  BY <1>6 DEF CaptchaReads, CaptchaDeletes, FailCounts, FailReads, Locks, LoginUnlocks, LoginSigns,
              Verify2FA, PendingExpires, ChangeUpdates, ResetMisses, ResetCommits
<1>7. ASSUME NEW r \in Request, LoginReads(r)
      PROVE  Changing' \subseteq Changing
  BY <1>1, <1>3, <1>4, <1>7 DEF LoginReads, ReqTypeOK
<1>8. ASSUME NEW r \in Request, ResetReads(r)
      PROVE  Changing' \subseteq Changing
  BY <1>1, <1>8 DEF ResetReads, NoReq, ReqTypeOK
<1> QED
  BY <1>3, <1>4, <1>5, <1>6, <1>7, <1>8 DEF Next

\* The version goes up when a request that was to change it is done.
LEMMA VersionsStep ==
  ASSUME IInv, [Next]_vars
  PROVE  VersionsSuffice'
<1> USE Limits, Finite, FiniteNext DEF VersionsSuffice
<1>1. VersionsSuffice /\ ReqTypeOK /\ pw \in Password /\ pw.version \in Nat
  BY DEF IInv, AccountTypeOK, Password
<1>2. ASSUME NEW r \in Request, ChangeReads(r)
      PROVE  VersionsSuffice'
  <2>1. Changing' = Changing \union {r} /\ pw' = pw
    BY <1>1, <1>2 DEF ChangeReads, At, Goto, Changing, ReqTypeOK
  <2>2. pw.version + Cardinality(Changing) < MaxVersion
    BY <1>2 DEF ChangeReads, Changing, At
  <2>3. Cardinality(Changing') <= Cardinality(Changing) + 1
    <3>1. Cardinality(Changing \union {r}) =
            IF r \in Changing THEN Cardinality(Changing) ELSE Cardinality(Changing) + 1
      BY FS_AddElement
    <3> QED
      BY <2>1, <3>1
  <2> QED
    BY <1>1, <2>1, <2>2, <2>3
<1>3. ASSUME NEW r \in Request, ChangeUpdates(r)
      PROVE  VersionsSuffice'
  <2>1. r \in Changing /\ Changing' = Changing \ {r} /\ pw'.version = pw.version + 1
    BY <1>1, <1>3 DEF ChangeUpdates, At, Answer, NoReq, Changing, ReqTypeOK
  <2>2. Cardinality(Changing') = Cardinality(Changing) - 1
    BY <2>1, FS_RemoveElement
  <2> QED
    BY <1>1, <2>1, <2>2
<1>4. ASSUME Changing' \subseteq Changing, pw'.version = pw.version
      PROVE  VersionsSuffice'
  <2>1. Cardinality(Changing') <= Cardinality(Changing)
    BY <1>4, FS_Subset
  <2> QED
    BY <1>1, <1>4, <2>1
<1>5. (\E r \in Request : ChangeUpdates(r)) \/ pw'.version = pw.version
  BY <1>1, SessionFrame DEF SessionExpires, LoginSigns, Verify2FA, ResetCommits, Password
<1> QED
  BY <1>1, <1>2, <1>3, <1>4, <1>5, ChangingShrinks

------------------------------------------------------------------------------
(* Reset codes *)

\* What CodeIsCounted says of one row.
Counted(code) ==
  /\ code.attempts >= MaxAttempts => code.row = "used"
  /\ ~code.overlap =>
       /\ code.attempts = code.wrong /\ code.wrong <= MaxAttempts
       /\ code.resets <= 1
       /\ code.resets = 1 => code.row = "used"

\* The counts of a row are kept by whatever is written to it.
LEMMA CountedStep ==
  ASSUME IInv, [Next]_vars
  PROVE  CodeIsCounted'
<1>1. CodesTypeOK /\ ReqTypeOK /\ \A c \in CodeId : codes[c] \in Code /\ Counted(codes[c])
  BY DEF IInv, CodesTypeOK, CodeIsCounted, Counted
<1>2. SUFFICES ASSUME NEW c \in CodeId
               PROVE  Counted(codes'[c])
  BY DEF CodeIsCounted, Counted
<1> USE DEF CodesTypeOK, Code
<1>3. CASE codes'[c] = codes[c]
  BY <1>1, <1>3
<1>4. CASE RequestPasswordReset
  <2>1. CASE codes[c].row = "none" /\ codes'[c] = [codes[c] EXCEPT !.row = "fresh"]
    BY <1>1, <2>1, Limits DEF Counted
  <2> QED
    BY <1>1, <1>3, <1>4, <2>1 DEF RequestPasswordReset
<1>5. CASE CodeExpires
  <2>1. CASE codes'[c] = [codes[c] EXCEPT !.expired = TRUE]
    BY <1>1, <2>1 DEF Counted
  <2> QED
    BY <1>1, <1>3, <1>5, <2>1 DEF CodeExpires
<1>6. ASSUME NEW r \in Request, ResetReads(r)
      PROVE  Counted(codes'[c])
  <2>1. CASE codes'[c] = Overlapped(codes[c])
    BY <1>1, <2>1 DEF Counted, Overlapped
  <2> QED
    BY <1>1, <1>3, <1>6, <2>1 DEF ResetReads
<1>7. ASSUME NEW r \in Request, ResetMisses(r)
      PROVE  Counted(codes'[c])
  <2> DEFINE n == req[r].attempts + 1
  <2>1. /\ req[r].code \in CodeId /\ n \in Nat /\ n <= MaxAttempts
        /\ req[r].code = c /\ ~codes[c].overlap => codes[c].row = "fresh" /\ codes[c].attempts = req[r].attempts
    BY <1>1, <1>7, Limits DEF ResetMisses, At, IInv, CodesAsRead, ReqTypeOK
  <2>2. CASE codes'[c] = [codes[c] EXCEPT !.attempts = n,
                                          !.row = IF n >= MaxAttempts THEN "used" ELSE "fresh",
                                          !.wrong = More(codes[c], codes[c].wrong)]
             /\ req[r].code = c
    <3>1. /\ codes'[c].attempts = n /\ codes'[c].overlap = codes[c].overlap
          /\ codes'[c].row = IF n >= MaxAttempts THEN "used" ELSE "fresh"
          /\ codes'[c].resets = codes[c].resets
          /\ codes'[c].wrong = More(codes[c], codes[c].wrong)
      BY <1>1, <2>2
    <3> QED
      BY <1>1, <2>1, <2>2, <3>1, Limits DEF Counted, More, ReqTypeOK
  <2> QED
    BY <1>1, <1>3, <1>7, <2>1, <2>2 DEF ResetMisses
<1>8. ASSUME NEW r \in Request, ResetCommits(r)
      PROVE  Counted(codes'[c])
  <2>1. /\ req[r].code \in CodeId
        /\ req[r].code = c /\ ~codes[c].overlap => codes[c].row = "fresh"
    BY <1>1, <1>8 DEF ResetCommits, At, IInv, CodesAsRead
  <2>2. CASE codes'[c] = [codes[c] EXCEPT !.row = "used", !.resets = More(codes[c], codes[c].resets)]
             /\ req[r].code = c
    BY <1>1, <2>1, <2>2 DEF Counted, More
  <2> QED
    BY <1>1, <1>3, <1>8, <2>1, <2>2 DEF ResetCommits
<1> QED
  BY <1>1, <1>3, <1>4, <1>5, <1>6, <1>7, <1>8, CodesFrame

\* What CodesAsRead says of the request r.
AsRead(r) ==
  /\ IF req[r].step \in {"miss", "commit"}
     THEN req[r].code \in CodeId /\ req[r].attempts < MaxAttempts ELSE req[r].code = NoCode
  /\ \A c \in CodeId : req[r].code = c /\ ~codes[c].overlap =>
       /\ codes[c].row = "fresh" /\ codes[c].attempts = req[r].attempts
       /\ \A q \in Request : req[q].code = c => q = r

\* CodesAsRead is kept: a request that reads a code another has makes it overlap.
LEMMA CodesAsReadStep ==
  ASSUME IInv, [Next]_vars
  PROVE  CodesAsRead'
<1>1. CodesTypeOK /\ ReqTypeOK /\ \A r \in Request : AsRead(r)
  BY DEF IInv, CodesAsRead, AsRead
<1> USE DEF ReqTypeOK
<1>2. SUFFICES ASSUME NEW r \in Request PROVE AsRead(r)'
  BY DEF CodesAsRead, AsRead
<1>3. NoCode \notin CodeId
  BY Limits DEF NoCode, CodeId
\* No request takes up a code, and the rows stay as they are for those that have one.
<1>4. ASSUME req'[r].code = req[r].code, req'[r].attempts = req[r].attempts,
             req'[r].step \in {"miss", "commit"} <=> req[r].step \in {"miss", "commit"},
             \A q \in Request : req'[q].code \in {req[q].code, NoCode},
             \A c \in CodeId : req[r].code = c /\ ~codes'[c].overlap =>
               ~codes[c].overlap /\ codes'[c].row = codes[c].row /\ codes'[c].attempts = codes[c].attempts
      PROVE  AsRead(r)'
  BY <1>1, <1>3, <1>4 DEF AsRead
<1>5. ASSUME req'[r] = NoReq
      PROVE  AsRead(r)'
  BY <1>3, <1>5 DEF AsRead, NoReq
\* Steps that leave the codes alone.
<1>6. ASSUME UNCHANGED codes, ~\E q \in Request : ResetReads(q)
      PROVE  AsRead(r)'
  <2>1. CASE UNCHANGED req
    BY <1>4, <1>6, <2>1
  <2>2. ASSUME NEW q \in Request, Answer(q)
        PROVE  AsRead(r)'
    BY <1>1, <1>4, <1>5, <1>6, <2>2 DEF Answer, NoReq
  <2>3. ASSUME NEW q \in Request, NEW s \in Step \ {"miss", "commit"},
               req[q].step \notin {"miss", "commit"}, Goto(q, s)
        PROVE  AsRead(r)'
    BY <1>1, <1>4, <1>6, <2>3 DEF Goto
  <2>4. ASSUME NEW q \in Request, LoginReads(q), req' = [req EXCEPT ![q].step = "right", ![q].pw = pw]
        PROVE  AsRead(r)'
    BY <1>1, <1>4, <1>6, <2>4 DEF LoginReads, At
  <2> QED
    BY <1>1, <1>6, <2>1, <2>2, <2>3, <2>4, ReqSteps
<1>7. CASE RequestPasswordReset \/ CodeExpires
  <2>1. \A c \in CodeId : codes[c].row # "none" => codes'[c].row = codes[c].row
    BY <1>1, <1>7 DEF RequestPasswordReset, CodeExpires, CodesTypeOK, Code
  <2>2. \A c \in CodeId : codes'[c].attempts = codes[c].attempts /\ codes'[c].overlap = codes[c].overlap
    BY <1>1, <1>7 DEF RequestPasswordReset, CodeExpires, CodesTypeOK, Code
  <2>3. UNCHANGED req
    BY <1>7 DEF RequestPasswordReset, CodeExpires
  <2> QED
    BY <1>1, <1>4, <2>1, <2>2, <2>3 DEF AsRead
<1>8. ASSUME NEW q \in Request, ResetReads(q)
      PROVE  AsRead(r)'
  <2>1. PICK c \in CodeId, s \in {"miss", "commit"} :
          /\ req' = [req EXCEPT ![q] = [NoReq EXCEPT !.step = s, !.code = c, !.attempts = codes[c].attempts]]
          /\ codes' = [codes EXCEPT ![c] = IF Held(c) THEN Overlapped(codes[c]) ELSE codes[c]]
          /\ codes[c].row = "fresh" /\ codes[c].attempts < MaxAttempts /\ At(q, "idle")
    BY <1>8 DEF ResetReads, Usable
  <2>2. codes'[c].overlap \/ (~Held(c) /\ codes'[c] = codes[c])
    BY <1>1, <2>1 DEF Overlapped, CodesTypeOK, Code
  <2>3. \A d \in CodeId \ {c} : codes'[d] = codes[d]
    BY <1>1, <2>1 DEF CodesTypeOK
  <2>4. CASE r = q
    <3>1. /\ req'[r].step \in {"miss", "commit"} /\ req'[r].code = c
          /\ req'[r].attempts = codes[c].attempts
      BY <1>1, <2>1, <2>4 DEF NoReq
    <3>2. \A p \in Request \ {q} : req'[p] = req[p]
      BY <2>1
    <3> QED
      BY <2>1, <2>2, <2>4, <3>1, <3>2 DEF AsRead, Held
  <2>5. CASE r # q
    <3>1. req'[r] = req[r] /\ \A p \in Request \ {q} : req'[p] = req[p]
      BY <2>1, <2>5
    <3>2. req'[q].code = c
      BY <1>1, <2>1 DEF NoReq
    <3>3. req[r].code = c => codes'[c].overlap
      BY <2>2 DEF Held
    <3> QED
      BY <1>1, <2>3, <3>1, <3>2, <3>3 DEF AsRead
  <2> QED
    BY <2>4, <2>5
<1>9. ASSUME NEW q \in Request, ResetMisses(q) \/ ResetCommits(q)
      PROVE  AsRead(r)'
  <2>1. Answer(q) /\ (At(q, "miss") \/ At(q, "commit"))
    <3>1. CASE ResetMisses(q)
      BY <3>1 DEF ResetMisses
    <3>2. CASE ResetCommits(q)
      BY <3>2 DEF ResetCommits
    <3> QED
      BY <1>9, <3>1, <3>2
  <2>2. \A d \in CodeId \ {req[q].code} : codes'[d] = codes[d]
    BY <1>1, <1>9 DEF ResetMisses, ResetCommits, CodesTypeOK
  <2>3. req[q].code \in CodeId /\ codes'[req[q].code].overlap = codes[req[q].code].overlap
    <3>1. req[q].code \in CodeId
      BY <1>1, <2>1 DEF AsRead, At
    <3>2. CASE ResetMisses(q)
      BY <1>1, <3>1, <3>2 DEF ResetMisses, CodesTypeOK, Code
    <3>3. CASE ResetCommits(q)
      BY <1>1, <3>1, <3>3 DEF ResetCommits, CodesTypeOK, Code
    <3> QED
      BY <1>9, <3>1, <3>2, <3>3
  <2>4. CASE r = q
    BY <1>1, <1>5, <2>1, <2>4 DEF Answer
  <2>5. CASE r # q
    <3>1. req'[r] = req[r] /\ \A p \in Request : req'[p].code \in {req[p].code, NoCode}
      BY <1>1, <2>1, <2>5 DEF Answer, NoReq
    <3>2. req[r].code = req[q].code => codes[req[q].code].overlap
      BY <1>1, <2>3, <2>5 DEF AsRead
    <3> QED
      BY <1>4, <2>2, <2>3, <3>1, <3>2
  <2> QED
    BY <2>4, <2>5
<1> QED
  BY <1>6, <1>7, <1>8, <1>9, CodesFrame

------------------------------------------------------------------------------
(* The theorems *)

\* The initial state satisfies the inductive invariant.
LEMMA InitInv == Init => IInv
<1> SUFFICES ASSUME Init PROVE IInv
  OBVIOUS
<1> USE Limits, Finite DEF Init
<1>1. AccountTypeOK
  <2>1. FirstPassword \in Password
    BY DEF Password, FirstPassword
  <2>2. captcha \in [row : {"none", "live", "expired"}, passed : Nat]
    OBVIOUS
  <2> QED
    BY <2>1, <2>2 DEF AccountTypeOK
<1>2. CodesTypeOK
  BY DEF CodesTypeOK, Code, NoCodeRow
<1>3. ReqTypeOK
  BY DEF ReqTypeOK, NoReq, Step, Password, FirstPassword
<1>4. FailsAreCounted
  BY DEF FailsAreCounted
<1>5. VersionsSuffice
  <2>1. Changing = {}
    BY DEF Changing, NoReq
  <2> QED
    BY <2>1, FS_EmptySet DEF VersionsSuffice, FirstPassword
<1>6. CodeIsCounted
  BY DEF CodeIsCounted, NoCodeRow
<1>7. CodesAsRead
  BY DEF CodesAsRead, NoReq, NoCode, CodeId
<1> QED
  BY <1>1, <1>2, <1>3, <1>4, <1>5, <1>6, <1>7
     DEF IInv, CaptchaUnspent, SessionsEndWithThePassword

\* The parts of the inductive invariant hold together.
LEMMA Invariance == Spec => []IInv
<1>1. IInv /\ [Next]_vars => IInv'
  BY AccountTypeStep, CodesTypeStep, ReqTypeStep, CaptchaStep, SessionStep, FailsStep, VersionsStep,
     CountedStep, CodesAsReadStep DEF IInv
<1> QED
  BY <1>1, InitInv, PTL DEF Spec

\* The rows and requests of an account keep their types, and no interleaving counts
\* more failures than one per request beyond those that lock.
THEOREM TypeCorrect == Spec => []TypeOK
<1>1. IInv => TypeOK
  <2> SUFFICES ASSUME IInv PROVE TypeOK
    OBVIOUS
  <2>1. fails \in 0..(MaxFails - 1 + Cardinality(Request))
    BY Limits, Finite DEF IInv, FailsAreCounted, AccountTypeOK
  <2> QED
    BY <2>1 DEF IInv, TypeOK, AccountTypeOK, CodesTypeOK, ReqTypeOK
<1> QED
  BY <1>1, Invariance, PTL

\* A captcha lets one request pass, however many have read its row.
THEOREM CaptchaOnce == Spec => []CaptchaPassesOne
<1>1. IInv => CaptchaPassesOne
  BY DEF IInv, CaptchaUnspent, CaptchaPassesOne
<1> QED
  BY <1>1, Invariance, PTL

\* No session outlives a change of the password, the second factor's excepted.
THEOREM SessionsEnd == Spec => []SessionsEndWithThePassword
<1>1. IInv => SessionsEndWithThePassword
  BY DEF IInv
<1> QED
  BY <1>1, Invariance, PTL

\* A full count of failures is on its way to a lock.
THEOREM FullCount == Spec => []FullCountIsLocked
<1>1. IInv => FullCountIsLocked
  <2> SUFFICES ASSUME IInv, fails >= MaxFails
               PROVE  \E r \in Request : At(r, "count") \/ At(r, "lock")
    BY DEF FullCountIsLocked
  <2>1. Cardinality(Counting) # 0
    BY Limits, Finite DEF IInv, FailsAreCounted, AccountTypeOK
  <2>2. Counting # {}
    BY <2>1, FS_EmptySet
  <2> QED
    BY <2>2 DEF Counting, At
<1> QED
  BY <1>1, Invariance, PTL

\* Reset codes are counted and used once unless two requests have one together.
THEOREM CodesCounted == Spec => []CodeIsCounted
<1>1. IInv => CodeIsCounted
  BY DEF IInv
<1> QED
  BY <1>1, Invariance, PTL

=============================================================================
