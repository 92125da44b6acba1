------------------------------ MODULE Accounts ------------------------------
(***************************************************************************)
(* Signing in to one account, an administrator's (whose logins are counted *)
(* and may need a second factor; for another user these branches are never *)
(* taken): captcha, password, lock, TOTP, change of the password, and its  *)
(* reset by a code.  Every SQL statement is a step of a request, and the   *)
(* requests interleave.  A session whose token_version is no longer the    *)
(* account's is refused by requireAuth, so it is dropped.                  *)
(***************************************************************************)
EXTENDS Integers, FiniteSets

CONSTANTS
  Request,      \* bound: requests in progress at once
  MaxFails,     \* failures that lock the account (5)
  MaxAttempts,  \* wrong answers a reset code bears (5)
  MaxVersion,   \* bound: changes of the password
  MaxCodes      \* bound: reset codes sent

ASSUME AccountsAssumption ==
  /\ IsFiniteSet(Request)
  /\ MaxFails \in Nat \ {0} /\ MaxAttempts \in Nat \ {0}
  /\ MaxVersion \in Nat /\ MaxCodes \in Nat

VARIABLES
  captcha,    \* the row of captchas, and how many requests it let pass
  pw,         \* password_hash: the token_version it is of, set by a reset or not
  fails,      \* login_fail_count
  locked,     \* locked_until lies ahead
  totp,       \* totp_secret is set
  sessions,   \* tokens requireAuth accepts: the password they were given for
  codes,      \* rows of password_resets, by id
  req         \* what the requests in progress have read

vars == <<captcha, pw, fails, locked, totp, sessions, codes, req>>

Password == [version : 0..MaxVersion, reset : BOOLEAN]
Session == [pw : Password, totp : BOOLEAN]
CodeId == 1..MaxCodes
NoCode == 0
Step == {"idle", "captcha", "user", "wrong", "count", "lock", "right", "sign", "pending",
         "change", "miss", "commit"}
FirstPassword == [version |-> 0, reset |-> FALSE]
NoReq == [step |-> "idle", pw |-> FirstPassword, code |-> NoCode, attempts |-> 0]

\* Of a code also what became of it: wrong answers and resets, as long as no two
\* requests had read it at the same time.
Code == [row : {"none", "fresh", "used"}, expired : BOOLEAN, attempts : 0..MaxAttempts,
         overlap : BOOLEAN, wrong : Nat, resets : Nat]
NoCodeRow == [row |-> "none", expired |-> FALSE, attempts |-> 0,
              overlap |-> FALSE, wrong |-> 0, resets |-> 0]

TypeOK ==
  /\ captcha \in [row : {"none", "live", "expired"}, passed : Nat]
  /\ pw \in Password
  /\ fails \in 0..(MaxFails - 1 + Cardinality(Request)) /\ locked \in BOOLEAN /\ totp \in BOOLEAN
  /\ sessions \subseteq Session
  /\ codes \in [CodeId -> Code]
  /\ req \in [Request -> [step : Step, pw : Password, code : CodeId \union {NoCode},
                          attempts : 0..MaxAttempts]]

Init ==
  /\ captcha = [row |-> "none", passed |-> 0]
  /\ pw = FirstPassword
  /\ fails = 0 /\ locked = FALSE /\ totp = FALSE
  /\ sessions = {}
  /\ codes = [c \in CodeId |-> NoCodeRow]
  /\ req = [r \in Request |-> NoReq]

------------------------------------------------------------------------------

At(r, step) == req[r].step = step
Goto(r, step) == req' = [req EXCEPT ![r].step = step]
Answer(r) == req' = [req EXCEPT ![r] = NoReq]

(* The captcha *)

\* handleGetCaptcha, captchaPrune.  Bound: the next captcha takes the place of one
\* that no request has in its hands.
GetCaptcha ==
  /\ \A r \in Request : ~At(r, "captcha")
  /\ captcha' = [row |-> "live", passed |-> 0]
  /\ UNCHANGED <<pw, fails, locked, totp, sessions, codes, req>>

CaptchaExpires ==
  /\ captcha.row = "live" /\ captcha' = [captcha EXCEPT !.row = "expired"]
  /\ UNCHANGED <<pw, fails, locked, totp, sessions, codes, req>>

\* verifyCaptcha, first statement.
CaptchaReads(r) ==
  /\ At(r, "idle") /\ captcha.row = "live"
  /\ Goto(r, "captcha")
  /\ UNCHANGED <<captcha, pw, fails, locked, totp, sessions, codes>>

\* Mutant: whoever has read the row passes.
CaptchaDeletesAnyway(r) ==
  /\ At(r, "captcha")
  /\ \/ /\ captcha' = [row |-> "none", passed |-> captcha.passed + 1]
        /\ Goto(r, "user")
     \/ captcha' = [captcha EXCEPT !.row = "none"] /\ Answer(r)
  /\ UNCHANGED <<pw, fails, locked, totp, sessions, codes>>

\* verifyCaptcha, second statement: only the request whose DELETE finds the row
\* passes, if its answer is right.
CaptchaDeletes(r) ==
  /\ At(r, "captcha")
  /\ \/ /\ captcha.row # "none"
        /\ captcha' = [row |-> "none", passed |-> captcha.passed + 1]
        /\ Goto(r, "user")
     \/ captcha' = [captcha EXCEPT !.row = "none"] /\ Answer(r)
  /\ UNCHANGED <<pw, fails, locked, totp, sessions, codes>>

------------------------------------------------------------------------------
(* handleLogin *)

\* The row of the user, with hash and token_version, and the lock.
LoginReads(r) ==
  /\ At(r, "user")
  /\ \/ locked /\ Answer(r)
     \/ ~locked /\ Goto(r, "wrong")
     \/ ~locked /\ req' = [req EXCEPT ![r].step = "right", ![r].pw = pw]
  /\ UNCHANGED <<captcha, pw, fails, locked, totp, sessions, codes>>

FailCounts(r) ==
  /\ At(r, "wrong")
  /\ fails' = fails + 1
  /\ Goto(r, "count")
  /\ UNCHANGED <<captcha, pw, locked, totp, sessions, codes>>

\* Mutant: one failure too late.
FailReadsLate(r) ==
  /\ At(r, "count")
  /\ IF fails > MaxFails THEN Goto(r, "lock") ELSE Answer(r)
  /\ UNCHANGED <<captcha, pw, fails, locked, totp, sessions, codes>>

FailReads(r) ==
  /\ At(r, "count")
  /\ IF fails >= MaxFails THEN Goto(r, "lock") ELSE Answer(r)
  /\ UNCHANGED <<captcha, pw, fails, locked, totp, sessions, codes>>

Locks(r) ==
  /\ At(r, "lock")
  /\ locked' = TRUE /\ fails' = 0
  /\ Answer(r)
  /\ UNCHANGED <<captcha, pw, totp, sessions, codes>>

LockEnds ==
  /\ locked /\ locked' = FALSE
  /\ UNCHANGED <<captcha, pw, fails, totp, sessions, codes, req>>

LoginUnlocks(r) ==
  /\ At(r, "right")
  /\ fails' = 0 /\ locked' = FALSE
  /\ Goto(r, "sign")
  /\ UNCHANGED <<captcha, pw, totp, sessions, codes>>

\* Mutant: the token gets the version of now.
LoginSignsLatest(r) ==
  /\ At(r, "sign")
  /\ IF totp THEN Goto(r, "pending") /\ UNCHANGED sessions
     ELSE sessions' = sessions \union {[pw |-> req[r].pw, totp |-> FALSE]} /\ Answer(r)
  /\ UNCHANGED <<captcha, pw, fails, locked, totp, codes>>

\* A session with the version that was read, or a token for the second factor.
LoginSigns(r) ==
  /\ At(r, "sign")
  /\ IF totp THEN Goto(r, "pending") /\ UNCHANGED sessions
     ELSE /\ sessions' = IF req[r].pw.version = pw.version
                         THEN sessions \union {[pw |-> req[r].pw, totp |-> FALSE]} ELSE sessions
          /\ Answer(r)
  /\ UNCHANGED <<captcha, pw, fails, locked, totp, codes>>

\* handleVerify2FA: the version of now; refused when 2FA is off by then.
Verify2FA(r) ==
  /\ At(r, "pending")
  /\ sessions' = IF totp THEN sessions \union {[pw |-> req[r].pw, totp |-> TRUE]} ELSE sessions
  /\ Answer(r)
  /\ UNCHANGED <<captcha, pw, fails, locked, totp, codes>>

PendingExpires(r) ==
  /\ At(r, "pending") /\ Answer(r)
  /\ UNCHANGED <<captcha, pw, fails, locked, totp, sessions, codes>>

SessionExpires ==
  \E s \in sessions :
    /\ sessions' = sessions \ {s}
    /\ UNCHANGED <<captcha, pw, fails, locked, totp, codes, req>>

\* handleAdmin2FAConfirm, handleAdmin2FADisable.
SetTotp ==
  /\ sessions # {}
  /\ totp' = ~totp
  /\ UNCHANGED <<captcha, pw, fails, locked, sessions, codes, req>>

------------------------------------------------------------------------------
(* Passwords *)

\* handleChangePassword: SELECT and comparison, UPDATE.
ChangeReads(r) ==
  /\ At(r, "idle") /\ sessions # {}
  /\ pw.version + Cardinality({q \in Request : At(q, "change")}) < MaxVersion
  /\ Goto(r, "change")
  /\ UNCHANGED <<captcha, pw, fails, locked, totp, sessions, codes>>

ChangeUpdates(r) ==
  /\ At(r, "change")
  /\ pw' = [version |-> pw.version + 1, reset |-> FALSE]
  /\ sessions' = {}
  /\ Answer(r)
  /\ UNCHANGED <<captcha, fails, locked, totp, codes>>

\* handleRequestPasswordReset: one more code, the older ones stay.
RequestPasswordReset ==
  \E c \in CodeId :
    /\ codes[c].row = "none" /\ \A d \in 1..(c - 1) : codes[d].row # "none"
    /\ codes' = [codes EXCEPT ![c].row = "fresh"]
    /\ UNCHANGED <<captcha, pw, fails, locked, totp, sessions, req>>

CodeExpires ==
  \E c \in CodeId :
    /\ codes[c].row # "none" /\ ~codes[c].expired
    /\ codes' = [codes EXCEPT ![c].expired = TRUE]
    /\ UNCHANGED <<captcha, pw, fails, locked, totp, sessions, req>>

\* Mutant: a used code is found as well.
UsableUsed(c) == codes[c].row # "none" /\ ~codes[c].expired
Usable(c) == codes[c].row = "fresh" /\ ~codes[c].expired

Held(c) == \E q \in Request : req[q].code = c

\* What is known of a code that two requests have read at the same time.
Overlapped(code) == [code EXCEPT !.overlap = TRUE, !.wrong = 0, !.resets = 0]

\* handleResetPassword: the newest usable code, then the answer is compared.
ResetReads(r) ==
  \E c \in CodeId :
    /\ At(r, "idle")
    /\ Usable(c) /\ \A d \in CodeId : Usable(d) => d <= c
    /\ codes[c].attempts < MaxAttempts   \* always: CodeIsCounted
    /\ \E step \in {"miss", "commit"} :
         req' = [req EXCEPT ![r] = [NoReq EXCEPT !.step = step, !.code = c,
                                                 !.attempts = codes[c].attempts]]
    /\ codes' = [codes EXCEPT ![c] = IF Held(c) THEN Overlapped(@) ELSE @]
    /\ UNCHANGED <<captcha, pw, fails, locked, totp, sessions>>

\* One more, unless nothing is known any more.
More(code, n) == IF code.overlap THEN 0 ELSE n + 1

\* A wrong answer: attempts and used are written, whatever they are by now.
ResetMisses(r) ==
  LET c == req[r].code
      n == req[r].attempts + 1
  IN /\ At(r, "miss")
     /\ codes' = [codes EXCEPT ![c] =
                    [codes[c] EXCEPT !.attempts = n, !.row = IF n >= MaxAttempts THEN "used" ELSE "fresh",
                                     !.wrong = More(codes[c], codes[c].wrong)]]
     /\ Answer(r)
     /\ UNCHANGED <<captcha, pw, fails, locked, totp, sessions>>

\* The transaction: the password is set, the code is used; no new token_version.
ResetCommits(r) ==
  LET c == req[r].code
  IN /\ At(r, "commit")
     /\ pw' = [pw EXCEPT !.reset = TRUE]
     /\ codes' = [codes EXCEPT ![c] = [codes[c] EXCEPT !.row = "used",
                                                       !.resets = More(codes[c], codes[c].resets)]]
     /\ Answer(r)
     /\ UNCHANGED <<captcha, fails, locked, totp, sessions>>

Next ==
  \/ GetCaptcha \/ CaptchaExpires \/ LockEnds \/ SessionExpires \/ SetTotp
  \/ RequestPasswordReset \/ CodeExpires
  \/ \E r \in Request :
       \/ CaptchaReads(r) \/ CaptchaDeletes(r)
       \/ LoginReads(r) \/ FailCounts(r) \/ FailReads(r) \/ Locks(r)
       \/ LoginUnlocks(r) \/ LoginSigns(r) \/ Verify2FA(r) \/ PendingExpires(r)
       \/ ChangeReads(r) \/ ChangeUpdates(r)
       \/ ResetReads(r) \/ ResetMisses(r) \/ ResetCommits(r)

Spec == Init /\ [][Next]_vars

------------------------------------------------------------------------------
(* Properties *)

\* A captcha lets one request pass, however many have read it.
CaptchaPassesOne == captcha.passed <= 1

\* After a change of the password no session goes on, or begins, that was given
\* for an older password: not even by a login that read the account before.  The
\* second factor is the exception, as its token bears no version.
SessionsEndWithThePassword == \A s \in sessions : s.totp \/ s.pw.version = pw.version

\* A full count of failures is on its way to a lock: no interleaving of failing
\* and successful logins leaves it standing.
FullCountIsLocked ==
  fails >= MaxFails => \E r \in Request : At(r, "count") \/ At(r, "lock")

\* Where no two requests had a reset code at the same time, every wrong answer
\* counts, and a code that is used up, by answers or by its reset, is never used
\* again.  In any case a full count means a used code.
CodeIsCounted ==
  \A c \in CodeId :
    LET code == codes[c] IN
      /\ code.attempts >= MaxAttempts => code.row = "used"
      /\ ~code.overlap =>
           /\ code.attempts = code.wrong /\ code.wrong <= MaxAttempts
           /\ code.resets <= 1
           /\ code.resets = 1 => code.row = "used"
=============================================================================
