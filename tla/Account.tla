------------------------------- MODULE Account -------------------------------
(***************************************************************************)
(* One user account by its address: the users row, the links mailed for a  *)
(* password reset and for verifying the address, the operator's lock, the  *)
(* failed sign-ins of the last window, and the requests that work on them  *)
(* (user/register_login.go, password.go, email_verification.go,            *)
(* issue_session.go, operator.go). Every store call is a step of its own;  *)
(* what the code does inside RunInTx is one step when Stores.Tx is set. A  *)
(* row is always written whole, from the copy the request read.            *)
(*                                                                         *)
(* Passwords stand for themselves and their hashes; a guess is right or    *)
(* wrong, and a stored hash is due for an upgrade (NeedsRehash) or not, as *)
(* the configuration has it. Whether the account owes a second factor is TwoFactor's business *)
(* and a free choice here. The life of a session after its sign-in is      *)
(* Sessions' business: all that is kept is whether one from before the     *)
(* last reset, and one from after it, is still alive.                      *)
(***************************************************************************)
EXTENDS Naturals

CONSTANTS
    Requests,   \* concurrently running requests
    Passwords,  \* passwords that pass the validator
    Links,      \* bound on the links mailed
    MaxFailed,  \* Config.MaxFailedLoginAttempts
    Gone        \* there is no such row, or the request carries none

ASSUME AccountAssumption == MaxFailed \in Nat \ {0}

Row == [pw : Passwords, verified : BOOLEAN]

Link == [kind : {"reset", "verify"}, state : {"live", "expired", "used"}]

ASSUME GoneAssumption == Gone \notin Row \cup Link \cup Links

\* hasTx: Stores.Tx is set. required: EmailVerificationRequired.
Conf == [hasTx : BOOLEAN, required : BOOLEAN]

VARIABLES
    conf,      \* how the service is set up; it never changes
    row,       \* the users row
    link,      \* the password_reset_tokens and email_verification_tokens rows
    locked,    \* LockAccount
    fails,     \* failed attempts, in the older and the newer half of the window
    sessions,  \* live sessions, by whether they are older than the last reset
    req,       \* local state of each request
    overtaken, \* history: a row was written from a copy another write had overtaken
    setBy,     \* history: the reset links that have set a password
    halfDone   \* history: a reset has set its password and then been given up

vars == <<conf, row, link, locked, fails, sessions, req, overtaken, setBy, halfDone>>

PCs ==
    {"idle", "register", "fetch", "lockout", "record", "rehash", "clear", "issue",
     "change", "resetToken", "resetUser", "resetWrite", "resetMark", "resetRevoke",
     "verifyToken", "verifyUser", "verifyWrite", "verifyMark",
     "markRead", "markWrite", "markDelete", "signLockout", "unlockClear"}

\* after: what follows MarkEmailVerified.
Request ==
    [pc : PCs, copy : Row \cup {Gone}, link : Links \cup {Gone}, after : {"return", "issue", "pending"}]

Idle == [pc |-> "idle", copy |-> Gone, link |-> Gone, after |-> "return"]

TypeOK ==
    /\ conf \in Conf
    /\ row \in Row \cup {Gone}
    /\ link \in [Links -> Link \cup {Gone}]
    /\ locked \in BOOLEAN
    /\ fails \in [older : 0 .. MaxFailed, newer : 0 .. MaxFailed]
    /\ sessions \subseteq {"before", "after"}
    /\ req \in [Requests -> Request]
    /\ overtaken \in BOOLEAN
    /\ setBy \subseteq Links
    /\ halfDone \in BOOLEAN

\* No account yet, or one imported with its password.
Init ==
    /\ conf \in Conf
    /\ row \in {Gone} \cup [pw : Passwords, verified : {FALSE}]
    /\ link = [l \in Links |-> Gone]
    /\ locked = FALSE
    /\ fails = [older |-> 0, newer |-> 0]
    /\ sessions = {}
    /\ req = [r \in Requests |-> Idle]
    /\ overtaken = FALSE
    /\ setBy = {}
    /\ halfDone = FALSE

-----------------------------------------------------------------------------
\* The next step needs nothing the request has read.
Goto(r, p) == req' = [req EXCEPT ![r] = [Idle EXCEPT !.pc = p]]

\* It needs the link.
GotoLink(r, p) == req' = [req EXCEPT ![r] = [Idle EXCEPT !.pc = p, !.link = req[r].link]]

Return(r) == req' = [req EXCEPT ![r] = Idle]

\* The request reads the row (GetUserByID, GetUserByEmail) and goes on.
Fetch(r, p) == req' = [req EXCEPT ![r] = [@ EXCEPT !.pc = p, !.copy = row]]

(***************************************************************************)
(* The stores. UpdateUser writes a whole row, over whatever others have    *)
(* written since the request read its copy.                                *)
(***************************************************************************)
CreateUser(p) ==
    /\ row = Gone
    /\ row' = [pw |-> p, verified |-> FALSE]

UpdateUser(r, u) ==
    /\ row' = u
    /\ overtaken' = (overtaken \/ req[r].copy # row)

Live(l, k) == link[l] = [kind |-> k, state |-> "live"]

\* A new token's id is one no request has ever seen.
CreateToken(l, k) ==
    /\ link[l] = Gone
    /\ \A q \in Requests : req[q].link # l
    /\ link' = [link EXCEPT ![l] = [kind |-> k, state |-> "live"]]
    /\ setBy' = setBy \ {l}

Exists(l) == link[l] # Gone

MarkTokenUsed(l) == link' = [link EXCEPT ![l] = [@ EXCEPT !.state = "used"]]

DeleteUserTokens(k) ==
    link' = [l \in Links |->
        IF link[l] # Gone /\ link[l].kind = k THEN Gone ELSE link[l]]

\* A plausible bug: the sessions of the old password are left alone.
KeepsSessions == sessions' = IF sessions = {} THEN {} ELSE {"before"}

RevokeAllUserRefreshTokens == sessions' = {}

CountRecentFailedLoginAttempts == fails.older + fails.newer

\* Half a FailedLoginWindow passes.
Aged == [older |-> fails.newer, newer |-> 0]

throttled == CountRecentFailedLoginAttempts >= MaxFailed

\* Attempts past the maximum are not told apart: they are only compared with it.
RecordFailedLoginAttempt ==
    fails' = [fails EXCEPT !.newer = IF @ < MaxFailed THEN @ + 1 ELSE @]

ClearFailedLoginAttempts == fails' = [older |-> 0, newer |-> 0]

-----------------------------------------------------------------------------
(***************************************************************************)
(* Register: the address was free; CreateUser refuses the later of two.    *)
(***************************************************************************)
Register(r) ==
    /\ req[r].pc = "idle"
    /\ row = Gone
    /\ Goto(r, "register")
    /\ UNCHANGED <<conf, row, link, locked, fails, sessions, overtaken, setBy, halfDone>>

RegisterCreate(r) ==
    /\ req[r].pc = "register"
    /\ \/ \E p \in Passwords : CreateUser(p)
       \/ row # Gone /\ UNCHANGED row
    /\ Return(r)
    /\ UNCHANGED <<conf, link, locked, fails, sessions, overtaken, setBy, halfDone>>

-----------------------------------------------------------------------------
(***************************************************************************)
(* Authenticate.                                                           *)
(***************************************************************************)
\* A throttled request is refused without being recorded.
CheckThrottle(r) ==
    /\ ~throttled
    /\ Goto(r, "fetch")
    /\ UNCHANGED fails

Authenticate(r) ==
    /\ req[r].pc = "idle"
    /\ CheckThrottle(r)
    /\ UNCHANGED <<conf, row, link, locked, sessions, overtaken, setBy, halfDone>>

\* checkLockoutAndFetchUser: an unknown address goes on with no user, and
\* its password is wrong.
FetchUser(r) ==
    /\ req[r].pc = "fetch"
    /\ Fetch(r, IF row = Gone THEN "record" ELSE "lockout")
    /\ UNCHANGED <<conf, row, link, locked, fails, sessions, overtaken, setBy, halfDone>>

\* A plausible bug: the gate lets an unverified address through.
AnyAddress(u) == TRUE

\* The email-verification gate.
MayEnter(u) == ~conf.required \/ u.verified

\* After a correct password: the gate, and the second factor if one is
\* owed, whose pending session is TwoFactor's and clears no attempts.
AfterPassword(r, u) ==
    \/ Return(r)
    \/ MayEnter(u) /\ Goto(r, "clear")

IsAccountLocked(r) ==
    /\ req[r].pc = "lockout"
    /\ \/ locked /\ Return(r)
       \/ ~locked /\ Goto(r, "record")
       \/ ~locked /\ req' = [req EXCEPT ![r].pc = "rehash"]
       \/ ~locked /\ AfterPassword(r, req[r].copy)
    /\ UNCHANGED <<conf, row, link, locked, fails, sessions, overtaken, setBy, halfDone>>

recordFailedLogin(r) ==
    /\ req[r].pc = "record"
    /\ RecordFailedLoginAttempt
    /\ Return(r)
    /\ UNCHANGED <<conf, row, link, locked, sessions, overtaken, setBy, halfDone>>

\* The password stays what it was; only its hash is a stronger one.
Rehashed(u) == u

rehashIfNeeded(r) ==
    LET u == req[r].copy IN
    /\ req[r].pc = "rehash"
    /\ UpdateUser(r, Rehashed(u))
    /\ AfterPassword(r, u)
    /\ UNCHANGED <<conf, link, locked, fails, sessions, setBy, halfDone>>

ClearAttempts(r) ==
    /\ req[r].pc = "clear"
    /\ ClearFailedLoginAttempts
    /\ Goto(r, "issue")
    /\ UNCHANGED <<conf, row, link, locked, sessions, overtaken, setBy, halfDone>>

issueTokenPair(r) ==
    /\ req[r].pc = "issue"
    /\ sessions' = sessions \cup {"after"}
    /\ Return(r)
    /\ UNCHANGED <<conf, row, link, locked, fails, overtaken, setBy, halfDone>>

-----------------------------------------------------------------------------
(***************************************************************************)
(* ChangePassword, for a current password that is right.                   *)
(***************************************************************************)
ChangePassword(r) ==
    /\ req[r].pc = "idle"
    /\ row # Gone
    /\ Fetch(r, "change")
    /\ UNCHANGED <<conf, row, link, locked, fails, sessions, overtaken, setBy, halfDone>>

NewPassword(u, p) == [u EXCEPT !.pw = p]

ChangeWrite(r) ==
    /\ req[r].pc = "change"
    /\ \E p \in Passwords : UpdateUser(r, NewPassword(req[r].copy, p))
    /\ Return(r)
    /\ UNCHANGED <<conf, link, locked, fails, sessions, setBy, halfDone>>

(***************************************************************************)
(* RequestPasswordReset, which an operator's SendPasswordReset runs too,   *)
(* and sendEmailVerification: the user's old links of the kind are         *)
(* deleted, and then the new one is created and mailed. A user found stays *)
(* one, so reading the row is no step of its own.                          *)
(***************************************************************************)
DeleteOld(r, k, p) ==
    /\ req[r].pc = "idle"
    /\ row # Gone
    /\ DeleteUserTokens(k)
    /\ Goto(r, p)
    /\ UNCHANGED <<conf, row, locked, fails, sessions, overtaken, setBy, halfDone>>

CreateNew(r, k, p) ==
    /\ req[r].pc = p
    /\ \E l \in Links : CreateToken(l, k)
    /\ Return(r)
    /\ UNCHANGED <<conf, row, locked, fails, sessions, overtaken, halfDone>>

RequestPasswordReset(r) == DeleteOld(r, "reset", "resetToken")

SendPasswordReset(r) == CreateNew(r, "reset", "resetToken")

(***************************************************************************)
(* ResetPassword.                                                          *)
(***************************************************************************)
\* The link read is unused and unexpired; ValidatePasswordResetToken stops here.
ResetPassword(r) ==
    /\ req[r].pc = "idle"
    /\ \E l \in Links :
         /\ Live(l, "reset")
         /\ req' = [req EXCEPT ![r] = [@ EXCEPT !.pc = "resetUser", !.link = l]]
    /\ UNCHANGED <<conf, row, link, locked, fails, sessions, overtaken, setBy, halfDone>>

ResetFetch(r) ==
    /\ req[r].pc = "resetUser"
    /\ Fetch(r, "resetWrite")
    /\ UNCHANGED <<conf, row, link, locked, fails, sessions, overtaken, setBy, halfDone>>

\* UpdateUser with the new password, which makes every session an old one.
SetPassword(r) ==
    /\ \E p \in Passwords : UpdateUser(r, NewPassword(req[r].copy, p))
    /\ setBy' = setBy \cup {req[r].link}

\* The three writes in one transaction: a link deleted meanwhile makes
\* MarkPasswordResetTokenUsed fail and rolls the password back.
ResetInTx(r) ==
    /\ conf.hasTx
    /\ req[r].pc = "resetWrite"
    /\ IF Exists(req[r].link)
         THEN SetPassword(r) /\ MarkTokenUsed(req[r].link) /\ RevokeAllUserRefreshTokens
         ELSE UNCHANGED <<row, overtaken, setBy, link, sessions>>
    /\ Return(r)
    /\ UNCHANGED <<conf, locked, fails, halfDone>>

\* Without a TxRunner each write stands alone, and a link deleted meanwhile
\* ends the reset after its password is set.
ResetWrite(r) ==
    /\ ~conf.hasTx
    /\ req[r].pc = "resetWrite"
    /\ SetPassword(r)
    /\ sessions' = IF sessions = {} THEN {} ELSE {"before"}
    /\ GotoLink(r, "resetMark")
    /\ UNCHANGED <<conf, link, locked, fails, halfDone>>

ResetMark(r) ==
    /\ req[r].pc = "resetMark"
    /\ IF Exists(req[r].link)
         THEN MarkTokenUsed(req[r].link) /\ Goto(r, "resetRevoke") /\ UNCHANGED halfDone
         ELSE Return(r) /\ halfDone' = TRUE /\ UNCHANGED link
    /\ UNCHANGED <<conf, row, locked, fails, sessions, overtaken, setBy>>

ResetRevoke(r) ==
    /\ req[r].pc = "resetRevoke"
    /\ RevokeAllUserRefreshTokens
    /\ Return(r)
    /\ UNCHANGED <<conf, row, link, locked, fails, overtaken, setBy, halfDone>>

-----------------------------------------------------------------------------
(***************************************************************************)
(* Email verification. The public form, by address, sends nothing to an    *)
(* address already verified; the one by user id does.                      *)
(***************************************************************************)
RequestEmailVerification(r) == DeleteOld(r, "verify", "verifyToken")

sendEmailVerification(r) == CreateNew(r, "verify", "verifyToken")

Verified(u) == [u EXCEPT !.verified = TRUE]

VerifyEmail(r) ==
    /\ req[r].pc = "idle"
    /\ \E l \in Links :
         /\ Live(l, "verify")
         /\ req' = [req EXCEPT ![r] = [@ EXCEPT !.pc = "verifyUser", !.link = l]]
    /\ UNCHANGED <<conf, row, link, locked, fails, sessions, overtaken, setBy, halfDone>>

VerifyFetch(r) ==
    /\ req[r].pc = "verifyUser"
    /\ Fetch(r, "verifyWrite")
    /\ UNCHANGED <<conf, row, link, locked, fails, sessions, overtaken, setBy, halfDone>>

VerifyWrite(r) ==
    /\ req[r].pc = "verifyWrite"
    /\ UpdateUser(r, Verified(req[r].copy))
    /\ GotoLink(r, "verifyMark")
    /\ UNCHANGED <<conf, link, locked, fails, sessions, setBy, halfDone>>

VerifyMark(r) ==
    /\ req[r].pc = "verifyMark"
    /\ IF Exists(req[r].link) THEN MarkTokenUsed(req[r].link) ELSE UNCHANGED link
    /\ Return(r)
    /\ UNCHANGED <<conf, row, locked, fails, sessions, overtaken, setBy, halfDone>>

(***************************************************************************)
(* MarkEmailVerified, called by the host or by IssueSession. Within        *)
(* IssueSession's transaction its writes and the new session are one step. *)
(***************************************************************************)
MarkEmailVerified(r) ==
    /\ req[r].pc = "idle"
    /\ row # Gone
    /\ Fetch(r, "markWrite")
    /\ UNCHANGED <<conf, row, link, locked, fails, sessions, overtaken, setBy, halfDone>>

MarkRead(r) ==
    /\ req[r].pc = "markRead"
    /\ Fetch(r, "markWrite")
    /\ UNCHANGED <<conf, row, link, locked, fails, sessions, overtaken, setBy, halfDone>>

\* Nothing is written over a row already verified.
MarkRow(r) ==
    IF req[r].copy.verified
      THEN UNCHANGED <<row, overtaken>>
      ELSE UpdateUser(r, Verified(req[r].copy))

InTx(r) == conf.hasTx /\ req[r].after # "return"

MarkWrite(r) ==
    /\ ~InTx(r)
    /\ req[r].pc = "markWrite"
    /\ MarkRow(r)
    /\ req' = [req EXCEPT ![r] = [@ EXCEPT !.pc = "markDelete", !.copy = Gone]]
    /\ UNCHANGED <<conf, link, locked, fails, sessions, setBy, halfDone>>

MarkDelete(r) ==
    /\ req[r].pc = "markDelete"
    /\ DeleteUserTokens("verify")
    /\ IF req[r].after = "issue" THEN Goto(r, "issue") ELSE Return(r)
    /\ UNCHANGED <<conf, row, locked, fails, sessions, overtaken, setBy, halfDone>>

MarkInTx(r) ==
    /\ InTx(r)
    /\ req[r].pc = "markWrite"
    /\ MarkRow(r)
    /\ DeleteUserTokens("verify")
    /\ sessions' = IF req[r].after = "issue" THEN sessions \cup {"after"} ELSE sessions
    /\ Return(r)
    /\ UNCHANGED <<conf, locked, fails, setBy, halfDone>>

-----------------------------------------------------------------------------
(***************************************************************************)
(* IssueSession: the sign-in of a user some other method has identified.   *)
(***************************************************************************)
IssueSession(r) ==
    /\ req[r].pc = "idle"
    /\ row # Gone
    /\ Fetch(r, "signLockout")
    /\ UNCHANGED <<conf, row, link, locked, fails, sessions, overtaken, setBy, halfDone>>

\* proves: method.ProvesEmail(). owed: a second factor is. An address just
\* proven is marked before the session, or the pending session, is created.
SignGate(r) ==
    /\ req[r].pc = "signLockout"
    /\ \E proves, owed \in BOOLEAN :
         LET verify == proves /\ ~req[r].copy.verified IN
         CASE locked \/ ~(proves \/ MayEnter(req[r].copy)) -> Return(r)
           [] ~locked /\ verify ->
                req' = [req EXCEPT ![r] = [Idle EXCEPT !.pc = "markRead",
                                                       !.after = IF owed THEN "pending" ELSE "issue"]]
           [] OTHER -> IF owed THEN Return(r) ELSE Goto(r, "issue")
    /\ UNCHANGED <<conf, row, link, locked, fails, sessions, overtaken, setBy, halfDone>>

-----------------------------------------------------------------------------
(***************************************************************************)
(* The operator, and time.                                                 *)
(***************************************************************************)
LockAccount ==
    /\ row # Gone
    /\ ~locked
    /\ locked' = TRUE
    /\ UNCHANGED <<conf, row, link, fails, sessions, req, overtaken, setBy, halfDone>>

Unlock(r) ==
    /\ req[r].pc = "idle"
    /\ row # Gone
    /\ locked' = FALSE
    /\ Goto(r, "unlockClear")
    /\ UNCHANGED <<conf, row, link, fails, sessions, overtaken, setBy, halfDone>>

UnlockClear(r) ==
    /\ req[r].pc = "unlockClear"
    /\ ClearFailedLoginAttempts
    /\ Return(r)
    /\ UNCHANGED <<conf, row, link, locked, sessions, overtaken, setBy, halfDone>>

Tick ==
    /\ fails' = Aged
    /\ UNCHANGED <<conf, row, link, locked, sessions, req, overtaken, setBy, halfDone>>

Expire ==
    /\ \E l \in Links :
         /\ link[l] # Gone
         /\ link[l].state = "live"
         /\ link' = [link EXCEPT ![l] = [@ EXCEPT !.state = "expired"]]
    /\ UNCHANGED <<conf, row, locked, fails, sessions, req, overtaken, setBy, halfDone>>

\* The process dies, or a store call or a hook fails, between two calls.
CutOff(r) ==
    /\ req[r].pc # "idle"
    /\ Return(r)
    /\ halfDone' = (halfDone \/ req[r].pc \in {"resetMark", "resetRevoke"})
    /\ UNCHANGED <<conf, row, link, locked, fails, sessions, overtaken, setBy>>

Step(r) ==
    \/ Register(r) \/ RegisterCreate(r)
    \/ Authenticate(r) \/ FetchUser(r) \/ IsAccountLocked(r) \/ recordFailedLogin(r)
    \/ rehashIfNeeded(r) \/ ClearAttempts(r) \/ issueTokenPair(r)
    \/ ChangePassword(r) \/ ChangeWrite(r)
    \/ RequestPasswordReset(r) \/ SendPasswordReset(r)
    \/ ResetPassword(r) \/ ResetFetch(r) \/ ResetInTx(r)
    \/ ResetWrite(r) \/ ResetMark(r) \/ ResetRevoke(r)
    \/ RequestEmailVerification(r) \/ sendEmailVerification(r)
    \/ VerifyEmail(r) \/ VerifyFetch(r) \/ VerifyWrite(r) \/ VerifyMark(r)
    \/ MarkEmailVerified(r) \/ MarkRead(r) \/ MarkWrite(r) \/ MarkDelete(r) \/ MarkInTx(r)
    \/ IssueSession(r) \/ SignGate(r)
    \/ Unlock(r) \/ UnlockClear(r) \/ CutOff(r)

Next == LockAccount \/ Tick \/ Expire \/ \E r \in Requests : Step(r)

Spec == Init /\ [][Next]_vars

-----------------------------------------------------------------------------
(***************************************************************************)
(* Properties.                                                             *)
(***************************************************************************)
\* A reset that has set its password spends its link and ends every session
\* from before that password, with sign-ins, other resets and requests for a
\* new link at any point between its writes. Only one that died there, or
\* whose link a newer request deleted, leaves it half done, and with a
\* TxRunner none does.
ResetIsWhole ==
    /\ conf.hasTx => ~halfDone
    /\ "before" \in sessions /\ ~halfDone =>
         \E r \in Requests : req[r].pc \in {"resetMark", "resetRevoke"}
    /\ ~halfDone =>
         \A l \in setBy :
           Exists(l) /\ link[l].state # "used" =>
             \E r \in Requests : req[r].pc = "resetMark" /\ req[r].link = l

\* Under EmailVerificationRequired a session belongs to a verified address:
\* a sign-in that proves the address marks it before its session exists, and
\* every other one is refused until some request has. Only an overtaken
\* write can leave a session with an unverified row.
SessionsAreVerified == conf.required /\ ~overtaken /\ sessions # {} => row.verified

=============================================================================
