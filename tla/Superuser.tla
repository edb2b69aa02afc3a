------------------------------ MODULE Superuser ------------------------------
(***************************************************************************)
(* The operator plane (superuser/service.go, auth.go, account.go,          *)
(* twofactor.go): the superusers rows, their refresh tokens, their second  *)
(* factor and the requests that work on them. Every store call is a step   *)
(* of its own. What the code does inside store.RunInTx is                  *)
(*   "none"           separate steps: Stores.Tx is nil                     *)
(*   "serializable"   one step (sqlitestore begins IMMEDIATE)              *)
(*   "readCommitted"  one step too (pgstore), the commit: none of its      *)
(*                    writes is seen before, and who would write a row it  *)
(*                    has written waits. It reads one row, and decides on  *)
(*                    it in the UPDATE itself. But RevokeAll's UPDATE of   *)
(*                    many rows is two steps there: the rows found, which  *)
(*                    are those committed when it starts, and all of them  *)
(*                    written, once nobody holds one.                      *)
(* A superusers row and a settings row are always written whole, from the  *)
(* copy the request read.                                                  *)
(*                                                                         *)
(* Of a superusers row only IsActive is kept: what an overtaken write does *)
(* to a password is shown in Account. The throttle of failed sign-ins is   *)
(* Account's too; here it is one of the refusals CutOff stands for, as are *)
(* a wrong password, a wrong code and a locked account.                    *)
(***************************************************************************)
EXTENDS Naturals, FiniteSets

CONSTANTS
    Operators,  \* superusers there may be
    Tokens,     \* bound on the refresh tokens issued
    Pendings,   \* bound on the pending two-factor sessions at one time
    Requests,   \* concurrently running requests
    Isolations, \* what store.RunInTx may give, see above
    None        \* no row, or nothing carried

ASSUME SuperuserAssumption == Isolations \subseteq {"none", "serializable", "readCommitted"}

Token == [owner : Operators, family : Tokens, live : BOOLEAN]

ASSUME NoneAssumption == None \notin UNION {Operators, Tokens, Pendings, Token, BOOLEAN}

VARIABLES
    isolation, \* of the store the service runs on; it never changes
    active,    \* IsActive of each superusers row, None before it is created
    factor,    \* Enabled of each settings row, None when there is none
    tok,       \* the superuser_refresh_tokens table
    pending,   \* the owner of each pending two-factor session
    req,       \* local state of each request
    out,       \* history: operators a Deactivate has finished with
    overtaken, \* history: operators whose row was being rewritten by another
               \* request when Deactivate wrote it
    crossed    \* history: operators a rotation of whom was committed during the
               \* UPDATE in which Deactivate ended their sessions

vars == <<isolation, active, factor, tok, pending, req, out, overtaken, crossed>>

hasTx == isolation # "none"

PCs ==
    {"idle", "create",
     "rehash", "active", "totp", "pend", "stamp", "issue",
     "verifyUser", "verifyCode", "verifyTx", "verifyDelete", "verifyIssue", "verifyStamp",
     "refreshUser", "rotate", "rotateIssue", "reuse",
     "change", "list", "revoke", "deactivate", "revokeAll", "reuseWrite", "revokeWrite",
     "setup", "confirm", "disable", "regenerate"}

\* of: the operator. copy: what was read of its row. settings: what was read
\* of its settings row. tok, sess: the token, the pending session worked on.
\* keep: the session to keep. list: the tokens still to revoke.
Request ==
    [pc : PCs, of : Operators \cup {None}, copy : BOOLEAN \cup {None},
     settings : BOOLEAN \cup {None}, tok : Tokens \cup {None}, sess : Pendings \cup {None},
     list : SUBSET Tokens]

Idle == [pc |-> "idle", of |-> None, copy |-> None, settings |-> None,
         tok |-> None, sess |-> None, list |-> {}]

TypeOK ==
    /\ isolation \in Isolations
    /\ active \in [Operators -> BOOLEAN \cup {None}]
    /\ factor \in [Operators -> BOOLEAN \cup {None}]
    /\ tok \in [Tokens -> Token \cup {None}]
    /\ pending \in [Pendings -> Operators \cup {None}]
    /\ req \in [Requests -> Request]
    /\ out \subseteq Operators
    /\ overtaken \subseteq Operators
    /\ crossed \subseteq Operators

Init ==
    /\ isolation \in Isolations
    /\ active = [o \in Operators |-> None]
    /\ factor = [o \in Operators |-> None]
    /\ tok = [t \in Tokens |-> None]
    /\ pending = [p \in Pendings |-> None]
    /\ req = [r \in Requests |-> Idle]
    /\ out = {}
    /\ overtaken = {}
    /\ crossed = {}

-----------------------------------------------------------------------------
rowsUnchanged == UNCHANGED <<active, factor, tok, pending>>

historyUnchanged == UNCHANGED <<isolation, out, overtaken, crossed>>

\* The next step needs nothing but the operator.
Goto(r, p, o) == req' = [req EXCEPT ![r] = [Idle EXCEPT !.pc = p, !.of = o]]

Move(r, p) == req' = [req EXCEPT ![r].pc = p]

Return(r) == req' = [req EXCEPT ![r] = Idle]

\* The request reads the operator's row and goes on to p.
Fetch(r, p, o) == req' = [req EXCEPT ![r] = [@ EXCEPT !.pc = p, !.of = o, !.copy = active[o]]]

Existing == {o \in Operators : active[o] # None}

(***************************************************************************)
(* The stores.                                                             *)
(***************************************************************************)
CountSuperusers == Cardinality(Existing)

CreateSuperuser(o) == active' = [active EXCEPT ![o] = TRUE]

UpdateSuperuser(o, isActive) == active' = [active EXCEPT ![o] = isActive]

TokensOf(o) == {t \in Tokens : tok[t] # None /\ tok[t].owner = o}

ListActiveSuperuserRefreshTokens(o) == {t \in TokensOf(o) : tok[t].live}

Without(T) == [t \in Tokens |-> IF t \in T THEN [tok[t] EXCEPT !.live = FALSE] ELSE tok[t]]

RevokeSuperuserRefreshToken(t) == tok' = Without({t})

\* A plausible bug: the tokens of every operator but this one.
RevokesOthers(o) == tok' = Without(UNION {TokensOf(u) : u \in Operators \ {o}})

RevokeAllSuperuserRefreshTokens(o) == tok' = Without(TokensOf(o))

\* A plausible bug: an update in place of the compare-and-set.
ConsumesAny(t) == TRUE

\* Whether the compare-and-set of ConsumeSuperuserRefreshToken succeeds.
Consumes(t) == tok[t].live

\* table with a new row for o; family None starts a family of its own.
CreateSuperuserRefreshToken(table, t, o, f) ==
    [table EXCEPT ![t] = [owner |-> o, family |-> IF f = None THEN t ELSE f, live |-> TRUE]]

issueTokenPair(table, o, f) ==
    \E t \in Tokens : tok[t] = None /\ tok' = CreateSuperuserRefreshToken(table, t, o, f)

UpdateSuperuserTOTPSettings(o, enabled) == factor' = [factor EXCEPT ![o] = enabled]

DeleteSuperuserTOTPSettings(o) == factor' = [factor EXCEPT ![o] = None]

\* The id of a new session is one no request carries.
CreateSuperuserPendingTwoFactorSession(o) ==
    \E p \in Pendings :
        /\ pending[p] = None
        /\ \A q \in Requests : req[q].sess # p
        /\ pending' = [pending EXCEPT ![p] = o]

DeleteSuperuserPendingTwoFactorSession(p) == pending' = [pending EXCEPT ![p] = None]

-----------------------------------------------------------------------------
(***************************************************************************)
(* Bootstrap counts first; CreateSuperuser and CreateFromShell do not. The *)
(* unique address refuses the later of two that name the same operator.    *)
(***************************************************************************)
Bootstrap(r) ==
    /\ req[r].pc = "idle"
    /\ CountSuperusers = 0
    /\ \E o \in Operators : Goto(r, "create", o)
    /\ rowsUnchanged /\ historyUnchanged

CreateBy(r) ==
    /\ req[r].pc = "idle"
    /\ \E o \in Operators : active[o] = None /\ Goto(r, "create", o)
    /\ rowsUnchanged /\ historyUnchanged

createSuperuser(r) ==
    /\ req[r].pc = "create"
    /\ IF active[req[r].of] = None THEN CreateSuperuser(req[r].of) ELSE UNCHANGED active
    /\ Return(r)
    /\ UNCHANGED <<isolation, factor, tok, pending, out, overtaken, crossed>>

-----------------------------------------------------------------------------
(***************************************************************************)
(* Authenticate, with the right password.                                  *)
(***************************************************************************)
Authenticate(r) ==
    /\ req[r].pc = "idle"
    /\ \E o \in Existing : \E p \in {"rehash", "active"} : Fetch(r, p, o)
    /\ rowsUnchanged /\ historyUnchanged

Rehash(r) ==
    /\ req[r].pc = "rehash"
    /\ UpdateSuperuser(req[r].of, req[r].copy)
    /\ Move(r, "active")
    /\ UNCHANGED <<isolation, factor, tok, pending, out, overtaken, crossed>>

\* The IsActive check, on the copy, and the settings that beginTwoFactorLogin reads.
beginTwoFactorLogin(r) ==
    /\ req[r].pc = "active"
    /\ CASE ~req[r].copy -> Return(r)
         [] req[r].copy /\ factor[req[r].of] = TRUE -> Goto(r, "pend", req[r].of)
         [] OTHER -> Move(r, "stamp")
    /\ rowsUnchanged /\ historyUnchanged

CreatePending(r) ==
    /\ req[r].pc = "pend"
    /\ CreateSuperuserPendingTwoFactorSession(req[r].of)
    /\ Return(r)
    /\ UNCHANGED <<isolation, active, factor, tok, out, overtaken, crossed>>

\* LastLoginAt, written with the rest of the row read at the start.
StampLogin(r) ==
    /\ req[r].pc = "stamp"
    /\ UpdateSuperuser(req[r].of, req[r].copy)
    /\ Goto(r, "issue", req[r].of)
    /\ UNCHANGED <<isolation, factor, tok, pending, out, overtaken, crossed>>

IssueLogin(r) ==
    /\ req[r].pc = "issue"
    /\ issueTokenPair(tok, req[r].of, None)
    /\ Return(r)
    /\ UNCHANGED <<isolation, active, factor, pending, out, overtaken, crossed>>

-----------------------------------------------------------------------------
(***************************************************************************)
(* VerifyTwoFactorLogin, with a right code: one from the app, or a backup  *)
(* code, whose use writes the settings back.                               *)
(***************************************************************************)
VerifyTwoFactorLogin(r) ==
    /\ req[r].pc = "idle"
    /\ \E p \in Pendings :
         /\ pending[p] # None
         /\ req' = [req EXCEPT ![r] = [Idle EXCEPT !.pc = "verifyUser", !.sess = p, !.of = pending[p]]]
    /\ rowsUnchanged /\ historyUnchanged

VerifyUser(r) ==
    /\ req[r].pc = "verifyUser"
    /\ IF active[req[r].of] = TRUE THEN Fetch(r, "verifyCode", req[r].of) ELSE Return(r)
    /\ rowsUnchanged /\ historyUnchanged

\* enabledTOTP. settings None: the code was the app's.
VerifyCode(r) ==
    /\ req[r].pc = "verifyCode"
    /\ IF factor[req[r].of] = TRUE
         THEN \E s \in {None, TRUE} : req' = [req EXCEPT ![r] = [@ EXCEPT !.pc = "verifyTx", !.settings = s]]
         ELSE Return(r)
    /\ rowsUnchanged /\ historyUnchanged

\* Settings deleted meanwhile make the update fail, and the login with it.
SpendCode(r) ==
    IF req[r].settings = None
      THEN UNCHANGED factor
      ELSE UpdateSuperuserTOTPSettings(req[r].of, req[r].settings)

CodeGone(r) == req[r].settings # None /\ factor[req[r].of] = None

VerifyInTx(r) ==
    /\ hasTx
    /\ req[r].pc = "verifyTx"
    /\ IF CodeGone(r)
         THEN Return(r) /\ UNCHANGED <<factor, pending, tok>>
         ELSE /\ SpendCode(r)
              /\ DeleteSuperuserPendingTwoFactorSession(req[r].sess)
              /\ issueTokenPair(tok, req[r].of, None)
              /\ Move(r, "verifyStamp")
    /\ UNCHANGED <<isolation, active, out, overtaken, crossed>>

VerifySpend(r) ==
    /\ ~hasTx
    /\ req[r].pc = "verifyTx"
    /\ IF CodeGone(r)
         THEN Return(r) /\ UNCHANGED factor
         ELSE SpendCode(r) /\ Move(r, "verifyDelete")
    /\ UNCHANGED <<isolation, active, tok, pending, out, overtaken, crossed>>

VerifyDelete(r) ==
    /\ req[r].pc = "verifyDelete"
    /\ DeleteSuperuserPendingTwoFactorSession(req[r].sess)
    /\ Move(r, "verifyIssue")
    /\ UNCHANGED <<isolation, active, factor, tok, out, overtaken, crossed>>

VerifyIssue(r) ==
    /\ req[r].pc = "verifyIssue"
    /\ issueTokenPair(tok, req[r].of, None)
    /\ Move(r, "verifyStamp")
    /\ UNCHANGED <<isolation, active, factor, pending, out, overtaken, crossed>>

VerifyStamp(r) ==
    /\ req[r].pc = "verifyStamp"
    /\ UpdateSuperuser(req[r].of, req[r].copy)
    /\ Return(r)
    /\ UNCHANGED <<isolation, factor, tok, pending, out, overtaken, crossed>>

-----------------------------------------------------------------------------
(***************************************************************************)
(* Refresh and Logout.                                                     *)
(***************************************************************************)
\* A token found spent is a replay, and ends every session of its owner.
Refresh(r) ==
    /\ req[r].pc = "idle"
    /\ \E t \in Tokens :
         /\ tok[t] # None
         /\ req' = [req EXCEPT ![r] = [Idle EXCEPT !.pc = IF tok[t].live THEN "refreshUser" ELSE "reuse",
                                                   !.tok = t, !.of = tok[t].owner]]
    /\ rowsUnchanged /\ historyUnchanged

RefreshUser(r) ==
    /\ req[r].pc = "refreshUser"
    /\ IF active[req[r].of] = TRUE THEN Move(r, "rotate") ELSE Return(r)
    /\ rowsUnchanged /\ historyUnchanged

\* Deactivate is in the middle of the UPDATE that ends o's sessions.
Ending(o) == \E q \in Requests : req[q].pc = "revokeWrite" /\ req[q].of = o

\* With a TxRunner: the token spent and the next one in its place.
RotateInTx(r) ==
    LET t == req[r].tok IN
    /\ hasTx
    /\ req[r].pc = "rotate"
    /\ Consumes(t)
    /\ issueTokenPair(Without({t}), req[r].of, tok[t].family)
    /\ crossed' = IF Ending(req[r].of) THEN crossed \cup {req[r].of} ELSE crossed
    /\ Return(r)
    /\ UNCHANGED <<isolation, active, factor, pending, out, overtaken>>

\* Without one, the consume. ConsumeSuperuserRefreshToken failing is
\* errTokenSpent, with or without.
Rotate(r) ==
    LET t == req[r].tok IN
    /\ req[r].pc = "rotate"
    /\ \/ ~Consumes(t) /\ Goto(r, "reuse", req[r].of) /\ UNCHANGED tok
       \/ Consumes(t) /\ ~hasTx /\ tok' = Without({t}) /\ Move(r, "rotateIssue")
    /\ UNCHANGED <<isolation, active, factor, pending, out, overtaken, crossed>>

RotateIssue(r) ==
    /\ req[r].pc = "rotateIssue"
    /\ issueTokenPair(tok, req[r].of, tok[req[r].tok].family)
    /\ Return(r)
    /\ UNCHANGED <<isolation, active, factor, pending, out, overtaken, crossed>>

\* RevokeAllSuperuserRefreshTokens at READ COMMITTED: the rows it finds.
FindAll(r) ==
    /\ isolation = "readCommitted"
    /\ \E p \in {<<"reuse", "reuseWrite">>, <<"revokeAll", "revokeWrite">>} :
         /\ req[r].pc = p[1]
         /\ req' = [req EXCEPT ![r] = [@ EXCEPT !.pc = p[2], !.list = TokensOf(req[r].of)]]
    /\ rowsUnchanged /\ historyUnchanged

\* The rest of it, or, at the other isolations, all of it.
RevokeAll(r, start, write) ==
    \/ req[r].pc = start /\ isolation # "readCommitted" /\ RevokeAllSuperuserRefreshTokens(req[r].of)
    \/ req[r].pc = write /\ tok' = Without(req[r].list)

revokeFamilyOnReuse(r) ==
    /\ RevokeAll(r, "reuse", "reuseWrite")
    /\ Return(r)
    /\ UNCHANGED <<isolation, active, factor, pending, out, overtaken, crossed>>

\* RevokeSession, too: it finds the token in a list of the operator's own.
Logout(r) ==
    /\ req[r].pc = "idle"
    /\ \E t \in Tokens : tok[t] # None /\ RevokeSuperuserRefreshToken(t)
    /\ UNCHANGED <<isolation, active, factor, pending, req, out, overtaken, crossed>>

-----------------------------------------------------------------------------
(***************************************************************************)
(* ChangePassword, which ends like RevokeOtherSessions.                    *)
(***************************************************************************)
ChangePassword(r) ==
    /\ req[r].pc = "idle"
    /\ \E o \in Existing : Fetch(r, "change", o)
    /\ rowsUnchanged /\ historyUnchanged

ChangeWrite(r) ==
    /\ req[r].pc = "change"
    /\ UpdateSuperuser(req[r].of, req[r].copy)
    /\ Goto(r, "list", req[r].of)
    /\ UNCHANGED <<isolation, factor, tok, pending, out, overtaken, crossed>>

RevokeOtherSessions(r) ==
    /\ req[r].pc = "idle"
    /\ \E o \in Existing : Goto(r, "list", o)
    /\ rowsUnchanged /\ historyUnchanged

\* The session kept is one of the list, or one that is not on it.
revokeOthers(r) ==
    /\ req[r].pc = "list"
    /\ \E keep \in Tokens \cup {None} :
         req' = [req EXCEPT ![r] = [Idle EXCEPT !.pc = "revoke",
                   !.list = ListActiveSuperuserRefreshTokens(req[r].of) \ {keep}]]
    /\ rowsUnchanged /\ historyUnchanged

RevokeListed(r) ==
    /\ req[r].pc = "revoke"
    /\ IF req[r].list = {}
         THEN Return(r) /\ UNCHANGED tok
         ELSE \E t \in req[r].list :
                /\ RevokeSuperuserRefreshToken(t)
                /\ req' = [req EXCEPT ![r].list = @ \ {t}]
    /\ UNCHANGED <<isolation, active, factor, pending, out, overtaken, crossed>>

-----------------------------------------------------------------------------
(***************************************************************************)
(* Deactivate, by another operator, of whom nothing is read.               *)
(***************************************************************************)
Deactivate(r) ==
    /\ req[r].pc = "idle"
    /\ \E o \in Existing : Goto(r, "deactivate", o)
    /\ rowsUnchanged /\ historyUnchanged

\* The requests that hold a copy of o's row and may yet write it back, or
\* that are past the check of it and about to create a session.
Overlapping(o) == {q \in Requests : req[q].of = o /\ (req[q].copy # None \/ req[q].pc = "issue")}

DeactivateWrite(r) ==
    LET o == req[r].of IN
    /\ req[r].pc = "deactivate"
    /\ UpdateSuperuser(o, FALSE)
    /\ overtaken' = IF Overlapping(o) = {} THEN overtaken ELSE overtaken \cup {o}
    /\ Goto(r, "revokeAll", o)
    /\ UNCHANGED <<isolation, factor, tok, pending, out, crossed>>

DeactivateRevoke(r) ==
    /\ RevokeAll(r, "revokeAll", "revokeWrite")
    /\ out' = out \cup {req[r].of}
    /\ Return(r)
    /\ UNCHANGED <<isolation, active, factor, pending, overtaken, crossed>>

-----------------------------------------------------------------------------
(***************************************************************************)
(* The second factor's set-up. Each reads the settings row and then writes *)
(* or deletes it.                                                          *)
(***************************************************************************)
ReadSettings(r, p, o) ==
    req' = [req EXCEPT ![r] = [Idle EXCEPT !.pc = p, !.of = o, !.settings = factor[o]]]

BeginTwoFactorSetup(r) ==
    /\ req[r].pc = "idle"
    /\ \E o \in Existing : factor[o] # TRUE /\ ReadSettings(r, "setup", o)
    /\ rowsUnchanged /\ historyUnchanged

\* A row read is updated, which fails if it is gone by now; otherwise one is
\* created, which fails if there is one by now.
SetupWrite(r) ==
    /\ req[r].pc = "setup"
    /\ IF (req[r].settings = None) = (factor[req[r].of] = None)
         THEN UpdateSuperuserTOTPSettings(req[r].of, FALSE)
         ELSE UNCHANGED factor
    /\ Return(r)
    /\ UNCHANGED <<isolation, active, tok, pending, out, overtaken, crossed>>

ConfirmTwoFactorSetup(r) ==
    /\ req[r].pc = "idle"
    /\ \E o \in Existing : factor[o] = FALSE /\ ReadSettings(r, "confirm", o)
    /\ rowsUnchanged /\ historyUnchanged

RegenerateBackupCodes(r) ==
    /\ req[r].pc = "idle"
    /\ \E o \in Existing : factor[o] = TRUE /\ ReadSettings(r, "regenerate", o)
    /\ rowsUnchanged /\ historyUnchanged

\* Both write the settings read, enabled.
WriteEnabled(r) ==
    /\ req[r].pc \in {"confirm", "regenerate"}
    /\ IF factor[req[r].of] = None
         THEN UNCHANGED factor
         ELSE UpdateSuperuserTOTPSettings(req[r].of, TRUE)
    /\ Return(r)
    /\ UNCHANGED <<isolation, active, tok, pending, out, overtaken, crossed>>

DisableTwoFactor(r) ==
    /\ req[r].pc = "idle"
    /\ \E o \in Existing : factor[o] = TRUE /\ Goto(r, "disable", o)
    /\ rowsUnchanged /\ historyUnchanged

DisableDelete(r) ==
    /\ req[r].pc = "disable"
    /\ DeleteSuperuserTOTPSettings(req[r].of)
    /\ Return(r)
    /\ UNCHANGED <<isolation, active, tok, pending, out, overtaken, crossed>>

-----------------------------------------------------------------------------
\* The process dies, a store call fails or the request is refused.
CutOff(r) ==
    /\ req[r].pc # "idle"
    /\ Return(r)
    /\ rowsUnchanged /\ historyUnchanged

\* A pending session that has run out is as good as gone.
Expire ==
    /\ \E p \in Pendings : pending[p] # None /\ DeleteSuperuserPendingTwoFactorSession(p)
    /\ UNCHANGED <<isolation, active, factor, tok, req, out, overtaken, crossed>>

Step(r) ==
    \/ Bootstrap(r) \/ CreateBy(r) \/ createSuperuser(r)
    \/ Authenticate(r) \/ Rehash(r) \/ beginTwoFactorLogin(r) \/ CreatePending(r)
    \/ StampLogin(r) \/ IssueLogin(r)
    \/ VerifyTwoFactorLogin(r) \/ VerifyUser(r) \/ VerifyCode(r) \/ VerifyInTx(r)
    \/ VerifySpend(r) \/ VerifyDelete(r) \/ VerifyIssue(r) \/ VerifyStamp(r)
    \/ Refresh(r) \/ RefreshUser(r) \/ RotateInTx(r) \/ Rotate(r) \/ RotateIssue(r)
    \/ FindAll(r) \/ revokeFamilyOnReuse(r)
    \/ Logout(r) \/ ChangePassword(r) \/ ChangeWrite(r)
    \/ RevokeOtherSessions(r) \/ revokeOthers(r) \/ RevokeListed(r)
    \/ Deactivate(r) \/ DeactivateWrite(r) \/ DeactivateRevoke(r)
    \/ BeginTwoFactorSetup(r) \/ SetupWrite(r) \/ ConfirmTwoFactorSetup(r)
    \/ RegenerateBackupCodes(r) \/ WriteEnabled(r) \/ DisableTwoFactor(r) \/ DisableDelete(r)
    \/ CutOff(r)

Next == Expire \/ \E r \in Requests : Step(r)

Spec == Init /\ [][Next]_vars

-----------------------------------------------------------------------------
(***************************************************************************)
(* Properties.                                                             *)
(***************************************************************************)
\* With a TxRunner an operator Deactivate is done with is inactive and has
\* no live session, whatever Refresh, replay or session revocation was
\* running meanwhile, with two exceptions. A sign-in or a password change that
\* had read the operator's row before (overtaken) writes it back whole and
\* reactivates the operator, although "a deactivated superuser is not
\* recoverable through this API" (Deactivate). And at READ COMMITTED a Refresh
\* that commits while the UPDATE of the sessions is under way (crossed) adds
\* one the UPDATE has not found; it does not make the operator active, so
\* that session cannot be refreshed.
DeactivationIsFinal ==
    hasTx => \A o \in out \ overtaken :
        /\ active[o] = FALSE
        /\ o \notin crossed => ListActiveSuperuserRefreshTokens(o) = {}

Used == {t \in Tokens : tok[t] # None}

Family(f) == {t \in Used : tok[t].family = f /\ tok[t].live}

AbstractFamily == [f \in Tokens |-> Family(f)]

Families == INSTANCE SessionFamilies WITH used <- Used, family <- AbstractFamily

\* With a TxRunner of either kind the operator plane makes the promise the user plane
\* makes: every step is one of SessionFamilies, so a sign-in has one
\* credential at a time, a token is exchanged at most once, and a family
\* that is over stays so.
OperatorFamilies == [][hasTx => Families!Next]_(Families!vars)
=============================================================================
