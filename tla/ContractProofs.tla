--------------------------- MODULE ContractProofs ---------------------------
(***************************************************************************)
(* Proofs that two parts keep the contract they are written to. The        *)
(* operator plane: the type invariant, that Deactivate is final and that,  *)
(* with a TxRunner, its token table implements SessionFamilies, for any    *)
(* number of operators, tokens, pending sessions and requests. The SQL     *)
(* stores: after any sequence of calls, SQLite and PostgreSQL answer as    *)
(* the ports promise, for any ids, contents, clock and number of rows.     *)
(***************************************************************************)
EXTENDS Superuser, Stores, FiniteSetTheorems, TLAPS

\* The request holds what its next step works with: an operator, a copy of
\* its row that says it is active where that has been checked, a token of
\* the operator's that is in the table, and a list of such tokens. With a
\* TxRunner it is never between the two writes of a rotation.
Ready(q, c, toks) ==
    /\ q.pc \notin {"idle", "revoke"} => q.of \in Operators
    /\ q.pc \in {"rehash", "active", "change"} => q.copy \in BOOLEAN
    /\ q.pc \in {"stamp", "verifyCode", "verifyTx", "verifyDelete",
                 "verifyIssue", "verifyStamp"} => q.copy = TRUE
    /\ q.pc \in {"refreshUser", "rotate", "rotateIssue"} =>
         q.tok \in Tokens /\ toks[q.tok] # None /\ toks[q.tok].owner = q.of
    /\ \A t \in q.list : toks[t] # None
    /\ c => q.pc # "rotateIssue"

AllReady == \A r \in Requests : Ready(req[r], hasTx, tok)

\* A family is named by a token that was given out.
Lineage == \A t \in Tokens : tok[t] # None => tok[tok[t].family] # None

\* With a TxRunner a family never has two live tokens.
OneLive ==
    hasTx => \A t, u \in Tokens :
        /\ tok[t] # None /\ tok[t].live
        /\ tok[u] # None /\ tok[u].live
        /\ tok[t].family = tok[u].family
        => t = u

\* The request may yet make its operator active, or sign it in, without
\* asking whether it is.
Opens(q) == q.copy = TRUE \/ q.pc = "issue"

Leaving(o) == \E r \in Requests : req[r].pc \in {"revokeAll", "revokeWrite"} /\ req[r].of = o

Closed(o) == active[o] = FALSE /\ \A r \in Requests : req[r].of = o => ~Opens(req[r])

LiveOf(o) == {t \in Tokens : tok[t] # None /\ tok[t].owner = o /\ tok[t].live}

\* From the moment Deactivate has written the row, if nobody was rewriting it
\* then, no request can open the account again. When it is done the operator
\* has no session, and in the middle of its UPDATE none that has not been found.
Shut(o) ==
    /\ o \in out \/ Leaving(o) => Closed(o)
    /\ o \in out /\ o \notin crossed => LiveOf(o) = {}
    /\ \A r \in Requests : req[r].pc = "revokeWrite" /\ req[r].of = o /\ o \notin crossed
          => LiveOf(o) \subseteq req[r].list

StaysClosed == hasTx => \A o \in Operators \ overtaken : Shut(o)

\* What a step of request r may do to the live tokens of o: take some away, add
\* one if r may sign o in, or exchange one, of which crossed knows.
Steady(r, o) ==
    \/ LiveOf(o)' \subseteq LiveOf(o)
    \/ Opens(req[r]) /\ req[r].of = o
    \/ LiveOf(o) # {} /\ (Ending(o) => o \in crossed')

Inv == TypeOK /\ AllReady /\ Lineage /\ OneLive /\ StaysClosed

USE DEF hasTx

-----------------------------------------------------------------------------
(***************************************************************************)
(* Requests.                                                               *)
(***************************************************************************)
LEMMA PCsList ==
    \A p \in {"idle", "create",
              "rehash", "active", "totp", "pend", "stamp", "issue",
              "verifyUser", "verifyCode", "verifyTx", "verifyDelete", "verifyIssue", "verifyStamp",
              "refreshUser", "rotate", "rotateIssue", "reuse",
              "change", "list", "revoke", "deactivate", "revokeAll", "reuseWrite", "revokeWrite",
              "setup", "confirm", "disable", "regenerate"} : p \in PCs
BY DEF PCs

LEMMA IdleType ==
    /\ Idle \in Request /\ Idle.pc = "idle" /\ Idle.of = None /\ Idle.copy = None
    /\ Idle.list = {} /\ Idle.settings = None /\ Idle.tok = None /\ Idle.sess = None
BY PCsList DEF Idle, Request

\* Rows of the token table stay, with their owner and family.
Grows(old, new) ==
    \A t \in Tokens : old[t] # None =>
        /\ new[t] # None
        /\ new[t].owner = old[t].owner
        /\ new[t].family = old[t].family

LEMMA GrowsSame == Grows(tok, tok)
BY DEF Grows

LEMMA ReadyKept ==
    ASSUME Inv, isolation' = isolation, Grows(tok, tok')
    PROVE  \A r \in Requests : Ready(req[r], hasTx', tok')
<1>1. ASSUME NEW r \in Requests PROVE Ready(req[r], hasTx', tok')
  <2>1. Ready(req[r], hasTx, tok) /\ req[r] \in Request BY DEF Inv, TypeOK, AllReady
  <2> QED BY <2>1 DEF Ready, Grows, Request
<1> QED BY <1>1

\* A step that gives request r the local state q.
LEMMA StartType ==
    ASSUME Inv, NEW r \in Requests, NEW q \in Request, req' = [req EXCEPT ![r] = q],
           isolation' = isolation, Grows(tok, tok'), Ready(q, hasTx', tok')
    PROVE  req' \in [Requests -> Request] /\ AllReady'
<1>1. req \in [Requests -> Request] BY DEF Inv, TypeOK
<1>2. ASSUME NEW s \in Requests PROVE Ready(req'[s], hasTx', tok')
  <2>1. req'[s] = IF s = r THEN q ELSE req[s] BY <1>1
  <2> QED BY <2>1, ReadyKept
<1> QED BY <1>1, <1>2 DEF AllReady

\* A step that gives r a local state which opens no account that is closed
\* to r, and leaves the closed accounts and their sessions as they are, but
\* for one that was open to r.
LEMMA StaysClosedKept ==
    ASSUME Inv, NEW r \in Requests, NEW q \in Request, req' = [req EXCEPT ![r] = q],
           q.pc \notin {"revokeAll", "revokeWrite"},
           Opens(q) => active[q.of] # FALSE \/ (Opens(req[r]) /\ req[r].of = q.of),
           \A o \in Operators : active[o] = FALSE =>
               active'[o] = FALSE \/ (Opens(req[r]) /\ req[r].of = o),
           \A o \in Operators : Steady(r, o), crossed \subseteq crossed',
           UNCHANGED <<isolation, out, overtaken>>
    PROVE  StaysClosed'
<1> SUFFICES ASSUME hasTx, NEW o \in Operators, o \notin overtaken PROVE Shut(o)'
  BY DEF StaysClosed
<1>1. req \in [Requests -> Request] BY DEF Inv, TypeOK
<1>2. \A s \in Requests : req'[s] = IF s = r THEN q ELSE req[s] BY <1>1
<1>3. Leaving(o)' => Leaving(o)
  BY <1>2 DEF Leaving
<1>4. Shut(o) BY DEF Inv, StaysClosed
<1>5. ASSUME o \in out \/ Leaving(o)
      PROVE  /\ Closed(o)'
             /\ LiveOf(o)' \subseteq LiveOf(o) \/ (LiveOf(o) # {} /\ (Ending(o) => o \in crossed'))
  <2>1. Closed(o) BY <1>4, <1>5 DEF Shut
  <2>2. ~(Opens(req[r]) /\ req[r].of = o) BY <2>1 DEF Closed
  <2>3. active'[o] = FALSE BY <2>1, <2>2 DEF Closed
  <2>4. q.of = o => ~Opens(q) BY <2>1, <2>2 DEF Closed
  <2>5. \A s \in Requests : req'[s].of = o => ~Opens(req'[s])
    BY <1>2, <2>1, <2>4 DEF Closed
  <2> QED BY <2>2, <2>3, <2>5 DEF Closed, Opens, Steady
<1>6. o \in out /\ o \notin crossed' => LiveOf(o)' = {}
  BY <1>4, <1>5 DEF Shut
<1>7. ASSUME NEW s \in Requests, req'[s].pc = "revokeWrite", req'[s].of = o, o \notin crossed'
      PROVE  LiveOf(o)' \subseteq req'[s].list
  <2>1. req'[s] = req[s] BY <1>2, <1>7
  <2>2. Leaving(o) /\ Ending(o) BY <1>7, <2>1 DEF Leaving, Ending
  <2>3. LiveOf(o) \subseteq req[s].list BY <1>4, <1>7, <2>1 DEF Shut
  <2> QED BY <1>5, <1>7, <2>1, <2>2, <2>3
<1>8. o \in out \/ Leaving(o)' => Closed(o)' BY <1>3, <1>5
<1> QED BY <1>6, <1>7, <1>8 DEF Shut

\* Such a step, when it leaves the token table alone.
LEMMA OtherInv ==
    ASSUME Inv, NEW r \in Requests, NEW q \in Request, req' = [req EXCEPT ![r] = q],
           Ready(q, hasTx, tok), q.pc \notin {"revokeAll", "revokeWrite"},
           Opens(q) => active[q.of] # FALSE \/ (Opens(req[r]) /\ req[r].of = q.of),
           active' \in [Operators -> BOOLEAN \cup {None}],
           factor' \in [Operators -> BOOLEAN \cup {None}],
           pending' \in [Pendings -> Operators \cup {None}],
           \A o \in Operators : active[o] = FALSE =>
               active'[o] = FALSE \/ (Opens(req[r]) /\ req[r].of = o),
           UNCHANGED <<isolation, tok, out, overtaken, crossed>>
    PROVE  Inv'
<1>1. req' \in [Requests -> Request] /\ AllReady' BY GrowsSame, StartType
<1>2. TypeOK' BY <1>1 DEF Inv, TypeOK
<1>3. Lineage' /\ OneLive' BY DEF Inv, Lineage, OneLive
<1>4. \A o \in Operators : Steady(r, o) BY DEF Steady, LiveOf
<1>5. StaysClosed' BY <1>4, StaysClosedKept
<1> QED BY <1>1, <1>2, <1>3, <1>5 DEF Inv

\* Such a step, when it leaves every row alone.
LEMMA QuietInv ==
    ASSUME Inv, NEW r \in Requests, NEW q \in Request, req' = [req EXCEPT ![r] = q],
           Ready(q, hasTx, tok), q.pc \notin {"revokeAll", "revokeWrite"},
           Opens(q) => active[q.of] # FALSE \/ (Opens(req[r]) /\ req[r].of = q.of),
           UNCHANGED <<isolation, active, factor, pending, tok, out, overtaken, crossed>>
    PROVE  Inv'
BY OtherInv DEF Inv, TypeOK

LEMMA ReturnInv ==
    ASSUME Inv, NEW r \in Requests, Return(r),
           UNCHANGED <<isolation, active, factor, pending, tok, out, overtaken, crossed>>
    PROVE  Inv'
<1>1. Ready(Idle, hasTx, tok) /\ ~Opens(Idle) BY IdleType, NoneAssumption DEF Ready, Opens
<1> QED BY <1>1, IdleType, QuietInv DEF Return

\* A request that carries nothing but its operator.
At(p, o) == [Idle EXCEPT !.pc = p, !.of = o]

LEMMA GotoState ==
    ASSUME NEW o \in Operators,
           NEW p \in {"create", "pend", "issue", "reuse", "list", "deactivate",
                      "revokeAll", "disable", "verifyUser"}
    PROVE  /\ At(p, o) \in Request
           /\ At(p, o).of = o /\ At(p, o).pc = p
           /\ \A c, toks : Ready(At(p, o), c, toks)
           /\ p # "issue" => ~Opens(At(p, o))
<1> DEFINE q == At(p, o)
<1>1. q \in Request BY IdleType, PCsList DEF Request, At
<1>2. q.of = o /\ q.pc = p /\ q.copy = None /\ q.list = {} BY IdleType DEF Idle, At
<1>3. \A c, toks : Ready(q, c, toks) BY <1>2 DEF Ready
<1>4. p # "issue" => ~Opens(q) BY <1>2, NoneAssumption DEF Opens
<1> QED BY <1>1, <1>2, <1>3, <1>4

LEMMA GotoInv ==
    ASSUME Inv, NEW r \in Requests, NEW o \in Operators,
           NEW p \in {"create", "pend", "reuse", "list", "deactivate", "disable"},
           Goto(r, p, o),
           UNCHANGED <<isolation, active, factor, pending, tok, out, overtaken, crossed>>
    PROVE  Inv'
<1> DEFINE q == At(p, o)
<1>1. req' = [req EXCEPT ![r] = q] BY DEF Goto, At
<1>2. q \in Request /\ q.pc = p /\ Ready(q, hasTx, tok) /\ ~Opens(q) BY GotoState
<1> HIDE DEF q
<1> QED BY <1>1, <1>2, QuietInv

\* A request that has read the row, and goes on with the copy.
LEMMA FetchInv ==
    ASSUME Inv, NEW r \in Requests, NEW o \in Operators, active[o] # None,
           NEW p \in {"rehash", "active", "change", "verifyCode"},
           p = "verifyCode" => active[o] = TRUE,
           Fetch(r, p, o),
           UNCHANGED <<isolation, active, factor, pending, tok, out, overtaken, crossed>>
    PROVE  Inv'
<1> DEFINE q == [req[r] EXCEPT !.pc = p, !.of = o, !.copy = active[o]]
<1>1. req[r] \in Request /\ active[o] \in BOOLEAN /\ Ready(req[r], hasTx, tok)
  BY DEF Inv, TypeOK, AllReady
<1>2. q \in Request BY <1>1, PCsList DEF Request
<1>3. /\ q.pc = p /\ q.of = o /\ q.copy = active[o] /\ q.list = req[r].list
  BY <1>1 DEF Request
<1>4. req' = [req EXCEPT ![r] = q] BY DEF Fetch
<1> HIDE DEF q
<1>5. Ready(q, hasTx, tok) BY <1>1, <1>3 DEF Ready
<1>6. Opens(q) => active[q.of] # FALSE BY <1>1, <1>3 DEF Opens
<1>7. q.pc \notin {"revokeAll", "revokeWrite"} BY <1>3
<1> QED BY <1>2, <1>4, <1>5, <1>6, <1>7, QuietInv

LEMMA SettingsInv ==
    ASSUME Inv, NEW r \in Requests, NEW o \in Operators,
           NEW p \in {"setup", "confirm", "regenerate"},
           ReadSettings(r, p, o),
           UNCHANGED <<isolation, active, factor, pending, tok, out, overtaken, crossed>>
    PROVE  Inv'
<1> DEFINE q == [Idle EXCEPT !.pc = p, !.of = o, !.settings = factor[o]]
<1>1. factor[o] \in BOOLEAN \cup {None} BY DEF Inv, TypeOK
<1>2. q \in Request BY <1>1, IdleType, PCsList DEF Request
<1>3. q.pc = p /\ q.of = o /\ q.copy = None /\ q.list = {} BY DEF Idle
<1>4. req' = [req EXCEPT ![r] = q] BY DEF ReadSettings
<1> HIDE DEF q
<1>5. Ready(q, hasTx, tok) /\ ~Opens(q) /\ q.pc \notin {"revokeAll", "revokeWrite"}
  BY <1>3, NoneAssumption DEF Ready, Opens
<1> QED BY <1>2, <1>4, <1>5, QuietInv

-----------------------------------------------------------------------------
(***************************************************************************)
(* The steps that leave every row.                                         *)
(***************************************************************************)
\* They leave what is stored and what is known of it.
LEMMA QuietRows ==
    ASSUME NEW r \in Requests,
           \/ Bootstrap(r) \/ CreateBy(r) \/ Authenticate(r) \/ beginTwoFactorLogin(r)
           \/ VerifyTwoFactorLogin(r) \/ VerifyUser(r) \/ VerifyCode(r)
           \/ Refresh(r) \/ RefreshUser(r) \/ ChangePassword(r)
           \/ RevokeOtherSessions(r) \/ revokeOthers(r) \/ Deactivate(r)
           \/ BeginTwoFactorSetup(r) \/ ConfirmTwoFactorSetup(r)
           \/ RegenerateBackupCodes(r) \/ DisableTwoFactor(r) \/ CutOff(r)
    PROVE  UNCHANGED <<isolation, active, factor, pending, tok, out, overtaken, crossed>>
<1>1. CASE Bootstrap(r) \/ CreateBy(r) \/ Authenticate(r) \/ beginTwoFactorLogin(r)
  BY <1>1 DEF Bootstrap, CreateBy, Authenticate, beginTwoFactorLogin,
         rowsUnchanged, historyUnchanged
<1>2. CASE VerifyTwoFactorLogin(r)
  BY <1>2 DEF VerifyTwoFactorLogin,
         rowsUnchanged, historyUnchanged
<1>3. CASE VerifyUser(r) \/ VerifyCode(r) \/ RefreshUser(r) \/ ChangePassword(r) \/ Deactivate(r)
  BY <1>3 DEF VerifyUser, VerifyCode, RefreshUser, ChangePassword, Deactivate,
         rowsUnchanged, historyUnchanged
<1>4. CASE Refresh(r)
  BY <1>4 DEF Refresh,
         rowsUnchanged, historyUnchanged
<1>5. CASE revokeOthers(r)
  BY <1>5 DEF revokeOthers,
         rowsUnchanged, historyUnchanged
<1>6. CASE RevokeOtherSessions(r) \/ BeginTwoFactorSetup(r) \/ ConfirmTwoFactorSetup(r)
  BY <1>6 DEF RevokeOtherSessions, BeginTwoFactorSetup, ConfirmTwoFactorSetup,
         rowsUnchanged, historyUnchanged
<1>7. CASE RegenerateBackupCodes(r) \/ DisableTwoFactor(r) \/ CutOff(r)
  BY <1>7 DEF RegenerateBackupCodes, DisableTwoFactor, CutOff,
         rowsUnchanged, historyUnchanged
<1> QED BY <1>1, <1>2, <1>3, <1>4, <1>5, <1>6, <1>7

LEMMA QuietStep ==
    ASSUME Inv, NEW r \in Requests,
           \/ Bootstrap(r) \/ CreateBy(r) \/ Authenticate(r) \/ beginTwoFactorLogin(r)
           \/ VerifyTwoFactorLogin(r) \/ VerifyUser(r) \/ VerifyCode(r)
           \/ Refresh(r) \/ RefreshUser(r) \/ ChangePassword(r)
           \/ RevokeOtherSessions(r) \/ revokeOthers(r) \/ Deactivate(r)
           \/ BeginTwoFactorSetup(r) \/ ConfirmTwoFactorSetup(r)
           \/ RegenerateBackupCodes(r) \/ DisableTwoFactor(r) \/ CutOff(r)
    PROVE  Inv'
<1>0. /\ TypeOK /\ req[r] \in Request /\ Ready(req[r], hasTx, tok)
  BY DEF Inv, TypeOK, AllReady
<1>1. UNCHANGED <<isolation, active, factor, pending, tok, out, overtaken, crossed>>
  BY QuietRows
<1>2. ASSUME NEW p \in PCs, req' = [req EXCEPT ![r] = [req[r] EXCEPT !.pc = p]],
             p \notin {"revokeAll", "revokeWrite", "issue"},
             Ready([req[r] EXCEPT !.pc = p], hasTx, tok)
      PROVE  Inv'
  <2> DEFINE q == [req[r] EXCEPT !.pc = p]
  <2>1. q \in Request /\ q.pc = p /\ q.of = req[r].of /\ q.copy = req[r].copy
    BY <1>0 DEF Request
  <2>2. req' = [req EXCEPT ![r] = q] /\ Ready(q, hasTx, tok) BY <1>2
  <2> HIDE DEF q
  <2>3. Opens(q) => Opens(req[r]) /\ req[r].of = q.of BY <1>2, <2>1 DEF Opens
  <2> QED BY <1>1, <1>2, <2>1, <2>2, <2>3, QuietInv
<1>a. CASE Bootstrap(r) \/ CreateBy(r) \/ RevokeOtherSessions(r) \/ Deactivate(r) \/ DisableTwoFactor(r)
  <2>1. PICK o \in Operators, p \in {"create", "list", "deactivate", "disable"} : Goto(r, p, o)
    BY <1>a DEF Bootstrap, CreateBy, RevokeOtherSessions, Deactivate, DisableTwoFactor, Existing
  <2> QED BY <1>1, <2>1, GotoInv
<1>b. CASE Authenticate(r) \/ ChangePassword(r)
  <2>1. PICK o \in Operators, p \in {"rehash", "active", "change"} :
          active[o] # None /\ Fetch(r, p, o)
    BY <1>b DEF Authenticate, ChangePassword, Existing
  <2> QED BY <1>1, <2>1, FetchInv
<1>c. CASE beginTwoFactorLogin(r)
  <2>1. req[r].of \in Operators /\ req[r].copy \in BOOLEAN
    BY <1>0, <1>c DEF beginTwoFactorLogin, Ready
  <2>2. CASE Return(r) BY <1>1, <2>2, ReturnInv
  <2>3. CASE Goto(r, "pend", req[r].of) BY <1>1, <2>1, <2>3, GotoInv
  <2>4. CASE req[r].copy = TRUE /\ Move(r, "stamp")
    <3>1. Ready([req[r] EXCEPT !.pc = "stamp"], hasTx, tok)
      BY <1>0, <1>c, <2>1, <2>4 DEF Ready, Request, beginTwoFactorLogin
    <3> QED BY <1>2, <2>4, <3>1, PCsList DEF Move
  <2> QED BY <1>c, <2>1, <2>2, <2>3, <2>4 DEF beginTwoFactorLogin
<1>d. CASE VerifyTwoFactorLogin(r)
  <2>1. PICK p \in Pendings : /\ pending[p] # None
          /\ req' = [req EXCEPT ![r] = [Idle EXCEPT !.pc = "verifyUser", !.sess = p, !.of = pending[p]]]
    BY <1>d DEF VerifyTwoFactorLogin
  <2> DEFINE q == [Idle EXCEPT !.pc = "verifyUser", !.sess = p, !.of = pending[p]]
  <2>2. pending[p] \in Operators BY <1>0, <2>1 DEF TypeOK
  <2>3. q \in Request BY <2>2, IdleType, PCsList DEF Request
  <2>4. q.pc = "verifyUser" /\ q.of = pending[p] /\ q.copy = None /\ q.list = {} BY DEF Idle
  <2>5. req' = [req EXCEPT ![r] = q] BY <2>1
  <2> HIDE DEF q
  <2>6. Ready(q, hasTx, tok) /\ ~Opens(q) /\ q.pc \notin {"revokeAll", "revokeWrite"}
    BY <2>2, <2>4, NoneAssumption DEF Ready, Opens
  <2> QED BY <1>1, <2>3, <2>5, <2>6, QuietInv
<1>e. CASE VerifyUser(r)
  <2>1. req[r].of \in Operators BY <1>0, <1>e DEF VerifyUser, Ready
  <2>2. CASE active[req[r].of] = TRUE
    <3>1. active[req[r].of] # None BY <2>2, NoneAssumption
    <3> QED BY <1>1, <1>e, <2>1, <2>2, <3>1, FetchInv DEF VerifyUser
  <2>3. CASE active[req[r].of] # TRUE
    BY <1>1, <1>e, <2>3, ReturnInv DEF VerifyUser
  <2> QED BY <2>2, <2>3
<1>f. CASE VerifyCode(r)
  <2>1. CASE Return(r) BY <1>1, <2>1, ReturnInv
  <2>2. CASE ~Return(r)
    <3>1. PICK s \in {None, TRUE} : req' = [req EXCEPT ![r] = [req[r] EXCEPT !.pc = "verifyTx", !.settings = s]]
      BY <1>f, <2>2 DEF VerifyCode
    <3> DEFINE q == [req[r] EXCEPT !.pc = "verifyTx", !.settings = s]
    <3>2. q \in Request BY <1>0, PCsList DEF Request
    <3>3. q.pc = "verifyTx" /\ q.of = req[r].of /\ q.copy = req[r].copy /\ q.list = req[r].list
      BY <1>0 DEF Request
    <3>4. req' = [req EXCEPT ![r] = q] BY <3>1
    <3> HIDE DEF q
    <3>5. Ready(q, hasTx, tok) BY <1>0, <1>f, <3>3 DEF Ready, VerifyCode
    <3>6. Opens(q) => Opens(req[r]) /\ req[r].of = q.of BY <3>3 DEF Opens
    <3> QED BY <1>1, <3>2, <3>3, <3>4, <3>5, <3>6, QuietInv
  <2> QED BY <2>1, <2>2
<1>g. CASE Refresh(r)
  <2>1. PICK t \in Tokens : /\ tok[t] # None
          /\ req' = [req EXCEPT ![r] = [Idle EXCEPT !.pc = IF tok[t].live THEN "refreshUser" ELSE "reuse",
                                                    !.tok = t, !.of = tok[t].owner]]
    BY <1>g DEF Refresh
  <2> DEFINE p == IF tok[t].live THEN "refreshUser" ELSE "reuse"
             q == [Idle EXCEPT !.pc = p, !.tok = t, !.of = tok[t].owner]
  <2>2. tok[t].owner \in Operators BY <1>0, <2>1 DEF TypeOK, Token
  <2>3. p \in {"refreshUser", "reuse"} OBVIOUS
  <2> HIDE DEF p
  <2>4. q \in Request BY <2>2, <2>3, IdleType, PCsList DEF Request
  <2>5. q.pc = p /\ q.of = tok[t].owner /\ q.tok = t /\ q.copy = None /\ q.list = {} BY DEF Idle
  <2>6. req' = [req EXCEPT ![r] = q] BY <2>1 DEF p
  <2> HIDE DEF q
  <2>7. Ready(q, hasTx, tok) /\ ~Opens(q) /\ q.pc \notin {"revokeAll", "revokeWrite"}
    BY <2>1, <2>2, <2>3, <2>5, NoneAssumption DEF Ready, Opens
  <2> QED BY <1>1, <2>4, <2>6, <2>7, QuietInv
<1>h. CASE RefreshUser(r)
  <2>1. CASE Return(r) BY <1>1, <2>1, ReturnInv
  <2>2. CASE Move(r, "rotate")
    <3>1. Ready([req[r] EXCEPT !.pc = "rotate"], hasTx, tok)
      BY <1>0, <1>h DEF Ready, Request, RefreshUser
    <3> QED BY <1>2, <2>2, <3>1, PCsList DEF Move
  <2> QED BY <1>h, <2>1, <2>2 DEF RefreshUser
<1>i. CASE revokeOthers(r)
  <2>1. PICK keep \in Tokens \cup {None} :
         req' = [req EXCEPT ![r] = [Idle EXCEPT !.pc = "revoke",
                   !.list = ListActiveSuperuserRefreshTokens(req[r].of) \ {keep}]]
    BY <1>i DEF revokeOthers
  <2> DEFINE T == ListActiveSuperuserRefreshTokens(req[r].of) \ {keep}
             q == [Idle EXCEPT !.pc = "revoke", !.list = T]
  <2>2. T \subseteq Tokens /\ \A t \in T : tok[t] # None
    BY DEF ListActiveSuperuserRefreshTokens, TokensOf
  <2>3. req' = [req EXCEPT ![r] = q] BY <2>1
  <2> HIDE DEF T
  <2>4. q \in Request BY <2>2, IdleType, PCsList DEF Request
  <2>5. q.pc = "revoke" /\ q.copy = None /\ q.list = T BY DEF Idle
  <2> HIDE DEF q
  <2>6. Ready(q, hasTx, tok) /\ ~Opens(q) /\ q.pc \notin {"revokeAll", "revokeWrite"}
    BY <2>2, <2>5, NoneAssumption DEF Ready, Opens
  <2> QED BY <1>1, <2>3, <2>4, <2>6, QuietInv
<1>j. CASE BeginTwoFactorSetup(r) \/ ConfirmTwoFactorSetup(r) \/ RegenerateBackupCodes(r)
  <2>1. PICK o \in Operators, p \in {"setup", "confirm", "regenerate"} : ReadSettings(r, p, o)
    BY <1>j DEF BeginTwoFactorSetup, ConfirmTwoFactorSetup, RegenerateBackupCodes, Existing
  <2> QED BY <1>1, <2>1, SettingsInv
<1>k. CASE CutOff(r) BY <1>1, <1>k, ReturnInv DEF CutOff
<1> QED BY <1>a, <1>b, <1>c, <1>d, <1>e, <1>f, <1>g, <1>h, <1>i, <1>j, <1>k

-----------------------------------------------------------------------------
(***************************************************************************)
(* The steps that write a superusers row, a settings row or a pending      *)
(* session.                                                                *)
(***************************************************************************)
\* A request that goes on with all it has.
LEMMA MoveState ==
    ASSUME Inv, NEW r \in Requests, NEW p \in PCs, NEW q, q = [req[r] EXCEPT !.pc = p]
    PROVE  /\ q \in Request
           /\ q.pc = p /\ q.of = req[r].of /\ q.copy = req[r].copy /\ q.list = req[r].list
           /\ p # "issue" => (Opens(q) => Opens(req[r]) /\ req[r].of = q.of)
<1>1. req[r] \in Request BY DEF Inv, TypeOK
<1> QED BY <1>1 DEF Request, Opens

\* UpdateSuperuser with the copy: it opens the account only if the copy does.
LEMMA UpdateInv ==
    ASSUME Inv, NEW r \in Requests, NEW o \in Operators, NEW b,
           UpdateSuperuser(o, b), b = TRUE \/ b = FALSE,
           b = FALSE \/ (Opens(req[r]) /\ req[r].of = o) \/ active[o] = None
    PROVE  /\ active' \in [Operators -> BOOLEAN \cup {None}]
           /\ \A u \in Operators : active[u] = FALSE =>
                active'[u] = FALSE \/ (Opens(req[r]) /\ req[r].of = u)
BY NoneAssumption DEF Inv, TypeOK, UpdateSuperuser

LEMMA RowStep ==
    ASSUME Inv, NEW r \in Requests,
           createSuperuser(r) \/ Rehash(r) \/ StampLogin(r) \/ VerifyStamp(r) \/ ChangeWrite(r)
    PROVE  Inv'
<1>0. /\ TypeOK /\ req[r] \in Request /\ Ready(req[r], hasTx, tok)
  BY DEF Inv, TypeOK, AllReady
<1>1. UNCHANGED <<isolation, factor, tok, pending, out, overtaken, crossed>> /\ req[r].of \in Operators
  BY <1>0 DEF createSuperuser, Rehash, StampLogin, VerifyStamp, ChangeWrite, Ready
<1>2. factor' \in [Operators -> BOOLEAN \cup {None}] /\ pending' \in [Pendings -> Operators \cup {None}]
  BY <1>0, <1>1 DEF TypeOK
<1>3. Idle \in Request /\ Ready(Idle, hasTx, tok) /\ ~Opens(Idle) /\ Idle.pc \notin {"revokeAll", "revokeWrite"}
  BY IdleType, NoneAssumption DEF Ready, Opens
<1>4. CASE createSuperuser(r)
  <2>1. /\ active' \in [Operators -> BOOLEAN \cup {None}]
        /\ \A u \in Operators : active[u] = FALSE =>
             active'[u] = FALSE \/ (Opens(req[r]) /\ req[r].of = u)
    <3>1. CASE active[req[r].of] = None
      <4>1. UpdateSuperuser(req[r].of, TRUE)
        BY <1>4, <3>1 DEF createSuperuser, CreateSuperuser, UpdateSuperuser
      <4> QED BY <1>1, <3>1, <4>1, UpdateInv
    <3>2. CASE active[req[r].of] # None
      BY <1>0, <1>4, <3>2 DEF createSuperuser, TypeOK
    <3> QED BY <3>1, <3>2
  <2>2. req' = [req EXCEPT ![r] = Idle] BY <1>4 DEF createSuperuser, Return
  <2> QED BY <1>1, <1>2, <1>3, <2>1, <2>2, OtherInv
<1>5. ASSUME req[r].pc \in {"rehash", "stamp", "verifyStamp", "change"},
             UpdateSuperuser(req[r].of, req[r].copy)
      PROVE  /\ active' \in [Operators -> BOOLEAN \cup {None}]
             /\ \A u \in Operators : active[u] = FALSE =>
                  active'[u] = FALSE \/ (Opens(req[r]) /\ req[r].of = u)
  <2> DEFINE b == req[r].copy
             o == req[r].of
  <2>1. (b = TRUE \/ b = FALSE) /\ o \in Operators BY <1>0, <1>1, <1>5 DEF Ready
  <2>2. b = FALSE \/ (Opens(req[r]) /\ req[r].of = o) \/ active[o] = None BY <2>1 DEF Opens
  <2>3. UpdateSuperuser(o, b) BY <1>5
  <2> HIDE DEF b, o
  <2> QED BY <2>1, <2>2, <2>3, UpdateInv
<1>6. CASE Rehash(r)
  <2> DEFINE q == [req[r] EXCEPT !.pc = "active"]
  <2>1. req' = [req EXCEPT ![r] = q] /\ q = [req[r] EXCEPT !.pc = "active"]
    BY <1>6 DEF Rehash, Move
  <2> HIDE DEF q
  <2>2. /\ q \in Request /\ q.pc = "active" /\ q.of = req[r].of
        /\ q.copy = req[r].copy /\ q.list = req[r].list
        /\ Opens(q) => Opens(req[r]) /\ req[r].of = q.of
    BY <2>1, MoveState, PCsList
  <2>3. Ready(q, hasTx, tok) BY <1>0, <1>6, <2>2 DEF Rehash, Ready
  <2> QED BY <1>1, <1>2, <1>5, <1>6, <2>1, <2>2, <2>3, OtherInv DEF Rehash
<1>7. CASE StampLogin(r)
  <2> DEFINE q == At("issue", req[r].of)
  <2>1. req' = [req EXCEPT ![r] = q] BY <1>7 DEF StampLogin, Goto, At
  <2>2. q \in Request /\ q.of = req[r].of /\ q.pc = "issue" /\ Ready(q, hasTx, tok)
    BY <1>1, GotoState
  <2> HIDE DEF q
  <2>3. Opens(req[r]) BY <1>0, <1>7 DEF StampLogin, Ready, Opens
  <2> QED BY <1>1, <1>2, <1>5, <1>7, <2>1, <2>2, <2>3, OtherInv DEF StampLogin
<1>8. CASE VerifyStamp(r)
  BY <1>1, <1>2, <1>3, <1>5, <1>8, OtherInv DEF VerifyStamp, Return
<1>9. CASE ChangeWrite(r)
  <2> DEFINE q == At("list", req[r].of)
  <2>1. req' = [req EXCEPT ![r] = q] BY <1>9 DEF ChangeWrite, Goto, At
  <2>2. q \in Request /\ q.pc = "list" /\ Ready(q, hasTx, tok) /\ ~Opens(q)
    BY <1>1, GotoState
  <2> HIDE DEF q
  <2> QED BY <1>1, <1>2, <1>5, <1>9, <2>1, <2>2, OtherInv DEF ChangeWrite
<1> QED BY <1>4, <1>6, <1>7, <1>8, <1>9

LEMMA FactorStep ==
    ASSUME Inv, NEW r \in Requests,
           \/ CreatePending(r) \/ VerifySpend(r) \/ VerifyDelete(r)
           \/ SetupWrite(r) \/ WriteEnabled(r) \/ DisableDelete(r)
    PROVE  Inv'
<1>0. /\ TypeOK /\ req[r] \in Request /\ Ready(req[r], hasTx, tok)
  BY DEF Inv, TypeOK, AllReady
<1>1. UNCHANGED <<isolation, active, tok, out, overtaken, crossed>> /\ req[r].of \in Operators
  BY <1>0 DEF CreatePending, VerifySpend, VerifyDelete, SetupWrite, WriteEnabled,
              DisableDelete, Ready
<1>2. /\ factor' \in [Operators -> BOOLEAN \cup {None}]
      /\ pending' \in [Pendings -> Operators \cup {None}]
  <2>1. factor \in [Operators -> BOOLEAN \cup {None}] /\ pending \in [Pendings -> Operators \cup {None}]
    BY <1>0 DEF TypeOK
  <2>2. CASE CreatePending(r)
    BY <1>1, <2>1, <2>2 DEF CreatePending, CreateSuperuserPendingTwoFactorSession
  <2>3. CASE VerifySpend(r)
    BY <1>0, <2>1, <2>3 DEF VerifySpend, SpendCode, UpdateSuperuserTOTPSettings, Request
  <2>4. CASE VerifyDelete(r)
    BY <2>1, <2>4 DEF VerifyDelete, DeleteSuperuserPendingTwoFactorSession
  <2>5. CASE SetupWrite(r) BY <2>1, <2>5 DEF SetupWrite, UpdateSuperuserTOTPSettings
  <2>6. CASE WriteEnabled(r) BY <2>1, <2>6 DEF WriteEnabled, UpdateSuperuserTOTPSettings
  <2>7. CASE DisableDelete(r) BY <2>1, <2>7 DEF DisableDelete, DeleteSuperuserTOTPSettings
  <2> QED BY <2>2, <2>3, <2>4, <2>5, <2>6, <2>7
<1>3. ASSUME NEW q \in Request, req' = [req EXCEPT ![r] = q], Ready(q, hasTx, tok),
             q.pc \notin {"revokeAll", "revokeWrite"}, Opens(q) => Opens(req[r]) /\ req[r].of = q.of
      PROVE  Inv'
  BY <1>0, <1>1, <1>2, <1>3, OtherInv DEF TypeOK
<1>4. CASE Return(r)
  <2>1. Ready(Idle, hasTx, tok) /\ ~Opens(Idle) BY IdleType, NoneAssumption DEF Ready, Opens
  <2> QED BY <1>3, <1>4, <2>1, IdleType DEF Return
<1>5. ASSUME req[r].pc \in {"verifyTx", "verifyDelete"},
             NEW p \in {"verifyDelete", "verifyIssue"}, Move(r, p)
      PROVE  Inv'
  <2> DEFINE q == [req[r] EXCEPT !.pc = p]
  <2>1. req' = [req EXCEPT ![r] = q] /\ q = [req[r] EXCEPT !.pc = p] BY <1>5 DEF Move
  <2> HIDE DEF q
  <2>2. /\ q \in Request /\ q.pc = p /\ q.of = req[r].of
        /\ q.copy = req[r].copy /\ q.list = req[r].list
        /\ Opens(q) => Opens(req[r]) /\ req[r].of = q.of
    BY <2>1, MoveState, PCsList
  <2>3. Ready(q, hasTx, tok) BY <1>0, <1>5, <2>2 DEF Ready
  <2> QED BY <1>3, <2>1, <2>2, <2>3
<1> QED BY <1>4, <1>5 DEF CreatePending, VerifySpend, VerifyDelete, SetupWrite,
                          WriteEnabled, DisableDelete

LEMMA ExpireStep == ASSUME Inv, Expire PROVE Inv'
<1>1. pending' \in [Pendings -> Operators \cup {None}]
  BY DEF Inv, TypeOK, Expire, DeleteSuperuserPendingTwoFactorSession
<1>2. UNCHANGED <<isolation, active, factor, tok, req, out, overtaken, crossed>> BY DEF Expire
<1> QED BY <1>1, <1>2
        DEF Inv, TypeOK, AllReady, Lineage, OneLive, StaysClosed, Shut, Closed, Leaving, LiveOf, Opens

-----------------------------------------------------------------------------
(***************************************************************************)
(* The steps that write the token table.                                   *)
(***************************************************************************)
\* A revoked row is the row, no longer live.
LEMMA RevokedRow ==
    ASSUME TypeOK, NEW T, \A t \in T : tok[t] # None,
           NEW x \in Tokens
    PROVE  /\ Without(T)[x] \in Token \cup {None}
           /\ Without(T)[x] = None <=> tok[x] = None
           /\ tok[x] # None => /\ Without(T)[x].owner = tok[x].owner
                               /\ Without(T)[x].family = tok[x].family
                               /\ Without(T)[x].live <=> tok[x].live /\ x \notin T
<1> DEFINE w == Without(T)[x]
<1>0. tok[x] \in Token \cup {None} /\ w = IF x \in T THEN [tok[x] EXCEPT !.live = FALSE] ELSE tok[x]
  BY DEF TypeOK, Without
<1> HIDE DEF w
<1>1. CASE x \in T
  <2> DEFINE m == [tok[x] EXCEPT !.live = FALSE]
  <2>1. tok[x] \in Token BY <1>0, <1>1
  <2>2. /\ m \in Token /\ m.owner = tok[x].owner /\ m.family = tok[x].family
        /\ m.live = FALSE
    BY <2>1 DEF Token
  <2>3. w = m BY <1>0, <1>1
  <2>4. m # None BY <2>2, NoneAssumption
  <2> HIDE DEF m
  <2> QED BY <1>1, <2>1, <2>2, <2>3, <2>4 DEF w
<1>2. CASE x \notin T
  <2>1. w = tok[x] BY <1>0, <1>2
  <2> QED BY <1>0, <1>2, <2>1 DEF w
<1> QED BY <1>1, <1>2

\* Tokens that are in the table are revoked: the families whose live token
\* is among them are over.
LEMMA RevokeTable ==
    ASSUME Inv, isolation' = isolation, NEW T \in SUBSET Tokens,
           \A t \in T : tok[t] # None,
           tok' = Without(T)
    PROVE  /\ tok' \in [Tokens -> Token \cup {None}]
           /\ Grows(tok, tok') /\ Lineage' /\ OneLive'
           /\ \A o \in Operators : LiveOf(o)' \subseteq LiveOf(o)
           /\ \A t \in T : ~tok'[t].live
           /\ hasTx => Families!Next
<1>0. tok \in [Tokens -> Token \cup {None}] BY DEF Inv, TypeOK
<1>1. ASSUME NEW t \in Tokens
      PROVE  /\ tok'[t] \in Token \cup {None}
             /\ tok'[t] = None <=> tok[t] = None
             /\ tok[t] # None => /\ tok'[t].owner = tok[t].owner
                                 /\ tok'[t].family = tok[t].family
                                 /\ tok'[t].live <=> tok[t].live /\ t \notin T
  BY RevokedRow DEF Inv
<1>2. tok' \in [Tokens -> Token \cup {None}]
  <2>1. tok' = [t \in Tokens |-> tok'[t]] BY DEF Without
  <2> QED BY <1>1, <2>1
<1>3. Grows(tok, tok') BY <1>1 DEF Grows
<1>4. \A t \in Tokens : tok[t] # None => tok[t].family \in Tokens BY <1>0 DEF Token
<1>5. Lineage' BY <1>1, <1>4 DEF Inv, Lineage
<1>6. OneLive' BY <1>1 DEF Inv, OneLive
<1>7. \A o \in Operators : LiveOf(o)' \subseteq LiveOf(o) BY <1>1 DEF LiveOf
<1>8. \A t \in T : ~tok'[t].live BY <1>1
<1>9. ASSUME hasTx PROVE Families!Next
  <2>1. Used' = Used BY <1>1 DEF Used
  <2> DEFINE F == {f \in Tokens : Family(f)' = {}}
  <2>2. ASSUME NEW f \in Tokens \ F PROVE Family(f)' = Family(f)
    <3>1. Family(f)' \subseteq Family(f) BY <1>1 DEF Family, Used
    <3>2. PICK t \in Family(f)' : TRUE BY <2>2
    <3>3. \A x \in Family(f) : x = t
      BY <1>9, <3>1, <3>2 DEF Family, Used, Inv, OneLive
    <3> QED BY <3>1, <3>2, <3>3
  <2>3. AbstractFamily' = [f \in Tokens |-> IF f \in F THEN {} ELSE AbstractFamily[f]]
    BY <2>2 DEF AbstractFamily
  <2>4. Families!End(F) BY <2>1, <2>3 DEF Families!End
  <2> QED BY <2>4 DEF Families!Next
<1> QED BY <1>2, <1>3, <1>5, <1>6, <1>7, <1>8, <1>9

\* The table with T revoked and the new row n of t.
Added(T, t, n) == [Without(T) EXCEPT ![t] = n]

\* A new token t of family f: a sign-in when it starts the family itself, a
\* rotation when it replaces old, the family's only live token.
LEMMA CreateTable ==
    ASSUME Inv, isolation' = isolation,
           NEW T, T \subseteq Tokens, \A x \in T : tok[x] # None,
           NEW t \in Tokens, tok[t] = None,
           NEW n \in Token, n.live = TRUE,
           tok' = Added(T, t, n),
           \/ n.family = t /\ T = {}
           \/ \E old \in T : /\ T = {old} /\ tok[old].live
                             /\ tok[old].family = n.family /\ tok[old].owner = n.owner
           \/ ~hasTx /\ T = {} /\ tok[n.family] # None
    PROVE  /\ tok' \in [Tokens -> Token \cup {None}]
           /\ Grows(tok, tok') /\ Lineage' /\ OneLive'
           /\ \A u \in Operators : LiveOf(u)' \subseteq LiveOf(u) \/ u = n.owner
           /\ T # {} => LiveOf(n.owner) # {}
           /\ hasTx => Families!Next
<1> DEFINE o == n.owner
           f == n.family
<1>0. /\ tok \in [Tokens -> Token \cup {None}] /\ t \notin T /\ n # None
      /\ o \in Operators /\ f \in Tokens /\ n.owner = o /\ n.family = f
      /\ \/ f = t /\ T = {}
         \/ \E old \in T : /\ T = {old} /\ tok[old].live
                           /\ tok[old].family = f /\ tok[old].owner = o
         \/ ~hasTx /\ T = {} /\ tok[f] # None
  BY NoneAssumption DEF Inv, TypeOK, Token
<1> HIDE DEF o, f
<1>1. tok' = [Without(T) EXCEPT ![t] = n] BY DEF Added
<1>2. tok'[t] = n BY <1>1 DEF Without
<1>3. ASSUME NEW x \in Tokens, x # t
      PROVE  /\ tok'[x] \in Token \cup {None}
             /\ tok'[x] = None <=> tok[x] = None
             /\ tok[x] # None => /\ tok'[x].owner = tok[x].owner
                                 /\ tok'[x].family = tok[x].family
                                 /\ tok'[x].live <=> tok[x].live /\ x \notin T
  <2>1. tok'[x] = Without(T)[x] BY <1>1, <1>3 DEF Without
  <2> QED BY <2>1, RevokedRow DEF Inv
<1>4. tok' \in [Tokens -> Token \cup {None}]
  <2>1. tok' = [x \in Tokens |-> tok'[x]] BY <1>1 DEF Without
  <2>2. \A x \in Tokens : tok'[x] \in Token \cup {None} BY <1>2, <1>3
  <2> QED BY <2>1, <2>2
<1>5. Grows(tok, tok') BY <1>0, <1>3 DEF Grows
<1>6. \A x \in Tokens : tok[x] # None => tok[x].family \in Tokens /\ tok[tok[x].family] # None
  BY <1>0 DEF Token, Inv, Lineage
<1>7. tok'[f] # None
  <2>1. CASE f = t BY <1>0, <1>2, <2>1
  <2>2. CASE f # t
    <3>1. tok[f] # None BY <1>0, <1>6, <2>2
    <3> QED BY <1>0, <1>3, <2>2, <3>1
  <2> QED BY <2>1, <2>2
<1>8. Lineage'
  <2> SUFFICES ASSUME NEW x \in Tokens, tok'[x] # None PROVE tok'[tok'[x].family] # None
    BY DEF Lineage
  <2>1. CASE x = t BY <1>0, <1>2, <1>7, <2>1
  <2>2. CASE x # t
    <3>1. tok[x] # None /\ tok'[x].family = tok[x].family BY <1>3, <2>2
    <3> QED BY <1>5, <1>6, <3>1 DEF Grows
  <2> QED BY <2>1, <2>2
\* With a TxRunner the new token is alone in its family.
<1>9. hasTx => \A x \in Tokens \ {t} : ~(tok'[x] # None /\ tok'[x].family = f /\ tok'[x].live)
  <2> SUFFICES ASSUME hasTx, NEW x \in Tokens \ {t},
                      tok'[x] # None, tok'[x].family = f, tok'[x].live
               PROVE  FALSE
    OBVIOUS
  <2>1. tok[x] # None /\ tok[x].family = f /\ tok[x].live /\ x \notin T BY <1>3
  <2>2. CASE f = t BY <1>6, <2>1, <2>2
  <2>3. CASE \E old \in T : T = {old} /\ tok[old].live /\ tok[old].family = f
    BY <2>1, <2>3 DEF Inv, OneLive
  <2> QED BY <1>0, <2>2, <2>3
<1>10. OneLive'
  <2> SUFFICES ASSUME hasTx, NEW x \in Tokens, NEW y \in Tokens,
                      tok'[x] # None, tok'[x].live, tok'[y] # None, tok'[y].live,
                      tok'[x].family = tok'[y].family
               PROVE  x = y
    BY DEF OneLive
  <2>1. CASE x = t \/ y = t BY <1>0, <1>2, <1>9, <2>1
  <2>2. CASE x # t /\ y # t BY <1>3, <2>2 DEF Inv, OneLive
  <2> QED BY <2>1, <2>2
<1>11. /\ \A u \in Operators : LiveOf(u)' \subseteq LiveOf(u) \/ u = o
       /\ T # {} => LiveOf(o) # {}
  <2>1. ASSUME NEW u \in Operators, u # o PROVE LiveOf(u)' \subseteq LiveOf(u)
    BY <1>0, <1>2, <1>3, <2>1 DEF LiveOf
  <2>2. T # {} => LiveOf(o) # {} BY <1>0 DEF LiveOf
  <2> QED BY <2>1, <2>2
<1>12. ASSUME hasTx PROVE Families!Next
  <2>1. Used' = Used \cup {t} /\ t \notin Used BY <1>0, <1>2, <1>3 DEF Used
  <2>2. Family(f)' = {t}
    <3>1. t \in Family(f)' BY <1>0, <1>2 DEF Family, Used
    <3>2. \A x \in Family(f)' : x = t BY <1>9, <1>12 DEF Family, Used
    <3> QED BY <3>1, <3>2
  <2>3. ASSUME NEW g \in Tokens, g # f PROVE Family(g)' = Family(g)
    <3>1. \A x \in T : tok[x].family = f BY <1>0, <1>12
    <3>2. ASSUME NEW x \in Family(g)' PROVE x \in Family(g)
      <4>1. x # t BY <1>0, <1>2, <2>3, <3>2 DEF Family, Used
      <4> QED BY <1>3, <3>2, <4>1 DEF Family, Used
    <3>3. ASSUME NEW x \in Family(g) PROVE x \in Family(g)'
      BY <1>3, <2>1, <2>3, <3>1, <3>3 DEF Family, Used
    <3> QED BY <3>2, <3>3
  <2>4. AbstractFamily' = [AbstractFamily EXCEPT ![f] = {t}]
    BY <2>2, <2>3 DEF AbstractFamily
  <2>5. Families!GiveOut(f, t) BY <1>0, <2>1, <2>4 DEF Families!GiveOut
  <2>6. CASE f = t
    BY <1>0, <2>5, <2>6 DEF Families!Next, Families!SignIn
  <2>7. CASE \E old \in T : T = {old} /\ tok[old].live /\ tok[old].family = f
    <3>1. PICK old \in T : tok[old].live /\ tok[old].family = f BY <2>7
    <3>2. Family(f) = {old}
      BY <1>12, <3>1 DEF Family, Used, Inv, OneLive
    <3>3. AbstractFamily[f] = {old} BY <1>0, <3>2 DEF AbstractFamily
    <3> QED BY <1>0, <2>5, <3>1, <3>3 DEF Families!Next, Families!Rotate
  <2> QED BY <1>0, <1>12, <2>6, <2>7
<1> QED BY <1>0, <1>4, <1>5, <1>8, <1>10, <1>11, <1>12

\* Without a token to revoke the table stays.
LEMMA RevokeNone == TypeOK => Without({}) = tok
BY DEF TypeOK, Without

\* issueTokenPair for a sign-in.
LEMMA SignInTable ==
    ASSUME Inv, isolation' = isolation, NEW o \in Operators, issueTokenPair(tok, o, None)
    PROVE  /\ tok' \in [Tokens -> Token \cup {None}]
           /\ Grows(tok, tok') /\ Lineage' /\ OneLive'
           /\ \A u \in Operators : LiveOf(u)' \subseteq LiveOf(u) \/ u = o
           /\ hasTx => Families!Next
<1>1. PICK t \in Tokens : /\ tok[t] = None
                          /\ tok' = [tok EXCEPT ![t] = [owner |-> o, family |-> t, live |-> TRUE]]
  BY DEF issueTokenPair, CreateSuperuserRefreshToken
<1> DEFINE n == [owner |-> o, family |-> t, live |-> TRUE]
<1>2. n \in Token /\ n.owner = o /\ n.family = t /\ n.live = TRUE BY DEF Token
<1>3. tok' = Added({}, t, n) BY <1>1, RevokeNone DEF Inv, Added
<1> HIDE DEF n
<1>4. /\ {} \subseteq Tokens /\ (\A x \in {} : tok[x] # None)
      /\ t \in Tokens /\ tok[t] = None /\ n \in Token /\ n.live = TRUE
      /\ tok' = Added({}, t, n) /\ n.family = t
  BY <1>1, <1>2, <1>3
<1>5. tok' \in [Tokens -> Token \cup {None}] /\ Grows(tok, tok') /\ Lineage' /\ OneLive'
  BY <1>4, CreateTable
<1>6. \A u \in Operators : LiveOf(u)' \subseteq LiveOf(u) \/ u = n.owner BY <1>4, CreateTable
<1>7. hasTx => Families!Next BY <1>4, CreateTable
<1> QED BY <1>2, <1>5, <1>6, <1>7

\* issueTokenPair for a rotation of a token that is alive, in one transaction.
LEMMA RotateTable ==
    ASSUME Inv, isolation' = isolation, NEW x \in Tokens, tok[x] # None, tok[x].live,
           issueTokenPair(Without({x}), tok[x].owner, tok[x].family)
    PROVE  /\ tok' \in [Tokens -> Token \cup {None}]
           /\ Grows(tok, tok') /\ Lineage' /\ OneLive'
           /\ \A u \in Operators : LiveOf(u)' \subseteq LiveOf(u) \/ (u = tok[x].owner /\ LiveOf(u) # {})
           /\ hasTx => Families!Next
<1> DEFINE o == tok[x].owner
           f == tok[x].family
<1>1. o \in Operators /\ f \in Tokens BY DEF Inv, TypeOK, Token
<1>2. f # None BY <1>1, NoneAssumption
<1>3. PICK t \in Tokens : /\ tok[t] = None
                          /\ tok' = [Without({x}) EXCEPT ![t] = [owner |-> o, family |-> f, live |-> TRUE]]
  BY <1>2 DEF issueTokenPair, CreateSuperuserRefreshToken
<1> DEFINE n == [owner |-> o, family |-> f, live |-> TRUE]
           T == {x}
<1>4. n \in Token /\ n.owner = o /\ n.family = f /\ n.live = TRUE BY <1>1 DEF Token
<1>5. tok' = Added(T, t, n) BY <1>3 DEF Added
<1>6. /\ T \subseteq Tokens /\ T # {} /\ \A y \in T : tok[y] # None
      /\ \E old \in T : T = {old} /\ tok[old].live /\ tok[old].family = f /\ tok[old].owner = o
  OBVIOUS
<1> HIDE DEF n, T, o, f
<1>7. /\ T \subseteq Tokens /\ (\A y \in T : tok[y] # None) /\ T # {}
      /\ t \in Tokens /\ tok[t] = None /\ n \in Token /\ n.live = TRUE
      /\ tok' = Added(T, t, n)
      /\ \E old \in T : /\ T = {old} /\ tok[old].live
                        /\ tok[old].family = n.family /\ tok[old].owner = n.owner
  BY <1>3, <1>4, <1>5, <1>6
<1>8. tok' \in [Tokens -> Token \cup {None}] /\ Grows(tok, tok') /\ Lineage' /\ OneLive'
  BY <1>7, CreateTable
<1>9. \A u \in Operators : LiveOf(u)' \subseteq LiveOf(u) \/ (u = o /\ LiveOf(u) # {})
  <2>1. /\ \A u \in Operators : LiveOf(u)' \subseteq LiveOf(u) \/ u = n.owner
        /\ T # {} => LiveOf(n.owner) # {}
    BY <1>7, CreateTable
  <2> QED BY <1>4, <1>7, <2>1
<1>10. hasTx => Families!Next BY <1>7, CreateTable
<1> QED BY <1>8, <1>9, <1>10 DEF o

\* The second half of a rotation that is no transaction.
LEMMA IssueTable ==
    ASSUME Inv, isolation' = isolation, ~hasTx, NEW x \in Tokens, tok[x] # None,
           issueTokenPair(tok, tok[x].owner, tok[x].family)
    PROVE  /\ tok' \in [Tokens -> Token \cup {None}]
           /\ Grows(tok, tok') /\ Lineage' /\ OneLive'
<1> DEFINE o == tok[x].owner
           f == tok[x].family
<1>1. o \in Operators /\ f \in Tokens /\ tok[f] # None BY DEF Inv, TypeOK, Token, Lineage
<1>2. f # None BY <1>1, NoneAssumption
<1>3. PICK t \in Tokens : /\ tok[t] = None
                          /\ tok' = [tok EXCEPT ![t] = [owner |-> o, family |-> f, live |-> TRUE]]
  BY <1>2 DEF issueTokenPair, CreateSuperuserRefreshToken
<1> DEFINE n == [owner |-> o, family |-> f, live |-> TRUE]
<1>4. n \in Token /\ n.owner = o /\ n.family = f /\ n.live = TRUE BY <1>1 DEF Token
<1>5. tok' = Added({}, t, n) BY <1>3, RevokeNone DEF Inv, Added
<1> HIDE DEF n, o, f
<1>6. /\ {} \subseteq Tokens /\ (\A y \in {} : tok[y] # None)
      /\ t \in Tokens /\ tok[t] = None /\ n \in Token /\ n.live = TRUE
      /\ tok' = Added({}, t, n) /\ tok[n.family] # None
  BY <1>1, <1>3, <1>4, <1>5
<1> QED BY <1>6, CreateTable

\* A step that writes the token table.
LEMMA TableInv ==
    ASSUME Inv, NEW r \in Requests, NEW q \in Request, req' = [req EXCEPT ![r] = q],
           Ready(q, hasTx, tok'), q.pc \notin {"revokeAll", "revokeWrite"},
           Opens(q) => active[q.of] # FALSE \/ (Opens(req[r]) /\ req[r].of = q.of),
           UNCHANGED <<isolation, active, out, overtaken>>,
           factor' \in [Operators -> BOOLEAN \cup {None}],
           pending' \in [Pendings -> Operators \cup {None}],
           tok' \in [Tokens -> Token \cup {None}], Grows(tok, tok'), Lineage', OneLive',
           hasTx => \A o \in Operators : Steady(r, o),
           crossed \subseteq crossed', crossed' \subseteq Operators
    PROVE  Inv'
<1>1. req' \in [Requests -> Request] /\ AllReady' BY StartType
<1>2. TypeOK' BY <1>1 DEF Inv, TypeOK
<1>3. StaysClosed'
  <2>1. CASE hasTx BY <2>1, StaysClosedKept
  <2>2. CASE ~hasTx BY <2>2 DEF StaysClosed
  <2> QED BY <2>1, <2>2
<1> QED BY <1>1, <1>2, <1>3 DEF Inv

\* What a step on the table does for the abstract families.
FamilyStep == hasTx => Families!Next \/ UNCHANGED Families!vars

\* A step that leaves the table leaves the families.
LEMMA FamiliesKept == tok' = tok => UNCHANGED Families!vars
BY DEF Families!vars, Used, AbstractFamily, Family

LEMMA SignInStep ==
    ASSUME Inv, NEW r \in Requests, IssueLogin(r) \/ VerifyIssue(r) \/ VerifyInTx(r)
    PROVE  Inv' /\ FamilyStep
<1> DEFINE o == req[r].of
<1>0. /\ TypeOK /\ req[r] \in Request /\ Ready(req[r], hasTx, tok)
      /\ factor \in [Operators -> BOOLEAN \cup {None}]
      /\ pending \in [Pendings -> Operators \cup {None}]
  BY DEF Inv, TypeOK, AllReady
<1>1. /\ UNCHANGED <<isolation, active, out, overtaken, crossed>>
      /\ o \in Operators /\ Opens(req[r])
      /\ crossed \subseteq crossed' /\ crossed' \subseteq Operators
  BY <1>0 DEF TypeOK, IssueLogin, VerifyIssue, VerifyInTx, Ready, Opens
<1>2. /\ factor' \in [Operators -> BOOLEAN \cup {None}]
      /\ pending' \in [Pendings -> Operators \cup {None}]
  <2>1. req[r].settings \in BOOLEAN \cup {None} BY <1>0 DEF Request
  <2> QED BY <1>0, <2>1 DEF IssueLogin, VerifyIssue, VerifyInTx, SpendCode,
                 UpdateSuperuserTOTPSettings, DeleteSuperuserPendingTwoFactorSession
<1>3. ASSUME issueTokenPair(tok, o, None)
      PROVE  /\ tok' \in [Tokens -> Token \cup {None}]
             /\ Grows(tok, tok') /\ Lineage' /\ OneLive'
             /\ \A u \in Operators : Steady(r, u)
             /\ FamilyStep
  <2>1. /\ tok' \in [Tokens -> Token \cup {None}]
        /\ Grows(tok, tok') /\ Lineage' /\ OneLive'
        /\ \A u \in Operators : LiveOf(u)' \subseteq LiveOf(u) \/ u = o
        /\ hasTx => Families!Next
    BY <1>1, <1>3, SignInTable
  <2> QED BY <1>1, <2>1 DEF FamilyStep, Steady
<1>4. CASE IssueLogin(r)
  <2>1. issueTokenPair(tok, o, None) BY <1>4 DEF IssueLogin
  <2>2. Ready(Idle, hasTx, tok') /\ ~Opens(Idle) /\ Idle.pc \notin {"revokeAll", "revokeWrite"}
    BY IdleType, NoneAssumption DEF Ready, Opens
  <2>3. req' = [req EXCEPT ![r] = Idle] BY <1>4 DEF IssueLogin, Return
  <2> QED BY <1>1, <1>2, <1>3, <2>1, <2>2, <2>3, IdleType, TableInv
<1>5. CASE VerifyIssue(r) \/ (VerifyInTx(r) /\ ~CodeGone(r))
  <2> DEFINE q == [req[r] EXCEPT !.pc = "verifyStamp"]
  <2>1. issueTokenPair(tok, o, None) BY <1>5 DEF VerifyIssue, VerifyInTx
  <2>2. req' = [req EXCEPT ![r] = q] /\ q = [req[r] EXCEPT !.pc = "verifyStamp"]
    BY <1>5 DEF VerifyIssue, VerifyInTx, Move
  <2> HIDE DEF q
  <2>3. /\ q \in Request /\ q.pc = "verifyStamp" /\ q.of = req[r].of
        /\ q.copy = req[r].copy /\ q.list = req[r].list
        /\ Opens(q) => Opens(req[r]) /\ req[r].of = q.of
    BY <2>2, MoveState, PCsList
  <2>4. Ready(q, hasTx, tok')
    BY <1>0, <1>3, <1>5, <2>1, <2>3 DEF VerifyIssue, VerifyInTx, Ready, Grows, Request
  <2> QED BY <1>1, <1>2, <1>3, <2>1, <2>2, <2>3, <2>4, TableInv
<1>6. CASE VerifyInTx(r) /\ CodeGone(r)
  <2>1. Return(r) /\ UNCHANGED <<isolation, active, factor, pending, tok, out, overtaken, crossed>>
    BY <1>6 DEF VerifyInTx
  <2> QED BY <2>1, ReturnInv, FamiliesKept DEF FamilyStep
<1> QED BY <1>4, <1>5, <1>6

LEMMA RotateStep ==
    ASSUME Inv, NEW r \in Requests, RotateInTx(r) \/ Rotate(r) \/ RotateIssue(r)
    PROVE  Inv' /\ FamilyStep
<1> DEFINE t == req[r].tok
<1>0. /\ TypeOK /\ req[r] \in Request /\ Ready(req[r], hasTx, tok)
  BY DEF Inv, TypeOK, AllReady
<1>1. /\ UNCHANGED <<isolation, active, factor, pending, out, overtaken>>
      /\ crossed \subseteq crossed' /\ crossed' \subseteq Operators
      /\ req[r].of \in Operators
      /\ t \in Tokens /\ tok[t] # None /\ tok[t].owner = req[r].of
  BY <1>0 DEF TypeOK, RotateInTx, Rotate, RotateIssue, Ready
<1>2. /\ factor' \in [Operators -> BOOLEAN \cup {None}]
      /\ pending' \in [Pendings -> Operators \cup {None}]
  BY <1>0, <1>1 DEF TypeOK
<1>3. /\ \A toks : Ready(Idle, hasTx, toks)
      /\ ~Opens(Idle) /\ Idle.pc \notin {"revokeAll", "revokeWrite"} /\ Idle \in Request
  BY IdleType, NoneAssumption DEF Ready, Opens
<1>4. CASE Rotate(r) /\ ~Consumes(t)
  <2>1. Goto(r, "reuse", req[r].of) /\ tok' = tok /\ crossed' = crossed BY <1>4 DEF Rotate
  <2> QED BY <1>1, <2>1, GotoInv, FamiliesKept DEF FamilyStep
<1>5. CASE RotateInTx(r)
  <2>1. issueTokenPair(Without({t}), tok[t].owner, tok[t].family) /\ Return(r)
    BY <1>1, <1>5 DEF RotateInTx
  <2>2. tok[t].live BY <1>5 DEF RotateInTx, Consumes
  <2>3. /\ tok' \in [Tokens -> Token \cup {None}]
        /\ Grows(tok, tok') /\ Lineage' /\ OneLive'
        /\ \A u \in Operators : LiveOf(u)' \subseteq LiveOf(u) \/ (u = req[r].of /\ LiveOf(u) # {})
        /\ hasTx => Families!Next
    BY <1>1, <2>1, <2>2, RotateTable
  <2>4. Ending(req[r].of) => req[r].of \in crossed' BY <1>5 DEF RotateInTx
  <2>5. \A u \in Operators : Steady(r, u) BY <2>3, <2>4 DEF Steady
  <2> QED BY <1>1, <1>2, <1>3, <2>1, <2>3, <2>5, TableInv DEF Return, FamilyStep
<1>6. CASE Rotate(r) /\ Consumes(t)
  <2> DEFINE q == [req[r] EXCEPT !.pc = "rotateIssue"]
             T == {t}
  <2>1. /\ tok' = Without(T) /\ req' = [req EXCEPT ![r] = q] /\ q = [req[r] EXCEPT !.pc = "rotateIssue"]
        /\ ~hasTx
    BY <1>6 DEF Rotate, Move
  <2>2. T \in SUBSET Tokens /\ \A x \in T : tok[x] # None BY <1>1
  <2>3. q.tok = t BY <1>0 DEF Request
  <2> HIDE DEF q, T
  <2>4. /\ tok' \in [Tokens -> Token \cup {None}]
        /\ Grows(tok, tok') /\ Lineage' /\ OneLive'
        /\ \A o \in Operators : LiveOf(o)' \subseteq LiveOf(o)
    BY <1>1, <2>1, <2>2, RevokeTable
  <2>5. /\ q \in Request /\ q.pc = "rotateIssue" /\ q.of = req[r].of
        /\ q.copy = req[r].copy /\ q.list = req[r].list
        /\ Opens(q) => Opens(req[r]) /\ req[r].of = q.of
    BY <2>1, MoveState, PCsList
  <2>6. Ready(q, hasTx, tok')
    BY <1>0, <1>1, <1>6, <2>1, <2>3, <2>4, <2>5 DEF Rotate, Ready, Grows, Request
  <2> QED BY <1>1, <1>2, <1>6, <2>1, <2>4, <2>5, <2>6, TableInv DEF FamilyStep
<1>7. CASE RotateIssue(r)
  <2>1. ~hasTx BY <1>0, <1>7 DEF RotateIssue, Ready
  <2>2. issueTokenPair(tok, tok[t].owner, tok[t].family) /\ Return(r)
    BY <1>1, <1>7 DEF RotateIssue
  <2>3. /\ tok' \in [Tokens -> Token \cup {None}]
        /\ Grows(tok, tok') /\ Lineage' /\ OneLive'
    BY <1>1, <2>1, <2>2, IssueTable
  <2> QED BY <1>1, <1>2, <1>3, <2>1, <2>2, <2>3, TableInv DEF Return, FamilyStep
<1> QED BY <1>4, <1>5, <1>6, <1>7

LEMMA RevokeStep ==
    ASSUME Inv, NEW r \in Requests, revokeFamilyOnReuse(r) \/ Logout(r) \/ RevokeListed(r)
    PROVE  Inv' /\ FamilyStep
<1>0. /\ TypeOK /\ req[r] \in Request /\ Ready(req[r], hasTx, tok)
  BY DEF Inv, TypeOK, AllReady
<1>1. /\ UNCHANGED <<isolation, active, factor, pending, out, overtaken, crossed>>
      /\ crossed \subseteq crossed' /\ crossed' \subseteq Operators
  BY <1>0 DEF TypeOK, revokeFamilyOnReuse, Logout, RevokeListed
<1>2. /\ factor' \in [Operators -> BOOLEAN \cup {None}]
      /\ pending' \in [Pendings -> Operators \cup {None}]
  BY <1>0, <1>1 DEF TypeOK
<1>3. ASSUME NEW q \in Request, req' = [req EXCEPT ![r] = q],
             Ready(q, hasTx, tok), q.pc \notin {"revokeAll", "revokeWrite"},
             Opens(q) => Opens(req[r]) /\ req[r].of = q.of,
             NEW T \in SUBSET Tokens, \A t \in T : tok[t] # None, tok' = Without(T)
      PROVE  Inv' /\ FamilyStep
  <2>1. /\ tok' \in [Tokens -> Token \cup {None}]
        /\ Grows(tok, tok') /\ Lineage' /\ OneLive'
        /\ \A o \in Operators : LiveOf(o)' \subseteq LiveOf(o)
        /\ hasTx => Families!Next
    BY <1>1, <1>3, RevokeTable
  <2>2. Ready(q, hasTx, tok') BY <1>3, <2>1 DEF Ready, Grows, Request
  <2>3. \A o \in Operators : Steady(r, o) BY <2>1 DEF Steady
  <2> QED BY <1>1, <1>2, <1>3, <2>1, <2>2, <2>3, TableInv DEF FamilyStep
<1>4. /\ Ready(Idle, hasTx, tok) /\ ~Opens(Idle) /\ Idle.pc \notin {"revokeAll", "revokeWrite"} /\ Idle \in Request
  BY IdleType, NoneAssumption DEF Ready, Opens
<1>5. CASE revokeFamilyOnReuse(r)
  <2>1. PICK T \in {TokensOf(req[r].of), req[r].list} :
          tok' = Without(T) /\ req' = [req EXCEPT ![r] = Idle]
    BY <1>5 DEF revokeFamilyOnReuse, RevokeAll, RevokeAllSuperuserRefreshTokens, Return
  <2>2. T \in SUBSET Tokens /\ \A t \in T : tok[t] # None BY <1>0 DEF TokensOf, Ready, Request
  <2> QED BY <1>3, <1>4, <2>1, <2>2
<1>6. CASE Logout(r)
  <2>1. PICK t \in Tokens : tok[t] # None /\ tok' = Without({t})
    BY <1>6 DEF Logout, RevokeSuperuserRefreshToken
  <2> DEFINE q == req[r]
             T == {t}
  <2>2. req' = [req EXCEPT ![r] = q] BY <1>0, <1>6 DEF Logout, TypeOK
  <2>3. q \in Request /\ Ready(q, hasTx, tok) /\ q.pc \notin {"revokeAll", "revokeWrite"} /\ q.of = req[r].of
        /\ (Opens(q) => Opens(req[r]) /\ req[r].of = q.of)
    BY <1>0, <1>6 DEF Logout
  <2>4. T \in SUBSET Tokens /\ (\A x \in T : tok[x] # None) /\ tok' = Without(T) BY <2>1
  <2> HIDE DEF q, T
  <2> QED BY <1>3, <2>2, <2>3, <2>4
<1>7. CASE RevokeListed(r) /\ req[r].list = {}
  <2>1. Return(r) /\ tok' = tok BY <1>7 DEF RevokeListed
  <2> QED BY <1>1, <2>1, ReturnInv, FamiliesKept DEF FamilyStep
<1>8. CASE RevokeListed(r) /\ req[r].list # {}
  <2>1. PICK t \in req[r].list :
          tok' = Without({t}) /\ req' = [req EXCEPT ![r] = [req[r] EXCEPT !.list = req[r].list \ {t}]]
    BY <1>8 DEF RevokeListed, RevokeSuperuserRefreshToken
  <2> DEFINE q == [req[r] EXCEPT !.list = req[r].list \ {t}]
             T == {t}
  <2>2. /\ q \in Request /\ q.pc = req[r].pc /\ q.of = req[r].of /\ q.copy = req[r].copy
        /\ q.tok = req[r].tok /\ q.list = req[r].list \ {t}
    BY <1>0 DEF Request
  <2>3. T \in SUBSET Tokens /\ (\A x \in T : tok[x] # None) /\ tok' = Without(T)
    BY <1>0, <2>1 DEF Ready, Request
  <2>4. req' = [req EXCEPT ![r] = q] BY <2>1
  <2> HIDE DEF q, T
  <2>5. q.pc \notin {"revokeAll", "revokeWrite"} /\ Ready(q, hasTx, tok) /\ (Opens(q) => Opens(req[r]) /\ req[r].of = q.of)
    BY <1>0, <1>8, <2>2 DEF RevokeListed, Ready, Opens
  <2> QED BY <1>3, <2>2, <2>3, <2>4, <2>5
<1> QED BY <1>5, <1>6, <1>7, <1>8

\* The first half of an UPDATE at READ COMMITTED.
LEMMA FindStep ==
    ASSUME Inv, NEW r \in Requests, FindAll(r)
    PROVE  Inv'
<1>1. PICK p \in {<<"reuse", "reuseWrite">>, <<"revokeAll", "revokeWrite">>} :
        /\ req[r].pc = p[1]
        /\ req' = [req EXCEPT ![r] = [req[r] EXCEPT !.pc = p[2], !.list = TokensOf(req[r].of)]]
  BY DEF FindAll
<1> DEFINE q == [req[r] EXCEPT !.pc = p[2], !.list = TokensOf(req[r].of)]
<1>0. /\ TypeOK /\ req[r] \in Request /\ Ready(req[r], hasTx, tok) /\ StaysClosed
      /\ req \in [Requests -> Request]
      /\ UNCHANGED <<isolation, active, factor, tok, pending, out, overtaken, crossed>>
  BY DEF Inv, TypeOK, AllReady, FindAll, rowsUnchanged, historyUnchanged
<1>2. /\ q \in Request /\ q.pc = p[2] /\ q.of = req[r].of /\ q.copy = req[r].copy
      /\ q.list = TokensOf(req[r].of)
  <2>1. p[2] \in PCs BY PCsList
  <2>2. TokensOf(req[r].of) \in SUBSET Tokens BY DEF TokensOf
  <2> QED BY <1>0, <2>1, <2>2 DEF Request
<1>3. req' = [req EXCEPT ![r] = q] BY <1>1
<1> HIDE DEF q
<1>4. Ready(q, hasTx, tok) BY <1>0, <1>1, <1>2 DEF Ready, TokensOf
<1>5. req' \in [Requests -> Request] /\ AllReady'
  BY <1>0, <1>2, <1>3, <1>4, GrowsSame, StartType
<1>6. TypeOK' BY <1>0, <1>5 DEF TypeOK
<1>7. Lineage' /\ OneLive' BY <1>0 DEF Inv, Lineage, OneLive
<1>8. \A s \in Requests : req'[s] = IF s = r THEN q ELSE req[s] BY <1>0, <1>3
<1>9. ASSUME NEW o \in Operators, Shut(o) PROVE Shut(o)'
  <2>1. Leaving(o)' => Leaving(o) BY <1>1, <1>2, <1>8 DEF Leaving
  <2>2. Closed(o) => Closed(o)' BY <1>0, <1>1, <1>2, <1>8 DEF Closed, Opens
  <2>3. LiveOf(o)' = LiveOf(o) BY <1>0 DEF LiveOf
  <2>4. ASSUME NEW s \in Requests, req'[s].pc = "revokeWrite", req'[s].of = o, o \notin crossed'
        PROVE  LiveOf(o)' \subseteq req'[s].list
    <3>1. CASE s = r BY <1>2, <1>8, <2>3, <2>4, <3>1 DEF LiveOf, TokensOf
    <3>2. CASE s # r BY <1>0, <1>8, <1>9, <2>3, <2>4, <3>2 DEF Shut
    <3> QED BY <3>1, <3>2
  <2> QED BY <1>0, <1>9, <2>1, <2>2, <2>3, <2>4 DEF Shut
<1>10. StaysClosed' BY <1>0, <1>9 DEF StaysClosed
<1> QED BY <1>5, <1>6, <1>7, <1>10 DEF Inv

-----------------------------------------------------------------------------
(***************************************************************************)
(* Deactivate: a write that overlaps with nothing closes the account, and  *)
(* the revocation leaves it no session.                                    *)
(***************************************************************************)
LEMMA DeactivateStep ==
    ASSUME Inv, NEW r \in Requests, DeactivateWrite(r)
    PROVE  Inv'
<1>o. PICK o \in Operators : o = req[r].of
  BY DEF Inv, AllReady, Ready, DeactivateWrite
<1> DEFINE q == At("revokeAll", o)
<1>0. /\ TypeOK /\ req[r] \in Request /\ req \in [Requests -> Request]
      /\ StaysClosed /\ req[r].of = o
  BY <1>o DEF Inv, TypeOK
<1>1. /\ UNCHANGED <<isolation, factor, tok, pending, out, crossed>>
      /\ active' = [active EXCEPT ![o] = FALSE]
      /\ overtaken' = IF Overlapping(o) = {} THEN overtaken ELSE overtaken \cup {o}
      /\ req' = [req EXCEPT ![r] = q]
  BY <1>o DEF DeactivateWrite, UpdateSuperuser, Goto, At
<1>2. /\ q \in Request /\ q.of = o /\ q.pc = "revokeAll"
      /\ Ready(q, hasTx, tok) /\ ~Opens(q)
  BY <1>0, GotoState
<1> HIDE DEF q
<1>3. req' \in [Requests -> Request] /\ AllReady'
  BY <1>1, <1>2, GrowsSame, StartType
<1>4. TypeOK' BY <1>0, <1>1, <1>3 DEF TypeOK
<1>5. Lineage' /\ OneLive' BY <1>1 DEF Inv, Lineage, OneLive
<1>6. \A s \in Requests : req'[s] = IF s = r THEN q ELSE req[s] BY <1>0, <1>1
<1>7. ASSUME NEW u \in Operators PROVE LiveOf(u)' = LiveOf(u) /\ (Ending(u)' => Ending(u))
  BY <1>1, <1>2, <1>6 DEF LiveOf, Ending
<1>8. ASSUME hasTx, NEW u \in Operators \ overtaken'
      PROVE  Shut(u)'
  <2>1. u \notin overtaken /\ Shut(u) BY <1>0, <1>1, <1>8 DEF StaysClosed
  <2>2. CASE u # o
    <3>1. Leaving(u)' => Leaving(u) BY <1>2, <1>6, <2>2 DEF Leaving
    <3>2. active[u] = FALSE => active'[u] = FALSE BY <1>0, <1>1, <2>2 DEF TypeOK
    <3>3. \A s \in Requests : req'[s].of = u => req'[s] = req[s]
      BY <1>2, <1>6, <2>2
    <3>4. Closed(u) => Closed(u)' BY <3>2, <3>3 DEF Closed, Opens
    <3> QED BY <1>1, <1>7, <2>1, <3>1, <3>3, <3>4 DEF Shut
  <2>3. CASE u = o
    <3>1. Overlapping(o) = {} BY <1>1, <1>8, <2>3
    <3>2. active'[o] = FALSE BY <1>0, <1>1 DEF TypeOK
    <3>3. \A s \in Requests : req[s].of = o => ~Opens(req[s])
      BY <3>1, NoneAssumption DEF Overlapping, Opens
    <3>4. \A s \in Requests : req'[s].of = o => ~Opens(req'[s])
      BY <1>2, <1>6, <3>3
    <3>5. Closed(o)' BY <3>2, <3>4 DEF Closed, Opens
    <3>6. \A s \in Requests : req'[s].pc = "revokeWrite" => req'[s] = req[s]
      BY <1>2, <1>6
    <3> QED BY <1>1, <1>7, <2>1, <2>3, <3>5, <3>6 DEF Shut
  <2> QED BY <2>2, <2>3
<1>9. StaysClosed' BY <1>1, <1>8 DEF StaysClosed
<1> QED BY <1>3, <1>4, <1>5, <1>9 DEF Inv

LEMMA LeaveStep ==
    ASSUME Inv, NEW r \in Requests, DeactivateRevoke(r)
    PROVE  Inv' /\ FamilyStep
<1>o. PICK o \in Operators : o = req[r].of
  BY DEF Inv, AllReady, Ready, DeactivateRevoke, RevokeAll
<1>0. /\ TypeOK /\ req[r] \in Request /\ req \in [Requests -> Request]
      /\ StaysClosed /\ Leaving(o)
  BY <1>o DEF Inv, TypeOK, DeactivateRevoke, RevokeAll, Leaving
<1>1. /\ UNCHANGED <<isolation, active, factor, pending, overtaken, crossed>>
      /\ out' = out \cup {o}
      /\ req' = [req EXCEPT ![r] = Idle]
  BY <1>o DEF DeactivateRevoke, Return
<1>T. PICK T \in {TokensOf(o), req[r].list} :
        /\ tok' = Without(T)
        /\ T = TokensOf(o) \/ (T = req[r].list /\ req[r].pc = "revokeWrite")
  BY <1>o DEF DeactivateRevoke, RevokeAll, RevokeAllSuperuserRefreshTokens
<1>2. /\ T \in SUBSET Tokens /\ (\A t \in T : tok[t] # None)
      /\ hasTx /\ o \notin overtaken /\ o \notin crossed => LiveOf(o) \subseteq T
  <2>1. Ready(req[r], hasTx, tok) BY DEF Inv, AllReady
  <2>2. hasTx /\ o \notin overtaken => Shut(o) BY <1>0 DEF StaysClosed
  <2>3. CASE T = TokensOf(o) BY <2>3 DEF TokensOf, LiveOf
  <2>4. CASE T = req[r].list /\ req[r].pc = "revokeWrite"
    BY <1>o, <1>0, <2>1, <2>2, <2>4 DEF Shut, Ready, Request
  <2> QED BY <1>T, <2>3, <2>4
<1>3. /\ tok' \in [Tokens -> Token \cup {None}]
      /\ Grows(tok, tok') /\ Lineage' /\ OneLive'
      /\ \A u \in Operators : LiveOf(u)' \subseteq LiveOf(u)
      /\ \A t \in T : ~tok'[t].live
      /\ hasTx => Families!Next
  BY <1>1, <1>T, <1>2, RevokeTable
<1>4. Ready(Idle, hasTx, tok') /\ ~Opens(Idle) /\ Idle.of = None /\ Idle.pc = "idle"
  BY IdleType, NoneAssumption DEF Ready, Opens
<1>5. req' \in [Requests -> Request] /\ AllReady' BY <1>1, <1>3, <1>4, IdleType, StartType
<1>6. TypeOK' BY <1>0, <1>1, <1>3, <1>5 DEF TypeOK
<1>7. \A s \in Requests : req'[s] = IF s = r THEN Idle ELSE req[s] BY <1>0, <1>1
<1>8. hasTx /\ o \notin overtaken /\ o \notin crossed => LiveOf(o)' = {}
  <2>1. \A t \in LiveOf(o)' : t \in LiveOf(o) /\ t \notin T
    BY <1>3 DEF LiveOf
  <2> QED BY <1>2, <2>1
<1>9. StaysClosed'
  <2> SUFFICES ASSUME hasTx, NEW u \in Operators \ overtaken PROVE Shut(u)'
    BY <1>1 DEF StaysClosed
  <2>0. Shut(u) BY <1>0 DEF StaysClosed
  <2>1. Leaving(u)' => Leaving(u) BY <1>4, <1>7 DEF Leaving
  <2>2. u \in out' \/ Leaving(u)' => u \in out \/ Leaving(u) BY <1>0, <1>1, <2>1
  <2>4. Closed(u) => \A s \in Requests : req'[s].of = u => ~Opens(req'[s])
    BY <1>4, <1>7 DEF Closed
  <2>5. Closed(u) => Closed(u)' BY <1>1, <2>4 DEF Closed, Opens
  <2>6. u \in out' /\ u \notin crossed' => LiveOf(u)' = {}
    BY <1>1, <1>3, <1>8, <2>0 DEF Shut
  <2>7. \A s \in Requests : req'[s].pc = "revokeWrite" => req'[s] = req[s]
    BY <1>4, <1>7
  <2>8. ASSUME NEW s \in Requests, req'[s].pc = "revokeWrite", req'[s].of = u, u \notin crossed'
        PROVE  LiveOf(u)' \subseteq req'[s].list
    BY <1>1, <1>3, <2>0, <2>7, <2>8 DEF Shut
  <2> QED BY <2>0, <2>2, <2>5, <2>6, <2>8 DEF Shut
<1> QED BY <1>3, <1>5, <1>6, <1>9 DEF Inv, FamilyStep

-----------------------------------------------------------------------------
LEMMA SuperuserInit == Init => Inv
<1> SUFFICES ASSUME Init PROVE Inv
  OBVIOUS
<1>1. TypeOK BY IdleType, SuperuserAssumption DEF Init, TypeOK
<1>2. AllReady BY IdleType DEF Init, AllReady, Ready
<1>3. StaysClosed BY IdleType DEF Init, StaysClosed, Shut, Leaving
<1> QED BY <1>1, <1>2, <1>3 DEF Inv, Init, Lineage, OneLive

LEMMA SuperuserStep == Inv /\ [Next]_vars => Inv' /\ FamilyStep
<1> SUFFICES ASSUME Inv, [Next]_vars PROVE Inv' /\ FamilyStep
  OBVIOUS
<1>1. ASSUME tok' = tok PROVE FamilyStep BY <1>1, FamiliesKept DEF FamilyStep
<1>2. CASE Expire BY <1>1, <1>2, ExpireStep DEF Expire
<1>3. CASE UNCHANGED vars
  <2>1. Inv' BY <1>3 DEF vars, Inv, TypeOK, AllReady, Lineage, OneLive, StaysClosed,
                         Shut, Closed, Leaving, LiveOf, Opens
  <2> QED BY <1>1, <1>3, <2>1 DEF vars
<1>4. ASSUME NEW r \in Requests, Step(r) PROVE Inv' /\ FamilyStep
  <2>1. CASE \/ Bootstrap(r) \/ CreateBy(r) \/ Authenticate(r) \/ beginTwoFactorLogin(r)
             \/ VerifyTwoFactorLogin(r) \/ VerifyUser(r) \/ VerifyCode(r)
             \/ Refresh(r) \/ RefreshUser(r) \/ ChangePassword(r)
             \/ RevokeOtherSessions(r) \/ revokeOthers(r) \/ Deactivate(r)
             \/ BeginTwoFactorSetup(r) \/ ConfirmTwoFactorSetup(r)
             \/ RegenerateBackupCodes(r) \/ DisableTwoFactor(r) \/ CutOff(r)
    <3>1. tok' = tok BY <2>1, QuietRows
    <3> QED BY <1>1, <2>1, <3>1, QuietStep
  <2>2. CASE createSuperuser(r) \/ Rehash(r) \/ StampLogin(r) \/ VerifyStamp(r) \/ ChangeWrite(r)
    <3>1. tok' = tok BY <2>2 DEF createSuperuser, Rehash, StampLogin, VerifyStamp, ChangeWrite
    <3> QED BY <1>1, <2>2, <3>1, RowStep
  <2>3. CASE \/ CreatePending(r) \/ VerifySpend(r) \/ VerifyDelete(r)
             \/ SetupWrite(r) \/ WriteEnabled(r) \/ DisableDelete(r)
    <3>1. tok' = tok
      BY <2>3 DEF CreatePending, VerifySpend, VerifyDelete, SetupWrite, WriteEnabled, DisableDelete
    <3> QED BY <1>1, <2>3, <3>1, FactorStep
  <2>4. CASE IssueLogin(r) \/ VerifyIssue(r) \/ VerifyInTx(r) BY <2>4, SignInStep
  <2>5. CASE RotateInTx(r) \/ Rotate(r) \/ RotateIssue(r) BY <2>5, RotateStep
  <2>6. CASE revokeFamilyOnReuse(r) \/ Logout(r) \/ RevokeListed(r) BY <2>6, RevokeStep
  <2>7. CASE DeactivateWrite(r)
    <3>1. tok' = tok BY <2>7 DEF DeactivateWrite
    <3> QED BY <1>1, <2>7, <3>1, DeactivateStep
  <2>8. CASE DeactivateRevoke(r) BY <2>8, LeaveStep
  <2>9. CASE FindAll(r)
    <3>1. tok' = tok BY <2>9 DEF FindAll, rowsUnchanged
    <3> QED BY <1>1, <2>9, <3>1, FindStep
  <2> QED BY <1>4, <2>1, <2>2, <2>3, <2>4, <2>5, <2>6, <2>7, <2>8, <2>9 DEF Step
<1> QED BY <1>2, <1>3, <1>4 DEF Next

\* The inductive invariant, of which the theorems are parts.
THEOREM SuperuserInvariant == Spec => []Inv
BY SuperuserInit, SuperuserStep, PTL DEF Spec

\* Every variable keeps its type, whatever requests and crashes do.
THEOREM SuperuserTypeCorrect == Spec => []TypeOK
<1>1. Inv => TypeOK BY DEF Inv
<1> QED BY <1>1, SuperuserInvariant, PTL

\* With a TxRunner of either kind a deactivated operator stays inactive unless
\* a request that had read its row before was still under way when Deactivate
\* wrote it, and has no session unless, at READ COMMITTED, a rotation was
\* committed while Deactivate was revoking them.
THEOREM SuperuserStaysOut == Spec => []DeactivationIsFinal
<1>1. Inv => DeactivationIsFinal
  BY DEF Inv, StaysClosed, Shut, DeactivationIsFinal, Closed, LiveOf, TypeOK,
         ListActiveSuperuserRefreshTokens, TokensOf
<1> QED BY <1>1, SuperuserInvariant, PTL

\* With a TxRunner every step of the operator plane is one of SessionFamilies,
\* so that what is promised of a user's sessions holds of an operator's.
THEOREM SuperuserImplementsFamilies == Spec => OperatorFamilies
<1>1. Inv /\ [Next]_vars => [hasTx => Families!Next]_(Families!vars)
  BY SuperuserStep DEF FamilyStep
<1> QED BY <1>1, SuperuserInvariant, PTL DEF Spec, OperatorFamilies

-----------------------------------------------------------------------------
(***************************************************************************)
(* The SQL stores. A statement keeps a promise when it has the form below; *)
(* every one of them does, table by table; and a statement of that form,   *)
(* run by SQLite on the promised rows, does to them what is promised.      *)
(***************************************************************************)
\* The statement s is run with this helper, does this to the rows that have
\* the call's value in this column, and only to those.
Runs(s, helper, do, by, only) == s.helper = helper /\ s.q.do = do /\ s.q.by = by /\ s.q.only = only

Reading == {"get", "getByKey", "getByPair", "getNewest", "exists", "list", "listOldestFirst", "listLive",
            "listLiveOldestFirst", "listByKey", "listAll", "countSince", "countAll"}
Changing == {"replace", "revoke", "consume", "useOnce", "extend", "touch", "increment", "revokeAll",
             "revokeAllCounting"}
Deleting == {"take", "remove", "forget", "clear"}

\* The statements that keep a promise, in the tables where they do: UPDATE
\* without COALESCE keeps "revoke" where the instant of it is not promised.
Keeping(t, p, s) ==
    /\ p \in Creating \cup Reading \cup Changing \cup Deleting
    /\ p = "create" =>
         /\ s.helper = "exec" /\ s.q.do = "insert"
         /\ s.q.by \in IF t = "members" THEN {"pair"} ELSE IF t \in Named THEN {"key"} ELSE {"id", "key"}
    /\ p = "set" => t = "pins" /\ Runs(s, "exec", "upsert", "id", "any")
    /\ p = "ensure" => t = "locks" /\ Runs(s, "exec", "insert or nothing", "id", "any")
    /\ p = "get" => Runs(s, "one", "select", "id", "any")
    /\ p = "getByKey" => Runs(s, "one", "select", "key", "any")
    /\ p = "getByPair" => t = "members" /\ Runs(s, "one", "select", "pair", "any")
    /\ p = "getNewest" => Runs(s, "one", "select", "owner", "newest")
    /\ p = "exists" => Runs(s, "scan", "select", "id", "any")
    /\ p \in {"list", "listOldestFirst"} => Runs(s, "collect", "select", "owner", "any")
    /\ p \in {"listLive", "listLiveOldestFirst"} => Runs(s, "collect", "select", "owner", "live")
    /\ p = "listByKey" => t = "members" /\ Runs(s, "collect", "select", "key", "any")
    /\ p = "listAll" => Runs(s, "collect", "select", "all", "any")
    /\ p = "countSince" => Runs(s, "scan", "select", "owner", "since")
    /\ p = "countAll" => Runs(s, "scan", "select", "all", "any")
    /\ p = "replace" => t # "pins" /\ Runs(s, "execRow", "row", "id", "any")
    /\ p = "revoke" =>
         /\ t # "pins" /\ s.helper = "execRow" /\ s.q.by = "id" /\ s.q.only = "any"
         /\ s.q.do = "coalesce" \/ (t \notin Stamped /\ s.q.do = "mark")
    /\ p = "consume" => t # "pins" /\ Runs(s, "execCount", "mark", "id", "unmarked")
    /\ p = "useOnce" => t # "pins" /\ Runs(s, "execRow", "mark", "id", "unmarked")
    /\ p = "extend" => t # "pins" /\ Runs(s, "execRow", "exp", "id", "unmarked")
    /\ p = "touch" => Runs(s, "execRow", "val", "id", "unmarked")
    /\ p = "increment" => t # "pins" /\ Runs(s, "scan", "hits", "id", "any")
    /\ p = "revokeAll" => t # "pins" /\ Runs(s, "exec", "mark", "owner", "unmarked")
    /\ p = "revokeAllCounting" => t # "pins" /\ Runs(s, "execCount", "mark", "owner", "unmarked")
    /\ p = "take" => Runs(s, "one", "delete", "id", "any")
    /\ p = "remove" => Runs(s, "execRow", "delete", "id", "any")
    /\ p = "forget" => Runs(s, "exec", "delete", "id", "any")
    /\ p = "clear" => Runs(s, "exec", "delete", "owner", "any")

\* What is promised of an id that no row has.
Nothing(p) ==
    CASE p \in {"consume", "exists", "countSince", "revokeAllCounting"} -> Counted(0)
      [] p \in {"list", "listOldestFirst", "listLive", "listLiveOldestFirst", "listByKey"} -> Listed({}, TRUE)
      [] p \in {"revokeAll", "forget", "clear"} -> Done
      [] OTHER -> NotFound

\* No caller passes a malformed id: it is its own, or none.
NeverMalformed(t, p) ==
    \/ p \in {"create", "set", "ensure", "listAll", "countAll"}
    \/ p = "getByKey" /\ t # "members"
    \/ t \in {"attempts", "emailLogin"} /\ p \in {"getNewest", "countSince", "clear"}
    \/ t = "challenges"

Guards(t, p, s) ==
    IF s.guarded THEN s.otherwise = Nothing(p) /\ p \notin {"create", "set", "ensure"} ELSE NeverMalformed(t, p)

\* pgstore and sqlitestore read the result of a statement in the same way.
Alike(s, g, q) ==
    /\ s.guarded = g.guarded /\ s.otherwise = g.otherwise /\ s.q = q.q
    /\ \/ s.helper = "exec" /\ q.yields = "nothing" /\ g.as = "mapErr"
       \/ s.helper = "execRow" /\ q.yields = "affected" /\ g.as = "affected"
       \/ s.helper = "execCount" /\ q.yields = "affected" /\ g.as = "n"
       \/ s.helper = "scan" /\ q.yields = "number" /\ g.as = "mapErr"
       \/ s.helper = "one" /\ q.yields = "one" /\ g.as = "mapErr"
       \/ s.helper = "collect" /\ q.yields = "many" /\ g.as = "mapErr"

KeptBy(t, p, s, g, q) == Keeping(t, p, s) /\ Guards(t, p, s) /\ Alike(s, g, q)

-----------------------------------------------------------------------------
\* A table as its callers leave it: an id names one row; a hash is its row's
\* own; a column the table does not have is NULL; only bound devices keep
\* more of a revocation than that there was one.
Tidy(t, rows) ==
    /\ rows \subseteq Row /\ IsFiniteSet(rows)
    /\ \A r, s \in rows : r.id = s.id => r = s
    /\ \A r \in rows :
         /\ t \in Hashed => r.key = r.id
         /\ t \notin Hashed \cup Named => r.key = NoArg
         /\ t \notin Stamped => r.mark \in {0, 1}
         /\ t = "pins" => r.owner = NoArg /\ r.mark = 0 /\ r.exp = 0 /\ r.hits = 0

ClockOK == table \in Tables /\ now \in 1..MaxNow

\* The arguments of a call are as its promise asks.
CallIs(m, c) ==
    LET p == Port[table][m]
    IN /\ c.method = m /\ c.id \in IdArgs(p) /\ c.key \in KeyArgs(p) /\ c.owner \in OwnerArgs(p)
       /\ c.val \in ValArgs(p) /\ c.born \in BornArgs(p) /\ Legal(p, c) /\ c.now = now
       /\ c.at = IF table \in Stamped THEN now ELSE 1
       /\ c.exp = IF table \in Expiring THEN now + 1 ELSE 0

\* A legal call is of some method, with the arguments of its promise.
LEMMA CallFacts ==
    ASSUME NEW c \in Calls
    PROVE  \E m \in DOMAIN Port[table] : CallIs(m, c)
<1>1. PICK m \in DOMAIN Port[table] :
        c \in LET p == Port[table][m]
              IN {d \in {CallOf(m, id, key, owner, val, born) :
                           id \in IdArgs(p), key \in KeyArgs(p), owner \in OwnerArgs(p),
                           val \in ValArgs(p), born \in BornArgs(p)} : Legal(p, d)}
  BY DEF Calls
<1>2. PICK id \in IdArgs(Port[table][m]), key \in KeyArgs(Port[table][m]), owner \in OwnerArgs(Port[table][m]),
           val \in ValArgs(Port[table][m]), born \in BornArgs(Port[table][m]) :
        c = CallOf(m, id, key, owner, val, born)
  BY <1>1
<1>3. Legal(Port[table][m], c)
  BY <1>1
<1>. QED  BY <1>2, <1>3 DEF CallIs, CallOf

\* What the arguments are in every table.
LEMMA ArgsAre ==
    ASSUME ClockOK, NEW m, NEW c, CallIs(m, c)
    PROVE  /\ c.id \in Ids \cup {NoUuid, NoArg} /\ c.key \in Ids \cup Keys \cup {NoUuid, NoArg}
           /\ c.owner \in Owners \cup {NoUuid, NoArg} /\ c.val \in Vals \cup {NoArg}
           /\ c.born \in 0..MaxNow /\ c.now = now /\ c.at \in 1..MaxNow /\ c.exp \in 0..(MaxNow + 1)
           /\ table \notin Stamped => c.at = 1
  BY RowsAssumption DEF ClockOK, CallIs, IdArgs, KeyArgs, OwnerArgs, ValArgs, BornArgs

\* Creating a row: its id is no other's, nor its key where keys are unique.
LEMMA CreatingIs ==
    ASSUME ClockOK, NEW m, NEW c, CallIs(m, c), Port[table][m] \in Creating
    PROVE  /\ c.id \in Ids /\ c.key \in Ids \cup Keys \cup {NoArg} /\ c.owner \in Owners \cup {NoArg}
           /\ table \in Hashed => c.key = c.id
           /\ table \in Named \ {"members"} => c.key \in Keys
           /\ table \notin Hashed \cup Named => c.key = NoArg
           /\ table \notin Owned => c.owner = NoArg
           /\ table \notin Expiring => c.exp = 0
           /\ table = "members" => ~\E r \in promised : r.owner = c.owner /\ r.key = c.key /\ c.key # NoArg
  BY DEF ClockOK, CallIs, IdArgs, KeyArgs, OwnerArgs, Legal, Creating, Hashed, Named

\* The row a call creates.
LEMMA RowOfIs ==
    ASSUME ClockOK, NEW m, NEW c, CallIs(m, c), Port[table][m] \in Creating
    PROVE  /\ RowOf(c) \in Row /\ RowOf(c).id = c.id /\ RowOf(c).key = c.key /\ RowOf(c).owner = c.owner
           /\ RowOf(c).val = c.val /\ RowOf(c).mark = 0 /\ RowOf(c).exp = c.exp /\ RowOf(c).hits = 0
           /\ RowOf(c).born = c.born
  BY ArgsAre, CreatingIs, RowsAssumption DEF RowOf, Row

\* The methods no guard protects get no malformed id.
LEMMA MalformedIs ==
    ASSUME ClockOK, NEW m, NEW c, CallIs(m, c), NeverMalformed(table, Port[table][m])
    PROVE  ~MalformedId(c)
  BY RowsAssumption DEF ClockOK, CallIs, IdArgs, KeyArgs, OwnerArgs, NeverMalformed, MalformedId, Creating, ByOwner,
     ByKey, ByNothing, Named, Hashed, Owned
-----------------------------------------------------------------------------
(***************************************************************************)
(* A call of SQLite does what is promised, promise by promise.             *)
(***************************************************************************)
SameAnswer(a, b) == a.code = b.code /\ a.n = b.n /\ a.rows = b.rows /\ (b.sorted => a.sorted)

Fulfils(s, p, c) ==
    LET does == SqliteCall(s, promised, c)
        promise == Promise(table, p, promised, c)
    IN does.table = promise.table /\ SameAnswer(does.answer, promise.answer)

\* The call is legal, its statement one that keeps its promise.
Meant(m, s, c) ==
    /\ ClockOK /\ Tidy(table, promised) /\ CallIs(m, c)
    /\ Keeping(table, Port[table][m], s) /\ Guards(table, Port[table][m], s)

LEMMA GetDoes ==
    ASSUME NEW s, NEW c, ~(s.guarded /\ MalformedId(c)), NEW p, p = "get",
           Runs(s, "one", "select", "id", "any")
    PROVE  Fulfils(s, p, c)
<1>. DEFINE found == {r \in promised : r.id = c.id}
<1>1. Run(promised, s.q, c) = [table |-> promised, seen |-> found, refused |-> FALSE]
  BY DEF Run, Where, Same, Runs
<1>2. /\ SqliteCall(s, promised, c).table = promised
      /\ SqliteCall(s, promised, c).answer = Found(found)
  BY <1>1 DEF SqliteCall, Reply, Number, Runs, Listed, Answer
<1>3. /\ Promise(table, p, promised, c).table = promised
      /\ SameAnswer(Found(found), Promise(table, p, promised, c).answer)
  BY DEF Promise, SameAnswer, Listed, Answer
<1>. QED  BY <1>2, <1>3, Zenon DEF Fulfils

LEMMA GetByKeyDoes ==
    ASSUME NEW s, NEW c, ~(s.guarded /\ MalformedId(c)), NEW p, p = "getByKey",
           Runs(s, "one", "select", "key", "any"), c.key # NoArg
    PROVE  Fulfils(s, p, c)
<1>. DEFINE found == {r \in promised : r.key = c.key}
<1>1. Run(promised, s.q, c) = [table |-> promised, seen |-> found, refused |-> FALSE]
  BY DEF Run, Where, Same, Runs
<1>2. /\ SqliteCall(s, promised, c).table = promised
      /\ SqliteCall(s, promised, c).answer = Found(found)
  BY <1>1 DEF SqliteCall, Reply, Number, Runs, Listed, Answer
<1>3. /\ Promise(table, p, promised, c).table = promised
      /\ SameAnswer(Found(found), Promise(table, p, promised, c).answer)
  BY DEF Promise, SameAnswer, Listed, Answer
<1>. QED  BY <1>2, <1>3, Zenon DEF Fulfils

LEMMA GetByPairDoes ==
    ASSUME NEW s, NEW c, ~(s.guarded /\ MalformedId(c)), NEW p, p = "getByPair",
           Runs(s, "one", "select", "pair", "any"), c.key # NoArg
    PROVE  Fulfils(s, p, c)
<1>. DEFINE found == {r \in promised : r.key = c.key} \cap {r \in promised : r.owner = c.owner}
<1>1. Run(promised, s.q, c) = [table |-> promised, seen |-> found, refused |-> FALSE]
  BY DEF Run, Where, Same, Runs
<1>2. /\ SqliteCall(s, promised, c).table = promised
      /\ SqliteCall(s, promised, c).answer = Found(found)
  BY <1>1 DEF SqliteCall, Reply, Number, Runs, Listed, Answer
<1>3. /\ Promise(table, p, promised, c).table = promised
      /\ SameAnswer(Found(found), Promise(table, p, promised, c).answer)
  BY DEF Promise, SameAnswer, Listed, Answer
<1>. QED  BY <1>2, <1>3, Zenon DEF Fulfils

LEMMA GetNewestDoes ==
    ASSUME NEW s, NEW c, ~(s.guarded /\ MalformedId(c)), NEW p, p = "getNewest",
           Runs(s, "one", "select", "owner", "newest")
    PROVE  Fulfils(s, p, c)
<1>. DEFINE found == Newest({r \in promised : r.owner = c.owner})
<1>1. Run(promised, s.q, c) = [table |-> promised, seen |-> found, refused |-> FALSE]
  BY DEF Run, Where, Same, Runs
<1>2. /\ SqliteCall(s, promised, c).table = promised
      /\ SqliteCall(s, promised, c).answer = Found(found)
  BY <1>1 DEF SqliteCall, Reply, Number, Runs, Listed, Answer
<1>3. /\ Promise(table, p, promised, c).table = promised
      /\ SameAnswer(Found(found), Promise(table, p, promised, c).answer)
  BY DEF Promise, SameAnswer, Listed, Answer
<1>. QED  BY <1>2, <1>3, Zenon DEF Fulfils

LEMMA ExistsDoes ==
    ASSUME NEW s, NEW c, ~(s.guarded /\ MalformedId(c)), NEW p, p = "exists",
           Runs(s, "scan", "select", "id", "any")
    PROVE  Fulfils(s, p, c)
<1>. DEFINE found == {r \in promised : r.id = c.id}
<1>1. Run(promised, s.q, c) = [table |-> promised, seen |-> found, refused |-> FALSE]
  BY DEF Run, Where, Same, Runs
<1>2. /\ SqliteCall(s, promised, c).table = promised
      /\ SqliteCall(s, promised, c).answer = Counted(Cardinality(found))
  BY <1>1 DEF SqliteCall, Reply, Number, Runs, Listed, Answer
<1>3. /\ Promise(table, p, promised, c).table = promised
      /\ SameAnswer(Counted(Cardinality(found)), Promise(table, p, promised, c).answer)
  BY DEF Promise, SameAnswer, Listed, Answer
<1>. QED  BY <1>2, <1>3, Zenon DEF Fulfils

LEMMA ListDoes ==
    ASSUME NEW s, NEW c, ~(s.guarded /\ MalformedId(c)), NEW p, p \in {"list", "listOldestFirst"},
           Runs(s, "collect", "select", "owner", "any")
    PROVE  Fulfils(s, p, c)
<1>. DEFINE found == {r \in promised : r.owner = c.owner}
<1>1. Run(promised, s.q, c) = [table |-> promised, seen |-> found, refused |-> FALSE]
  BY DEF Run, Where, Same, Runs
<1>2. /\ SqliteCall(s, promised, c).table = promised
      /\ SqliteCall(s, promised, c).answer = Listed(found, TRUE)
  BY <1>1 DEF SqliteCall, Reply, Number, Runs, Listed, Answer
<1>3. /\ Promise(table, p, promised, c).table = promised
      /\ SameAnswer(Listed(found, TRUE), Promise(table, p, promised, c).answer)
  BY DEF Promise, SameAnswer, Listed, Answer
<1>. QED  BY <1>2, <1>3, Zenon DEF Fulfils

LEMMA ListLiveDoes ==
    ASSUME NEW s, NEW c, ~(s.guarded /\ MalformedId(c)), NEW p, p \in {"listLive", "listLiveOldestFirst"},
           Runs(s, "collect", "select", "owner", "live")
    PROVE  Fulfils(s, p, c)
<1>. DEFINE found == {r \in {x \in promised : x.owner = c.owner} : r.mark = 0 /\ r.exp > c.now}
<1>1. Run(promised, s.q, c) = [table |-> promised, seen |-> found, refused |-> FALSE]
  BY DEF Run, Where, Same, Runs
<1>2. /\ SqliteCall(s, promised, c).table = promised
      /\ SqliteCall(s, promised, c).answer = Listed(found, TRUE)
  BY <1>1 DEF SqliteCall, Reply, Number, Runs, Listed, Answer
<1>3. /\ Promise(table, p, promised, c).table = promised
      /\ SameAnswer(Listed(found, TRUE), Promise(table, p, promised, c).answer)
  BY DEF Promise, SameAnswer, Listed, Answer
<1>. QED  BY <1>2, <1>3, Zenon DEF Fulfils

LEMMA ListByKeyDoes ==
    ASSUME NEW s, NEW c, ~(s.guarded /\ MalformedId(c)), NEW p, p = "listByKey",
           Runs(s, "collect", "select", "key", "any"), c.key # NoArg
    PROVE  Fulfils(s, p, c)
<1>. DEFINE found == {r \in promised : r.key = c.key}
<1>1. Run(promised, s.q, c) = [table |-> promised, seen |-> found, refused |-> FALSE]
  BY DEF Run, Where, Same, Runs
<1>2. /\ SqliteCall(s, promised, c).table = promised
      /\ SqliteCall(s, promised, c).answer = Listed(found, TRUE)
  BY <1>1 DEF SqliteCall, Reply, Number, Runs, Listed, Answer
<1>3. /\ Promise(table, p, promised, c).table = promised
      /\ SameAnswer(Listed(found, TRUE), Promise(table, p, promised, c).answer)
  BY DEF Promise, SameAnswer, Listed, Answer
<1>. QED  BY <1>2, <1>3, Zenon DEF Fulfils

LEMMA ListAllDoes ==
    ASSUME NEW s, NEW c, ~(s.guarded /\ MalformedId(c)), NEW p, p = "listAll",
           Runs(s, "collect", "select", "all", "any")
    PROVE  Fulfils(s, p, c)
<1>. DEFINE found == promised
<1>1. Run(promised, s.q, c) = [table |-> promised, seen |-> found, refused |-> FALSE]
  BY DEF Run, Where, Same, Runs
<1>2. /\ SqliteCall(s, promised, c).table = promised
      /\ SqliteCall(s, promised, c).answer = Listed(found, TRUE)
  BY <1>1 DEF SqliteCall, Reply, Number, Runs, Listed, Answer
<1>3. /\ Promise(table, p, promised, c).table = promised
      /\ SameAnswer(Listed(found, TRUE), Promise(table, p, promised, c).answer)
  BY DEF Promise, SameAnswer, Listed, Answer
<1>. QED  BY <1>2, <1>3, Zenon DEF Fulfils

LEMMA CountSinceDoes ==
    ASSUME NEW s, NEW c, ~(s.guarded /\ MalformedId(c)), NEW p, p = "countSince",
           Runs(s, "scan", "select", "owner", "since")
    PROVE  Fulfils(s, p, c)
<1>. DEFINE found == {r \in {x \in promised : x.owner = c.owner} : r.born > c.born}
<1>1. Run(promised, s.q, c) = [table |-> promised, seen |-> found, refused |-> FALSE]
  BY DEF Run, Where, Same, Runs
<1>2. /\ SqliteCall(s, promised, c).table = promised
      /\ SqliteCall(s, promised, c).answer = Counted(Cardinality(found))
  BY <1>1 DEF SqliteCall, Reply, Number, Runs, Listed, Answer
<1>3. /\ Promise(table, p, promised, c).table = promised
      /\ SameAnswer(Counted(Cardinality(found)), Promise(table, p, promised, c).answer)
  BY DEF Promise, SameAnswer, Listed, Answer
<1>. QED  BY <1>2, <1>3, Zenon DEF Fulfils

LEMMA CountAllDoes ==
    ASSUME NEW s, NEW c, ~(s.guarded /\ MalformedId(c)), NEW p, p = "countAll",
           Runs(s, "scan", "select", "all", "any")
    PROVE  Fulfils(s, p, c)
<1>. DEFINE found == promised
<1>1. Run(promised, s.q, c) = [table |-> promised, seen |-> found, refused |-> FALSE]
  BY DEF Run, Where, Same, Runs
<1>2. /\ SqliteCall(s, promised, c).table = promised
      /\ SqliteCall(s, promised, c).answer = Counted(Cardinality(found))
  BY <1>1 DEF SqliteCall, Reply, Number, Runs, Listed, Answer
<1>3. /\ Promise(table, p, promised, c).table = promised
      /\ SameAnswer(Counted(Cardinality(found)), Promise(table, p, promised, c).answer)
  BY DEF Promise, SameAnswer, Listed, Answer
<1>. QED  BY <1>2, <1>3, Zenon DEF Fulfils

\* Marking rows leaves as many as there were, since each has an id.
LEMMA MarkedAlike ==
    ASSUME NEW rows, rows \subseteq promised, Tidy(table, promised), NEW i
    PROVE  Cardinality({[r EXCEPT !.mark = i] : r \in rows}) = Cardinality(rows)
<1>. DEFINE Marked == {[r EXCEPT !.mark = i] : r \in rows}
            f == [r \in rows |-> [r EXCEPT !.mark = i]]
<1>1. IsFiniteSet(rows)
  BY FS_Subset DEF Tidy
<1>2. \A r, s \in rows : f[r] = f[s] => r = s
  <2>. SUFFICES ASSUME NEW r \in rows, NEW s \in rows, f[r] = f[s]
                PROVE  r = s
    OBVIOUS
  <2>1. f[r].id = r.id /\ f[s].id = s.id
    BY DEF Tidy, Row
  <2>2. r \in promised /\ s \in promised /\ r.id = s.id
    BY <2>1
  <2>. QED  BY <2>2 DEF Tidy
<1>3. f \in Bijection(rows, Marked)
  BY <1>2 DEF Bijection, Injection, Surjection, IsInjective
<1>. QED  BY <1>1, <1>3, FS_Bijection DEF ExistsBijection

LEMMA ReplaceDoes ==
    ASSUME NEW s, NEW c, ~(s.guarded /\ MalformedId(c)), NEW p, p = "replace", Tidy(table, promised),
           Runs(s, "execRow", "row", "id", "any")
    PROVE  Fulfils(s, p, c)
<1>. DEFINE W == {r \in promised : r.id = c.id}
            new == {[r EXCEPT !.val = c.val] : r \in W}
<1>1. Where(promised, s.q, c) = W
  BY DEF Where, Same, Runs
<1>2. \A r \in W : Assigned(r, s.q.do, c) = [r EXCEPT !.val = c.val]
  BY DEF Assigned, Row, Runs, Tidy
<1>3. {Assigned(r, s.q.do, c) : r \in W} = new
  BY <1>2
<1>4. Run(promised, s.q, c) = [table |-> (promised \ W) \cup new, seen |-> new, refused |-> FALSE]
  BY <1>1, <1>3 DEF Run, Runs
<1>5. /\ SqliteCall(s, promised, c).table = (promised \ W) \cup new
      /\ SqliteCall(s, promised, c).answer = Hit(new)
  BY <1>4 DEF SqliteCall, Reply, Runs
<1>6. /\ Promise(table, p, promised, c).table = (promised \ W) \cup new
      /\ Promise(table, p, promised, c).answer = Hit(W)
  BY DEF Promise
<1>7. Hit(new) = Hit(W)
  BY DEF Hit
<1>. QED  BY <1>5, <1>6, <1>7 DEF Fulfils, SameAnswer

LEMMA UseOnceDoes ==
    ASSUME NEW s, NEW c, ~(s.guarded /\ MalformedId(c)), NEW p, p = "useOnce", Tidy(table, promised),
           Runs(s, "execRow", "mark", "id", "unmarked")
    PROVE  Fulfils(s, p, c)
<1>. DEFINE W == {r \in {x \in promised : x.id = c.id} : r.mark = 0}
            new == {[r EXCEPT !.mark = c.at] : r \in W}
<1>1. Where(promised, s.q, c) = W
  BY DEF Where, Same, Runs
<1>2. \A r \in W : Assigned(r, s.q.do, c) = [r EXCEPT !.mark = c.at]
  BY DEF Assigned, Row, Runs, Tidy
<1>3. {Assigned(r, s.q.do, c) : r \in W} = new
  BY <1>2
<1>4. Run(promised, s.q, c) = [table |-> (promised \ W) \cup new, seen |-> new, refused |-> FALSE]
  BY <1>1, <1>3 DEF Run, Runs
<1>5. /\ SqliteCall(s, promised, c).table = (promised \ W) \cup new
      /\ SqliteCall(s, promised, c).answer = Hit(new)
  BY <1>4 DEF SqliteCall, Reply, Runs
<1>6. /\ Promise(table, p, promised, c).table = (promised \ W) \cup new
      /\ Promise(table, p, promised, c).answer = Hit(W)
  BY DEF Promise
<1>7. Hit(new) = Hit(W)
  BY DEF Hit
<1>. QED  BY <1>5, <1>6, <1>7 DEF Fulfils, SameAnswer

LEMMA ExtendDoes ==
    ASSUME NEW s, NEW c, ~(s.guarded /\ MalformedId(c)), NEW p, p = "extend", Tidy(table, promised),
           Runs(s, "execRow", "exp", "id", "unmarked")
    PROVE  Fulfils(s, p, c)
<1>. DEFINE W == {r \in {x \in promised : x.id = c.id} : r.mark = 0}
            new == {[r EXCEPT !.exp = c.exp] : r \in W}
<1>1. Where(promised, s.q, c) = W
  BY DEF Where, Same, Runs
<1>2. \A r \in W : Assigned(r, s.q.do, c) = [r EXCEPT !.exp = c.exp]
  BY DEF Assigned, Row, Runs, Tidy
<1>3. {Assigned(r, s.q.do, c) : r \in W} = new
  BY <1>2
<1>4. Run(promised, s.q, c) = [table |-> (promised \ W) \cup new, seen |-> new, refused |-> FALSE]
  BY <1>1, <1>3 DEF Run, Runs
<1>5. /\ SqliteCall(s, promised, c).table = (promised \ W) \cup new
      /\ SqliteCall(s, promised, c).answer = Hit(new)
  BY <1>4 DEF SqliteCall, Reply, Runs
<1>6. /\ Promise(table, p, promised, c).table = (promised \ W) \cup new
      /\ Promise(table, p, promised, c).answer = Hit(W)
  BY DEF Promise
<1>7. Hit(new) = Hit(W)
  BY DEF Hit
<1>. QED  BY <1>5, <1>6, <1>7 DEF Fulfils, SameAnswer

LEMMA TouchDoes ==
    ASSUME NEW s, NEW c, ~(s.guarded /\ MalformedId(c)), NEW p, p = "touch", Tidy(table, promised),
           Runs(s, "execRow", "val", "id", "unmarked")
    PROVE  Fulfils(s, p, c)
<1>. DEFINE W == {r \in {x \in promised : x.id = c.id} : r.mark = 0}
            new == {[r EXCEPT !.val = c.val] : r \in W}
<1>1. Where(promised, s.q, c) = W
  BY DEF Where, Same, Runs
<1>2. \A r \in W : Assigned(r, s.q.do, c) = [r EXCEPT !.val = c.val]
  BY DEF Assigned, Row, Runs, Tidy
<1>3. {Assigned(r, s.q.do, c) : r \in W} = new
  BY <1>2
<1>4. Run(promised, s.q, c) = [table |-> (promised \ W) \cup new, seen |-> new, refused |-> FALSE]
  BY <1>1, <1>3 DEF Run, Runs
<1>5. /\ SqliteCall(s, promised, c).table = (promised \ W) \cup new
      /\ SqliteCall(s, promised, c).answer = Hit(new)
  BY <1>4 DEF SqliteCall, Reply, Runs
<1>6. /\ Promise(table, p, promised, c).table = (promised \ W) \cup new
      /\ Promise(table, p, promised, c).answer = Hit(W)
  BY DEF Promise
<1>7. Hit(new) = Hit(W)
  BY DEF Hit
<1>. QED  BY <1>5, <1>6, <1>7 DEF Fulfils, SameAnswer

LEMMA ConsumeDoes ==
    ASSUME NEW s, NEW c, ~(s.guarded /\ MalformedId(c)), NEW p, p = "consume", Tidy(table, promised),
           Runs(s, "execCount", "mark", "id", "unmarked")
    PROVE  Fulfils(s, p, c)
<1>. DEFINE W == {r \in {x \in promised : x.id = c.id} : r.mark = 0}
            new == {[r EXCEPT !.mark = c.at] : r \in W}
<1>1. Where(promised, s.q, c) = W
  BY DEF Where, Same, Runs
<1>2. \A r \in W : Assigned(r, s.q.do, c) = [r EXCEPT !.mark = c.at]
  BY DEF Assigned, Row, Runs, Tidy
<1>3. {Assigned(r, s.q.do, c) : r \in W} = new
  BY <1>2
<1>4. Run(promised, s.q, c) = [table |-> (promised \ W) \cup new, seen |-> new, refused |-> FALSE]
  BY <1>1, <1>3 DEF Run, Runs
<1>5. /\ SqliteCall(s, promised, c).table = (promised \ W) \cup new
      /\ SqliteCall(s, promised, c).answer = Counted(Cardinality(new))
  BY <1>4 DEF SqliteCall, Reply, Runs
<1>6. /\ Promise(table, p, promised, c).table = (promised \ W) \cup new
      /\ Promise(table, p, promised, c).answer = Counted(Cardinality(W))
  BY DEF Promise
<1>7. Cardinality(new) = Cardinality(W)
  BY MarkedAlike, Zenon
<1>. QED  BY <1>5, <1>6, <1>7 DEF Fulfils, SameAnswer

LEMMA RevokeAllDoes ==
    ASSUME NEW s, NEW c, ~(s.guarded /\ MalformedId(c)), NEW p, p = "revokeAll", Tidy(table, promised),
           Runs(s, "exec", "mark", "owner", "unmarked")
    PROVE  Fulfils(s, p, c)
<1>. DEFINE W == {r \in {x \in promised : x.owner = c.owner} : r.mark = 0}
            new == {[r EXCEPT !.mark = c.at] : r \in W}
<1>1. Where(promised, s.q, c) = W
  BY DEF Where, Same, Runs
<1>2. \A r \in W : Assigned(r, s.q.do, c) = [r EXCEPT !.mark = c.at]
  BY DEF Assigned, Row, Runs, Tidy
<1>3. {Assigned(r, s.q.do, c) : r \in W} = new
  BY <1>2
<1>4. Run(promised, s.q, c) = [table |-> (promised \ W) \cup new, seen |-> new, refused |-> FALSE]
  BY <1>1, <1>3 DEF Run, Runs
<1>5. /\ SqliteCall(s, promised, c).table = (promised \ W) \cup new
      /\ SqliteCall(s, promised, c).answer = Done
  BY <1>4 DEF SqliteCall, Reply, Runs
<1>6. /\ Promise(table, p, promised, c).table = (promised \ W) \cup new
      /\ Promise(table, p, promised, c).answer = Done
  BY DEF Promise
<1>. QED  BY <1>5, <1>6 DEF Fulfils, SameAnswer

LEMMA RevokeAllCountingDoes ==
    ASSUME NEW s, NEW c, ~(s.guarded /\ MalformedId(c)), NEW p, p = "revokeAllCounting", Tidy(table, promised),
           Runs(s, "execCount", "mark", "owner", "unmarked")
    PROVE  Fulfils(s, p, c)
<1>. DEFINE W == {r \in {x \in promised : x.owner = c.owner} : r.mark = 0}
            new == {[r EXCEPT !.mark = c.at] : r \in W}
<1>1. Where(promised, s.q, c) = W
  BY DEF Where, Same, Runs
<1>2. \A r \in W : Assigned(r, s.q.do, c) = [r EXCEPT !.mark = c.at]
  BY DEF Assigned, Row, Runs, Tidy
<1>3. {Assigned(r, s.q.do, c) : r \in W} = new
  BY <1>2
<1>4. Run(promised, s.q, c) = [table |-> (promised \ W) \cup new, seen |-> new, refused |-> FALSE]
  BY <1>1, <1>3 DEF Run, Runs
<1>5. /\ SqliteCall(s, promised, c).table = (promised \ W) \cup new
      /\ SqliteCall(s, promised, c).answer = Counted(Cardinality(new))
  BY <1>4 DEF SqliteCall, Reply, Runs
<1>6. /\ Promise(table, p, promised, c).table = (promised \ W) \cup new
      /\ Promise(table, p, promised, c).answer = Counted(Cardinality(W))
  BY DEF Promise
<1>7. Cardinality(new) = Cardinality(W)
  BY MarkedAlike, Zenon
<1>. QED  BY <1>5, <1>6, <1>7 DEF Fulfils, SameAnswer
LEMMA TakeDoes ==
    ASSUME NEW s, NEW c, ~(s.guarded /\ MalformedId(c)), NEW p, p = "take", Runs(s, "one", "delete", "id", "any")
    PROVE  Fulfils(s, p, c)
<1>. DEFINE gone == {r \in promised : r.id = c.id}
<1>1. Run(promised, s.q, c) = [table |-> promised \ gone, seen |-> gone, refused |-> FALSE]
  BY DEF Run, Where, Same, Runs
<1>2. /\ SqliteCall(s, promised, c).table = promised \ gone
      /\ SqliteCall(s, promised, c).answer = Found(gone)
  BY <1>1 DEF SqliteCall, Reply, Runs
<1>3. /\ Promise(table, p, promised, c).table = promised \ gone
      /\ Promise(table, p, promised, c).answer = Found(gone)
  BY DEF Promise
<1>. QED  BY <1>2, <1>3 DEF Fulfils, SameAnswer

LEMMA RemoveDoes ==
    ASSUME NEW s, NEW c, ~(s.guarded /\ MalformedId(c)), NEW p, p = "remove", Runs(s, "execRow", "delete", "id", "any")
    PROVE  Fulfils(s, p, c)
<1>. DEFINE gone == {r \in promised : r.id = c.id}
<1>1. Run(promised, s.q, c) = [table |-> promised \ gone, seen |-> gone, refused |-> FALSE]
  BY DEF Run, Where, Same, Runs
<1>2. /\ SqliteCall(s, promised, c).table = promised \ gone
      /\ SqliteCall(s, promised, c).answer = Hit(gone)
  BY <1>1 DEF SqliteCall, Reply, Runs
<1>3. /\ Promise(table, p, promised, c).table = promised \ gone
      /\ Promise(table, p, promised, c).answer = Hit(gone)
  BY DEF Promise
<1>. QED  BY <1>2, <1>3 DEF Fulfils, SameAnswer

LEMMA ForgetDoes ==
    ASSUME NEW s, NEW c, ~(s.guarded /\ MalformedId(c)), NEW p, p = "forget", Runs(s, "exec", "delete", "id", "any")
    PROVE  Fulfils(s, p, c)
<1>. DEFINE gone == {r \in promised : r.id = c.id}
<1>1. Run(promised, s.q, c) = [table |-> promised \ gone, seen |-> gone, refused |-> FALSE]
  BY DEF Run, Where, Same, Runs
<1>2. /\ SqliteCall(s, promised, c).table = promised \ gone
      /\ SqliteCall(s, promised, c).answer = Done
  BY <1>1 DEF SqliteCall, Reply, Runs
<1>3. /\ Promise(table, p, promised, c).table = promised \ gone
      /\ Promise(table, p, promised, c).answer = Done
  BY DEF Promise
<1>. QED  BY <1>2, <1>3 DEF Fulfils, SameAnswer

LEMMA ClearDoes ==
    ASSUME NEW s, NEW c, ~(s.guarded /\ MalformedId(c)), NEW p, p = "clear", Runs(s, "exec", "delete", "owner", "any")
    PROVE  Fulfils(s, p, c)
<1>. DEFINE gone == {r \in promised : r.owner = c.owner}
<1>1. Run(promised, s.q, c) = [table |-> promised \ gone, seen |-> gone, refused |-> FALSE]
  BY DEF Run, Where, Same, Runs
<1>2. /\ SqliteCall(s, promised, c).table = promised \ gone
      /\ SqliteCall(s, promised, c).answer = Done
  BY <1>1 DEF SqliteCall, Reply, Runs
<1>3. /\ Promise(table, p, promised, c).table = promised \ gone
      /\ Promise(table, p, promised, c).answer = Done
  BY DEF Promise
<1>. QED  BY <1>2, <1>3 DEF Fulfils, SameAnswer

\* A second revocation: COALESCE keeps the first instant, and where the
\* instant is not promised there is but one.
LEMMA RevokeDoes ==
    ASSUME NEW s, NEW c, ~(s.guarded /\ MalformedId(c)), NEW p, p = "revoke", Tidy(table, promised),
           \/ Runs(s, "execRow", "coalesce", "id", "any")
           \/ Runs(s, "execRow", "mark", "id", "any") /\ table \notin Stamped /\ c.at = 1
    PROVE  Fulfils(s, p, c)
<1>. DEFINE W == {r \in promised : r.id = c.id}
            U == {r \in W : r.mark = 0}
            marked == {[r EXCEPT !.mark = c.at] : r \in U}
            new == {Assigned(r, s.q.do, c) : r \in W}
<1>1. Where(promised, s.q, c) = W
  BY DEF Where, Same, Runs
<1>2. \A r \in W : Assigned(r, s.q.do, c) = IF r.mark = 0 THEN [r EXCEPT !.mark = c.at] ELSE r
  <2>. SUFFICES ASSUME NEW r \in W
                PROVE  Assigned(r, s.q.do, c) = IF r.mark = 0 THEN [r EXCEPT !.mark = c.at] ELSE r
    OBVIOUS
  <2>1. r \in Row /\ (table \notin Stamped => r.mark \in {0, 1})
    BY DEF Tidy
  <2>. QED  BY <2>1 DEF Assigned, Row, Runs
<1>3. (promised \ W) \cup new = (promised \ U) \cup marked
  BY <1>2
<1>4. Run(promised, s.q, c) = [table |-> (promised \ W) \cup new, seen |-> new, refused |-> FALSE]
  BY <1>1 DEF Run, Runs
<1>5. /\ SqliteCall(s, promised, c).table = (promised \ W) \cup new
      /\ SqliteCall(s, promised, c).answer = Hit(new)
  <2>1. s.helper = "execRow"
    BY DEF Runs
  <2>. QED  BY <1>4, <2>1 DEF SqliteCall, Reply
<1>6. /\ Promise(table, p, promised, c).table = (promised \ U) \cup marked
      /\ Promise(table, p, promised, c).answer = Hit(W)
  BY DEF Promise
<1>7. Hit(new) = Hit(W)
  BY DEF Hit
<1>. QED  BY <1>3, <1>5, <1>6, <1>7 DEF Fulfils, SameAnswer

\* RETURNING attempts: the one row's, as it is now.
LEMMA IncrementDoes ==
    ASSUME NEW s, NEW c, ~(s.guarded /\ MalformedId(c)), NEW p, p = "increment", Tidy(table, promised),
           Runs(s, "scan", "hits", "id", "any")
    PROVE  Fulfils(s, p, c)
<1>. DEFINE W == {r \in promised : r.id = c.id}
            new == {[r EXCEPT !.hits = @ + 1] : r \in W}
<1>1. Where(promised, s.q, c) = W
  BY DEF Where, Same, Runs
<1>2. \A r \in W : Assigned(r, s.q.do, c) = [r EXCEPT !.hits = @ + 1]
  BY DEF Assigned, Row, Runs, Tidy
<1>3. {Assigned(r, s.q.do, c) : r \in W} = new
  BY <1>2
<1>4. Run(promised, s.q, c) = [table |-> (promised \ W) \cup new, seen |-> new, refused |-> FALSE]
  BY <1>1, <1>3 DEF Run, Runs
<1>5. /\ SqliteCall(s, promised, c).table = (promised \ W) \cup new
      /\ SqliteCall(s, promised, c).answer = Number(s.q, new)
  BY <1>4 DEF SqliteCall, Reply, Runs
<1>6. /\ Promise(table, p, promised, c).table = (promised \ W) \cup new
      /\ Promise(table, p, promised, c).answer =
           IF W = {} THEN NotFound ELSE Counted((CHOOSE r \in W : TRUE).hits + 1)
  BY DEF Promise
<1>7. CASE W = {}
  <2>1. new = {} /\ Number(s.q, new) = NotFound
    BY <1>7 DEF Number, Runs
  <2>. QED  BY <1>5, <1>6, <1>7, <2>1 DEF Fulfils, SameAnswer
<1>8. CASE W # {}
  <2>1. PICK r \in W : TRUE
    BY <1>8
  <2>2. W = {r} /\ r \in Row
    BY <2>1 DEF Tidy
  <2>3. new = {[r EXCEPT !.hits = @ + 1]} /\ [r EXCEPT !.hits = @ + 1].hits = r.hits + 1
    BY <2>2 DEF Row
  <2>4. (CHOOSE x \in W : TRUE) = r /\ (CHOOSE x \in new : TRUE) = [r EXCEPT !.hits = @ + 1]
    BY <2>2, <2>3
  <2>5. new # {} /\ s.q.do = "hits"
    BY <2>3 DEF Runs
  <2>6. Number(s.q, new) = Counted(r.hits + 1)
    BY <2>3, <2>4, <2>5 DEF Number
  <2>. QED  BY <1>5, <1>6, <1>8, <2>4, <2>6 DEF Fulfils, SameAnswer
<1>. QED  BY <1>7, <1>8


\* The rows an INSERT is refused for are the ones that would be duplicated.
LEMMA ClashIs ==
    ASSUME NEW m, NEW s, NEW c, Meant(m, s, c), Port[table][m] = "create"
    PROVE  Clashing(promised, s.q, c) = Duplicates(table, promised, c)
<1>1. \A r \in promised : /\ table \in Hashed => r.key = r.id /\ c.key = c.id
                          /\ table \notin Hashed \cup Named => c.key = NoArg
                          /\ table \in Named \ {"members"} => c.key # NoArg
                          /\ table = "members" => ~(r.owner = c.owner /\ r.key = c.key /\ c.key # NoArg)
  BY CreatingIs, RowsAssumption DEF Meant, Tidy, Creating
<1>2. s.q.by \in IF table = "members" THEN {"pair"} ELSE IF table \in Named THEN {"key"} ELSE {"id", "key"}
  BY DEF Meant, Keeping
<1>3. CASE table = "members"
  BY <1>1, <1>2, <1>3 DEF Clashing, Duplicates, Same
<1>4. CASE table \in Named \ {"members"}
  BY <1>1, <1>2, <1>4 DEF Clashing, Duplicates, Same
<1>5. CASE table \notin Named
  BY <1>1, <1>2, <1>5 DEF Clashing, Duplicates, Same, Named
<1>. QED  BY <1>3, <1>4, <1>5

LEMMA CreateDoes ==
    ASSUME NEW m, NEW s, NEW c, Meant(m, s, c), NEW p, p = Port[table][m], p = "create"
    PROVE  Fulfils(s, p, c)
<1>. DEFINE clash == Duplicates(table, promised, c)
            rows == IF clash = {} THEN promised \cup {RowOf(c)} ELSE promised
<1>1. ~s.guarded /\ s.helper = "exec" /\ s.q.do = "insert"
  BY DEF Meant, Keeping, Guards
<1>2. Run(promised, s.q, c).table = rows /\ (Run(promised, s.q, c).refused <=> clash # {})
  BY <1>1, ClashIs DEF Run
<1>3. /\ SqliteCall(s, promised, c).table = rows
      /\ SqliteCall(s, promised, c).answer = IF clash = {} THEN Done ELSE Conflict
  BY <1>1, <1>2 DEF SqliteCall, Reply
<1>4. /\ Promise(table, p, promised, c).table = rows
      /\ Promise(table, p, promised, c).answer = IF clash = {} THEN Done ELSE Conflict
  BY DEF Promise
<1>. QED  BY <1>3, <1>4 DEF Fulfils, SameAnswer

LEMMA EnsureDoes ==
    ASSUME NEW m, NEW s, NEW c, Meant(m, s, c), NEW p, p = Port[table][m], p = "ensure"
    PROVE  Fulfils(s, p, c)
<1>. DEFINE this == {r \in promised : r.id = c.id}
            rows == IF this = {} THEN promised \cup {RowOf(c)} ELSE promised
<1>1. ~s.guarded /\ Runs(s, "exec", "insert or nothing", "id", "any")
  <2>1. Keeping(table, p, s) /\ Guards(table, p, s)
    BY DEF Meant
  <2>2. Runs(s, "exec", "insert or nothing", "id", "any")
    BY <2>1 DEF Keeping
  <2>. QED  BY <2>1, <2>2 DEF Guards
<1>2. Clashing(promised, s.q, c) = this
  BY <1>1 DEF Clashing, Runs
<1>3. Run(promised, s.q, c).table = rows /\ ~Run(promised, s.q, c).refused
  BY <1>1, <1>2 DEF Run, Runs
<1>4. /\ SqliteCall(s, promised, c).table = rows
      /\ SqliteCall(s, promised, c).answer = Done
  BY <1>1, <1>3 DEF SqliteCall, Reply, Runs
<1>5. /\ Promise(table, p, promised, c).table = rows
      /\ Promise(table, p, promised, c).answer = Done
  BY DEF Promise
<1>. QED  BY <1>4, <1>5 DEF Fulfils, SameAnswer

\* ON CONFLICT DO UPDATE leaves the created_at of the row it replaces.
LEMMA SetDoes ==
    ASSUME NEW m, NEW s, NEW c, Meant(m, s, c), NEW p, p = Port[table][m], p = "set"
    PROVE  Fulfils(s, p, c)
<1>. DEFINE this == {r \in promised : r.id = c.id}
            new == [RowOf(c) EXCEPT !.born = IF this = {} THEN @ ELSE (CHOOSE r \in this : TRUE).born]
<1>1. ~s.guarded /\ Runs(s, "exec", "upsert", "id", "any") /\ table = "pins"
  BY DEF Meant, Keeping, Guards
<1>2. Clashing(promised, s.q, c) = this
  BY <1>1 DEF Clashing, Runs
<1>3. /\ SqliteCall(s, promised, c).table = IF this = {} THEN promised \cup {RowOf(c)}
                                            ELSE (promised \ this) \cup {Assigned(r, "val", c) : r \in this}
      /\ SqliteCall(s, promised, c).answer = Done
  BY <1>1, <1>2 DEF SqliteCall, Reply, Run, Runs
<1>4. /\ Promise(table, p, promised, c).table = (promised \ this) \cup {new}
      /\ Promise(table, p, promised, c).answer = Done
  BY DEF Promise
<1>5. CASE this = {}
  <2>1. new = RowOf(c)
    BY <1>5 DEF RowOf
  <2>. QED  BY <1>3, <1>4, <1>5, <2>1 DEF Fulfils, SameAnswer
<1>6. CASE this # {}
  <2>1. PICK r \in this : TRUE
    BY <1>6
  <2>2. /\ this = {r} /\ r \in Row /\ r.id = c.id /\ r.key = NoArg
        /\ r.owner = NoArg /\ r.mark = 0 /\ r.exp = 0 /\ r.hits = 0
    BY <1>1, <2>1 DEF Meant, Tidy, Hashed, Named
  <2>3. c.key = NoArg /\ c.owner = NoArg /\ c.exp = 0
    BY <1>1, CreatingIs DEF Meant, Creating, Hashed, Named, Owned, Expiring
  <2>4. new = [RowOf(c) EXCEPT !.born = r.born]
    BY <1>6, <2>2
  <2>5. Assigned(r, "val", c) = [r EXCEPT !.val = c.val]
    BY <2>2 DEF Assigned, Row
  <2>6. [r EXCEPT !.val = c.val] = [RowOf(c) EXCEPT !.born = r.born]
    BY <2>2, <2>3 DEF RowOf, Row
  <2>7. {Assigned(x, "val", c) : x \in this} = {new}
    BY <2>2, <2>4, <2>5, <2>6
  <2>. QED  BY <1>3, <1>4, <1>6, <2>7 DEF Fulfils, SameAnswer
<1>. QED  BY <1>5, <1>6


\* A malformed id is no row's: the guard answers for the statement.
LEMMA MalformedDoes ==
    ASSUME NEW m, NEW s, NEW c, Meant(m, s, c), NEW p, p = Port[table][m], s.guarded, MalformedId(c)
    PROVE  Fulfils(s, p, c)
<1>. DEFINE this == {r \in promised : r.id = c.id}
            theirs == {r \in promised : r.owner = c.owner}
            named == {r \in promised : r.key = c.key}
<1>1. /\ SqliteCall(s, promised, c).table = promised
      /\ SqliteCall(s, promised, c).answer = Nothing(p)
  <2>1. s.otherwise = Nothing(p)
    BY DEF Meant, Guards
  <2>. QED  BY <2>1 DEF SqliteCall
<1>2. p \in (Reading \cup Changing \cup Deleting) \ Creating
  <2>1. Keeping(table, p, s) /\ Guards(table, p, s)
    BY DEF Meant
  <2>. QED  BY <2>1 DEF Keeping, Guards, Creating
<1>3. \A r \in promised : r.id # NoUuid /\ r.owner # NoUuid /\ r.key # NoUuid
  BY RowsAssumption DEF Meant, Tidy, Row
<1>4. /\ p \in ByOwner \cup ByKey \cup ByNothing => c.id = NoArg
      /\ p \notin ByKey => c.key = NoArg
      /\ p \notin ByOwner => c.owner = NoArg
  BY <1>2 DEF Meant, CallIs, IdArgs, KeyArgs, OwnerArgs
<1>5. CASE p \notin ByOwner \cup ByKey \cup ByNothing
  <2>1. this = {}
    BY <1>3, <1>4, <1>5, RowsAssumption DEF MalformedId
  <2>2. p \in {"get", "exists", "replace", "revoke", "consume", "useOnce", "extend", "touch", "increment",
               "take", "remove", "forget"}
    BY <1>2, <1>5 DEF Reading, Changing, Deleting, ByOwner, ByKey, ByNothing
  <2>3. {r \in this : r.mark = 0} = {} /\ Cardinality({}) = 0
    BY <2>1, FS_EmptySet
  <2>4. Promise(table, p, promised, c).table = promised
    BY <2>1, <2>2, <2>3, ZenonT(60) DEF Promise
  <2>5. SameAnswer(Nothing(p), Promise(table, p, promised, c).answer)
    BY <2>1, <2>2, <2>3, ZenonT(60) DEF Promise, SameAnswer, Nothing, Found, Hit
  <2>. QED  BY <1>1, <2>4, <2>5 DEF Fulfils
<1>6. CASE p \in ByOwner \ {"getByPair"}
  <2>1. theirs = {}
    BY <1>3, <1>4, <1>6, RowsAssumption DEF MalformedId, ByKey, ByOwner
  <2>2. p \in {"getNewest", "list", "listOldestFirst", "listLive", "listLiveOldestFirst", "countSince",
               "revokeAll", "revokeAllCounting", "clear"}
    BY <1>6 DEF ByOwner
  <2>3. Promise(table, p, promised, c).table = promised
    BY <2>1, <2>2, ZenonT(60) DEF Promise
  <2>4. /\ Newest(theirs) = {} /\ {r \in theirs : r.mark = 0} = {} /\ {r \in theirs : r.born > c.born} = {}
        /\ {r \in theirs : r.mark = 0 /\ r.exp > c.now} = {} /\ Cardinality({}) = 0
    BY <2>1, FS_EmptySet DEF Newest
  <2>5. /\ p = "getNewest" => Promise(table, p, promised, c).answer = Found(Newest(theirs))
        /\ p = "countSince" =>
             Promise(table, p, promised, c).answer = Counted(Cardinality({r \in theirs : r.born > c.born}))
        /\ p = "revokeAllCounting" =>
             Promise(table, p, promised, c).answer = Counted(Cardinality({r \in theirs : r.mark = 0}))
        /\ p \in {"revokeAll", "clear"} => Promise(table, p, promised, c).answer = Done
        /\ p = "list" => Promise(table, p, promised, c).answer = Listed(theirs, FALSE)
        /\ p = "listOldestFirst" => Promise(table, p, promised, c).answer = Listed(theirs, TRUE)
        /\ p = "listLive" =>
             Promise(table, p, promised, c).answer = Listed({r \in theirs : r.mark = 0 /\ r.exp > c.now}, FALSE)
        /\ p = "listLiveOldestFirst" =>
             Promise(table, p, promised, c).answer = Listed({r \in theirs : r.mark = 0 /\ r.exp > c.now}, TRUE)
    BY DEF Promise
  <2>6. ASSUME NEW a, NEW T, T = {},
              \/ p = "getNewest" /\ a = Found(T)
              \/ p \in {"countSince", "revokeAllCounting"} /\ a = Counted(0)
              \/ p \in {"revokeAll", "clear"} /\ a = Done
              \/ p \in {"list", "listLive"} /\ a = Listed(T, FALSE)
              \/ p \in {"listOldestFirst", "listLiveOldestFirst"} /\ a = Listed(T, TRUE)
        PROVE SameAnswer(Nothing(p), a)
    BY <2>6 DEF SameAnswer, Nothing, Found, Counted, Done, NotFound, Listed, Answer
  <2>. DEFINE a == Promise(table, p, promised, c).answer
  <2>8. \/ p = "getNewest" /\ a = Found({})
        \/ p \in {"countSince", "revokeAllCounting"} /\ a = Counted(0)
        \/ p \in {"revokeAll", "clear"} /\ a = Done
        \/ p \in {"list", "listLive"} /\ a = Listed({}, FALSE)
        \/ p \in {"listOldestFirst", "listLiveOldestFirst"} /\ a = Listed({}, TRUE)
    BY <2>1, <2>2, <2>4, <2>5
  <2>7. SameAnswer(Nothing(p), a)
    BY <2>6, <2>8
  <2>. QED  BY <1>1, <2>3, <2>7 DEF Fulfils
<1>7. CASE p \in ByKey
  <2>1. named \cap theirs = {} /\ (p # "getByPair" => named = {})
    BY <1>3, <1>4, <1>7, RowsAssumption DEF MalformedId, ByKey, ByOwner
  <2>2. p \in {"getByKey", "getByPair", "listByKey"}
    BY <1>7 DEF ByKey
  <2>3. Promise(table, p, promised, c).table = promised
    BY <2>1, <2>2, ZenonT(60) DEF Promise
  <2>4. SameAnswer(Nothing(p), Promise(table, p, promised, c).answer)
    BY <2>1, <2>2 DEF Promise, SameAnswer, Nothing, Found, Listed, Answer
  <2>. QED  BY <1>1, <2>3, <2>4 DEF Fulfils
<1>8. CASE p \in ByNothing
  BY <1>4, <1>8, RowsAssumption DEF MalformedId, ByNothing, ByKey, ByOwner
<1>. QED  BY <1>5, <1>6, <1>7, <1>8 DEF ByKey

\* Whatever the promise.
LEMMA MeantDoes ==
    ASSUME NEW m, NEW s, NEW c, Meant(m, s, c)
    PROVE  Fulfils(s, Port[table][m], c)
<1>. DEFINE p == Port[table][m]
<1>1. CASE s.guarded /\ MalformedId(c)
  BY <1>1, MalformedDoes
<1>2. CASE ~(s.guarded /\ MalformedId(c))
  <2>1. Keeping(table, p, s) /\ Tidy(table, promised) /\ CallIs(m, c) /\ ClockOK
    BY DEF Meant
  <2>2. table \notin Stamped => c.at = 1
    BY <2>1, ArgsAre
  <2>3. p \in {"getByKey", "getByPair", "listByKey"} => c.key # NoArg
    BY <2>1, RowsAssumption DEF CallIs, KeyArgs, Creating, ByKey, Keeping
  <2>4. CASE p \in Creating
    BY <2>4, CreateDoes, EnsureDoes, SetDoes DEF Creating
  <2>5. CASE p \in {"get", "getByKey", "getByPair", "getNewest", "exists"}
    BY <1>2, <2>1, <2>3, <2>5, GetDoes, GetByKeyDoes, GetByPairDoes, GetNewestDoes, ExistsDoes DEF Keeping
  <2>8. CASE p \in Reading \ {"get", "getByKey", "getByPair", "getNewest", "exists"}
    BY <1>2, <2>1, <2>3, <2>8, ListDoes, ListLiveDoes, ListByKeyDoes, ListAllDoes, CountSinceDoes, CountAllDoes
       DEF Keeping, Reading
  <2>9. p = "revoke" => \/ Runs(s, "execRow", "coalesce", "id", "any")
                        \/ Runs(s, "execRow", "mark", "id", "any") /\ table \notin Stamped
    BY <2>1 DEF Keeping, Runs
  <2>6. CASE p \in Changing
    BY <1>2, <2>1, <2>2, <2>6, <2>9, ReplaceDoes, RevokeDoes, UseOnceDoes, ExtendDoes, TouchDoes, ConsumeDoes,
       RevokeAllDoes, RevokeAllCountingDoes, IncrementDoes, ZenonT(60) DEF Keeping, Changing
  <2>7. CASE p \in Deleting
    BY <1>2, <2>1, <2>7, TakeDoes, RemoveDoes, ForgetDoes, ClearDoes DEF Keeping, Deleting
  <2>. QED  BY <2>1, <2>4, <2>5, <2>6, <2>7, <2>8 DEF Keeping
<1>. QED  BY <1>1, <1>2

-----------------------------------------------------------------------------
(***************************************************************************)
(* Every method of every table is made of statements that keep its promise *)
(* and, in PostgreSQL, of the ones SQLite issues.                          *)
(***************************************************************************)
KeptIn(t, promises, inSqlite, inPg, queries) ==
    \A m \in DOMAIN promises : KeptBy(t, promises[m], inSqlite[m], inPg[m], queries[m])

USE DEF Keeping, Runs, Guards, NeverMalformed, Nothing, Alike, Via, ById, Always, IfID, Exec, ExecRows, One, Scalar,
        Many, Insert, Select, Update, Delete, Named, Hashed, Single, Stamped, Expiring, Creating, Reading, Changing,
        Deleting

LEMMA UserStoreIsKept == KeptIn("users", UserStore, SqliteUsers, PgUsers, UsersSql)
<1>. DEFINE Met(m) == KeptBy("users", UserStore[m], SqliteUsers[m], PgUsers[m], UsersSql[m])
<1>1. /\ Met("CreateUser") /\ Met("GetUserByID") /\ Met("GetUserByEmail") /\ Met("UpdateUser")
  BY ZenonT(60) DEF KeptBy, UserStore, SqliteUsers, PgUsers, UsersSql
<1>. QED  BY <1>1 DEF UserStore, KeptIn

LEMMA RefreshTokenStoreIsKept ==
    KeptIn("refresh", RefreshTokenStore, SqliteRefreshTokens, PgRefreshTokens, RefreshTokensSql)
<1>. DEFINE Met(m) ==
              KeptBy("refresh", RefreshTokenStore[m], SqliteRefreshTokens[m], PgRefreshTokens[m], RefreshTokensSql[m])
<1>1. /\ Met("CreateRefreshToken") /\ Met("GetRefreshTokenByHash") /\ Met("RevokeRefreshToken")
      /\ Met("ConsumeRefreshToken") /\ Met("TouchRefreshToken") /\ Met("RevokeAllUserRefreshTokens")
      /\ Met("ListActiveRefreshTokens")
  BY ZenonT(60) DEF KeptBy, RefreshTokenStore, SqliteRefreshTokens, PgRefreshTokens, RefreshTokensSql
<1>. QED  BY <1>1 DEF RefreshTokenStore, KeptIn

LEMMA PasswordResetStoreIsKept ==
    KeptIn("reset", PasswordResetStore, SqliteResetTokens, PgResetTokens, ResetTokensSql)
<1>. DEFINE Met(m) ==
              KeptBy("reset", PasswordResetStore[m], SqliteResetTokens[m], PgResetTokens[m], ResetTokensSql[m])
<1>1. /\ Met("CreatePasswordResetToken") /\ Met("GetPasswordResetTokenByHash")
      /\ Met("MarkPasswordResetTokenUsed") /\ Met("DeleteUserPasswordResetTokens")
  BY ZenonT(60) DEF KeptBy, PasswordResetStore, SqliteResetTokens, PgResetTokens, ResetTokensSql
<1>. QED  BY <1>1 DEF PasswordResetStore, KeptIn

LEMMA EmailVerificationStoreIsKept ==
    KeptIn("verification", EmailVerificationStore, SqliteVerificationTokens, PgVerificationTokens,
           VerificationTokensSql)
<1>. DEFINE Met(m) ==
              KeptBy("verification", EmailVerificationStore[m], SqliteVerificationTokens[m],
                     PgVerificationTokens[m], VerificationTokensSql[m])
<1>1. /\ Met("CreateEmailVerificationToken") /\ Met("GetEmailVerificationTokenByHash")
      /\ Met("MarkEmailVerificationTokenUsed") /\ Met("DeleteUserEmailVerificationTokens")
  BY ZenonT(60) DEF KeptBy, EmailVerificationStore, SqliteVerificationTokens, PgVerificationTokens,
     VerificationTokensSql
<1>. QED  BY <1>1 DEF EmailVerificationStore, KeptIn

LEMMA TOTPStoreIsKept == KeptIn("totp", TOTPStore, SqliteTotp, PgTotp, TotpSql)
<1>. DEFINE Met(m) == KeptBy("totp", TOTPStore[m], SqliteTotp[m], PgTotp[m], TotpSql[m])
<1>1. /\ Met("CreateTOTPSettings") /\ Met("GetTOTPSettingsByUserID") /\ Met("UpdateTOTPSettings")
      /\ Met("DeleteTOTPSettings")
  BY ZenonT(60) DEF KeptBy, TOTPStore, SqliteTotp, PgTotp, TotpSql
<1>. QED  BY <1>1 DEF TOTPStore, KeptIn

LEMMA PendingTwoFactorStoreIsKept ==
    KeptIn("pending", PendingTwoFactorStore, SqlitePending, PgPending, PendingSql)
<1>. DEFINE Met(m) == KeptBy("pending", PendingTwoFactorStore[m], SqlitePending[m], PgPending[m], PendingSql[m])
<1>1. /\ Met("CreatePendingTwoFactorSession") /\ Met("GetPendingTwoFactorSessionByHash")
      /\ Met("DeletePendingTwoFactorSession")
  BY ZenonT(60) DEF KeptBy, PendingTwoFactorStore, SqlitePending, PgPending, PendingSql
<1>. QED  BY <1>1 DEF PendingTwoFactorStore, KeptIn

LEMMA AttemptStoreIsKept == KeptIn("attempts", AttemptStore, SqliteAttempts, PgAttempts, AttemptsSql)
<1>. DEFINE Met(m) == KeptBy("attempts", AttemptStore[m], SqliteAttempts[m], PgAttempts[m], AttemptsSql[m])
<1>1. /\ Met("RecordFailedLoginAttempt") /\ Met("CountRecentFailedLoginAttempts")
      /\ Met("ClearFailedLoginAttempts")
  BY ZenonT(60) DEF KeptBy, AttemptStore, SqliteAttempts, PgAttempts, AttemptsSql
<1>. QED  BY <1>1 DEF AttemptStore, KeptIn

LEMMA AccountLockStoreIsKept == KeptIn("locks", AccountLockStore, SqliteLocks, PgLocks, LocksSql)
<1>. DEFINE Met(m) == KeptBy("locks", AccountLockStore[m], SqliteLocks[m], PgLocks[m], LocksSql[m])
<1>1. /\ Met("LockAccount") /\ Met("IsAccountLocked") /\ Met("UnlockAccount")
  BY ZenonT(60) DEF KeptBy, AccountLockStore, SqliteLocks, PgLocks, LocksSql
<1>. QED  BY <1>1 DEF AccountLockStore, KeptIn

LEMMA AccountStoreIsKept == KeptIn("accounts", AccountStore, SqliteAccounts, PgAccounts, AccountsSql)
<1>. DEFINE Met(m) == KeptBy("accounts", AccountStore[m], SqliteAccounts[m], PgAccounts[m], AccountsSql[m])
<1>1. /\ Met("CreateAccount") /\ Met("GetAccount") /\ Met("GetAccountByProvider")
      /\ Met("ListAccountsByUser") /\ Met("UpdateAccount") /\ Met("DeleteAccount")
  BY ZenonT(60) DEF KeptBy, AccountStore, SqliteAccounts, PgAccounts, AccountsSql
<1>. QED  BY <1>1 DEF AccountStore, KeptIn

LEMMA WebAuthnCredentialStoreIsKept ==
    KeptIn("credentials", WebAuthnCredentialStore, SqliteCredentials, PgCredentials, CredentialsSql)
<1>. DEFINE Met(m) ==
              KeptBy("credentials", WebAuthnCredentialStore[m], SqliteCredentials[m], PgCredentials[m],
                     CredentialsSql[m])
<1>1. /\ Met("CreateWebAuthnCredential") /\ Met("GetWebAuthnCredential")
      /\ Met("GetWebAuthnCredentialByCredentialID") /\ Met("ListWebAuthnCredentialsByUser")
      /\ Met("UpdateWebAuthnCredential") /\ Met("DeleteWebAuthnCredential")
  BY ZenonT(60) DEF KeptBy, WebAuthnCredentialStore, SqliteCredentials, PgCredentials, CredentialsSql
<1>. QED  BY <1>1 DEF WebAuthnCredentialStore, KeptIn

LEMMA WebAuthnChallengeStoreIsKept ==
    KeptIn("challenges", WebAuthnChallengeStore, SqliteChallenges, PgChallenges, ChallengesSql)
<1>. DEFINE Met(m) ==
              KeptBy("challenges", WebAuthnChallengeStore[m], SqliteChallenges[m], PgChallenges[m], ChallengesSql[m])
<1>1. /\ Met("CreateWebAuthnChallenge") /\ Met("ConsumeWebAuthnChallenge")
  BY ZenonT(60) DEF KeptBy, WebAuthnChallengeStore, SqliteChallenges, PgChallenges, ChallengesSql
<1>. QED  BY <1>1 DEF WebAuthnChallengeStore, KeptIn

LEMMA EmailLoginStoreIsKept ==
    KeptIn("emailLogin", EmailLoginStore, SqliteEmailLogin, PgEmailLogin, EmailLoginSql)
<1>. DEFINE Met(m) ==
              KeptBy("emailLogin", EmailLoginStore[m], SqliteEmailLogin[m], PgEmailLogin[m], EmailLoginSql[m])
<1>1. /\ Met("CreateEmailLoginToken") /\ Met("GetEmailLoginTokenByHash") /\ Met("GetEmailLoginTokenByEmail")
      /\ Met("MarkEmailLoginTokenUsed") /\ Met("IncrementEmailLoginTokenAttempts")
      /\ Met("DeleteEmailLoginTokens")
  BY ZenonT(60) DEF KeptBy, EmailLoginStore, SqliteEmailLogin, PgEmailLogin, EmailLoginSql
<1>. QED  BY <1>1 DEF EmailLoginStore, KeptIn

LEMMA PersonalAccessTokenStoreIsKept == KeptIn("pats", PersonalAccessTokenStore, SqlitePats, PgPats, PatsSql)
<1>. DEFINE Met(m) == KeptBy("pats", PersonalAccessTokenStore[m], SqlitePats[m], PgPats[m], PatsSql[m])
<1>1. /\ Met("CreatePersonalAccessToken") /\ Met("GetPersonalAccessToken")
      /\ Met("GetPersonalAccessTokenByHash") /\ Met("ListPersonalAccessTokensByUser")
      /\ Met("UpdatePersonalAccessToken")
  BY ZenonT(60) DEF KeptBy, PersonalAccessTokenStore, SqlitePats, PgPats, PatsSql
<1>. QED  BY <1>1 DEF PersonalAccessTokenStore, KeptIn

LEMMA DeviceAuthorizationStoreIsKept ==
    KeptIn("devices", DeviceAuthorizationStore, SqliteDevices, PgDevices, DevicesSql)
<1>. DEFINE Met(m) ==
              KeptBy("devices", DeviceAuthorizationStore[m], SqliteDevices[m], PgDevices[m], DevicesSql[m])
<1>1. /\ Met("CreateDeviceAuthorization") /\ Met("GetDeviceAuthorizationByDeviceCodeHash")
      /\ Met("GetDeviceAuthorizationByUserCode") /\ Met("UpdateDeviceAuthorization")
      /\ Met("DeleteDeviceAuthorization")
  BY ZenonT(60) DEF KeptBy, DeviceAuthorizationStore, SqliteDevices, PgDevices, DevicesSql
<1>. QED  BY <1>1 DEF DeviceAuthorizationStore, KeptIn

LEMMA PINStoreIsKept == KeptIn("pins", PINStore, SqlitePins, PgPins, PinsSql)
<1>. DEFINE Met(m) == KeptBy("pins", PINStore[m], SqlitePins[m], PgPins[m], PinsSql[m])
<1>1. /\ Met("SetPINCredential") /\ Met("GetPINCredential") /\ Met("DeletePINCredential")
  BY ZenonT(60) DEF KeptBy, PINStore, SqlitePins, PgPins, PinsSql
<1>. QED  BY <1>1 DEF PINStore, KeptIn

LEMMA BoundDeviceStoreIsKept ==
    KeptIn("bound", BoundDeviceStore, SqliteBoundDevices, PgBoundDevices, BoundDevicesSql)
<1>. DEFINE Met(m) ==
              KeptBy("bound", BoundDeviceStore[m], SqliteBoundDevices[m], PgBoundDevices[m], BoundDevicesSql[m])
<1>1. /\ Met("CreateBoundDevice") /\ Met("GetBoundDevice") /\ Met("GetBoundDeviceByTokenHash")
      /\ Met("ListBoundDevicesByUser") /\ Met("TouchBoundDevice") /\ Met("RevokeBoundDevice")
      /\ Met("RevokeAllBoundDevices")
  BY ZenonT(60) DEF KeptBy, BoundDeviceStore, SqliteBoundDevices, PgBoundDevices, BoundDevicesSql
<1>. QED  BY <1>1 DEF BoundDeviceStore, KeptIn

LEMMA TeamStoreIsKept == KeptIn("teams", TeamStore, SqliteTeams, PgTeams, TeamsSql)
<1>. DEFINE Met(m) == KeptBy("teams", TeamStore[m], SqliteTeams[m], PgTeams[m], TeamsSql[m])
<1>1. /\ Met("CreateTeam") /\ Met("GetTeam") /\ Met("GetTeamBySlug") /\ Met("UpdateTeam")
      /\ Met("DeleteTeam")
  BY ZenonT(60) DEF KeptBy, TeamStore, SqliteTeams, PgTeams, TeamsSql
<1>. QED  BY <1>1 DEF TeamStore, KeptIn

LEMMA MemberStoreIsKept == KeptIn("members", MemberStore, SqliteMembers, PgMembers, MembersSql)
<1>. DEFINE Met(m) == KeptBy("members", MemberStore[m], SqliteMembers[m], PgMembers[m], MembersSql[m])
<1>1. /\ Met("CreateMember") /\ Met("GetMember") /\ Met("GetMemberByUserAndTeam")
      /\ Met("ListMembersByTeam") /\ Met("ListMembershipsByUser") /\ Met("UpdateMember")
      /\ Met("DeleteMember")
  BY ZenonT(60) DEF KeptBy, MemberStore, SqliteMembers, PgMembers, MembersSql
<1>. QED  BY <1>1 DEF MemberStore, KeptIn

LEMMA InvitationStoreIsKept ==
    KeptIn("invitations", InvitationStore, SqliteInvitations, PgInvitations, InvitationsSql)
<1>. DEFINE Met(m) ==
              KeptBy("invitations", InvitationStore[m], SqliteInvitations[m], PgInvitations[m], InvitationsSql[m])
<1>1. /\ Met("CreateInvitation") /\ Met("GetInvitation") /\ Met("GetInvitationByTokenHash")
      /\ Met("ListInvitationsByTeam") /\ Met("UpdateInvitation")
  BY ZenonT(60) DEF KeptBy, InvitationStore, SqliteInvitations, PgInvitations, InvitationsSql
<1>. QED  BY <1>1 DEF InvitationStore, KeptIn

LEMMA SuperuserStoreIsKept ==
    KeptIn("superusers", SuperuserStore, SqliteSuperusers, PgSuperusers, SuperusersSql)
<1>. DEFINE Met(m) ==
              KeptBy("superusers", SuperuserStore[m], SqliteSuperusers[m], PgSuperusers[m], SuperusersSql[m])
<1>1. /\ Met("CreateSuperuser") /\ Met("GetSuperuserByID") /\ Met("GetSuperuserByEmail")
      /\ Met("ListSuperusers") /\ Met("UpdateSuperuser") /\ Met("CountSuperusers")
  BY ZenonT(60) DEF KeptBy, SuperuserStore, SqliteSuperusers, PgSuperusers, SuperusersSql
<1>. QED  BY <1>1 DEF SuperuserStore, KeptIn

LEMMA SuperuserRefreshTokenStoreIsKept ==
    KeptIn("superuserRefresh", SuperuserRefreshTokenStore, SqliteSuperuserTokens, PgSuperuserTokens,
           SuperuserTokensSql)
<1>. DEFINE Met(m) ==
              KeptBy("superuserRefresh", SuperuserRefreshTokenStore[m], SqliteSuperuserTokens[m],
                     PgSuperuserTokens[m], SuperuserTokensSql[m])
<1>1. /\ Met("CreateSuperuserRefreshToken") /\ Met("GetSuperuserRefreshTokenByHash")
      /\ Met("RevokeSuperuserRefreshToken") /\ Met("ConsumeSuperuserRefreshToken")
      /\ Met("RevokeAllSuperuserRefreshTokens") /\ Met("ListActiveSuperuserRefreshTokens")
  BY ZenonT(60) DEF KeptBy, SuperuserRefreshTokenStore, SqliteSuperuserTokens, PgSuperuserTokens, SuperuserTokensSql
<1>. QED  BY <1>1 DEF SuperuserRefreshTokenStore, KeptIn

LEMMA SuperuserTOTPStoreIsKept ==
    KeptIn("superuserTotp", SuperuserTOTPStore, SqliteSuperuserTotp, PgSuperuserTotp, SuperuserTotpSql)
<1>. DEFINE Met(m) ==
              KeptBy("superuserTotp", SuperuserTOTPStore[m], SqliteSuperuserTotp[m], PgSuperuserTotp[m],
                     SuperuserTotpSql[m])
<1>1. /\ Met("CreateSuperuserTOTPSettings") /\ Met("GetSuperuserTOTPSettings")
      /\ Met("UpdateSuperuserTOTPSettings") /\ Met("DeleteSuperuserTOTPSettings")
  BY ZenonT(60) DEF KeptBy, SuperuserTOTPStore, SqliteSuperuserTotp, PgSuperuserTotp, SuperuserTotpSql, SqliteTotp
<1>. QED  BY <1>1 DEF SuperuserTOTPStore, KeptIn

LEMMA SuperuserPendingStoreIsKept ==
    KeptIn("superuserPending", SuperuserPendingStore, SqliteSuperuserPending, PgSuperuserPending, SuperuserPendingSql)
<1>. DEFINE Met(m) ==
              KeptBy("superuserPending", SuperuserPendingStore[m], SqliteSuperuserPending[m],
                     PgSuperuserPending[m], SuperuserPendingSql[m])
<1>1. /\ Met("CreateSuperuserPendingTwoFactorSession") /\ Met("GetSuperuserPendingTwoFactorSessionByHash")
      /\ Met("DeleteSuperuserPendingTwoFactorSession")
  BY ZenonT(60) DEF KeptBy, SuperuserPendingStore, SqliteSuperuserPending, PgSuperuserPending, SuperuserPendingSql,
     SqlitePending
<1>. QED  BY <1>1 DEF SuperuserPendingStore, KeptIn

HIDE DEF Keeping, Runs, Guards, NeverMalformed, Nothing, Alike, Via, ById, Always, IfID, Exec, ExecRows, One, Scalar,
         Many, Insert, Select, Update, Delete, Named, Hashed, Single, Stamped, Expiring, Creating, Reading, Changing,
         Deleting

\* No table is missing.
LEMMA AllKept == \A t \in Tables : KeptIn(t, Port[t], Sqlite[t], Pg[t], Queries[t])
<1>. DEFINE Met(t) == KeptIn(t, Port[t], Sqlite[t], Pg[t], Queries[t])
<1>1. Met("users")
  BY UserStoreIsKept DEF Port, Sqlite, Pg, Queries
<1>2. Met("refresh")
  BY RefreshTokenStoreIsKept DEF Port, Sqlite, Pg, Queries
<1>3. Met("reset")
  BY PasswordResetStoreIsKept DEF Port, Sqlite, Pg, Queries
<1>4. Met("verification")
  BY EmailVerificationStoreIsKept DEF Port, Sqlite, Pg, Queries
<1>5. Met("totp")
  BY TOTPStoreIsKept DEF Port, Sqlite, Pg, Queries
<1>6. Met("pending")
  BY PendingTwoFactorStoreIsKept DEF Port, Sqlite, Pg, Queries
<1>7. Met("attempts")
  BY AttemptStoreIsKept DEF Port, Sqlite, Pg, Queries
<1>8. Met("locks")
  BY AccountLockStoreIsKept DEF Port, Sqlite, Pg, Queries
<1>9. Met("accounts")
  BY AccountStoreIsKept DEF Port, Sqlite, Pg, Queries
<1>10. Met("credentials")
  BY WebAuthnCredentialStoreIsKept DEF Port, Sqlite, Pg, Queries
<1>11. Met("challenges")
  BY WebAuthnChallengeStoreIsKept DEF Port, Sqlite, Pg, Queries
<1>12. Met("emailLogin")
  BY EmailLoginStoreIsKept DEF Port, Sqlite, Pg, Queries
<1>13. Met("pats")
  BY PersonalAccessTokenStoreIsKept DEF Port, Sqlite, Pg, Queries
<1>14. Met("devices")
  BY DeviceAuthorizationStoreIsKept DEF Port, Sqlite, Pg, Queries
<1>15. Met("pins")
  BY PINStoreIsKept DEF Port, Sqlite, Pg, Queries
<1>16. Met("bound")
  BY BoundDeviceStoreIsKept DEF Port, Sqlite, Pg, Queries
<1>17. Met("teams")
  BY TeamStoreIsKept DEF Port, Sqlite, Pg, Queries
<1>18. Met("members")
  BY MemberStoreIsKept DEF Port, Sqlite, Pg, Queries
<1>19. Met("invitations")
  BY InvitationStoreIsKept DEF Port, Sqlite, Pg, Queries
<1>20. Met("superusers")
  BY SuperuserStoreIsKept DEF Port, Sqlite, Pg, Queries
<1>21. Met("superuserRefresh")
  BY SuperuserRefreshTokenStoreIsKept DEF Port, Sqlite, Pg, Queries
<1>22. Met("superuserTotp")
  BY SuperuserTOTPStoreIsKept DEF Port, Sqlite, Pg, Queries
<1>23. Met("superuserPending")
  BY SuperuserPendingStoreIsKept DEF Port, Sqlite, Pg, Queries
<1>24. Tables = {"users", "refresh", "reset", "verification", "totp", "pending", "attempts", "locks",
                  "accounts", "credentials", "challenges", "emailLogin", "pats", "devices", "pins", "bound",
                  "teams", "members", "invitations", "superusers", "superuserRefresh", "superuserTotp",
                  "superuserPending"}
  BY DEF Tables, Port
<1>. QED  BY <1>1, <1>2, <1>3, <1>4, <1>5, <1>6, <1>7, <1>8, <1>9, <1>10, <1>11, <1>12, <1>13, <1>14, <1>15,
            <1>16, <1>17, <1>18, <1>19, <1>20, <1>21, <1>22, <1>23, <1>24
-----------------------------------------------------------------------------
(***************************************************************************)
(* PostgreSQL does as SQLite does, and a table stays as its callers leave  *)
(* it.                                                                     *)
(***************************************************************************)
\* A malformed id does not reach PostgreSQL: it is guarded or never passed.
LEMMA PgLikeSqlite ==
    ASSUME NEW s, NEW g, NEW q, Alike(s, g, q), NEW rows, NEW c, MalformedId(c) => s.guarded
    PROVE  /\ PgCall(g, q, rows, c).table = SqliteCall(s, rows, c).table
           /\ PgCall(g, q, rows, c).answer = SqliteCall(s, rows, c).answer
<1>1. (s.guarded <=> g.guarded) /\ s.otherwise = g.otherwise /\ s.q = q.q
  BY DEF Alike
<1>. DEFINE ran == Run(rows, s.q, c)
<1>2. ASSUME ~MalformedId(c)
      PROVE  PgReply(q, g.as, ran) = Reply(s, ran)
  BY <1>1 DEF Alike, PgReply, Reply, Affected
<1>3. CASE MalformedId(c)
  BY <1>1, <1>3 DEF PgCall, SqliteCall
<1>4. CASE ~MalformedId(c)
  BY <1>1, <1>2, <1>4 DEF PgCall, SqliteCall
<1>. QED  BY <1>3, <1>4

\* What a row of a table may be.
Neat(t, r) ==
    /\ r \in Row
    /\ t \in Hashed => r.key = r.id
    /\ t \notin Hashed \cup Named => r.key = NoArg
    /\ t \notin Stamped => r.mark \in {0, 1}
    /\ t = "pins" => r.owner = NoArg /\ r.mark = 0 /\ r.exp = 0 /\ r.hits = 0

\* Rows replaced by neat ones, of ids no other row has, leave a tidy table.
LEMMA TidyPut ==
    ASSUME NEW t, NEW rows, Tidy(t, rows), NEW S \in SUBSET rows, NEW new, IsFiniteSet(new),
           \A n \in new : Neat(t, n),
           \A n, o \in new : n.id = o.id => n = o,
           \A n \in new, r \in rows \ S : n.id # r.id
    PROVE  Tidy(t, (rows \ S) \cup new)
<1>1. IsFiniteSet((rows \ S) \cup new)
  <2>1. IsFiniteSet(rows \ S)
    BY FS_Difference DEF Tidy
  <2>. QED  BY <2>1, FS_Union
<1>2. \A r \in (rows \ S) \cup new : Neat(t, r)
  BY DEF Tidy, Neat
<1>3. \A r, o \in (rows \ S) \cup new : r.id = o.id => r = o
  BY DEF Tidy
<1>. QED  BY <1>1, <1>2, <1>3 DEF Tidy, Neat

\* The same of a single new row.
LEMMA TidyAdd ==
    ASSUME NEW t, NEW rows, Tidy(t, rows), NEW S \in SUBSET rows, NEW n, Neat(t, n), \A r \in rows \ S : n.id # r.id
    PROVE  Tidy(t, (rows \ S) \cup {n})
<1>1. IsFiniteSet({n})
  BY FS_Singleton
<1>. QED  BY <1>1, TidyPut

\* An update: the new rows have the ids, keys and owners of the old.
LEMMA TidyUpdate ==
    ASSUME NEW t, NEW rows, Tidy(t, rows), NEW S \in SUBSET rows, NEW new,
           \A n \in new : n \in Row /\ \E r \in S : n.id = r.id /\ n.key = r.key /\ n.owner = r.owner,
           \A n \in new : t \notin Stamped => n.mark \in {0, 1},
           \A n \in new : t = "pins" => n.mark = 0 /\ n.exp = 0 /\ n.hits = 0,
           \A n, o \in new : n.id = o.id => n = o
    PROVE  Tidy(t, (rows \ S) \cup new)
<1>. DEFINE of == [n \in new |-> CHOOSE r \in S : n.id = r.id]
<1>1. \A n \in new : of[n] \in S /\ of[n].id = n.id
  OBVIOUS
<1>2. of \in Injection(new, S)
  BY <1>1 DEF Injection, IsInjective
<1>3. IsFiniteSet(new)
  <2>1. IsFiniteSet(S)
    BY FS_Subset DEF Tidy
  <2>. QED  BY <1>2, <2>1, FS_Injection
<1>4. \A n \in new : Neat(t, n)
  BY DEF Tidy, Neat
<1>5. \A n \in new, r \in rows \ S : n.id # r.id
  BY DEF Tidy
<1>. QED  BY <1>3, <1>4, <1>5, TidyPut

\* Deleting rows leaves a tidy table.
LEMMA TidyDelete ==
    ASSUME NEW t, NEW rows, Tidy(t, rows), NEW S
    PROVE  Tidy(t, rows \ S)
  BY FS_Difference DEF Tidy

\* Whatever is promised of a table leaves it tidy.
LEMMA TidyCreate ==
    ASSUME NEW m, NEW s, NEW c, Meant(m, s, c), NEW p, p = Port[table][m], p \in Creating
    PROVE  Tidy(table, Promise(table, p, promised, c).table)
<1>. DEFINE this == {r \in promised : r.id = c.id}
            put == [RowOf(c) EXCEPT !.born = IF this = {} THEN @ ELSE (CHOOSE r \in this : TRUE).born]
<1>. p = "set" => table = "pins"
  BY DEF Meant, Keeping
<1>1. Neat(table, RowOf(c)) /\ RowOf(c).id = c.id
  BY RowOfIs, CreatingIs DEF Neat, Meant, Hashed, Named, Owned, Expiring
<1>2. CASE p = "create"
  <2>1. CASE Duplicates(table, promised, c) = {}
    <3>1. \A r \in promised : r.id # c.id
      BY <2>1 DEF Duplicates
    <3>2. Tidy(table, (promised \ {}) \cup {RowOf(c)})
      BY <1>1, <3>1, TidyAdd DEF Meant
    <3>. QED  BY <1>2, <2>1, <3>2 DEF Promise
  <2>2. CASE Duplicates(table, promised, c) # {}
    BY <1>2, <2>2 DEF Promise, Meant
  <2>. QED  BY <2>1, <2>2
<1>3. CASE p = "ensure"
  <2>1. CASE this = {}
    <3>1. Tidy(table, (promised \ {}) \cup {RowOf(c)})
      BY <1>1, <2>1, TidyAdd DEF Meant
    <3>. QED  BY <1>3, <2>1, <3>1 DEF Promise
  <2>2. CASE this # {}
    BY <1>3, <2>2 DEF Promise, Meant
  <2>. QED  BY <2>1, <2>2
<1>4. CASE p = "set"
  <2>1. this # {} => (CHOOSE r \in this : TRUE) \in Row
    BY DEF Meant, Tidy
  <2>2. Neat(table, put) /\ put.id = c.id
    BY <1>1, <2>1 DEF Neat, Row
  <2>3. Tidy(table, (promised \ this) \cup {put})
    BY <2>2, TidyAdd DEF Meant
  <2>4. Promise(table, p, promised, c).table = (promised \ this) \cup {put}
    BY <1>4 DEF Promise
  <2>. QED  BY <2>3, <2>4
<1>. QED  BY <1>2, <1>3, <1>4 DEF Creating

\* An update, for each promise that makes one.
LEMMA TidyChange ==
    ASSUME NEW m, NEW s, NEW c, Meant(m, s, c), NEW p, p = Port[table][m], p \in Changing
    PROVE  Tidy(table, Promise(table, p, promised, c).table)
<1>. DEFINE this == {r \in promised : r.id = c.id}
            theirs == {r \in promised : r.owner = c.owner}
            after == Promise(table, p, promised, c).table
<1>1. /\ Tidy(table, promised) /\ promised \subseteq Row
      /\ c.val \in Vals \cup {NoArg} /\ c.at \in 0..MaxNow /\ c.exp \in 0..(MaxNow + 1)
      /\ table \notin Stamped => c.at = 1
      /\ p # "touch" => table # "pins"
      /\ p = "increment" => \A r \in this : r.hits < MaxHits
  <2>1. ClockOK /\ CallIs(m, c) /\ Tidy(table, promised) /\ Keeping(table, p, s)
    BY DEF Meant
  <2>2. /\ c.val \in Vals \cup {NoArg} /\ c.at \in 1..MaxNow /\ c.exp \in 0..(MaxNow + 1)
        /\ table \notin Stamped => c.at = 1
    BY <2>1, ArgsAre
  <2>3. p # "touch" => table # "pins"
    BY <2>1 DEF Keeping, Changing
  <2>4. p = "increment" => \A r \in this : r.hits < MaxHits
    <3>1. Legal(p, c)
      BY <2>1 DEF CallIs
    <3>. QED  BY <3>1 DEF Legal
  <2>. QED  BY <2>1, <2>2, <2>3, <2>4, RowsAssumption DEF Tidy
<1>2. ASSUME NEW S \in SUBSET promised, table # "pins"
      PROVE  /\ Tidy(table, (promised \ S) \cup {[r EXCEPT !.mark = c.at] : r \in S})
             /\ Tidy(table, (promised \ S) \cup {[r EXCEPT !.exp = c.exp] : r \in S})
             /\ (\A r \in S : r.hits < MaxHits) =>
                  Tidy(table, (promised \ S) \cup {[r EXCEPT !.hits = @ + 1] : r \in S})
  <2>. DEFINE marked == {[r EXCEPT !.mark = c.at] : r \in S}
              extended == {[r EXCEPT !.exp = c.exp] : r \in S}
              bumped == {[r EXCEPT !.hits = @ + 1] : r \in S}
  <2>1. Tidy(table, (promised \ S) \cup marked)
    <3>1. \A n \in marked : /\ n \in Row /\ n.mark = c.at
                            /\ \E r \in S : n.id = r.id /\ n.key = r.key /\ n.owner = r.owner
      BY <1>1, <1>2 DEF Row
    <3>2. \A n, o \in marked : n.id = o.id => n = o
      BY <1>1, <1>2 DEF Tidy, Row
    <3>. QED  BY <1>1, <1>2, <3>1, <3>2, TidyUpdate
  <2>2. Tidy(table, (promised \ S) \cup extended)
    <3>1. \A n \in extended : /\ n \in Row
                              /\ \E r \in S : n.id = r.id /\ n.key = r.key /\ n.owner = r.owner /\ n.mark = r.mark
      BY <1>1, <1>2 DEF Row
    <3>2. \A n, o \in extended : n.id = o.id => n = o
      BY <1>1, <1>2 DEF Tidy, Row
    <3>3. \A n \in extended : table \notin Stamped => n.mark \in {0, 1}
      BY <1>1, <1>2, <3>1 DEF Tidy
    <3>. QED  BY <1>1, <1>2, <3>1, <3>2, <3>3, TidyUpdate
  <2>3. ASSUME \A r \in S : r.hits < MaxHits
        PROVE  Tidy(table, (promised \ S) \cup bumped)
    <3>1. \A n \in bumped : /\ n \in Row
                            /\ \E r \in S : n.id = r.id /\ n.key = r.key /\ n.owner = r.owner /\ n.mark = r.mark
      BY <1>1, <1>2, <2>3, RowsAssumption DEF Row
    <3>2. \A n, o \in bumped : n.id = o.id => n = o
      BY <1>1, <1>2 DEF Tidy, Row
    <3>3. \A n \in bumped : table \notin Stamped => n.mark \in {0, 1}
      BY <1>1, <1>2, <3>1 DEF Tidy
    <3>. QED  BY <1>1, <1>2, <3>1, <3>2, <3>3, TidyUpdate
  <2>. QED  BY <2>1, <2>2, <2>3
<1>3. ASSUME NEW S \in SUBSET promised
      PROVE  Tidy(table, (promised \ S) \cup {[r EXCEPT !.val = c.val] : r \in S})
  <2>. DEFINE new == {[r EXCEPT !.val = c.val] : r \in S}
  <2>1. \A n \in new : /\ n \in Row
                       /\ \E r \in S : /\ n.id = r.id /\ n.key = r.key /\ n.owner = r.owner
                                       /\ n.mark = r.mark /\ n.exp = r.exp /\ n.hits = r.hits
    BY <1>1, <1>3 DEF Row
  <2>2. \A n, o \in new : n.id = o.id => n = o
    BY <1>1, <1>3 DEF Tidy, Row
  <2>3. \A n \in new : /\ table \notin Stamped => n.mark \in {0, 1}
                       /\ table = "pins" => n.mark = 0 /\ n.exp = 0 /\ n.hits = 0
    BY <1>1, <1>3, <2>1 DEF Tidy
  <2>. QED  BY <1>1, <1>3, <2>1, <2>2, <2>3, TidyUpdate, ZenonT(60)
<1>. DEFINE mine == {r \in this : r.mark = 0}
            ours == {r \in theirs : r.mark = 0}
            Filled(S) == (promised \ S) \cup {[r EXCEPT !.val = c.val] : r \in S}
            Marked(S) == (promised \ S) \cup {[r EXCEPT !.mark = c.at] : r \in S}
            Extended(S) == (promised \ S) \cup {[r EXCEPT !.exp = c.exp] : r \in S}
            Bumped(S) == (promised \ S) \cup {[r EXCEPT !.hits = @ + 1] : r \in S}
<1>4. /\ p = "replace" => after = Filled(this)
      /\ p \in {"revoke", "consume", "useOnce"} => after = Marked(mine)
      /\ p = "extend" => after = Extended(mine)
      /\ p = "touch" => after = Filled(mine)
      /\ p = "increment" => after = Bumped(this)
      /\ p \in {"revokeAll", "revokeAllCounting"} => after = Marked(ours)
  BY DEF Promise
<1>5. this \in SUBSET promised /\ mine \in SUBSET promised /\ ours \in SUBSET promised
  OBVIOUS
<1>6. /\ \A S \in SUBSET promised : Tidy(table, Filled(S))
      /\ table # "pins" => \A S \in SUBSET promised : Tidy(table, Marked(S)) /\ Tidy(table, Extended(S))
      /\ p = "increment" => Tidy(table, Bumped(this))
  <2>1. p = "increment" => table # "pins" /\ \A r \in this : r.hits < MaxHits
    BY <1>1
  <2>. QED  BY <1>2, <1>3, <1>5, <2>1
<1>7. p \in {"revoke", "consume", "useOnce", "extend", "revokeAll", "revokeAllCounting"} => table # "pins"
  BY <1>1
<1>. HIDE DEF this, mine, ours, after, Filled, Marked, Extended, Bumped
<1>. QED  BY <1>4, <1>5, <1>6, <1>7 DEF Changing, after

\* So does every promise.
LEMMA TidyStep ==
    ASSUME NEW m, NEW s, NEW c, Meant(m, s, c)
    PROVE  Tidy(table, Promise(table, Port[table][m], promised, c).table)
<1>. DEFINE p == Port[table][m]
            after == Promise(table, p, promised, c).table
<1>1. p \in Creating \cup Reading \cup Changing \cup Deleting /\ Tidy(table, promised)
  BY DEF Meant, Keeping
<1>2. CASE p \in Reading
  <2>1. after = promised
    BY <1>2, ZenonT(60) DEF Reading, Promise
  <2>. QED  BY <1>1, <2>1
<1>3. CASE p \in Deleting
  <2>1. \E S : after = promised \ S
    BY <1>3 DEF Deleting, Promise
  <2>. QED  BY <1>1, <2>1, TidyDelete
<1>. QED  BY <1>1, <1>2, <1>3, TidyCreate, TidyChange
-----------------------------------------------------------------------------
(***************************************************************************)
(* Over any sequence of calls the rows of the SQL stores are the promised  *)
(* ones, and so are their answers.                                         *)
(***************************************************************************)
SqlAsPromised ==
    /\ ClockOK /\ Tidy(table, promised)
    /\ sqlite = promised /\ postgres = promised

\* A legal call is of a method of the port, made of statements that keep it.
LEMMA CallMeant ==
    ASSUME ClockOK, Tidy(table, promised), NEW c \in Calls
    PROVE  /\ Meant(c.method, Sqlite[table][c.method], c)
           /\ Alike(Sqlite[table][c.method], Pg[table][c.method], Queries[table][c.method])
           /\ MalformedId(c) => Sqlite[table][c.method].guarded
<1>1. c.method \in DOMAIN Port[table] /\ CallIs(c.method, c)
  BY CallFacts DEF CallIs
<1>2. KeptBy(table, Port[table][c.method], Sqlite[table][c.method], Pg[table][c.method], Queries[table][c.method])
  BY <1>1, AllKept DEF ClockOK, KeptIn
<1>3. MalformedId(c) => Sqlite[table][c.method].guarded
  BY <1>1, <1>2, MalformedIs DEF KeptBy, Guards
<1>. QED  BY <1>1, <1>2, <1>3 DEF KeptBy, Meant

\* What a call does to the three tables, and what the two stores answer.
LEMMA CallDoes ==
    ASSUME SqlAsPromised, NEW c \in Calls
    PROVE  /\ InSqlite(c).table = Promised(c).table /\ SameAnswer(InSqlite(c).answer, Promised(c).answer)
           /\ InPostgres(c).table = Promised(c).table /\ SameAnswer(InPostgres(c).answer, Promised(c).answer)
           /\ Tidy(table, Promised(c).table)
<1>. DEFINE s == Sqlite[table][c.method]
            g == Pg[table][c.method]
            q == Queries[table][c.method]
<1>1. /\ ClockOK /\ Tidy(table, promised) /\ sqlite = promised /\ postgres = promised
      /\ Meant(c.method, s, c) /\ Alike(s, g, q) /\ (MalformedId(c) => s.guarded)
  BY CallMeant DEF SqlAsPromised
<1>2. Fulfils(s, Port[table][c.method], c)
  BY <1>1, MeantDoes
<1>3. InSqlite(c).table = Promised(c).table /\ SameAnswer(InSqlite(c).answer, Promised(c).answer)
  BY <1>1, <1>2 DEF Fulfils, InSqlite, Promised
<1>4. /\ PgCall(g, q, promised, c).table = SqliteCall(s, promised, c).table
      /\ PgCall(g, q, promised, c).answer = SqliteCall(s, promised, c).answer
  BY <1>1, PgLikeSqlite
<1>5. InPostgres(c).table = InSqlite(c).table /\ InPostgres(c).answer = InSqlite(c).answer
  BY <1>1, <1>4 DEF InPostgres, InSqlite
<1>6. Tidy(table, Promised(c).table)
  BY <1>1, TidyStep DEF Promised
<1>. QED  BY <1>3, <1>5, <1>6

\* Callers cannot tell equal rows apart.
LEMMA SameAgrees ==
    ASSUME NEW a, NEW b, SameAnswer(a, b)
    PROVE  Agrees(a, b)
  BY DEF SameAnswer, Agrees

\* SqlAsPromised holds in every reachable state: no sequence of calls takes
\* the rows of a SQL store from the rows the port promises.
THEOREM SqlRowsAsPromised == StoresSpec => []SqlAsPromised
<1>1. StoresInit => SqlAsPromised
  BY FS_EmptySet, RowsAssumption, StoresAssumption DEF StoresInit, SqlAsPromised, ClockOK, Tidy
<1>2. ASSUME SqlAsPromised, [StoresNext]_storesVars
      PROVE  SqlAsPromised'
  <2>1. CASE Pass
    BY <1>2, <2>1, RowsAssumption DEF Pass, SqlAsPromised, ClockOK, Tidy
  <2>2. ASSUME NEW c \in Calls, Make(c)
        PROVE  SqlAsPromised'
    <3>1. /\ promised' = Promised(c).table /\ sqlite' = promised' /\ postgres' = promised'
          /\ table' = table /\ now' = now
      BY <1>2, <2>2, CallDoes DEF Make
    <3>2. Tidy(table, Promised(c).table)
      BY <1>2, <2>2, CallDoes
    <3>. QED  BY <1>2, <3>1, <3>2 DEF SqlAsPromised, ClockOK, Tidy
  <2>3. CASE UNCHANGED storesVars
    BY <1>2, <2>3 DEF storesVars, SqlAsPromised, ClockOK, Tidy
  <2>. QED  BY <1>2, <2>1, <2>2, <2>3 DEF StoresNext
<1>. QED  BY <1>1, <1>2, PTL DEF StoresSpec

\* Whatever sequence of calls came before, the SQLite store answers every
\* legal call as its port promises: the error, the rows, the count, the order.
THEOREM SqliteIsConformant == StoresSpec => []SqliteAnswers
<1>1. SqlAsPromised => SqliteAnswers
  BY CallDoes, SameAgrees DEF SqliteAnswers
<1>. QED  BY <1>1, SqlRowsAsPromised, PTL

\* The same of the PostgreSQL store.
THEOREM PostgresIsConformant == StoresSpec => []PostgresAnswers
<1>1. SqlAsPromised => PostgresAnswers
  BY CallDoes, SameAgrees DEF PostgresAnswers
<1>. QED  BY <1>1, SqlRowsAsPromised, PTL

-----------------------------------------------------------------------------
(***************************************************************************)
(* memstore: its three maps agree with each other and hold the promised    *)
(* rows, so that it answers as promised. First the lists of ids.           *)
(***************************************************************************)
\* The tables whose rows a method looks up by key, and the ones it lists by
\* owner.
Indexed == Hashed \cup (Named \ {"members"})
Listing == Owned \ {"attempts"}

\* A list of these ids, each of them once.
ListOf(l, S) ==
    /\ l \in Seq(Ids) /\ {l[k] : k \in 1..Len(l)} = S
    /\ \A j, k \in 1..Len(l) : l[j] = l[k] => j = k

LEMMA EmptyListOf == ListOf(<<>>, {})
  BY DEF ListOf

\* The one list of no id.
LEMMA NoneListed ==
    ASSUME NEW l, ListOf(l, {})
    PROVE  Len(l) = 0
<1>1. Len(l) \in Nat /\ \A k \in 1..Len(l) : l[k] \in {}
  BY DEF ListOf
<1>2. Len(l) # 0 => 1 \in 1..Len(l)
  BY <1>1
<1>. QED  BY <1>1, <1>2

\* Appending an id the list does not hold.
LEMMA AppendedListOf ==
    ASSUME NEW l, NEW S, ListOf(l, S), NEW i \in Ids \ S
    PROVE  ListOf(Append(l, i), S \cup {i})
<1>. DEFINE n == Len(l)
            longer == Append(l, i)
<1>1. /\ longer \in Seq(Ids) /\ Len(longer) = n + 1 /\ n \in Nat
      /\ \A k \in 1..n : longer[k] = l[k] /\ l[k] \in S
      /\ longer[n + 1] = i
  BY DEF ListOf
<1>2. \A k \in 1..(n + 1) : k \in 1..n \/ k = n + 1
  BY <1>1
<1>3. {longer[k] : k \in 1..Len(longer)} = S \cup {i}
  <2>1. ASSUME NEW x \in S
        PROVE  \E k \in 1..Len(longer) : longer[k] = x
    <3>1. PICK k \in 1..n : l[k] = x
      BY DEF ListOf
    <3>. QED  BY <1>1, <3>1
  <2>2. \E k \in 1..Len(longer) : longer[k] = i
    BY <1>1
  <2>. HIDE DEF longer
  <2>3. \A k \in 1..Len(longer) : longer[k] \in S \cup {i}
    BY <1>1, <1>2
  <2>. QED  BY <2>1, <2>2, <2>3
<1>4. \A j, k \in 1..Len(longer) : longer[j] = longer[k] => j = k
  <2>. HIDE DEF longer
  <2>. QED  BY <1>1, <1>2 DEF ListOf
<1>. QED  BY <1>1, <1>3, <1>4 DEF ListOf

LEMMA JoinIs ==
    ASSUME NEW a \in Seq(Ids), NEW b \in Seq(Ids)
    PROVE  /\ a \o b \in Seq(Ids) /\ Len(a \o b) = Len(a) + Len(b)
           /\ \A k \in 1..Len(a \o b) : (a \o b)[k] = IF k <= Len(a) THEN a[k] ELSE b[k - Len(a)]
  OBVIOUS

\* Cutting an id out of a list leaves the others.
LEMMA CutListOf ==
    ASSUME NEW l, NEW S, ListOf(l, S), NEW i \in S
    PROVE  ListOf(Cut(l, i), S \ {i})
<1>. DEFINE n == Len(l)
            at == CHOOSE k \in 1..Len(l) : l[k] = i /\ \A j \in 1..(k - 1) : l[j] # i
            before == SubSeq(l, 1, at - 1)
            after == SubSeq(l, at + 1, n)
<1>1. n \in Nat /\ \A k \in 1..n : l[k] \in Ids /\ l[k] \in S
  BY DEF ListOf
<1>2. PICK p \in 1..n : l[p] = i
  BY DEF ListOf
<1>3. \A j \in 1..(p - 1) : l[j] # i
  BY <1>1, <1>2 DEF ListOf
<1>4. at \in 1..n /\ l[at] = i
  BY <1>2, <1>3
<1>5. Cut(l, i) = before \o after
  BY <1>2 DEF Cut
<1>. HIDE DEF at
<1>6. /\ before \in Seq(Ids) /\ Len(before) = at - 1
      /\ \A k \in 1..(at - 1) : before[k] = l[k]
  BY <1>1, <1>4 DEF ListOf
<1>7. /\ after \in Seq(Ids) /\ Len(after) = n - at
      /\ \A k \in 1..(n - at) : after[k] = l[at + k]
  BY <1>1, <1>4 DEF ListOf
<1>. HIDE DEF before, after
<1>. DEFINE rest == before \o after
<1>8. /\ rest \in Seq(Ids) /\ Len(rest) = n - 1
      /\ \A k \in 1..(n - 1) : rest[k] = IF k < at THEN l[k] ELSE l[k + 1]
  <2>1. /\ rest \in Seq(Ids) /\ Len(rest) = Len(before) + Len(after)
        /\ \A k \in 1..Len(rest) :
             rest[k] = IF k <= Len(before) THEN before[k] ELSE after[k - Len(before)]
    BY <1>6, <1>7, JoinIs
  <2>. HIDE DEF rest
  <2>2. Len(rest) = n - 1
    BY <1>1, <1>4, <1>6, <1>7, <2>1
  <2>3. ASSUME NEW k \in 1..(n - 1)
        PROVE  rest[k] = IF k < at THEN l[k] ELSE l[k + 1]
    <3>1. CASE k < at
      BY <1>1, <1>4, <1>6, <2>1, <2>2, <3>1
    <3>2. CASE k >= at
      <4>1. rest[k] = after[k - (at - 1)] /\ k - (at - 1) \in 1..(n - at)
        BY <1>1, <1>4, <1>6, <2>1, <2>2, <3>2
      <4>2. after[k - (at - 1)] = l[at + (k - (at - 1))]
        BY <1>7, <4>1
      <4>3. at + (k - (at - 1)) = k + 1
        BY <1>1, <1>4
      <4>. QED  BY <1>4, <3>2, <4>1, <4>2, <4>3
    <3>. QED  BY <1>1, <1>4, <3>1, <3>2
  <2>. QED  BY <2>1, <2>2, <2>3
<1>. HIDE DEF rest
<1>9. \A j, k \in 1..Len(rest) : rest[j] = rest[k] => j = k
  <2>. SUFFICES ASSUME NEW j \in 1..Len(rest), NEW k \in 1..Len(rest), rest[j] = rest[k]
                PROVE  j = k
    OBVIOUS
  <2>. DEFINE was(h) == IF h < at THEN h ELSE h + 1
  <2>1. /\ was(j) \in 1..n /\ rest[j] = l[was(j)]
        /\ was(k) \in 1..n /\ rest[k] = l[was(k)]
    BY <1>1, <1>4, <1>8
  <2>2. was(j) = was(k)
    <3>. HIDE DEF was
    <3>. QED  BY <2>1 DEF ListOf
  <2>. QED  BY <1>1, <1>4, <1>8, <2>2
<1>10. {rest[k] : k \in 1..Len(rest)} = S \ {i}
  <2>1. \A k \in 1..Len(rest) : rest[k] \in S \ {i}
    BY <1>1, <1>4, <1>8 DEF ListOf
  <2>2. ASSUME NEW x \in S \ {i}
        PROVE  \E k \in 1..Len(rest) : rest[k] = x
    <3>1. PICK k \in 1..n : l[k] = x
      BY DEF ListOf
    <3>2. CASE k < at
      BY <1>1, <1>4, <1>8, <3>1, <3>2
    <3>3. CASE k > at
      <4>1. k - 1 \in 1..Len(rest) /\ rest[k - 1] = x
        BY <1>1, <1>4, <1>8, <3>1, <3>3
      <4>. QED  BY <4>1
    <3>. QED  BY <1>1, <1>4, <3>1, <3>2, <3>3
  <2>. QED  BY <2>1, <2>2
<1>11. Cut(l, i) = rest
  BY <1>5 DEF rest
<1>12. ListOf(rest, S \ {i})
  BY <1>8, <1>9, <1>10, Zenon DEF ListOf
<1>. QED  BY <1>11, <1>12
-----------------------------------------------------------------------------
\* The maps of a table agree with each other: what the index and the lists
\* hold are the ids of the rows that have that key or owner, and no other.
Agreed(t, m) ==
    /\ DOMAIN m = {"rows", "index", "lists"} /\ DOMAIN m.lists = Listers
    /\ \A i \in DOMAIN m.rows : m.rows[i] \in Row /\ m.rows[i].id = i
    /\ t \in Indexed =>
         /\ \A i \in DOMAIN m.rows : m.rows[i].key \in DOMAIN m.index /\ m.index[m.rows[i].key] = i
         /\ \A k \in DOMAIN m.index : m.index[k] \in DOMAIN m.rows /\ m.rows[m.index[k]].key = k
    /\ t \in Listing =>
         \A o \in Owners \cup {NoUuid} : ListOf(m.lists[o], {i \in DOMAIN m.rows : m.rows[i].owner = o})
    /\ t = "members" =>
         /\ \A i \in DOMAIN m.rows : m.rows[i].key \in Keys \cup {NoArg}
         /\ \A k \in Keys \cup {NoUuid} : ListOf(m.lists[k], {i \in DOMAIN m.rows : m.rows[i].key = k})

\* They hold these rows.
Held(t, m, rows) == Agreed(t, m) /\ rows = {m.rows[i] : i \in DOMAIN m.rows}

\* The maps a method keeps are the maps the table has.
KeepsAll(t, maps) ==
    /\ "key" \in maps <=> t \in Indexed
    /\ "owner" \in maps <=> t \in Listing
    /\ "user" \in maps <=> t = "members"

LEMMA HeldRows ==
    ASSUME NEW t, NEW m, NEW rows, Held(t, m, rows)
    PROVE  /\ \A i \in DOMAIN m.rows : i \in Ids /\ m.rows[i] \in Row /\ m.rows[i] \in rows /\ m.rows[i].id = i
           /\ \A r \in rows : r \in Row /\ r.id \in DOMAIN m.rows /\ m.rows[r.id] = r
           /\ \A S : RowsOf(m, S) = {r \in rows : r.id \in S}
<1>1. \A i \in DOMAIN m.rows : i \in Ids /\ m.rows[i] \in Row /\ m.rows[i] \in rows /\ m.rows[i].id = i
  <2>1. \A i \in DOMAIN m.rows : m.rows[i] \in Row /\ m.rows[i] \in rows /\ m.rows[i].id = i
    BY DEF Held, Agreed
  <2>. QED  BY <2>1 DEF Row
<1>2. \A r \in rows : r \in Row /\ r.id \in DOMAIN m.rows /\ m.rows[r.id] = r
  BY <1>1 DEF Held
<1>3. ASSUME NEW S
      PROVE  RowsOf(m, S) = {r \in rows : r.id \in S}
  BY <1>1, <1>2 DEF RowsOf
<1>. QED  BY <1>1, <1>2, <1>3

\* A new row, appended to the lists and put in the index.
LEMMA StoredHeld ==
    ASSUME NEW t, NEW m, NEW rows, Held(t, m, rows), NEW maps, KeepsAll(t, maps),
           NEW r \in Row, r.id \notin DOMAIN m.rows, t \in Indexed => r.key \notin DOMAIN m.index,
           t \in Listing => r.owner \in Owners, t = "members" => r.key \in Keys \cup {NoArg}
    PROVE  Held(t, Stored(m, r, maps), rows \cup {r})
<1>. DEFINE after == Stored(m, r, maps)
<1>1. /\ DOMAIN after = {"rows", "index", "lists"} /\ DOMAIN after.lists = Listers
      /\ DOMAIN after.rows = DOMAIN m.rows \cup {r.id} /\ after.rows[r.id] = r
      /\ \A i \in DOMAIN m.rows : after.rows[i] = m.rows[i]
  BY DEF Stored, Bind, Appended
<1>2. t \in Indexed => /\ DOMAIN after.index = DOMAIN m.index \cup {r.key} /\ after.index[r.key] = r.id
                       /\ \A k \in DOMAIN m.index : after.index[k] = m.index[k]
  BY DEF Stored, Bind, KeepsAll
<1>3. \A o \in Listers : after.lists[o] = IF \/ t \in Listing /\ o = r.owner
                                             \/ t = "members" /\ o = r.key
                                            THEN Append(m.lists[o], r.id) ELSE m.lists[o]
  BY DEF Stored, Appended, ListKey, KeepsAll
<1>. HIDE DEF after
<1>4. \A i \in DOMAIN after.rows : after.rows[i] \in Row /\ after.rows[i].id = i
  BY <1>1, HeldRows
<1>5. ASSUME t \in Indexed
      PROVE  /\ \A i \in DOMAIN after.rows : after.rows[i].key \in DOMAIN after.index /\ after.index[after.rows[i].key] = i
             /\ \A k \in DOMAIN after.index : after.index[k] \in DOMAIN after.rows /\ after.rows[after.index[k]].key = k
  <2>1. /\ \A i \in DOMAIN m.rows : m.rows[i].key \in DOMAIN m.index /\ m.index[m.rows[i].key] = i
        /\ \A k \in DOMAIN m.index : m.index[k] \in DOMAIN m.rows /\ m.rows[m.index[k]].key = k
    BY <1>5 DEF Held, Agreed
  <2>. QED  BY <1>1, <1>2, <1>5, <2>1
<1>6. r.id \in Ids
  BY DEF Row
<1>7. ASSUME t \in Listing, NEW o \in Owners \cup {NoUuid}
      PROVE  ListOf(after.lists[o], {i \in DOMAIN after.rows : after.rows[i].owner = o})
  <2>. DEFINE theirs == {i \in DOMAIN m.rows : m.rows[i].owner = o}
  <2>1. ListOf(m.lists[o], theirs)
    BY <1>7 DEF Held, Agreed
  <2>2. o \in Listers /\ (t = "members" => o # r.key)
    BY <1>7, RowsAssumption, MemStoreAssumption DEF Listers
  <2>3. CASE o = r.owner
    <3>1. {i \in DOMAIN after.rows : after.rows[i].owner = o} = theirs \cup {r.id}
      BY <1>1, <2>3
    <3>2. after.lists[o] = Append(m.lists[o], r.id)
      BY <1>3, <1>7, <2>2, <2>3
    <3>. QED  BY <1>6, <2>1, <3>1, <3>2, AppendedListOf
  <2>4. CASE o # r.owner
    <3>1. {i \in DOMAIN after.rows : after.rows[i].owner = o} = theirs
      BY <1>1, <2>4
    <3>2. after.lists[o] = m.lists[o]
      BY <1>3, <2>2, <2>4
    <3>. QED  BY <2>1, <3>1, <3>2
  <2>. QED  BY <2>3, <2>4
<1>8. ASSUME t = "members", NEW k \in Keys \cup {NoUuid}
      PROVE  ListOf(after.lists[k], {i \in DOMAIN after.rows : after.rows[i].key = k})
  <2>. DEFINE named == {i \in DOMAIN m.rows : m.rows[i].key = k}
  <2>1. ListOf(m.lists[k], named)
    BY <1>8 DEF Held, Agreed
  <2>2. k \in Listers /\ (t \in Listing => k # r.owner)
    BY <1>8, RowsAssumption, MemStoreAssumption DEF Listers
  <2>3. CASE k = r.key
    <3>1. {i \in DOMAIN after.rows : after.rows[i].key = k} = named \cup {r.id}
      BY <1>1, <2>3
    <3>2. after.lists[k] = Append(m.lists[k], r.id)
      BY <1>3, <1>8, <2>2, <2>3
    <3>. QED  BY <1>6, <2>1, <3>1, <3>2, AppendedListOf
  <2>4. CASE k # r.key
    <3>1. {i \in DOMAIN after.rows : after.rows[i].key = k} = named
      BY <1>1, <2>4
    <3>2. after.lists[k] = m.lists[k]
      BY <1>3, <2>2, <2>4
    <3>. QED  BY <2>1, <3>1, <3>2
  <2>. QED  BY <2>3, <2>4
<1>9. t = "members" => \A i \in DOMAIN after.rows : after.rows[i].key \in Keys \cup {NoArg}
  BY <1>1 DEF Held, Agreed
<1>10. Agreed(t, after)
  BY <1>1, <1>4, <1>5, <1>7, <1>8, <1>9 DEF Agreed
<1>11. rows \cup {r} = {after.rows[i] : i \in DOMAIN after.rows}
  BY <1>1 DEF Held
<1>. QED  BY <1>10, <1>11 DEF Held, after

\* A row taken out of the map, the index and the lists.
LEMMA DroppedHeld ==
    ASSUME NEW t, NEW m, NEW rows, Held(t, m, rows), NEW maps, KeepsAll(t, maps), NEW r \in rows
    PROVE  Held(t, Dropped(m, r, maps), rows \ {r})
<1>. DEFINE after == Dropped(m, r, maps)
<1>1. /\ DOMAIN after = {"rows", "index", "lists"} /\ DOMAIN after.lists = Listers
      /\ DOMAIN after.rows = DOMAIN m.rows \ {r.id}
      /\ \A i \in DOMAIN after.rows : after.rows[i] = m.rows[i]
  BY DEF Dropped, Unbind, Removed
<1>2. t \in Indexed => /\ DOMAIN after.index = DOMAIN m.index \ {r.key}
                       /\ \A k \in DOMAIN after.index : after.index[k] = m.index[k]
  BY DEF Dropped, Unbind, KeepsAll
<1>3. \A o \in Listers : after.lists[o] = IF \/ t \in Listing /\ o = r.owner
                                             \/ t = "members" /\ o = r.key
                                            THEN Cut(m.lists[o], r.id) ELSE m.lists[o]
  BY DEF Dropped, Removed, ListKey, KeepsAll
<1>. HIDE DEF after
<1>4. \A i \in DOMAIN after.rows : after.rows[i] \in Row /\ after.rows[i].id = i
  BY <1>1, HeldRows
<1>5. /\ r \in Row /\ r.id \in DOMAIN m.rows /\ m.rows[r.id] = r
      /\ r.owner \in Owners \cup {NoArg} /\ (t = "members" => r.key \in Keys \cup {NoArg})
  <2>1. r \in Row /\ r.id \in DOMAIN m.rows /\ m.rows[r.id] = r
    BY HeldRows
  <2>2. t = "members" => m.rows[r.id].key \in Keys \cup {NoArg}
    BY <2>1 DEF Held, Agreed
  <2>. QED  BY <2>1, <2>2 DEF Row
<1>6. ASSUME t \in Indexed
      PROVE  /\ \A i \in DOMAIN after.rows : after.rows[i].key \in DOMAIN after.index /\ after.index[after.rows[i].key] = i
             /\ \A k \in DOMAIN after.index : after.index[k] \in DOMAIN after.rows /\ after.rows[after.index[k]].key = k
  <2>1. /\ \A i \in DOMAIN m.rows : m.rows[i].key \in DOMAIN m.index /\ m.index[m.rows[i].key] = i
        /\ \A k \in DOMAIN m.index : m.index[k] \in DOMAIN m.rows /\ m.rows[m.index[k]].key = k
    BY <1>6 DEF Held, Agreed
  <2>. QED  BY <1>1, <1>2, <1>5, <1>6, <2>1
<1>7. ASSUME t \in Listing, NEW o \in Owners \cup {NoUuid}
      PROVE  ListOf(after.lists[o], {i \in DOMAIN after.rows : after.rows[i].owner = o})
  <2>. DEFINE theirs == {i \in DOMAIN m.rows : m.rows[i].owner = o}
  <2>1. ListOf(m.lists[o], theirs)
    BY <1>7 DEF Held, Agreed
  <2>2. CASE o = r.owner
    <3>1. {i \in DOMAIN after.rows : after.rows[i].owner = o} = theirs \ {r.id} /\ r.id \in theirs
      BY <1>1, <1>5, <2>2
    <3>2. after.lists[o] = Cut(m.lists[o], r.id)
      BY <1>3, <1>7, <2>2 DEF Listers
    <3>. QED  BY <2>1, <3>1, <3>2, CutListOf
  <2>3. CASE o # r.owner /\ ~(t = "members" /\ o = r.key)
    <3>1. {i \in DOMAIN after.rows : after.rows[i].owner = o} = theirs
      BY <1>1, <1>5, <2>3
    <3>2. after.lists[o] = m.lists[o]
      BY <1>3, <2>3 DEF Listers
    <3>. QED  BY <2>1, <3>1, <3>2
  <2>. QED  BY <1>5, <2>2, <2>3, RowsAssumption, MemStoreAssumption
<1>8. ASSUME t = "members", NEW k \in Keys \cup {NoUuid}
      PROVE  ListOf(after.lists[k], {i \in DOMAIN after.rows : after.rows[i].key = k})
  <2>. DEFINE named == {i \in DOMAIN m.rows : m.rows[i].key = k}
  <2>1. ListOf(m.lists[k], named)
    BY <1>8 DEF Held, Agreed
  <2>2. CASE k = r.key
    <3>1. {i \in DOMAIN after.rows : after.rows[i].key = k} = named \ {r.id} /\ r.id \in named
      BY <1>1, <1>5, <2>2
    <3>2. after.lists[k] = Cut(m.lists[k], r.id)
      BY <1>3, <1>8, <2>2 DEF Listers
    <3>. QED  BY <2>1, <3>1, <3>2, CutListOf
  <2>3. CASE k # r.key
    <3>1. {i \in DOMAIN after.rows : after.rows[i].key = k} = named
      BY <1>1, <1>5, <2>3
    <3>2. after.lists[k] = m.lists[k]
      BY <1>3, <1>5, <1>8, <2>3, RowsAssumption, MemStoreAssumption DEF Listers
    <3>. QED  BY <2>1, <3>1, <3>2
  <2>. QED  BY <2>2, <2>3
<1>9. t = "members" => \A i \in DOMAIN after.rows : after.rows[i].key \in Keys \cup {NoArg}
  BY <1>1 DEF Held, Agreed
<1>10. Agreed(t, after)
  BY <1>1, <1>4, <1>6, <1>7, <1>8, <1>9 DEF Agreed
<1>11. rows \ {r} = {after.rows[i] : i \in DOMAIN after.rows}
  <2>1. \A i \in DOMAIN m.rows : i # r.id <=> m.rows[i] # r
    BY <1>5, HeldRows
  <2>. QED  BY <1>1, <2>1 DEF Held
<1>. QED  BY <1>10, <1>11 DEF Held, after

\* Rows edited in place: their ids, keys and owners are as they were.
LEMMA EditedAgrees ==
    ASSUME NEW t, NEW m, Agreed(t, m), NEW after, DOMAIN after = {"rows", "index", "lists"}, after.lists = m.lists,
           DOMAIN after.rows = DOMAIN m.rows,
           \A i \in DOMAIN m.rows : /\ after.rows[i] \in Row /\ after.rows[i].id = i
                                    /\ after.rows[i].key = m.rows[i].key /\ after.rows[i].owner = m.rows[i].owner,
           t \in Indexed => /\ DOMAIN after.index = DOMAIN m.index
                            /\ \A k \in DOMAIN m.index : after.index[k] = m.index[k]
    PROVE  Agreed(t, after)
<1>1. /\ DOMAIN after.lists = Listers
      /\ \A i \in DOMAIN after.rows : after.rows[i] \in Row /\ after.rows[i].id = i
  BY DEF Agreed
<1>2. t \in Indexed =>
        /\ \A i \in DOMAIN after.rows : after.rows[i].key \in DOMAIN after.index /\ after.index[after.rows[i].key] = i
        /\ \A k \in DOMAIN after.index : after.index[k] \in DOMAIN after.rows /\ after.rows[after.index[k]].key = k
  BY DEF Agreed
<1>3. /\ \A o : {i \in DOMAIN after.rows : after.rows[i].owner = o} = {i \in DOMAIN m.rows : m.rows[i].owner = o}
      /\ \A k : {i \in DOMAIN after.rows : after.rows[i].key = k} = {i \in DOMAIN m.rows : m.rows[i].key = k}
  OBVIOUS
<1>4. t \in Listing =>
        \A o \in Owners \cup {NoUuid} : ListOf(after.lists[o], {i \in DOMAIN after.rows : after.rows[i].owner = o})
  BY <1>3 DEF Agreed
<1>5. t = "members" =>
        /\ \A i \in DOMAIN after.rows : after.rows[i].key \in Keys \cup {NoArg}
        /\ \A k \in Keys \cup {NoUuid} : ListOf(after.lists[k], {i \in DOMAIN after.rows : after.rows[i].key = k})
  BY <1>3 DEF Agreed
<1>. QED  BY <1>1, <1>2, <1>4, <1>5 DEF Agreed

\* One row put in place of another of its id, or of none, where only ids are
\* looked up.
LEMMA PutHeld ==
    ASSUME NEW t, t \notin Indexed \cup Listing, t # "members", NEW m, NEW rows, Held(t, m, rows), NEW r \in Row
    PROVE  Held(t, Stored(m, r, {}), {x \in rows : x.id # r.id} \cup {r})
<1>. DEFINE after == Stored(m, r, {})
<1>1. /\ DOMAIN after = {"rows", "index", "lists"} /\ DOMAIN after.lists = Listers
      /\ DOMAIN after.rows = DOMAIN m.rows \cup {r.id} /\ after.rows[r.id] = r
      /\ \A i \in DOMAIN m.rows : i # r.id => after.rows[i] = m.rows[i]
  BY DEF Stored, Bind, Appended
<1>. HIDE DEF after
<1>2. Agreed(t, after)
  BY <1>1, HeldRows DEF Agreed
<1>3. {x \in rows : x.id # r.id} \cup {r} = {after.rows[i] : i \in DOMAIN after.rows}
  BY <1>1, HeldRows
<1>. QED  BY <1>2, <1>3 DEF Held, after

\* The rows of an owner taken out, with their index entries and their list.
LEMMA ClearedHeld ==
    ASSUME NEW t, t \in Indexed, t \in Listing, t # "members", NEW m, NEW rows, Held(t, m, rows),
           NEW c, c.owner \in Owners \cup {NoUuid}
    PROVE  Held(t, MemClear(m, c).table, {r \in rows : r.owner # c.owner})
<1>. DEFINE theirs == {i \in DOMAIN m.rows : m.rows[i].owner = c.owner}
            those == RowsOf(m, ListIds(m, "owner", c))
            after == MemClear(m, c).table
<1>1. ListIds(m, "owner", c) = theirs
  BY DEF Held, Agreed, ListOf, ListIds
<1>2. those = {r \in rows : r.owner = c.owner}
  BY <1>1, HeldRows
<1>3. {r.id : r \in those} = theirs
  BY <1>2, HeldRows
<1>4. after = [rows |-> Unbind(m.rows, {r.id : r \in those}), index |-> Unbind(m.index, {r.key : r \in those}),
               lists |-> [m.lists EXCEPT ![c.owner] = <<>>]]
  BY DEF MemClear
<1>5. DOMAIN m.lists = Listers /\ c.owner \in Listers
  BY DEF Held, Agreed, Listers
<1>6. /\ DOMAIN after = {"rows", "index", "lists"} /\ DOMAIN after.lists = Listers
      /\ DOMAIN after.rows = DOMAIN m.rows \ theirs
      /\ \A i \in DOMAIN after.rows : after.rows[i] = m.rows[i]
      /\ DOMAIN after.index = DOMAIN m.index \ {r.key : r \in those}
      /\ \A k \in DOMAIN after.index : after.index[k] = m.index[k]
      /\ \A o \in Listers : after.lists[o] = IF o = c.owner THEN <<>> ELSE m.lists[o]
  BY <1>3, <1>4, <1>5 DEF Unbind
<1>. HIDE DEF after, those
<1>7. /\ \A i \in DOMAIN m.rows : m.rows[i].key \in DOMAIN m.index /\ m.index[m.rows[i].key] = i
      /\ \A k \in DOMAIN m.index : m.index[k] \in DOMAIN m.rows /\ m.rows[m.index[k]].key = k
  BY DEF Held, Agreed
<1>8. \A i \in DOMAIN m.rows : i \in theirs <=> m.rows[i].key \in {r.key : r \in those}
  <2>1. ASSUME NEW i \in DOMAIN m.rows, m.rows[i].key \in {r.key : r \in those}
        PROVE  i \in theirs
    <3>1. PICK r \in those : r.key = m.rows[i].key
      BY <2>1
    <3>2. r.id \in DOMAIN m.rows /\ m.rows[r.id] = r /\ r.owner = c.owner
      BY <1>2, HeldRows
    <3>3. r.id = i
      BY <1>7, <3>1, <3>2
    <3>. QED  BY <3>2, <3>3
  <2>2. ASSUME NEW i \in theirs
        PROVE  m.rows[i] \in those
    BY <1>2, HeldRows
  <2>. QED  BY <2>1, <2>2
<1>9. /\ \A i \in DOMAIN after.rows : after.rows[i].key \in DOMAIN after.index /\ after.index[after.rows[i].key] = i
      /\ \A k \in DOMAIN after.index : after.index[k] \in DOMAIN after.rows /\ after.rows[after.index[k]].key = k
  BY <1>6, <1>7, <1>8
<1>10. ASSUME NEW o \in Owners \cup {NoUuid}
       PROVE  ListOf(after.lists[o], {i \in DOMAIN after.rows : after.rows[i].owner = o})
  <2>1. o \in Listers
    BY DEF Listers
  <2>2. CASE o = c.owner
    <3>1. {i \in DOMAIN after.rows : after.rows[i].owner = o} = {}
      BY <1>6, <2>2
    <3>. QED  BY <1>6, <2>1, <2>2, <3>1, EmptyListOf
  <2>3. CASE o # c.owner
    <3>1. {i \in DOMAIN after.rows : after.rows[i].owner = o} = {i \in DOMAIN m.rows : m.rows[i].owner = o}
      BY <1>6, <2>3
    <3>2. ListOf(m.lists[o], {i \in DOMAIN m.rows : m.rows[i].owner = o})
      BY DEF Held, Agreed
    <3>. QED  BY <1>6, <2>1, <2>3, <3>1, <3>2
  <2>. QED  BY <2>2, <2>3
<1>11. \A i \in DOMAIN after.rows : after.rows[i] \in Row /\ after.rows[i].id = i
  BY <1>6, HeldRows
<1>12. Agreed(t, after)
  BY <1>6, <1>9, <1>10, <1>11 DEF Agreed
<1>13. {r \in rows : r.owner # c.owner} = {after.rows[i] : i \in DOMAIN after.rows}
  BY <1>6, HeldRows
<1>. QED  BY <1>12, <1>13 DEF Held, after

\* Rows taken out of a table that only ids are looked up in.
LEMMA SweptHeld ==
    ASSUME NEW t, t \notin Indexed \cup Listing, t # "members", NEW m, NEW rows, Held(t, m, rows), NEW S \in SUBSET rows
    PROVE  Held(t, [m EXCEPT !.rows = Unbind(@, {r.id : r \in S})], rows \ S)
<1>. DEFINE after == [m EXCEPT !.rows = Unbind(@, {r.id : r \in S})]
<1>1. DOMAIN m = {"rows", "index", "lists"} /\ DOMAIN m.lists = Listers
  BY DEF Held, Agreed
<1>2. /\ DOMAIN after = {"rows", "index", "lists"} /\ after.lists = m.lists
      /\ DOMAIN after.rows = DOMAIN m.rows \ {r.id : r \in S}
      /\ \A i \in DOMAIN after.rows : after.rows[i] = m.rows[i]
  BY <1>1 DEF Unbind
<1>. HIDE DEF after
<1>3. \A i \in DOMAIN after.rows : after.rows[i] \in Row /\ after.rows[i].id = i
  BY <1>2, HeldRows
<1>4. Agreed(t, after)
  BY <1>1, <1>2, <1>3 DEF Agreed
<1>5. rows \ S = {after.rows[i] : i \in DOMAIN after.rows}
  <2>1. \A i \in DOMAIN m.rows : i \in {r.id : r \in S} <=> m.rows[i] \in S
    BY HeldRows
  <2>. QED  BY <1>2, <2>1, HeldRows
<1>. QED  BY <1>4, <1>5 DEF Held, after
-----------------------------------------------------------------------------
\* What is so of the in-memory store and the promised rows after any calls.
\* An id of its own names one row ever, so that a new row is of a new id; no
\* two rows of an owner are as old; a lock says no more than whose it is.
MemoryAsPromised ==
    /\ Held(table, memory, promised)
    /\ table \notin Single => \A r \in promised : r.id \in made
    /\ table \in Dated \ Single => \A r, s \in promised : r.owner = s.owner /\ r.born = s.born => r = s
    /\ table = "locks" =>
         \A r \in promised : r.key = NoArg /\ r.owner = NoArg /\ r.val = NoArg /\ r.mark = 0 /\ r.exp = 0
                             /\ r.hits = 0 /\ r.born = 0

\* The promises of an order, or of the row that comes last in it.
ByAge == {"getNewest", "listOldestFirst", "listLiveOldestFirst"}

\* A method edits the row of an id: a column of it, or all of it.
EditsTo(t, w, set, reply) == w.do = "edit" /\ w.set = set /\ w.reply = reply /\ ("key" \in w.maps => t \in Indexed)

\* The methods that keep a promise, in the tables where they do.
MemKeeping(t, p, w) ==
    /\ p \in Creating \cup Reading \cup Changing \cup Deleting
    /\ t = "locks" => p \in {"ensure", "exists", "forget"}
    /\ p = "create" =>
         /\ w.do = "create" /\ KeepsAll(t, w.maps) /\ (t \in Single => "id" \in w.check)
         /\ "key" \in w.check <=> t \in Named \ {"members"}
    /\ p = "set" => t = "pins" /\ w.do = "put" /\ w.set = "val"
    /\ p = "ensure" => t = "locks" /\ w.do = "put" /\ w.set = "row"
    /\ p = "get" => w.do = "get" /\ w.maps = {"id"}
    /\ p = "getByKey" => t \in Indexed /\ w.do = "get" /\ w.maps = {"key"}
    /\ p = "getByPair" => t = "members" /\ w.do = "pair"
    /\ p = "getNewest" => t \in Listing /\ t \in Dated \ Single /\ w.do = "newest"
    /\ p = "exists" => w.do = "exists"
    /\ p \in {"list", "listOldestFirst"} =>
         t \in Listing /\ w.do = "list" /\ w.maps = {"owner"} /\ "live" \notin w.check
    /\ p \in {"listLive", "listLiveOldestFirst"} =>
         t \in Listing /\ w.do = "list" /\ w.maps = {"owner"} /\ "live" \in w.check
    /\ p = "listByKey" => t = "members" /\ w.do = "list" /\ w.maps = {"user"} /\ "live" \notin w.check
    /\ p = "listAll" => w.do = "everything"
    /\ p = "countSince" => w.do = "recent"
    /\ p = "countAll" => w.do = "count"
    /\ p = "replace" => EditsTo(t, w, "row", "error") /\ "unmarked" \notin w.check
    /\ p = "revoke" =>
         /\ EditsTo(t, w, "coalesce", "error") \/ (t \notin Stamped /\ EditsTo(t, w, "mark", "error"))
         /\ "unmarked" \notin w.check
    /\ p = "consume" => EditsTo(t, w, "mark", "number") /\ "unmarked" \in w.check
    /\ p = "useOnce" => EditsTo(t, w, "mark", "error") /\ "unmarked" \in w.check
    /\ p = "extend" => EditsTo(t, w, "exp", "error") /\ "unmarked" \in w.check
    /\ p = "touch" => EditsTo(t, w, "val", "error") /\ "unmarked" \in w.check
    /\ p = "increment" => EditsTo(t, w, "hits", "number") /\ "unmarked" \notin w.check
    /\ p = "revokeAll" => t \in Listing /\ w.do = "mark all" /\ w.reply # "number"
    /\ p = "revokeAllCounting" => t \in Listing /\ w.do = "mark all" /\ w.reply = "number"
    /\ p = "take" => t \notin Indexed \cup Listing \cup {"members"} /\ w.do = "take"
    /\ p = "remove" => w.do = "delete" /\ KeepsAll(t, w.maps) /\ w.reply = "error"
    /\ p = "forget" => w.do = "delete" /\ KeepsAll(t, w.maps) /\ w.reply # "error"
    /\ p = "clear" => \/ t \in (Indexed \cap Listing) \ {"members"} /\ w.do = "clear"
                      \/ t \notin Indexed \cup Listing \cup {"members"} /\ w.do = "sweep"

\* The call of the method w leaves the promised rows, and answers as promised
\* where the order rows were created in is that of their ages or is not asked.
MemFulfils(w, p, c) ==
    LET does == MemCall(w, memory, c)
        promise == Promise(table, p, promised, c)
    IN /\ Held(table, does.table, promise.table)
       /\ (p \in ByAge => InOrder) => SameAnswer(does.answer, promise.answer)

MemMeant(m, w, c) ==
    /\ ClockOK /\ Tidy(table, promised) /\ CallIs(m, c) /\ MemoryAsPromised /\ MemKeeping(table, Port[table][m], w)

\* A call that reads leaves the maps as they are.
LEMMA ReadsHeld ==
    ASSUME Held(table, memory, promised), NEW w, NEW c, NEW p, p \in Reading,
           NEW answer, MemCall(w, memory, c) = Keeps(memory, answer),
           (p \in ByAge => InOrder) => SameAnswer(answer, Promise(table, p, promised, c).answer)
    PROVE  MemFulfils(w, p, c)
<1>1. Promise(table, p, promised, c).table = promised
  BY ZenonT(60) DEF Reading, Promise
<1>2. /\ MemCall(w, memory, c).table = memory
      /\ MemCall(w, memory, c).answer = answer
  BY DEF Keeps
<1>. QED  BY <1>1, <1>2 DEF MemFulfils

LEMMA MemGetDoes ==
    ASSUME Held(table, memory, promised), NEW w, w.do = "get", w.maps = {"id"}, NEW c, NEW p, p = "get"
    PROVE  MemFulfils(w, p, c)
<1>1. MemCall(w, memory, c) = Keeps(memory, Found(RowsOf(memory, {c.id})))
  BY DEF MemCall, MemGet
<1>2. RowsOf(memory, {c.id}) = {r \in promised : r.id = c.id}
  BY HeldRows
<1>3. Promise(table, p, promised, c).answer = Found({r \in promised : r.id = c.id})
  BY DEF Promise
<1>. QED  BY <1>1, <1>2, <1>3, ReadsHeld DEF SameAnswer, Reading

LEMMA MemGetByKeyDoes ==
    ASSUME Held(table, memory, promised), table \in Indexed,
           NEW w, w.do = "get", w.maps = {"key"}, NEW c, NEW p, p = "getByKey"
    PROVE  MemFulfils(w, p, c)
<1>. DEFINE named == {r \in promised : r.key = c.key}
<1>1. /\ \A i \in DOMAIN memory.rows : /\ memory.rows[i].key \in DOMAIN memory.index
                                       /\ memory.index[memory.rows[i].key] = i
      /\ \A k \in DOMAIN memory.index : /\ memory.index[k] \in DOMAIN memory.rows
                                        /\ memory.rows[memory.index[k]].key = k
  BY DEF Held, Agreed
<1>2. Promise(table, p, promised, c).answer = Found(named)
  BY DEF Promise
<1>3. \A r \in promised : r.key \in DOMAIN memory.index /\ memory.index[r.key] = r.id
  BY <1>1, HeldRows
<1>4. CASE c.key \notin DOMAIN memory.index
  <2>1. MemCall(w, memory, c) = Keeps(memory, NotFound)
    BY <1>4 DEF MemCall, MemGet
  <2>2. Found(named) = NotFound
    BY <1>3, <1>4 DEF Found
  <2>. QED  BY <1>2, <2>1, <2>2, ReadsHeld DEF SameAnswer, Reading
<1>5. CASE c.key \in DOMAIN memory.index
  <2>. DEFINE i == memory.index[c.key]
  <2>1. i \in DOMAIN memory.rows /\ memory.rows[i].key = c.key
    BY <1>1, <1>5
  <2>2. MemCall(w, memory, c) = Keeps(memory, Found(RowsOf(memory, {i})))
    BY <1>5, <2>1 DEF MemCall, MemGet
  <2>3. RowsOf(memory, {i}) = named
    <3>1. RowsOf(memory, {i}) = {r \in promised : r.id = i}
      BY HeldRows
    <3>2. \A r \in promised : r.id = i <=> r.key = c.key
      BY <1>3, <2>1, HeldRows
    <3>. QED  BY <3>1, <3>2
  <2>. QED  BY <1>2, <2>2, <2>3, ReadsHeld DEF SameAnswer, Reading
<1>. QED  BY <1>4, <1>5

\* What the owner's list finds: the rows of the owner, oldest first if rows
\* were created in that order.
LEMMA OwnersList ==
    ASSUME Held(table, memory, promised), table \in Listing, NEW c, c.owner \in Owners \cup {NoUuid}
    PROVE  /\ ListIds(memory, "owner", c) \subseteq DOMAIN memory.rows
           /\ RowsOf(memory, ListIds(memory, "owner", c)) = {r \in promised : r.owner = c.owner}
           /\ InOrder => OldestFirst(memory, memory.lists[c.owner])
<1>1. ListOf(memory.lists[c.owner], {i \in DOMAIN memory.rows : memory.rows[i].owner = c.owner})
  BY DEF Held, Agreed
<1>2. ListIds(memory, "owner", c) = {i \in DOMAIN memory.rows : memory.rows[i].owner = c.owner}
  BY <1>1 DEF ListOf, ListIds
<1>3. RowsOf(memory, ListIds(memory, "owner", c)) = {r \in promised : r.owner = c.owner}
  BY <1>2, HeldRows
<1>4. CASE c.owner = NoUuid
  <2>1. {i \in DOMAIN memory.rows : memory.rows[i].owner = c.owner} = {}
    <3>1. \A i \in DOMAIN memory.rows : memory.rows[i].owner \in Owners \cup {NoArg}
      BY HeldRows DEF Row
    <3>. QED  BY <1>4, <3>1, RowsAssumption
  <2>2. Len(memory.lists[c.owner]) = 0
    BY <1>1, <2>1, NoneListed
  <2>3. OldestFirst(memory, memory.lists[c.owner])
    BY <2>2 DEF OldestFirst
  <2>. QED  BY <1>2, <1>3, <2>3
<1>5. CASE c.owner \in Owners
  BY <1>2, <1>3, <1>5 DEF InOrder
<1>. QED  BY <1>4, <1>5

\* What the user's list finds: the rows of the key.
LEMMA UsersList ==
    ASSUME Held(table, memory, promised), table = "members", NEW c, c.key \in Keys \cup {NoUuid}
    PROVE  /\ ListIds(memory, "user", c) \subseteq DOMAIN memory.rows
           /\ RowsOf(memory, ListIds(memory, "user", c)) = {r \in promised : r.key = c.key}
<1>1. ListOf(memory.lists[c.key], {i \in DOMAIN memory.rows : memory.rows[i].key = c.key})
  BY DEF Held, Agreed
<1>2. ListIds(memory, "user", c) = {i \in DOMAIN memory.rows : memory.rows[i].key = c.key}
  BY <1>1 DEF ListOf, ListIds
<1>. QED  BY <1>2, HeldRows

LEMMA MemGetByPairDoes ==
    ASSUME Held(table, memory, promised), table = "members", NEW w, w.do = "pair",
           NEW c, c.key \in Keys \cup {NoUuid}, NEW p, p = "getByPair"
    PROVE  MemFulfils(w, p, c)
<1>. DEFINE pair == {r \in {x \in promised : x.key = c.key} : r.owner = c.owner}
<1>1. MemCall(w, memory, c) = Keeps(memory, Found(pair))
  BY UsersList DEF MemCall
<1>2. Promise(table, p, promised, c).answer =
        Found({r \in promised : r.key = c.key} \cap {r \in promised : r.owner = c.owner})
  BY DEF Promise
<1>3. pair = {r \in promised : r.key = c.key} \cap {r \in promised : r.owner = c.owner}
  OBVIOUS
<1>. HIDE DEF pair
<1>. QED  BY <1>1, <1>2, <1>3, ReadsHeld DEF SameAnswer, Reading

LEMMA MemListDoes ==
    ASSUME Held(table, memory, promised), table \in Listing, NEW w, w.do = "list", w.maps = {"owner"},
           NEW c, c.owner \in Owners \cup {NoUuid}, NEW p,
           \/ p \in {"list", "listOldestFirst"} /\ "live" \notin w.check
           \/ p \in {"listLive", "listLiveOldestFirst"} /\ "live" \in w.check
    PROVE  MemFulfils(w, p, c)
<1>. DEFINE theirs == {r \in promised : r.owner = c.owner}
            those == {r \in theirs : "live" \in w.check => r.mark = 0 /\ r.exp > c.now}
            sorted == OldestFirst(memory, memory.lists[c.owner])
<1>1. (CHOOSE col \in {"owner", "user"} : col \in w.maps) = "owner"
  OBVIOUS
<1>2. MemCall(w, memory, c) = Keeps(memory, Listed(those, sorted))
  BY <1>1, OwnersList DEF MemCall, MemList
<1>3. /\ p \notin ByAge => Promise(table, p, promised, c).answer = Listed(those, FALSE)
      /\ p \in ByAge => Promise(table, p, promised, c).answer = Listed(those, TRUE)
  <2>1. CASE p \in {"list", "listOldestFirst"}
    <3>1. those = theirs
      BY <2>1
    <3>2. /\ p = "list" => Promise(table, p, promised, c).answer = Listed(theirs, FALSE)
          /\ p = "listOldestFirst" => Promise(table, p, promised, c).answer = Listed(theirs, TRUE)
      BY <2>1 DEF Promise
    <3>. QED  BY <2>1, <3>1, <3>2 DEF ByAge
  <2>2. CASE p \in {"listLive", "listLiveOldestFirst"}
    <3>. DEFINE live == {r \in theirs : r.mark = 0 /\ r.exp > c.now}
    <3>1. those = live
      BY <2>2
    <3>2. /\ p = "listLive" => Promise(table, p, promised, c).answer = Listed(live, FALSE)
          /\ p = "listLiveOldestFirst" => Promise(table, p, promised, c).answer = Listed(live, TRUE)
      BY <2>2 DEF Promise
    <3>. QED  BY <2>2, <3>1, <3>2 DEF ByAge
  <2>. QED  BY <2>1, <2>2
<1>4. InOrder => sorted
  BY OwnersList
<1>. HIDE DEF those, sorted
<1>5. /\ SameAnswer(Listed(those, sorted), Listed(those, FALSE))
      /\ sorted => SameAnswer(Listed(those, sorted), Listed(those, TRUE))
  BY Zenon DEF SameAnswer, Listed, Answer
<1>6. (p \in ByAge => InOrder) => SameAnswer(Listed(those, sorted), Promise(table, p, promised, c).answer)
  BY <1>3, <1>4, <1>5
<1>. QED  BY <1>2, <1>6, ReadsHeld DEF Reading

LEMMA MemListByKeyDoes ==
    ASSUME Held(table, memory, promised), table = "members", NEW w, w.do = "list", w.maps = {"user"},
           "live" \notin w.check, NEW c, c.key \in Keys \cup {NoUuid}, NEW p, p = "listByKey"
    PROVE  MemFulfils(w, p, c)
<1>. DEFINE named == {r \in promised : r.key = c.key}
            sorted == OldestFirst(memory, memory.lists[c.key])
<1>1. (CHOOSE col \in {"owner", "user"} : col \in w.maps) = "user"
  OBVIOUS
<1>2. MemCall(w, memory, c) = Keeps(memory, Listed(named, sorted))
  BY <1>1, UsersList DEF MemCall, MemList
<1>3. Promise(table, p, promised, c).answer = Listed(named, FALSE)
  BY DEF Promise
<1>. HIDE DEF named, sorted
<1>4. SameAnswer(Listed(named, sorted), Listed(named, FALSE))
  BY Zenon DEF SameAnswer, Listed, Answer
<1>. QED  BY <1>2, <1>3, <1>4, ReadsHeld DEF Reading

LEMMA MemExistsDoes ==
    ASSUME Held(table, memory, promised), NEW w, w.do = "exists", NEW c, NEW p, p = "exists"
    PROVE  MemFulfils(w, p, c)
<1>. DEFINE this == {r \in promised : r.id = c.id}
<1>1. Cardinality({c.id} \cap DOMAIN memory.rows) = Cardinality(this)
  <2>1. CASE c.id \in DOMAIN memory.rows
    <3>1. {c.id} \cap DOMAIN memory.rows = {c.id} /\ this = {memory.rows[c.id]}
      BY <2>1, HeldRows
    <3>2. Cardinality({c.id}) = 1 /\ Cardinality({memory.rows[c.id]}) = 1
      BY FS_Singleton
    <3>. QED  BY <3>1, <3>2
  <2>2. CASE c.id \notin DOMAIN memory.rows
    <3>1. {c.id} \cap DOMAIN memory.rows = {} /\ this = {}
      BY <2>2, HeldRows
    <3>. QED  BY <3>1
  <2>. QED  BY <2>1, <2>2
<1>2. MemCall(w, memory, c) = Keeps(memory, Counted(Cardinality(this)))
  BY <1>1 DEF MemCall
<1>3. Promise(table, p, promised, c).answer = Counted(Cardinality(this))
  BY DEF Promise
<1>. QED  BY <1>2, <1>3, ReadsHeld DEF SameAnswer, Reading

\* A method that goes through all the rows.
LEMMA AllRowsAre ==
    ASSUME Held(table, memory, promised)
    PROVE  AllRows(memory) = promised
<1>1. RowsOf(memory, DOMAIN memory.rows) = {r \in promised : r.id \in DOMAIN memory.rows}
  BY HeldRows
<1>. QED  BY <1>1, HeldRows DEF AllRows

LEMMA MemListAllDoes ==
    ASSUME Held(table, memory, promised), NEW w, w.do = "everything", NEW c, NEW p, p = "listAll"
    PROVE  MemFulfils(w, p, c)
<1>1. MemCall(w, memory, c) = Keeps(memory, Listed(promised, FALSE))
  BY AllRowsAre DEF MemCall
<1>2. Promise(table, p, promised, c).answer = Listed(promised, FALSE)
  BY DEF Promise
<1>. QED  BY <1>1, <1>2, ReadsHeld DEF SameAnswer, Reading

LEMMA MemCountAllDoes ==
    ASSUME Held(table, memory, promised), NEW w, w.do = "count", NEW c, NEW p, p = "countAll"
    PROVE  MemFulfils(w, p, c)
<1>1. MemCall(w, memory, c) = Keeps(memory, Counted(Cardinality(promised)))
  BY AllRowsAre DEF MemCall
<1>2. Promise(table, p, promised, c).answer = Counted(Cardinality(promised))
  BY DEF Promise
<1>. QED  BY <1>1, <1>2, ReadsHeld DEF SameAnswer, Reading

LEMMA MemCountSinceDoes ==
    ASSUME Held(table, memory, promised), NEW w, w.do = "recent", NEW c, NEW p, p = "countSince"
    PROVE  MemFulfils(w, p, c)
<1>. DEFINE recent == {r \in promised : r.owner = c.owner /\ r.born > c.born}
<1>1. MemCall(w, memory, c) = Keeps(memory, Counted(Cardinality(recent)))
  BY AllRowsAre DEF MemCall
<1>2. Promise(table, p, promised, c).answer =
        Counted(Cardinality({r \in {x \in promised : x.owner = c.owner} : r.born > c.born}))
  BY DEF Promise
<1>3. {r \in {x \in promised : x.owner = c.owner} : r.born > c.born} = recent
  OBVIOUS
<1>. HIDE DEF recent
<1>. QED  BY <1>1, <1>2, <1>3, ReadsHeld DEF SameAnswer, Reading

\* The last row of an owner's list is its newest, if rows were created in the
\* order of their ages.
LEMMA MemGetNewestDoes ==
    ASSUME MemoryAsPromised, table \in Listing, table \in Dated \ Single, NEW w, w.do = "newest",
           NEW c, c.owner \in Owners \cup {NoUuid}, NEW p, p = "getNewest"
    PROVE  MemFulfils(w, p, c)
<1>. DEFINE theirs == {r \in promised : r.owner = c.owner}
            l == memory.lists[c.owner]
            there == {k \in 1..Len(l) : l[k] \in DOMAIN memory.rows}
            last == CHOOSE k \in there : \A j \in there : j <= k
            newest == memory.rows[l[last]]
<1>1. /\ Held(table, memory, promised)
      /\ \A r, s \in promised : r.owner = s.owner /\ r.born = s.born => r = s
  BY DEF MemoryAsPromised
<1>2. ListOf(l, {i \in DOMAIN memory.rows : memory.rows[i].owner = c.owner})
  BY <1>1 DEF Held, Agreed
<1>3. Len(l) \in Nat /\ there = 1..Len(l)
  BY <1>2 DEF ListOf
<1>4. \A k \in 1..Len(l) : memory.rows[l[k]] \in theirs
  BY <1>1, <1>2, HeldRows DEF ListOf
<1>5. \A r \in theirs : \E k \in 1..Len(l) : memory.rows[l[k]] = r
  <2>. SUFFICES ASSUME NEW r \in theirs
                PROVE  \E k \in 1..Len(l) : memory.rows[l[k]] = r
    OBVIOUS
  <2>1. r.id \in DOMAIN memory.rows /\ memory.rows[r.id] = r
    BY <1>1, HeldRows
  <2>2. r.id \in {l[k] : k \in 1..Len(l)}
    BY <1>2, <2>1 DEF ListOf
  <2>. QED  BY <2>1, <2>2
<1>6. /\ there = {} => MemCall(w, memory, c) = Keeps(memory, NotFound)
      /\ there # {} => MemCall(w, memory, c) = Keeps(memory, Found({newest}))
  <2>1. MemCall(w, memory, c) = MemNewest(memory, c)
    BY DEF MemCall
  <2>. QED  BY <2>1, Zenon DEF MemNewest
<1>7. Promise(table, p, promised, c).answer = Found(Newest(theirs))
  BY DEF Promise
<1>8. CASE there = {}
  <2>1. theirs = {}
    BY <1>3, <1>5, <1>8
  <2>2. Found(Newest(theirs)) = NotFound
    BY <2>1 DEF Newest, Found
  <2>. QED  BY <1>1, <1>6, <1>7, <1>8, <2>2, ReadsHeld DEF SameAnswer, Reading
<1>9. CASE there # {}
  <2>1. last = Len(l) /\ last \in 1..Len(l)
    <3>1. Len(l) \in there /\ \A j \in there : j <= Len(l)
      BY <1>3, <1>9
    <3>2. \A k \in there : (\A j \in there : j <= k) => k = Len(l)
      BY <1>3, <3>1
    <3>. QED  BY <1>3, <3>1, <3>2
  <2>2. newest \in theirs
    BY <1>4, <2>1
  <2>3. ASSUME InOrder
        PROVE  Newest(theirs) = {newest}
    <3>1. OldestFirst(memory, l)
      BY <1>1, <2>3, OwnersList
    <3>2. \A r \in theirs : r.born <= newest.born
      <4>. SUFFICES ASSUME NEW r \in theirs
                    PROVE  r.born <= newest.born
        OBVIOUS
      <4>1. PICK k \in 1..Len(l) : memory.rows[l[k]] = r
        BY <1>5
      <4>2. l[k] \in DOMAIN memory.rows /\ l[last] \in DOMAIN memory.rows
        BY <1>3, <2>1
      <4>3. CASE k < last
        <5>. HIDE DEF l, last
        <5>. QED  BY <2>1, <3>1, <4>1, <4>2, <4>3 DEF OldestFirst
      <4>4. CASE k = last
        <5>1. r.born \in Int
          BY <1>1, HeldRows DEF Row
        <5>2. newest = r
          BY <4>1, <4>4
        <5>. QED  BY <5>1, <5>2
      <4>5. k < last \/ k = last
        <5>. HIDE DEF l, last
        <5>. QED  BY <1>3, <2>1
      <4>. QED  BY <4>3, <4>4, <4>5
    <3>3. \A r \in theirs : r.born \in Int
      BY <1>1, HeldRows DEF Row
    <3>. HIDE DEF newest
    <3>4. \A r \in theirs : newest.born <= r.born => r = newest
      BY <1>1, <2>2, <3>2, <3>3
    <3>. QED  BY <2>2, <3>2, <3>4 DEF Newest
  <2>. HIDE DEF theirs, newest
  <2>. QED  BY <1>1, <1>6, <1>7, <1>9, <2>3, ReadsHeld DEF SameAnswer, Reading, ByAge
<1>. QED  BY <1>8, <1>9

LEMMA MemCreateDoes ==
    ASSUME NEW m, NEW w, NEW c, MemMeant(m, w, c), NEW p, p = Port[table][m], p = "create"
    PROVE  MemFulfils(w, p, c)
<1>. DEFINE r == RowOf(c)
            dups == Duplicates(table, promised, c)
<1>1. /\ ClockOK /\ Tidy(table, promised) /\ CallIs(m, c) /\ p \in Creating
      /\ Held(table, memory, promised) /\ (table \notin Single => \A x \in promised : x.id \in made)
      /\ w.do = "create" /\ KeepsAll(table, w.maps) /\ (table \in Single => "id" \in w.check)
      /\ "key" \in w.check <=> table \in Named \ {"members"}
  BY DEF MemMeant, MemKeeping, MemoryAsPromised, Creating
<1>2. /\ r \in Row /\ r.id = c.id /\ r.key = c.key /\ r.owner = c.owner
      /\ table \in Hashed => c.key = c.id
      /\ table \in Listing => c.owner \in Owners
      /\ table = "members" => c.key \in Keys \cup {NoArg}
      /\ table \notin Single => c.id \notin made
  <2>1. r \in Row /\ r.id = c.id /\ r.key = c.key /\ r.owner = c.owner
    BY <1>1, RowOfIs
  <2>2. table \in Hashed => c.key = c.id
    BY <1>1, CreatingIs
  <2>3. table \in Listing => c.owner \in Owners
    BY <1>1 DEF CallIs, OwnerArgs, Listing
  <2>4. table = "members" => c.key \in Keys \cup {NoArg}
    BY <1>1 DEF CallIs, KeyArgs
  <2>5. table \notin Single => c.id \notin made
    BY <1>1 DEF CallIs, Legal
  <2>. QED  BY <2>1, <2>2, <2>3, <2>4, <2>5
<1>3. table \in Indexed =>
        /\ \A x \in promised : x.key \in DOMAIN memory.index
        /\ \A k \in DOMAIN memory.index : \E x \in promised : x.key = k
  <2>1. table \in Indexed =>
          /\ \A i \in DOMAIN memory.rows : memory.rows[i].key \in DOMAIN memory.index
          /\ \A k \in DOMAIN memory.index : memory.index[k] \in DOMAIN memory.rows /\ memory.rows[memory.index[k]].key = k
    BY <1>1 DEF Held, Agreed
  <2>. QED  BY <1>1, <2>1, HeldRows
<1>4. MemCall(w, memory, c) = MemCreate(w, memory, c)
  BY <1>1 DEF MemCall
<1>5. CASE dups = {}
  <2>1. c.id \notin DOMAIN memory.rows
    BY <1>1, <1>5, HeldRows DEF Duplicates
  <2>2. table \in Named \ {"members"} => c.key \notin DOMAIN memory.index
    BY <1>3, <1>5 DEF Duplicates, Indexed
  <2>3. table \in Hashed => c.key \notin DOMAIN memory.index
    <3>1. table \in Hashed => \A x \in promised : x.key = x.id
      BY <1>1 DEF Tidy
    <3>. QED  BY <1>2, <1>3, <1>5, <3>1 DEF Duplicates, Indexed
  <2>4. MemCall(w, memory, c).table = Stored(memory, r, w.maps) /\ MemCall(w, memory, c).answer = Done
    BY <1>1, <1>4, <2>1, <2>2 DEF MemCreate
  <2>5. Held(table, Stored(memory, r, w.maps), promised \cup {r})
    BY <1>1, <1>2, <2>1, <2>2, <2>3, StoredHeld DEF Indexed
  <2>6. /\ Promise(table, p, promised, c).table = promised \cup {r}
        /\ Promise(table, p, promised, c).answer = Done
    BY <1>5 DEF Promise
  <2>. QED  BY <2>4, <2>5, <2>6 DEF MemFulfils, SameAnswer
<1>6. CASE dups # {}
  <2>1. PICK x \in promised : x.id = c.id \/ (table \in Named \ {"members"} /\ x.key = c.key)
    BY <1>6 DEF Duplicates
  <2>2. \/ "id" \in w.check /\ c.id \in DOMAIN memory.rows
        \/ "key" \in w.check /\ c.key \in DOMAIN memory.index
    <3>1. CASE x.id = c.id
      BY <1>1, <1>2, <2>1, <3>1, HeldRows
    <3>2. CASE table \in Named \ {"members"} /\ x.key = c.key
      BY <1>1, <1>3, <2>1, <3>2 DEF Indexed
    <3>. QED  BY <2>1, <3>1, <3>2
  <2>3. MemCall(w, memory, c).table = memory /\ MemCall(w, memory, c).answer = Conflict
    BY <1>4, <2>2 DEF MemCreate, Keeps
  <2>4. /\ Promise(table, p, promised, c).table = promised
        /\ Promise(table, p, promised, c).answer = Conflict
    BY <1>6 DEF Promise
  <2>. QED  BY <1>1, <2>3, <2>4 DEF MemFulfils, SameAnswer
<1>. QED  BY <1>5, <1>6

LEMMA MemSetDoes ==
    ASSUME NEW m, NEW w, NEW c, MemMeant(m, w, c), NEW p, p = Port[table][m], p = "set"
    PROVE  MemFulfils(w, p, c)
<1>. DEFINE this == {r \in promised : r.id = c.id}
            put == [RowOf(c) EXCEPT !.born = IF this = {} THEN @ ELSE (CHOOSE r \in this : TRUE).born]
<1>1. /\ ClockOK /\ CallIs(m, c) /\ p \in Creating /\ Held(table, memory, promised)
      /\ table = "pins" /\ w.do = "put" /\ w.set = "val"
  BY DEF MemMeant, MemKeeping, MemoryAsPromised, Creating
<1>2. table \notin Indexed \cup Listing /\ table # "members"
  BY <1>1 DEF Indexed, Listing, Hashed, Named, Owned
<1>3. this = IF c.id \in DOMAIN memory.rows THEN {memory.rows[c.id]} ELSE {}
  BY <1>1, HeldRows
<1>4. put \in Row /\ put.id = c.id
  <2>1. RowOf(c) \in Row /\ RowOf(c).id = c.id
    BY <1>1, RowOfIs
  <2>2. this # {} => (CHOOSE r \in this : TRUE) \in Row
    BY <1>1, HeldRows
  <2>. QED  BY <2>1, <2>2 DEF Row
<1>5. /\ MemCall(w, memory, c).table = Stored(memory, put, {})
      /\ MemCall(w, memory, c).answer = Done
  <2>1. MemCall(w, memory, c) = MemPut(w, memory, c)
    BY <1>1 DEF MemCall
  <2>2. CASE c.id \in DOMAIN memory.rows
    <3>1. put = [RowOf(c) EXCEPT !.born = memory.rows[c.id].born]
      BY <1>3, <2>2
    <3>. QED  BY <1>1, <2>1, <2>2, <3>1 DEF MemPut
  <2>3. CASE c.id \notin DOMAIN memory.rows
    <3>1. put = RowOf(c)
      BY <1>3, <2>3 DEF RowOf
    <3>. QED  BY <1>1, <2>1, <2>3, <3>1 DEF MemPut
  <2>. QED  BY <2>2, <2>3
<1>6. /\ Promise(table, p, promised, c).table = (promised \ this) \cup {put}
      /\ Promise(table, p, promised, c).answer = Done
  BY DEF Promise
<1>7. promised \ this = {x \in promised : x.id # c.id}
  OBVIOUS
<1>. HIDE DEF this, put
<1>8. Held(table, Stored(memory, put, {}), {x \in promised : x.id # put.id} \cup {put})
  BY <1>1, <1>2, <1>4, PutHeld
<1>. QED  BY <1>4, <1>5, <1>6, <1>7, <1>8 DEF MemFulfils, SameAnswer

LEMMA MemEnsureDoes ==
    ASSUME NEW m, NEW w, NEW c, MemMeant(m, w, c), NEW p, p = Port[table][m], p = "ensure"
    PROVE  MemFulfils(w, p, c)
<1>. DEFINE r == RowOf(c)
            this == {x \in promised : x.id = c.id}
<1>1. /\ ClockOK /\ CallIs(m, c) /\ p \in Creating /\ Held(table, memory, promised)
      /\ table = "locks" /\ w.do = "put" /\ w.set = "row"
      /\ \A x \in promised : x.key = NoArg /\ x.owner = NoArg /\ x.val = NoArg /\ x.mark = 0 /\ x.exp = 0
                             /\ x.hits = 0 /\ x.born = 0
  BY DEF MemMeant, MemKeeping, MemoryAsPromised, Creating
<1>2. table \notin Indexed \cup Listing /\ table # "members"
  BY <1>1 DEF Indexed, Listing, Hashed, Named, Owned
<1>3. r \in Row /\ r.id = c.id
  BY <1>1, RowOfIs
<1>4. \A x \in this : x = r
  <2>. SUFFICES ASSUME NEW x \in this
                PROVE  x = r
    OBVIOUS
  <2>1. c.key = NoArg /\ c.owner = NoArg /\ c.val = NoArg /\ c.exp = 0 /\ c.born = 0
    BY <1>1 DEF CallIs, KeyArgs, OwnerArgs, ValArgs, BornArgs, Creating, Named, Hashed, Owned, Expiring, Dated
  <2>2. x \in Row /\ x.id = c.id
    BY <1>1, HeldRows
  <2>3. x = [id |-> c.id, key |-> NoArg, owner |-> NoArg, val |-> NoArg, mark |-> 0, exp |-> 0, hits |-> 0, born |-> 0]
    BY <1>1, <2>2 DEF Row
  <2>. QED  BY <2>1, <2>3 DEF RowOf
<1>5. /\ MemCall(w, memory, c).table = Stored(memory, r, {})
      /\ MemCall(w, memory, c).answer = Done
  BY <1>1 DEF MemCall, MemPut
<1>6. /\ Promise(table, p, promised, c).table = {x \in promised : x.id # c.id} \cup {r}
      /\ Promise(table, p, promised, c).answer = Done
  <2>1. CASE this = {}
    <3>1. Promise(table, p, promised, c).table = promised \cup {r}
      BY <2>1 DEF Promise
    <3>2. promised = {x \in promised : x.id # c.id}
      BY <2>1
    <3>3. Promise(table, p, promised, c).answer = Done
      BY <2>1 DEF Promise
    <3>. QED  BY <3>1, <3>2, <3>3
  <2>2. CASE this # {}
    <3>1. Promise(table, p, promised, c).table = promised
      BY <2>2 DEF Promise
    <3>2. promised = {x \in promised : x.id # c.id} \cup {r}
      BY <1>4, <2>2
    <3>3. Promise(table, p, promised, c).answer = Done
      BY <2>2 DEF Promise
    <3>. QED  BY <3>1, <3>2, <3>3
  <2>. QED  BY <2>1, <2>2
<1>. HIDE DEF r
<1>7. Held(table, Stored(memory, r, {}), {x \in promised : x.id # r.id} \cup {r})
  BY <1>1, <1>2, <1>3, PutHeld
<1>. QED  BY <1>3, <1>5, <1>6, <1>7 DEF MemFulfils, SameAnswer

LEMMA MemDeleteDoes ==
    ASSUME Held(table, memory, promised), NEW w, w.do = "delete", KeepsAll(table, w.maps), NEW c, NEW p,
           \/ p = "remove" /\ w.reply = "error"
           \/ p = "forget" /\ w.reply # "error"
    PROVE  MemFulfils(w, p, c)
<1>. DEFINE this == {x \in promised : x.id = c.id}
<1>1. this = IF c.id \in DOMAIN memory.rows THEN {memory.rows[c.id]} ELSE {}
  BY HeldRows
<1>2. /\ Promise(table, p, promised, c).table = promised \ this
      /\ p = "remove" => Promise(table, p, promised, c).answer = Hit(this)
      /\ p = "forget" => Promise(table, p, promised, c).answer = Done
  BY DEF Promise
<1>3. MemCall(w, memory, c) = MemDelete(w, memory, c)
  BY DEF MemCall
<1>. HIDE DEF this
<1>4. CASE c.id \in DOMAIN memory.rows
  <2>1. /\ MemCall(w, memory, c).table = Dropped(memory, memory.rows[c.id], w.maps)
        /\ MemCall(w, memory, c).answer = Done
    BY <1>3, <1>4 DEF MemDelete
  <2>2. Held(table, Dropped(memory, memory.rows[c.id], w.maps), promised \ {memory.rows[c.id]})
    BY <1>4, HeldRows, DroppedHeld
  <2>3. Hit(this) = Done
    BY <1>1, <1>4 DEF Hit
  <2>. QED  BY <1>1, <1>2, <1>4, <2>1, <2>2, <2>3 DEF MemFulfils, SameAnswer
<1>5. CASE c.id \notin DOMAIN memory.rows
  <2>1. /\ MemCall(w, memory, c).table = memory
        /\ MemCall(w, memory, c).answer = IF w.reply = "error" THEN NotFound ELSE Done
    BY <1>3, <1>5 DEF MemDelete, Keeps
  <2>2. Hit(this) = NotFound /\ promised \ this = promised
    BY <1>1, <1>5 DEF Hit
  <2>. QED  BY <1>2, <2>1, <2>2 DEF MemFulfils, SameAnswer
<1>. QED  BY <1>4, <1>5

LEMMA MemTakeDoes ==
    ASSUME Held(table, memory, promised), table \notin Indexed \cup Listing \cup {"members"},
           NEW w, w.do = "take", NEW c, NEW p, p = "take"
    PROVE  MemFulfils(w, p, c)
<1>. DEFINE this == {x \in promised : x.id = c.id}
<1>1. this = IF c.id \in DOMAIN memory.rows THEN {memory.rows[c.id]} ELSE {}
  BY HeldRows
<1>2. /\ Promise(table, p, promised, c).table = promised \ this
      /\ Promise(table, p, promised, c).answer = Found(this)
  BY DEF Promise
<1>3. RowsOf(memory, {c.id}) = this
  BY HeldRows
<1>. HIDE DEF this
<1>4. MemCall(w, memory, c) = [MemDelete(Deletes({}, "error"), memory, c) EXCEPT !.answer = Found(this)]
  BY <1>3 DEF MemCall
<1>5. KeepsAll(table, {})
  BY DEF KeepsAll
<1>6. CASE c.id \in DOMAIN memory.rows
  <2>1. MemDelete(Deletes({}, "error"), memory, c) = [table |-> Dropped(memory, memory.rows[c.id], {}), answer |-> Done]
    BY <1>6 DEF MemDelete, Deletes, Method
  <2>2. /\ MemCall(w, memory, c).table = Dropped(memory, memory.rows[c.id], {})
        /\ MemCall(w, memory, c).answer = Found(this)
    BY <1>4, <2>1
  <2>3. Held(table, Dropped(memory, memory.rows[c.id], {}), promised \ {memory.rows[c.id]})
    BY <1>5, <1>6, HeldRows, DroppedHeld
  <2>. QED  BY <1>1, <1>2, <1>6, <2>2, <2>3 DEF MemFulfils, SameAnswer
<1>7. CASE c.id \notin DOMAIN memory.rows
  <2>1. MemDelete(Deletes({}, "error"), memory, c) = [table |-> memory, answer |-> NotFound]
    BY <1>7 DEF MemDelete, Deletes, Method, Keeps
  <2>2. MemCall(w, memory, c).table = memory /\ MemCall(w, memory, c).answer = Found(this)
    BY <1>4, <2>1
  <2>3. promised \ this = promised
    BY <1>1, <1>7
  <2>. QED  BY <1>2, <2>2, <2>3 DEF MemFulfils, SameAnswer
<1>. QED  BY <1>6, <1>7

LEMMA MemClearDoes ==
    ASSUME Held(table, memory, promised), NEW c, NEW w, NEW p, p = "clear",
           \/ /\ table \in (Indexed \cap Listing) \ {"members"} /\ w.do = "clear"
              /\ c.owner \in Owners \cup {NoUuid}
           \/ table \notin Indexed \cup Listing \cup {"members"} /\ w.do = "sweep"
    PROVE  MemFulfils(w, p, c)
<1>. DEFINE theirs == {r \in promised : r.owner = c.owner}
<1>1. /\ Promise(table, p, promised, c).table = promised \ theirs
      /\ Promise(table, p, promised, c).answer = Done
  BY DEF Promise
<1>2. promised \ theirs = {r \in promised : r.owner # c.owner}
  OBVIOUS
<1>3. CASE w.do = "clear"
  <2>1. MemCall(w, memory, c) = MemClear(memory, c)
    BY <1>3 DEF MemCall
  <2>2. MemClear(memory, c).answer = Done
    BY DEF MemClear
  <2>3. Held(table, MemClear(memory, c).table, {r \in promised : r.owner # c.owner})
    BY <1>3, ClearedHeld
  <2>. HIDE DEF theirs
  <2>. QED  BY <1>1, <1>2, <2>1, <2>2, <2>3 DEF MemFulfils, SameAnswer
<1>4. CASE w.do = "sweep"
  <2>1. {x \in AllRows(memory) : x.owner = c.owner} = theirs
    BY AllRowsAre
  <2>. HIDE DEF theirs
  <2>2. MemCall(w, memory, c) = [table |-> [memory EXCEPT !.rows = Unbind(@, {r.id : r \in theirs})], answer |-> Done]
    BY <1>4, <2>1 DEF MemCall
  <2>3. Held(table, [memory EXCEPT !.rows = Unbind(@, {r.id : r \in theirs})], promised \ theirs)
    BY <1>4, SweptHeld DEF theirs
  <2>. DEFINE swept == [memory EXCEPT !.rows = Unbind(@, {r.id : r \in theirs})]
  <2>4. MemCall(w, memory, c).table = swept /\ MemCall(w, memory, c).answer = Done
    BY <2>2
  <2>. HIDE DEF swept
  <2>5. Held(table, swept, promised \ theirs)
    BY <2>3 DEF swept
  <2>. QED  BY <1>1, <2>4, <2>5 DEF MemFulfils, SameAnswer
<1>. QED  BY <1>3, <1>4

\* Assigning to a row leaves its id, its key and its owner.
LEMMA AssignedIs ==
    ASSUME NEW r \in Row, NEW set, NEW c
    PROVE  /\ Assigned(r, set, c).id = r.id /\ Assigned(r, set, c).key = r.key /\ Assigned(r, set, c).owner = r.owner
           /\ set \in {"row", "val"} => Assigned(r, set, c) = [r EXCEPT !.val = c.val]
           /\ set = "mark" => Assigned(r, set, c) = [r EXCEPT !.mark = c.at]
           /\ set = "coalesce" => Assigned(r, set, c) = IF r.mark = 0 THEN [r EXCEPT !.mark = c.at] ELSE r
           /\ set = "exp" => Assigned(r, set, c) = [r EXCEPT !.exp = c.exp]
           /\ set = "hits" => Assigned(r, set, c) = [r EXCEPT !.hits = @ + 1]
  BY DEF Assigned, Row

\* What a method makes of the row of an id, if there is one and it may.
LEMMA EditIs ==
    ASSUME Held(table, memory, promised), NEW w, w.do = "edit", "key" \in w.maps => table \in Indexed, NEW c,
           NEW S, S = {r \in {x \in promised : x.id = c.id} : "unmarked" \in w.check => r.mark = 0},
           \A r \in S : Assigned(r, w.set, c) \in Row
    PROVE  /\ Held(table, MemCall(w, memory, c).table, (promised \ S) \cup {Assigned(r, w.set, c) : r \in S})
           /\ S = {} => MemCall(w, memory, c).answer =
                          IF w.reply = "number" /\ w.set = "mark" THEN Counted(0) ELSE NotFound
           /\ \A r \in S : MemCall(w, memory, c).answer =
                             IF w.reply = "error" THEN Done
                             ELSE Counted(IF w.set = "hits" THEN Assigned(r, w.set, c).hits ELSE 1)
<1>. DEFINE those == {r \in RowsOf(memory, {c.id}) : "unmarked" \in w.check => r.mark = 0}
            changed == {Assigned(r, w.set, c) : r \in S}
<1>1. those = S
  <2>1. RowsOf(memory, {c.id}) = {x \in promised : x.id = c.id}
    BY HeldRows
  <2>. QED  BY <2>1
<1>2. MemCall(w, memory, c) = MemEdit(w, memory, c)
  BY DEF MemCall
<1>3. CASE S = {}
  <2>1. /\ MemCall(w, memory, c).table = memory
        /\ MemCall(w, memory, c).answer = IF w.reply = "number" /\ w.set = "mark" THEN Counted(0) ELSE NotFound
    <3>1. MemEdit(w, memory, c) =
            Keeps(memory, IF w.reply = "number" /\ w.set = "mark" THEN Counted(0) ELSE NotFound)
      <4>. HIDE DEF those
      <4>1. those = {}
        BY <1>1, <1>3
      <4>. QED  BY <4>1, Zenon DEF MemEdit, those
    <3>. QED  BY <1>2, <3>1 DEF Keeps
  <2>2. (promised \ S) \cup changed = promised
    BY <1>3
  <2>. QED  BY <1>3, <2>1, <2>2
<1>4. CASE S # {}
  <2>1. PICK x \in S : TRUE
    BY <1>4
  <2>2. /\ x \in Row /\ x \in promised /\ x.id = c.id /\ c.id \in DOMAIN memory.rows /\ memory.rows[c.id] = x
        /\ S = {x}
    BY <2>1, HeldRows
  <2>. DEFINE r == Assigned(x, w.set, c)
              after == [memory EXCEPT !.rows = Bind(@, r.id, r),
                                      !.index = IF "key" \in w.maps THEN Bind(@, r.key, r.id) ELSE @]
  <2>3. (CHOOSE y \in those : TRUE) = x
    BY <1>1, <2>2
  <2>4. /\ MemCall(w, memory, c).table = after
        /\ MemCall(w, memory, c).answer = IF w.reply = "error" THEN Done
                                          ELSE Counted(IF w.set = "hits" THEN r.hits ELSE 1)
    <3>1. MemEdit(w, memory, c) =
            [table |-> after, answer |-> IF w.reply = "error" THEN Done
                                         ELSE Counted(IF w.set = "hits" THEN r.hits ELSE 1)]
      <4>. HIDE DEF those
      <4>1. those # {}
        BY <1>1, <1>4
      <4>. QED  BY <2>3, <4>1, Zenon DEF MemEdit, those
    <3>. HIDE DEF after, r
    <3>. QED  BY <1>2, <3>1
  <2>5. r \in Row /\ r.id = c.id /\ r.key = x.key /\ r.owner = x.owner
    BY <2>2, AssignedIs
  <2>6. DOMAIN memory = {"rows", "index", "lists"}
    BY DEF Held, Agreed
  <2>. HIDE DEF r
  <2>7. /\ DOMAIN after = {"rows", "index", "lists"} /\ after.lists = memory.lists
        /\ DOMAIN after.rows = DOMAIN memory.rows /\ after.rows[c.id] = r
        /\ \A i \in DOMAIN memory.rows : i # c.id => after.rows[i] = memory.rows[i]
        /\ after.index = IF "key" \in w.maps THEN Bind(memory.index, r.key, r.id) ELSE memory.index
    BY <2>2, <2>5, <2>6 DEF Bind
  <2>. HIDE DEF after
  <2>8. table \in Indexed => /\ DOMAIN after.index = DOMAIN memory.index
                             /\ \A k \in DOMAIN memory.index : after.index[k] = memory.index[k]
    <3>1. table \in Indexed => x.key \in DOMAIN memory.index /\ memory.index[x.key] = c.id
      BY <2>2 DEF Held, Agreed
    <3>. QED  BY <2>5, <2>7, <3>1 DEF Bind
  <2>9. Agreed(table, memory)
    BY DEF Held
  <2>10. \A i \in DOMAIN memory.rows : /\ after.rows[i] \in Row /\ after.rows[i].id = i
                                       /\ after.rows[i].key = memory.rows[i].key
                                       /\ after.rows[i].owner = memory.rows[i].owner
    BY <2>2, <2>5, <2>7, HeldRows
  <2>11. Agreed(table, after)
    BY <2>7, <2>8, <2>9, <2>10, EditedAgrees
  <2>12. (promised \ S) \cup {r} = {after.rows[i] : i \in DOMAIN after.rows}
    BY <2>2, <2>7, HeldRows
  <2>13. changed = {r}
    BY <2>2 DEF r
  <2>. QED  BY <1>4, <2>2, <2>4, <2>11, <2>12, <2>13 DEF Held, r
<1>. QED  BY <1>3, <1>4

\* The rows a call would leave are rows.
LEMMA RowsAfter ==
    ASSUME NEW p, NEW c, Tidy(table, Promise(table, p, promised, c).table), NEW S, NEW changed,
           Promise(table, p, promised, c).table = (promised \ S) \cup changed
    PROVE  \A r \in changed : r \in Row
  BY DEF Tidy

LEMMA MemEditDoes ==
    ASSUME Held(table, memory, promised), Tidy(table, promised), NEW c, NEW w, NEW p,
           Tidy(table, Promise(table, p, promised, c).table),
           \/ p = "replace" /\ EditsTo(table, w, "row", "error") /\ "unmarked" \notin w.check
           \/ p = "useOnce" /\ EditsTo(table, w, "mark", "error") /\ "unmarked" \in w.check
           \/ p = "extend" /\ EditsTo(table, w, "exp", "error") /\ "unmarked" \in w.check
           \/ p = "touch" /\ EditsTo(table, w, "val", "error") /\ "unmarked" \in w.check
    PROVE  MemFulfils(w, p, c)
<1>. DEFINE this == {r \in promised : r.id = c.id}
            S == {r \in this : "unmarked" \in w.check => r.mark = 0}
            changed == {Assigned(r, w.set, c) : r \in S}
<1>1. \A r \in S : r \in Row
  BY HeldRows
<1>2. /\ Promise(table, p, promised, c).table = (promised \ S) \cup changed
      /\ Promise(table, p, promised, c).answer = Hit(S)
  <2>1. CASE p = "replace"
    <3>1. S = this
      BY <2>1
    <3>2. {[r EXCEPT !.val = c.val] : r \in this} = changed
      BY <1>1, <2>1, <3>1, AssignedIs DEF EditsTo
    <3>3. /\ Promise(table, p, promised, c).table = (promised \ this) \cup {[r EXCEPT !.val = c.val] : r \in this}
          /\ Promise(table, p, promised, c).answer = Hit(this)
      BY <2>1 DEF Promise
    <3>. QED  BY <3>1, <3>2, <3>3
  <2>. DEFINE mine == {r \in this : r.mark = 0}
  <2>2. CASE p = "useOnce"
    <3>1. S = mine
      BY <2>2
    <3>2. {[r EXCEPT !.mark = c.at] : r \in mine} = changed
      BY <1>1, <2>2, <3>1, AssignedIs DEF EditsTo
    <3>3. /\ Promise(table, p, promised, c).table = (promised \ mine) \cup {[r EXCEPT !.mark = c.at] : r \in mine}
          /\ Promise(table, p, promised, c).answer = Hit(mine)
      BY <2>2 DEF Promise
    <3>. QED  BY <3>1, <3>2, <3>3
  <2>3. CASE p = "extend"
    <3>1. S = mine
      BY <2>3
    <3>2. {[r EXCEPT !.exp = c.exp] : r \in mine} = changed
      BY <1>1, <2>3, <3>1, AssignedIs DEF EditsTo
    <3>3. /\ Promise(table, p, promised, c).table = (promised \ mine) \cup {[r EXCEPT !.exp = c.exp] : r \in mine}
          /\ Promise(table, p, promised, c).answer = Hit(mine)
      BY <2>3 DEF Promise
    <3>. QED  BY <3>1, <3>2, <3>3
  <2>4. CASE p = "touch"
    <3>1. S = mine
      BY <2>4
    <3>2. {[r EXCEPT !.val = c.val] : r \in mine} = changed
      BY <1>1, <2>4, <3>1, AssignedIs DEF EditsTo
    <3>3. /\ Promise(table, p, promised, c).table = (promised \ mine) \cup {[r EXCEPT !.val = c.val] : r \in mine}
          /\ Promise(table, p, promised, c).answer = Hit(mine)
      BY <2>4 DEF Promise
    <3>. QED  BY <3>1, <3>2, <3>3
  <2>. QED  BY <2>1, <2>2, <2>3, <2>4
<1>3. w.do = "edit" /\ w.reply = "error" /\ ("key" \in w.maps => table \in Indexed)
  BY DEF EditsTo
<1>. HIDE DEF changed
<1>4. \A r \in S : Assigned(r, w.set, c) \in Row
  BY <1>2, RowsAfter DEF changed
<1>5. /\ Held(table, MemCall(w, memory, c).table, (promised \ S) \cup changed)
      /\ S = {} => MemCall(w, memory, c).answer = NotFound
      /\ S # {} => MemCall(w, memory, c).answer = Done
  BY <1>3, <1>4, EditIs DEF changed
<1>. HIDE DEF S
<1>6. MemCall(w, memory, c).answer = Hit(S)
  BY <1>5 DEF Hit
<1>. QED  BY <1>2, <1>5, <1>6 DEF MemFulfils, SameAnswer

LEMMA MemRevokeDoes ==
    ASSUME Held(table, memory, promised), Tidy(table, promised), NEW c, NEW w, NEW p, p = "revoke",
           Tidy(table, Promise(table, p, promised, c).table), "unmarked" \notin w.check,
           \/ EditsTo(table, w, "coalesce", "error")
           \/ EditsTo(table, w, "mark", "error") /\ table \notin Stamped /\ c.at = 1
    PROVE  MemFulfils(w, p, c)
<1>. DEFINE this == {r \in promised : r.id = c.id}
            mine == {r \in this : r.mark = 0}
            S == {r \in this : "unmarked" \in w.check => r.mark = 0}
            marked == {[r EXCEPT !.mark = c.at] : r \in mine}
            changed == {Assigned(r, w.set, c) : r \in S}
<1>1. /\ Promise(table, p, promised, c).table = (promised \ mine) \cup marked
      /\ Promise(table, p, promised, c).answer = Hit(this)
  BY DEF Promise
<1>2. S = this
  OBVIOUS
<1>3. \A r \in S : Assigned(r, w.set, c) = IF r.mark = 0 THEN [r EXCEPT !.mark = c.at] ELSE r
  <2>. SUFFICES ASSUME NEW r \in S
                PROVE  Assigned(r, w.set, c) = IF r.mark = 0 THEN [r EXCEPT !.mark = c.at] ELSE r
    OBVIOUS
  <2>1. r \in Row /\ (table \notin Stamped => r.mark \in {0, 1})
    BY DEF Tidy
  <2>. QED  BY <2>1 DEF Assigned, Row, EditsTo
<1>4. (promised \ S) \cup changed = (promised \ mine) \cup marked
  BY <1>2, <1>3
<1>5. w.do = "edit" /\ w.reply = "error" /\ ("key" \in w.maps => table \in Indexed)
  BY DEF EditsTo
<1>6. \A r \in S : Assigned(r, w.set, c) \in Row
  <2>. HIDE DEF changed, S, mine, marked
  <2>1. \A r \in changed : r \in Row
    BY <1>1, <1>4 DEF Tidy
  <2>. QED  BY <2>1 DEF changed
<1>. HIDE DEF changed
<1>7. /\ Held(table, MemCall(w, memory, c).table, (promised \ S) \cup changed)
      /\ S = {} => MemCall(w, memory, c).answer = NotFound
      /\ S # {} => MemCall(w, memory, c).answer = Done
  BY <1>5, <1>6, EditIs DEF changed
<1>. HIDE DEF S, this, mine, marked
<1>8. MemCall(w, memory, c).answer = Hit(this)
  BY <1>2, <1>7 DEF Hit
<1>. QED  BY <1>1, <1>4, <1>7, <1>8 DEF MemFulfils, SameAnswer

LEMMA MemConsumeDoes ==
    ASSUME Held(table, memory, promised), Tidy(table, promised), NEW c, NEW w, NEW p, p = "consume",
           Tidy(table, Promise(table, p, promised, c).table), "unmarked" \in w.check,
           EditsTo(table, w, "mark", "number")
    PROVE  MemFulfils(w, p, c)
<1>. DEFINE S == {r \in {x \in promised : x.id = c.id} : "unmarked" \in w.check => r.mark = 0}
            mine == {r \in {x \in promised : x.id = c.id} : r.mark = 0}
            changed == {Assigned(r, w.set, c) : r \in S}
<1>1. /\ Promise(table, p, promised, c).table = (promised \ mine) \cup {[r EXCEPT !.mark = c.at] : r \in mine}
      /\ Promise(table, p, promised, c).answer = Counted(Cardinality(mine))
  BY DEF Promise
<1>2. S = mine
  OBVIOUS
<1>3. {[r EXCEPT !.mark = c.at] : r \in mine} = changed
  <2>1. \A r \in S : r \in Row
    BY HeldRows
  <2>. QED  BY <1>2, <2>1, AssignedIs DEF EditsTo
<1>4. w.do = "edit" /\ w.set = "mark" /\ w.reply = "number" /\ ("key" \in w.maps => table \in Indexed)
  BY DEF EditsTo
<1>. HIDE DEF changed
<1>5. \A r \in S : Assigned(r, w.set, c) \in Row
  <2>. HIDE DEF S
  <2>1. \A r \in changed : r \in Row
    BY <1>1, <1>3 DEF Tidy
  <2>. QED  BY <2>1 DEF changed
<1>6. /\ Held(table, MemCall(w, memory, c).table, (promised \ S) \cup changed)
      /\ S = {} => MemCall(w, memory, c).answer = Counted(0)
      /\ S # {} => MemCall(w, memory, c).answer = Counted(1)
  BY <1>4, <1>5, EditIs DEF changed
<1>7. MemCall(w, memory, c).answer = Counted(Cardinality(S))
  <2>1. CASE S = {}
    BY <1>6, <2>1, FS_EmptySet
  <2>2. CASE S # {}
    <3>1. PICK x \in S : S = {x}
      BY <2>2 DEF Tidy
    <3>. HIDE DEF S
    <3>2. Cardinality(S) = 1
      BY <3>1, FS_Singleton
    <3>. QED  BY <1>6, <2>2, <3>2
  <2>. QED  BY <2>1, <2>2
<1>. HIDE DEF S, mine
<1>. QED  BY <1>1, <1>2, <1>3, <1>6, <1>7 DEF MemFulfils, SameAnswer

LEMMA MemIncrementDoes ==
    ASSUME Held(table, memory, promised), Tidy(table, promised), NEW c, NEW w, NEW p, p = "increment",
           Tidy(table, Promise(table, p, promised, c).table), "unmarked" \notin w.check,
           EditsTo(table, w, "hits", "number")
    PROVE  MemFulfils(w, p, c)
<1>. DEFINE this == {x \in promised : x.id = c.id}
            S == {r \in this : "unmarked" \in w.check => r.mark = 0}
            changed == {Assigned(r, w.set, c) : r \in S}
<1>1. /\ Promise(table, p, promised, c).table = (promised \ this) \cup {[r EXCEPT !.hits = @ + 1] : r \in this}
      /\ Promise(table, p, promised, c).answer =
           IF this = {} THEN NotFound ELSE Counted((CHOOSE r \in this : TRUE).hits + 1)
  BY DEF Promise
<1>2. S = this
  OBVIOUS
<1>3. \A r \in S : r \in Row
  BY HeldRows
<1>4. {[r EXCEPT !.hits = @ + 1] : r \in this} = changed
  BY <1>2, <1>3, AssignedIs DEF EditsTo
<1>5. w.do = "edit" /\ w.set = "hits" /\ w.reply = "number" /\ ("key" \in w.maps => table \in Indexed)
  BY DEF EditsTo
<1>. HIDE DEF changed
<1>6. \A r \in S : Assigned(r, w.set, c) \in Row
  <2>. HIDE DEF S
  <2>1. \A r \in changed : r \in Row
    BY <1>1, <1>4 DEF Tidy
  <2>. QED  BY <2>1 DEF changed
<1>7. /\ Held(table, MemCall(w, memory, c).table, (promised \ S) \cup changed)
      /\ S = {} => MemCall(w, memory, c).answer = NotFound
  BY <1>5, <1>6, EditIs DEF changed
<1>a. ASSUME NEW r \in S
      PROVE  MemCall(w, memory, c).answer = Counted(Assigned(r, w.set, c).hits)
  <2>1. MemCall(w, memory, c).answer =
          IF w.reply = "error" THEN Done ELSE Counted(IF w.set = "hits" THEN Assigned(r, w.set, c).hits ELSE 1)
    BY <1>5, <1>6, EditIs, Zenon
  <2>. QED  BY <1>5, <2>1
<1>8. MemCall(w, memory, c).answer = Promise(table, p, promised, c).answer
  <2>1. CASE this = {}
    BY <1>1, <1>2, <1>7, <2>1
  <2>2. CASE this # {}
    <3>1. PICK x \in this : this = {x}
      BY <2>2 DEF Tidy
    <3>2. (CHOOSE r \in this : TRUE) = x
      BY <3>1
    <3>3. x \in Row /\ Assigned(x, w.set, c).hits = x.hits + 1
      BY <1>2, <1>3, <1>5, <3>1, AssignedIs DEF Row
    <3>4. MemCall(w, memory, c).answer = Counted(Assigned(x, w.set, c).hits)
      BY <1>2, <1>a
    <3>. QED  BY <1>1, <2>2, <3>2, <3>3, <3>4
  <2>. QED  BY <2>1, <2>2
<1>. HIDE DEF S, this
<1>. QED  BY <1>1, <1>2, <1>4, <1>7, <1>8 DEF MemFulfils, SameAnswer

LEMMA MarkedIs ==
    ASSUME NEW c
    PROVE  \A r \in Row : Assigned(r, "mark", c) = [r EXCEPT !.mark = c.at]
  BY AssignedIs

LEMMA BothAre ==
    ASSUME NEW does, NEW t, NEW a, does = [table |-> t, answer |-> a]
    PROVE  does.table = t /\ does.answer = a
  OBVIOUS

\* Some of the rows marked, each in place.
LEMMA MarkedHeld ==
    ASSUME NEW t, NEW m, NEW rows, Held(t, m, rows), NEW c, NEW S, S \subseteq rows,
           NEW changed, changed = {Assigned(r, "mark", c) : r \in S}, changed \subseteq Row,
           NEW edited, edited = [i \in DOMAIN m.rows |-> IF m.rows[i] \in S THEN Assigned(m.rows[i], "mark", c)
                                                         ELSE m.rows[i]],
           NEW after, after = [m EXCEPT !.rows = edited]
    PROVE  Held(t, after, (rows \ S) \cup changed)
<1>1. /\ \A i \in DOMAIN m.rows : m.rows[i] \in rows /\ m.rows[i] \in Row /\ m.rows[i].id = i
      /\ \A r \in rows : r \in Row /\ r.id \in DOMAIN m.rows /\ m.rows[r.id] = r
  BY HeldRows
<1>2. Agreed(t, m) /\ DOMAIN m = {"rows", "index", "lists"}
  BY DEF Held, Agreed
<1>3. /\ DOMAIN after = {"rows", "index", "lists"} /\ after.lists = m.lists /\ after.index = m.index
      /\ after.rows = edited
  BY <1>2
<1>4. /\ DOMAIN after.rows = DOMAIN m.rows
      /\ \A i \in DOMAIN m.rows : m.rows[i] \in S => after.rows[i] = Assigned(m.rows[i], "mark", c)
      /\ \A i \in DOMAIN m.rows : m.rows[i] \notin S => after.rows[i] = m.rows[i]
  BY <1>3
<1>5. \A r \in S : Assigned(r, "mark", c) \in Row
  OBVIOUS
<1>6. \A i \in DOMAIN m.rows : /\ after.rows[i] \in Row /\ after.rows[i].id = i
                               /\ after.rows[i].key = m.rows[i].key /\ after.rows[i].owner = m.rows[i].owner
  <2>. SUFFICES ASSUME NEW i \in DOMAIN m.rows
                PROVE  /\ after.rows[i] \in Row /\ after.rows[i].id = i
                       /\ after.rows[i].key = m.rows[i].key /\ after.rows[i].owner = m.rows[i].owner
    OBVIOUS
  <2>1. CASE m.rows[i] \in S
    BY <1>1, <1>4, <1>5, <2>1, AssignedIs
  <2>2. CASE m.rows[i] \notin S
    BY <1>1, <1>4, <2>2
  <2>. QED  BY <2>1, <2>2
<1>7. Agreed(t, after)
  BY <1>2, <1>3, <1>4, <1>6, EditedAgrees
<1>8. (rows \ S) \cup changed = {after.rows[i] : i \in DOMAIN after.rows}
  <2>1. \A r \in rows : r.id \in DOMAIN after.rows /\ m.rows[r.id] = r
    BY <1>1, <1>4
  <2>a. ASSUME NEW r \in rows \ S
        PROVE  \E i \in DOMAIN after.rows : r = after.rows[i]
    BY <1>4, <2>1
  <2>b. ASSUME NEW r \in changed
        PROVE  \E i \in DOMAIN after.rows : r = after.rows[i]
    <3>1. PICK x \in S : r = Assigned(x, "mark", c)
      OBVIOUS
    <3>. QED  BY <1>4, <2>1, <3>1
  <2>2. \A i \in DOMAIN after.rows : after.rows[i] \in (rows \ S) \cup changed
    BY <1>1, <1>4
  <2>. DEFINE all == {after.rows[i] : i \in DOMAIN after.rows}
  <2>3. all \subseteq (rows \ S) \cup changed
    BY <2>2
  <2>4. (rows \ S) \cup changed \subseteq all
    BY <2>a, <2>b
  <2>. QED  BY <2>3, <2>4
<1>. QED  BY <1>7, <1>8 DEF Held

\* Every unmarked row of an owner, through the owner's list.
LEMMA MemRevokeAllDoes ==
    ASSUME Held(table, memory, promised), Tidy(table, promised), table \in Listing,
           NEW c, c.owner \in Owners \cup {NoUuid}, NEW w, w.do = "mark all", NEW p,
           Tidy(table, Promise(table, p, promised, c).table),
           \/ p = "revokeAll" /\ w.reply # "number"
           \/ p = "revokeAllCounting" /\ w.reply = "number"
    PROVE  MemFulfils(w, p, c)
<1>. DEFINE S == {r \in {x \in promised : x.owner = c.owner} : r.mark = 0}
            changed == {Assigned(r, "mark", c) : r \in S}
            edited == [i \in DOMAIN memory.rows |-> IF memory.rows[i] \in S THEN Assigned(memory.rows[i], "mark", c)
                                                    ELSE memory.rows[i]]
            after == [memory EXCEPT !.rows = edited]
            answer == IF w.reply = "number" THEN Counted(Cardinality(S)) ELSE Done
<1>1. /\ Promise(table, p, promised, c).table = (promised \ S) \cup {[r EXCEPT !.mark = c.at] : r \in S}
      /\ p = "revokeAll" => Promise(table, p, promised, c).answer = Done
      /\ p = "revokeAllCounting" => Promise(table, p, promised, c).answer = Counted(Cardinality(S))
  BY DEF Promise
<1>2. {[r EXCEPT !.mark = c.at] : r \in S} = changed
  <2>1. \A r \in promised : r \in Row
    BY DEF Tidy
  <2>2. S \subseteq promised
    OBVIOUS
  <2>. HIDE DEF S
  <2>3. \A r \in S : Assigned(r, "mark", c) = [r EXCEPT !.mark = c.at]
    BY <2>1, <2>2, MarkedIs
  <2>. QED  BY <2>3
<1>3. MemCall(w, memory, c) = [table |-> after, answer |-> answer]
  <2>1. {r \in RowsOf(memory, ListIds(memory, "owner", c)) : r.mark = 0} = S
    BY OwnersList
  <2>2. MemCall(w, memory, c) = MemMarkAll(w, memory, c)
    BY DEF MemCall
  <2>3. ListIds(memory, "owner", c) \subseteq DOMAIN memory.rows
    BY OwnersList
  <2>. HIDE DEF S
  <2>. QED  BY <2>1, <2>2, <2>3, Zenon DEF MemMarkAll
<1>4. S \subseteq promised
  OBVIOUS
<1>. HIDE DEF S
<1>5. changed \subseteq Row
  <2>. HIDE DEF changed
  <2>. QED  BY <1>1, <1>2 DEF Tidy
<1>6. Held(table, after, (promised \ S) \cup changed)
  BY <1>4, <1>5, MarkedHeld
<1>. HIDE DEF after, changed
<1>7. answer = Promise(table, p, promised, c).answer
  BY <1>1
<1>. HIDE DEF answer
<1>8. MemCall(w, memory, c).table = after /\ MemCall(w, memory, c).answer = answer
  BY <1>3, BothAre
<1>. QED  BY <1>1, <1>2, <1>6, <1>7, <1>8 DEF MemFulfils, SameAnswer
-----------------------------------------------------------------------------
\* Every method of every table is one that keeps its promise.
MemKeptIn(t, promises, methods) == \A m \in DOMAIN promises : MemKeeping(t, promises[m], methods[m])

USE DEF EditsTo, KeepsAll, Method, Creates, Puts, Gets, Looks, Lists, ListsTrusting, Edits, EditsCounting,
        MarksAll, Deletes, Does, Indexed, Listing, Named, Hashed, Single, Stamped, Dated, Owned, Creating,
        Reading, Changing, Deleting

LEMMA UserStoreInMemory == MemKeptIn("users", UserStore, MemUsers)
<1>. DEFINE Met(m) == MemKeeping("users", UserStore[m], MemUsers[m])
<1>1. /\ Met("CreateUser") /\ Met("GetUserByID") /\ Met("GetUserByEmail") /\ Met("UpdateUser")
  BY DEF MemKeeping, UserStore, MemUsers
<1>. QED  BY <1>1 DEF UserStore, MemKeptIn

LEMMA RefreshTokenStoreInMemory == MemKeptIn("refresh", RefreshTokenStore, MemRefreshTokens)
<1>. DEFINE Met(m) == MemKeeping("refresh", RefreshTokenStore[m], MemRefreshTokens[m])
<1>1. /\ Met("CreateRefreshToken") /\ Met("GetRefreshTokenByHash") /\ Met("RevokeRefreshToken")
      /\ Met("ConsumeRefreshToken") /\ Met("TouchRefreshToken") /\ Met("RevokeAllUserRefreshTokens")
      /\ Met("ListActiveRefreshTokens")
  BY DEF MemKeeping, RefreshTokenStore, MemRefreshTokens
<1>. QED  BY <1>1 DEF RefreshTokenStore, MemKeptIn

LEMMA PasswordResetStoreInMemory == MemKeptIn("reset", PasswordResetStore, MemResetTokens)
<1>. DEFINE Met(m) == MemKeeping("reset", PasswordResetStore[m], MemResetTokens[m])
<1>1. /\ Met("CreatePasswordResetToken") /\ Met("GetPasswordResetTokenByHash")
      /\ Met("MarkPasswordResetTokenUsed") /\ Met("DeleteUserPasswordResetTokens")
  BY DEF MemKeeping, PasswordResetStore, MemResetTokens
<1>. QED  BY <1>1 DEF PasswordResetStore, MemKeptIn

LEMMA EmailVerificationStoreInMemory == MemKeptIn("verification", EmailVerificationStore, MemVerificationTokens)
<1>. DEFINE Met(m) == MemKeeping("verification", EmailVerificationStore[m], MemVerificationTokens[m])
<1>1. /\ Met("CreateEmailVerificationToken") /\ Met("GetEmailVerificationTokenByHash")
      /\ Met("MarkEmailVerificationTokenUsed") /\ Met("DeleteUserEmailVerificationTokens")
  BY DEF MemKeeping, EmailVerificationStore, MemVerificationTokens
<1>. QED  BY <1>1 DEF EmailVerificationStore, MemKeptIn

LEMMA TOTPStoreInMemory == MemKeptIn("totp", TOTPStore, MemTotp)
<1>. DEFINE Met(m) == MemKeeping("totp", TOTPStore[m], MemTotp[m])
<1>1. /\ Met("CreateTOTPSettings") /\ Met("GetTOTPSettingsByUserID") /\ Met("UpdateTOTPSettings")
      /\ Met("DeleteTOTPSettings")
  BY DEF MemKeeping, TOTPStore, MemTotp
<1>. QED  BY <1>1 DEF TOTPStore, MemKeptIn

LEMMA PendingTwoFactorStoreInMemory == MemKeptIn("pending", PendingTwoFactorStore, MemPending)
<1>. DEFINE Met(m) == MemKeeping("pending", PendingTwoFactorStore[m], MemPending[m])
<1>1. /\ Met("CreatePendingTwoFactorSession") /\ Met("GetPendingTwoFactorSessionByHash")
      /\ Met("DeletePendingTwoFactorSession")
  BY DEF MemKeeping, PendingTwoFactorStore, MemPending
<1>. QED  BY <1>1 DEF PendingTwoFactorStore, MemKeptIn

LEMMA AttemptStoreInMemory == MemKeptIn("attempts", AttemptStore, MemAttempts)
<1>. DEFINE Met(m) == MemKeeping("attempts", AttemptStore[m], MemAttempts[m])
<1>1. /\ Met("RecordFailedLoginAttempt") /\ Met("CountRecentFailedLoginAttempts")
      /\ Met("ClearFailedLoginAttempts")
  BY DEF MemKeeping, AttemptStore, MemAttempts
<1>. QED  BY <1>1 DEF AttemptStore, MemKeptIn

LEMMA AccountLockStoreInMemory == MemKeptIn("locks", AccountLockStore, MemLocks)
<1>. DEFINE Met(m) == MemKeeping("locks", AccountLockStore[m], MemLocks[m])
<1>1. /\ Met("LockAccount") /\ Met("IsAccountLocked") /\ Met("UnlockAccount")
  BY DEF MemKeeping, AccountLockStore, MemLocks
<1>. QED  BY <1>1 DEF AccountLockStore, MemKeptIn

LEMMA AccountStoreInMemory == MemKeptIn("accounts", AccountStore, MemAccounts)
<1>. DEFINE Met(m) == MemKeeping("accounts", AccountStore[m], MemAccounts[m])
<1>1. /\ Met("CreateAccount") /\ Met("GetAccount") /\ Met("GetAccountByProvider")
      /\ Met("ListAccountsByUser") /\ Met("UpdateAccount") /\ Met("DeleteAccount")
  BY DEF MemKeeping, AccountStore, MemAccounts
<1>. QED  BY <1>1 DEF AccountStore, MemKeptIn

LEMMA WebAuthnCredentialStoreInMemory == MemKeptIn("credentials", WebAuthnCredentialStore, MemCredentials)
<1>. DEFINE Met(m) == MemKeeping("credentials", WebAuthnCredentialStore[m], MemCredentials[m])
<1>1. /\ Met("CreateWebAuthnCredential") /\ Met("GetWebAuthnCredential")
      /\ Met("GetWebAuthnCredentialByCredentialID") /\ Met("ListWebAuthnCredentialsByUser")
      /\ Met("UpdateWebAuthnCredential") /\ Met("DeleteWebAuthnCredential")
  BY DEF MemKeeping, WebAuthnCredentialStore, MemCredentials
<1>. QED  BY <1>1 DEF WebAuthnCredentialStore, MemKeptIn

LEMMA WebAuthnChallengeStoreInMemory == MemKeptIn("challenges", WebAuthnChallengeStore, MemChallenges)
<1>. DEFINE Met(m) == MemKeeping("challenges", WebAuthnChallengeStore[m], MemChallenges[m])
<1>1. /\ Met("CreateWebAuthnChallenge") /\ Met("ConsumeWebAuthnChallenge")
  BY DEF MemKeeping, WebAuthnChallengeStore, MemChallenges
<1>. QED  BY <1>1 DEF WebAuthnChallengeStore, MemKeptIn

LEMMA EmailLoginStoreInMemory == MemKeptIn("emailLogin", EmailLoginStore, MemEmailLogin)
<1>. DEFINE Met(m) == MemKeeping("emailLogin", EmailLoginStore[m], MemEmailLogin[m])
<1>1. /\ Met("CreateEmailLoginToken") /\ Met("GetEmailLoginTokenByHash") /\ Met("GetEmailLoginTokenByEmail")
      /\ Met("MarkEmailLoginTokenUsed") /\ Met("IncrementEmailLoginTokenAttempts")
      /\ Met("DeleteEmailLoginTokens")
  BY DEF MemKeeping, EmailLoginStore, MemEmailLogin
<1>. QED  BY <1>1 DEF EmailLoginStore, MemKeptIn

LEMMA PersonalAccessTokenStoreInMemory == MemKeptIn("pats", PersonalAccessTokenStore, MemPats)
<1>. DEFINE Met(m) == MemKeeping("pats", PersonalAccessTokenStore[m], MemPats[m])
<1>1. /\ Met("CreatePersonalAccessToken") /\ Met("GetPersonalAccessToken")
      /\ Met("GetPersonalAccessTokenByHash") /\ Met("ListPersonalAccessTokensByUser")
      /\ Met("UpdatePersonalAccessToken")
  BY DEF MemKeeping, PersonalAccessTokenStore, MemPats
<1>. QED  BY <1>1 DEF PersonalAccessTokenStore, MemKeptIn

LEMMA DeviceAuthorizationStoreInMemory == MemKeptIn("devices", DeviceAuthorizationStore, MemDevices)
<1>. DEFINE Met(m) == MemKeeping("devices", DeviceAuthorizationStore[m], MemDevices[m])
<1>1. /\ Met("CreateDeviceAuthorization") /\ Met("GetDeviceAuthorizationByDeviceCodeHash")
      /\ Met("GetDeviceAuthorizationByUserCode") /\ Met("UpdateDeviceAuthorization")
      /\ Met("DeleteDeviceAuthorization")
  BY DEF MemKeeping, DeviceAuthorizationStore, MemDevices
<1>. QED  BY <1>1 DEF DeviceAuthorizationStore, MemKeptIn

LEMMA PINStoreInMemory == MemKeptIn("pins", PINStore, MemPins)
<1>. DEFINE Met(m) == MemKeeping("pins", PINStore[m], MemPins[m])
<1>1. /\ Met("SetPINCredential") /\ Met("GetPINCredential") /\ Met("DeletePINCredential")
  BY DEF MemKeeping, PINStore, MemPins
<1>. QED  BY <1>1 DEF PINStore, MemKeptIn

LEMMA BoundDeviceStoreInMemory == MemKeptIn("bound", BoundDeviceStore, MemBoundDevices)
<1>. DEFINE Met(m) == MemKeeping("bound", BoundDeviceStore[m], MemBoundDevices[m])
<1>1. /\ Met("CreateBoundDevice") /\ Met("GetBoundDevice") /\ Met("GetBoundDeviceByTokenHash")
      /\ Met("ListBoundDevicesByUser") /\ Met("TouchBoundDevice") /\ Met("RevokeBoundDevice")
      /\ Met("RevokeAllBoundDevices")
  BY DEF MemKeeping, BoundDeviceStore, MemBoundDevices
<1>. QED  BY <1>1 DEF BoundDeviceStore, MemKeptIn

LEMMA TeamStoreInMemory == MemKeptIn("teams", TeamStore, MemTeams)
<1>. DEFINE Met(m) == MemKeeping("teams", TeamStore[m], MemTeams[m])
<1>1. /\ Met("CreateTeam") /\ Met("GetTeam") /\ Met("GetTeamBySlug") /\ Met("UpdateTeam")
      /\ Met("DeleteTeam")
  BY DEF MemKeeping, TeamStore, MemTeams
<1>. QED  BY <1>1 DEF TeamStore, MemKeptIn

LEMMA MemberStoreInMemory == MemKeptIn("members", MemberStore, MemMembers)
<1>. DEFINE Met(m) == MemKeeping("members", MemberStore[m], MemMembers[m])
<1>1. /\ Met("CreateMember") /\ Met("GetMember") /\ Met("GetMemberByUserAndTeam")
      /\ Met("ListMembersByTeam") /\ Met("ListMembershipsByUser") /\ Met("UpdateMember")
      /\ Met("DeleteMember")
  BY DEF MemKeeping, MemberStore, MemMembers
<1>. QED  BY <1>1 DEF MemberStore, MemKeptIn

LEMMA InvitationStoreInMemory == MemKeptIn("invitations", InvitationStore, MemInvitations)
<1>. DEFINE Met(m) == MemKeeping("invitations", InvitationStore[m], MemInvitations[m])
<1>1. /\ Met("CreateInvitation") /\ Met("GetInvitation") /\ Met("GetInvitationByTokenHash")
      /\ Met("ListInvitationsByTeam") /\ Met("UpdateInvitation")
  BY DEF MemKeeping, InvitationStore, MemInvitations
<1>. QED  BY <1>1 DEF InvitationStore, MemKeptIn

LEMMA SuperuserStoreInMemory == MemKeptIn("superusers", SuperuserStore, MemSuperusers)
<1>. DEFINE Met(m) == MemKeeping("superusers", SuperuserStore[m], MemSuperusers[m])
<1>1. /\ Met("CreateSuperuser") /\ Met("GetSuperuserByID") /\ Met("GetSuperuserByEmail")
      /\ Met("ListSuperusers") /\ Met("UpdateSuperuser") /\ Met("CountSuperusers")
  BY DEF MemKeeping, SuperuserStore, MemSuperusers
<1>. QED  BY <1>1 DEF SuperuserStore, MemKeptIn

LEMMA SuperuserRefreshTokenStoreInMemory == MemKeptIn("superuserRefresh", SuperuserRefreshTokenStore, MemSuperuserTokens)
<1>. DEFINE Met(m) == MemKeeping("superuserRefresh", SuperuserRefreshTokenStore[m], MemSuperuserTokens[m])
<1>1. /\ Met("CreateSuperuserRefreshToken") /\ Met("GetSuperuserRefreshTokenByHash")
      /\ Met("RevokeSuperuserRefreshToken") /\ Met("ConsumeSuperuserRefreshToken")
      /\ Met("RevokeAllSuperuserRefreshTokens") /\ Met("ListActiveSuperuserRefreshTokens")
  BY DEF MemKeeping, SuperuserRefreshTokenStore, MemSuperuserTokens
<1>. QED  BY <1>1 DEF SuperuserRefreshTokenStore, MemKeptIn

LEMMA SuperuserTOTPStoreInMemory == MemKeptIn("superuserTotp", SuperuserTOTPStore, MemSuperuserTotp)
<1>. DEFINE Met(m) == MemKeeping("superuserTotp", SuperuserTOTPStore[m], MemSuperuserTotp[m])
<1>1. /\ Met("CreateSuperuserTOTPSettings") /\ Met("GetSuperuserTOTPSettings")
      /\ Met("UpdateSuperuserTOTPSettings") /\ Met("DeleteSuperuserTOTPSettings")
  BY DEF MemKeeping, SuperuserTOTPStore, MemSuperuserTotp, MemTotp
<1>. QED  BY <1>1 DEF SuperuserTOTPStore, MemKeptIn

LEMMA SuperuserPendingStoreInMemory == MemKeptIn("superuserPending", SuperuserPendingStore, MemSuperuserPending)
<1>. DEFINE Met(m) == MemKeeping("superuserPending", SuperuserPendingStore[m], MemSuperuserPending[m])
<1>1. /\ Met("CreateSuperuserPendingTwoFactorSession") /\ Met("GetSuperuserPendingTwoFactorSessionByHash")
      /\ Met("DeleteSuperuserPendingTwoFactorSession")
  BY DEF MemKeeping, SuperuserPendingStore, MemSuperuserPending, MemPending
<1>. QED  BY <1>1 DEF SuperuserPendingStore, MemKeptIn

HIDE DEF EditsTo, KeepsAll, Method, Creates, Puts, Gets, Looks, Lists, ListsTrusting, Edits, EditsCounting,
         MarksAll, Deletes, Does, Indexed, Listing, Named, Hashed, Single, Stamped, Dated, Owned, Creating,
         Reading, Changing, Deleting

LEMMA AllMemKept == \A t \in Tables : MemKeptIn(t, Port[t], Mem[t])
<1>. DEFINE Met(t) == MemKeptIn(t, Port[t], Mem[t])
<1>1. Met("users")
  BY UserStoreInMemory DEF Port, Mem
<1>2. Met("refresh")
  BY RefreshTokenStoreInMemory DEF Port, Mem
<1>3. Met("reset")
  BY PasswordResetStoreInMemory DEF Port, Mem
<1>4. Met("verification")
  BY EmailVerificationStoreInMemory DEF Port, Mem
<1>5. Met("totp")
  BY TOTPStoreInMemory DEF Port, Mem
<1>6. Met("pending")
  BY PendingTwoFactorStoreInMemory DEF Port, Mem
<1>7. Met("attempts")
  BY AttemptStoreInMemory DEF Port, Mem
<1>8. Met("locks")
  BY AccountLockStoreInMemory DEF Port, Mem
<1>9. Met("accounts")
  BY AccountStoreInMemory DEF Port, Mem
<1>10. Met("credentials")
  BY WebAuthnCredentialStoreInMemory DEF Port, Mem
<1>11. Met("challenges")
  BY WebAuthnChallengeStoreInMemory DEF Port, Mem
<1>12. Met("emailLogin")
  BY EmailLoginStoreInMemory DEF Port, Mem
<1>13. Met("pats")
  BY PersonalAccessTokenStoreInMemory DEF Port, Mem
<1>14. Met("devices")
  BY DeviceAuthorizationStoreInMemory DEF Port, Mem
<1>15. Met("pins")
  BY PINStoreInMemory DEF Port, Mem
<1>16. Met("bound")
  BY BoundDeviceStoreInMemory DEF Port, Mem
<1>17. Met("teams")
  BY TeamStoreInMemory DEF Port, Mem
<1>18. Met("members")
  BY MemberStoreInMemory DEF Port, Mem
<1>19. Met("invitations")
  BY InvitationStoreInMemory DEF Port, Mem
<1>20. Met("superusers")
  BY SuperuserStoreInMemory DEF Port, Mem
<1>21. Met("superuserRefresh")
  BY SuperuserRefreshTokenStoreInMemory DEF Port, Mem
<1>22. Met("superuserTotp")
  BY SuperuserTOTPStoreInMemory DEF Port, Mem
<1>23. Met("superuserPending")
  BY SuperuserPendingStoreInMemory DEF Port, Mem
<1>24. Tables = {"users", "refresh", "reset", "verification", "totp", "pending", "attempts", "locks",
                  "accounts", "credentials", "challenges", "emailLogin", "pats", "devices", "pins", "bound",
                  "teams", "members", "invitations", "superusers", "superuserRefresh", "superuserTotp",
                  "superuserPending"}
  BY DEF Tables, Port
<1>. QED  BY <1>1, <1>2, <1>3, <1>4, <1>5, <1>6, <1>7, <1>8, <1>9, <1>10, <1>11, <1>12, <1>13, <1>14, <1>15,
            <1>16, <1>17, <1>18, <1>19, <1>20, <1>21, <1>22, <1>23, <1>24
-----------------------------------------------------------------------------
\* Whatever the promise.
LEMMA MemMeantDoes ==
    ASSUME NEW m, NEW w, NEW c, MemMeant(m, w, c), Tidy(table, Promise(table, Port[table][m], promised, c).table)
    PROVE  MemFulfils(w, Port[table][m], c)
<1>. DEFINE p == Port[table][m]
<1>1. /\ ClockOK /\ Tidy(table, promised) /\ CallIs(m, c) /\ MemKeeping(table, p, w)
      /\ MemoryAsPromised /\ Held(table, memory, promised) /\ Tidy(table, Promise(table, p, promised, c).table)
  BY DEF MemMeant, MemoryAsPromised
<1>2. table \notin Stamped => c.at = 1
  BY <1>1, ArgsAre
<1>3. p \in ByOwner /\ table \in Listing => c.owner \in Owners \cup {NoUuid}
  BY <1>1 DEF CallIs, OwnerArgs, Listing, ByOwner, Creating
<1>4. p \in {"getByPair", "listByKey"} /\ table = "members" => c.key \in Keys \cup {NoUuid}
  BY <1>1 DEF CallIs, KeyArgs, ByKey, Creating
<1>. SUFFICES MemFulfils(w, p, c)
  OBVIOUS
<1>5. CASE p \in Creating
  BY <1>5, MemCreateDoes, MemSetDoes, MemEnsureDoes DEF Creating
<1>. HIDE DEF p
<1>6. CASE p = "get"
  BY <1>1, <1>6, MemGetDoes DEF MemKeeping
<1>7. CASE p = "getByKey"
  BY <1>1, <1>7, MemGetByKeyDoes DEF MemKeeping
<1>8. CASE p = "getByPair"
  BY <1>1, <1>4, <1>8, MemGetByPairDoes DEF MemKeeping
<1>9. CASE p = "getNewest"
  BY <1>1, <1>3, <1>9, MemGetNewestDoes DEF MemKeeping, ByOwner
<1>10. CASE p = "exists"
  BY <1>1, <1>10, MemExistsDoes DEF MemKeeping
<1>11. CASE p \in {"list", "listOldestFirst"}
  BY <1>1, <1>3, <1>11, MemListDoes DEF MemKeeping, ByOwner
<1>12. CASE p \in {"listLive", "listLiveOldestFirst"}
  BY <1>1, <1>3, <1>12, MemListDoes DEF MemKeeping, ByOwner
<1>13. CASE p = "listByKey"
  BY <1>1, <1>4, <1>13, MemListByKeyDoes DEF MemKeeping
<1>14. CASE p = "listAll"
  BY <1>1, <1>14, MemListAllDoes DEF MemKeeping
<1>15. CASE p = "countAll"
  BY <1>1, <1>15, MemCountAllDoes DEF MemKeeping
<1>16. CASE p = "countSince"
  BY <1>1, <1>16, MemCountSinceDoes DEF MemKeeping
<1>17. CASE p = "replace"
  BY <1>1, <1>17, MemEditDoes DEF MemKeeping
<1>18. CASE p = "useOnce"
  BY <1>1, <1>18, MemEditDoes DEF MemKeeping
<1>19. CASE p = "extend"
  BY <1>1, <1>19, MemEditDoes DEF MemKeeping
<1>20. CASE p = "touch"
  BY <1>1, <1>20, MemEditDoes DEF MemKeeping
<1>21. CASE p = "revoke"
  BY <1>1, <1>2, <1>21, MemRevokeDoes DEF MemKeeping
<1>22. CASE p = "consume"
  BY <1>1, <1>22, MemConsumeDoes DEF MemKeeping
<1>23. CASE p = "increment"
  BY <1>1, <1>23, MemIncrementDoes DEF MemKeeping
<1>24. CASE p = "revokeAll"
  BY <1>1, <1>3, <1>24, MemRevokeAllDoes DEF MemKeeping, ByOwner
<1>25. CASE p = "revokeAllCounting"
  BY <1>1, <1>3, <1>25, MemRevokeAllDoes DEF MemKeeping, ByOwner
<1>26. CASE p = "take"
  BY <1>1, <1>26, MemTakeDoes DEF MemKeeping
<1>27. CASE p = "remove"
  BY <1>1, <1>27, MemDeleteDoes DEF MemKeeping
<1>28. CASE p = "forget"
  BY <1>1, <1>28, MemDeleteDoes DEF MemKeeping
<1>29. CASE p = "clear"
  BY <1>1, <1>3, <1>29, MemClearDoes DEF MemKeeping, ByOwner
<1>30. p \in Creating \cup Reading \cup Changing \cup Deleting
  BY <1>1 DEF MemKeeping
<1>31. CASE p \in Reading
  BY <1>6, <1>7, <1>8, <1>9, <1>10, <1>11, <1>12, <1>13, <1>14, <1>15, <1>16, <1>31 DEF Reading
<1>32. CASE p \in Changing
  BY <1>17, <1>18, <1>19, <1>20, <1>21, <1>22, <1>23, <1>24, <1>25, <1>32 DEF Changing
<1>33. CASE p \in Deleting
  BY <1>26, <1>27, <1>28, <1>29, <1>33 DEF Deleting
<1>. QED  BY <1>5, <1>30, <1>31, <1>32, <1>33
-----------------------------------------------------------------------------
\* Rows are of the ids, the owners and the ages they were created with.
LEMMA StaysOwn ==
    ASSUME Tidy(table, promised), NEW c, NEW p, p \in Reading \cup Changing \cup Deleting
    PROVE  \A r \in Promise(table, p, promised, c).table :
             \E x \in promised : r.id = x.id /\ r.owner = x.owner /\ r.born = x.born
<1>. DEFINE this == {r \in promised : r.id = c.id}
            theirs == {r \in promised : r.owner = c.owner}
            mine == {r \in this : r.mark = 0}
            ours == {r \in theirs : r.mark = 0}
            after == Promise(table, p, promised, c).table
            Own(rows) == \A r \in rows : \E x \in promised : r.id = x.id /\ r.owner = x.owner /\ r.born = x.born
            Filled(S) == (promised \ S) \cup {[r EXCEPT !.val = c.val] : r \in S}
            Marked(S) == (promised \ S) \cup {[r EXCEPT !.mark = c.at] : r \in S}
            Extended(S) == (promised \ S) \cup {[r EXCEPT !.exp = c.exp] : r \in S}
            Bumped(S) == (promised \ S) \cup {[r EXCEPT !.hits = @ + 1] : r \in S}
<1>. SUFFICES Own(after)
  OBVIOUS
<1>1. \A r \in promised : r \in Row
  BY DEF Tidy
<1>2. CASE p \in Reading
  <2>1. after = promised
    BY <1>2, ZenonT(60) DEF Reading, Promise
  <2>. HIDE DEF after
  <2>. QED  BY <2>1
<1>3. CASE p \in Deleting
  <2>1. \E S : after = promised \ S
    BY <1>3 DEF Deleting, Promise
  <2>. HIDE DEF after
  <2>. QED  BY <2>1
<1>4. ASSUME NEW S \in SUBSET promised
      PROVE  Own(Filled(S)) /\ Own(Marked(S)) /\ Own(Extended(S)) /\ Own(Bumped(S))
  <2>. DEFINE Like(r, x) == r.id = x.id /\ r.owner = x.owner /\ r.born = x.born
  <2>1. \A x \in S : /\ Like([x EXCEPT !.val = c.val], x) /\ Like([x EXCEPT !.mark = c.at], x)
                    /\ Like([x EXCEPT !.exp = c.exp], x) /\ Like([x EXCEPT !.hits = @ + 1], x)
    BY <1>1, <1>4 DEF Row
  <2>2. \A x \in promised : Like(x, x)
    OBVIOUS
  <2>. HIDE DEF Like
  <2>3. /\ \A r \in Filled(S) \cup Marked(S) : \E x \in promised : Like(r, x)
        /\ \A r \in Extended(S) \cup Bumped(S) : \E x \in promised : Like(r, x)
    BY <1>4, <2>1, <2>2
  <2>. HIDE DEF Filled, Marked, Extended, Bumped
  <2>. QED  BY <2>3 DEF Like
<1>5. /\ p = "replace" => after = Filled(this)
      /\ p \in {"revoke", "consume", "useOnce"} => after = Marked(mine)
      /\ p = "extend" => after = Extended(mine)
      /\ p = "touch" => after = Filled(mine)
      /\ p = "increment" => after = Bumped(this)
      /\ p \in {"revokeAll", "revokeAllCounting"} => after = Marked(ours)
  BY DEF Promise
<1>6. this \in SUBSET promised /\ mine \in SUBSET promised /\ ours \in SUBSET promised
  OBVIOUS
<1>. HIDE DEF this, mine, ours, after, Own, Filled, Marked, Extended, Bumped
<1>. QED  BY <1>2, <1>3, <1>4, <1>5, <1>6 DEF Changing

\* A row created is of a new id, unless the id is its owner's, and no other
\* row of its owner is as old.
LEMMA CreatedIs ==
    ASSUME NEW m, NEW c, ClockOK, CallIs(m, c), NEW p, p = Port[table][m], p \in Creating,
           p = "set" => table = "pins", p = "ensure" => table = "locks", table = "locks" => p = "ensure"
    PROVE  LET promise == Promise(table, p, promised, c)
           IN /\ table \notin Single =>
                   \A r \in promise.table : r \in promised \/ (r.id = c.id /\ promise.answer = Done)
              /\ table \in Dated \ Single =>
                   \A r \in promise.table :
                      \/ r \in promised
                      \/ r = RowOf(c) /\ \A x \in promised : ~(x.owner = r.owner /\ x.born = r.born)
              /\ table = "locks" =>
                   \A r \in promise.table :
                      \/ r \in promised
                      \/ /\ r.key = NoArg /\ r.owner = NoArg /\ r.val = NoArg /\ r.mark = 0 /\ r.exp = 0
                         /\ r.hits = 0 /\ r.born = 0
<1>. DEFINE n == RowOf(c)
            after == Promise(table, p, promised, c).table
            answer == Promise(table, p, promised, c).answer
<1>1. /\ n.id = c.id /\ n.key = c.key /\ n.owner = c.owner /\ n.val = c.val /\ n.mark = 0 /\ n.exp = c.exp
      /\ n.hits = 0 /\ n.born = c.born
  BY RowOfIs
<1>2. CASE p = "set"
  BY <1>2 DEF Single, Dated
<1>3. CASE p = "ensure"
  <2>1. \A r \in after : r \in promised \/ r = n
    BY <1>3 DEF Promise
  <2>2. c.key = NoArg /\ c.owner = NoArg /\ c.exp = 0
    BY <1>3, CreatingIs DEF Hashed, Named, Owned, Expiring
  <2>3. c.val = NoArg /\ c.born = 0
    BY <1>3 DEF CallIs, ValArgs, BornArgs, Dated
  <2>4. table \in Single
    BY <1>3 DEF Single
  <2>. HIDE DEF n, after
  <2>5. \A r \in after : \/ r \in promised
                         \/ /\ r.key = NoArg /\ r.owner = NoArg /\ r.val = NoArg /\ r.mark = 0 /\ r.exp = 0
                            /\ r.hits = 0 /\ r.born = 0
    BY <1>1, <2>1, <2>2, <2>3
  <2>. QED  BY <2>4, <2>5 DEF after
<1>4. CASE p = "create"
  <2>1. \A r \in after : r \in promised \/ (r = n /\ answer = Done)
    BY <1>4 DEF Promise
  <2>2. table \in Dated \ Single => \A x \in promised : ~(x.owner = c.owner /\ x.born = c.born)
    BY DEF CallIs, Legal
  <2>3. table # "locks"
    BY <1>4
  <2>. HIDE DEF n, after, answer
  <2>4. \A r \in after : r \in promised \/ (r.id = c.id /\ answer = Done)
    BY <1>1, <2>1
  <2>5. table \in Dated \ Single =>
          \A r \in after : r \in promised \/ (r = n /\ \A x \in promised : ~(x.owner = r.owner /\ x.born = r.born))
    BY <1>1, <2>1, <2>2
  <2>. QED  BY <2>3, <2>4, <2>5 DEF after, n, answer
<1>. QED  BY <1>2, <1>3, <1>4 DEF Creating

\* A legal call is of a method of the in-memory store that keeps its promise.
LEMMA MemCallMeant ==
    ASSUME SqlAsPromised, MemoryAsPromised, NEW c \in Calls
    PROVE  /\ c.method \in DOMAIN Port[table] /\ CallIs(c.method, c)
           /\ MemMeant(c.method, Mem[table][c.method], c)
<1>1. c.method \in DOMAIN Port[table] /\ CallIs(c.method, c)
  BY CallFacts DEF CallIs
<1>2. MemKeeping(table, Port[table][c.method], Mem[table][c.method])
  BY <1>1, AllMemKept DEF SqlAsPromised, ClockOK, MemKeptIn
<1>. QED  BY <1>1, <1>2 DEF MemMeant, SqlAsPromised

\* What a call does to the maps and what the in-memory store answers.
LEMMA MemCallDoes ==
    ASSUME SqlAsPromised, MemoryAsPromised, NEW c \in Calls
    PROVE  /\ Held(table, InMemory(c).table, Promised(c).table)
           /\ (Port[table][c.method] \in ByAge => InOrder) => SameAnswer(InMemory(c).answer, Promised(c).answer)
<1>1. MemMeant(c.method, Mem[table][c.method], c)
  BY MemCallMeant
<1>2. Tidy(table, Promise(table, Port[table][c.method], promised, c).table)
  BY CallDoes DEF Promised
<1>. QED  BY <1>1, <1>2, MemMeantDoes DEF MemFulfils, InMemory, Promised

\* A call leaves the maps and the promised rows as MemoryAsPromised says.
LEMMA MemoryStep ==
    ASSUME SqlAsPromised, MemoryAsPromised, made \subseteq Ids, NEW c \in Calls, Make(c)
    PROVE  MemoryAsPromised' /\ made' \subseteq Ids
<1>. DEFINE p == Port[table][c.method]
            after == Promised(c).table
            answer == Promised(c).answer
<1>1. /\ ClockOK /\ Tidy(table, promised) /\ CallIs(c.method, c) /\ MemKeeping(table, p, Mem[table][c.method])
      /\ Tidy(table, after) /\ Held(table, InMemory(c).table, after)
  BY MemCallMeant, MemCallDoes, CallDoes DEF SqlAsPromised, MemMeant
<1>2. /\ promised' = after /\ memory' = InMemory(c).table /\ table' = table
      /\ made' = IF table \notin Single /\ p \in Creating /\ answer = Done THEN made \cup {c.id} ELSE made
  BY DEF Make
<1>3. /\ table \notin Single => \A r \in promised : r.id \in made
      /\ table \in Dated \ Single => \A r, s \in promised : r.owner = s.owner /\ r.born = s.born => r = s
      /\ table = "locks" =>
           \A r \in promised : r.key = NoArg /\ r.owner = NoArg /\ r.val = NoArg /\ r.mark = 0 /\ r.exp = 0
                               /\ r.hits = 0 /\ r.born = 0
  BY DEF MemoryAsPromised
<1>4. /\ p \in Creating \cup Reading \cup Changing \cup Deleting
      /\ table = "locks" => p \in {"ensure", "exists", "forget"}
      /\ p = "set" => table = "pins"
      /\ p = "ensure" => table = "locks"
  BY <1>1 DEF MemKeeping
<1>5. made' \subseteq Ids
  BY <1>1, <1>2, CreatingIs
<1>6. Held(table', memory', promised')
  BY <1>1, <1>2
<1>7. /\ table \notin Single => \A r \in after : r.id \in made'
      /\ table \in Dated \ Single => \A r, s \in after : r.owner = s.owner /\ r.born = s.born => r = s
      /\ table = "locks" =>
           \A r \in after : r.key = NoArg /\ r.owner = NoArg /\ r.val = NoArg /\ r.mark = 0 /\ r.exp = 0
                            /\ r.hits = 0 /\ r.born = 0
  <2>1. CASE p \in Creating
    <3>1. /\ table \notin Single => \A r \in after : r \in promised \/ (r.id = c.id /\ answer = Done)
          /\ table \in Dated \ Single =>
               \A r \in after :
                  r \in promised \/ (r = RowOf(c) /\ \A x \in promised : ~(x.owner = r.owner /\ x.born = r.born))
          /\ table = "locks" =>
               \A r \in after :
                  \/ r \in promised
                  \/ /\ r.key = NoArg /\ r.owner = NoArg /\ r.val = NoArg /\ r.mark = 0 /\ r.exp = 0
                     /\ r.hits = 0 /\ r.born = 0
      <4>1. table = "locks" => p = "ensure"
        BY <1>4, <2>1 DEF Creating
      <4>. QED  BY <1>1, <1>4, <2>1, <4>1, CreatedIs DEF Promised
    <3>. HIDE DEF p, after, answer
    <3>. QED  BY <1>2, <1>3, <2>1, <3>1
  <2>2. CASE p \in Reading \cup Changing \cup Deleting
    <3>1. \A r \in after : \E x \in promised : r.id = x.id /\ r.owner = x.owner /\ r.born = x.born
      BY <1>1, <2>2, StaysOwn DEF Promised
    <3>2. \A r, s \in after : r.id = s.id => r = s
      BY <1>1 DEF Tidy
    <3>3. table = "locks" => after \subseteq promised
      <4>1. p \in {"exists", "forget"} => after \subseteq promised
        BY DEF Promised, Promise
      <4>. QED  BY <1>4, <2>2, <4>1 DEF Reading, Changing, Deleting
    <3>. HIDE DEF p, after, answer
    <3>4. made \subseteq made'
      BY <1>2
    <3>5. table \in Dated \ Single => \A r, s \in after : r.owner = s.owner /\ r.born = s.born => r = s
      BY <1>3, <3>1, <3>2
    <3>6. table \notin Single => \A r \in after : r.id \in made'
      BY <1>3, <3>1, <3>4
    <3>. QED  BY <1>3, <3>3, <3>5, <3>6
  <2>. QED  BY <1>4, <2>1, <2>2
<1>. HIDE DEF after, p, answer
<1>. QED  BY <1>2, <1>5, <1>6, <1>7 DEF MemoryAsPromised

\* Empty maps hold no row.
LEMMA MemoryStart == ASSUME StoresInit PROVE MemoryAsPromised /\ made \subseteq Ids
<1>1. /\ memory = EmptyMemory /\ promised = {} /\ made = {}
  BY DEF StoresInit
<1>2. /\ DOMAIN memory = {"rows", "index", "lists"} /\ DOMAIN memory.lists = Listers
      /\ DOMAIN memory.rows = {} /\ DOMAIN memory.index = {}
      /\ \A o \in Listers : memory.lists[o] = <<>>
  BY <1>1 DEF EmptyMemory
<1>3. \A o \in Owners \cup Keys \cup {NoUuid} : ListOf(memory.lists[o], {})
  BY <1>2, EmptyListOf DEF Listers
<1>4. /\ \A o : {i \in DOMAIN memory.rows : memory.rows[i].owner = o} = {}
      /\ \A k : {i \in DOMAIN memory.rows : memory.rows[i].key = k} = {}
  BY <1>2
<1>5. Agreed(table, memory)
  BY <1>2, <1>3, <1>4 DEF Agreed
<1>6. Held(table, memory, promised)
  BY <1>1, <1>2, <1>5 DEF Held
<1>. QED  BY <1>1, <1>6 DEF MemoryAsPromised

\* MemoryAsPromised holds in every reachable state: no sequence of calls
\* leaves the maps of memstore apart, or other rows in them than the promised.
THEOREM MemoryRowsAsPromised == StoresSpec => [](MemoryAsPromised /\ made \subseteq Ids)
<1>1. StoresInit => MemoryAsPromised /\ made \subseteq Ids
  BY MemoryStart
<1>2. ASSUME SqlAsPromised, MemoryAsPromised /\ made \subseteq Ids, [StoresNext]_storesVars
      PROVE  (MemoryAsPromised /\ made \subseteq Ids)'
  <2>1. CASE Pass
    BY <1>2, <2>1 DEF Pass, MemoryAsPromised
  <2>2. ASSUME NEW c \in Calls, Make(c)
        PROVE  (MemoryAsPromised /\ made \subseteq Ids)'
    BY <1>2, <2>2, MemoryStep
  <2>3. CASE UNCHANGED storesVars
    BY <1>2, <2>3 DEF storesVars, MemoryAsPromised
  <2>. QED  BY <1>2, <2>1, <2>2, <2>3 DEF StoresNext
<1>. QED  BY <1>1, <1>2, SqlRowsAsPromised, PTL DEF StoresSpec

\* Whatever sequence of calls came before, memstore answers every legal call
\* as its port promises; where the age of rows decides, if they were created
\* in the order of their created_at.
THEOREM MemoryIsConformant == StoresSpec => []MemoryAnswers
<1>1. ASSUME SqlAsPromised, MemoryAsPromised
      PROVE  MemoryAnswers
  <2>. SUFFICES ASSUME NEW c \in Calls
                PROVE  \/ Port[table][c.method] \in {"getNewest", "listOldestFirst", "listLiveOldestFirst"} /\ ~InOrder
                       \/ Agrees(InMemory(c).answer, Promised(c).answer)
    BY DEF MemoryAnswers
  <2>1. (Port[table][c.method] \in ByAge => InOrder) => SameAnswer(InMemory(c).answer, Promised(c).answer)
    BY <1>1, MemCallDoes
  <2>. QED  BY <2>1, SameAgrees DEF ByAge
<1>. QED  BY <1>1, SqlRowsAsPromised, MemoryRowsAsPromised, PTL

\* The state stays of its type: rows of all four hands, ids and clock.
THEOREM StoresTypeCorrect == StoresSpec => []StoresTypeOK
<1>1. ASSUME SqlAsPromised, MemoryAsPromised /\ made \subseteq Ids
      PROVE  StoresTypeOK
  <2>1. {memory.rows[i] : i \in DOMAIN memory.rows} = promised
    BY <1>1 DEF MemoryAsPromised, Held
  <2>. QED  BY <1>1, <2>1 DEF SqlAsPromised, ClockOK, Tidy, StoresTypeOK
<1>. QED  BY <1>1, SqlRowsAsPromised, MemoryRowsAsPromised, PTL
=============================================================================
