----------------------------- MODULE AccountProofs -----------------------------
(***************************************************************************)
(* Proofs about Account: the type invariant, the sessions and the reset,   *)
(* for any number of requests, passwords and links.                        *)
(***************************************************************************)
EXTENDS Account, TLAPS

\* The states of a request that has found no row, or has not looked for one.
Early == {"idle", "register", "fetch", "record"}

\* The steps that have let a sign-in through.
Admitted(q) == q.pc \in {"clear", "issue"} \/ (q.pc = "markDelete" /\ q.after = "issue")

\* What is known of a request's local state q when the row is u and t tells
\* whether a write has overtaken another: it holds the copy and the link its next step
\* works with, it has nothing to do with a row that is not there, with a
\* TxRunner it is never inside a reset, and what it let through, or has read
\* to be verified, is verified.
Sound(q, c, u, t) ==
    /\ q.pc \in {"lockout", "rehash", "change", "resetWrite", "verifyWrite",
                 "markWrite", "signLockout"} => q.copy \in Row
    /\ q.pc \in {"resetUser", "resetWrite", "resetMark",
                 "verifyUser", "verifyWrite", "verifyMark"} => q.link \in Links
    /\ u = Gone => q.pc \in Early /\ q.copy = Gone
    /\ c.hasTx => q.pc \notin {"resetMark", "resetRevoke"}
    /\ c.required /\ ~t /\ (Admitted(q) \/ (q.copy \in Row /\ q.copy.verified))
         => u.verified

AllSound == \A r \in Requests : Sound(req[r], conf, row, overtaken)

\* Links and sessions are some user's.
OfSomebody == row = Gone => sessions = {} /\ \A l \in Links : link[l] = Gone

Inv == TypeOK /\ AllSound /\ OfSomebody /\ SessionsAreVerified

-----------------------------------------------------------------------------
LEMMA PCsList ==
    \A p \in {"idle", "register", "fetch", "lockout", "record", "rehash", "clear", "issue",
              "change", "resetToken", "resetUser", "resetWrite", "resetMark", "resetRevoke",
              "verifyToken", "verifyUser", "verifyWrite", "verifyMark",
              "markRead", "markWrite", "markDelete", "signLockout", "unlockClear"} : p \in PCs
BY DEF PCs

\* A request that carries nothing but its next step and an "after".
LEMMA IdleType ==
    ASSUME NEW p \in PCs, NEW a \in {"return", "issue", "pending"}
    PROVE  /\ Idle \in Request
           /\ [Idle EXCEPT !.pc = p] \in Request
           /\ [Idle EXCEPT !.pc = p, !.after = a] \in Request
<1>1. "idle" \in PCs BY DEF PCs
<1> QED BY <1>1 DEF Idle, Request

\* A request that carries nothing is sound wherever its next step needs no
\* copy and no link, and lets nobody in.
LEMMA IdleSound ==
    ASSUME NEW c \in Conf, NEW u, NEW t
    PROVE  Sound(Idle, c, u, t)
BY GoneAssumption DEF Idle, Sound, Early, Admitted

LEMMA BareSound ==
    ASSUME NEW c \in Conf, NEW u, NEW t, NEW a \in {"return", "issue", "pending"},
           NEW p \in {"register", "fetch", "record", "resetToken", "verifyToken",
                      "markRead", "unlockClear"},
           u = Gone => p \in Early
    PROVE  Sound([Idle EXCEPT !.pc = p, !.after = a], c, u, t)
BY GoneAssumption DEF Idle, Sound, Early, Admitted

\* A step that gives request r the local state q, when the requests are
\* sound in the rows it leaves.
LEMMA StartType ==
    ASSUME TypeOK, NEW r \in Requests, NEW q \in Request,
           req' = [req EXCEPT ![r] = q],
           Sound(q, conf', row', overtaken'),
           \A s \in Requests : Sound(req[s], conf', row', overtaken')
    PROVE  req' \in [Requests -> Request] /\ AllSound'
<1>1. req' \in [Requests -> Request] BY DEF TypeOK
<1>2. ASSUME NEW s \in Requests PROVE Sound(req'[s], conf', row', overtaken')
  <2>1. req'[s] = IF s = r THEN q ELSE req[s] BY DEF TypeOK
  <2> QED BY <2>1
<1> QED BY <1>1, <1>2 DEF AllSound

LEMMA ReturnInv ==
    ASSUME TypeOK, NEW r \in Requests, Return(r), conf' \in Conf,
           \A s \in Requests : Sound(req[s], conf', row', overtaken')
    PROVE  req' \in [Requests -> Request] /\ AllSound'
<1>1. Sound(Idle, conf', row', overtaken') BY IdleSound
<1>2. Idle \in Request BY IdleType, PCsList
<1> QED BY <1>1, <1>2, StartType DEF Return

\* UpdateUser with u, when a copy nobody has overtaken is not made to lose
\* a verification: the other requests stay sound.
LEMMA UpdateUserInv ==
    ASSUME Inv, NEW r \in Requests, NEW u \in Row, row # Gone,
           UpdateUser(r, u), conf' = conf,
           ~overtaken /\ req[r].copy = row => (row.verified => u.verified)
    PROVE  /\ row' \in Row /\ row' = u
           /\ overtaken' \in BOOLEAN
           /\ ~overtaken' => ~overtaken /\ req[r].copy = row /\ (row.verified => row'.verified)
           /\ \A s \in Requests : Sound(req[s], conf', row', overtaken')
<1>1. row' = u /\ overtaken' \in BOOLEAN BY DEF UpdateUser
<1>2. ~overtaken' => ~overtaken /\ req[r].copy = row /\ (row.verified => row'.verified)
  BY <1>1 DEF UpdateUser
<1>3. u # Gone BY GoneAssumption
<1>4. ASSUME NEW s \in Requests PROVE Sound(req[s], conf', row', overtaken')
  <2>1. Sound(req[s], conf, row, overtaken) BY DEF Inv, AllSound
  <2> QED BY <1>1, <1>2, <1>3, <2>1 DEF Sound
<1> QED BY <1>1, <1>2, <1>4

\* A step that leaves the row leaves the requests sound.
LEMMA SameRow ==
    ASSUME Inv, UNCHANGED <<conf, row, overtaken>>
    PROVE  /\ conf' \in Conf /\ conf' = conf
          
           /\ \A s \in Requests : Sound(req[s], conf', row', overtaken')
BY DEF Inv, TypeOK, AllSound

LEMMA GotoInv ==
    ASSUME TypeOK, NEW r \in Requests, NEW p \in PCs, Goto(r, p), conf' \in Conf,
           Sound([Idle EXCEPT !.pc = p], conf', row', overtaken'),
           \A s \in Requests : Sound(req[s], conf', row', overtaken')
    PROVE  req' \in [Requests -> Request] /\ AllSound'
<1> DEFINE q == [Idle EXCEPT !.pc = p]
<1>1. q \in Request BY IdleType DEF Idle
<1>2. Sound(q, conf', row', overtaken') OBVIOUS
<1>3. req' = [req EXCEPT ![r] = q] BY DEF Goto
<1> HIDE DEF q
<1> QED BY <1>1, <1>2, <1>3, StartType

\* A request that lets a sign-in through has seen to it that the address is
\* verified, wherever it has to be.
LEMMA AdmitSound ==
    ASSUME NEW c \in Conf, NEW u, NEW t, NEW p \in {"clear", "issue"}, u # Gone,
           c.required /\ ~t => u.verified
    PROVE  Sound([Idle EXCEPT !.pc = p], c, u, t)
BY DEF Idle, Sound, Early, Admitted

\* A request that has just read the row.
LEMMA FetchInv ==
    ASSUME Inv, NEW r \in Requests, UNCHANGED <<conf, row, overtaken>>, row # Gone,
           NEW p \in {"lockout", "change", "resetWrite", "verifyWrite", "markWrite", "signLockout"},
           Fetch(r, p),
           p \in {"resetWrite", "verifyWrite"} => req[r].link \in Links
    PROVE  req' \in [Requests -> Request] /\ AllSound'
<1> DEFINE q == [req[r] EXCEPT !.pc = p, !.copy = row]
<1>1. TypeOK /\ req[r] \in Request /\ row \in Row BY DEF Inv, TypeOK
<1>2. q \in Request BY <1>1, PCsList DEF Request
<1>3. /\ q.pc = p /\ q.copy = row /\ q.link = req[r].link /\ q.after = req[r].after
  BY <1>1 DEF Request
<1>4. req' = [req EXCEPT ![r] = q] BY DEF Fetch
<1> HIDE DEF q
<1>5. Sound(q, conf', row', overtaken') BY <1>1, <1>3 DEF Sound, Admitted
<1> QED BY <1>1, <1>2, <1>4, <1>5, SameRow, StartType

\* A step that leaves the row, the links and the sessions leaves the rest.
LEMMA Quiet ==
    ASSUME Inv, UNCHANGED <<conf, row, link, sessions, overtaken, setBy>>, halfDone' \in BOOLEAN,
           locked' \in BOOLEAN, fails' \in [older : 0 .. MaxFailed, newer : 0 .. MaxFailed],
           req' \in [Requests -> Request], AllSound'
    PROVE  Inv'
BY DEF Inv, TypeOK, OfSomebody, SessionsAreVerified

LEMMA FailsType ==
    ASSUME TypeOK
    PROVE  /\ Aged \in [older : 0 .. MaxFailed, newer : 0 .. MaxFailed]
           /\ [older |-> 0, newer |-> 0] \in [older : 0 .. MaxFailed, newer : 0 .. MaxFailed]
           /\ RecordFailedLoginAttempt => fails' \in [older : 0 .. MaxFailed, newer : 0 .. MaxFailed]
<1>1. MaxFailed \in Nat /\ MaxFailed # 0 BY AccountAssumption
<1>2. fails \in [older : 0 .. MaxFailed, newer : 0 .. MaxFailed] BY DEF TypeOK
<1>3. RecordFailedLoginAttempt => fails' \in [older : 0 .. MaxFailed, newer : 0 .. MaxFailed]
  <2> SUFFICES ASSUME RecordFailedLoginAttempt
               PROVE  fails' \in [older : 0 .. MaxFailed, newer : 0 .. MaxFailed]
    OBVIOUS
  <2> DEFINE n == IF fails.newer < MaxFailed THEN fails.newer + 1 ELSE fails.newer
  <2>1. n \in 0 .. MaxFailed BY <1>1, <1>2
  <2>2. fails' = [fails EXCEPT !.newer = n] BY DEF RecordFailedLoginAttempt
  <2> HIDE DEF n
  <2> QED BY <1>2, <2>1, <2>2
<1> QED BY <1>1, <1>2, <1>3 DEF Aged

LEMMA AccountInit == Init => Inv
<1> SUFFICES ASSUME Init PROVE Inv
  OBVIOUS
<1>1. row \in Row \cup {Gone} BY DEF Init, Row
<1>2. req \in [Requests -> Request] BY IdleType, PCsList DEF Init
<1>3. 0 \in 0 .. MaxFailed BY AccountAssumption
<1>4. TypeOK BY <1>1, <1>2, <1>3 DEF Init, TypeOK
<1>5. AllSound BY IdleSound DEF Init, AllSound
<1> QED BY <1>4, <1>5
        DEF Inv, Init, OfSomebody, SessionsAreVerified

-----------------------------------------------------------------------------
(***************************************************************************)
(* The steps that leave the row, the links and the sessions.               *)
(***************************************************************************)
LEMMA QuietStep ==
    ASSUME Inv, NEW r \in Requests,
           \/ Register(r) \/ Authenticate(r) \/ FetchUser(r) \/ IsAccountLocked(r)
           \/ recordFailedLogin(r) \/ ClearAttempts(r) \/ ChangePassword(r)
           \/ ResetPassword(r) \/ ResetFetch(r) \/ VerifyEmail(r) \/ VerifyFetch(r)
           \/ MarkEmailVerified(r) \/ MarkRead(r) \/ IssueSession(r) \/ SignGate(r)
           \/ Unlock(r) \/ UnlockClear(r) \/ CutOff(r)
    PROVE  Inv'
<1>0. /\ TypeOK /\ req[r] \in Request /\ Sound(req[r], conf, row, overtaken)
      /\ conf \in Conf /\ row \in Row \cup {Gone}
  BY DEF Inv, TypeOK, AllSound
<1>1. ASSUME UNCHANGED <<conf, row, link, locked, fails, sessions, overtaken, setBy, halfDone>>,
             req' \in [Requests -> Request], AllSound'
      PROVE  Inv'
  BY <1>0, <1>1, Quiet DEF TypeOK
<1>2. ASSUME Return(r), UNCHANGED <<conf, row, overtaken>>
      PROVE  req' \in [Requests -> Request] /\ AllSound'
  BY <1>0, <1>2, SameRow, ReturnInv
<1>3. ASSUME NEW p \in {"register", "fetch", "record", "unlockClear"}, Goto(r, p),
             row = Gone => p \in Early, UNCHANGED <<conf, row, overtaken>>
      PROVE  req' \in [Requests -> Request] /\ AllSound'
  <2>1. conf' \in Conf /\ \A s \in Requests : Sound(req[s], conf', row', overtaken')
    BY <1>3, SameRow
  <2>2. Sound([Idle EXCEPT !.pc = p], conf', row', overtaken')
    BY <1>3, <2>1, GoneAssumption DEF Idle, Sound, Early, Admitted
  <2> QED BY <1>0, <1>3, <2>1, <2>2, PCsList, GotoInv
<1>4. ASSUME NEW p \in {"clear", "issue"}, Goto(r, p), row # Gone,
             conf.required /\ ~overtaken => row.verified, UNCHANGED <<conf, row, overtaken>>
      PROVE  req' \in [Requests -> Request] /\ AllSound'
  <2>1. conf' \in Conf /\ \A s \in Requests : Sound(req[s], conf', row', overtaken')
    BY <1>4, SameRow
  <2>2. Sound([Idle EXCEPT !.pc = p], conf', row', overtaken')
    BY <1>4, <2>1, AdmitSound
  <2> QED BY <1>0, <1>4, <2>1, <2>2, PCsList, GotoInv
<1>5. ASSUME NEW q \in Request, req' = [req EXCEPT ![r] = q],
             Sound(q, conf, row, overtaken), UNCHANGED <<conf, row, overtaken>>
      PROVE  req' \in [Requests -> Request] /\ AllSound'
  BY <1>0, <1>5, SameRow, StartType
<1>6. ASSUME req[r].pc \notin Early PROVE row # Gone
  BY <1>0, <1>6 DEF Sound
<1>a. CASE Register(r)
  BY <1>1, <1>3, <1>a DEF Register, Early
<1>b. CASE Authenticate(r)
  BY <1>1, <1>3, <1>b DEF Authenticate, CheckThrottle, Early
<1>c. CASE FetchUser(r)
  <2>1. CASE row # Gone
    BY <1>1, <1>c, <2>1, FetchInv DEF FetchUser
  <2>2. CASE row = Gone
    <3> DEFINE q == [req[r] EXCEPT !.pc = "record", !.copy = row]
    <3>1. req' = [req EXCEPT ![r] = q] BY <1>c, <2>2 DEF FetchUser, Fetch
    <3>2. q \in Request BY <1>0, PCsList DEF Request
    <3>3. q.pc = "record" /\ q.copy = Gone BY <1>0, <2>2 DEF Request
    <3> HIDE DEF q
    <3>4. Sound(q, conf, row, overtaken) BY <3>3, GoneAssumption DEF Sound, Early, Admitted
    <3> QED BY <1>1, <1>5, <1>c, <3>1, <3>2, <3>4 DEF FetchUser
  <2> QED BY <2>1, <2>2
<1>d. CASE IsAccountLocked(r)
  <2>0. UNCHANGED <<conf, row, link, locked, fails, sessions, overtaken, setBy, halfDone>>
    BY <1>d DEF IsAccountLocked
  <2>1. row # Gone /\ req[r].copy \in Row
    BY <1>0, <1>d DEF IsAccountLocked, Sound, Early
  <2>2. CASE Return(r) BY <1>1, <1>2, <2>0, <2>2
  <2>3. CASE Goto(r, "record") BY <1>1, <1>3, <2>0, <2>3 DEF Early
  <2>4. CASE req' = [req EXCEPT ![r].pc = "rehash"]
    <3> DEFINE q == [req[r] EXCEPT !.pc = "rehash"]
    <3>1. req' = [req EXCEPT ![r] = q] BY <2>4
    <3>2. q \in Request BY <1>0, PCsList DEF Request
    <3>3. q.pc = "rehash" /\ q.copy = req[r].copy BY <1>0 DEF Request
    <3> HIDE DEF q
    <3>4. Sound(q, conf, row, overtaken) BY <1>0, <2>1, <3>3 DEF Sound, Admitted
    <3> QED BY <1>1, <1>5, <2>0, <3>1, <3>2, <3>4
  <2>5. CASE MayEnter(req[r].copy) /\ Goto(r, "clear")
    <3>1. conf.required /\ ~overtaken => row.verified
      BY <1>0, <2>1, <2>5 DEF MayEnter, Sound
    <3> QED BY <1>1, <1>4, <2>0, <2>1, <2>5, <3>1
  <2> QED BY <1>d, <2>2, <2>3, <2>4, <2>5 DEF IsAccountLocked, AfterPassword
<1>e. CASE recordFailedLogin(r)
  BY <1>0, <1>2, <1>e, FailsType, Quiet DEF recordFailedLogin, TypeOK
<1>f. CASE ClearAttempts(r)
  <2>1. row # Gone /\ (conf.required /\ ~overtaken => row.verified)
    BY <1>0, <1>f DEF ClearAttempts, Sound, Early, Admitted
  <2> QED BY <1>0, <1>4, <1>f, <2>1, FailsType, Quiet
          DEF ClearAttempts, ClearFailedLoginAttempts, TypeOK
<1>g. CASE ChangePassword(r)
  BY <1>1, <1>g, FetchInv DEF ChangePassword
<1>h. CASE ResetPassword(r) \/ VerifyEmail(r)
  <2>1. PICK p \in {"resetUser", "verifyUser"}, l \in Links :
          link[l] # Gone /\ req' = [req EXCEPT ![r] = [@ EXCEPT !.pc = p, !.link = l]]
    <3>1. ASSUME NEW l \in Links, NEW k \in {"reset", "verify"}, Live(l, k) PROVE link[l] # Gone
      BY <3>1, GoneAssumption DEF Live, Link
    <3> QED BY <1>h, <3>1 DEF ResetPassword, VerifyEmail
  <2> DEFINE q == [req[r] EXCEPT !.pc = p, !.link = l]
  <2>2. req' = [req EXCEPT ![r] = q] BY <2>1
  <2>3. q \in Request BY <1>0, PCsList DEF Request
  <2>4. q.pc = p /\ q.link \in Links /\ q.copy = req[r].copy BY <1>0 DEF Request
  <2> HIDE DEF q
  <2>5. row # Gone BY <2>1 DEF Inv, OfSomebody
  <2>6. Sound(q, conf, row, overtaken) BY <1>0, <2>4, <2>5 DEF Sound, Admitted
  <2> QED BY <1>1, <1>5, <1>h, <2>2, <2>3, <2>6 DEF ResetPassword, VerifyEmail
<1>i. CASE ResetFetch(r)
  <2>1. row # Gone /\ req[r].link \in Links
    BY <1>0, <1>i DEF ResetFetch, Sound, Early
  <2> QED BY <1>1, <1>i, <2>1, FetchInv DEF ResetFetch
<1>j. CASE VerifyFetch(r)
  <2>1. row # Gone /\ req[r].link \in Links
    BY <1>0, <1>j DEF VerifyFetch, Sound, Early
  <2> QED BY <1>1, <1>j, <2>1, FetchInv DEF VerifyFetch
<1>k. CASE MarkEmailVerified(r)
  BY <1>1, <1>k, FetchInv DEF MarkEmailVerified
<1>l. CASE MarkRead(r)
  <2>1. row # Gone BY <1>6, <1>l DEF MarkRead, Early
  <2> QED BY <1>1, <1>l, <2>1, FetchInv DEF MarkRead
<1>m. CASE IssueSession(r)
  BY <1>1, <1>m, FetchInv DEF IssueSession
<1>n. CASE SignGate(r)
  <2>0. UNCHANGED <<conf, row, link, locked, fails, sessions, overtaken, setBy, halfDone>>
    BY <1>n DEF SignGate
  <2>1. row # Gone /\ req[r].copy \in Row
    BY <1>0, <1>n DEF SignGate, Sound, Early
  <2>2. PICK proves \in BOOLEAN, owed \in BOOLEAN :
          CASE locked \/ ~(proves \/ MayEnter(req[r].copy)) -> Return(r)
            [] ~locked /\ (proves /\ ~req[r].copy.verified) ->
                 req' = [req EXCEPT ![r] = [Idle EXCEPT !.pc = "markRead",
                                                        !.after = IF owed THEN "pending" ELSE "issue"]]
            [] OTHER -> IF owed THEN Return(r) ELSE Goto(r, "issue")
    BY <1>n DEF SignGate
  <2> DEFINE a == IF owed THEN "pending" ELSE "issue"
             q == [Idle EXCEPT !.pc = "markRead", !.after = a]
  <2>3. \/ Return(r)
        \/ req' = [req EXCEPT ![r] = q]
        \/ /\ Goto(r, "issue")
           /\ (proves \/ MayEnter(req[r].copy)) /\ ~(proves /\ ~req[r].copy.verified)
    <3>1. locked \in BOOLEAN BY <1>0 DEF TypeOK
    <3> QED BY <2>2, <3>1
  <2>4. CASE Return(r) BY <1>1, <1>2, <2>0, <2>4
  <2>5. CASE req' = [req EXCEPT ![r] = q]
    <3>1. q \in Request BY IdleType, PCsList
    <3>2. Sound(q, conf, row, overtaken) BY <1>0, <2>1, BareSound
    <3> HIDE DEF q
    <3> QED BY <1>1, <1>5, <2>0, <2>5, <3>1, <3>2
  <2>6. CASE /\ Goto(r, "issue")
             /\ (proves \/ MayEnter(req[r].copy)) /\ ~(proves /\ ~req[r].copy.verified)
    <3>1. conf.required /\ ~overtaken => row.verified
      BY <1>0, <2>1, <2>6 DEF MayEnter, Sound
    <3> QED BY <1>1, <1>4, <2>0, <2>1, <2>6, <3>1
  <2> QED BY <2>3, <2>4, <2>5, <2>6
<1>o. CASE Unlock(r)
  BY <1>0, <1>3, <1>o, Quiet DEF Unlock, Early, TypeOK
<1>p. CASE UnlockClear(r)
  BY <1>0, <1>2, <1>p, FailsType, Quiet DEF UnlockClear, ClearFailedLoginAttempts, TypeOK
<1>q. CASE CutOff(r)
  BY <1>0, <1>2, <1>q, Quiet DEF CutOff, TypeOK
<1> QED BY <1>a, <1>b, <1>c, <1>d, <1>e, <1>f, <1>g, <1>h, <1>i, <1>j, <1>k, <1>l,
           <1>m, <1>n, <1>o, <1>p, <1>q

-----------------------------------------------------------------------------
(***************************************************************************)
(* The steps that change the links.                                        *)
(***************************************************************************)
LEMMA MarkUsedLinks ==
    ASSUME Inv, NEW l \in Links, Exists(l), MarkTokenUsed(l)
    PROVE  /\ link' \in [Links -> Link \cup {Gone}]
           /\ row # Gone
<1>1. link \in [Links -> Link \cup {Gone}] /\ link[l] \in Link /\ row # Gone
  BY DEF Inv, TypeOK, OfSomebody, Exists
<1> DEFINE m == [link[l] EXCEPT !.state = "used"]
<1>2. m \in Link /\ m.state = "used" BY <1>1 DEF Link
<1>3. link' = [link EXCEPT ![l] = m] BY DEF MarkTokenUsed
<1> HIDE DEF m
<1> QED BY <1>1, <1>2, <1>3

LEMMA DeletedLinks ==
    ASSUME Inv, NEW k, DeleteUserTokens(k)
    PROVE  /\ link' \in [Links -> Link \cup {Gone}]
           /\ \A l \in Links : link[l] = Gone => link'[l] = Gone
<1>1. \A l \in Links : link'[l] = Gone \/ link'[l] = link[l] BY DEF DeleteUserTokens
<1> QED BY <1>1 DEF Inv, TypeOK, DeleteUserTokens

\* Such a step keeps the invariant.
LEMMA LinkInv ==
    ASSUME Inv, UNCHANGED <<conf, row, locked, fails, sessions, overtaken>>,
           link' \in [Links -> Link \cup {Gone}], setBy' \subseteq setBy, halfDone' \in BOOLEAN,
           row = Gone => \A l \in Links : link'[l] = Gone,
           req' \in [Requests -> Request], AllSound'
    PROVE  Inv'
BY DEF Inv, TypeOK, OfSomebody, SessionsAreVerified

LEMMA LinkStep ==
    ASSUME Inv, NEW r \in Requests,
           \/ RequestPasswordReset(r) \/ SendPasswordReset(r)
           \/ RequestEmailVerification(r) \/ sendEmailVerification(r)
           \/ ResetMark(r) \/ VerifyMark(r) \/ MarkDelete(r)
    PROVE  Inv'
<1>0. /\ TypeOK /\ req[r] \in Request /\ Sound(req[r], conf, row, overtaken) /\ conf \in Conf
      /\ setBy \subseteq Links
  BY DEF Inv, TypeOK, AllSound
<1>1. UNCHANGED <<conf, row, locked, fails, sessions, overtaken>>
  BY DEF RequestPasswordReset, SendPasswordReset, RequestEmailVerification,
         sendEmailVerification, DeleteOld, CreateNew, ResetMark, VerifyMark, MarkDelete
<1>9. halfDone' \in BOOLEAN
  BY DEF Inv, TypeOK, RequestPasswordReset, SendPasswordReset, RequestEmailVerification,
         sendEmailVerification, DeleteOld, CreateNew, ResetMark, VerifyMark, MarkDelete
<1>2. /\ conf' \in Conf
      /\ \A s \in Requests : Sound(req[s], conf', row', overtaken')
  BY <1>1, SameRow
<1>3. Return(r) => req' \in [Requests -> Request] /\ AllSound'
  BY <1>0, <1>2, ReturnInv
<1>4. ASSUME NEW k, NEW p \in {"resetToken", "verifyToken"}, DeleteOld(r, k, p) PROVE Inv'
  <2>1. Sound([Idle EXCEPT !.pc = p], conf', row', overtaken')
    BY <1>1, <1>2, <1>4, GoneAssumption DEF Idle, Sound, Early, Admitted, DeleteOld
  <2>2. req' \in [Requests -> Request] /\ AllSound'
    BY <1>0, <1>2, <1>4, <2>1, PCsList, GotoInv DEF DeleteOld
  <2> QED BY <1>0, <1>1, <1>4, <2>2, DeletedLinks, <1>9, LinkInv DEF DeleteOld
<1>5. ASSUME NEW k \in {"reset", "verify"}, NEW p \in {"resetToken", "verifyToken"}, CreateNew(r, k, p)
      PROVE  Inv'
  <2>1. PICK l \in Links : CreateToken(l, k) BY <1>5 DEF CreateNew
  <2> DEFINE m == [kind |-> k, state |-> "live"]
  <2>2. m \in Link BY DEF Link
  <2>3. link' = [link EXCEPT ![l] = m] /\ setBy' = setBy \ {l} BY <2>1 DEF CreateToken
  <2> HIDE DEF m
  <2>4. row # Gone BY <1>0, <1>5 DEF CreateNew, Sound, Early
  <2>5. link' \in [Links -> Link \cup {Gone}] /\ \A j \in Links \ {l} : link'[j] = link[j]
    BY <1>0, <2>2, <2>3 DEF TypeOK
  <2> QED BY <1>1, <1>3, <1>5, <2>3, <2>4, <2>5, <1>9, LinkInv DEF CreateNew
<1>6. CASE ResetMark(r)
  <2>1. row # Gone /\ req[r].link \in Links /\ ~conf.hasTx
    BY <1>0, <1>6 DEF ResetMark, Sound, Early
  <2>2. CASE Exists(req[r].link)
    <3>1. Sound([Idle EXCEPT !.pc = "resetRevoke"], conf', row', overtaken')
      BY <1>1, <1>2, <2>1, GoneAssumption DEF Idle, Sound, Early, Admitted
    <3>2. req' \in [Requests -> Request] /\ AllSound'
      BY <1>0, <1>2, <1>6, <2>2, <3>1, PCsList, GotoInv DEF ResetMark
    <3> QED BY <1>0, <1>1, <1>6, <2>1, <2>2, <3>2, MarkUsedLinks, <1>9, LinkInv DEF ResetMark
  <2>3. CASE ~Exists(req[r].link)
    BY <1>0, <1>1, <1>3, <1>6, <2>1, <2>3, <1>9, LinkInv DEF ResetMark, TypeOK
  <2> QED BY <2>2, <2>3
<1>7. CASE VerifyMark(r)
  <2>1. row # Gone /\ req[r].link \in Links
    BY <1>0, <1>7 DEF VerifyMark, Sound, Early
  <2>2. CASE Exists(req[r].link)
    BY <1>0, <1>1, <1>3, <1>7, <2>1, <2>2, MarkUsedLinks, <1>9, LinkInv DEF VerifyMark
  <2>3. CASE ~Exists(req[r].link)
    BY <1>0, <1>1, <1>3, <1>7, <2>1, <2>3, <1>9, LinkInv DEF VerifyMark, TypeOK
  <2> QED BY <2>2, <2>3
<1>8. CASE MarkDelete(r)
  <2>1. row # Gone BY <1>0, <1>8 DEF MarkDelete, Sound, Early
  <2>2. req' \in [Requests -> Request] /\ AllSound'
    <3>1. CASE req[r].after = "issue"
      <4>1. conf.required /\ ~overtaken => row.verified
        BY <1>0, <1>8, <3>1 DEF MarkDelete, Sound, Admitted
      <4>2. Sound([Idle EXCEPT !.pc = "issue"], conf', row', overtaken')
        BY <1>1, <1>2, <2>1, <4>1, AdmitSound
      <4> QED BY <1>0, <1>2, <1>8, <3>1, <4>2, PCsList, GotoInv DEF MarkDelete
    <3>2. CASE req[r].after # "issue" BY <1>3, <1>8, <3>2 DEF MarkDelete
    <3> QED BY <3>1, <3>2
  <2> QED BY <1>0, <1>1, <1>8, <2>1, <2>2, DeletedLinks, <1>9, LinkInv DEF MarkDelete
<1> QED BY <1>4, <1>5, <1>6, <1>7, <1>8
        DEF RequestPasswordReset, SendPasswordReset, RequestEmailVerification,
            sendEmailVerification

(***************************************************************************)
(* The steps that change the sessions alone, and those of nobody.          *)
(***************************************************************************)
LEMMA SessionStep ==
    ASSUME Inv, NEW r \in Requests, issueTokenPair(r) \/ ResetRevoke(r)
    PROVE  Inv'
<1>0. TypeOK /\ req[r] \in Request /\ Sound(req[r], conf, row, overtaken)
  BY DEF Inv, TypeOK, AllSound
<1>1. UNCHANGED <<conf, row, link, locked, fails, overtaken, setBy, halfDone>> /\ Return(r)
  BY DEF issueTokenPair, ResetRevoke
<1>2. req' \in [Requests -> Request] /\ AllSound' BY <1>0, <1>1, SameRow, ReturnInv
<1>3. /\ sessions' \subseteq {"before", "after"}
      /\ "before" \in sessions' => "before" \in sessions
      /\ row # Gone
      /\ conf.required /\ ~overtaken /\ sessions' # {} => row.verified
  BY <1>0 DEF issueTokenPair, ResetRevoke, RevokeAllUserRefreshTokens, Sound, Early, Admitted, TypeOK
<1> QED BY <1>1, <1>2, <1>3
        DEF Inv, TypeOK, OfSomebody, SessionsAreVerified

LEMMA OutsideStep ==
    ASSUME Inv, LockAccount \/ Tick \/ Expire
    PROVE  Inv'
<1>0. TypeOK BY DEF Inv
<1>1. UNCHANGED <<conf, row, overtaken, req>> BY DEF LockAccount, Tick, Expire
<1>2. req' \in [Requests -> Request] /\ AllSound'
  BY <1>0, <1>1 DEF Inv, TypeOK, AllSound
<1>3. CASE LockAccount BY <1>0, <1>2, <1>3, Quiet DEF LockAccount, TypeOK
<1>4. CASE Tick BY <1>0, <1>2, <1>4, FailsType, Quiet DEF Tick, TypeOK
<1>5. CASE Expire
  <2>1. PICK l \in Links : /\ link[l] # Gone /\ link[l].state = "live"
                           /\ link' = [link EXCEPT ![l] = [@ EXCEPT !.state = "expired"]]
    BY <1>5 DEF Expire
  <2> DEFINE m == [link[l] EXCEPT !.state = "expired"]
  <2>2. m \in Link BY <1>0, <2>1 DEF TypeOK, Link
  <2>3. link' = [link EXCEPT ![l] = m] BY <2>1
  <2> HIDE DEF m
  <2>4. /\ link' \in [Links -> Link \cup {Gone}]
        /\ \A j \in Links \ {l} : link'[j] = link[j]
    BY <1>0, <2>2, <2>3 DEF TypeOK
  <2>6. row # Gone BY <2>1 DEF Inv, OfSomebody
  <2> QED BY <1>0, <1>2, <1>5, <2>4, <2>6, LinkInv DEF Expire, TypeOK
<1> QED BY <1>3, <1>4, <1>5

-----------------------------------------------------------------------------
(***************************************************************************)
(* The steps that write the row.                                           *)
(***************************************************************************)
\* A new password takes no verification back.
LEMMA PasswordInv ==
    ASSUME Inv, NEW r \in Requests, row # Gone, req[r].copy \in Row, conf' = conf,
           NEW p \in Passwords,
           UpdateUser(r, NewPassword(req[r].copy, p))
    PROVE  /\ row' \in Row /\ overtaken' \in BOOLEAN
           /\ ~overtaken' => ~overtaken /\ (row.verified => row'.verified)
           /\ \A s \in Requests : Sound(req[s], conf', row', overtaken')
<1> DEFINE u == NewPassword(req[r].copy, p)
<1>1. u \in Row /\ u.verified = req[r].copy.verified BY DEF NewPassword, Row
<1>2. UpdateUser(r, u) OBVIOUS
<1> HIDE DEF u
<1> QED BY <1>1, <1>2, UpdateUserInv

LEMMA VerifiedInv ==
    ASSUME Inv, NEW r \in Requests, row # Gone, req[r].copy \in Row, conf' = conf,
           UpdateUser(r, Verified(req[r].copy))
    PROVE  /\ row' \in Row /\ row'.verified
           /\ overtaken' \in BOOLEAN
           /\ ~overtaken' => ~overtaken
           /\ \A s \in Requests : Sound(req[s], conf', row', overtaken')
<1> DEFINE u == Verified(req[r].copy)
<1>1. u \in Row /\ u.verified BY DEF Verified, Row
<1>2. UpdateUser(r, u) OBVIOUS
<1> HIDE DEF u
<1> QED BY <1>1, <1>2, UpdateUserInv

\* MarkEmailVerified's write, or none where the copy is verified already.
LEMMA MarkRowInv ==
    ASSUME Inv, NEW r \in Requests, row # Gone, req[r].copy \in Row, conf' = conf,
           MarkRow(r)
    PROVE  /\ row' \in Row /\ overtaken' \in BOOLEAN
           /\ ~overtaken' => ~overtaken /\ (row.verified => row'.verified)
           /\ conf.required /\ ~overtaken' => row'.verified
           /\ \A s \in Requests : Sound(req[s], conf', row', overtaken')
<1>1. CASE req[r].copy.verified
  <2>1. UNCHANGED <<conf, row, overtaken>> BY <1>1 DEF MarkRow
  <2> QED BY <1>1, <2>1, SameRow DEF Inv, TypeOK, AllSound, Sound
<1>2. CASE ~req[r].copy.verified
  BY <1>2, VerifiedInv DEF MarkRow
<1> QED BY <1>1, <1>2

\* Such a step keeps the invariant when the session it creates is vouched for.
LEMMA RowInv ==
    ASSUME Inv, UNCHANGED <<conf, locked, fails>>,
           row' \in Row, overtaken' \in BOOLEAN,
           link' \in [Links -> Link \cup {Gone}], setBy' \subseteq Links, halfDone' \in BOOLEAN,
           sessions' \subseteq {"before", "after"},
           conf.required /\ ~overtaken' /\ sessions' # {} => row'.verified,
           req' \in [Requests -> Request], AllSound'
    PROVE  Inv'
<1>1. row' # Gone BY GoneAssumption
<1>2. OfSomebody' BY <1>1 DEF OfSomebody
<1>3. SessionsAreVerified' BY DEF SessionsAreVerified
<1> QED BY <1>2, <1>3 DEF Inv, TypeOK

\* A row write that leaves the links, with sessions that were there before.
LEMMA WriteInv ==
    ASSUME Inv, UNCHANGED <<conf, link, locked, fails>>,
           row' \in Row, overtaken' \in BOOLEAN,
           ~overtaken' => ~overtaken /\ (row.verified => row'.verified),
           setBy' \subseteq Links, halfDone' = halfDone,
           sessions' \subseteq {"before", "after"},
           sessions' # {} => sessions # {},
           req' \in [Requests -> Request], AllSound'
    PROVE  Inv'
<1>1. conf.required /\ ~overtaken' /\ sessions' # {} => row'.verified
  BY DEF Inv, SessionsAreVerified
<1>2. link' \in [Links -> Link \cup {Gone}] /\ halfDone' \in BOOLEAN BY DEF Inv, TypeOK
<1> QED BY <1>1, <1>2, RowInv

LEMMA RowStep ==
    ASSUME Inv, NEW r \in Requests,
           \/ RegisterCreate(r) \/ rehashIfNeeded(r) \/ ChangeWrite(r)
           \/ ResetWrite(r) \/ VerifyWrite(r) \/ MarkWrite(r)
    PROVE  Inv'
<1>0. /\ TypeOK /\ req[r] \in Request /\ Sound(req[r], conf, row, overtaken)
      /\ conf \in Conf /\ row \in Row \cup {Gone} /\ overtaken \in BOOLEAN
      /\ sessions \subseteq {"before", "after"} /\ setBy \subseteq Links
  BY DEF Inv, TypeOK, AllSound
<1>1. CASE RegisterCreate(r)
  <2>0. Return(r) /\ UNCHANGED <<conf, overtaken>> BY <1>1 DEF RegisterCreate
  <2>1. CASE UNCHANGED row
    <3>1. req' \in [Requests -> Request] /\ AllSound' BY <1>0, <2>0, <2>1, SameRow, ReturnInv
    <3> QED BY <1>0, <1>1, <2>1, <3>1, Quiet DEF RegisterCreate, TypeOK
  <2>2. CASE \E p \in Passwords : CreateUser(p)
    <3>1. row = Gone /\ row' \in Row BY <2>2 DEF CreateUser, Row
    <3>2. \A s \in Requests : Sound(req[s], conf', row', overtaken')
      BY <2>0, <3>1, GoneAssumption DEF Inv, AllSound, Sound, Early, Admitted
    <3>3. req' \in [Requests -> Request] /\ AllSound' BY <1>0, <2>0, <3>2, ReturnInv
    <3>5. sessions = {} BY <3>1 DEF Inv, OfSomebody
    <3>6. link \in [Links -> Link \cup {Gone}] BY <1>0 DEF TypeOK
    <3> QED BY <1>0, <1>1, <3>1, <3>3, <3>5, <3>6, RowInv DEF RegisterCreate, TypeOK
  <2> QED BY <1>1, <2>1, <2>2 DEF RegisterCreate
<1>2. CASE rehashIfNeeded(r)
  <2>1. row # Gone /\ req[r].copy \in Row /\ conf' = conf
    BY <1>0, <1>2 DEF rehashIfNeeded, Sound, Early
  <2>2. UpdateUser(r, req[r].copy) BY <1>2 DEF rehashIfNeeded, Rehashed
  <2>3. /\ row' \in Row /\ overtaken' \in BOOLEAN
        /\ row' = req[r].copy
        /\ ~overtaken' => ~overtaken /\ (row.verified => row'.verified)
        /\ \A s \in Requests : Sound(req[s], conf', row', overtaken')
    BY <1>0, <2>1, <2>2, UpdateUserInv
  <2>4. req' \in [Requests -> Request] /\ AllSound'
    <3>1. CASE Return(r) BY <1>0, <2>1, <2>3, <3>1, ReturnInv
    <3>2. CASE MayEnter(req[r].copy) /\ Goto(r, "clear")
      <4>1. conf'.required /\ ~overtaken' => row'.verified
        BY <2>1, <2>3, <3>2 DEF MayEnter
      <4>2. row' # Gone BY <2>3, GoneAssumption
      <4>3. Sound([Idle EXCEPT !.pc = "clear"], conf', row', overtaken')
        BY <1>0, <2>1, <4>1, <4>2, AdmitSound
      <4> QED BY <1>0, <2>1, <2>3, <3>2, <4>3, PCsList, GotoInv
    <3> QED BY <1>2, <3>1, <3>2 DEF rehashIfNeeded, AfterPassword
  <2> QED BY <1>0, <1>2, <2>3, <2>4, WriteInv DEF rehashIfNeeded
<1>3. CASE ChangeWrite(r)
  <2>1. row # Gone /\ req[r].copy \in Row /\ conf' = conf
    BY <1>0, <1>3 DEF ChangeWrite, Sound, Early
  <2>2. PICK p \in Passwords : UpdateUser(r, NewPassword(req[r].copy, p))
    BY <1>3 DEF ChangeWrite
  <2>3. /\ row' \in Row /\ overtaken' \in BOOLEAN
        /\ ~overtaken' => ~overtaken /\ (row.verified => row'.verified)
        /\ \A s \in Requests : Sound(req[s], conf', row', overtaken')
    BY <2>1, <2>2, PasswordInv
  <2>4. req' \in [Requests -> Request] /\ AllSound'
    BY <1>0, <1>3, <2>1, <2>3, ReturnInv DEF ChangeWrite
  <2> QED BY <1>0, <1>3, <2>3, <2>4, WriteInv DEF ChangeWrite
<1>4. CASE ResetWrite(r)
  <2>1. row # Gone /\ req[r].copy \in Row /\ req[r].link \in Links /\ conf' = conf /\ ~conf.hasTx
    BY <1>0, <1>4 DEF ResetWrite, Sound, Early
  <2>2. PICK p \in Passwords : UpdateUser(r, NewPassword(req[r].copy, p))
    BY <1>4 DEF ResetWrite, SetPassword
  <2>3. /\ row' \in Row /\ overtaken' \in BOOLEAN
        /\ ~overtaken' => ~overtaken /\ (row.verified => row'.verified)
        /\ \A s \in Requests : Sound(req[s], conf', row', overtaken')
    BY <2>1, <2>2, PasswordInv
  <2> DEFINE q == [Idle EXCEPT !.pc = "resetMark", !.link = req[r].link]
  <2>4. q \in Request BY <2>1, IdleType, PCsList DEF Idle, Request
  <2>5. Sound(q, conf', row', overtaken')
    BY <2>1, <2>3, GoneAssumption DEF Idle, Sound, Admitted
  <2>6. req' = [req EXCEPT ![r] = q] BY <1>4 DEF ResetWrite, GotoLink
  <2> HIDE DEF q
  <2>7. req' \in [Requests -> Request] /\ AllSound'
    BY <1>0, <2>3, <2>4, <2>5, <2>6, StartType
  <2>8. setBy' \subseteq Links /\ sessions' \subseteq {"before", "after"}
    BY <1>0, <1>4, <2>1 DEF ResetWrite, SetPassword
  <2> QED BY <1>4, <2>1, <2>3, <2>7, <2>8, WriteInv DEF ResetWrite
<1>5. CASE VerifyWrite(r)
  <2>1. row # Gone /\ req[r].copy \in Row /\ req[r].link \in Links /\ conf' = conf
    BY <1>0, <1>5 DEF VerifyWrite, Sound, Early
  <2>2. UpdateUser(r, Verified(req[r].copy))
    BY <1>5 DEF VerifyWrite
  <2>3. /\ row' \in Row /\ overtaken' \in BOOLEAN
        /\ ~overtaken' => ~overtaken /\ (row.verified => row'.verified)
        /\ \A s \in Requests : Sound(req[s], conf', row', overtaken')
    BY <2>1, <2>2, VerifiedInv
  <2> DEFINE q == [Idle EXCEPT !.pc = "verifyMark", !.link = req[r].link]
  <2>4. q \in Request BY <2>1, IdleType, PCsList DEF Idle, Request
  <2>5. Sound(q, conf', row', overtaken')
    BY <2>1, <2>3, GoneAssumption DEF Idle, Sound, Admitted
  <2>6. req' = [req EXCEPT ![r] = q] BY <1>5 DEF VerifyWrite, GotoLink
  <2> HIDE DEF q
  <2>7. req' \in [Requests -> Request] /\ AllSound'
    BY <1>0, <2>3, <2>4, <2>5, <2>6, StartType
  <2> QED BY <1>0, <1>5, <2>3, <2>7, WriteInv DEF VerifyWrite
<1>6. CASE MarkWrite(r)
  <2>1. row # Gone /\ req[r].copy \in Row /\ conf' = conf
    BY <1>0, <1>6 DEF MarkWrite, Sound, Early
  <2>2. /\ row' \in Row /\ overtaken' \in BOOLEAN
        /\ ~overtaken' => ~overtaken /\ (row.verified => row'.verified)
        /\ conf.required /\ ~overtaken' => row'.verified
        /\ \A s \in Requests : Sound(req[s], conf', row', overtaken')
    BY <1>6, <2>1, MarkRowInv DEF MarkWrite
  <2> DEFINE q == [req[r] EXCEPT !.pc = "markDelete", !.copy = Gone]
  <2>3. q \in Request BY <1>0, PCsList DEF Request
  <2>4. q.pc = "markDelete" /\ q.copy = Gone BY <1>0 DEF Request
  <2>5. req' = [req EXCEPT ![r] = q] BY <1>6 DEF MarkWrite
  <2> HIDE DEF q
  <2>6. Sound(q, conf', row', overtaken')
    BY <2>1, <2>2, <2>4, GoneAssumption DEF Sound, Admitted
  <2>7. req' \in [Requests -> Request] /\ AllSound'
    BY <1>0, <2>2, <2>3, <2>5, <2>6, StartType
  <2> QED BY <1>0, <1>6, <2>2, <2>7, WriteInv DEF MarkWrite
<1> QED BY <1>1, <1>2, <1>3, <1>4, <1>5, <1>6

\* The two transactions: the reset, and the sign-in that proves an address.
LEMMA TxStep ==
    ASSUME Inv, NEW r \in Requests, ResetInTx(r) \/ MarkInTx(r)
    PROVE  Inv'
<1>0. /\ TypeOK /\ req[r] \in Request /\ Sound(req[r], conf, row, overtaken)
      /\ conf \in Conf /\ row \in Row \cup {Gone} /\ overtaken \in BOOLEAN
      /\ sessions \subseteq {"before", "after"} /\ setBy \subseteq Links
  BY DEF Inv, TypeOK, AllSound
<1>1. CASE ResetInTx(r)
  <2>0. /\ row # Gone /\ req[r].copy \in Row /\ req[r].link \in Links
        /\ UNCHANGED <<conf, locked, fails>> /\ Return(r)
    BY <1>0, <1>1 DEF ResetInTx, Sound, Early
  <2>1. CASE Exists(req[r].link)
    <3>1. SetPassword(r) /\ MarkTokenUsed(req[r].link) /\ sessions' = {}
      BY <1>1, <2>1 DEF ResetInTx, RevokeAllUserRefreshTokens
    <3>2. PICK p \in Passwords : UpdateUser(r, NewPassword(req[r].copy, p))
      BY <3>1 DEF SetPassword
    <3>3. /\ row' \in Row /\ overtaken' \in BOOLEAN
          /\ \A s \in Requests : Sound(req[s], conf', row', overtaken')
      BY <2>0, <3>2, PasswordInv
    <3>4. req' \in [Requests -> Request] /\ AllSound'
      BY <1>0, <2>0, <3>3, ReturnInv
    <3>5. setBy' = setBy \cup {req[r].link} BY <3>1 DEF SetPassword
    <3>6. link' \in [Links -> Link \cup {Gone}]
      BY <2>0, <2>1, <3>1, MarkUsedLinks
    <3>7. halfDone' \in BOOLEAN BY <1>0, <1>1 DEF ResetInTx, TypeOK
    <3> QED BY <1>0, <2>0, <3>7, <3>1, <3>3, <3>4, <3>5, <3>6, RowInv
  <2>2. CASE ~Exists(req[r].link)
    <3>1. UNCHANGED <<row, overtaken, setBy, link, sessions, halfDone>>
      BY <1>1, <2>2 DEF ResetInTx
    <3>2. req' \in [Requests -> Request] /\ AllSound'
      BY <1>0, <2>0, <3>1, SameRow, ReturnInv
    <3> QED BY <1>0, <2>0, <3>1, <3>2, Quiet DEF TypeOK
  <2> QED BY <2>1, <2>2
<1>2. CASE MarkInTx(r)
  <2>1. /\ row # Gone /\ req[r].copy \in Row
        /\ UNCHANGED <<conf, locked, fails, setBy>> /\ Return(r)
        /\ DeleteUserTokens("verify")
    BY <1>0, <1>2 DEF MarkInTx, Sound, Early
  <2>2. /\ row' \in Row /\ overtaken' \in BOOLEAN
        /\ conf.required /\ ~overtaken' => row'.verified
        /\ \A s \in Requests : Sound(req[s], conf', row', overtaken')
    BY <1>2, <2>1, MarkRowInv DEF MarkInTx
  <2>3. req' \in [Requests -> Request] /\ AllSound' BY <1>0, <2>1, <2>2, ReturnInv
  <2>4. sessions' \subseteq {"before", "after"} BY <1>0, <1>2 DEF MarkInTx
  <2>5. link' \in [Links -> Link \cup {Gone}] /\ halfDone' \in BOOLEAN
    BY <1>0, <1>2, <2>1, DeletedLinks DEF MarkInTx, TypeOK
  <2> QED BY <1>0, <2>1, <2>2, <2>3, <2>4, <2>5, RowInv
<1> QED BY <1>1, <1>2

-----------------------------------------------------------------------------
LEMMA InvStep == Inv /\ [Next]_vars => Inv'
<1> SUFFICES ASSUME Inv, [Next]_vars PROVE Inv'
  OBVIOUS
<1>1. CASE LockAccount \/ Tick \/ Expire BY <1>1, OutsideStep
<1>2. ASSUME NEW r \in Requests, Step(r) PROVE Inv'
  BY <1>2, QuietStep, LinkStep, SessionStep, RowStep, TxStep DEF Step
<1>3. CASE UNCHANGED vars
  <2>1. UNCHANGED <<conf, row, link, locked, fails, sessions, overtaken, setBy, halfDone, req>>
    BY <1>3 DEF vars
  <2>2. req' \in [Requests -> Request] /\ AllSound' BY <2>1 DEF Inv, TypeOK, AllSound
  <2> QED BY <2>1, <2>2, Quiet DEF Inv, TypeOK
<1> QED BY <1>1, <1>2, <1>3 DEF Next

\* The inductive invariant, of which the theorems are parts.
THEOREM AccountInvariant == Spec => []Inv
BY AccountInit, InvStep, PTL DEF Spec

\* Every variable keeps its type, whatever requests, crashes and time do.
THEOREM AccountTypeCorrect == Spec => []TypeOK
<1>1. Inv => TypeOK BY DEF Inv
<1> QED BY <1>1, AccountInvariant, PTL

\* Under EmailVerificationRequired no sign-in outruns the verification of
\* its address, unless an overtaken write has taken the verification back.
THEOREM AccountSessionsAreVerified == Spec => []SessionsAreVerified
<1>1. Inv => SessionsAreVerified BY DEF Inv
<1> QED BY <1>1, AccountInvariant, PTL

-----------------------------------------------------------------------------
(***************************************************************************)
(* The reset. Its requests are followed from the password they set to the  *)
(* link they spend and the sessions they end: any other step leaves those  *)
(* that are between two of these writes where they are.                    *)
(***************************************************************************)
Between == {"resetMark", "resetRevoke"}

Spent(l, links) == links[l] = Gone \/ links[l].state = "used"

\* A step that leaves them there, brings no older session and brings no
\* spent link back.
LEMMA BesideReset ==
    ASSUME Inv, ResetIsWhole, conf' = conf, halfDone' = halfDone,
           \A s \in Requests : req[s].pc \in Between => req'[s] = req[s],
           "before" \in sessions' => "before" \in sessions,
           setBy' \subseteq setBy,
           \A l \in setBy' : Spent(l, link) => Spent(l, link')
    PROVE  ResetIsWhole'
<1>1. ASSUME "before" \in sessions', ~halfDone'
      PROVE  \E r \in Requests : req'[r].pc \in Between
  <2>1. PICK r \in Requests : req[r].pc \in Between
    BY <1>1 DEF ResetIsWhole, Between
  <2> QED BY <2>1
<1>2. ASSUME NEW l \in setBy', ~halfDone', ~Spent(l, link')
      PROVE  \E r \in Requests : req'[r].pc = "resetMark" /\ req'[r].link = l
  <2>1. PICK r \in Requests : req[r].pc = "resetMark" /\ req[r].link = l
    BY <1>2 DEF ResetIsWhole, Spent, Exists
  <2> QED BY <2>1 DEF Between
<1> QED BY <1>1, <1>2 DEF ResetIsWhole, Between, Spent, Exists

\* Request r is not between two writes of a reset.
LEMMA ElsewhereReset ==
    ASSUME Inv, ResetIsWhole, NEW r \in Requests, req[r].pc \notin Between,
           NEW q, req' = [req EXCEPT ![r] = q], conf' = conf, halfDone' = halfDone,
           "before" \in sessions' => "before" \in sessions,
           setBy' \subseteq setBy,
           \A l \in setBy' : Spent(l, link) => Spent(l, link')
    PROVE  ResetIsWhole'
<1>1. ASSUME NEW s \in Requests, req[s].pc \in Between PROVE req'[s] = req[s]
  BY <1>1 DEF Inv, TypeOK
<1> QED BY <1>1, BesideReset

\* The steps that leave the links alone.
LEMMA SameLinks ==
    ASSUME Inv, ResetIsWhole, NEW r \in Requests,
           \/ Register(r) \/ RegisterCreate(r)
           \/ Authenticate(r) \/ FetchUser(r) \/ IsAccountLocked(r) \/ recordFailedLogin(r)
           \/ rehashIfNeeded(r) \/ ClearAttempts(r) \/ issueTokenPair(r)
           \/ ChangePassword(r) \/ ChangeWrite(r)
           \/ ResetPassword(r) \/ ResetFetch(r)
           \/ VerifyEmail(r) \/ VerifyFetch(r) \/ VerifyWrite(r)
           \/ MarkEmailVerified(r) \/ MarkRead(r) \/ MarkWrite(r)
           \/ IssueSession(r) \/ SignGate(r)
           \/ Unlock(r) \/ UnlockClear(r)
    PROVE  ResetIsWhole'
<1>1. /\ req[r].pc \notin Between /\ UNCHANGED <<conf, link, setBy, halfDone>>
      /\ "before" \in sessions' => "before" \in sessions
  BY DEF Between, Register, RegisterCreate, Authenticate, FetchUser, IsAccountLocked,
         recordFailedLogin, rehashIfNeeded, ClearAttempts, issueTokenPair, ChangePassword,
         ChangeWrite, ResetPassword, ResetFetch, VerifyEmail, VerifyFetch, VerifyWrite,
         MarkEmailVerified, MarkRead, MarkWrite, IssueSession, SignGate, Unlock, UnlockClear
<1>2. \E q : req' = [req EXCEPT ![r] = q]
  BY DEF Register, RegisterCreate, Authenticate, CheckThrottle, FetchUser, IsAccountLocked,
         recordFailedLogin, rehashIfNeeded, ClearAttempts, issueTokenPair, ChangePassword,
         ChangeWrite, ResetPassword, ResetFetch, VerifyEmail, VerifyFetch, VerifyWrite,
         MarkEmailVerified, MarkRead, MarkWrite, IssueSession, SignGate, Unlock, UnlockClear,
         Fetch, Goto, GotoLink, Return, AfterPassword
<1> QED BY <1>1, <1>2, ElsewhereReset

\* Marking a link spends it, and brings none back.
LEMMA SpentByMark ==
    ASSUME TypeOK, NEW l \in Links, IF Exists(l) THEN MarkTokenUsed(l) ELSE UNCHANGED link
    PROVE  Spent(l, link') /\ \A k \in Links : Spent(k, link) => Spent(k, link')
<1>1. CASE Exists(l)
  <2>1. link[l] \in Link BY <1>1 DEF TypeOK, Exists
  <2> DEFINE m == [link[l] EXCEPT !.state = "used"]
  <2>2. m.state = "used" BY <2>1 DEF Link
  <2>3. link' = [link EXCEPT ![l] = m] BY <1>1 DEF MarkTokenUsed
  <2> HIDE DEF m
  <2> QED BY <2>2, <2>3 DEF TypeOK, Spent
<1>2. CASE ~Exists(l) BY <1>2 DEF Exists, Spent
<1> QED BY <1>1, <1>2

\* The steps that change links, and no reset between two of its writes.
LEMMA OtherLinks ==
    ASSUME Inv, ResetIsWhole, NEW r \in Requests,
           \/ RequestPasswordReset(r) \/ SendPasswordReset(r)
           \/ RequestEmailVerification(r) \/ sendEmailVerification(r)
           \/ VerifyMark(r) \/ MarkDelete(r) \/ MarkInTx(r)
    PROVE  ResetIsWhole'
<1>0. /\ TypeOK /\ setBy \subseteq Links /\ link \in [Links -> Link \cup {Gone}]
      /\ req[r] \in Request /\ Sound(req[r], conf, row, overtaken)
  BY DEF Inv, TypeOK, AllSound
<1>1. ASSUME NEW k, DeleteUserTokens(k) PROVE \A l \in Links : Spent(l, link) => Spent(l, link')
  BY <1>0, <1>1 DEF DeleteUserTokens, Spent
<1>2. CASE \/ RequestPasswordReset(r) \/ RequestEmailVerification(r) \/ MarkDelete(r) \/ MarkInTx(r)
  <2>1. /\ req[r].pc \notin Between /\ UNCHANGED <<conf, setBy, halfDone>>
        /\ "before" \in sessions' => "before" \in sessions
    BY <1>2 DEF Between, RequestPasswordReset, RequestEmailVerification, DeleteOld, MarkDelete, MarkInTx
  <2>2. \E q : req' = [req EXCEPT ![r] = q]
    BY <1>2 DEF RequestPasswordReset, RequestEmailVerification, DeleteOld, MarkDelete, MarkInTx,
                Goto, Return
  <2>3. \A l \in Links : Spent(l, link) => Spent(l, link')
    BY <1>1, <1>2 DEF RequestPasswordReset, RequestEmailVerification, DeleteOld, MarkDelete, MarkInTx
  <2> QED BY <1>0, <2>1, <2>2, <2>3, ElsewhereReset
<1>3. ASSUME NEW k, NEW p \in {"resetToken", "verifyToken"}, CreateNew(r, k, p)
      PROVE  ResetIsWhole'
  <2>1. PICK l \in Links : CreateToken(l, k) BY <1>3 DEF CreateNew
  <2> DEFINE m == [kind |-> k, state |-> "live"]
  <2>2. link' = [link EXCEPT ![l] = m] /\ setBy' = setBy \ {l} BY <2>1 DEF CreateToken
  <2> HIDE DEF m
  <2>3. \A j \in setBy' : Spent(j, link) => Spent(j, link') BY <1>0, <2>2 DEF Spent
  <2>4. /\ req[r].pc \notin Between /\ UNCHANGED <<conf, sessions, halfDone>>
        /\ \E q : req' = [req EXCEPT ![r] = q]
    BY <1>3 DEF CreateNew, Between, Return
  <2> QED BY <2>2, <2>3, <2>4, ElsewhereReset
<1>4. CASE VerifyMark(r)
  <2>1. /\ req[r].pc \notin Between /\ UNCHANGED <<conf, sessions, setBy, halfDone>>
        /\ \E q : req' = [req EXCEPT ![r] = q]
    BY <1>4 DEF VerifyMark, Between, Return
  <2>2. req[r].link \in Links BY <1>0, <1>4 DEF VerifyMark, Sound
  <2>3. \A l \in Links : Spent(l, link) => Spent(l, link')
    BY <1>0, <1>4, <2>2, SpentByMark DEF VerifyMark
  <2> QED BY <1>0, <2>1, <2>3, ElsewhereReset
<1> QED BY <1>2, <1>3, <1>4
        DEF SendPasswordReset, sendEmailVerification

\* The writes of a reset, and the end of a request wherever it is.
LEMMA OwnReset ==
    ASSUME Inv, ResetIsWhole, NEW r \in Requests,
           ResetInTx(r) \/ ResetWrite(r) \/ ResetMark(r) \/ ResetRevoke(r) \/ CutOff(r)
    PROVE  ResetIsWhole'
<1>0. /\ TypeOK /\ conf \in Conf /\ req[r] \in Request /\ Sound(req[r], conf, row, overtaken)
      /\ setBy \subseteq Links /\ halfDone \in BOOLEAN
  BY DEF Inv, TypeOK, AllSound
<1>1. \A s \in Requests \ {r} : req'[s] = req[s]
  BY <1>0 DEF TypeOK, ResetInTx, ResetWrite, ResetMark, ResetRevoke, CutOff,
              Return, Goto, GotoLink
<1>2. CASE ResetInTx(r)
  <2>1. /\ conf' = conf /\ halfDone' = halfDone /\ req[r].pc \notin Between
        /\ \E q : req' = [req EXCEPT ![r] = q]
    BY <1>2 DEF ResetInTx, Return, Between
  <2>2. CASE Exists(req[r].link)
    <3>1. req[r].link \in Links BY <1>0, <1>2 DEF ResetInTx, Sound
    <3>2. sessions' = {} /\ setBy' = setBy \cup {req[r].link} /\ MarkTokenUsed(req[r].link)
      BY <1>2, <2>2 DEF ResetInTx, SetPassword, RevokeAllUserRefreshTokens
    <3>3. /\ Spent(req[r].link, link')
          /\ \A k \in Links : Spent(k, link) => Spent(k, link')
      BY <1>0, <2>2, <3>1, <3>2, SpentByMark
    <3>4. \A l \in setBy' : Spent(l, link') \/ (l \in setBy /\ ~Spent(l, link))
      BY <1>0, <3>2, <3>3
    <3>5. ASSUME NEW l \in setBy', ~halfDone', ~Spent(l, link')
          PROVE  \E s \in Requests : req'[s].pc = "resetMark" /\ req'[s].link = l
      <4>1. PICK s \in Requests : req[s].pc = "resetMark" /\ req[s].link = l
        BY <2>1, <3>4, <3>5 DEF ResetIsWhole, Spent, Exists
      <4>2. s # r BY <2>1, <4>1 DEF Between
      <4> QED BY <1>1, <4>1, <4>2
    <3> QED BY <2>1, <3>2, <3>5 DEF ResetIsWhole, Spent, Exists
  <2>3. CASE ~Exists(req[r].link)
    <3>1. UNCHANGED <<setBy, link, sessions>> BY <1>2, <2>3 DEF ResetInTx
    <3> QED BY <2>1, <3>1, ElsewhereReset
  <2> QED BY <2>2, <2>3
<1>3. CASE ResetWrite(r)
  <2>1. /\ ~conf.hasTx /\ conf' = conf /\ halfDone' = halfDone /\ link' = link
        /\ req[r].pc = "resetWrite" /\ setBy' = setBy \cup {req[r].link}
    BY <1>3 DEF ResetWrite, SetPassword
  <2> DEFINE q == [Idle EXCEPT !.pc = "resetMark", !.link = req[r].link]
  <2>2. req' = [req EXCEPT ![r] = q] BY <1>3 DEF ResetWrite, GotoLink
  <2>3. q.pc = "resetMark" /\ q.link = req[r].link BY DEF Idle
  <2> HIDE DEF q
  <2>4. req'[r].pc = "resetMark" /\ req'[r].link = req[r].link
    BY <1>0, <2>2, <2>3 DEF TypeOK
  <2>5. ASSUME NEW l \in setBy', ~halfDone', ~Spent(l, link')
        PROVE  \E s \in Requests : req'[s].pc = "resetMark" /\ req'[s].link = l
    <3>1. CASE l = req[r].link BY <2>4, <3>1
    <3>2. CASE l # req[r].link
      <4>1. PICK s \in Requests : req[s].pc = "resetMark" /\ req[s].link = l
        BY <2>1, <2>5, <3>2 DEF ResetIsWhole, Spent, Exists
      <4>2. s # r BY <2>1, <4>1
      <4> QED BY <1>1, <4>1, <4>2
    <3> QED BY <3>1, <3>2
  <2> QED BY <2>1, <2>4, <2>5 DEF ResetIsWhole, Spent, Exists
<1>4. CASE ResetMark(r)
  <2>1. ~conf.hasTx /\ conf' = conf /\ UNCHANGED <<sessions, setBy>> /\ req[r].pc = "resetMark"
        /\ req[r].link \in Links
    BY <1>0, <1>4 DEF ResetMark, Sound
  <2>2. CASE ~Exists(req[r].link)
    BY <1>4, <2>1, <2>2 DEF ResetMark, ResetIsWhole
  <2>3. CASE Exists(req[r].link)
    <3>1. MarkTokenUsed(req[r].link) /\ Goto(r, "resetRevoke") /\ halfDone' = halfDone
      BY <1>4, <2>3 DEF ResetMark
    <3> DEFINE q == [Idle EXCEPT !.pc = "resetRevoke"]
    <3>2. req' = [req EXCEPT ![r] = q] BY <3>1 DEF Goto
    <3>3. q.pc = "resetRevoke" BY DEF Idle
    <3> HIDE DEF q
    <3>4. req'[r].pc = "resetRevoke" BY <1>0, <3>2, <3>3 DEF TypeOK
    <3>5. /\ Spent(req[r].link, link')
          /\ \A k \in Links : Spent(k, link) => Spent(k, link')
      BY <1>0, <2>1, <2>3, <3>1, SpentByMark
    <3>6. ASSUME NEW l \in setBy', ~halfDone', ~Spent(l, link')
          PROVE  \E s \in Requests : req'[s].pc = "resetMark" /\ req'[s].link = l
      <4>1. l # req[r].link /\ ~Spent(l, link) /\ l \in setBy BY <1>0, <2>1, <3>5, <3>6
      <4>2. PICK s \in Requests : req[s].pc = "resetMark" /\ req[s].link = l
        BY <3>1, <3>6, <4>1 DEF ResetIsWhole, Spent, Exists
      <4> QED BY <1>1, <4>1, <4>2
    <3> QED BY <2>1, <3>1, <3>4, <3>6 DEF ResetIsWhole, Spent, Exists
  <2> QED BY <2>2, <2>3
<1>5. CASE ResetRevoke(r)
  <2>1. /\ UNCHANGED <<conf, link, setBy, halfDone>> /\ sessions' = {}
        /\ req[r].pc = "resetRevoke"
    BY <1>5 DEF ResetRevoke, RevokeAllUserRefreshTokens
  <2>2. ASSUME NEW l \in setBy', ~halfDone', ~Spent(l, link')
        PROVE  \E s \in Requests : req'[s].pc = "resetMark" /\ req'[s].link = l
    <3>1. PICK s \in Requests : req[s].pc = "resetMark" /\ req[s].link = l
      BY <2>1, <2>2 DEF ResetIsWhole, Spent, Exists
    <3>2. s # r BY <2>1, <3>1
    <3> QED BY <1>1, <3>1, <3>2
  <2> QED BY <2>1, <2>2 DEF ResetIsWhole, Spent, Exists
<1>6. CASE CutOff(r)
  <2>1. UNCHANGED <<conf, link, sessions, setBy>> /\ \E q : req' = [req EXCEPT ![r] = q]
    BY <1>6 DEF CutOff, Return
  <2>2. CASE req[r].pc \in Between
    <3>1. halfDone' = TRUE BY <1>6, <2>2 DEF CutOff, Between
    <3>2. ~conf.hasTx BY <1>0, <2>2 DEF Sound, Between
    <3> QED BY <2>1, <3>1, <3>2 DEF ResetIsWhole
  <2>3. CASE req[r].pc \notin Between
    <3>1. halfDone' = halfDone BY <1>0, <1>6, <2>3 DEF CutOff, Between
    <3> QED BY <2>1, <2>3, <3>1, ElsewhereReset
  <2> QED BY <2>2, <2>3
<1> QED BY <1>2, <1>3, <1>4, <1>5, <1>6

LEMMA WholeStep == Inv /\ ResetIsWhole /\ [Next]_vars => ResetIsWhole'
<1> SUFFICES ASSUME Inv, ResetIsWhole, [Next]_vars PROVE ResetIsWhole'
  OBVIOUS
<1>1. CASE LockAccount \/ Tick \/ Expire
  <2>1. UNCHANGED <<conf, sessions, req, setBy, halfDone>>
    BY <1>1 DEF LockAccount, Tick, Expire
  <2>2. \A l \in Links : Spent(l, link) => Spent(l, link')
    <3>1. CASE Expire
      <4>1. PICK l \in Links : /\ link[l].state = "live" /\ link[l] # Gone
                               /\ link' = [link EXCEPT ![l] = [@ EXCEPT !.state = "expired"]]
        BY <3>1 DEF Expire
      <4> DEFINE m == [link[l] EXCEPT !.state = "expired"]
      <4>2. link' = [link EXCEPT ![l] = m] BY <4>1
      <4> HIDE DEF m
      <4> QED BY <4>1, <4>2 DEF Inv, TypeOK, Spent
    <3>2. CASE LockAccount \/ Tick BY <3>2 DEF LockAccount, Tick
    <3> QED BY <1>1, <3>1, <3>2
  <2>3. setBy' \subseteq Links BY <2>1 DEF Inv, TypeOK
  <2> QED BY <2>1, <2>2, <2>3, BesideReset
<1>2. ASSUME NEW r \in Requests, Step(r) PROVE ResetIsWhole'
  BY <1>2, SameLinks, OtherLinks, OwnReset DEF Step
<1>3. CASE UNCHANGED vars
  BY <1>3 DEF vars, ResetIsWhole, Exists
<1> QED BY <1>1, <1>2, <1>3 DEF Next

\* A reset that has set its password spends its link and ends every older
\* session, whatever runs between its writes, unless it died there or lost
\* its link to a newer request; with a TxRunner no reset is left half done.
THEOREM AccountResetIsWhole == Spec => []ResetIsWhole
<1>1. Init => ResetIsWhole BY DEF Init, ResetIsWhole
<1> QED BY <1>1, WholeStep, AccountInvariant, PTL DEF Spec

=============================================================================
