---------------------------- MODULE SessionsProofs ----------------------------
(***************************************************************************)
(* Proofs about Sessions, for any sets of users, teams, tokens and         *)
(* requests, whatever store.RunInTx gives, in both session modes.          *)
(***************************************************************************)
EXTENDS Sessions, TLAPS

(***************************************************************************)
(* An idle request is a request: the account it names is some account.     *)
(***************************************************************************)
LEMMA IdleType == Idle \in Request /\ Idle.pc = "idle"
  <1>1. AnyUser \in Users
    BY SessionsAssumption DEF AnyUser
  <1>2. QED
    BY <1>1 DEF Idle, Request, PCs, Ops

(***************************************************************************)
(* What may be written to a request's record keeps it a request.           *)
(***************************************************************************)
LEMMA ReqUpdates ==
    ASSUME TypeOK, NEW r \in Requests
    PROVE  /\ Return(r) => req' \in [Requests -> Request]
           /\ \A p \in PCs : Goto(r, p) => req' \in [Requests -> Request]
  BY IdleType DEF TypeOK, Return, Goto, Request

(***************************************************************************)
(* CreateRefreshToken writes a well-formed row.                            *)
(***************************************************************************)
LEMMA CreateType ==
    ASSUME TypeOK, NEW n \in Tokens, NEW u \in Users,
           NEW tm \in Teams \cup {None}, NEW p \in Tokens \cup {None},
           CreateRefreshToken(n, u, tm, p)
    PROVE  /\ issued' \subseteq Tokens
           /\ issued \subseteq issued'
           /\ age' \in [Tokens -> Ages]
           /\ sess' \in [Tokens -> Row]
  <1> DEFINE row == [user |-> u, team |-> tm, parent |-> p,
                     root |-> IF p = None THEN n ELSE sess[p].root]
  <1>1. (IF p = None THEN n ELSE sess[p].root) \in Tokens \cup {None}
    BY SessionsAssumption DEF TypeOK, Row
  <1>2. row \in Row
    BY <1>1 DEF Row
  <1>3. sess' \in [Tokens -> Row]
    BY <1>2 DEF CreateRefreshToken, TypeOK
  <1>4. QED
    BY <1>3 DEF CreateRefreshToken, TypeOK, Ages

(***************************************************************************)
(* What the requests know of the rows they hold. A request past its read   *)
(* holds an issued row and its account; a listing holds issued rows.       *)
(***************************************************************************)
Holding == {"member", "target", "rotate", "issue", "reuse", "touch"}

HoldsRow(r) ==
    /\ req[r].pc \in Holding
          => req[r].tok \in issued /\ req[r].user = sess[req[r].tok].user
    /\ req[r].todo \subseteq issued

\* Every issued row descends from an issued one.
Rooted == \A t \in issued : sess[t].root \in issued

TypeInv == TypeOK /\ Rooted /\ \A r \in Requests : HoldsRow(r)

LEMMA TypeInvInit == Init => TypeInv
  <1> SUFFICES ASSUME Init PROVE TypeInv
    OBVIOUS
  <1>1. AnyUser \in Users
    BY SessionsAssumption DEF AnyUser
  <1>2. TypeOK
    BY <1>1, IdleType, SessionsAssumption DEF Init, TypeOK, Row, Ages
  <1>3. \A r \in Requests : HoldsRow(r)
    BY DEF Init, HoldsRow, Idle, Holding
  <1>4. QED
    BY <1>2, <1>3 DEF TypeInv, Rooted, Init

(***************************************************************************)
(* Rows are only added: what a request knows of issued rows stays true     *)
(* when its own record does not change.                                    *)
(***************************************************************************)
Grows ==
    /\ issued \subseteq issued'
    /\ \A t \in issued : sess'[t] = sess[t]

LEMMA HoldsKept ==
    ASSUME TypeInv, Grows, NEW r \in Requests, req'[r] = req[r]
    PROVE  HoldsRow(r)'
  BY DEF TypeInv, TypeOK, Grows, HoldsRow, Holding

LEMMA CreateGrows ==
    ASSUME TypeOK, NEW n \in Tokens, NEW u, NEW tm, NEW p,
           CreateRefreshToken(n, u, tm, p)
    PROVE  Grows
  BY DEF CreateRefreshToken, Grows, TypeOK

LEMMA TypeInvRead ==
    ASSUME TypeInv, NEW r \in Requests, NEW o \in Ops, NEW t \in Tokens,
           NEW tm \in Teams \cup {None}, Read(r, o, t, tm)
    PROVE  TypeInv'
  <1> DEFINE a == t \in revoked
             b == age[t] = "aged"
             q == [pc |-> "member", op |-> o, tok |-> t, wasRevoked |-> a,
                   wasAged |-> b, user |-> sess[t].user, team |-> tm,
                   todo |-> {}]
  <1>1. /\ q.pc = "member" /\ q.tok = t /\ q.user = sess[t].user
        /\ q.todo = {}
    OBVIOUS
  <1>2. q \in Request
    <2>1. a \in BOOLEAN /\ b \in BOOLEAN
      OBVIOUS
    <2>2. sess[t].user \in Users
      BY DEF TypeInv, TypeOK, Row
    <2> HIDE DEF a, b
    <2>3. QED
      BY <2>1, <2>2 DEF Request, PCs
  <1>3. req' = [req EXCEPT ![r] = q]
    BY DEF Read
  <1>4. TypeOK'
    BY <1>2, <1>3 DEF TypeInv, TypeOK, Read, rowsUnchanged, historyUnchanged
  <1>5. ASSUME NEW s \in Requests PROVE HoldsRow(s)'
    <2>1. Grows
      BY DEF Read, rowsUnchanged, Grows
    <2>2. CASE s # r
      BY <2>1, <2>2, <1>3, HoldsKept DEF TypeInv, TypeOK
    <2>3. CASE s = r
      BY <2>3, <1>1, <1>3 DEF TypeInv, TypeOK, HoldsRow, Read, rowsUnchanged
    <2>4. QED
      BY <2>2, <2>3
  <1>6. QED
    BY <1>4, <1>5 DEF TypeInv, Rooted, Read, rowsUnchanged

(***************************************************************************)
(* A step of one request keeps TypeInv if it keeps the types, only adds    *)
(* rows, and leaves that request with rows it may hold.                    *)
(***************************************************************************)
LEMMA OneRequestStep ==
    ASSUME TypeInv, TypeOK', Rooted', Grows, NEW r \in Requests, HoldsRow(r)',
           \A s \in Requests : s # r => req'[s] = req[s]
    PROVE  TypeInv'
  BY HoldsKept DEF TypeInv

LEMMA NoRequestStep ==
    ASSUME TypeInv, TypeOK', Rooted', Grows, UNCHANGED req
    PROVE  TypeInv'
  BY HoldsKept DEF TypeInv

LEMMA ReturnHolds ==
    ASSUME TypeInv, NEW r \in Requests, Return(r)
    PROVE  /\ HoldsRow(r)'
           /\ req'[r] = Idle
           /\ \A s \in Requests : s # r => req'[s] = req[s]
           /\ req' \in [Requests -> Request]
  BY IdleType DEF TypeInv, TypeOK, Return, HoldsRow, Idle, Holding

LEMMA GotoHolds ==
    ASSUME TypeInv, Grows, NEW r \in Requests, NEW p \in Holding,
           req[r].pc \in Holding, Goto(r, p)
    PROVE  /\ HoldsRow(r)'
           /\ req'[r].tok = req[r].tok
           /\ req'[r].pc = p
           /\ \A s \in Requests : s # r => req'[s] = req[s]
           /\ req' \in [Requests -> Request]
  <1>1. p \in PCs
    BY DEF Holding, PCs
  <1>2. req' \in [Requests -> Request]
    BY <1>1, ReqUpdates DEF TypeInv
  <1>3. /\ req'[r].tok = req[r].tok /\ req'[r].pc = p
        /\ req'[r].user = req[r].user
        /\ req'[r].todo = req[r].todo
        /\ \A s \in Requests : s # r => req'[s] = req[s]
    BY DEF Goto, TypeInv, TypeOK, Request
  <1>4. HoldsRow(r)'
    BY <1>3 DEF HoldsRow, TypeInv, TypeOK, Grows
  <1>5. QED
    BY <1>2, <1>3, <1>4

LEMMA TypeInvMember ==
    ASSUME TypeInv, NEW r \in Requests, requireActiveMembership(r)
    PROVE  TypeInv'
  <1> DEFINE t == req[r].tok
             P == AfterMember(req[r].op, req[r].wasRevoked)
  <1>1. Grows /\ req[r].pc = "member" /\ req[r].pc \in Holding
    BY DEF requireActiveMembership, rowsUnchanged, Grows, Holding
  <1>2. t \in issued /\ req[r].user = sess[t].user
    BY <1>1 DEF TypeInv, HoldsRow
  <1>3. P \subseteq Holding \cup {"idle"}
    BY DEF AfterMember, AfterSpent, Holding
  <1>4. /\ req' \in [Requests -> Request]
        /\ HoldsRow(r)'
        /\ \A s \in Requests : s # r => req'[s] = req[s]
    <2>1. CASE Return(r)
      BY <2>1, ReturnHolds
    <2>2. ASSUME NEW p \in P, p # "idle",
                 req' = [req EXCEPT ![r] = [@ EXCEPT !.pc = p, !.wasRevoked = FALSE]]
          PROVE  /\ req' \in [Requests -> Request]
                 /\ HoldsRow(r)'
                 /\ \A s \in Requests : s # r => req'[s] = req[s]
      <3>1. p \in PCs /\ p \in Holding
        BY <1>3, <2>2 DEF Holding, PCs
      <3>2. /\ req'[r].tok = req[r].tok /\ req'[r].user = req[r].user
            /\ req'[r].todo = req[r].todo
            /\ \A s \in Requests : s # r => req'[s] = req[s]
            /\ req' \in [Requests -> Request]
        <4> DEFINE q == [req[r] EXCEPT !.pc = p, !.wasRevoked = FALSE]
        <4>1. req[r] \in Request
          BY DEF TypeInv, TypeOK
        <4>2. /\ q \in Request /\ q.tok = req[r].tok /\ q.user = req[r].user
              /\ q.todo = req[r].todo
          BY <4>1, <3>1 DEF Request
        <4>3. req' = [req EXCEPT ![r] = q]
          BY <2>2
        <4> HIDE DEF q
        <4>4. QED
          BY <4>2, <4>3 DEF TypeInv, TypeOK
      <3>3. HoldsRow(r)'
        BY <3>2, <1>1, <1>2 DEF HoldsRow, TypeInv, TypeOK, Grows
      <3>4. QED
        BY <3>2, <3>3
    <2>3. CASE req' = [req EXCEPT ![r] = [@ EXCEPT !.pc = "revoke",
                                                   !.op = "revoke",
                                                   !.todo = {t}]]
      <3>1. /\ req'[r].pc = "revoke" /\ req'[r].todo = {t}
            /\ \A s \in Requests : s # r => req'[s] = req[s]
            /\ req' \in [Requests -> Request]
        <4> DEFINE q == [req[r] EXCEPT !.pc = "revoke", !.op = "revoke",
                                       !.todo = {t}]
        <4>1. req[r] \in Request /\ t \in Tokens
          BY <1>2 DEF TypeInv, TypeOK
        <4>2. /\ q \in Request /\ q.pc = "revoke" /\ q.todo = {t}
          BY <4>1 DEF Request, PCs, Ops
        <4>3. req' = [req EXCEPT ![r] = q]
          BY <2>3
        <4> HIDE DEF q, t
        <4>4. QED
          BY <4>2, <4>3 DEF TypeInv, TypeOK
      <3>2. HoldsRow(r)'
        BY <3>1, <1>1, <1>2 DEF HoldsRow, Holding, TypeInv, TypeOK, Grows
      <3>3. QED
        BY <3>1, <3>2
    <2>4. QED
      BY <2>1, <2>2, <2>3 DEF requireActiveMembership
  <1>5. TypeOK'
    BY <1>4 DEF requireActiveMembership, TypeInv, TypeOK, rowsUnchanged,
                historyUnchanged
  <1>6. Rooted'
    BY DEF requireActiveMembership, rowsUnchanged, TypeInv, Rooted
  <1>7. QED
    BY <1>1, <1>4, <1>5, <1>6, OneRequestStep

(***************************************************************************)
(* A request that starts over with listed rows, of an account.             *)
(***************************************************************************)
LEMMA ListingHolds ==
    ASSUME TypeInv, NEW r \in Requests, NEW q \in Request, q.pc \notin Holding,
           q.todo \subseteq issued, Grows, req' = [req EXCEPT ![r] = q]
    PROVE  /\ HoldsRow(r)'
           /\ \A s \in Requests : s # r => req'[s] = req[s]
           /\ req' \in [Requests -> Request]
  BY DEF HoldsRow, TypeInv, TypeOK, Grows

LEMMA TypeInvFinds ==
    ASSUME TypeInv, NEW r \in Requests, NEW u \in Users, FindsAll(r, u)
    PROVE  TypeInv'
  <1> DEFINE rows == RevokeAllUserRefreshTokens(u)
  <1>1. rows \in SUBSET issued
    BY DEF RevokeAllUserRefreshTokens
  <1>2. Grows /\ Rooted'
    BY DEF FindsAll, rowsUnchanged, Grows, Rooted, TypeInv
  <1> DEFINE q == [Idle EXCEPT !.pc = "revokeAll", !.op = "revoke", !.user = u, !.todo = rows]
  <1>3. req' = [req EXCEPT ![r] = q]
    BY DEF FindsAll
  <1>4. rows \in SUBSET Tokens
    BY <1>1 DEF TypeInv, TypeOK
  <1> HIDE DEF rows
  <1>5. q \in Request /\ q.pc = "revokeAll" /\ q.todo = rows
    BY <1>4, IdleType DEF Request, PCs, Ops, Idle
  <1> HIDE DEF q
  <1>6. /\ HoldsRow(r)'
        /\ \A s \in Requests : s # r => req'[s] = req[s]
        /\ req' \in [Requests -> Request]
    BY <1>1, <1>2, <1>3, <1>5, ListingHolds DEF Holding
  <1>7. TypeOK'
    BY <1>6 DEF FindsAll, TypeInv, TypeOK, rowsUnchanged, historyUnchanged
  <1>8. QED
    BY <1>2, <1>6, <1>7, OneRequestStep

\* What a bulk revocation writes, of rows that are there.
LEMMA RevokesType ==
    ASSUME TypeInv, NEW rows \in SUBSET issued, Revokes(rows)
    PROVE  Grows /\ Rooted' /\ (req' \in [Requests -> Request] => TypeOK')
  <1>1. Grows /\ Rooted'
    BY DEF Revokes, rowsUnchanged, Grows, Rooted, TypeInv
  <1>2. revoked' \subseteq issued /\ ended' \subseteq Tokens
    BY DEF Revokes, TypeInv, TypeOK, Rooted
  <1>3. QED
    BY <1>1, <1>2 DEF Revokes, rowsUnchanged, TypeInv, TypeOK

LEMMA TypeInvReuse ==
    ASSUME TypeInv, NEW r \in Requests, revokeFamilyOnReuse(r)
    PROVE  TypeInv'
  <1>1. RevokeAllUserRefreshTokens(req[r].user) \in SUBSET issued /\ req[r].user \in Users
    BY DEF RevokeAllUserRefreshTokens, TypeInv, TypeOK, Request
  <1>2. CASE FindsAll(r, req[r].user)
    BY <1>1, <1>2, TypeInvFinds
  <1>3. CASE Return(r) /\ Revokes(RevokeAllUserRefreshTokens(req[r].user))
    BY <1>1, <1>3, RevokesType, ReturnHolds, OneRequestStep
  <1>4. QED
    BY <1>2, <1>3 DEF revokeFamilyOnReuse

LEMMA TypeInvRevokeAll ==
    ASSUME TypeInv, NEW r \in Requests, RevokeAll(r)
    PROVE  TypeInv'
  <1>1. req[r].todo \in SUBSET issued
    BY DEF TypeInv, HoldsRow
  <1>2. QED
    BY <1>1, RevokesType, ReturnHolds, OneRequestStep DEF RevokeAll

LEMMA AfterSpentHolding ==
    \A o : AfterSpent(o) \subseteq {"idle", "reuse"}
  BY DEF AfterSpent

LEMMA TypeInvCreate ==
    ASSUME TypeInv, NEW n \in Tokens, NEW u \in Users,
           NEW tm \in Teams \cup {None}, NEW p \in issued \cup {None},
           CreateRefreshToken(n, u, tm, p)
    PROVE  Grows /\ Rooted' /\ issued' \subseteq Tokens /\ issued \subseteq issued'
           /\ age' \in [Tokens -> Ages] /\ sess' \in [Tokens -> Row]
  <1>1. TypeOK /\ p \in Tokens \cup {None}
    BY DEF TypeInv, TypeOK
  <1>2. Grows
    BY <1>1, CreateGrows
  <1>3. Rooted'
    <2>1. sess'[n].root = IF p = None THEN n ELSE sess[p].root
      BY <1>1 DEF CreateRefreshToken, TypeOK
    <2>2. sess'[n].root \in issued'
      BY <2>1 DEF CreateRefreshToken, TypeInv, Rooted
    <2>3. \A t \in issued : sess'[t].root \in issued'
      BY <1>2 DEF Grows, TypeInv, Rooted
    <2>4. issued' = issued \cup {n}
      BY DEF CreateRefreshToken
    <2>5. QED
      BY <2>2, <2>3, <2>4 DEF Rooted
  <1>4. QED
    BY <1>1, <1>2, <1>3, CreateType

LEMMA NewTeamType ==
    ASSUME TypeInv, NEW r \in Requests, req[r].pc \in Holding
    PROVE  NewTeam(r) \in Teams \cup {None}
  BY DEF TypeInv, TypeOK, HoldsRow, NewTeam, Request, Row

LEMMA TypeInvRotateInTx ==
    ASSUME TypeInv, NEW r \in Requests, RotateInTx(r)
    PROVE  TypeInv'
  <1> DEFINE t == req[r].tok
  <1>1. req[r].pc = "rotate" /\ req[r].pc \in Holding
    BY DEF RotateInTx, Holding
  <1>2. t \in issued /\ req[r].user \in Users
    BY <1>1 DEF TypeInv, HoldsRow, TypeOK, Row
  <1>3. CASE /\ revoked' = revoked \cup {t}
             /\ \E n \in Tokens :
                   CreateRefreshToken(n, req[r].user, NewTeam(r), t)
             /\ Return(r)
    <2>1. PICK n \in Tokens : CreateRefreshToken(n, req[r].user, NewTeam(r), t)
      BY <1>3
    <2>2. Grows /\ Rooted' /\ issued' \subseteq Tokens /\ issued \subseteq issued'
          /\ age' \in [Tokens -> Ages] /\ sess' \in [Tokens -> Row]
      BY <2>1, <1>1, <1>2, NewTeamType, TypeInvCreate
    <2>3. TypeOK'
      BY <2>2, <1>2, <1>3, ReturnHolds DEF RotateInTx, TypeInv, TypeOK,
         historyUnchanged
    <2>4. QED
      BY <2>2, <2>3, <1>3, ReturnHolds, OneRequestStep
  <1>4. CASE /\ UNCHANGED revoked
             /\ rowsUnchanged
             /\ Return(r) \/ Goto(r, "reuse")
    <2>1. Grows /\ Rooted'
      BY <1>4 DEF rowsUnchanged, Grows, Rooted, TypeInv
    <2>2. /\ req' \in [Requests -> Request]
          /\ HoldsRow(r)'
          /\ \A s \in Requests : s # r => req'[s] = req[s]
      BY <2>1, <1>1, <1>4, ReturnHolds, GotoHolds DEF Holding
    <2>3. TypeOK'
      BY <2>2, <1>4 DEF RotateInTx, TypeInv, TypeOK, rowsUnchanged,
         historyUnchanged
    <2>4. QED
      BY <2>1, <2>2, <2>3, OneRequestStep
  <1>5. QED
    BY <1>3, <1>4, AfterSpentHolding DEF RotateInTx, RevokeRefreshToken

LEMMA TypeInvConsume ==
    ASSUME TypeInv, NEW r \in Requests, CheckTarget(r) \/ Consume(r)
    PROVE  TypeInv'
  <1>1. req[r].pc \in Holding /\ req[r].tok \in issued
    BY DEF CheckTarget, Consume, Holding, TypeInv, HoldsRow
  <1>2. Grows /\ Rooted'
    BY DEF CheckTarget, Consume, rowsUnchanged, Grows, Rooted, TypeInv
  <1>3. Return(r) \/ \E p \in Holding : Goto(r, p)
    BY AfterSpentHolding DEF CheckTarget, Consume, Holding
  <1>4. /\ req' \in [Requests -> Request]
        /\ HoldsRow(r)'
        /\ \A s \in Requests : s # r => req'[s] = req[s]
    BY <1>1, <1>2, <1>3, ReturnHolds, GotoHolds
  <1>5. TypeOK'
    BY <1>1, <1>4 DEF CheckTarget, Consume, RevokeRefreshToken, TypeInv,
       TypeOK, rowsUnchanged, historyUnchanged
  <1>6. QED
    BY <1>2, <1>4, <1>5, OneRequestStep

LEMMA TypeInvIssue ==
    ASSUME TypeInv, NEW r \in Requests, issueSession(r)
    PROVE  TypeInv'
  <1>1. req[r].pc = "issue" /\ req[r].pc \in Holding /\ Return(r)
    BY DEF issueSession, Holding
  <1>2. req[r].tok \in issued /\ req[r].user \in Users
    BY <1>1 DEF TypeInv, HoldsRow, TypeOK, Row
  <1>3. PICK n \in Tokens :
           CreateRefreshToken(n, req[r].user, NewTeam(r), req[r].tok)
    BY DEF issueSession
  <1>4. Grows /\ Rooted' /\ issued' \subseteq Tokens /\ issued \subseteq issued'
        /\ age' \in [Tokens -> Ages] /\ sess' \in [Tokens -> Row]
    BY <1>1, <1>2, <1>3, NewTeamType, TypeInvCreate
  <1>5. TypeOK'
    <2>1. sess[req[r].tok].root \in Tokens /\ req[r].tok \in Tokens
      BY <1>2 DEF TypeInv, TypeOK, Rooted
    <2>2. revoked' \subseteq issued' /\ crossed' \subseteq Tokens
      BY <1>2, <1>4, <2>1 DEF issueSession, RevokeRefreshToken, TypeInv, TypeOK
    <2>3. QED
      BY <1>1, <1>4, <2>2, ReturnHolds DEF issueSession, TypeInv, TypeOK
  <1>6. QED
    BY <1>1, <1>4, <1>5, ReturnHolds, OneRequestStep

LEMMA TypeInvExtend ==
    ASSUME TypeInv, NEW r \in Requests, extendSession(r)
    PROVE  TypeInv'
  <1>1. Grows /\ Rooted' /\ Return(r)
    BY DEF extendSession, Grows, Rooted, TypeInv
  <1>2. age' \in [Tokens -> Ages]
    BY DEF extendSession, TypeInv, TypeOK, Ages
  <1>3. TypeOK'
    BY <1>1, <1>2, ReturnHolds DEF extendSession, TypeInv, TypeOK,
       historyUnchanged
  <1>4. QED
    BY <1>1, <1>3, ReturnHolds, OneRequestStep

LEMMA TypeInvStartRevoking ==
    ASSUME TypeInv, NEW r \in Requests, NEW u \in Users,
           NEW rows \in SUBSET issued, StartRevoking(r, u, rows)
    PROVE  TypeInv'
  <1> DEFINE q == [Idle EXCEPT !.pc = "revoke", !.op = "revoke", !.user = u,
                               !.todo = rows]
  <1>1. rows \in SUBSET Tokens
    BY DEF TypeInv, TypeOK
  <1>2. req' = [req EXCEPT ![r] = q]
    BY DEF StartRevoking
  <1>3. q \in Request /\ q.pc = "revoke" /\ q.todo = rows
    BY <1>1, IdleType DEF Request, PCs, Ops, Idle
  <1> HIDE DEF q
  <1>4. Grows /\ Rooted'
    BY DEF StartRevoking, rowsUnchanged, Grows, Rooted, TypeInv
  <1>5. TypeOK'
    BY <1>2, <1>3 DEF StartRevoking, TypeInv, TypeOK, rowsUnchanged,
       historyUnchanged
  <1>6. /\ HoldsRow(r)'
        /\ \A s \in Requests : s # r => req'[s] = req[s]
    BY <1>1, <1>2, <1>3, <1>4 DEF HoldsRow, Holding, TypeInv, TypeOK, Grows
  <1>7. QED
    BY <1>4, <1>5, <1>6, OneRequestStep

LEMMA TypeInvRevokeNext ==
    ASSUME TypeInv, NEW r \in Requests, RevokeNext(r)
    PROVE  TypeInv'
  <1>1. PICK t \in req[r].todo :
          /\ RevokeRefreshToken(t)
          /\ IF req[r].todo = {t}
             THEN Return(r)
             ELSE req' = [req EXCEPT ![r].todo = @ \ {t}]
    BY DEF RevokeNext
  <1>2. Grows /\ Rooted'
    BY DEF RevokeNext, rowsUnchanged, Grows, Rooted, TypeInv
  <1>3. t \in issued /\ req[r] \in Request
    BY DEF TypeInv, HoldsRow, TypeOK
  <1>5. /\ req' \in [Requests -> Request]
        /\ HoldsRow(r)'
        /\ \A s \in Requests : s # r => req'[s] = req[s]
    <2>1. CASE Return(r)
      BY <2>1, ReturnHolds
    <2>2. CASE req' = [req EXCEPT ![r].todo = @ \ {t}]
      <3> DEFINE q == [req[r] EXCEPT !.todo = @ \ {t}]
      <3>1. /\ q \in Request /\ q.pc = req[r].pc
            /\ q.todo \subseteq issued
        BY <1>3 DEF Request, TypeInv, HoldsRow
      <3>2. req' = [req EXCEPT ![r] = q]
        BY <2>2
      <3>3. req[r].pc = "revoke"
        BY DEF RevokeNext
      <3> HIDE DEF q
      <3>4. QED
        BY <3>1, <3>2, <3>3, <1>2, <1>3 DEF TypeInv, TypeOK, HoldsRow, Holding,
           Grows
    <2>3. QED
      BY <1>1, <2>1, <2>2
  <1>6. revoked' \subseteq issued
    BY <1>1, <1>3 DEF RevokeRefreshToken, TypeInv, TypeOK
  <1>7. TypeOK'
    BY <1>5, <1>6 DEF RevokeNext, TypeInv, TypeOK, rowsUnchanged, historyUnchanged
  <1>8. QED
    BY <1>2, <1>5, <1>7, OneRequestStep

LEMMA TypeInvListTeam ==
    ASSUME TypeInv, NEW r \in Requests, ListTeam(r)
    PROVE  TypeInv'
  <1> DEFINE rows == endTeamSessions(req[r].user, req[r].team)
  <1>1. rows \in SUBSET issued
    BY DEF endTeamSessions, ListActiveRefreshTokens, live
  <1>2. Return(r) \/ req' = [req EXCEPT ![r] = [@ EXCEPT !.pc = "revoke", !.todo = rows]]
    BY DEF ListTeam
  <1>3. Grows /\ Rooted'
    BY DEF ListTeam, rowsUnchanged, Grows, Rooted, TypeInv
  <1> HIDE DEF rows
  <1>4. /\ req' \in [Requests -> Request]
        /\ HoldsRow(r)'
        /\ \A s \in Requests : s # r => req'[s] = req[s]
    <2>1. CASE Return(r)
      BY <2>1, ReturnHolds
    <2>2. CASE req' = [req EXCEPT ![r] = [@ EXCEPT !.pc = "revoke", !.todo = rows]]
      <3> DEFINE q == [req[r] EXCEPT !.pc = "revoke", !.todo = rows]
      <3>1. req[r] \in Request /\ rows \in SUBSET Tokens
        BY <1>1 DEF TypeInv, TypeOK
      <3>2. /\ q \in Request /\ q.pc = "revoke" /\ q.todo = rows
        BY <3>1 DEF Request, PCs
      <3>3. req' = [req EXCEPT ![r] = q]
        BY <2>2
      <3> HIDE DEF q
      <3>4. QED
        BY <1>1, <1>3, <3>2, <3>3 DEF TypeInv, TypeOK, HoldsRow, Holding, Grows
    <2>3. QED
      BY <1>2, <2>1, <2>2
  <1>5. TypeOK'
    BY <1>4 DEF ListTeam, TypeInv, TypeOK, rowsUnchanged, historyUnchanged
  <1>6. QED
    BY <1>3, <1>4, <1>5, OneRequestStep

LEMMA TypeInvDeactivate ==
    ASSUME TypeInv, NEW r \in Requests, NEW u \in Users, NEW tm \in Teams,
           Deactivate(r, u, tm)
    PROVE  TypeInv'
  <1> DEFINE q == [Idle EXCEPT !.pc = "listTeam", !.op = "deactivate",
                               !.user = u, !.team = tm]
  <1>1. q \in Request /\ q.pc = "listTeam" /\ q.todo = {}
    BY IdleType DEF Request, PCs, Ops, Idle
  <1>2. req' = [req EXCEPT ![r] = q]
    BY DEF Deactivate
  <1> HIDE DEF q
  <1>3. Grows /\ Rooted'
    BY DEF Deactivate, rowsUnchanged, Grows, Rooted, TypeInv
  <1>4. TypeOK'
    BY <1>1, <1>2 DEF Deactivate, TypeInv, TypeOK, rowsUnchanged,
       historyUnchanged
  <1>5. /\ HoldsRow(r)'
        /\ \A s \in Requests : s # r => req'[s] = req[s]
    BY <1>1, <1>2, <1>3 DEF HoldsRow, Holding, TypeInv, TypeOK, Grows
  <1>6. QED
    BY <1>3, <1>4, <1>5, OneRequestStep

LEMMA TypeInvDeactivateList ==
    ASSUME TypeInv, NEW r \in Requests, NEW u \in Users, NEW tm \in Teams,
           DeactivateList(r, u, tm)
    PROVE  TypeInv'
  <1> DEFINE rows == endTeamSessions(u, tm)
  <1>1. rows \in SUBSET issued
    BY DEF endTeamSessions, ListActiveRefreshTokens, live
  <1>2. Grows /\ Rooted'
    BY DEF DeactivateList, rowsUnchanged, Grows, Rooted, TypeInv
  <1> DEFINE q == [Idle EXCEPT !.pc = "ending", !.op = "deactivate", !.user = u, !.team = tm,
                               !.todo = rows]
  <1>3. req' = [req EXCEPT ![r] = q] /\ rows \in SUBSET Tokens
    BY <1>1 DEF DeactivateList, TypeInv, TypeOK
  <1> HIDE DEF rows
  <1>4. q \in Request /\ q.pc = "ending" /\ q.todo = rows
    BY <1>3, IdleType DEF Request, PCs, Ops, Idle
  <1> HIDE DEF q
  <1>5. /\ HoldsRow(r)'
        /\ \A s \in Requests : s # r => req'[s] = req[s]
        /\ req' \in [Requests -> Request]
    BY <1>1, <1>2, <1>3, <1>4, ListingHolds DEF Holding
  <1>6. TypeOK'
    BY <1>5 DEF DeactivateList, TypeInv, TypeOK, rowsUnchanged, historyUnchanged
  <1>7. QED
    BY <1>2, <1>5, <1>6, OneRequestStep

LEMMA TypeInvDeactivateCommit ==
    ASSUME TypeInv, NEW r \in Requests, DeactivateCommit(r)
    PROVE  TypeInv'
  <1>1. Grows /\ Rooted' /\ Return(r)
    BY DEF DeactivateCommit, rowsUnchanged, Grows, Rooted, TypeInv
  <1>2. \A s \in Requests : Open(s) => sess[req[s].tok].root \in Tokens
    BY DEF Open, TypeInv, TypeOK, HoldsRow, Holding, Rooted
  <1>3. crossed' \subseteq Tokens
    BY <1>2 DEF DeactivateCommit, TypeInv, TypeOK
  <1>4. revoked' \subseteq issued /\ active' \subseteq Users \X Teams
    BY DEF DeactivateCommit, TypeInv, TypeOK, HoldsRow
  <1>5. TypeOK'
    BY <1>1, <1>3, <1>4, ReturnHolds DEF DeactivateCommit, TypeInv, TypeOK, rowsUnchanged
  <1>6. QED
    BY <1>1, <1>5, ReturnHolds, OneRequestStep

LEMMA TypeInvCutOff ==
    ASSUME TypeInv, NEW r \in Requests, CutOff(r)
    PROVE  TypeInv'
  <1>1. Grows /\ Rooted' /\ Return(r)
    BY DEF CutOff, rowsUnchanged, Grows, Rooted, TypeInv
  <1>2. crashes' \in 0 .. MaxCrashes
    BY SessionsAssumption DEF CutOff, TypeInv, TypeOK
  <1>3. TypeOK'
    BY <1>1, <1>2, ReturnHolds DEF CutOff, TypeInv, TypeOK, rowsUnchanged
  <1>4. QED
    BY <1>1, <1>3, ReturnHolds, OneRequestStep

LEMMA TypeInvLogin ==
    ASSUME TypeInv, NEW u \in Users, issueTokenPair(u)
    PROVE  TypeInv'
  <1>1. PICK n \in Tokens : CreateRefreshToken(n, u, None, None)
    BY DEF issueTokenPair
  <1>2. Grows /\ Rooted' /\ issued' \subseteq Tokens /\ issued \subseteq issued'
        /\ age' \in [Tokens -> Ages] /\ sess' \in [Tokens -> Row]
    BY <1>1, TypeInvCreate
  <1>3. TypeOK'
    BY <1>2 DEF issueTokenPair, historyUnchanged, TypeInv, TypeOK
  <1>4. QED
    BY <1>2, <1>3, NoRequestStep DEF issueTokenPair

LEMMA TypeInvOthers ==
    ASSUME TypeInv,
           \/ \E u \in Users : ResetPassword(u)
           \/ \E u \in Users, tm \in Teams : DeactivateInTx(u, tm)
           \/ \E u \in Users, tm \in Teams : Activate(u, tm)
           \/ \E t \in Tokens : Age(t)
           \/ UNCHANGED vars
    PROVE  TypeInv'
  <1>1. Grows /\ Rooted' /\ UNCHANGED req
    BY DEF ResetPassword, Revokes, DeactivateInTx, Activate, Age, vars, rowsUnchanged,
       Grows, Rooted, TypeInv
  <1>2. TypeOK'
    <2>1. ASSUME NEW u \in Users, ResetPassword(u) PROVE TypeOK'
      <3>1. RevokeAllUserRefreshTokens(u) \in SUBSET issued
        BY DEF RevokeAllUserRefreshTokens
      <3>2. QED
        BY <2>1, <3>1, RevokesType DEF ResetPassword, TypeInv, TypeOK
    <2>2. ASSUME NEW u \in Users, NEW tm \in Teams, DeactivateInTx(u, tm)
          PROVE  TypeOK'
      BY <2>2 DEF DeactivateInTx, endTeamSessions, ListActiveRefreshTokens,
         live, rowsUnchanged, historyUnchanged, TypeInv, TypeOK
    <2>3. ASSUME NEW u \in Users, NEW tm \in Teams, Activate(u, tm)
          PROVE  TypeOK'
      BY <2>3 DEF Activate, rowsUnchanged, historyUnchanged, TypeInv, TypeOK
    <2>4. ASSUME NEW t \in Tokens, Age(t) PROVE TypeOK'
      <3>1. sess[t].root \in Tokens /\ age' \in [Tokens -> Ages]
        BY <2>4 DEF Age, TypeInv, TypeOK, Ages, Rooted
      <3>2. late' \subseteq Tokens
        BY <2>4, <3>1 DEF Age, TypeInv, TypeOK
      <3>3. QED
        BY <2>4, <3>1, <3>2 DEF Age, TypeInv, TypeOK
    <2>5. CASE UNCHANGED vars
      BY <2>5 DEF vars, TypeInv, TypeOK
    <2>6. QED
      BY <2>1, <2>2, <2>3, <2>4, <2>5
  <1>3. QED
    BY <1>1, <1>2, NoRequestStep

LEMMA TypeInvStart ==
    ASSUME TypeInv, NEW r \in Requests, Start(r)
    PROVE  TypeInv'
  <1>1. ASSUME NEW t \in Tokens,
               Refresh(r, t) \/ ValidateSession(r, t)
        PROVE  TypeInv'
    BY <1>1, TypeInvRead DEF Refresh, ValidateSession, Ops
  <1>2. ASSUME NEW t \in Tokens, NEW tm \in Teams \cup {None},
               SwitchTeam(r, t, tm)
        PROVE  TypeInv'
    BY <1>2, TypeInvRead DEF SwitchTeam, Ops
  <1>3. ASSUME NEW t \in Tokens, Logout(r, t)
        PROVE  TypeInv'
    <2>1. sess[t].user \in Users /\ {t} \in SUBSET issued
      BY <1>3 DEF Logout, TypeInv, TypeOK, Row
    <2>2. QED
      BY <1>3, <2>1, TypeInvStartRevoking DEF Logout, Ops
  <1>4. ASSUME NEW u \in Users, NEW t \in Tokens,
               RevokeSession(r, u, t) \/ RevokeOtherSessions(r, u, t)
        PROVE  TypeInv'
    <2>1. ListActiveRefreshTokens(u) \in SUBSET issued
      BY DEF ListActiveRefreshTokens, live
    <2>2. CASE RevokeSession(r, u, t)
      <3>1. {t} \in SUBSET issued
        BY <2>1, <2>2 DEF RevokeSession
      <3>2. QED
        BY <2>2, <3>1, TypeInvStartRevoking DEF RevokeSession, Ops
    <2>3. CASE RevokeOtherSessions(r, u, t)
      BY <2>1, <2>3, TypeInvStartRevoking DEF RevokeOtherSessions, Ops
    <2>4. QED
      BY <1>4, <2>2, <2>3
  <1>5. ASSUME NEW u \in Users, RevokeAllSessions(r, u)
        PROVE  TypeInv'
    <2>1. ListActiveRefreshTokens(u) \in SUBSET issued
      BY DEF ListActiveRefreshTokens, live
    <2>2. QED
      BY <1>5, <2>1, TypeInvStartRevoking DEF RevokeAllSessions, Ops
  <1>6. QED
    BY <1>1, <1>2, <1>3, <1>4, <1>5, TypeInvDeactivate, TypeInvDeactivateList, TypeInvFinds
       DEF Start, ResetPasswordInTx

LEMMA TypeInvNext == TypeInv /\ [Next]_vars => TypeInv'
  <1> SUFFICES ASSUME TypeInv, [Next]_vars PROVE TypeInv'
    OBVIOUS
  <1>1. ASSUME NEW r \in Requests, Step(r) PROVE TypeInv'
    BY <1>1, TypeInvMember, TypeInvReuse, TypeInvRotateInTx, TypeInvConsume,
       TypeInvIssue, TypeInvExtend, TypeInvRevokeNext, TypeInvListTeam, TypeInvRevokeAll,
       TypeInvDeactivateCommit DEF Step
  <1>2. QED
    BY <1>1, TypeInvStart, TypeInvCutOff, TypeInvLogin, TypeInvOthers DEF Next

(***************************************************************************)
(* Every reachable state is well-typed, and every request holds rows that  *)
(* exist: no handler acts on a row, an account or a listing that is not in *)
(* the table.                                                              *)
(***************************************************************************)
THEOREM TypeCorrect == Spec => []TypeOK
  <1>1. TypeInv => TypeOK
    BY DEF TypeInv
  <1>2. QED
    BY <1>1, TypeInvInit, TypeInvNext, PTL DEF Spec

-----------------------------------------------------------------------------
(***************************************************************************)
(* Families. SingleUse and OneLivePerFamily are not inductive: unless the  *)
(* store is serializable there is a moment between the consume and the new *)
(* row. The strengthening says that a request in that moment owns its      *)
(* family: all of its rows are revoked, but the consumed one where that is *)
(* not committed yet, none has replaced the consumed one, and no other     *)
(* request is between its two writes for the same family.                  *)
(***************************************************************************)
Issuing(r) == req[r].pc = "issue"

Root(r) == sess[req[r].tok].root

Lineage ==
    \A t \in issued :
        sess[t].parent # None =>
            /\ sess[t].parent \in revoked
            /\ sess[sess[t].parent].root = sess[t].root

IssueInv ==
    \A r \in Requests : Issuing(r) =>
        /\ ~Serial
        /\ ReadCommitted => req[r].tok \notin revoked
        /\ \A t \in issued : sess[t].root = Root(r)
              => t \in revoked \/ (ReadCommitted /\ t = req[r].tok)
        /\ \A t \in issued : sess[t].parent # req[r].tok
        /\ \A s \in Requests : s # r /\ Issuing(s) => Root(s) # Root(r)

FamilyInv == Lineage /\ SingleUse /\ OneLivePerFamily /\ IssueInv

LEMMA FamilyInit == Init => FamilyInv
  BY DEF Init, FamilyInv, Lineage, SingleUse, OneLivePerFamily, live, IssueInv,
         Issuing, Idle

NoNewIssue ==
    \A r \in Requests :
        req'[r].pc = "issue" => req[r].pc = "issue" /\ req'[r].tok = req[r].tok

\* What holds of every step but the four that touch a family's live row.
RevokesOnly ==
    /\ UNCHANGED <<isolation, issued, sess>>
    /\ revoked \subseteq revoked'
    /\ \A t \in revoked' \ revoked : ~Locked(t)

(***************************************************************************)
(* Revoking more rows, with no request newly between its two writes.       *)
(***************************************************************************)
LEMMA FamilyKept ==
    ASSUME TypeInv, FamilyInv, RevokesOnly, NoNewIssue
    PROVE  FamilyInv'
  <1> USE DEF RevokesOnly
  <1>1. Lineage' /\ SingleUse' /\ OneLivePerFamily'
    BY DEF FamilyInv, Lineage, SingleUse, OneLivePerFamily, live
  <1>2. ASSUME NEW r \in Requests, Issuing(r)'
        PROVE  Issuing(r) /\ req'[r].tok = req[r].tok /\ Root(r)' = Root(r)
    BY <1>2 DEF NoNewIssue, Issuing, Root
  <1>3. \A r \in Requests : Issuing(r) /\ ReadCommitted => Locked(req[r].tok)
    BY DEF Issuing, Locked
  <1>4. IssueInv'
    BY <1>2, <1>3 DEF FamilyInv, IssueInv, Serial, ReadCommitted
  <1>5. QED
    BY <1>1, <1>4 DEF FamilyInv

LEMMA ReturnNoIssue ==
    ASSUME TypeInv, NEW r \in Requests, Return(r)
    PROVE  NoNewIssue
  BY ReturnHolds DEF NoNewIssue, Idle

LEMMA GotoNoIssue ==
    ASSUME TypeInv, NEW r \in Requests, NEW p, p # "issue", Goto(r, p)
    PROVE  NoNewIssue
  <1>1. \A s \in Requests : s # r => req'[s] = req[s]
    BY DEF Goto, TypeInv, TypeOK
  <1>2. req'[r].pc = p
    BY DEF Goto, TypeInv, TypeOK, Request
  <1>3. QED
    BY <1>1, <1>2 DEF NoNewIssue

(***************************************************************************)
(* The compare-and-set that is not one step with the new row: the token    *)
(* was unrevoked, so it was the live one of its family, and no request     *)
(* owns that family yet.                                                   *)
(***************************************************************************)
LEMMA FamilyConsume ==
    ASSUME TypeInv, FamilyInv, NEW r \in Requests, Consume(r),
           ConsumeRefreshToken(req[r].tok)
    PROVE  FamilyInv'
  <1> DEFINE t == req[r].tok
  <1>1. /\ revoked' = IF ReadCommitted THEN revoked ELSE revoked \cup {t}
        /\ Goto(r, "issue")
        /\ issued' = issued /\ sess' = sess /\ isolation' = isolation
        /\ ~Serial /\ req[r].pc = "rotate" /\ ~Locked(t)
    BY DEF Consume, RevokeRefreshToken, rowsUnchanged, historyUnchanged
  <1>2. t \in live
    BY DEF ConsumeRefreshToken, live
  <1>3. /\ req'[r].tok = t
        /\ \A s \in Requests : s # r => req'[s] = req[s]
    BY <1>1 DEF Goto, TypeInv, TypeOK, Request
  <1>4. Lineage' /\ SingleUse' /\ OneLivePerFamily'
    BY <1>1 DEF FamilyInv, Lineage, SingleUse, OneLivePerFamily, live
  <1>5. \A s \in Requests : s # r => Root(s)' = Root(s) /\ Issuing(s)' = Issuing(s)
    BY <1>1, <1>3 DEF Root, Issuing
  <1>6. Root(r)' = sess[t].root /\ ~Issuing(r)
    BY <1>1, <1>3 DEF Root, Issuing
  <1>7. \A s \in Requests : Issuing(s) => Root(s) # sess[t].root
    BY <1>1, <1>2 DEF FamilyInv, IssueInv, live, Locked, Issuing
  <1>8. \A x \in issued : sess[x].root = sess[t].root => x \in revoked \cup {t}
    BY <1>2 DEF FamilyInv, OneLivePerFamily, live
  <1>9. \A x \in issued : sess[x].parent # t
    <2>1. t # None
      BY <1>2, SessionsAssumption DEF live, TypeInv, TypeOK
    <2>2. QED
      BY <1>2, <2>1 DEF FamilyInv, Lineage, live
  <1>10. IssueInv'
    <2> SUFFICES ASSUME NEW s \in Requests, Issuing(s)'
                 PROVE  /\ ~Serial
                        /\ ReadCommitted => req'[s].tok \notin revoked'
                        /\ \A x \in issued : sess[x].root = Root(s)'
                              => x \in revoked' \/ (ReadCommitted /\ x = req'[s].tok)
                        /\ \A x \in issued : sess[x].parent # req'[s].tok
                        /\ \A w \in Requests : w # s /\ Issuing(w)' => Root(w)' # Root(s)'
      BY <1>1 DEF IssueInv, Serial, ReadCommitted
    <2>1. CASE s = r
      BY <2>1, <1>1, <1>2, <1>3, <1>5, <1>6, <1>7, <1>8, <1>9 DEF live
    <2>2. CASE s # r
      BY <2>2, <1>1, <1>3, <1>5, <1>6, <1>7 DEF FamilyInv, IssueInv
    <2>3. QED
      BY <2>1, <2>2
  <1>11. QED
    BY <1>4, <1>10 DEF FamilyInv

(***************************************************************************)
(* A new row replaces token p, whose family has no unrevoked row left and  *)
(* which nothing has replaced yet; the request that does it returns.       *)
(***************************************************************************)
LEMMA FamilyCreate ==
    ASSUME TypeInv, FamilyInv, NEW r \in Requests, NEW n \in Tokens,
           NEW u, NEW tm, NEW p \in issued, CreateRefreshToken(n, u, tm, p),
           Return(r), revoked' = revoked \cup {p}, UNCHANGED isolation,
           \A x \in issued : sess[x].root = sess[p].root => x \in revoked \cup {p},
           \A x \in issued : sess[x].parent # p,
           \A s \in Requests : s # r /\ Issuing(s) => Root(s) # sess[p].root
    PROVE  FamilyInv'
  <1>1. /\ issued' = issued \cup {n} /\ n \notin issued
        /\ \A x \in issued : sess'[x] = sess[x]
        /\ p # None
    BY SessionsAssumption DEF CreateRefreshToken, TypeInv, TypeOK
  <1>2. sess'[n].parent = p /\ sess'[n].root = sess[p].root
    BY <1>1 DEF CreateRefreshToken, TypeInv, TypeOK
  <1>3. n \notin revoked' /\ p \in revoked'
    BY <1>1 DEF TypeInv, TypeOK
  <1>4. Lineage'
    BY <1>1, <1>2, <1>3 DEF FamilyInv, Lineage, TypeInv, TypeOK
  <1>5. SingleUse'
    BY <1>1, <1>2 DEF FamilyInv, SingleUse
  <1>6. OneLivePerFamily'
    BY <1>1, <1>2, <1>3 DEF FamilyInv, OneLivePerFamily, live
  <1>7. IssueInv'
    <2> SUFFICES ASSUME NEW s \in Requests, Issuing(s)'
                 PROVE  /\ ~Serial
                        /\ ReadCommitted => req'[s].tok \notin revoked'
                        /\ \A x \in issued' : sess'[x].root = Root(s)'
                              => x \in revoked' \/ (ReadCommitted /\ x = req'[s].tok)
                        /\ \A x \in issued' : sess'[x].parent # req'[s].tok
                        /\ \A w \in Requests : w # s /\ Issuing(w)' => Root(w)' # Root(s)'
      BY DEF IssueInv, Serial, ReadCommitted
    <2>1. ~Issuing(r)' /\ \A w \in Requests : w # r => req'[w] = req[w]
      BY ReturnHolds DEF Issuing, Idle
    <2>2. ASSUME NEW w \in Requests, Issuing(w)'
          PROVE  w # r /\ Issuing(w) /\ Root(w)' = Root(w) /\ req'[w].tok = req[w].tok
                 /\ req[w].tok \in issued
      <3>1. w # r /\ Issuing(w) /\ req'[w].tok = req[w].tok
        BY <2>1, <2>2 DEF Issuing
      <3>2. req[w].tok \in issued
        BY <3>1 DEF TypeInv, HoldsRow, Holding, Issuing
      <3>3. QED
        BY <3>1, <3>2, <1>1 DEF Root
    <2>3. req[s].tok # p
      BY <2>2 DEF Root
    <2>4. QED
      BY <2>2, <2>3, <1>1, <1>2 DEF FamilyInv, IssueInv
  <1>8. QED
    BY <1>4, <1>5, <1>6, <1>7 DEF FamilyInv

LEMMA FamilyRotateInTx ==
    ASSUME TypeInv, FamilyInv, NEW r \in Requests, RotateInTx(r)
    PROVE  FamilyInv'
  <1> DEFINE t == req[r].tok
  <1>1. CASE /\ ConsumeRefreshToken(t)
             /\ revoked' = revoked \cup {t}
             /\ \E n \in Tokens :
                   CreateRefreshToken(n, req[r].user, NewTeam(r), t)
             /\ Return(r)
    <2>1. PICK n \in Tokens : CreateRefreshToken(n, req[r].user, NewTeam(r), t)
      BY <1>1
    <2>2. t \in live /\ t \in issued /\ t # None
      BY <1>1, SessionsAssumption DEF ConsumeRefreshToken, live, TypeInv, TypeOK
    <2>3. \A x \in issued : sess[x].root = sess[t].root => x \in revoked \cup {t}
      BY <2>2 DEF FamilyInv, OneLivePerFamily, live
    <2>4. \A x \in issued : sess[x].parent # t
      BY <2>2 DEF FamilyInv, Lineage, live
    <2>5. \A s \in Requests : ~Issuing(s)
      BY DEF FamilyInv, IssueInv, RotateInTx
    <2>6. QED
      BY <1>1, <2>1, <2>2, <2>3, <2>4, <2>5, FamilyCreate DEF RotateInTx, historyUnchanged
  <1>2. CASE /\ UNCHANGED revoked
             /\ rowsUnchanged
             /\ Return(r) \/ Goto(r, "reuse")
    <2>1. RevokesOnly
      BY <1>2 DEF RevokesOnly, rowsUnchanged, RotateInTx, historyUnchanged
    <2>2. QED
      BY <1>2, <2>1, ReturnNoIssue, GotoNoIssue, FamilyKept
  <1>3. QED
    BY <1>1, <1>2, AfterSpentHolding DEF RotateInTx, RevokeRefreshToken

LEMMA FamilyIssue ==
    ASSUME TypeInv, FamilyInv, NEW r \in Requests, issueSession(r)
    PROVE  FamilyInv'
  <1> DEFINE t == req[r].tok
  <1>1. PICK n \in Tokens : CreateRefreshToken(n, req[r].user, NewTeam(r), t)
    BY DEF issueSession
  <1>2. /\ Issuing(r) /\ Return(r) /\ isolation' = isolation /\ Root(r) = sess[t].root
        /\ revoked' = IF ReadCommitted THEN revoked \cup {t} ELSE revoked
    BY DEF issueSession, RevokeRefreshToken, Issuing, Root
  <1>3. t \in issued
    BY <1>2 DEF TypeInv, HoldsRow, Holding, Issuing
  <1>4. /\ \A x \in issued : sess[x].root = sess[t].root
              => x \in revoked \/ (ReadCommitted /\ x = t)
        /\ \A x \in issued : sess[x].parent # t
        /\ \A s \in Requests : s # r /\ Issuing(s) => Root(s) # sess[t].root
    BY <1>2 DEF FamilyInv, IssueInv
  <1>5. revoked' = revoked \cup {t}
    BY <1>2, <1>3, <1>4
  <1>6. QED
    BY <1>1, <1>2, <1>3, <1>4, <1>5, FamilyCreate

LEMMA FamilyLogin ==
    ASSUME TypeInv, FamilyInv, NEW u \in Users, issueTokenPair(u)
    PROVE  FamilyInv'
  <1>1. PICK n \in Tokens : CreateRefreshToken(n, u, None, None)
    BY DEF issueTokenPair
  <1>2. /\ issued' = issued \cup {n} /\ n \notin issued
        /\ \A x \in issued : sess'[x] = sess[x]
        /\ sess'[n].parent = None /\ sess'[n].root = n
        /\ revoked' = revoked /\ req' = req /\ isolation' = isolation
    BY <1>1 DEF issueTokenPair, CreateRefreshToken, historyUnchanged, TypeInv, TypeOK
  <1>3. \A x \in issued : sess[x].root # n
    BY <1>2 DEF TypeInv, Rooted
  <1>4. Lineage'
    BY <1>2 DEF FamilyInv, Lineage, TypeInv, TypeOK
  <1>5. SingleUse' /\ OneLivePerFamily'
    BY <1>2, <1>3 DEF FamilyInv, SingleUse, OneLivePerFamily, live
  <1>6. \A s \in Requests : Issuing(s) =>
            req[s].tok \in issued /\ req[s].tok # None /\ Root(s)' = Root(s)
            /\ Root(s) # n
    BY <1>2, <1>3, SessionsAssumption
       DEF TypeInv, TypeOK, HoldsRow, Holding, Issuing, Root
  <1>7. IssueInv'
    BY <1>2, <1>6 DEF FamilyInv, IssueInv, Issuing, Serial, ReadCommitted
  <1>8. QED
    BY <1>4, <1>5, <1>7 DEF FamilyInv

(***************************************************************************)
(* Every other step revokes rows at most, and puts no request between its  *)
(* two writes.                                                             *)
(***************************************************************************)
OtherStep ==
    \/ \E r \in Requests :
          \/ Start(r)
          \/ requireActiveMembership(r)
          \/ revokeFamilyOnReuse(r)
          \/ CheckTarget(r)
          \/ Consume(r) /\ ~ConsumeRefreshToken(req[r].tok)
          \/ extendSession(r)
          \/ RevokeNext(r)
          \/ ListTeam(r)
          \/ RevokeAll(r)
          \/ DeactivateCommit(r)
          \/ CutOff(r)
    \/ \E u \in Users : ResetPassword(u)
    \/ \E u \in Users, tm \in Teams : DeactivateInTx(u, tm)
    \/ \E u \in Users, tm \in Teams : Activate(u, tm)
    \/ \E t \in Tokens : Age(t)
    \/ UNCHANGED vars

\* A request that starts writes nothing yet; without a transaction the end of
\* a membership is its first write.
LEMMA StartRows ==
    ASSUME NEW r \in Requests, Start(r)
    PROVE  /\ UNCHANGED <<issued, age, sess, revoked, isolation, ended, crossed, late>>
           /\ isolation # "none" => UNCHANGED active
  <1> DEFINE C == /\ UNCHANGED <<issued, age, sess, revoked, isolation, ended, crossed, late>>
                  /\ isolation # "none" => UNCHANGED active
  <1> USE DEF rowsUnchanged, historyUnchanged
  <1>1. ASSUME NEW o, NEW t, NEW tm, Read(r, o, t, tm) PROVE C
    BY <1>1 DEF Read
  <1>2. ASSUME NEW u, NEW rows, StartRevoking(r, u, rows) PROVE C
    BY <1>2 DEF StartRevoking
  <1>3. ASSUME NEW u, NEW tm, Deactivate(r, u, tm) \/ DeactivateList(r, u, tm) PROVE C
    BY <1>3 DEF Deactivate, DeactivateList
  <1>4. ASSUME NEW u, FindsAll(r, u) PROVE C
    BY <1>4 DEF FindsAll
  <1> HIDE DEF C
  <1>5. C
    BY <1>1, <1>2, <1>3, <1>4 DEF Start, Refresh, SwitchTeam, ValidateSession, Logout,
       RevokeSession, RevokeOtherSessions, RevokeAllSessions, ResetPasswordInTx
  <1>6. QED
    BY <1>5 DEF C

LEMMA BulkRows ==
    ASSUME NEW rows, Revokes(rows), \A t \in rows : ~Locked(t)
    PROVE  RevokesOnly
  BY DEF Revokes, RevokesOnly, rowsUnchanged

LEMMA OtherStepRows == OtherStep => RevokesOnly
  <1> SUFFICES ASSUME OtherStep PROVE RevokesOnly
    OBVIOUS
  <1> USE DEF rowsUnchanged, historyUnchanged, RevokeRefreshToken
  <1>1. ~ReadCommitted => \A t : ~Locked(t)
    BY DEF Locked
  <1>2. ASSUME NEW r \in Requests, revokeFamilyOnReuse(r) \/ RevokeAll(r) PROVE RevokesOnly
    BY <1>1, <1>2, BulkRows DEF revokeFamilyOnReuse, RevokeAll, FindsAll, RevokesOnly
  <1>3. ASSUME NEW u \in Users, ResetPassword(u) PROVE RevokesOnly
    BY <1>1, <1>3, BulkRows DEF ResetPassword
  <1>4. ASSUME NEW u \in Users, NEW tm \in Teams, DeactivateInTx(u, tm) PROVE RevokesOnly
    BY <1>1, <1>4 DEF DeactivateInTx, RevokesOnly, Serial, ReadCommitted
  <1>5. ASSUME NEW r \in Requests, RevokeNext(r) \/ DeactivateCommit(r) PROVE RevokesOnly
    BY <1>5 DEF RevokeNext, DeactivateCommit, RevokesOnly
  <1>6. ASSUME NEW r \in Requests, Start(r) PROVE RevokesOnly
    BY <1>6, StartRows DEF RevokesOnly
  <1>7. ASSUME NEW r \in Requests,
               \/ requireActiveMembership(r) \/ CheckTarget(r)
               \/ Consume(r) /\ ~ConsumeRefreshToken(req[r].tok)
               \/ extendSession(r) \/ ListTeam(r) \/ CutOff(r)
        PROVE  RevokesOnly
    BY <1>7 DEF requireActiveMembership, CheckTarget, Consume, extendSession, ListTeam,
       CutOff, RevokesOnly
  <1>8. CASE \/ \E u \in Users, tm \in Teams : Activate(u, tm)
             \/ \E t \in Tokens : Age(t)
             \/ UNCHANGED vars
    BY <1>8 DEF Activate, Age, vars, RevokesOnly
  <1>9. QED
    BY <1>2, <1>3, <1>4, <1>5, <1>6, <1>7, <1>8 DEF OtherStep

LEMMA OtherStepNoIssue ==
    ASSUME TypeInv, OtherStep
    PROVE  NoNewIssue
  <1>1. ASSUME NEW r \in Requests, NEW q, q.pc # "issue",
               req' = [req EXCEPT ![r] = q]
        PROVE  NoNewIssue
    BY <1>1 DEF NoNewIssue, TypeInv, TypeOK
  <1>2. ASSUME UNCHANGED req PROVE NoNewIssue
    BY <1>2 DEF NoNewIssue
  <1>3. ASSUME NEW r \in Requests, Start(r) PROVE NoNewIssue
    <2>1. ASSUME NEW o, NEW t, NEW tm, Read(r, o, t, tm) PROVE NoNewIssue
      BY <2>1, <1>1 DEF Read
    <2>2. ASSUME NEW u, NEW rows, StartRevoking(r, u, rows)
          PROVE  NoNewIssue
      BY <2>2, <1>1 DEF StartRevoking, Idle
    <2>3. ASSUME NEW u, NEW tm, Deactivate(r, u, tm) \/ DeactivateList(r, u, tm)
          PROVE  NoNewIssue
      BY <2>3, <1>1 DEF Deactivate, DeactivateList, Idle
    <2>4. ASSUME NEW u, FindsAll(r, u) PROVE NoNewIssue
      BY <2>4, <1>1 DEF FindsAll, Idle
    <2>5. QED
      BY <1>3, <2>1, <2>2, <2>3, <2>4 DEF Start, Refresh, SwitchTeam,
         ValidateSession, Logout, RevokeSession, RevokeOtherSessions,
         RevokeAllSessions, ResetPasswordInTx
  <1>4. ASSUME NEW r \in Requests, requireActiveMembership(r) PROVE NoNewIssue
    <2> DEFINE P == AfterMember(req[r].op, req[r].wasRevoked)
    <2>1. "issue" \notin P /\ req[r] \in Request
      BY DEF AfterMember, AfterSpent, TypeInv, TypeOK
    <2> HIDE DEF P
    <2>2. \A p \in P : [req[r] EXCEPT !.pc = p, !.wasRevoked = FALSE].pc # "issue"
      BY <2>1 DEF Request
    <2>3. [req[r] EXCEPT !.pc = "revoke", !.op = "revoke",
                         !.todo = {req[r].tok}].pc # "issue"
      BY <2>1 DEF Request
    <2>4. \/ Return(r)
          \/ \E p \in P :
                req' = [req EXCEPT ![r] = [req[r] EXCEPT !.pc = p, !.wasRevoked = FALSE]]
          \/ req' = [req EXCEPT ![r] =
                        [req[r] EXCEPT !.pc = "revoke", !.op = "revoke",
                                       !.todo = {req[r].tok}]]
      BY <1>4 DEF requireActiveMembership, P
    <2>5. QED
      BY <1>1, <2>2, <2>3, <2>4, ReturnNoIssue
  <1>5. ASSUME NEW r \in Requests, RevokeNext(r) PROVE NoNewIssue
    <2>1. PICK t \in req[r].todo :
             Return(r) \/ req' = [req EXCEPT ![r] = [req[r] EXCEPT !.todo = @ \ {t}]]
      BY <1>5 DEF RevokeNext
    <2>2. [req[r] EXCEPT !.todo = @ \ {t}].pc # "issue"
      BY <1>5 DEF RevokeNext, TypeInv, TypeOK, Request
    <2>3. QED
      BY <1>1, <2>1, <2>2, ReturnNoIssue
  <1>6. ASSUME NEW r \in Requests, ListTeam(r) PROVE NoNewIssue
    <2> DEFINE rows == endTeamSessions(req[r].user, req[r].team)
    <2>1. [req[r] EXCEPT !.pc = "revoke", !.todo = rows].pc # "issue"
      BY DEF TypeInv, TypeOK, Request
    <2>2. \/ Return(r)
          \/ req' = [req EXCEPT ![r] = [req[r] EXCEPT !.pc = "revoke", !.todo = rows]]
      BY <1>6 DEF ListTeam
    <2>3. QED
      BY <1>1, <2>1, <2>2, ReturnNoIssue
  <1>7. ASSUME NEW r \in Requests,
               \/ revokeFamilyOnReuse(r)
               \/ CheckTarget(r)
               \/ Consume(r) /\ ~ConsumeRefreshToken(req[r].tok)
               \/ extendSession(r)
               \/ RevokeAll(r)
               \/ DeactivateCommit(r)
               \/ CutOff(r)
        PROVE  NoNewIssue
    <2>1. \/ Return(r) \/ \E p : p # "issue" /\ Goto(r, p)
          \/ FindsAll(r, req[r].user)
      BY <1>7, AfterSpentHolding DEF revokeFamilyOnReuse, CheckTarget, Consume,
         extendSession, RevokeAll, DeactivateCommit, CutOff
    <2>2. CASE FindsAll(r, req[r].user)
      BY <2>2, <1>1 DEF FindsAll, Idle
    <2>3. QED
      BY <2>1, <2>2, ReturnNoIssue, GotoNoIssue
  <1>8. QED
    BY <1>2, <1>3, <1>4, <1>5, <1>6, <1>7 DEF OtherStep, ResetPassword,
       DeactivateInTx, Activate, Age, vars

\* The four steps that touch a family's live row, and the rest.
LEMMA NextCases ==
    ASSUME [Next]_vars
    PROVE  \/ \E r \in Requests :
                 \/ RotateInTx(r)
                 \/ Consume(r) /\ ConsumeRefreshToken(req[r].tok)
                 \/ issueSession(r)
           \/ \E u \in Users : issueTokenPair(u)
           \/ OtherStep
  BY DEF Next, Step, OtherStep

LEMMA FamilyNext == TypeInv /\ FamilyInv /\ [Next]_vars => FamilyInv'
  <1> SUFFICES ASSUME TypeInv, FamilyInv, [Next]_vars PROVE FamilyInv'
    OBVIOUS
  <1>1. CASE OtherStep
    BY <1>1, OtherStepRows, OtherStepNoIssue, FamilyKept
  <1>2. QED
    BY <1>1, NextCases, FamilyRotateInTx, FamilyConsume, FamilyIssue,
       FamilyLogin

(***************************************************************************)
(* A refresh token is spent at most once, whatever the requests and        *)
(* whether or not there is a TxRunner: the compare-and-set of              *)
(* ConsumeRefreshToken is enough.                                          *)
(***************************************************************************)
THEOREM TokensAreSingleUse == Spec => []SingleUse
  <1>1. FamilyInv => SingleUse
    BY DEF FamilyInv
  <1>2. QED
    BY <1>1, TypeInvInit, TypeInvNext, FamilyInit, FamilyNext, PTL DEF Spec

(***************************************************************************)
(* The chain of rotations from one sign-in never forks.                    *)
(***************************************************************************)
THEOREM FamiliesNeverFork == Spec => []OneLivePerFamily
  <1>1. FamilyInv => OneLivePerFamily
    BY DEF FamilyInv
  <1>2. QED
    BY <1>1, TypeInvInit, TypeInvNext, FamilyInit, FamilyNext, PTL DEF Spec

-----------------------------------------------------------------------------
(***************************************************************************)
(* No step takes a revocation back or renews a revoked row: Touch and      *)
(* Consume look at RevokedAt when they write, and a new row is a new row.  *)
(***************************************************************************)
THEOREM RevocationIsFinal == Spec => RevokedIsFinal
  <1> DEFINE A == /\ revoked \subseteq revoked'
                  /\ \A t \in revoked : age[t] = "expired" => age'[t] = "expired"
                  /\ \A t \in revoked : age'[t] = "fresh" => age[t] = "fresh"
  <1>1. ASSUME TypeInv, [Next]_vars PROVE A
    <2>1. ASSUME NEW n, NEW u, NEW tm, NEW p, CreateRefreshToken(n, u, tm, p)
          PROVE  \A t \in revoked : age'[t] = age[t]
      BY <1>1, <2>1 DEF CreateRefreshToken, TypeInv, TypeOK
    <2>2. ASSUME NEW r \in Requests, RotateInTx(r) PROVE A
      BY <2>1, <2>2 DEF RotateInTx, RevokeRefreshToken, rowsUnchanged
    <2>3. ASSUME NEW r \in Requests, Consume(r) PROVE A
      BY <2>3 DEF Consume, RevokeRefreshToken, rowsUnchanged
    <2>4. ASSUME NEW r \in Requests, issueSession(r) PROVE A
      BY <2>1, <2>4 DEF issueSession, RevokeRefreshToken
    <2>5. ASSUME NEW u \in Users, issueTokenPair(u) PROVE A
      BY <2>1, <2>5 DEF issueTokenPair
    <2>6. ASSUME NEW r \in Requests, extendSession(r) PROVE A
      BY <1>1, <2>6 DEF extendSession, TouchRefreshToken, TypeInv, TypeOK
    <2>7. ASSUME NEW t \in Tokens, Age(t) PROVE A
      BY <1>1, <2>7 DEF Age, TypeInv, TypeOK
    <2>8. ASSUME NEW r \in Requests, Start(r) PROVE A
      BY <2>8, StartRows
    <2>9. ASSUME NEW r \in Requests,
                 \/ requireActiveMembership(r) \/ revokeFamilyOnReuse(r)
                 \/ CheckTarget(r) \/ RevokeNext(r) \/ ListTeam(r) \/ RevokeAll(r)
                 \/ DeactivateCommit(r) \/ CutOff(r)
          PROVE  A
      BY <2>9 DEF requireActiveMembership, revokeFamilyOnReuse, FindsAll, Revokes, CheckTarget,
         RevokeNext, ListTeam, RevokeAll, DeactivateCommit, CutOff, RevokeRefreshToken,
         rowsUnchanged
    <2>10. CASE \/ \E u \in Users : ResetPassword(u)
                \/ \E u \in Users, tm \in Teams : DeactivateInTx(u, tm)
                \/ \E u \in Users, tm \in Teams : Activate(u, tm)
                \/ UNCHANGED vars
      BY <2>10 DEF ResetPassword, Revokes, DeactivateInTx, Activate, vars, rowsUnchanged
    <2>11. QED
      BY <1>1, <2>2, <2>3, <2>4, <2>5, <2>6, <2>7, <2>8, <2>9, <2>10
         DEF Next, Step
  <1>2. QED
    BY <1>1, TypeInvInit, TypeInvNext, PTL DEF Spec, RevokedIsFinal

-----------------------------------------------------------------------------
(***************************************************************************)
(* Bulk revocation. Needs, beside the families, that a family has one user *)
(* and that only started families have been ended. At READ COMMITTED it    *)
(* needs what an UPDATE under way has found: every row there is of the     *)
(* families it ends, but those of a rotation that has committed since.     *)
(***************************************************************************)
OneUser == \A t \in issued : sess[sess[t].root].user = sess[t].user

Found ==
    \A r \in Requests : req[r].pc = "revokeAll" =>
        /\ \A x \in req[r].todo : sess[x].user = req[r].user
        /\ \A t \in issued, x \in req[r].todo :
              sess[t].root = sess[x].root => t \in req[r].todo \/ sess[t].root \in crossed

Updating == \A r \in Requests : req[r].pc = "revokeAll" => ReadCommitted

EndedInv == OneUser /\ EndedStaysEnded /\ ended \subseteq issued /\ Found /\ Updating

LEMMA EndedInit == Init => EndedInv
  BY DEF Init, EndedInv, OneUser, EndedStaysEnded, Found, Updating, Idle

\* No request newly stands before the UPDATE of a bulk revocation.
NoNewUpdate == \A r \in Requests : req'[r].pc = "revokeAll" => req'[r] = req[r]

\* A rotation of a serializable store, or the commit of one at READ COMMITTED,
\* which notes the revocations it overlaps.
LEMMA EndedCreate ==
    ASSUME TypeInv, EndedInv, NEW n \in Tokens, NEW u \in Users, NEW tm,
           NEW p \in issued \cup {None}, CreateRefreshToken(n, u, tm, p),
           p # None => (isolation # "none" => p \notin revoked) /\ u = sess[p].user,
           revoked \subseteq revoked', UNCHANGED <<isolation, ended>>,
           crossed \subseteq crossed', NoNewUpdate,
           p # None => \A s \in Requests : req[s].pc = "revokeAll" /\ req[s].user = u
                                              => sess[p].root \in crossed'
    PROVE  EndedInv'
  <1>1. /\ issued' = issued \cup {n} /\ n \notin issued
        /\ \A x \in issued : sess'[x] = sess[x]
        /\ sess'[n].user = u
        /\ sess'[n].root = IF p = None THEN n ELSE sess[p].root
    BY DEF CreateRefreshToken, TypeInv, TypeOK
  <1>2. \A x \in issued : sess[x].root \in issued
    BY DEF TypeInv, Rooted
  <1>3. OneUser' /\ EndedStaysEnded' /\ ended' \subseteq issued'
    <2>1. CASE p = None
      BY <1>1, <1>2, <2>1 DEF EndedInv, OneUser, EndedStaysEnded
    <2>2. CASE p # None
      <3>1. sess[p].root \in issued /\ (isolation # "none" => sess[p].root \notin ended \ crossed)
        BY <1>2, <2>2 DEF EndedInv, EndedStaysEnded
      <3>2. QED
        BY <1>1, <1>2, <2>2, <3>1 DEF EndedInv, OneUser, EndedStaysEnded
    <2>3. QED
      BY <2>1, <2>2
  <1>4. ASSUME NEW s \in Requests, req'[s].pc = "revokeAll"
        PROVE  /\ \A x \in req'[s].todo : sess'[x].user = req'[s].user
               /\ \A t \in issued', x \in req'[s].todo :
                    sess'[t].root = sess'[x].root => t \in req'[s].todo \/ sess'[t].root \in crossed'
    <2>1. req'[s] = req[s] /\ req[s].todo \subseteq issued
      BY <1>4 DEF NoNewUpdate, TypeInv, HoldsRow
    <2>2. /\ \A x \in req[s].todo : sess[x].user = req[s].user
          /\ \A t \in issued, x \in req[s].todo :
                sess[t].root = sess[x].root => t \in req[s].todo \/ sess[t].root \in crossed
      BY <1>4, <2>1 DEF EndedInv, Found
    <2>3. ASSUME NEW x \in req[s].todo, sess'[n].root = sess[x].root
          PROVE  sess'[n].root \in crossed'
      <3>1. p # None /\ sess[p].root = sess[x].root /\ p \in issued
        BY <1>1, <1>2, <2>1, <2>3
      <3>2. sess[x].user = u
        BY <2>1, <3>1 DEF EndedInv, OneUser
      <3>3. QED
        BY <1>1, <1>4, <2>1, <2>2, <3>1, <3>2
    <2>4. QED
      BY <1>1, <2>1, <2>2, <2>3
  <1>5. QED
    BY <1>3, <1>4 DEF EndedInv, Found, Updating, ReadCommitted, NoNewUpdate

\* The rows revoked are all there are of their families, but for what has
\* crossed.
LEMMA EndedRevokes ==
    ASSUME TypeInv, EndedInv, NEW rows \in SUBSET issued, Revokes(rows), NoNewUpdate,
           \A t \in issued, x \in rows :
              sess[t].root = sess[x].root => t \in rows \/ sess[t].root \in crossed
    PROVE  EndedInv'
  <1>1. /\ revoked' = revoked \cup rows /\ ended' = ended \cup {sess[t].root : t \in rows}
        /\ UNCHANGED <<isolation, issued, sess, crossed>>
    BY DEF Revokes, rowsUnchanged
  <1>2. ASSUME NEW t \in issued, sess[t].root \in ended' \ crossed, isolation # "none"
        PROVE  t \in revoked'
    BY <1>1, <1>2 DEF EndedInv, EndedStaysEnded
  <1>3. ended' \subseteq issued
    BY <1>1 DEF EndedInv, TypeInv, Rooted
  <1>4. Found'
    BY <1>1 DEF EndedInv, Found, NoNewUpdate
  <1>5. QED
    BY <1>1, <1>2, <1>3, <1>4 DEF EndedInv, OneUser, EndedStaysEnded, Updating, ReadCommitted,
       NoNewUpdate

\* All rows of a user are all there are of their families.
LEMMA AllOfUser ==
    ASSUME TypeInv, EndedInv, NEW u
    PROVE  /\ RevokeAllUserRefreshTokens(u) \in SUBSET issued
           /\ \A x \in RevokeAllUserRefreshTokens(u) : sess[x].user = u
           /\ \A t \in issued, x \in RevokeAllUserRefreshTokens(u) :
                sess[t].root = sess[x].root => t \in RevokeAllUserRefreshTokens(u)
  BY DEF RevokeAllUserRefreshTokens, EndedInv, OneUser

LEMMA EndedFinds ==
    ASSUME TypeInv, EndedInv, NEW r \in Requests, NEW u, FindsAll(r, u)
    PROVE  EndedInv'
  <1> DEFINE rows == RevokeAllUserRefreshTokens(u)
             q == [Idle EXCEPT !.pc = "revokeAll", !.op = "revoke", !.user = u, !.todo = rows]
  <1>1. UNCHANGED <<isolation, issued, sess, revoked, ended, crossed>>
    BY DEF FindsAll, rowsUnchanged, historyUnchanged
  <1>2. req' = [req EXCEPT ![r] = q]
    BY DEF FindsAll
  <1>3. /\ \A x \in rows : sess[x].user = u
        /\ \A t \in issued, x \in rows : sess[t].root = sess[x].root => t \in rows
    BY AllOfUser
  <1> HIDE DEF rows
  <1>4. q.user = u /\ q.todo = rows
    BY DEF Idle
  <1> HIDE DEF q
  <1>5. /\ req'[r].user = u /\ req'[r].todo = rows
        /\ \A s \in Requests : s # r => req'[s] = req[s]
    BY <1>2, <1>4 DEF TypeInv, TypeOK
  <1>6. ASSUME NEW s \in Requests, req'[s].pc = "revokeAll"
        PROVE  /\ \A x \in req'[s].todo : sess[x].user = req'[s].user
               /\ \A t \in issued, x \in req'[s].todo :
                    sess[t].root = sess[x].root => t \in req'[s].todo \/ sess[t].root \in crossed
    <2>1. CASE s = r
      BY <1>3, <1>5, <2>1
    <2>2. CASE s # r
      BY <1>5, <1>6, <2>2 DEF EndedInv, Found
    <2>3. QED
      BY <2>1, <2>2
  <1>7. Found'
    BY <1>1, <1>6 DEF Found
  <1>8. QED
    BY <1>1, <1>5, <1>7 DEF EndedInv, OneUser, EndedStaysEnded, Updating, ReadCommitted, FindsAll

\* Nothing of this is touched.
LEMMA EndedKept ==
    ASSUME EndedInv, UNCHANGED <<isolation, issued, sess, ended>>,
           revoked \subseteq revoked', crossed \subseteq crossed', NoNewUpdate
    PROVE  EndedInv'
  BY DEF EndedInv, OneUser, EndedStaysEnded, Found, Updating, ReadCommitted, NoNewUpdate

LEMMA RecordNoUpdate ==
    ASSUME TypeInv, NEW r \in Requests, NEW q, q.pc # "revokeAll", req' = [req EXCEPT ![r] = q]
    PROVE  NoNewUpdate
  BY DEF NoNewUpdate, TypeInv, TypeOK

LEMMA ReturnNoUpdate ==
    ASSUME TypeInv, NEW r \in Requests, Return(r)
    PROVE  NoNewUpdate
  BY ReturnHolds DEF NoNewUpdate, Idle

LEMMA GotoNoUpdate ==
    ASSUME TypeInv, NEW r \in Requests, NEW p, p # "revokeAll", Goto(r, p)
    PROVE  NoNewUpdate
  <1>1. \A s \in Requests : s # r => req'[s] = req[s]
    BY DEF Goto, TypeInv, TypeOK
  <1>2. req'[r].pc = p
    BY DEF Goto, TypeInv, TypeOK, Request
  <1>3. QED
    BY <1>1, <1>2 DEF NoNewUpdate

LEMMA EndedStart ==
    ASSUME TypeInv, EndedInv, NEW r \in Requests, Start(r)
    PROVE  EndedInv'
  <1>1. ASSUME NEW u, FindsAll(r, u) PROVE EndedInv'
    BY <1>1, EndedFinds
  <1>2. ASSUME NEW o, NEW t, NEW tm, Read(r, o, t, tm) PROVE NoNewUpdate
    BY <1>2, RecordNoUpdate DEF Read
  <1>3. ASSUME NEW u, NEW rows, StartRevoking(r, u, rows) PROVE NoNewUpdate
    BY <1>3, RecordNoUpdate DEF StartRevoking, Idle
  <1>4. ASSUME NEW u, NEW tm, Deactivate(r, u, tm) \/ DeactivateList(r, u, tm) PROVE NoNewUpdate
    BY <1>4, RecordNoUpdate DEF Deactivate, DeactivateList, Idle
  <1>5. NoNewUpdate \/ \E u : FindsAll(r, u)
    BY <1>2, <1>3, <1>4 DEF Start, Refresh, SwitchTeam, ValidateSession, Logout,
       RevokeSession, RevokeOtherSessions, RevokeAllSessions, ResetPasswordInTx
  <1>6. CASE NoNewUpdate
    BY <1>6, StartRows, EndedKept
  <1>7. QED
    BY <1>1, <1>5, <1>6

\* The steps of a request that end no family.
LEMMA EndedPlain ==
    ASSUME TypeInv, EndedInv, NEW r \in Requests,
           \/ requireActiveMembership(r) \/ CheckTarget(r) \/ Consume(r) \/ extendSession(r)
           \/ RevokeNext(r) \/ ListTeam(r) \/ DeactivateCommit(r) \/ CutOff(r)
    PROVE  EndedInv'
  <1> USE DEF rowsUnchanged, historyUnchanged
  <1>1. CASE requireActiveMembership(r)
    <2> DEFINE P == AfterMember(req[r].op, req[r].wasRevoked)
    <2>1. "revokeAll" \notin P /\ req[r] \in Request
      BY DEF AfterMember, AfterSpent, TypeInv, TypeOK
    <2> HIDE DEF P
    <2>2. \A p \in P : [req[r] EXCEPT !.pc = p, !.wasRevoked = FALSE].pc # "revokeAll"
      BY <2>1 DEF Request
    <2>3. [req[r] EXCEPT !.pc = "revoke", !.op = "revoke", !.todo = {req[r].tok}].pc # "revokeAll"
      BY <2>1 DEF Request
    <2>4. \/ Return(r)
          \/ \E p \in P :
                req' = [req EXCEPT ![r] = [req[r] EXCEPT !.pc = p, !.wasRevoked = FALSE]]
          \/ req' = [req EXCEPT ![r] =
                        [req[r] EXCEPT !.pc = "revoke", !.op = "revoke", !.todo = {req[r].tok}]]
      BY <1>1 DEF requireActiveMembership, P
    <2>5. NoNewUpdate
      BY <2>2, <2>3, <2>4, ReturnNoUpdate, RecordNoUpdate
    <2>6. QED
      BY <1>1, <2>5, EndedKept DEF requireActiveMembership
  <1>2. CASE RevokeNext(r)
    <2>1. PICK t \in req[r].todo :
             Return(r) \/ req' = [req EXCEPT ![r] = [req[r] EXCEPT !.todo = @ \ {t}]]
      BY <1>2 DEF RevokeNext
    <2>2. [req[r] EXCEPT !.todo = @ \ {t}].pc # "revokeAll"
      BY <1>2 DEF RevokeNext, TypeInv, TypeOK, Request
    <2>3. NoNewUpdate
      BY <2>1, <2>2, ReturnNoUpdate, RecordNoUpdate
    <2>4. QED
      BY <1>2, <2>3, EndedKept DEF RevokeNext, RevokeRefreshToken
  <1>3. CASE ListTeam(r)
    <2> DEFINE rows == endTeamSessions(req[r].user, req[r].team)
    <2>1. [req[r] EXCEPT !.pc = "revoke", !.todo = rows].pc # "revokeAll"
      BY DEF TypeInv, TypeOK, Request
    <2>2. \/ Return(r)
          \/ req' = [req EXCEPT ![r] = [req[r] EXCEPT !.pc = "revoke", !.todo = rows]]
      BY <1>3 DEF ListTeam
    <2>3. NoNewUpdate
      BY <2>1, <2>2, ReturnNoUpdate, RecordNoUpdate
    <2>4. QED
      BY <1>3, <2>3, EndedKept DEF ListTeam
  <1>4. CASE CheckTarget(r) \/ Consume(r) \/ extendSession(r) \/ DeactivateCommit(r) \/ CutOff(r)
    <2>1. Return(r) \/ \E p : p # "revokeAll" /\ Goto(r, p)
      BY <1>4, AfterSpentHolding DEF CheckTarget, Consume, extendSession, DeactivateCommit, CutOff
    <2>2. NoNewUpdate
      BY <2>1, ReturnNoUpdate, GotoNoUpdate
    <2>3. QED
      BY <1>4, <2>2, EndedKept DEF CheckTarget, Consume, RevokeRefreshToken, extendSession,
         DeactivateCommit, CutOff
  <1>5. QED
    BY <1>1, <1>2, <1>3, <1>4

LEMMA EndedRotate ==
    ASSUME TypeInv, FamilyInv, EndedInv, NEW r \in Requests, RotateInTx(r) \/ issueSession(r)
    PROVE  EndedInv'
  <1> DEFINE t == req[r].tok
  <1>1. req[r].pc \in Holding
    BY DEF RotateInTx, issueSession, Holding
  <1>2. t \in issued /\ req[r].user = sess[t].user /\ req[r].user \in Users
    BY <1>1 DEF TypeInv, TypeOK, HoldsRow, Row
  <1>3. CASE RotateInTx(r) /\ ConsumeRefreshToken(t) /\ revoked' = revoked \cup {t}
             /\ Return(r) /\ \E n \in Tokens : CreateRefreshToken(n, req[r].user, NewTeam(r), t)
    <2>1. t \notin revoked /\ UNCHANGED <<isolation, ended, crossed>> /\ isolation = "serializable"
      BY <1>3 DEF ConsumeRefreshToken, RotateInTx, historyUnchanged, Serial
    <2>2. ~\E s \in Requests : req[s].pc = "revokeAll"
      BY <2>1 DEF EndedInv, Updating, ReadCommitted
    <2>3. NoNewUpdate
      BY <1>3, ReturnNoUpdate
    <2>4. QED
      BY <1>2, <1>3, <2>1, <2>2, <2>3, EndedCreate
  <1>4. CASE RotateInTx(r) /\ UNCHANGED revoked /\ rowsUnchanged /\ (Return(r) \/ Goto(r, "reuse"))
    <2>1. NoNewUpdate
      BY <1>4, ReturnNoUpdate, GotoNoUpdate
    <2>2. QED
      BY <1>4, <2>1, EndedKept DEF RotateInTx, rowsUnchanged, historyUnchanged
  <1>5. CASE issueSession(r)
    <2>1. isolation # "none" => t \notin revoked
      BY <1>5, SessionsAssumption
         DEF issueSession, FamilyInv, IssueInv, Issuing, Serial, ReadCommitted, TypeInv, TypeOK
    <2>2. /\ UNCHANGED <<isolation, ended>> /\ revoked \subseteq revoked'
          /\ crossed \subseteq crossed'
          /\ \A s \in Requests : req[s].pc = "revokeAll" /\ req[s].user = req[r].user
                => sess[t].root \in crossed'
      BY <1>5 DEF issueSession, RevokeRefreshToken, Crossing
    <2>3. NoNewUpdate
      BY <1>5, ReturnNoUpdate DEF issueSession
    <2>4. QED
      BY <1>2, <1>5, <2>1, <2>2, <2>3, EndedCreate DEF issueSession
  <1>6. QED
    BY <1>3, <1>4, <1>5, AfterSpentHolding DEF RotateInTx, RevokeRefreshToken

LEMMA EndedNext == TypeInv /\ FamilyInv /\ EndedInv /\ [Next]_vars => EndedInv'
  <1> SUFFICES ASSUME TypeInv, FamilyInv, EndedInv, [Next]_vars PROVE EndedInv'
    OBVIOUS
  <1>1. ASSUME NEW u \in Users, issueTokenPair(u) PROVE EndedInv'
    <2>1. NoNewUpdate
      BY <1>1 DEF issueTokenPair, NoNewUpdate
    <2>2. QED
      BY <1>1, <2>1, EndedCreate DEF issueTokenPair, historyUnchanged
  <1>2. ASSUME NEW r \in Requests, revokeFamilyOnReuse(r) PROVE EndedInv'
    <2>1. CASE Revokes(RevokeAllUserRefreshTokens(req[r].user)) /\ Return(r)
      BY <2>1, AllOfUser, ReturnNoUpdate, EndedRevokes
    <2>2. QED
      BY <1>2, <2>1, EndedFinds DEF revokeFamilyOnReuse
  <1>3. ASSUME NEW r \in Requests, RevokeAll(r) PROVE EndedInv'
    <2>1. req[r].todo \in SUBSET issued
      BY DEF TypeInv, HoldsRow
    <2>2. \A t \in issued, x \in req[r].todo :
             sess[t].root = sess[x].root => t \in req[r].todo \/ sess[t].root \in crossed
      BY <1>3 DEF RevokeAll, EndedInv, Found
    <2>3. QED
      BY <1>3, <2>1, <2>2, ReturnNoUpdate, EndedRevokes DEF RevokeAll
  <1>4. ASSUME NEW u \in Users, ResetPassword(u) PROVE EndedInv'
    BY <1>4, AllOfUser, EndedRevokes DEF ResetPassword, NoNewUpdate
  <1>5. CASE \/ \E u \in Users, tm \in Teams : DeactivateInTx(u, tm)
             \/ \E u \in Users, tm \in Teams : Activate(u, tm)
             \/ \E t \in Tokens : Age(t)
             \/ UNCHANGED vars
    BY <1>5, EndedKept DEF DeactivateInTx, Activate, Age, vars, rowsUnchanged, historyUnchanged,
       NoNewUpdate
  <1>6. QED
    BY <1>1, <1>2, <1>3, <1>4, <1>5, EndedRotate, EndedPlain, EndedStart DEF Next, Step

(***************************************************************************)
(* With a TxRunner a password reset and the reuse response end every       *)
(* session of the user for good, whatever rotation is under way: at READ   *)
(* COMMITTED all but those a rotation of which committed in the meantime.  *)
(***************************************************************************)
THEOREM BulkRevocationIsComplete == Spec => []EndedStaysEnded
  <1>1. EndedInv => EndedStaysEnded
    BY DEF EndedInv
  <1>2. QED
    BY <1>1, TypeInvInit, TypeInvNext, FamilyInit, FamilyNext, EndedInit, EndedNext, PTL DEF Spec

-----------------------------------------------------------------------------
(***************************************************************************)
(* Refinement: with a TxRunner, Sessions implements SessionFamilies.       *)
(***************************************************************************)

(***************************************************************************)
(* Revoking rows ends the families whose live row is among them.           *)
(***************************************************************************)
LEMMA RevokingEnds ==
    ASSUME TypeInv, OneLivePerFamily,
           UNCHANGED <<issued, sess>>, revoked \subseteq revoked'
    PROVE  Families!Next
  <1> DEFINE F == {f \in Tokens : Family(f)' = {}}
  <1>1. ASSUME NEW f \in Tokens \ F PROVE Family(f)' = Family(f)
    <2>1. Family(f)' \subseteq Family(f)
      BY DEF Family, live
    <2>2. PICK t \in Family(f)' : TRUE
      BY <1>1
    <2>3. \A x \in Family(f) : x = t
      BY <2>1, <2>2 DEF Family, OneLivePerFamily
    <2>4. QED
      BY <2>1, <2>2, <2>3
  <1>2. AbstractFamily' =
            [f \in Tokens |-> IF f \in F THEN {} ELSE AbstractFamily[f]]
    BY <1>1 DEF AbstractFamily
  <1>3. Families!End(F)
    BY <1>2 DEF Families!End
  <1>4. QED
    BY <1>3 DEF Families!Next

(***************************************************************************)
(* A sign-in starts a family; a rotation replaces a family's credential.   *)
(***************************************************************************)
LEMMA CreatingRotates ==
    ASSUME TypeInv, FamilyInv,
           NEW n \in Tokens, NEW u, NEW tm, NEW p \in issued \cup {None},
           CreateRefreshToken(n, u, tm, p),
           \/ p = None /\ revoked' = revoked
           \/ p \in live /\ revoked' = revoked \cup {p}
    PROVE  Families!Next
  <1>1. /\ issued' = issued \cup {n} /\ n \notin issued
        /\ \A x \in issued : sess'[x] = sess[x]
        /\ sess'[n].root = IF p = None THEN n ELSE sess[p].root
        /\ n \notin revoked'
    BY DEF CreateRefreshToken, TypeInv, TypeOK, live
  <1>2. PICK g \in Tokens : /\ g = sess'[n].root
                            /\ p = None => g = n
                            /\ p # None => g = sess[p].root
    BY <1>1 DEF TypeInv, TypeOK, Rooted
  <1>3. p \in live => p # None
    BY SessionsAssumption DEF live, TypeInv, TypeOK
  <1>4. Family(g) = IF p = None THEN {} ELSE {p}
    <2>1. CASE p = None
      BY <1>1, <1>2, <2>1 DEF Family, live, TypeInv, Rooted
    <2>2. CASE p # None
      BY <1>2, <2>2 DEF Family, FamilyInv, OneLivePerFamily
    <2>3. QED
      BY <2>1, <2>2
  <1>5. live' = (live \ {p}) \cup {n}
    BY <1>1, <1>3 DEF live
  <1>6. \A x \in live' : x # n => x \in issued /\ sess'[x] = sess[x]
    BY <1>1, <1>5 DEF live
  <1>7. Family(g)' = {n}
    <2>1. n \in Family(g)'
      BY <1>2, <1>5 DEF Family
    <2>2. ASSUME NEW x \in Family(g)', x # n PROVE FALSE
      <3>1. x \in live /\ x # p /\ sess[x].root = g
        BY <1>5, <1>6, <2>2 DEF Family
      <3>2. QED
        BY <1>4, <3>1 DEF Family
    <2>3. QED
      BY <2>1, <2>2
  <1>8. ASSUME NEW f \in Tokens, f # g PROVE Family(f)' = Family(f)
    <2>1. \A x \in Family(f)' : x \in Family(f)
      BY <1>2, <1>5, <1>6, <1>8 DEF Family
    <2>2. ASSUME NEW x \in Family(f) PROVE x \in Family(f)'
      <3>1. x \in live /\ x # p /\ x # n /\ sess[x].root = f
        BY <1>1, <1>2, <1>3, <1>8, <2>2 DEF Family, live
      <3>2. QED
        BY <1>5, <1>6, <3>1 DEF Family
    <2>3. QED
      BY <2>1, <2>2
  <1>9. AbstractFamily' = [AbstractFamily EXCEPT ![g] = {n}]
    BY <1>2, <1>7, <1>8 DEF AbstractFamily
  <1>10. Families!GiveOut(g, n)
    BY <1>1, <1>9 DEF Families!GiveOut
  <1>11. CASE p = None
    BY <1>2, <1>10, <1>11 DEF Families!Next, Families!SignIn
  <1>12. CASE p # None
    <2>1. p \in Tokens /\ AbstractFamily[g] = {p}
      BY <1>2, <1>4, <1>12 DEF AbstractFamily, TypeInv, TypeOK
    <2>2. QED
      BY <1>2, <1>10, <2>1 DEF Families!Next, Families!Rotate
  <1>13. QED
    BY <1>11, <1>12

LEMMA FamiliesStep ==
    ASSUME TypeInv, FamilyInv, [Next]_vars, isolation # "none"
    PROVE  Families!Next
  <1>0. OneLivePerFamily /\ (ReadCommitted \/ Serial)
    BY SessionsAssumption DEF FamilyInv, TypeInv, TypeOK, ReadCommitted, Serial
  <1>1. CASE OtherStep
    BY <1>0, <1>1, OtherStepRows, RevokingEnds DEF RevokesOnly
  <1>2. ASSUME NEW r \in Requests, RotateInTx(r)
        PROVE  Families!Next
    <2>1. CASE UNCHANGED revoked /\ rowsUnchanged
      BY <1>0, <2>1, RevokingEnds DEF rowsUnchanged
    <2>2. CASE /\ ConsumeRefreshToken(req[r].tok)
               /\ revoked' = revoked \cup {req[r].tok}
               /\ \E n \in Tokens :
                     CreateRefreshToken(n, req[r].user, NewTeam(r), req[r].tok)
      BY <2>2, CreatingRotates DEF ConsumeRefreshToken, live
    <2>3. QED
      BY <1>2, <2>1, <2>2 DEF RotateInTx, RevokeRefreshToken
  <1>3. ASSUME NEW u \in Users, issueTokenPair(u)
        PROVE  Families!Next
    BY <1>3, CreatingRotates DEF issueTokenPair
  \* At READ COMMITTED the consume is not seen, and the commit replaces.
  <1>4. ASSUME NEW r \in Requests, Consume(r)
        PROVE  Families!Next
    BY <1>0, <1>4, RevokingEnds DEF Consume, rowsUnchanged
  <1>5. ASSUME NEW r \in Requests, issueSession(r)
        PROVE  Families!Next
    <2>1. ReadCommitted /\ Issuing(r) /\ req[r].tok \in issued
      BY <1>0, <1>5 DEF issueSession, FamilyInv, IssueInv, Issuing, TypeInv, HoldsRow, Holding
    <2>2. req[r].tok \in live
      BY <2>1 DEF FamilyInv, IssueInv, live
    <2>3. QED
      BY <1>5, <2>1, <2>2, CreatingRotates DEF issueSession, RevokeRefreshToken
  <1>6. QED
    BY <1>1, <1>2, <1>3, <1>4, <1>5, NextCases

(***************************************************************************)
(* With a TxRunner of either kind the table and all the requests on it     *)
(* implement the abstract families.                                        *)
(***************************************************************************)
THEOREM SessionsImplementFamilies == Spec => ImplementsFamilies
  <1>1. Init => Families!Init
    BY DEF Init, Families!Init, AbstractFamily, Family, live
  <1>2. TypeInv /\ FamilyInv /\ [Next]_vars => [isolation # "none" => Families!Next]_(Families!vars)
    BY FamiliesStep
  <1>3. QED
    BY <1>1, <1>2, TypeInvInit, TypeInvNext, FamilyInit, FamilyNext, PTL
       DEF Spec, ImplementsFamilies

-----------------------------------------------------------------------------
(***************************************************************************)
(* Memberships. That the sessions in a team end with the membership is     *)
(* inductive with what each request knows: the row it works with is in     *)
(* time, or its family is among the late ones; a SwitchTeam past its look  *)
(* at the target has seen a membership that is still there, or its family  *)
(* is among the crossed ones; and the end of a membership has listed every *)
(* session in the team but those of crossed and late families.             *)
(***************************************************************************)
InTime(q) ==
    q.tok # None =>
        /\ q.tok \in issued
        /\ age[q.tok] # "expired" \/ sess[q.tok].team = None \/ sess[q.tok].root \in late

Looked(q) ==
    ReadCommitted /\ q.op = "switch" /\ q.pc \in {"rotate", "issue"} =>
        \/ q.team = None
        \/ <<q.user, q.team>> \in active
        \/ sess[q.tok].root \in crossed

Listed(q) ==
    q.pc = "ending" =>
        /\ ReadCommitted
        /\ \A t \in endTeamSessions(q.user, q.team) :
              sess[t].team # None /\ sess[t].root \notin crossed \cup late => t \in q.todo

Known(q) == InTime(q) /\ Looked(q) /\ Listed(q)

MemberInv == TeamSessionsOver /\ \A r \in Requests : Known(req[r])

LEMMA MemberInit == Init => MemberInv
  BY DEF Init, MemberInv, Known, InTime, Looked, Listed, TeamSessionsOver, Idle, live

(***************************************************************************)
(* What a step must do for what the requests know to stay true: it makes   *)
(* no row expire that one of them holds, but a late one; it ends no        *)
(* membership that an open rotation has looked at, but of a crossed one;   *)
(* and it adds no session to those an end of a membership has listed.      *)
(***************************************************************************)
Mild ==
    /\ UNCHANGED isolation
    /\ Grows
    /\ crossed \subseteq crossed'
    /\ late \subseteq late'
    /\ \A t \in issued : age'[t] = "expired" =>
          \/ age[t] = "expired"
          \/ sess[t].team = None
          \/ sess[t].root \in late'
          \/ \A r \in Requests : req[r].tok # t
    /\ \A r \in Requests : Open(r) /\ <<req[r].user, req[r].team>> \in active \ active'
          => Root(r) \in crossed'
    /\ \A t \in live' :
          age'[t] # "expired" /\ sess'[t].team # None /\ sess'[t].root \notin crossed' \cup late'
             => \/ t \in live /\ age[t] # "expired"
                \/ \A r \in Requests : ~(req[r].pc = "ending" /\ req[r].user = sess'[t].user)

LEMMA KnownKept ==
    ASSUME TypeInv, MemberInv, Mild, NEW r \in Requests, req'[r] = req[r]
    PROVE  Known(req[r])'
  <1> DEFINE q == req[r]
  <1>1. Known(q) /\ (q.pc \in {"rotate", "issue"} => q.tok \in issued)
    BY DEF MemberInv, TypeInv, HoldsRow, Holding
  <1>2. InTime(q)'
    BY <1>1 DEF Known, InTime, Mild, Grows
  <1>3. Looked(q)'
    BY <1>1 DEF Known, Looked, Mild, Grows, Open, Root, ReadCommitted
  <1>4. Listed(q)'
    <2> SUFFICES ASSUME q.pc = "ending"
                 PROVE  Listed(q)'
      BY DEF Listed
    <2>1. ReadCommitted'
      BY <1>1 DEF Known, Listed, Mild, ReadCommitted
    <2>2. ASSUME NEW t \in endTeamSessions(q.user, q.team)', sess'[t].team # None,
                 sess'[t].root \notin crossed' \cup late'
          PROVE  t \in q.todo
      <3>1. t \in live' /\ age'[t] # "expired" /\ sess'[t].user = q.user /\ sess'[t].team = q.team
        BY DEF endTeamSessions, ListActiveRefreshTokens
      <3>2. t \in live /\ age[t] # "expired"
        BY <2>2, <3>1 DEF Mild
      <3>3. t \in issued /\ sess'[t] = sess[t]
        BY <3>2 DEF live, Mild, Grows
      <3>4. t \in endTeamSessions(q.user, q.team)
        BY <3>1, <3>2, <3>3 DEF endTeamSessions, ListActiveRefreshTokens
      <3>5. sess[t].team # None /\ sess[t].root \notin crossed \cup late
        BY <2>2, <3>3 DEF Mild
      <3>6. QED
        BY <1>1, <3>4, <3>5 DEF Known, Listed
    <2>3. QED
      BY <2>1, <2>2 DEF Listed
  <1>5. QED
    BY <1>2, <1>3, <1>4 DEF Known

\* A request moves on with the row it has, or none, and starts neither to
\* switch teams at READ COMMITTED nor to end a membership.
MovesOn(r) ==
    /\ req'[r].tok \in {req[r].tok, None}
    /\ req'[r].pc # "ending"
    /\ ReadCommitted /\ req'[r].op = "switch" => req'[r].pc \notin {"rotate", "issue"}

LEMMA KnownMovesOn ==
    ASSUME TypeInv, MemberInv, Mild, NEW r \in Requests, MovesOn(r)
    PROVE  Known(req[r])'
  <1>1. InTime(req[r])
    BY DEF MemberInv, Known
  <1>2. InTime(req[r])'
    BY <1>1 DEF InTime, Mild, MovesOn, Grows
  <1>3. Looked(req[r])' /\ Listed(req[r])'
    BY DEF Looked, Listed, MovesOn, Mild, ReadCommitted
  <1>4. QED
    BY <1>2, <1>3 DEF Known

LEMMA OneMember ==
    ASSUME TypeInv, MemberInv, Mild, TeamSessionsOver', NEW r \in Requests,
           \A s \in Requests : s # r => req'[s] = req[s], Known(req[r])'
    PROVE  MemberInv'
  BY KnownKept DEF MemberInv

LEMMA NoMember ==
    ASSUME TypeInv, MemberInv, Mild, TeamSessionsOver', UNCHANGED req
    PROVE  MemberInv'
  BY KnownKept DEF MemberInv

(***************************************************************************)
(* A step that at most revokes rows and begins memberships.                *)
(***************************************************************************)
Still ==
    /\ UNCHANGED <<isolation, issued, age, sess>>
    /\ revoked \subseteq revoked' /\ active \subseteq active'
    /\ crossed \subseteq crossed' /\ late \subseteq late'

LEMMA StillMild == ASSUME TypeInv, MemberInv, Still PROVE Mild /\ TeamSessionsOver'
  BY DEF Still, Mild, Grows, live, MemberInv, TeamSessionsOver, TypeInv, TypeOK

LEMMA StillRequest ==
    ASSUME TypeInv, MemberInv, Still, NEW r \in Requests, MovesOn(r),
           \A s \in Requests : s # r => req'[s] = req[s]
    PROVE  MemberInv'
  BY StillMild, KnownMovesOn, OneMember

LEMMA ReturnMovesOn ==
    ASSUME TypeInv, NEW r \in Requests, Return(r)
    PROVE  MovesOn(r) /\ \A s \in Requests : s # r => req'[s] = req[s]
  BY ReturnHolds DEF MovesOn, Idle

LEMMA GotoMovesOn ==
    ASSUME TypeInv, NEW r \in Requests, NEW p, p \notin {"ending", "rotate", "issue"}, Goto(r, p)
    PROVE  MovesOn(r) /\ \A s \in Requests : s # r => req'[s] = req[s]
  <1>1. \A s \in Requests : s # r => req'[s] = req[s]
    BY DEF Goto, TypeInv, TypeOK
  <1>2. req'[r].tok = req[r].tok /\ req'[r].pc = p
    BY DEF Goto, TypeInv, TypeOK, Request
  <1>3. QED
    BY <1>1, <1>2 DEF MovesOn

\* A request's record changes and holds the same row or none.
Becomes(r, q) == req' = [req EXCEPT ![r] = q]

LEMMA RecordMovesOn ==
    ASSUME TypeInv, NEW r \in Requests, NEW q, q.tok \in {req[r].tok, None},
           q.pc # "ending", ReadCommitted /\ q.op = "switch" => q.pc \notin {"rotate", "issue"},
           Becomes(r, q)
    PROVE  MovesOn(r) /\ \A s \in Requests : s # r => req'[s] = req[s]
  BY DEF MovesOn, Becomes, TypeInv, TypeOK

(***************************************************************************)
(* A new session in a team is one of an active member: a sign-in is in     *)
(* none, and a rotation has looked, at the target or when the session it   *)
(* replaces came to be.                                                    *)
(***************************************************************************)
LEMMA MemberCreate ==
    ASSUME TypeInv, MemberInv, NEW n \in Tokens, NEW u \in Users,
           NEW tm \in Teams \cup {None}, NEW p, CreateRefreshToken(n, u, tm, p),
           \/ tm = None
           \/ <<u, tm>> \in active
           \/ sess'[n].root \in crossed' \cup late',
           \A s \in Requests : req[s].pc = "ending" /\ req[s].user = u
              => tm = None \/ sess'[n].root \in crossed',
           revoked \subseteq revoked', UNCHANGED <<isolation, active, late>>,
           crossed \subseteq crossed'
    PROVE  Mild /\ TeamSessionsOver'
  <1>1. /\ issued' = issued \cup {n} /\ n \notin issued
        /\ \A x \in issued : sess'[x] = sess[x] /\ age'[x] = age[x]
        /\ sess'[n].user = u /\ sess'[n].team = tm
    BY DEF CreateRefreshToken, TypeInv, TypeOK
  <1>2. \A t \in live' : t = n \/ t \in live
    BY <1>1 DEF live
  <1>3. \A t \in live : t \in issued
    BY DEF live
  <1>4. Mild
    BY <1>1, <1>2, <1>3 DEF Mild, Grows
  <1>5. ASSUME NEW t \in live', isolation # "none", sess'[t].team # None, age'[t] # "expired",
               sess'[t].root \notin crossed' \cup late'
        PROVE  <<sess'[t].user, sess'[t].team>> \in active'
    <2>1. CASE t = n
      BY <1>1, <1>5, <2>1
    <2>2. CASE t # n
      <3>1. t \in live /\ sess'[t] = sess[t] /\ age'[t] = age[t]
        BY <1>1, <1>2, <1>3, <2>2
      <3>2. QED
        BY <1>5, <3>1 DEF MemberInv, TeamSessionsOver
    <2>3. QED
      BY <2>1, <2>2
  <1>6. TeamSessionsOver'
    BY <1>5 DEF TeamSessionsOver
  <1>7. QED
    BY <1>4, <1>6

\* The session that is replaced was in its team rightly.
LEMMA MemberOld ==
    ASSUME TypeInv, MemberInv, isolation # "none", NEW r \in Requests,
           req[r].tok \in live, req[r].user = sess[req[r].tok].user,
           req[r].op # "switch"
    PROVE  \/ NewTeam(r) = None
           \/ <<req[r].user, NewTeam(r)>> \in active
           \/ Root(r) \in crossed \cup late
  <1>1. req[r].tok # None
    BY SessionsAssumption DEF live, TypeInv, TypeOK
  <1>2. QED
    BY <1>1 DEF MemberInv, Known, InTime, TeamSessionsOver, NewTeam, Root

\* The row a rotation adds.
LEMMA ChildRow ==
    ASSUME TypeInv, NEW n \in Tokens, NEW u, NEW tm, NEW p \in issued,
           CreateRefreshToken(n, u, tm, p)
    PROVE  sess'[n].root = sess[p].root
  BY SessionsAssumption DEF CreateRefreshToken, TypeInv, TypeOK

LEMMA MemberRotate ==
    ASSUME TypeInv, MemberInv, NEW r \in Requests, RotateInTx(r)
    PROVE  MemberInv'
  <1>0. isolation # "none" /\ ~ReadCommitted
    BY DEF RotateInTx, Serial, ReadCommitted
  <1>1. CASE /\ TargetAllowed(r)
             /\ ConsumeRefreshToken(req[r].tok)
             /\ RevokeRefreshToken(req[r].tok)
             /\ \E n \in Tokens :
                   CreateRefreshToken(n, req[r].user, NewTeam(r), req[r].tok)
             /\ Return(r)
    <2> DEFINE t == req[r].tok
    <2>1. /\ t \in live /\ t \in issued /\ req[r].user = sess[t].user /\ req[r].user \in Users
          /\ req[r].pc \in Holding
      BY <1>1 DEF RotateInTx, ConsumeRefreshToken, live, HoldsRow, Holding, TypeInv, TypeOK, Request
    <2>2. \/ NewTeam(r) = None
          \/ <<req[r].user, NewTeam(r)>> \in active
          \/ sess[t].root \in crossed \cup late
      BY <1>0, <1>1, <2>1, MemberOld DEF NewTeam, TargetAllowed, Root
    <2>3. NewTeam(r) \in Teams \cup {None}
      BY <2>1, NewTeamType
    <2>4. \A s \in Requests : req[s].pc # "ending"
      BY <1>0 DEF MemberInv, Known, Listed
    <2>5. PICK n \in Tokens : CreateRefreshToken(n, req[r].user, NewTeam(r), t)
      BY <1>1
    <2>6. revoked \subseteq revoked' /\ UNCHANGED <<isolation, active, crossed, late>>
      BY <1>1 DEF RevokeRefreshToken, RotateInTx, historyUnchanged
    <2>7. Mild /\ TeamSessionsOver'
      BY <2>1, <2>2, <2>3, <2>4, <2>5, <2>6, ChildRow, MemberCreate
    <2>8. QED
      BY <1>1, <2>7, ReturnMovesOn, KnownMovesOn, OneMember
  <1>2. CASE UNCHANGED revoked /\ rowsUnchanged /\ (Return(r) \/ Goto(r, "reuse"))
    <2>1. Still
      BY <1>2 DEF Still, RotateInTx, rowsUnchanged, historyUnchanged
    <2>2. QED
      BY <1>2, <2>1, ReturnMovesOn, GotoMovesOn, StillRequest
  <1>3. QED
    BY <1>1, <1>2, AfterSpentHolding DEF RotateInTx

LEMMA MemberIssue ==
    ASSUME TypeInv, FamilyInv, MemberInv, isolation # "none", NEW r \in Requests, issueSession(r)
    PROVE  MemberInv'
  <1> DEFINE t == req[r].tok
  <1>1. /\ ReadCommitted /\ req[r].pc = "issue" /\ req[r].pc \in Holding /\ Return(r)
        /\ t \in issued /\ t \notin revoked
        /\ req[r].user = sess[t].user /\ req[r].user \in Users
    BY SessionsAssumption DEF issueSession, FamilyInv, IssueInv, Issuing, Serial, ReadCommitted,
       TypeInv, TypeOK, HoldsRow, Holding, Request
  <1>2. \/ NewTeam(r) = None
        \/ <<req[r].user, NewTeam(r)>> \in active
        \/ sess[t].root \in crossed \cup late
    <2>1. CASE req[r].op # "switch"
      BY <1>1, <2>1, MemberOld DEF live, Root
    <2>2. CASE req[r].op = "switch"
      BY <1>1, <2>2 DEF MemberInv, Known, Looked, NewTeam
    <2>3. QED
      BY <2>1, <2>2
  <1>3. NewTeam(r) \in Teams \cup {None}
    BY <1>1, NewTeamType
  <1>4. /\ crossed \subseteq crossed' /\ UNCHANGED <<isolation, active, late>>
        /\ revoked \subseteq revoked'
        /\ \A s \in Requests : req[s].pc = "ending" /\ req[s].user = req[r].user
              => sess[t].root \in crossed'
    BY DEF issueSession, RevokeRefreshToken, Crossing
  <1>5. PICK n \in Tokens : CreateRefreshToken(n, req[r].user, NewTeam(r), t)
    BY DEF issueSession
  <1>6. Mild /\ TeamSessionsOver'
    BY <1>1, <1>2, <1>3, <1>4, <1>5, ChildRow, MemberCreate
  <1>7. QED
    BY <1>1, <1>6, ReturnMovesOn, KnownMovesOn, OneMember

(***************************************************************************)
(* A request starts: it reads a row that is in time, lists rows, or ends   *)
(* a membership, with every session in the team on its list.               *)
(***************************************************************************)
LEMMA MemberStart ==
    ASSUME TypeInv, MemberInv, isolation # "none", NEW r \in Requests, Start(r)
    PROVE  MemberInv'
  <1>0. Still
    BY StartRows DEF Still
  <1>1. ASSUME NEW o, NEW t \in Tokens, NEW tm, Read(r, o, t, tm) PROVE MemberInv'
    <2>1. /\ req'[r].tok = t /\ t \in issued /\ age[t] # "expired" /\ req'[r].pc = "member"
          /\ \A s \in Requests : s # r => req'[s] = req[s]
      BY <1>1 DEF Read, TypeInv, TypeOK
    <2>2. Known(req[r])'
      BY <1>0, <2>1 DEF Known, InTime, Looked, Listed, Still
    <2>3. QED
      BY <1>0, <2>1, <2>2, StillMild, OneMember
  <1>2. ASSUME NEW u, NEW rows, StartRevoking(r, u, rows) PROVE MemberInv'
    <2>1. PICK q : q = [Idle EXCEPT !.pc = "revoke", !.op = "revoke", !.user = u, !.todo = rows]
      OBVIOUS
    <2>2. q.tok = None /\ q.pc = "revoke"
      BY <2>1 DEF Idle
    <2>3. Becomes(r, q)
      BY <1>2, <2>1 DEF StartRevoking, Becomes
    <2>4. QED
      BY <1>0, <2>2, <2>3, RecordMovesOn, StillRequest
  <1>3. ASSUME NEW u, FindsAll(r, u) PROVE MemberInv'
    <2>1. PICK q : q = [Idle EXCEPT !.pc = "revokeAll", !.op = "revoke", !.user = u,
                                    !.todo = RevokeAllUserRefreshTokens(u)]
      OBVIOUS
    <2>2. q.tok = None /\ q.pc = "revokeAll"
      BY <2>1 DEF Idle
    <2>3. Becomes(r, q)
      BY <1>3, <2>1 DEF FindsAll, Becomes
    <2>4. QED
      BY <1>0, <2>2, <2>3, RecordMovesOn, StillRequest
  <1>4. ASSUME NEW u, NEW tm, DeactivateList(r, u, tm) PROVE MemberInv'
    <2>1. PICK q : q = [Idle EXCEPT !.pc = "ending", !.op = "deactivate", !.user = u, !.team = tm,
                                    !.todo = endTeamSessions(u, tm)]
      OBVIOUS
    <2>2. /\ q.tok = None /\ q.pc = "ending" /\ q.user = u /\ q.team = tm
          /\ q.todo = endTeamSessions(u, tm)
      BY <2>1 DEF Idle
    <2>3. req' = [req EXCEPT ![r] = q] /\ ReadCommitted
      BY <1>4, <2>1 DEF DeactivateList
    <2>4. req'[r] = q /\ \A s \in Requests : s # r => req'[s] = req[s]
      BY <2>3 DEF TypeInv, TypeOK
    <2>5. Listed(q)'
      <3>1. live' \subseteq live
        BY <1>0 DEF live, Still
      <3>2. QED
        BY <1>0, <2>2, <2>3, <3>1 DEF Listed, Still, endTeamSessions, ListActiveRefreshTokens,
           ReadCommitted
    <2>6. Known(q)'
      BY <2>2, <2>5 DEF Known, InTime, Looked
    <2>7. Known(req[r])'
      BY <2>4, <2>6 DEF Known, InTime, Looked, Listed
    <2>8. QED
      BY <1>0, <2>4, <2>7, StillMild, OneMember
  <1>5. ASSUME NEW u, NEW tm, Deactivate(r, u, tm) PROVE FALSE
    BY <1>5 DEF Deactivate
  <1>6. QED
    BY <1>1, <1>2, <1>3, <1>4, <1>5 DEF Start, Refresh, SwitchTeam, ValidateSession, Logout,
       RevokeSession, RevokeOtherSessions, RevokeAllSessions, ResetPasswordInTx

\* The check of the session's own team, and of the one asked for.
LEMMA MemberChecks ==
    ASSUME TypeInv, MemberInv, isolation # "none", NEW r \in Requests,
           requireActiveMembership(r) \/ CheckTarget(r)
    PROVE  MemberInv'
  <1>0. Still
    BY DEF requireActiveMembership, CheckTarget, Still, rowsUnchanged, historyUnchanged
  <1>1. CASE requireActiveMembership(r)
    <2> DEFINE P == AfterMember(req[r].op, req[r].wasRevoked)
    <2>1. /\ req[r] \in Request
          /\ \A p \in P : p # "ending" /\ p # "issue"
          /\ ReadCommitted /\ req[r].op = "switch" => "rotate" \notin P
      BY DEF AfterMember, AfterSpent, TypeInv, TypeOK, Request, ReadCommitted, Serial
    <2> HIDE DEF P
    <2>2. ASSUME NEW p \in P,
                 req' = [req EXCEPT ![r] = [req[r] EXCEPT !.pc = p, !.wasRevoked = FALSE]]
          PROVE  MovesOn(r) /\ \A s \in Requests : s # r => req'[s] = req[s]
      <3>1. PICK q : q = [req[r] EXCEPT !.pc = p, !.wasRevoked = FALSE]
        OBVIOUS
      <3>2. q.tok = req[r].tok /\ q.op = req[r].op /\ q.pc = p
        BY <2>1, <3>1 DEF Request
      <3>3. Becomes(r, q)
        BY <2>2, <3>1 DEF Becomes
      <3>4. QED
        BY <2>1, <3>2, <3>3, RecordMovesOn
    <2>3. ASSUME req' = [req EXCEPT ![r] = [req[r] EXCEPT !.pc = "revoke", !.op = "revoke",
                                                          !.todo = {req[r].tok}]]
          PROVE  MovesOn(r) /\ \A s \in Requests : s # r => req'[s] = req[s]
      <3>1. PICK q : q = [req[r] EXCEPT !.pc = "revoke", !.op = "revoke", !.todo = {req[r].tok}]
        OBVIOUS
      <3>2. q.tok = req[r].tok /\ q.pc = "revoke"
        BY <2>1, <3>1 DEF Request
      <3>3. Becomes(r, q)
        BY <2>3, <3>1 DEF Becomes
      <3>4. QED
        BY <3>2, <3>3, RecordMovesOn
    <2>4. \/ Return(r)
          \/ \E p \in P :
                req' = [req EXCEPT ![r] = [req[r] EXCEPT !.pc = p, !.wasRevoked = FALSE]]
          \/ req' = [req EXCEPT ![r] =
                        [req[r] EXCEPT !.pc = "revoke", !.op = "revoke", !.todo = {req[r].tok}]]
      BY <1>1 DEF requireActiveMembership, P
    <2>5. QED
      BY <1>0, <2>2, <2>3, <2>4, ReturnMovesOn, StillRequest
  <1>2. CASE CheckTarget(r) /\ Goto(r, "rotate") /\ TargetAllowed(r)
    <2>1. /\ req'[r].pc = "rotate" /\ req'[r].tok = req[r].tok /\ req'[r].op = req[r].op
          /\ req'[r].user = req[r].user /\ req'[r].team = req[r].team
          /\ \A s \in Requests : s # r => req'[s] = req[s]
      BY <1>2 DEF Goto, TypeInv, TypeOK, Request
    <2>2. InTime(req[r])
      BY DEF MemberInv, Known
    <2>3. Known(req[r])'
      BY <1>0, <1>2, <2>1, <2>2 DEF Known, InTime, Looked, Listed, Still, TargetAllowed, CheckTarget
    <2>4. QED
      BY <1>0, <2>1, <2>3, StillMild, OneMember
  <1>3. CASE CheckTarget(r) /\ Return(r)
    BY <1>0, <1>3, ReturnMovesOn, StillRequest
  <1>4. QED
    BY <1>1, <1>2, <1>3 DEF CheckTarget

LEMMA MemberConsume ==
    ASSUME TypeInv, MemberInv, isolation # "none", NEW r \in Requests, Consume(r)
    PROVE  MemberInv'
  <1>0. Still
    BY DEF Consume, RevokeRefreshToken, Still, rowsUnchanged, historyUnchanged
  <1>1. CASE Goto(r, "issue")
    <2>1. /\ req'[r].pc = "issue" /\ req'[r].tok = req[r].tok /\ req'[r].op = req[r].op
          /\ req'[r].user = req[r].user /\ req'[r].team = req[r].team
          /\ \A s \in Requests : s # r => req'[s] = req[s]
      BY <1>1 DEF Goto, TypeInv, TypeOK, Request
    <2>2. InTime(req[r]) /\ Looked(req[r]) /\ req[r].pc = "rotate"
      BY DEF MemberInv, Known, Consume
    <2>3. Known(req[r])'
      BY <1>0, <2>1, <2>2 DEF Known, InTime, Looked, Listed, Still, ReadCommitted
    <2>4. QED
      BY <1>0, <2>1, <2>3, StillMild, OneMember
  <1>2. CASE Return(r) \/ Goto(r, "reuse")
    BY <1>0, <1>2, ReturnMovesOn, GotoMovesOn, StillRequest
  <1>3. QED
    BY <1>1, <1>2, AfterSpentHolding DEF Consume

\* The write of an extension: a row that has expired meanwhile is a late one.
LEMMA MemberExtend ==
    ASSUME TypeInv, MemberInv, NEW r \in Requests, extendSession(r)
    PROVE  MemberInv'
  <1> DEFINE t == req[r].tok
  <1>1. /\ t # None /\ t \in issued
        /\ age[t] # "expired" \/ sess[t].team = None \/ sess[t].root \in late
    BY SessionsAssumption DEF extendSession, HoldsRow, Holding, TypeInv, TypeOK, MemberInv, Known,
       InTime
  <1>2. /\ UNCHANGED <<isolation, issued, sess, revoked, active, crossed, late>> /\ Return(r)
        /\ \A x \in Tokens : x # t => age'[x] = age[x]
        /\ age'[t] \in {age[t], "fresh"}
    BY <1>1 DEF extendSession, historyUnchanged, TypeInv, TypeOK
  <1>3. \A x \in live' : x \in live /\ x \in Tokens /\ (x = t \/ age'[x] = age[x])
    BY <1>2 DEF live, TypeInv, TypeOK
  <1>4. Mild
    BY <1>1, <1>2, <1>3 DEF Mild, Grows, TypeInv, TypeOK
  <1>5. TeamSessionsOver'
    BY <1>1, <1>2, <1>3 DEF MemberInv, TeamSessionsOver
  <1>6. QED
    BY <1>2, <1>4, <1>5, ReturnMovesOn, KnownMovesOn, OneMember

\* The commit of an end of a membership: every session in the team is on the
\* list, but those of crossed and late families.
LEMMA MemberCommit ==
    ASSUME TypeInv, MemberInv, NEW r \in Requests, DeactivateCommit(r)
    PROVE  MemberInv'
  <1> DEFINE u == req[r].user
             tm == req[r].team
  <1>1. /\ UNCHANGED <<isolation, issued, age, sess, late>> /\ Return(r)
        /\ active' = active \ {<<u, tm>>} /\ revoked' = revoked \cup req[r].todo
        /\ crossed \subseteq crossed' /\ req[r].pc = "ending"
        /\ \A q \in Requests : Open(q) /\ req[q].user = u => Root(q) \in crossed'
    BY DEF DeactivateCommit, rowsUnchanged, Root
  <1>2. live' \subseteq live
    BY <1>1 DEF live
  <1>3. Mild
    BY <1>1, <1>2 DEF Mild, Grows
  <1>4. ASSUME NEW t \in live', isolation # "none", sess[t].team # None, age[t] # "expired",
               sess[t].root \notin crossed' \cup late
        PROVE  <<sess[t].user, sess[t].team>> \in active'
    <2>1. t \in live /\ t \notin req[r].todo
      BY <1>1, <1>4 DEF live
    <2>2. Listed(req[r])
      BY DEF MemberInv, Known
    <2>3. ~(sess[t].user = u /\ sess[t].team = tm)
      BY <1>1, <1>4, <2>1, <2>2 DEF Listed, endTeamSessions, ListActiveRefreshTokens
    <2>4. <<sess[t].user, sess[t].team>> \in active
      BY <1>1, <1>4, <2>1 DEF MemberInv, TeamSessionsOver
    <2>5. QED
      BY <1>1, <2>3, <2>4
  <1>5. TeamSessionsOver'
    BY <1>1, <1>4 DEF TeamSessionsOver
  <1>6. QED
    BY <1>1, <1>3, <1>5, ReturnMovesOn, KnownMovesOn, OneMember

LEMMA MemberStep ==
    ASSUME TypeInv, FamilyInv, MemberInv, isolation # "none", NEW r \in Requests,
           Step(r) \/ CutOff(r)
    PROVE  MemberInv'
  <1> USE DEF rowsUnchanged, historyUnchanged
  <1>1. CASE revokeFamilyOnReuse(r) \/ RevokeAll(r) \/ CutOff(r)
    <2>1. CASE FindsAll(r, req[r].user)
      <3>1. PICK q : q = [Idle EXCEPT !.pc = "revokeAll", !.op = "revoke", !.user = req[r].user,
                                      !.todo = RevokeAllUserRefreshTokens(req[r].user)]
        OBVIOUS
      <3>2. q.tok = None /\ q.pc = "revokeAll"
        BY <3>1 DEF Idle
      <3>3. Becomes(r, q) /\ Still
        BY <2>1, <3>1 DEF FindsAll, Still, Becomes
      <3>4. QED
        BY <3>2, <3>3, RecordMovesOn, StillRequest
    <2>2. CASE Return(r)
      <3>1. Still
        BY <1>1, <2>2 DEF revokeFamilyOnReuse, FindsAll, Revokes, RevokeAll, CutOff, Still
      <3>2. QED
        BY <2>2, <3>1, ReturnMovesOn, StillRequest
    <2>3. QED
      BY <1>1, <2>1, <2>2 DEF revokeFamilyOnReuse, RevokeAll, CutOff
  <1>2. CASE RevokeNext(r)
    <2>1. PICK t \in req[r].todo :
             Return(r) \/ req' = [req EXCEPT ![r] = [req[r] EXCEPT !.todo = @ \ {t}]]
      BY <1>2 DEF RevokeNext
    <2>2. PICK q : q = [req[r] EXCEPT !.todo = @ \ {t}]
      OBVIOUS
    <2>3. q.tok = req[r].tok /\ q.pc = "revoke"
      BY <1>2, <2>2 DEF RevokeNext, TypeInv, TypeOK, Request
    <2>4. (Return(r) \/ Becomes(r, q)) /\ Still
      BY <1>2, <2>1, <2>2 DEF RevokeNext, RevokeRefreshToken, Still, Becomes
    <2>5. QED
      BY <2>3, <2>4, ReturnMovesOn, RecordMovesOn, StillRequest
  <1>3. CASE ListTeam(r)
    <2>1. PICK q : q = [req[r] EXCEPT !.pc = "revoke", !.todo = endTeamSessions(req[r].user, req[r].team)]
      OBVIOUS
    <2>2. q.tok = req[r].tok /\ q.pc = "revoke"
      BY <2>1 DEF TypeInv, TypeOK, Request
    <2>3. (Return(r) \/ Becomes(r, q)) /\ Still
      BY <1>3, <2>1 DEF ListTeam, Still, Becomes
    <2>4. QED
      BY <2>2, <2>3, ReturnMovesOn, RecordMovesOn, StillRequest
  <1>4. QED
    BY <1>1, <1>2, <1>3, MemberChecks, MemberRotate, MemberConsume, MemberIssue, MemberExtend,
       MemberCommit DEF Step

LEMMA MemberAge ==
    ASSUME TypeInv, MemberInv, NEW t \in Tokens, Age(t)
    PROVE  MemberInv'
  <1>1. /\ UNCHANGED <<isolation, issued, sess, revoked, active, req, crossed>>
        /\ late \subseteq late' /\ age[t] # "expired"
        /\ \A x \in Tokens : x # t => age'[x] = age[x]
        /\ age'[t] = "expired" /\ sess[t].team # None /\ (\E r \in Requests : req[r].tok = t)
              => sess[t].root \in late'
    BY DEF Age, TypeInv, TypeOK
  <1>2. \A x \in live' : x \in live /\ x \in Tokens
    BY <1>1 DEF live, TypeInv, TypeOK
  <1>3. Mild
    BY <1>1, <1>2 DEF Mild, Grows, TypeInv, TypeOK
  <1>4. TeamSessionsOver'
    BY <1>1, <1>2 DEF MemberInv, TeamSessionsOver
  <1>5. QED
    BY <1>1, <1>3, <1>4, NoMember

\* The store's isolation is what it is.
LEMMA NextKeepsIsolation == [Next]_vars => isolation' = isolation
  BY OtherStepRows, NextCases
     DEF RevokesOnly, RotateInTx, Consume, issueSession, issueTokenPair, historyUnchanged

LEMMA MemberNext ==
    ASSUME TypeInv, FamilyInv, MemberInv, isolation # "none", [Next]_vars
    PROVE  MemberInv'
  <1> USE DEF rowsUnchanged, historyUnchanged
  <1>1. ASSUME NEW u \in Users, issueTokenPair(u) PROVE MemberInv'
    <2>1. UNCHANGED <<isolation, revoked, active, req, crossed, late>>
      BY <1>1 DEF issueTokenPair
    <2>2. QED
      BY <1>1, <2>1, MemberCreate, NoMember DEF issueTokenPair
  <1>2. ASSUME NEW u \in Users, NEW tm \in Teams, DeactivateInTx(u, tm) PROVE MemberInv'
    <2>1. /\ UNCHANGED <<isolation, issued, age, sess, req, crossed, late>> /\ live' \subseteq live
          /\ ~ReadCommitted /\ active' = active \ {<<u, tm>>}
      BY <1>2 DEF DeactivateInTx, live, Serial, ReadCommitted
    <2>2. \A r \in Requests : Known(req[r])'
      BY <2>1 DEF MemberInv, Known, InTime, Looked, Listed, ReadCommitted
    <2>3. ASSUME NEW t \in live', sess[t].team # None, age[t] # "expired",
                 sess[t].root \notin crossed \cup late
          PROVE  <<sess[t].user, sess[t].team>> \in active'
      <3>1. t \in live /\ t \notin endTeamSessions(u, tm)
        BY <1>2 DEF DeactivateInTx, live
      <3>2. <<sess[t].user, sess[t].team>> \in active
        BY <2>3, <3>1 DEF MemberInv, TeamSessionsOver
      <3>3. ~(sess[t].user = u /\ sess[t].team = tm)
        BY <2>3, <3>1 DEF endTeamSessions, ListActiveRefreshTokens
      <3>4. QED
        BY <2>1, <3>2, <3>3
    <2>4. QED
      BY <2>1, <2>2, <2>3 DEF MemberInv, TeamSessionsOver
  <1>3. CASE \/ \E u \in Users : ResetPassword(u)
             \/ \E u \in Users, tm \in Teams : Activate(u, tm)
             \/ UNCHANGED vars
    <2>1. Still /\ UNCHANGED req
      BY <1>3 DEF ResetPassword, Revokes, Activate, vars, Still
    <2>2. QED
      BY <2>1, StillMild, NoMember
  <1>4. QED
    BY <1>1, <1>2, <1>3, MemberAge, MemberStart, MemberStep DEF Next

(***************************************************************************)
(* With a TxRunner no session acts in a team its user has left or been     *)
(* suspended from, those a Refresh or SwitchTeam is about to create        *)
(* included; outside are a session whose rotation crossed the end of the   *)
(* membership at READ COMMITTED, and one that expired under a request.     *)
(***************************************************************************)
THEOREM TeamSessionsEnd == Spec => []TeamSessionsOver
  <1> DEFINE Inv == isolation # "none" => MemberInv
  <1>1. Init => Inv
    BY MemberInit
  <1>2. TypeInv /\ FamilyInv /\ Inv /\ [Next]_vars => Inv'
    <2>1. [Next]_vars /\ TypeInv => isolation' = isolation
      BY NextKeepsIsolation
    <2>2. QED
      BY <2>1, MemberNext
  <1>3. Inv => TeamSessionsOver
    BY DEF MemberInv, TeamSessionsOver
  <1> HIDE DEF Inv
  <1>4. QED
    BY <1>1, <1>2, <1>3, TypeInvInit, TypeInvNext, FamilyInit, FamilyNext, PTL DEF Spec

=============================================================================
