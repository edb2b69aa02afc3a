------------------------------- MODULE Sessions -------------------------------
(***************************************************************************)
(* The user plane's sessions: the refresh-token table and every request    *)
(* that reads or writes it (user/register_login.go, user/sessions.go,      *)
(* user/team.go, user/operator.go, the RevokeAll of user/password.go and   *)
(* the endTeamSessions of team/members.go).                                *)
(*                                                                         *)
(* A request is a process. Each store call is one atomic step (a mutexed   *)
(* method of memstore, one SQL statement of the adapters), and what a      *)
(* request has read is kept in its local record until it is used, so the   *)
(* requests interleave between a read and the write it decides. What the   *)
(* steps wrapped in store.RunInTx are depends on the adapter:              *)
(*   "none"           Stores.Tx is nil: they are separate steps            *)
(*   "serializable"   they are one (sqlitestore begins IMMEDIATE)          *)
(*   "readCommitted"  pgstore: a statement works on the rows that are      *)
(*                    committed when it starts, and waits for those that   *)
(*                    another transaction has written; the writes of a     *)
(*                    transaction appear together at its commit. An UPDATE *)
(*                    of several rows is two steps: the rows found, and    *)
(*                    all of them written.                                 *)
(*                                                                         *)
(* Both session modes use the same rows, so a host may run a service of    *)
(* each over one table, as it does while it moves from one to the other.   *)
(***************************************************************************)
EXTENDS Naturals, FiniteSets

CONSTANTS
    Users,       \* the accounts
    Teams,       \* the teams a session may act in
    Tokens,      \* identities of refresh-token rows (named bound on issues)
    Requests,    \* concurrently running requests
    None,        \* no team, no parent, no token
    Modes,       \* the Config.SessionMode of each service on the table
    Isolations,  \* what store.RunInTx may give, see above
    MaxCrashes   \* bound on requests cut off half way

ASSUME SessionsAssumption ==
    /\ Users # {}
    /\ None \notin Tokens \cup Teams
    /\ Modes \subseteq {"jwt", "opaque"}
    /\ Isolations \subseteq {"none", "serializable", "readCommitted"}
    /\ MaxCrashes \in Nat

VARIABLES
    isolation,\* of the store the service runs on; it never changes
    issued,   \* rows of the refresh-token table
    revoked,  \* those whose RevokedAt is set
    age,      \* ExpiresAt against now and against the sliding window
    sess,     \* per row: user, team and, as history, parent and root
    active,   \* active team memberships, pairs <<user, team>>
    req,      \* local state of each request
    ended,    \* history: families a RevokeAllUserRefreshTokens has ended
    crossed,  \* history: families a rotation of which overlapped such an
              \* UPDATE, or the end of a membership, of the same user
    late,     \* history: families a team session of which expired while a
              \* request was working with it
    crashes   \* requests cut off so far

vars == <<isolation, issued, revoked, age, sess, active, req, ended, crossed, late, crashes>>

Ages == {"fresh", "aged", "expired"}

Ops == {"none", "refresh", "switch", "validate", "revoke", "deactivate"}

Serial == isolation = "serializable"

ReadCommitted == isolation = "readCommitted"

PCs == {"idle", "member", "target", "rotate", "issue", "reuse", "touch",
        "listTeam", "revoke", "revokeAll", "ending"}

Row == [user : Users, team : Teams \cup {None},
        parent : Tokens \cup {None}, root : Tokens \cup {None}]

Request ==
    [pc : PCs, op : Ops,
     tok : Tokens \cup {None},          \* the row read
     wasRevoked : BOOLEAN,              \* its RevokedAt when it was read
     wasAged : BOOLEAN,                 \* past the sliding window when read
     user : Users,                      \* the account acted on
     team : Teams \cup {None},          \* SwitchTeam's or SetMemberActive's team
     todo : SUBSET Tokens]              \* listed rows still to be revoked

AnyUser == CHOOSE u \in Users : TRUE

Idle == [pc |-> "idle", op |-> "none", tok |-> None, wasRevoked |-> FALSE,
         wasAged |-> FALSE, user |-> AnyUser, team |-> None, todo |-> {}]

TypeOK ==
    /\ isolation \in Isolations
    /\ issued \subseteq Tokens
    /\ revoked \subseteq issued
    /\ age \in [Tokens -> Ages]
    /\ sess \in [Tokens -> Row]
    /\ active \subseteq Users \X Teams
    /\ req \in [Requests -> Request]
    /\ ended \subseteq Tokens
    /\ crossed \subseteq Tokens
    /\ late \subseteq Tokens
    /\ crashes \in 0 .. MaxCrashes

live == issued \ revoked

Init ==
    /\ isolation \in Isolations
    /\ issued = {}
    /\ revoked = {}
    /\ age = [t \in Tokens |-> "fresh"]
    /\ sess = [t \in Tokens |-> [user |-> AnyUser, team |-> None,
                                 parent |-> None, root |-> None]]
    /\ active = Users \X Teams
    /\ req = [r \in Requests |-> Idle]
    /\ ended = {}
    /\ crossed = {}
    /\ late = {}
    /\ crashes = 0

-----------------------------------------------------------------------------
(***************************************************************************)
(* The store's operations (store.RefreshTokenStore, as memstore has them). *)
(***************************************************************************)

CreateRefreshToken(n, u, tm, p) ==
    /\ n \in Tokens \ issued
    /\ issued' = issued \cup {n}
    /\ age' = [age EXCEPT ![n] = "fresh"]
    /\ sess' = [sess EXCEPT ![n] =
                   [user |-> u, team |-> tm, parent |-> p,
                    root |-> IF p = None THEN n ELSE sess[p].root]]

\* A plausible bug: the consume is an unconditional update.
ConsumesAnyRow(t) == t \in issued

\* The WHERE clause of the compare-and-set.
ConsumeRefreshToken(t) == t \in issued /\ t \notin revoked

\* A plausible bug: the extension does not look at RevokedAt.
TouchesAnyRow(t) == t \in issued

TouchRefreshToken(t) == t \in issued /\ t \notin revoked

\* A plausible bug: the revocation is kept for the user, and so takes in the
\* sessions issued later.
RevokesFutureRows(u) == {t \in Tokens : sess[t].user = u}

\* What RevokeAllUserRefreshTokens revokes: every row, expired or not.
RevokeAllUserRefreshTokens(u) == {t \in issued : sess[t].user = u}

ListActiveRefreshTokens(u) ==
    {t \in live : sess[t].user = u /\ age[t] # "expired"}

\* A plausible bug: the rotation does not revoke what it consumes.
KeepsRow(t) == revoked' = revoked

\* The write of RevokeRefreshToken, and of a ConsumeRefreshToken that hits.
RevokeRefreshToken(t) == revoked' = revoked \cup {t}

-----------------------------------------------------------------------------
(***************************************************************************)
(* Control of a request.                                                   *)
(***************************************************************************)

Goto(r, p) == req' = [req EXCEPT ![r].pc = p]

Return(r) == req' = [req EXCEPT ![r] = Idle]

rowsUnchanged == UNCHANGED <<issued, age, sess>>

historyUnchanged == UNCHANGED <<isolation, ended, crossed, late, crashes>>

\* A rotation of READ COMMITTED has consumed row t and not committed: whoever
\* would write it waits.
Locked(t) == ReadCommitted /\ \E r \in Requests : req[r].pc = "issue" /\ req[r].tok = t

\* The transaction of a rotation is open: a SwitchTeam's since its look at the
\* target, a Refresh's since the consume.
Open(r) == req[r].pc = "issue" \/ (req[r].pc = "rotate" /\ req[r].op = "switch")

Rotating(r) ==
    /\ req[r].op \in {"refresh", "switch"}
    /\ req[r].pc \in {"member", "target", "rotate", "issue"}

\* Bound: a row identity is kept back for every rotation under way, so that
\* the pool of identities never blocks one.
Room == Cardinality(Tokens \ issued) > Cardinality({r \in Requests : Rotating(r)})

-----------------------------------------------------------------------------
(***************************************************************************)
(* Sign-in: the issueTokenPair every login method ends in.                 *)
(***************************************************************************)
issueTokenPair(u) ==
    /\ Room
    /\ \E n \in Tokens : CreateRefreshToken(n, u, None, None)
    /\ UNCHANGED <<revoked, active, req>>
    /\ historyUnchanged

(***************************************************************************)
(* Refresh, SwitchTeam and ValidateSession start by reading the row their  *)
(* token names; an expired one is refused. Any token ever issued may be    *)
(* presented at any time, by its holder or by someone with a copy.         *)
(***************************************************************************)
Read(r, o, t, tm) ==
    /\ req[r].pc = "idle"
    /\ t \in issued
    /\ age[t] # "expired"
    /\ req' = [req EXCEPT ![r] =
                  [pc |-> "member", op |-> o, tok |-> t,
                   wasRevoked |-> t \in revoked, wasAged |-> age[t] = "aged",
                   user |-> sess[t].user, team |-> tm,
                   todo |-> {}]]
    /\ UNCHANGED <<revoked, active>>
    /\ rowsUnchanged
    /\ historyUnchanged

Refresh(r, t) ==
    /\ "jwt" \in Modes
    /\ Room
    /\ Read(r, "refresh", t, None)

SwitchTeam(r, t, tm) ==
    /\ Room
    /\ Read(r, "switch", t, tm)

ValidateSession(r, t) ==
    /\ "opaque" \in Modes
    /\ t \notin revoked
    /\ Read(r, "validate", t, None)

\* Where a request goes that presented a revoked row, or lost the race for
\* one: to the reuse response, except that a SwitchTeam in opaque mode answers
\* with the error alone.
AfterSpent(o) ==
    {IF o = "switch" /\ m = "opaque" THEN "idle" ELSE "reuse" : m \in Modes}

AfterMember(o, wasRevoked) ==
    CASE o = "validate" -> {"touch"}
      [] o # "validate" /\ wasRevoked -> AfterSpent(o)
      [] o = "switch" /\ ~wasRevoked /\ ~Serial -> {"target"}
      [] OTHER -> {"rotate"}

(***************************************************************************)
(* requireActiveMembership: a session acting in a team its user is no      *)
(* longer an active member of is refused, and revoked if it was not yet.   *)
(***************************************************************************)
requireActiveMembership(r) ==
    LET t  == req[r].tok
        tm == sess[t].team
    IN  /\ req[r].pc = "member"
        /\ \/ /\ tm = None \/ <<req[r].user, tm>> \in active
              /\ \E p \in AfterMember(req[r].op, req[r].wasRevoked) :
                    IF p = "idle" THEN Return(r)
                    ELSE req' = [req EXCEPT ![r] = [@ EXCEPT !.pc = p, !.wasRevoked = FALSE]]
           \/ /\ tm # None /\ <<req[r].user, tm>> \notin active
              /\ IF req[r].wasRevoked
                 THEN Return(r)
                 ELSE req' = [req EXCEPT ![r] = [@ EXCEPT !.pc = "revoke",
                                                          !.op = "revoke",
                                                          !.todo = {t}]]
        /\ UNCHANGED <<revoked, active>>
        /\ rowsUnchanged
        /\ historyUnchanged

(***************************************************************************)
(* RevokeAllUserRefreshTokens, the reuse response and ResetPassword's      *)
(* third write (the other two are on other tables; none of its reads is of *)
(* this one): one step, or, at READ COMMITTED, the rows found and then all *)
(* of them revoked once nobody holds one.                                  *)
(***************************************************************************)
Revokes(rows) ==
    /\ revoked' = revoked \cup rows
    /\ ended' = ended \cup {sess[t].root : t \in rows}
    /\ rowsUnchanged
    /\ UNCHANGED <<isolation, active, crossed, late, crashes>>

FindsAll(r, u) ==
    /\ ReadCommitted
    /\ req' = [req EXCEPT ![r] = [Idle EXCEPT !.pc = "revokeAll", !.op = "revoke", !.user = u,
                                              !.todo = RevokeAllUserRefreshTokens(u)]]
    /\ UNCHANGED <<revoked, active>>
    /\ rowsUnchanged
    /\ historyUnchanged

\* The response to a replayed token.
revokeFamilyOnReuse(r) ==
    /\ req[r].pc = "reuse"
    /\ \/ /\ ~ReadCommitted
          /\ Revokes(RevokeAllUserRefreshTokens(req[r].user))
          /\ Return(r)
       \/ FindsAll(r, req[r].user)

ResetPassword(u) ==
    /\ ~ReadCommitted
    /\ Revokes(RevokeAllUserRefreshTokens(u))
    /\ UNCHANGED req

ResetPasswordInTx(r, u) ==
    /\ req[r].pc = "idle"
    /\ FindsAll(r, u)

RevokeAll(r) ==
    /\ req[r].pc = "revokeAll"
    /\ \A t \in req[r].todo : ~Locked(t)
    /\ Revokes(req[r].todo)
    /\ Return(r)

\* SwitchTeam's checkMembership of the target team, inside its transaction.
TargetAllowed(r) ==
    req[r].op = "switch" /\ req[r].team # None
        => <<req[r].user, req[r].team>> \in active

\* The team of the session that replaces the one consumed: Refresh carries
\* it over, SwitchTeam sets the one asked for.
NewTeam(r) ==
    IF req[r].op = "switch" THEN req[r].team ELSE sess[req[r].tok].team

(***************************************************************************)
(* The rotation on a serializable store: membership of the target, the     *)
(* consume and the new row in one step. Losing the race rolls back and goes on to  *)
(* the reuse response, which is outside the transaction.                   *)
(***************************************************************************)
RotateInTx(r) ==
    LET t == req[r].tok
    IN  /\ Serial
        /\ req[r].pc = "rotate"
        /\ \/ /\ TargetAllowed(r)
              /\ ConsumeRefreshToken(t)
              /\ RevokeRefreshToken(t)
              /\ \E n \in Tokens :
                    CreateRefreshToken(n, req[r].user, NewTeam(r), t)
              /\ Return(r)
           \/ /\ \/ ~TargetAllowed(r) /\ Return(r)
                 \/ /\ TargetAllowed(r)
                    /\ ~ConsumeRefreshToken(t)
                    /\ \E p \in AfterSpent(req[r].op) :
                          IF p = "idle" THEN Return(r) ELSE Goto(r, p)
              /\ UNCHANGED revoked
              /\ rowsUnchanged
        /\ UNCHANGED active
        /\ historyUnchanged

(***************************************************************************)
(* Elsewhere it is three. With Stores.Tx nil each commits on its own; at   *)
(* READ COMMITTED the consume waits for another that holds the row, and    *)
(* nothing is seen before the commit. Losing the race ends the transaction.*)
(***************************************************************************)
CheckTarget(r) ==
    /\ req[r].pc = "target"
    /\ IF TargetAllowed(r) THEN Goto(r, "rotate") ELSE Return(r)
    /\ UNCHANGED <<revoked, active>>
    /\ rowsUnchanged
    /\ historyUnchanged

Consume(r) ==
    LET t == req[r].tok
    IN  /\ ~Serial
        /\ req[r].pc = "rotate"
        /\ ~Locked(t)
        /\ \/ /\ ConsumeRefreshToken(t)
              /\ IF ReadCommitted THEN UNCHANGED revoked ELSE RevokeRefreshToken(t)
              /\ Goto(r, "issue")
           \/ /\ ~ConsumeRefreshToken(t)
              /\ UNCHANGED revoked
              /\ \E p \in AfterSpent(req[r].op) :
                    IF p = "idle" THEN Return(r) ELSE Goto(r, p)
        /\ UNCHANGED active
        /\ rowsUnchanged
        /\ historyUnchanged

\* History: a bulk revocation or the end of a membership of the same user is
\* under way when the rotation of token t commits.
Crossing(r) ==
    \E s \in Requests : req[s].pc \in {"revokeAll", "ending"} /\ req[s].user = req[r].user

issueSession(r) ==
    LET t == req[r].tok
    IN  /\ req[r].pc = "issue"
        /\ \E n \in Tokens : CreateRefreshToken(n, req[r].user, NewTeam(r), t)
        /\ IF ReadCommitted THEN RevokeRefreshToken(t) ELSE UNCHANGED revoked
        /\ crossed' = IF Crossing(r) THEN crossed \cup {sess[t].root} ELSE crossed
        /\ Return(r)
        /\ UNCHANGED <<isolation, active, ended, late, crashes>>

(***************************************************************************)
(* extendSession, the write at the end of ValidateSession: only a session  *)
(* past the sliding window when it was read is extended, and only if its   *)
(* row is still unrevoked when it is written.                              *)
(***************************************************************************)
extendSession(r) ==
    LET t == req[r].tok
    IN  /\ req[r].pc = "touch"
        /\ ~Locked(t)
        /\ age' = IF req[r].wasAged /\ TouchRefreshToken(t)
                  THEN [age EXCEPT ![t] = "fresh"] ELSE age
        /\ Return(r)
        /\ UNCHANGED <<issued, sess, revoked, active>>
        /\ historyUnchanged

-----------------------------------------------------------------------------
(***************************************************************************)
(* Revocation one row at a time: Logout reads its row, RevokeSession,      *)
(* RevokeOtherSessions and RevokeAllSessions list the active rows first.   *)
(***************************************************************************)
StartRevoking(r, u, rows) ==
    /\ req[r].pc = "idle"
    /\ rows # {}
    /\ req' = [req EXCEPT ![r] =
                  [Idle EXCEPT !.pc = "revoke", !.op = "revoke", !.user = u,
                               !.todo = rows]]
    /\ UNCHANGED <<revoked, active>>
    /\ rowsUnchanged
    /\ historyUnchanged

Logout(r, t) ==
    /\ t \in issued
    /\ StartRevoking(r, sess[t].user, {t})

RevokeSession(r, u, t) ==
    /\ t \in ListActiveRefreshTokens(u)
    /\ StartRevoking(r, u, {t})

RevokeOtherSessions(r, u, current) ==
    StartRevoking(r, u, ListActiveRefreshTokens(u) \ {current})

RevokeAllSessions(r, u) ==
    StartRevoking(r, u, ListActiveRefreshTokens(u))

\* One RevokeRefreshToken of the loop; the last one ends the request.
RevokeNext(r) ==
    /\ req[r].pc = "revoke"
    /\ \E t \in req[r].todo :
          /\ ~Locked(t)
          /\ RevokeRefreshToken(t)
          /\ IF req[r].todo = {t}
             THEN Return(r)
             ELSE req' = [req EXCEPT ![r].todo = @ \ {t}]
    /\ UNCHANGED active
    /\ rowsUnchanged
    /\ historyUnchanged

-----------------------------------------------------------------------------
(***************************************************************************)
(* Memberships, as team.Service with Stores.Sessions set changes them.     *)
(***************************************************************************)

\* A plausible bug: ending a membership leaves its sessions to expire.
NoTeamSessions(u, tm) == {}

\* The sessions endTeamSessions revokes.
endTeamSessions(u, tm) ==
    {t \in ListActiveRefreshTokens(u) : sess[t].team = tm}

\* SetMemberActive(false) or RemoveMember, in one step.
DeactivateInTx(u, tm) ==
    /\ Serial
    /\ <<u, tm>> \in active
    /\ active' = active \ {<<u, tm>>}
    /\ revoked' = revoked \cup endTeamSessions(u, tm)
    /\ UNCHANGED req
    /\ rowsUnchanged
    /\ historyUnchanged

\* The same with Stores.Tx nil: the member row, then the listing, then the
\* revocations one at a time.
Deactivate(r, u, tm) ==
    /\ isolation = "none"
    /\ req[r].pc = "idle"
    /\ <<u, tm>> \in active
    /\ active' = active \ {<<u, tm>>}
    /\ req' = [req EXCEPT ![r] = [Idle EXCEPT !.pc = "listTeam",
                                              !.op = "deactivate",
                                              !.user = u, !.team = tm]]
    /\ UNCHANGED revoked
    /\ rowsUnchanged
    /\ historyUnchanged

ListTeam(r) ==
    LET rows == endTeamSessions(req[r].user, req[r].team)
    IN  /\ req[r].pc = "listTeam"
        /\ IF rows = {}
           THEN Return(r)
           ELSE req' = [req EXCEPT ![r] = [@ EXCEPT !.pc = "revoke", !.todo = rows]]
        /\ UNCHANGED <<revoked, active>>
        /\ rowsUnchanged
        /\ historyUnchanged

\* The transaction of READ COMMITTED holds the member row: another write of it
\* waits.
MemberLocked(u, tm) ==
    \E s \in Requests : req[s].pc = "ending" /\ req[s].user = u /\ req[s].team = tm

\* At READ COMMITTED: the member row, and the listing of the sessions that
\* are committed by then.
DeactivateList(r, u, tm) ==
    /\ ReadCommitted
    /\ req[r].pc = "idle"
    /\ <<u, tm>> \in active
    /\ ~MemberLocked(u, tm)
    /\ req' = [req EXCEPT ![r] = [Idle EXCEPT !.pc = "ending", !.op = "deactivate",
                                              !.user = u, !.team = tm,
                                              !.todo = endTeamSessions(u, tm)]]
    /\ UNCHANGED <<revoked, active>>
    /\ rowsUnchanged
    /\ historyUnchanged

\* The sessions listed revoked, once nobody holds one, and the commit.
DeactivateCommit(r) ==
    LET u == req[r].user
    IN  /\ req[r].pc = "ending"
        /\ \A t \in req[r].todo : ~Locked(t)
        /\ active' = active \ {<<u, req[r].team>>}
        /\ revoked' = revoked \cup req[r].todo
        /\ crossed' = crossed \cup {sess[req[s].tok].root :
                                       s \in {q \in Requests : Open(q) /\ req[q].user = u}}
        /\ Return(r)
        /\ rowsUnchanged
        /\ UNCHANGED <<isolation, ended, late, crashes>>

\* SetMemberActive(true), or a new membership.
Activate(u, tm) ==
    /\ ~MemberLocked(u, tm)
    /\ active' = active \cup {<<u, tm>>}
    /\ UNCHANGED <<revoked, req>>
    /\ rowsUnchanged
    /\ historyUnchanged

-----------------------------------------------------------------------------
(***************************************************************************)
(* The environment: time passes for a row, a request is cut off (its       *)
(* process dies, its context ends, or a store call fails). Only an opaque  *)
(* session has a sliding window to grow past.                              *)
(***************************************************************************)
Age(t) ==
    /\ t \in issued
    /\ \/ /\ age[t] = "fresh"
          /\ "opaque" \in Modes
          /\ age' = [age EXCEPT ![t] = "aged"]
       \/ /\ age[t] # "expired"
          /\ age' = [age EXCEPT ![t] = "expired"]
    /\ late' = IF age'[t] = "expired" /\ sess[t].team # None /\ \E r \in Requests : req[r].tok = t
               THEN late \cup {sess[t].root} ELSE late
    /\ UNCHANGED <<isolation, issued, sess, revoked, active, req, ended, crossed, crashes>>

CutOff(r) ==
    /\ crashes < MaxCrashes
    /\ req[r].pc # "idle"
    /\ Return(r)
    /\ crashes' = crashes + 1
    /\ UNCHANGED <<isolation, revoked, active, ended, crossed, late>>
    /\ rowsUnchanged

Step(r) ==
    \/ requireActiveMembership(r)
    \/ revokeFamilyOnReuse(r)
    \/ RotateInTx(r)
    \/ CheckTarget(r)
    \/ Consume(r)
    \/ issueSession(r)
    \/ extendSession(r)
    \/ RevokeNext(r)
    \/ ListTeam(r)
    \/ RevokeAll(r)
    \/ DeactivateCommit(r)

Start(r) ==
    \/ \E t \in Tokens : Refresh(r, t)
    \/ \E t \in Tokens, tm \in Teams \cup {None} : SwitchTeam(r, t, tm)
    \/ \E t \in Tokens : ValidateSession(r, t)
    \/ \E t \in Tokens : Logout(r, t)
    \/ \E u \in Users, t \in Tokens : RevokeSession(r, u, t)
    \/ \E u \in Users, t \in Tokens : RevokeOtherSessions(r, u, t)
    \/ \E u \in Users : RevokeAllSessions(r, u)
    \/ \E u \in Users, tm \in Teams : Deactivate(r, u, tm) \/ DeactivateList(r, u, tm)
    \/ \E u \in Users : ResetPasswordInTx(r, u)

Next ==
    \/ \E r \in Requests : Start(r) \/ Step(r) \/ CutOff(r)
    \/ \E u \in Users : issueTokenPair(u)
    \/ \E u \in Users : ResetPassword(u)
    \/ \E u \in Users, tm \in Teams : DeactivateInTx(u, tm)
    \/ \E u \in Users, tm \in Teams : Activate(u, tm)
    \/ \E t \in Tokens : Age(t)

Spec == Init /\ [][Next]_vars

-----------------------------------------------------------------------------
(***************************************************************************)
(* Properties.                                                             *)
(***************************************************************************)

\* A refresh token is spent once: however many requests present one token at
\* the same time, whatever store.RunInTx gives, at most one session replaces it
\* (README "Single use holds under concurrency too", Refresh and SwitchTeam).
SingleUse ==
    \A a, b \in issued :
        sess[a].parent # None /\ sess[a].parent = sess[b].parent => a = b

\* The chain of rotations from one sign-in never forks: at most one of its
\* tokens is unrevoked at any time, so a copied token and its original can
\* never both stay usable.
OneLivePerFamily ==
    \A a, b \in live : sess[a].root = sess[b].root => a = b

\* A password reset and the reuse response end every session the user had,
\* and what a rotation under way makes of one of them too ("Every other
\* session for the user is revoked"). Needs a TxRunner, and at READ COMMITTED
\* that no rotation of the session commits while the UPDATE is under way: the
\* row it adds is not among those the UPDATE has found.
EndedStaysEnded ==
    isolation # "none" =>
        \A t \in issued : sess[t].root \in ended \ crossed => t \in revoked

\* ResetPassword's comment as it stands: "Every other session for the user is
\* revoked, forcing re-login everywhere else."
ForcesReLogin == \A t \in issued : sess[t].root \in ended => t \in revoked

\* A session acts in a team only while its user is an active member: ending
\* the membership ends it ("the session is over, not paused until the
\* membership returns"), also against a Refresh or SwitchTeam under way. Needs
\* a TxRunner. Two kinds of session are outside. One of READ COMMITTED whose
\* rotation overlapped the end of the membership, which has looked at the old
\* membership or adds a row to those listed (crossed). And one that expired
\* under a request which had read it in time (late): endTeamSessions does not
\* list an expired row, which the request may still consume.
TeamSessionsOver ==
    isolation # "none" =>
        \A t \in live :
            sess[t].team # None /\ age[t] # "expired" /\ sess[t].root \notin crossed \cup late
                => <<sess[t].user, sess[t].team>> \in active

\* No step takes a revocation back, and no step gives a revoked row a new
\* lifetime: a late TouchRefreshToken or a late Revoke leaves it as it is.
RevokedIsFinal ==
    [][ /\ revoked \subseteq revoked'
        /\ \A t \in revoked : age[t] = "expired" => age'[t] = "expired"
        /\ \A t \in revoked : age'[t] = "fresh" => age[t] = "fresh" ]_vars

-----------------------------------------------------------------------------
(***************************************************************************)
(* Refinement: the credentials of a family are its unrevoked rows.         *)
(***************************************************************************)
Family(f) == {t \in live : sess[t].root = f}

AbstractFamily == [f \in Tokens |-> Family(f)]

Families == INSTANCE SessionFamilies WITH used <- issued, family <- AbstractFamily

\* With a TxRunner of either kind the table and all the requests on it behave
\* as the abstract families do: no interleaving of rotations, revocations, resets
\* and reuse responses forks a family or brings one back.
ImplementsFamilies ==
    /\ Families!Init
    /\ [][isolation # "none" => Families!Next]_(Families!vars)

=============================================================================
