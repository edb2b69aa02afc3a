--------------------------------- MODULE Team ---------------------------------
(***************************************************************************)
(* Team membership and invitations (package team), for one team: the       *)
(* guarded member writes that must leave it an owner, and the invitations  *)
(* that must not seat more people than the host admits.                    *)
(*                                                                         *)
(* The code wraps both in store.RunInTx, and what that gives depends on    *)
(* the adapter, so the isolation is a parameter:                           *)
(*   "none"           Stores.Tx is nil: every store call commits by itself *)
(*   "serializable"   the transaction is one step (sqlitestore, which      *)
(*                    begins IMMEDIATE)                                    *)
(*   "readCommitted"  pgstore: each statement reads what is committed when *)
(*                    it starts, ListMembersByTeam locks the rows it found *)
(*                    (FOR UPDATE) and then sees their newest version, and *)
(*                    the writes appear together at the commit             *)
(***************************************************************************)
EXTENDS Naturals, FiniteSets

CONSTANTS
    Ids,         \* identities of member rows (named bound on memberships)
    Users,       \* accounts
    Invs,        \* invitations (named bound)
    Requests,    \* concurrently running requests
    Gone,        \* there is no such row
    Seats,       \* the seat limit the host's Admission enforces
    Isolations   \* what store.RunInTx may give, see above

ASSUME TeamAssumption ==
    /\ IsFiniteSet(Ids)
    /\ Seats \in Nat \ {0}
    /\ Isolations \subseteq {"none", "serializable", "readCommitted"}

Roles == {"owner", "member"}

Member == [user : Users, role : Roles, active : BOOLEAN]

ASSUME GoneAssumption == Gone \notin Member \cup Invs

VARIABLES
    isolation, \* of the store the service runs on; it never changes
    made,      \* whether the team row exists
    row,       \* the member rows
    inv,       \* the invitations: status, invitee and role
    req,       \* local state of each request
    taken,     \* the identities NewID has given to member rows
    redeemed,  \* history: invitations a member was made from
    stale      \* history: whether a member row was written on an outdated read

vars == <<isolation, made, row, inv, req, taken, redeemed, stale>>

Invitation == [status : {"none", "pending", "accepted", "revoked"},
               user : Users \cup {Gone}, role : Roles]

\* What one call asks of a member row: UpdateMemberRole's role, or
\* SetMemberActive's active, or RemoveMember.
Change ==
    [kind : {"role"}, role : Roles, on : {FALSE}]
    \cup [kind : {"active"}, role : {"member"}, on : BOOLEAN]
    \cup [kind : {"remove"}, role : {"member"}, on : {FALSE}]

PCs == {"idle", "owner", "list", "lock", "write", "invite", "admit",
        "create", "close", "recall"}

Request == [pc : PCs, id : Ids \cup {Gone}, change : Change, read : Member \cup {Gone},
            inv : Invs \cup {Gone}, snap : SUBSET Ids, held : SUBSET Ids,
            user : Users \cup {Gone}, role : Roles]

Idle == [pc |-> "idle", id |-> Gone,
         change |-> [kind |-> "role", role |-> "member", on |-> FALSE],
         read |-> Gone, inv |-> Gone, snap |-> {}, held |-> {},
         user |-> Gone, role |-> "member"]

TypeOK ==
    /\ isolation \in Isolations
    /\ made \in BOOLEAN
    /\ row \in [Ids -> Member \cup {Gone}]
    /\ inv \in [Invs -> Invitation]
    /\ req \in [Requests -> Request]
    /\ taken \subseteq Ids
    /\ redeemed \subseteq Invs
    /\ stale \in BOOLEAN

Init ==
    /\ isolation \in Isolations
    /\ made = FALSE
    /\ row = [i \in Ids |-> Gone]
    /\ inv = [i \in Invs |-> [status |-> "none", user |-> Gone, role |-> "member"]]
    /\ req = [r \in Requests |-> Idle]
    /\ taken = {}
    /\ redeemed = {}
    /\ stale = FALSE

-----------------------------------------------------------------------------
(***************************************************************************)
(* Rows, their owners and their locks.                                     *)
(***************************************************************************)

\* ListMembersByTeam: every row, active or not.
present == {i \in Ids : row[i] # Gone}

IsOwner(m) == m.role = "owner" /\ m.active

\* requireNotLastOwner, on the rows listed.
requireNotLastOwner(rows, i) == \E j \in rows \ {i} : IsOwner(row[j])

\* The host's Admission.AdmitMember, given the rows counted.
AdmitMember(n) == n < Seats

\* UNIQUE (team_id, user_id) of both SQL adapters; memstore has none.
NotYetMember(u) == isolation = "none" \/ \A i \in present : row[i].user # u

\* A plausible bug: the list for the guard is read without FOR UPDATE.
NoRowLock(r, i) == TRUE

\* Nobody else holds row i (a row lock is held to the end of the transaction).
Free(r, i) == \A s \in Requests \ {r} : i \notin req[s].held

Goto(r, p) == req' = [req EXCEPT ![r] = [@ EXCEPT !.pc = p]]

Return(r) == req' = [req EXCEPT ![r] = Idle]

\* authitcrypto.NewID: a row's identity is never used again.
NewID == Ids \ taken

CreateMember(i, m) ==
    /\ i \in NewID
    /\ row' = [row EXCEPT ![i] = m]
    /\ taken' = taken \cup {i}

-----------------------------------------------------------------------------
(***************************************************************************)
(* CreateTeam: the team row and its owner's.                               *)
(***************************************************************************)
Owner(u) == [user |-> u, role |-> "owner", active |-> TRUE]

CreateTeam(i, u) ==
    /\ ~made
    /\ isolation # "none"
    /\ made' = TRUE
    /\ CreateMember(i, Owner(u))
    /\ UNCHANGED <<isolation, inv, req, redeemed, stale>>

CreateTeamRow(r, u) ==
    /\ ~made
    /\ isolation = "none"
    /\ req[r].pc = "idle"
    /\ made' = TRUE
    /\ req' = [req EXCEPT ![r] = [Idle EXCEPT !.pc = "owner", !.user = u]]
    /\ UNCHANGED <<isolation, row, inv, taken, redeemed, stale>>

CreateOwner(r) ==
    /\ req[r].pc = "owner"
    /\ \E i \in Ids : CreateMember(i, Owner(req[r].user))
    /\ Return(r)
    /\ UNCHANGED <<isolation, made, inv, redeemed, stale>>

-----------------------------------------------------------------------------
(***************************************************************************)
(* guardedMemberWrite, for UpdateMemberRole, SetMemberActive, RemoveMember.*)
(***************************************************************************)

\* The losesOwner of each of the three.
losesOwner(m, c) ==
    /\ m.role = "owner"
    /\ \/ c.kind = "role" /\ c.role # "owner"
       \/ c.kind = "active" /\ ~c.on
       \/ c.kind = "remove"

\* A plausible bug: the update writes a row of the changed field alone.
WritesPartialRow(m, c) ==
    CASE c.kind = "role"   -> [role |-> c.role]
      [] c.kind = "active" -> [active |-> c.on]
      [] c.kind = "remove" -> Gone

\* The write of each of the three: the row as read with one field changed,
\* all of it written back, or the row deleted.
Changed(m, c) ==
    CASE c.kind = "role"   -> [m EXCEPT !.role = c.role]
      [] c.kind = "active" -> [m EXCEPT !.active = c.on]
      [] c.kind = "remove" -> Gone

guardedMemberWriteInTx(i, c) ==
    /\ isolation = "serializable"
    /\ i \in present
    /\ losesOwner(row[i], c) => requireNotLastOwner(present, i)
    /\ row' = [row EXCEPT ![i] = Changed(row[i], c)]
    /\ UNCHANGED <<isolation, made, inv, req, taken, redeemed, stale>>

GetMember(r, i, c) ==
    /\ isolation # "serializable"
    /\ req[r].pc = "idle"
    /\ i \in present
    /\ req' = [req EXCEPT ![r] =
                  [Idle EXCEPT !.pc = IF losesOwner(row[i], c) THEN "list" ELSE "write",
                               !.id = i, !.change = c, !.read = row[i]]]
    /\ UNCHANGED <<isolation, made, row, inv, taken, redeemed, stale>>

\* ListMembersByTeam for the guard with Stores.Tx nil.
ListForGuard(r) ==
    /\ isolation = "none"
    /\ req[r].pc = "list"
    /\ IF requireNotLastOwner(present, req[r].id) THEN Goto(r, "write") ELSE Return(r)
    /\ UNCHANGED <<isolation, made, row, inv, taken, redeemed, stale>>

\* ListMembersByTeamForUpdate, for the guard and for the seat count: the
\* statement finds its rows, then waits for their locks and sees what they
\* are by then. A row created meanwhile is not among them.
Snapshot(r) ==
    /\ isolation = "readCommitted"
    /\ req[r].pc \in {"list", "admit"}
    /\ req' = [req EXCEPT ![r] = [@ EXCEPT !.snap = present, !.pc = "lock"]]
    /\ UNCHANGED <<isolation, made, row, inv, taken, redeemed, stale>>

LockRows(r) ==
    LET rows == req[r].snap \cap present
        ok   == IF req[r].inv = Gone
                THEN requireNotLastOwner(rows, req[r].id)
                ELSE AdmitMember(Cardinality(rows))
    IN  /\ req[r].pc = "lock"
        /\ \A i \in rows : Free(r, i)
        /\ IF ok
           THEN req' = [req EXCEPT ![r] =
                           [@ EXCEPT !.held = rows,
                                     !.pc = IF req[r].inv = Gone THEN "write" ELSE "create"]]
           ELSE Return(r)
        /\ UNCHANGED <<isolation, made, row, inv, taken, redeemed, stale>>

\* UpdateMember or DeleteMember, and the commit. A row gone by now is
\* ErrNotFound.
WriteMember(r) ==
    LET i == req[r].id
        c == req[r].change
    IN  /\ req[r].pc = "write"
        /\ Free(r, i)
        /\ IF row[i] = Gone
           THEN UNCHANGED <<row, stale>>
           ELSE /\ row' = [row EXCEPT ![i] = Changed(req[r].read, c)]
                /\ stale' = (stale \/ req[r].read # row[i])
        /\ Return(r)
        /\ UNCHANGED <<isolation, made, inv, taken, redeemed>>

-----------------------------------------------------------------------------
(***************************************************************************)
(* Invitations.                                                            *)
(***************************************************************************)

\* CreateInvitation counts the seats, then stores the invitation.
CreateInvitation(r, u, role) ==
    /\ made
    /\ req[r].pc = "idle"
    /\ AdmitMember(Cardinality(present))
    /\ req' = [req EXCEPT ![r] = [Idle EXCEPT !.pc = "invite", !.user = u, !.role = role]]
    /\ UNCHANGED <<isolation, made, row, inv, taken, redeemed, stale>>

SaveInvitation(r) ==
    /\ req[r].pc = "invite"
    /\ \E i \in Invs :
          /\ inv[i].status = "none"
          /\ inv' = [inv EXCEPT ![i] = [status |-> "pending", user |-> req[r].user,
                                        role |-> req[r].role]]
    /\ Return(r)
    /\ UNCHANGED <<isolation, made, row, taken, redeemed, stale>>

\* AcceptInvitation's getPendingInvitation, before its transaction.
AcceptInvitation(r, i) ==
    /\ req[r].pc = "idle"
    /\ inv[i].status = "pending"
    /\ req' = [req EXCEPT ![r] = [Idle EXCEPT !.pc = "admit", !.inv = i,
                                              !.user = inv[i].user, !.role = inv[i].role]]
    /\ UNCHANGED <<isolation, made, row, inv, taken, redeemed, stale>>

Invitee(r) == [user |-> req[r].user, role |-> req[r].role, active |-> TRUE]

\* A plausible bug: the status is set on the copy and not written.
KeepsStatus(i, st) == UNCHANGED inv

\* UpdateInvitation: the row as read with a new status.
UpdateInvitation(i, st) == inv' = [inv EXCEPT ![i].status = st]

Admit(r) ==
    /\ NotYetMember(req[r].user)
    /\ \E i \in Ids : CreateMember(i, Invitee(r))
    /\ redeemed' = redeemed \cup {req[r].inv}

\* Seats, member and invitation in one step. Refused for want of a seat, or
\* by the unique constraint, all of it is rolled back.
AcceptInTx(r) ==
    /\ isolation = "serializable"
    /\ req[r].pc = "admit"
    /\ \/ /\ AdmitMember(Cardinality(present))
          /\ Admit(r)
          /\ UpdateInvitation(req[r].inv, "accepted")
       \/ /\ ~AdmitMember(Cardinality(present)) \/ ~NotYetMember(req[r].user)
          /\ UNCHANGED <<row, taken, inv, redeemed>>
    /\ Return(r)
    /\ UNCHANGED <<isolation, made, stale>>

\* pgstore: CreateMember, UpdateInvitation and the commit, after LockRows.
AcceptCommit(r) ==
    /\ isolation = "readCommitted"
    /\ req[r].pc = "create"
    /\ \/ /\ Admit(r)
          /\ UpdateInvitation(req[r].inv, "accepted")
       \/ /\ ~NotYetMember(req[r].user)
          /\ UNCHANGED <<row, taken, inv, redeemed>>
    /\ Return(r)
    /\ UNCHANGED <<isolation, made, stale>>

\* A plausible bug: the invitation is closed before the member is made.
ClosesFirst == "close"

\* What AcceptInvitation does once admitted, with Stores.Tx nil.
AfterAdmission == "create"

CountSeats(r) ==
    /\ isolation = "none"
    /\ req[r].pc = "admit"
    /\ IF AdmitMember(Cardinality(present)) THEN Goto(r, AfterAdmission) ELSE Return(r)
    /\ UNCHANGED <<isolation, made, row, inv, taken, redeemed, stale>>

SeatMember(r) ==
    /\ isolation = "none"
    /\ req[r].pc = "create"
    /\ Admit(r)
    /\ Goto(r, "close")
    /\ UNCHANGED <<isolation, made, inv, stale>>

CloseInvitation(r) ==
    /\ req[r].pc = "close"
    /\ UpdateInvitation(req[r].inv, "accepted")
    /\ Return(r)
    /\ UNCHANGED <<isolation, made, row, taken, redeemed, stale>>

\* RevokeInvitation reads the invitation, whatever its status, and writes it
\* back revoked: two store calls, no transaction.
RevokeInvitation(r, i) ==
    /\ req[r].pc = "idle"
    /\ inv[i].status # "none"
    /\ req' = [req EXCEPT ![r] = [Idle EXCEPT !.pc = "recall", !.inv = i]]
    /\ UNCHANGED <<isolation, made, row, inv, taken, redeemed, stale>>

MarkRevoked(r) ==
    LET i == req[r].inv
    IN  /\ req[r].pc = "recall"
        /\ inv' = [inv EXCEPT ![i].status = "revoked"]
        /\ Return(r)
        /\ UNCHANGED <<isolation, made, row, taken, redeemed, stale>>

\* The request ends early: its process, its context or a store call fails.
\* A transaction under way is rolled back and its locks are released.
CutOff(r) ==
    /\ req[r].pc # "idle"
    /\ Return(r)
    /\ UNCHANGED <<isolation, made, row, inv, taken, redeemed, stale>>

-----------------------------------------------------------------------------
Step(r) ==
    \/ CreateOwner(r)
    \/ ListForGuard(r)
    \/ Snapshot(r)
    \/ LockRows(r)
    \/ WriteMember(r)
    \/ SaveInvitation(r)
    \/ AcceptInTx(r)
    \/ AcceptCommit(r)
    \/ CountSeats(r)
    \/ SeatMember(r)
    \/ CloseInvitation(r)
    \/ MarkRevoked(r)
    \/ CutOff(r)

Next ==
    \/ \E r \in Requests : Step(r)
    \/ \E i \in Ids, u \in Users : CreateTeam(i, u)
    \/ \E r \in Requests, u \in Users : CreateTeamRow(r, u)
    \/ \E i \in Ids, c \in Change : guardedMemberWriteInTx(i, c)
    \/ \E r \in Requests, i \in Ids, c \in Change : GetMember(r, i, c)
    \/ \E r \in Requests, u \in Users, role \in Roles : CreateInvitation(r, u, role)
    \/ \E r \in Requests, i \in Invs : AcceptInvitation(r, i)
    \/ \E r \in Requests, i \in Invs : RevokeInvitation(r, i)

Spec == Init /\ [][Next]_vars

-----------------------------------------------------------------------------
(***************************************************************************)
(* Properties.                                                             *)
(***************************************************************************)

\* A team always has an active owner: no concurrent demotions, deactivations
\* and removals leave it "a team nobody can administer" (guardedMemberWrite).
\* At READ COMMITTED the locks of ListMembersByTeam keep it so until a row is
\* written on a read another request has outdated, for GetMember comes before
\* the lock and its row is written back whole: it can take back a promotion,
\* and leave no owner ("sqlitestore and pgstore both make that check hold
\* under concurrency", team.Stores.Tx).
HasOwner ==
    made /\ (isolation = "serializable" \/ (isolation = "readCommitted" /\ ~stale))
        => \E i \in present : IsOwner(row[i])

\* No team outgrows the seats its host admits, however many people accept at
\* once ("so that a seat limit is actually enforceable rather than advisory
\* under concurrency: the member count it is given and the member row that
\* follows are then consistent", team.Stores.Tx). At READ COMMITTED it does not
\* hold: the second of two acceptances waits for the rows the first has locked,
\* and is not shown the row the first inserts.
SeatLimit == Cardinality(present) <= Seats

\* Once a member has been made from an invitation its token cannot be
\* redeemed again: it is not pending any more (AcceptInvitation, with a
\* TxRunner of either kind).
SpentIsClosed ==
    isolation # "none" => \A i \in redeemed : inv[i].status # "pending"

\* An invitation that reads as accepted made a member, with or without a
\* TxRunner and wherever a request is cut off: the member comes first, so an
\* invitee is never locked out by a half-done accept.
AcceptedMadeMember == \A i \in Invs : inv[i].status = "accepted" => i \in redeemed

=============================================================================
