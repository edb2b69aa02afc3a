------------------------------ MODULE TeamProofs ------------------------------
(***************************************************************************)
(* Proofs about Team: the type invariant and the invitations under every   *)
(* isolation, and the owner where a transaction is one step and under row  *)
(* locks, for any number of members, invitations and requests.             *)
(***************************************************************************)
EXTENDS Team, TLAPS

\* A request holds what its next step needs: an invitation, a user, or a
\* member row with the copy it has read.
Ready(q) ==
    /\ q.pc \in {"admit", "create", "close", "recall"} => q.inv \in Invs
    /\ q.pc \in {"owner", "invite", "admit", "create"} => q.user \in Users
    /\ q.pc \in {"list", "write"} => q.id \in Ids /\ q.read \in Member /\ q.inv = Gone
    /\ q.pc = "lock" /\ q.inv = Gone => q.id \in Ids /\ q.read \in Member
    /\ q.pc = "lock" /\ q.inv # Gone => q.user \in Users

AllReady == \A r \in Requests : Ready(req[r])

\* An invitation that can be accepted is for somebody.
ForSomebody == \A i \in Invs : inv[i].status = "pending" => inv[i].user \in Users

\* A row that is there has an identity given by NewID.
HasIdentity == \A i \in Ids : row[i] # Gone => i \in taken

TypeInv == TypeOK /\ AllReady /\ ForSomebody /\ HasIdentity

LEMMA IdleType == Idle \in Request /\ Idle.pc = "idle" /\ Idle.held = {} /\ Idle.inv = Gone
<1>1. [kind |-> "role", role |-> "member", on |-> FALSE] \in Change BY DEF Change, Roles
<1> QED BY <1>1 DEF Idle, Request, PCs, Roles

\* What a change writes is a row, or none for a removal.
LEMMA ChangedType ==
    ASSUME NEW m \in Member, NEW c \in Change
    PROVE  /\ Changed(m, c) \in Member \cup {Gone}
           /\ c.kind = "remove" => Changed(m, c) = Gone
           /\ c.kind = "role" => Changed(m, c) = [m EXCEPT !.role = c.role]
           /\ c.kind = "active" => Changed(m, c) = [m EXCEPT !.active = c.on]
           /\ c.kind \in {"role", "active", "remove"}
<1>1. c.kind \in {"role", "active", "remove"} /\ c.role \in Roles /\ c.on \in BOOLEAN
  BY DEF Change, Roles
<1>2. CASE c.kind = "role"
  BY <1>1, <1>2 DEF Changed, Member
<1>3. CASE c.kind = "active"
  BY <1>1, <1>3 DEF Changed, Member
<1>4. CASE c.kind = "remove"
  BY <1>1, <1>4 DEF Changed
<1> QED BY <1>1, <1>2, <1>3, <1>4

LEMMA ReturnType ==
    ASSUME TypeOK, NEW r \in Requests, Return(r)
    PROVE  /\ req' \in [Requests -> Request]
           /\ req'[r].pc = "idle"
           /\ \A s \in Requests \ {r} : req'[s] = req[s]
BY IdleType DEF Return, TypeOK

LEMMA PCsList ==
    /\ "idle" \in PCs /\ "owner" \in PCs /\ "list" \in PCs /\ "lock" \in PCs
    /\ "write" \in PCs /\ "invite" \in PCs /\ "admit" \in PCs /\ "create" \in PCs
    /\ "close" \in PCs /\ "recall" \in PCs
BY DEF PCs

\* A step that gives request r the local state q.
LEMMA StartType ==
    ASSUME TypeInv, NEW r \in Requests, NEW q \in Request, Ready(q),
           req' = [req EXCEPT ![r] = q]
    PROVE  req' \in [Requests -> Request] /\ AllReady'
<1>1. req' \in [Requests -> Request] BY DEF TypeInv, TypeOK
<1>2. ASSUME NEW s \in Requests PROVE Ready(req'[s])
  <2>1. req'[s] = IF s = r THEN q ELSE req[s] BY DEF TypeInv, TypeOK
  <2> QED BY <2>1 DEF TypeInv, AllReady
<1> QED BY <1>1, <1>2 DEF AllReady, Ready

LEMMA GotoInv ==
    ASSUME TypeInv, NEW r \in Requests, NEW p \in PCs, Goto(r, p),
           Ready([req[r] EXCEPT !.pc = p])
    PROVE  req' \in [Requests -> Request] /\ AllReady'
<1> DEFINE q == [req[r] EXCEPT !.pc = p]
<1>1. req' = [req EXCEPT ![r] = q] BY DEF Goto
<1>2. q \in Request BY DEF TypeInv, TypeOK, Request
<1>3. Ready(q) OBVIOUS
<1> HIDE DEF q
<1> QED BY <1>1, <1>2, <1>3, StartType

LEMMA ReturnInv ==
    ASSUME TypeInv, NEW r \in Requests, Return(r)
    PROVE  req' \in [Requests -> Request] /\ AllReady'
<1>1. Ready(Idle) BY IdleType DEF Ready
<1> QED BY <1>1, IdleType, StartType DEF Return

LEMMA TypeInit == Init => TypeInv
<1> SUFFICES ASSUME Init PROVE TypeInv
  OBVIOUS
<1>1. req \in [Requests -> Request] BY IdleType DEF Init
<1>2. AllReady BY IdleType DEF Init, AllReady, Ready
<1> QED BY <1>1, <1>2 DEF Init, TypeInv, TypeOK, HasIdentity, ForSomebody, Invitation, Roles

LEMMA CreateMemberType ==
    ASSUME TypeOK, NEW i \in Ids, NEW m \in Member, CreateMember(i, m)
    PROVE  /\ row' \in [Ids -> Member \cup {Gone}]
           /\ taken' \subseteq Ids
           /\ HasIdentity => HasIdentity'
BY GoneAssumption DEF CreateMember, TypeOK, HasIdentity

LEMMA UpdateInvitationType ==
    ASSUME TypeInv, NEW i, NEW st \in {"accepted", "revoked"},
           inv' = [inv EXCEPT ![i].status = st]
    PROVE  inv' \in [Invs -> Invitation] /\ ForSomebody'
BY DEF TypeInv, TypeOK, Invitation, ForSomebody

LEMMA AdmitType ==
    ASSUME TypeOK, NEW r \in Requests, req[r].inv \in Invs, req[r].user \in Users,
           Admit(r)
    PROVE  /\ row' \in [Ids -> Member \cup {Gone}]
           /\ taken' \subseteq Ids
           /\ redeemed' \subseteq Invs
           /\ HasIdentity => HasIdentity'
<1>1. Invitee(r) \in Member BY DEF TypeOK, Request, Invitee, Member
<1> QED BY <1>1, CreateMemberType DEF Admit, TypeOK

LEMMA TypeStep == TypeInv /\ [Next]_vars => TypeInv'
<1> SUFFICES ASSUME TypeInv, [Next]_vars PROVE TypeInv'
  OBVIOUS
<1>0. TypeOK /\ AllReady /\ ForSomebody /\ HasIdentity BY DEF TypeInv
<1>1. ASSUME NEW r \in Requests, CreateOwner(r) PROVE TypeInv'
  <2>1. req[r].user \in Users BY <1>0, <1>1 DEF CreateOwner, AllReady, Ready
  <2>2. Owner(req[r].user) \in Member BY <2>1 DEF Owner, Member, Roles
  <2> QED BY <1>0, <1>1, <2>2, ReturnInv, CreateMemberType
          DEF CreateOwner, TypeInv, TypeOK, ForSomebody
<1>2. ASSUME UNCHANGED <<isolation, made, row, inv, taken, redeemed, stale>>,
             req' \in [Requests -> Request], AllReady'
      PROVE  TypeInv'
  BY <1>0, <1>2 DEF TypeInv, TypeOK, HasIdentity, ForSomebody
<1>3. ASSUME NEW r \in Requests, ListForGuard(r) \/ CountSeats(r) \/ CutOff(r) PROVE TypeInv'
  <2>0. req[r] \in Request BY <1>0 DEF TypeOK
  <2>1. CASE Return(r)
    BY <1>2, <1>3, <2>1, ReturnInv DEF ListForGuard, CountSeats, CutOff
  <2>2. CASE ListForGuard(r) /\ Goto(r, "write")
    <3>1. Ready([req[r] EXCEPT !.pc = "write"])
      BY <1>0, <2>0, <2>2 DEF ListForGuard, AllReady, Ready, Request
    <3>2. req' \in [Requests -> Request] /\ AllReady'
      BY <2>2, <3>1, GotoInv, PCsList
    <3> QED BY <1>2, <2>2, <3>2 DEF ListForGuard
  <2>3. CASE CountSeats(r) /\ Goto(r, "create")
    <3>1. Ready([req[r] EXCEPT !.pc = "create"])
      BY <1>0, <2>0, <2>3 DEF CountSeats, AllReady, Ready, Request
    <3>2. req' \in [Requests -> Request] /\ AllReady'
      BY <2>3, <3>1, GotoInv, PCsList
    <3> QED BY <1>2, <2>3, <3>2 DEF CountSeats
  <2> QED BY <1>3, <2>1, <2>2, <2>3 DEF ListForGuard, CountSeats, CutOff, AfterAdmission
<1>4. ASSUME NEW r \in Requests, Snapshot(r) PROVE TypeInv'
  <2> DEFINE q == [req[r] EXCEPT !.snap = present, !.pc = "lock"]
  <2>0. req[r] \in Request BY <1>0 DEF TypeOK
  <2>1. q \in Request
    BY <2>0, PCsList DEF Request, present
  <2>2. Ready(q)
    BY <1>0, <1>4, <2>0, GoneAssumption DEF Snapshot, AllReady, Ready, Request
  <2>3. req' = [req EXCEPT ![r] = q] BY <1>4 DEF Snapshot
  <2> HIDE DEF q
  <2>4. req' \in [Requests -> Request] /\ AllReady' BY <2>1, <2>2, <2>3, StartType
  <2> QED BY <1>2, <1>4, <2>4 DEF Snapshot
<1>5. ASSUME NEW r \in Requests, LockRows(r) PROVE TypeInv'
  <2>1. CASE Return(r)
    BY <1>2, <1>5, <2>1, ReturnInv DEF LockRows
  <2>2. CASE ~Return(r)
    <3> DEFINE p == IF req[r].inv = Gone THEN "write" ELSE "create"
               q == [req[r] EXCEPT !.held = req[r].snap \cap present, !.pc = p]
    <3>0. req[r] \in Request BY <1>0 DEF TypeOK
    <3>1. req' = [req EXCEPT ![r] = q] BY <1>5, <2>2 DEF LockRows
    <3>2. q \in Request BY <3>0, PCsList DEF Request, present
    <3>3. Ready(q) BY <1>0, <1>5, <3>0 DEF LockRows, AllReady, Ready, Request
    <3> HIDE DEF q
    <3>4. req' \in [Requests -> Request] /\ AllReady' BY <3>1, <3>2, <3>3, StartType
    <3> QED BY <1>2, <1>5, <3>4 DEF LockRows
  <2> QED BY <2>1, <2>2
<1>6. ASSUME NEW r \in Requests, WriteMember(r) PROVE TypeInv'
  <2>1. /\ req[r].id \in Ids /\ req[r].change \in Change /\ req[r].read \in Member
    BY <1>0, <1>6 DEF WriteMember, TypeOK, AllReady, Ready, Request
  <2>2. CASE row[req[r].id] = Gone
    BY <1>2, <1>6, <2>2, ReturnInv DEF WriteMember
  <2>3. CASE row[req[r].id] # Gone
    <3> DEFINE m == Changed(req[r].read, req[r].change)
    <3>1. m \in Member \cup {Gone} BY <2>1, ChangedType
    <3>3. row' = [row EXCEPT ![req[r].id] = m] /\ taken' = taken
      BY <1>6, <2>3 DEF WriteMember
    <3> HIDE DEF m
    <3>4. HasIdentity' BY <1>0, <2>1, <2>3, <3>3 DEF HasIdentity, TypeOK
    <3>5. row' \in [Ids -> Member \cup {Gone}]
      BY <1>0, <3>1, <3>3 DEF TypeOK
    <3>6. stale' \in BOOLEAN BY <1>0, <1>6, <2>3 DEF WriteMember, TypeOK
    <3> QED BY <1>0, <1>6, <3>4, <3>5, <3>6, ReturnInv
            DEF WriteMember, TypeInv, TypeOK, ForSomebody
  <2> QED BY <2>2, <2>3
<1>7. ASSUME NEW r \in Requests, SaveInvitation(r) PROVE TypeInv'
  <2>1. req[r].user \in Users /\ req[r].role \in Roles
    BY <1>0, <1>7 DEF SaveInvitation, TypeOK, AllReady, Ready, Request
  <2>2. inv' \in [Invs -> Invitation] /\ ForSomebody'
    BY <1>0, <1>7, <2>1 DEF SaveInvitation, TypeOK, Invitation, ForSomebody
  <2> QED BY <1>0, <1>7, <2>2, ReturnInv DEF SaveInvitation, TypeInv, TypeOK, HasIdentity
<1>8. ASSUME NEW r \in Requests, AcceptInTx(r) \/ AcceptCommit(r) PROVE TypeInv'
  <2>1. req[r].inv \in Invs /\ req[r].user \in Users
    BY <1>0, <1>8 DEF AcceptInTx, AcceptCommit, AllReady, Ready
  <2>2. req' \in [Requests -> Request] /\ AllReady'
    BY <1>8, ReturnInv DEF AcceptInTx, AcceptCommit
  <2>3. UNCHANGED <<isolation, made, stale>> BY <1>8 DEF AcceptInTx, AcceptCommit
  <2>4. CASE Admit(r) /\ UpdateInvitation(req[r].inv, "accepted")
    <3>1. inv' \in [Invs -> Invitation] /\ ForSomebody'
      BY <2>4, UpdateInvitationType DEF UpdateInvitation
    <3> QED BY <1>0, <2>1, <2>2, <2>3, <2>4, <3>1, AdmitType DEF TypeInv, TypeOK
  <2>5. CASE UNCHANGED <<row, taken, inv, redeemed>>
    BY <1>2, <2>2, <2>3, <2>5
  <2> QED BY <1>8, <2>4, <2>5 DEF AcceptInTx, AcceptCommit
<1>9. ASSUME NEW r \in Requests, SeatMember(r) PROVE TypeInv'
  <2>0. req[r] \in Request BY <1>0 DEF TypeOK
  <2>1. req[r].inv \in Invs /\ req[r].user \in Users
    BY <1>0, <1>9 DEF SeatMember, AllReady, Ready
  <2>2. Ready([req[r] EXCEPT !.pc = "close"]) BY <2>0, <2>1 DEF Ready, Request
  <2>3. req' \in [Requests -> Request] /\ AllReady'
    BY <1>9, <2>2, GotoInv, PCsList DEF SeatMember
  <2> QED BY <1>0, <1>9, <2>1, <2>3, AdmitType DEF SeatMember, TypeInv, TypeOK, ForSomebody
<1>10. ASSUME NEW r \in Requests, CloseInvitation(r) \/ MarkRevoked(r) PROVE TypeInv'
  <2>1. inv' \in [Invs -> Invitation] /\ ForSomebody'
    BY <1>10, UpdateInvitationType DEF CloseInvitation, MarkRevoked, UpdateInvitation
  <2> QED BY <1>0, <1>10, <2>1, ReturnInv
          DEF CloseInvitation, MarkRevoked, TypeInv, TypeOK, HasIdentity
<1>11. ASSUME NEW i \in Ids, NEW u \in Users, CreateTeam(i, u) PROVE TypeInv'
  <2>1. Owner(u) \in Member BY DEF Owner, Member, Roles
  <2> QED BY <1>0, <1>11, <2>1, CreateMemberType
          DEF CreateTeam, TypeInv, TypeOK, AllReady, Ready, ForSomebody
<1>12. ASSUME NEW r \in Requests, NEW u \in Users, CreateTeamRow(r, u) PROVE TypeInv'
  <2> DEFINE q == [Idle EXCEPT !.pc = "owner", !.user = u]
  <2>1. q \in Request /\ Ready(q) BY IdleType, PCsList DEF Request, Ready
  <2>2. req' = [req EXCEPT ![r] = q] BY <1>12 DEF CreateTeamRow
  <2> HIDE DEF q
  <2>3. req' \in [Requests -> Request] /\ AllReady' BY <2>1, <2>2, StartType
  <2> QED BY <1>0, <1>12, <2>3 DEF CreateTeamRow, TypeInv, TypeOK, HasIdentity, ForSomebody
<1>13. ASSUME NEW i \in Ids, NEW c \in Change, guardedMemberWriteInTx(i, c) PROVE TypeInv'
  <2>1. row[i] \in Member /\ row[i] # Gone
    BY <1>0, <1>13 DEF guardedMemberWriteInTx, present, TypeOK
  <2> DEFINE m == Changed(row[i], c)
  <2>2. m \in Member \cup {Gone} BY <2>1, ChangedType
  <2>4. row' = [row EXCEPT ![i] = m] /\ taken' = taken
    BY <1>13 DEF guardedMemberWriteInTx
  <2> HIDE DEF m
  <2>5. HasIdentity' BY <1>0, <2>1, <2>4 DEF HasIdentity, TypeOK
  <2>6. row' \in [Ids -> Member \cup {Gone}]
    BY <1>0, <2>2, <2>4 DEF TypeOK
  <2> QED BY <1>0, <1>13, <2>5, <2>6
          DEF guardedMemberWriteInTx, TypeInv, TypeOK, AllReady, Ready, ForSomebody
<1>14. ASSUME NEW r \in Requests, NEW i \in Ids, NEW c \in Change, GetMember(r, i, c)
       PROVE  TypeInv'
  <2>1. row[i] \in Member BY <1>0, <1>14 DEF GetMember, present, TypeOK
  <2> DEFINE p == IF losesOwner(row[i], c) THEN "list" ELSE "write"
             q == [Idle EXCEPT !.pc = p, !.id = i, !.change = c, !.read = row[i]]
  <2>2. p \in {"list", "write"} OBVIOUS
  <2>3. req' = [req EXCEPT ![r] = q] BY <1>14 DEF GetMember
  <2> HIDE DEF p
  <2>4. q \in Request /\ Ready(q) BY <2>1, <2>2, IdleType, PCsList DEF Request, Ready
  <2> HIDE DEF q
  <2>5. req' \in [Requests -> Request] /\ AllReady' BY <2>3, <2>4, StartType
  <2> QED BY <1>2, <1>14, <2>5 DEF GetMember
<1>15. ASSUME NEW r \in Requests, NEW u \in Users, NEW role \in Roles,
              CreateInvitation(r, u, role)
       PROVE  TypeInv'
  <2> DEFINE q == [Idle EXCEPT !.pc = "invite", !.user = u, !.role = role]
  <2>1. q \in Request /\ Ready(q) BY IdleType, PCsList DEF Request, Ready
  <2>2. req' = [req EXCEPT ![r] = q] BY <1>15 DEF CreateInvitation
  <2> HIDE DEF q
  <2>3. req' \in [Requests -> Request] /\ AllReady' BY <2>1, <2>2, StartType
  <2> QED BY <1>2, <1>15, <2>3 DEF CreateInvitation
<1>16. ASSUME NEW r \in Requests, NEW i \in Invs, AcceptInvitation(r, i) PROVE TypeInv'
  <2>1. inv[i].user \in Users /\ inv[i].role \in Roles
    BY <1>0, <1>16 DEF AcceptInvitation, TypeOK, Invitation, ForSomebody
  <2> DEFINE q == [Idle EXCEPT !.pc = "admit", !.inv = i, !.user = inv[i].user,
                               !.role = inv[i].role]
  <2>2. q \in Request /\ Ready(q) BY <2>1, IdleType, PCsList DEF Request, Ready
  <2>3. req' = [req EXCEPT ![r] = q] BY <1>16 DEF AcceptInvitation
  <2> HIDE DEF q
  <2>4. req' \in [Requests -> Request] /\ AllReady' BY <2>2, <2>3, StartType
  <2> QED BY <1>2, <1>16, <2>4 DEF AcceptInvitation
<1>17. ASSUME NEW r \in Requests, NEW i \in Invs, RevokeInvitation(r, i) PROVE TypeInv'
  <2> DEFINE q == [Idle EXCEPT !.pc = "recall", !.inv = i]
  <2>1. q \in Request /\ Ready(q) BY IdleType, PCsList DEF Request, Ready
  <2>2. req' = [req EXCEPT ![r] = q] BY <1>17 DEF RevokeInvitation
  <2> HIDE DEF q
  <2>3. req' \in [Requests -> Request] /\ AllReady' BY <2>1, <2>2, StartType
  <2> QED BY <1>2, <1>17, <2>3 DEF RevokeInvitation
<1>18. CASE UNCHANGED vars
  BY <1>0, <1>18 DEF vars, TypeInv, TypeOK, AllReady, Ready, ForSomebody, HasIdentity
<1>19. ASSUME NEW r \in Requests, Step(r) PROVE TypeInv'
  BY <1>19, <1>1, <1>3, <1>4, <1>5, <1>6, <1>7, <1>8, <1>9, <1>10 DEF Step
<1> QED
  BY <1>11, <1>12, <1>13, <1>14, <1>15, <1>16, <1>17, <1>18, <1>19 DEF Next

\* Every variable keeps its type, whatever store.RunInTx gives.
THEOREM TeamTypeCorrect == Spec => []TypeOK
<1>1. Spec => []TypeInv BY TypeInit, TypeStep, PTL DEF Spec
<1>2. TypeInv => TypeOK BY DEF TypeInv
<1> QED BY <1>1, <1>2, PTL

-----------------------------------------------------------------------------
(***************************************************************************)
(* Where a transaction is one step. Then no request stands between a read  *)
(* of the member rows and their write (NoneHalfway), which is all the      *)
(* guard needs.                                                            *)
(***************************************************************************)
NoneHalfway == \A r \in Requests : req[r].pc \in {"idle", "invite", "admit", "recall"}

\* There is nothing before there is a team.
TeamFirst ==
    ~made => /\ present = {}
             /\ \A i \in Invs : inv[i].status = "none"
             /\ \A r \in Requests : req[r].pc = "idle"

Owned == made => \E i \in present : IsOwner(row[i])

SerialInv == TypeInv /\ NoneHalfway /\ TeamFirst /\ Owned

LEMMA SerialInit == Init => SerialInv
<1> SUFFICES ASSUME Init PROVE SerialInv
  OBVIOUS
<1>1. TypeInv BY TypeInit
<1>2. present = {} BY DEF Init, present
<1>4. NoneHalfway BY IdleType DEF Init, NoneHalfway
<1>5. TeamFirst BY <1>2, IdleType DEF Init, TeamFirst
<1> QED BY <1>1, <1>4, <1>5 DEF Init, SerialInv, Owned

\* The identity a new row gets is that of no row there is.
LEMMA NewRow ==
    ASSUME TypeInv, NEW i \in Ids, NEW m \in Member, CreateMember(i, m)
    PROVE  /\ i \notin present
           /\ present' = present \cup {i}
           /\ row'[i] = m
           /\ \A j \in present : row'[j] = row[j]
<1>0. TypeOK /\ HasIdentity BY DEF TypeInv
<1>1. i \notin present BY <1>0 DEF CreateMember, NewID, present, HasIdentity
<1>2. row' = [row EXCEPT ![i] = m] BY DEF CreateMember
<1>3. present' = present \cup {i} BY <1>0, <1>2, GoneAssumption DEF present, TypeOK
<1> QED BY <1>0, <1>1, <1>2, <1>3 DEF present, TypeOK

\* A change that does not lose an owner leaves an owner one.
LEMMA StaysOwner ==
    ASSUME NEW m \in Member, NEW c \in Change, IsOwner(m), ~losesOwner(m, c)
    PROVE  Changed(m, c) # Gone /\ IsOwner(Changed(m, c))
<1> DEFINE n == Changed(m, c)
<1>1. c.role \in Roles /\ c.on \in BOOLEAN /\ c.kind \in {"role", "active", "remove"}
  BY DEF Change, Roles
<1>2. CASE c.kind = "role"
  <2>1. c.role = "owner" BY <1>2 DEF losesOwner, IsOwner
  <2>2. n = [m EXCEPT !.role = "owner"] BY <1>2, <2>1, ChangedType
  <2>3. n \in Member /\ IsOwner(n) BY <2>2 DEF Member, Roles, IsOwner
  <2> QED BY <2>3, GoneAssumption
<1>3. CASE c.kind = "active"
  <2>1. c.on BY <1>3 DEF losesOwner, IsOwner
  <2>2. n = [m EXCEPT !.active = c.on] BY <1>3, ChangedType
  <2>3. n \in Member /\ IsOwner(n) BY <1>1, <2>1, <2>2 DEF Member, Roles, IsOwner
  <2> QED BY <2>3, GoneAssumption
<1>4. CASE c.kind = "remove"
  BY <1>4 DEF losesOwner, IsOwner
<1> QED BY <1>1, <1>2, <1>3, <1>4

LEMMA SerialStep ==
    ASSUME isolation = "serializable", SerialInv, [Next]_vars
    PROVE  SerialInv'
<1>0. TypeOK /\ AllReady /\ ForSomebody /\ HasIdentity /\ TypeInv /\ NoneHalfway /\ TeamFirst
      /\ Owned
  BY DEF SerialInv, TypeInv
<1>1. TypeInv' BY <1>0, TypeStep
<1>3. ASSUME UNCHANGED <<made, row>>, NoneHalfway', made PROVE SerialInv'
  <2>1. present' = present BY <1>3 DEF present
  <2> QED BY <1>0, <1>1, <1>3, <2>1
          DEF SerialInv, TeamFirst, Owned
<1>4. ASSUME NEW r \in Requests, Return(r) PROVE NoneHalfway'
  BY <1>0, <1>4, ReturnType DEF NoneHalfway
<1>5. ASSUME NEW r \in Requests, req[r].pc # "idle" PROVE made
  BY <1>0, <1>5 DEF TeamFirst
<1>6. ASSUME NEW r \in Requests, AcceptInTx(r) PROVE SerialInv'
  <2>1. NoneHalfway' /\ made /\ made' BY <1>4, <1>5, <1>6 DEF AcceptInTx
  <2>2. CASE UNCHANGED <<row, taken, inv, redeemed>>
    BY <1>3, <1>6, <2>1, <2>2 DEF AcceptInTx
  <2>3. CASE AdmitMember(Cardinality(present)) /\ Admit(r)
    <3>1. Invitee(r) \in Member
      BY <1>0, <1>6 DEF AcceptInTx, TypeOK, AllReady, Ready, Request, Invitee, Member
    <3>2. PICK i \in Ids : CreateMember(i, Invitee(r)) BY <2>3 DEF Admit
    <3>3. present' = present \cup {i} /\ \A j \in present : row'[j] = row[j]
      BY <1>0, <3>1, <3>2, NewRow
    <3>6. Owned' /\ TeamFirst'
      BY <1>0, <2>1, <3>3 DEF Owned, TeamFirst
    <3> QED BY <1>1, <2>1, <3>6 DEF SerialInv
  <2> QED BY <1>6, <2>2, <2>3 DEF AcceptInTx
<1>7. ASSUME NEW i \in Ids, NEW u \in Users, CreateTeam(i, u) PROVE SerialInv'
  <2>1. Owner(u) \in Member /\ IsOwner(Owner(u)) BY DEF Owner, Member, Roles, IsOwner
  <2>2. present' = {i} /\ row'[i] = Owner(u)
    BY <1>0, <1>7, <2>1, NewRow DEF CreateTeam, TeamFirst
  <2>3. made' /\ NoneHalfway' BY <1>0, <1>7 DEF CreateTeam, NoneHalfway
  <2>5. Owned' BY <2>1, <2>2 DEF Owned
  <2> QED BY <1>1, <2>3, <2>5 DEF SerialInv, TeamFirst
<1>8. ASSUME NEW i \in Ids, NEW c \in Change, guardedMemberWriteInTx(i, c) PROVE SerialInv'
  <2>1. i \in present /\ row[i] \in Member
    BY <1>0, <1>8 DEF guardedMemberWriteInTx, present, TypeOK
  <2> DEFINE m == Changed(row[i], c)
  <2>2. row' = [row EXCEPT ![i] = m]
    BY <1>8 DEF guardedMemberWriteInTx
  <2>4. IsOwner(row[i]) /\ ~losesOwner(row[i], c) => m # Gone /\ IsOwner(m)
    BY <2>1, StaysOwner
  <2> HIDE DEF m
  <2>5. present' = IF m = Gone THEN present \ {i} ELSE present
    BY <1>0, <2>1, <2>2 DEF present, TypeOK
  <2>6. row'[i] = m /\ \A j \in present \ {i} : row'[j] = row[j]
    BY <1>0, <2>1, <2>2 DEF TypeOK, present
  <2>9. made /\ made' BY <1>0, <1>8, <2>1 DEF guardedMemberWriteInTx, TeamFirst
  <2>10. Owned'
    <3>1. PICK j \in present : IsOwner(row[j]) BY <1>0, <2>9 DEF Owned
    <3>2. CASE losesOwner(row[i], c)
      <4>1. PICK k \in present \ {i} : IsOwner(row[k])
        BY <1>8, <3>2 DEF guardedMemberWriteInTx, requireNotLastOwner
      <4>2. k \in present' /\ row'[k] = row[k] BY <2>5, <2>6
      <4> QED BY <4>1, <4>2 DEF Owned
    <3>3. CASE ~losesOwner(row[i], c) /\ j = i
      BY <2>4, <2>5, <2>6, <3>1, <3>3 DEF Owned
    <3>4. CASE j # i
      BY <2>5, <2>6, <3>1, <3>4 DEF Owned
    <3> QED BY <3>2, <3>3, <3>4
  <2>11. NoneHalfway' /\ TeamFirst'
    BY <1>0, <1>8, <2>9 DEF guardedMemberWriteInTx, NoneHalfway, TeamFirst
  <2> QED BY <1>1, <2>10, <2>11 DEF SerialInv
<1>9. ASSUME NEW r \in Requests, NEW q \in Request, made,
             q.pc \in {"invite", "admit", "recall"}, req' = [req EXCEPT ![r] = q],
             UNCHANGED <<made, row, inv, redeemed>>
      PROVE  SerialInv'
  <2>1. NoneHalfway' BY <1>0, <1>9 DEF NoneHalfway, TypeOK
  <2> QED BY <1>3, <1>9, <2>1
<1>10. ASSUME NEW r \in Requests, NEW u \in Users, NEW role \in Roles,
              CreateInvitation(r, u, role)
       PROVE  SerialInv'
  <2>1. [Idle EXCEPT !.pc = "invite", !.user = u, !.role = role] \in Request
    BY IdleType, PCsList DEF Request
  <2>2. [Idle EXCEPT !.pc = "invite", !.user = u, !.role = role].pc = "invite"
    BY IdleType DEF Request
  <2> QED BY <1>9, <1>10, <2>1, <2>2 DEF CreateInvitation
<1>11. ASSUME NEW r \in Requests, NEW i \in Invs, AcceptInvitation(r, i) PROVE SerialInv'
  <2> DEFINE q == [Idle EXCEPT !.pc = "admit", !.inv = i, !.user = inv[i].user,
                               !.role = inv[i].role]
  <2>1. inv[i].user \in Users /\ inv[i].role \in Roles
    BY <1>0, <1>11 DEF AcceptInvitation, TypeOK, Invitation, ForSomebody
  <2>2. q \in Request /\ q.pc = "admit" BY <2>1, IdleType, PCsList DEF Request
  <2>3. made BY <1>0, <1>11 DEF TeamFirst, AcceptInvitation
  <2>4. req' = [req EXCEPT ![r] = q] BY <1>11 DEF AcceptInvitation
  <2> HIDE DEF q
  <2> QED BY <1>9, <1>11, <2>2, <2>3, <2>4 DEF AcceptInvitation
<1>12. ASSUME NEW r \in Requests, NEW i \in Invs, RevokeInvitation(r, i) PROVE SerialInv'
  <2> DEFINE q == [Idle EXCEPT !.pc = "recall", !.inv = i]
  <2>1. q \in Request /\ q.pc = "recall" BY IdleType, PCsList DEF Request
  <2>2. made BY <1>0, <1>12 DEF TeamFirst, RevokeInvitation
  <2>3. req' = [req EXCEPT ![r] = q] BY <1>12 DEF RevokeInvitation
  <2> HIDE DEF q
  <2> QED BY <1>9, <1>12, <2>1, <2>2, <2>3 DEF RevokeInvitation
<1>13. ASSUME NEW r \in Requests, SaveInvitation(r) \/ MarkRevoked(r) \/ CutOff(r)
       PROVE  SerialInv'
  <2>1. made BY <1>5, <1>13 DEF SaveInvitation, MarkRevoked, CutOff
  <2> QED BY <1>3, <1>4, <1>13, <2>1 DEF SaveInvitation, MarkRevoked, CutOff
<1>14. ASSUME NEW r \in Requests, Step(r) PROVE SerialInv'
  <2>1. /\ ~CreateOwner(r) /\ ~ListForGuard(r) /\ ~Snapshot(r) /\ ~LockRows(r)
        /\ ~WriteMember(r) /\ ~AcceptCommit(r) /\ ~CountSeats(r) /\ ~SeatMember(r)
        /\ ~CloseInvitation(r)
    BY <1>0 DEF NoneHalfway, CreateOwner, ListForGuard, Snapshot, LockRows, WriteMember,
                AcceptCommit, CountSeats, SeatMember, CloseInvitation
  <2> QED BY <1>6, <1>13, <1>14, <2>1 DEF Step
<1>15. CASE UNCHANGED vars
  <2>1. present' = present BY <1>15 DEF vars, present
  <2> QED BY <1>0, <1>1, <1>15, <2>1
          DEF vars, SerialInv, NoneHalfway, TeamFirst, Owned
<1>16. /\ \A r \in Requests, u \in Users : ~CreateTeamRow(r, u)
       /\ \A r \in Requests, i \in Ids, c \in Change : ~GetMember(r, i, c)
  BY DEF CreateTeamRow, GetMember
<1> QED
  BY <1>7, <1>8, <1>10, <1>11, <1>12, <1>14, <1>15, <1>16 DEF Next

-----------------------------------------------------------------------------
\* The service does not change stores.
LEMMA Rigid == [Next]_vars => isolation' = isolation
<1> SUFFICES ASSUME [Next]_vars PROVE isolation' = isolation
  OBVIOUS
<1>1. ASSUME NEW r \in Requests, Step(r) PROVE isolation' = isolation
  BY <1>1 DEF Step, CreateOwner, ListForGuard, Snapshot, LockRows, WriteMember,
              SaveInvitation, AcceptInTx, AcceptCommit, CountSeats, SeatMember,
              CloseInvitation, MarkRevoked, CutOff
<1> QED BY <1>1 DEF Next, vars, CreateTeam, CreateTeamRow, guardedMemberWriteInTx, GetMember,
                    CreateInvitation, AcceptInvitation, RevokeInvitation

LEMMA SerialAlways == Spec => [](isolation = "serializable" => SerialInv)
<1> DEFINE I == isolation = "serializable" => SerialInv
<1>1. Init => I BY SerialInit
<1>2. I /\ [Next]_vars => I' BY SerialStep, Rigid
<1> QED BY <1>1, <1>2, PTL DEF Spec

-----------------------------------------------------------------------------
(***************************************************************************)
(* Invitations. What keeps them is who may close one: without a TxRunner a *)
(* request that has made the member before (Closing), and with one the     *)
(* step that makes the member. Spent is SpentIsClosed with the invitations *)
(* that have not been saved yet.                                           *)
(***************************************************************************)
Closing == \A r \in Requests : req[r].pc = "close" => req[r].inv \in redeemed /\ isolation = "none"

Spent == isolation # "none" => \A i \in redeemed : inv[i].status \in {"accepted", "revoked"}

InvitationInv == TypeInv /\ AcceptedMadeMember /\ Spent /\ Closing

\* Only SeatMember brings a request to CloseInvitation.
LEMMA NobodyCloses ==
    ASSUME TypeInv, Closing, NEW r \in Requests, NEW q, q.pc # "close", req' = [req EXCEPT ![r] = q],
           redeemed \subseteq redeemed', isolation' = isolation
    PROVE  Closing'
<1>1. \A s \in Requests : req'[s] = IF s = r THEN q ELSE req[s]
  BY DEF TypeInv, TypeOK
<1> QED BY <1>1 DEF Closing

LEMMA ClosingStep ==
    ASSUME InvitationInv, [Next]_vars
    PROVE  Closing'
<1>0. TypeInv /\ TypeOK /\ Closing /\ isolation' = isolation
  BY Rigid DEF InvitationInv, TypeInv
<1>1. ASSUME NEW r \in Requests, Return(r), redeemed \subseteq redeemed' PROVE Closing'
  <2>1. Idle.pc # "close" BY IdleType
  <2> QED BY <1>0, <1>1, <2>1, NobodyCloses DEF Return
<1>2. ASSUME NEW r \in Requests, NEW p \in PCs \ {"close"}, Goto(r, p), UNCHANGED redeemed PROVE Closing'
  <2>1. PICK q : q = [req[r] EXCEPT !.pc = p] OBVIOUS
  <2>2. q.pc # "close" BY <1>0, <1>2, <2>1 DEF TypeOK, Request
  <2>3. req' = [req EXCEPT ![r] = q] BY <1>0, <1>2, <2>1 DEF Goto
  <2> QED BY <1>0, <1>2, <2>2, <2>3, NobodyCloses
<1>3. ASSUME NEW r \in Requests, Snapshot(r) PROVE Closing'
  <2>1. PICK q : q = [req[r] EXCEPT !.snap = present, !.pc = "lock"] OBVIOUS
  <2>2. q.pc = "lock" BY <1>0, <2>1 DEF TypeOK, Request
  <2>3. req' = [req EXCEPT ![r] = q] BY <1>3, <2>1 DEF Snapshot
  <2> QED BY <1>0, <1>3, <2>2, <2>3, NobodyCloses DEF Snapshot
<1>4. ASSUME NEW r \in Requests, LockRows(r) PROVE Closing'
  <2>1. CASE Return(r) BY <1>1, <1>4, <2>1 DEF LockRows
  <2>2. CASE ~Return(r)
    <3>1. PICK p \in {"write", "create"} :
            req' = [req EXCEPT ![r] = [@ EXCEPT !.held = req[r].snap \cap present, !.pc = p]]
      BY <1>4, <2>2 DEF LockRows
    <3>2. PICK q : q = [req[r] EXCEPT !.held = req[r].snap \cap present, !.pc = p] OBVIOUS
    <3>3. q.pc = p BY <1>0, <3>2 DEF TypeOK, Request
    <3>4. req' = [req EXCEPT ![r] = q] BY <3>1, <3>2
    <3> QED BY <1>0, <1>4, <3>3, <3>4, NobodyCloses DEF LockRows
  <2> QED BY <2>1, <2>2
<1>5. ASSUME NEW r \in Requests, SeatMember(r) PROVE Closing'
  <2>1. PICK q : q = [req[r] EXCEPT !.pc = "close"] OBVIOUS
  <2>2. req[r] \in Request /\ q.inv = req[r].inv BY <1>0, <2>1 DEF TypeOK, Request
  <2>3. req' = [req EXCEPT ![r] = q] BY <1>5, <2>1 DEF SeatMember, Goto
  <2>4. redeemed' = redeemed \cup {q.inv} /\ isolation = "none" BY <1>5, <2>2 DEF SeatMember, Admit
  <2>5. \A s \in Requests : req'[s] = IF s = r THEN q ELSE req[s] BY <1>0, <2>3 DEF TypeOK
  <2> QED BY <1>0, <2>4, <2>5 DEF Closing
<1>6. ASSUME NEW r \in Requests, Step(r) PROVE Closing'
  <2>1. ASSUME \/ CreateOwner(r) \/ WriteMember(r) \/ SaveInvitation(r) \/ AcceptInTx(r) \/ AcceptCommit(r)
               \/ CloseInvitation(r) \/ MarkRevoked(r) \/ CutOff(r)
        PROVE  Return(r) /\ redeemed \subseteq redeemed'
    BY <2>1 DEF CreateOwner, WriteMember, SaveInvitation, AcceptInTx, AcceptCommit, CloseInvitation,
                MarkRevoked, CutOff, Admit
  <2>2. ASSUME ListForGuard(r) \/ CountSeats(r)
        PROVE  (Return(r) \/ Goto(r, "write") \/ Goto(r, "create")) /\ UNCHANGED redeemed
    BY <2>2 DEF ListForGuard, CountSeats, AfterAdmission
  <2> QED BY <1>1, <1>2, <1>3, <1>4, <1>5, <1>6, <2>1, <2>2, PCsList DEF Step
<1>7. ASSUME NEW r \in Requests, NEW q, q.pc # "close", req' = [req EXCEPT ![r] = q], UNCHANGED redeemed
      PROVE  Closing'
  BY <1>0, <1>7, NobodyCloses
<1>8. ASSUME NEW r \in Requests, NEW u \in Users, CreateTeamRow(r, u) PROVE Closing'
  BY <1>7, <1>8 DEF CreateTeamRow, Idle
<1>9. ASSUME NEW r \in Requests, NEW i \in Ids, NEW c \in Change, GetMember(r, i, c) PROVE Closing'
  BY <1>7, <1>9 DEF GetMember, Idle
<1>10. ASSUME NEW r \in Requests, NEW u \in Users, NEW role \in Roles, CreateInvitation(r, u, role) PROVE Closing'
  BY <1>7, <1>10 DEF CreateInvitation, Idle
<1>11. ASSUME NEW r \in Requests, NEW i \in Invs, AcceptInvitation(r, i) PROVE Closing'
  BY <1>7, <1>11 DEF AcceptInvitation, Idle
<1>12. ASSUME NEW r \in Requests, NEW i \in Invs, RevokeInvitation(r, i) PROVE Closing'
  BY <1>7, <1>12 DEF RevokeInvitation, Idle
<1>13. ASSUME UNCHANGED <<req, redeemed>> PROVE Closing'
  BY <1>0, <1>13 DEF Closing
<1> QED
  BY <1>6, <1>8, <1>9, <1>10, <1>11, <1>12, <1>13
     DEF Next, CreateTeam, guardedMemberWriteInTx, vars

\* The status of an invitation changes with the making of its member, after
\* it, or to revoked.
LEMMA StatusStep ==
    ASSUME InvitationInv, [Next]_vars
    PROVE  AcceptedMadeMember' /\ Spent'
<1>0. /\ TypeInv /\ TypeOK /\ AllReady /\ AcceptedMadeMember /\ Spent /\ Closing /\ isolation' = isolation
      /\ inv \in [Invs -> Invitation] /\ redeemed \subseteq Invs
  BY Rigid DEF InvitationInv, TypeInv, TypeOK
<1>1. ASSUME UNCHANGED <<inv, redeemed>> PROVE AcceptedMadeMember' /\ Spent'
  BY <1>0, <1>1 DEF AcceptedMadeMember, Spent
<1>2. ASSUME NEW r \in Requests, SaveInvitation(r) PROVE AcceptedMadeMember' /\ Spent'
  <2>1. PICK i \in Invs : /\ inv[i].status = "none"
                          /\ inv' = [inv EXCEPT ![i] = [status |-> "pending", user |-> req[r].user,
                                                        role |-> req[r].role]]
    BY <1>2 DEF SaveInvitation
  <2>2. \A j \in Invs : IF j = i THEN inv'[j].status = "pending" ELSE inv'[j] = inv[j]
    BY <1>0, <2>1
  <2>3. redeemed' = redeemed BY <1>2 DEF SaveInvitation
  <2>4. isolation # "none" => i \notin redeemed BY <1>0, <2>1 DEF Spent
  <2> QED BY <1>0, <2>2, <2>3, <2>4 DEF AcceptedMadeMember, Spent
<1>3. ASSUME NEW i \in Invs, NEW st \in {"accepted", "revoked"}, inv' = [inv EXCEPT ![i].status = st],
             redeemed \subseteq redeemed', redeemed' \subseteq redeemed \cup {i},
             st = "accepted" => i \in redeemed'
      PROVE  AcceptedMadeMember' /\ Spent'
  <2>1. \A j \in Invs : IF j = i THEN inv'[j].status = st ELSE inv'[j] = inv[j]
    BY <1>0, <1>3 DEF Invitation
  <2> QED BY <1>0, <1>3, <2>1 DEF AcceptedMadeMember, Spent
<1>4. ASSUME NEW r \in Requests, AcceptInTx(r) \/ AcceptCommit(r) PROVE AcceptedMadeMember' /\ Spent'
  <2>1. req[r].inv \in Invs BY <1>0, <1>4 DEF AcceptInTx, AcceptCommit, AllReady, Ready
  <2>2. CASE Admit(r) /\ UpdateInvitation(req[r].inv, "accepted")
    BY <1>3, <2>1, <2>2 DEF Admit, UpdateInvitation
  <2>3. CASE UNCHANGED <<row, taken, inv, redeemed>>
    BY <1>1, <2>3
  <2> QED BY <1>4, <2>2, <2>3 DEF AcceptInTx, AcceptCommit
<1>5. ASSUME NEW r \in Requests, SeatMember(r) PROVE AcceptedMadeMember' /\ Spent'
  BY <1>0, <1>5 DEF SeatMember, Admit, AcceptedMadeMember, Spent
<1>6. ASSUME NEW r \in Requests, CloseInvitation(r) PROVE AcceptedMadeMember' /\ Spent'
  <2>1. req[r].inv \in Invs /\ req[r].inv \in redeemed
    BY <1>0, <1>6 DEF CloseInvitation, AllReady, Ready, Closing
  <2> QED BY <1>3, <1>6, <2>1 DEF CloseInvitation, UpdateInvitation
<1>7. ASSUME NEW r \in Requests, MarkRevoked(r) PROVE AcceptedMadeMember' /\ Spent'
  <2>1. req[r].inv \in Invs BY <1>0, <1>7 DEF MarkRevoked, AllReady, Ready
  <2> QED BY <1>3, <1>7, <2>1 DEF MarkRevoked
<1>8. ASSUME NEW r \in Requests, Step(r) PROVE AcceptedMadeMember' /\ Spent'
  <2>1. ASSUME \/ CreateOwner(r) \/ ListForGuard(r) \/ Snapshot(r) \/ LockRows(r) \/ WriteMember(r)
               \/ CountSeats(r) \/ CutOff(r)
        PROVE  UNCHANGED <<inv, redeemed>>
    BY <2>1 DEF CreateOwner, ListForGuard, Snapshot, LockRows, WriteMember, CountSeats, CutOff
  <2> QED BY <1>1, <1>2, <1>4, <1>5, <1>6, <1>7, <1>8, <2>1 DEF Step
<1> QED
  BY <1>1, <1>8
     DEF Next, vars, CreateTeam, CreateTeamRow, guardedMemberWriteInTx, GetMember, CreateInvitation,
         AcceptInvitation, RevokeInvitation

LEMMA InvitationAlways == Spec => []InvitationInv
<1>1. Init => InvitationInv
  BY TypeInit, IdleType DEF Init, InvitationInv, AcceptedMadeMember, Spent, Closing
<1>2. InvitationInv /\ [Next]_vars => InvitationInv'
  BY TypeStep, ClosingStep, StatusStep DEF InvitationInv
<1> QED BY <1>1, <1>2, PTL DEF Spec

\* With a TxRunner of either kind a member's invitation is never pending again
\* (AcceptInvitation), whatever is saved and revoked meanwhile.
THEOREM TeamSpentIsClosed == Spec => []SpentIsClosed
<1>1. InvitationInv => SpentIsClosed BY DEF InvitationInv, Spent, SpentIsClosed
<1> QED BY <1>1, InvitationAlways, PTL

\* AcceptInvitation makes the member first: an invitation that reads as
\* accepted has made one, on every store and wherever a request is cut off.
THEOREM TeamAcceptedMadeMember == Spec => []AcceptedMadeMember
<1>1. InvitationInv => AcceptedMadeMember BY DEF InvitationInv
<1> QED BY <1>1, InvitationAlways, PTL

-----------------------------------------------------------------------------
(***************************************************************************)
(* Under the row locks of READ COMMITTED. A request about to write a       *)
(* change that loses an owner holds the lock of another owner's row, which *)
(* nobody can write until it is done: that owner is still there after the  *)
(* write. A change that loses none, written on an up-to-date read, leaves  *)
(* the row an owner's if it was.                                           *)
(***************************************************************************)
Guarded(q, table) ==
    q.pc = "write" =>
        \/ ~losesOwner(q.read, q.change)
        \/ \E j \in q.held \ {q.id} : j \in Ids /\ table[j] # Gone /\ IsOwner(table[j])

AllGuarded == \A r \in Requests : Guarded(req[r], row)

LockInv == TypeInv /\ AllGuarded /\ (~stale => Owned)

\* Request r changes, and no owner's row that another holds is written.
LEMMA GuardedKept ==
    ASSUME TypeInv, AllGuarded, NEW r \in Requests, NEW q,
           \A s \in Requests : req'[s] = IF s = r THEN q ELSE req[s],
           Guarded(q, row'),
           \A s \in Requests \ {r} : \A j \in req[s].held \cap present : row'[j] = row[j]
    PROVE  AllGuarded'
<1> SUFFICES ASSUME NEW s \in Requests PROVE Guarded(req'[s], row')
  BY DEF AllGuarded, Guarded
<1>1. CASE s = r BY <1>1
<1>2. CASE s # r
  <2>1. Guarded(req[s], row) /\ req'[s] = req[s] BY <1>2 DEF AllGuarded
  <2> QED BY <1>2, <2>1 DEF Guarded, present
<1> QED BY <1>1, <1>2

\* A step of one request that writes no member row.
LEMMA LockKept ==
    ASSUME TypeInv, LockInv, NEW r \in Requests, NEW q, Guarded(q, row),
           \A s \in Requests : req'[s] = IF s = r THEN q ELSE req[s],
           UNCHANGED <<made, row, stale>>
    PROVE  AllGuarded' /\ (~stale' => Owned')
<1>1. AllGuarded' BY GuardedKept DEF LockInv
<1> QED BY <1>1 DEF LockInv, Owned, present

LEMMA LockReturn ==
    ASSUME TypeInv, LockInv, NEW r \in Requests, Return(r), UNCHANGED <<made, row, stale>>
    PROVE  AllGuarded' /\ (~stale' => Owned')
<1>1. \A s \in Requests : req'[s] = IF s = r THEN Idle ELSE req[s]
  BY DEF Return, TypeInv, TypeOK
<1>2. Guarded(Idle, row) BY IdleType DEF Guarded
<1> QED BY <1>1, <1>2, LockKept

\* A request that adds a member ends, and the rows there were stay.
LEMMA LockCreate ==
    ASSUME TypeInv, LockInv, NEW r \in Requests, Return(r), UNCHANGED <<made, stale>>,
           NEW i \in Ids, NEW m \in Member, CreateMember(i, m)
    PROVE  AllGuarded' /\ (~stale' => Owned')
<1>1. present' = present \cup {i} /\ \A j \in present : row'[j] = row[j]
  BY NewRow
<1>2. \A s \in Requests : req'[s] = IF s = r THEN Idle ELSE req[s]
  BY DEF Return, TypeInv, TypeOK
<1>3. Guarded(Idle, row') BY IdleType DEF Guarded
<1>4. AllGuarded' BY <1>1, <1>2, <1>3, GuardedKept DEF LockInv
<1> QED BY <1>1, <1>4 DEF LockInv, Owned

\* The locks are granted: the other owner found is among the rows locked.
LEMMA LockLock ==
    ASSUME TypeInv, LockInv, NEW r \in Requests, LockRows(r)
    PROVE  AllGuarded' /\ (~stale' => Owned')
<1>0. req[r] \in Request BY DEF TypeInv, TypeOK
<1>1. CASE Return(r)
  BY <1>1, LockReturn DEF LockRows
<1>2. CASE ~Return(r)
  <2> DEFINE rows == req[r].snap \cap present
             p == IF req[r].inv = Gone THEN "write" ELSE "create"
  <2>1. req' = [req EXCEPT ![r] = [req[r] EXCEPT !.held = rows, !.pc = p]]
    BY <1>2 DEF LockRows
  <2>2. PICK q : q = [req[r] EXCEPT !.held = rows, !.pc = p] OBVIOUS
  <2>3. q.held = rows /\ q.pc = p /\ q.id = req[r].id
    BY <1>0, <2>2 DEF Request
  <2>4. \A s \in Requests : req'[s] = IF s = r THEN q ELSE req[s]
    BY <2>1, <2>2 DEF TypeInv, TypeOK
  <2>5. q.pc = "write" => requireNotLastOwner(rows, q.id)
    BY <1>2, <2>3 DEF LockRows
  <2>6. Guarded(q, row)
    BY <2>3, <2>5 DEF Guarded, requireNotLastOwner, present
  <2> QED BY <2>4, <2>6, LockKept DEF LockRows
<1> QED BY <1>1, <1>2

\* The write itself. Its row is locked by nobody else.
LEMMA LockWrite ==
    ASSUME TypeInv, LockInv, NEW r \in Requests, WriteMember(r)
    PROVE  AllGuarded' /\ (~stale' => Owned')
<1> DEFINE i == req[r].id
           c == req[r].change
           m == Changed(req[r].read, c)
<1>0. i \in Ids /\ c \in Change /\ req[r].read \in Member /\ TypeOK /\ Return(r) /\ req[r].pc = "write"
  BY DEF WriteMember, TypeInv, TypeOK, AllReady, Ready, Request
<1>1. CASE row[i] = Gone
  BY <1>0, <1>1, LockReturn DEF WriteMember
<1>2. CASE row[i] # Gone
  <2>1. row' = [row EXCEPT ![i] = m] /\ stale' = (stale \/ req[r].read # row[i]) /\ made' = made
    BY <1>2 DEF WriteMember
  <2>2. \A j \in Ids : row'[j] = IF j = i THEN m ELSE row[j]
    BY <1>0, <2>1 DEF TypeOK
  <2> HIDE DEF m
  <2>3. AllGuarded'
    <3>1. \A s \in Requests : req'[s] = IF s = r THEN Idle ELSE req[s]
      BY <1>0 DEF Return, TypeOK
    <3>2. \A s \in Requests \ {r} : i \notin req[s].held
      BY DEF WriteMember, Free
    <3>3. \A s \in Requests \ {r} : \A j \in req[s].held \cap present : row'[j] = row[j]
      BY <2>2, <3>2 DEF present
    <3>4. Guarded(Idle, row') BY IdleType DEF Guarded
    <3> QED BY <3>1, <3>3, <3>4, GuardedKept DEF LockInv
  <2>4. ASSUME ~stale', made' PROVE \E j \in present' : IsOwner(row'[j])
    <3>1. ~stale /\ req[r].read = row[i] /\ made BY <1>0, <2>1, <2>4 DEF TypeOK
    <3>2. PICK j \in present : IsOwner(row[j]) BY <3>1 DEF LockInv, Owned
    <3>3. CASE losesOwner(req[r].read, c)
      <4>1. PICK k \in req[r].held \ {i} : k \in Ids /\ row[k] # Gone /\ IsOwner(row[k])
        BY <1>0, <3>3 DEF LockInv, AllGuarded, Guarded
      <4>2. k # i /\ row'[k] = row[k] BY <2>2, <4>1
      <4> QED BY <4>1, <4>2 DEF present
    <3>4. CASE ~losesOwner(req[r].read, c) /\ j = i
      <4>1. m # Gone /\ IsOwner(m)
        BY <1>0, <3>1, <3>2, <3>4, StaysOwner DEF m
      <4>2. i \in present' /\ row'[i] = m BY <1>0, <2>2, <4>1 DEF present
      <4> QED BY <4>1, <4>2
    <3>5. CASE j # i
      <4>1. j \in present' /\ row'[j] = row[j] BY <2>2, <3>5 DEF present
      <4> QED BY <3>2, <4>1
    <3> QED BY <3>3, <3>4, <3>5
  <2> QED BY <2>3, <2>4 DEF Owned
<1> QED BY <1>1, <1>2

LEMMA LockStep ==
    ASSUME isolation = "readCommitted", LockInv, [Next]_vars
    PROVE  LockInv'
<1>0. TypeInv /\ TypeOK /\ AllReady /\ AllGuarded /\ (~stale => Owned)
  BY DEF LockInv, TypeInv
<1> SUFFICES AllGuarded' /\ (~stale' => Owned')
  BY <1>0, TypeStep DEF LockInv
<1>1. ASSUME NEW r \in Requests, CreateOwner(r) PROVE AllGuarded' /\ (~stale' => Owned')
  <2>1. Owner(req[r].user) \in Member
    BY <1>0, <1>1 DEF CreateOwner, AllReady, Ready, Owner, Member, Roles
  <2> QED BY <1>0, <1>1, <2>1, LockCreate DEF CreateOwner
<1>2. ASSUME NEW r \in Requests, AcceptCommit(r) PROVE AllGuarded' /\ (~stale' => Owned')
  <2>1. Invitee(r) \in Member
    BY <1>0, <1>2 DEF AcceptCommit, TypeOK, AllReady, Ready, Request, Invitee, Member
  <2>2. CASE Admit(r)
    BY <1>0, <1>2, <2>1, <2>2, LockCreate DEF AcceptCommit, Admit
  <2>3. CASE UNCHANGED row
    BY <1>0, <1>2, <2>3, LockReturn DEF AcceptCommit
  <2> QED BY <1>2, <2>2, <2>3 DEF AcceptCommit
<1>3. ASSUME NEW r \in Requests, Snapshot(r) PROVE AllGuarded' /\ (~stale' => Owned')
  <2>1. PICK q : q = [req[r] EXCEPT !.snap = present, !.pc = "lock"] OBVIOUS
  <2>2. q.pc = "lock" BY <1>0, <2>1 DEF TypeOK, Request
  <2>3. \A s \in Requests : req'[s] = IF s = r THEN q ELSE req[s]
    BY <1>0, <1>3, <2>1 DEF Snapshot, TypeOK
  <2>4. Guarded(q, row) BY <2>2 DEF Guarded
  <2> QED BY <1>0, <1>3, <2>3, <2>4, LockKept DEF Snapshot
<1>4. ASSUME NEW r \in Requests, Step(r) PROVE AllGuarded' /\ (~stale' => Owned')
  <2>1. ASSUME SaveInvitation(r) \/ CloseInvitation(r) \/ MarkRevoked(r) \/ CutOff(r)
        PROVE  Return(r) /\ UNCHANGED <<made, row, stale>>
    BY <2>1 DEF SaveInvitation, CloseInvitation, MarkRevoked, CutOff
  <2>2. ~ListForGuard(r) /\ ~AcceptInTx(r) /\ ~CountSeats(r) /\ ~SeatMember(r)
    BY DEF ListForGuard, AcceptInTx, CountSeats, SeatMember
  <2> QED BY <1>0, <1>1, <1>2, <1>3, <1>4, <2>1, <2>2, LockReturn, LockLock, LockWrite DEF Step
<1>5. ASSUME NEW i \in Ids, NEW u \in Users, CreateTeam(i, u) PROVE AllGuarded' /\ (~stale' => Owned')
  <2>1. Owner(u) \in Member /\ IsOwner(Owner(u)) BY DEF Owner, Member, Roles, IsOwner
  <2>2. present' = present \cup {i} /\ row'[i] = Owner(u) /\ \A j \in present : row'[j] = row[j]
    BY <1>0, <1>5, <2>1, NewRow DEF CreateTeam
  <2>3. AllGuarded'
    BY <1>0, <1>5, <2>2 DEF CreateTeam, AllGuarded, Guarded, present
  <2> QED BY <2>1, <2>2, <2>3 DEF Owned
<1>6. ASSUME NEW r \in Requests, NEW i \in Ids, NEW c \in Change, GetMember(r, i, c)
      PROVE  AllGuarded' /\ (~stale' => Owned')
  <2> DEFINE p == IF losesOwner(row[i], c) THEN "list" ELSE "write"
  <2>1. PICK q : q = [Idle EXCEPT !.pc = p, !.id = i, !.change = c, !.read = row[i]] OBVIOUS
  <2>2. q.pc = p /\ q.change = c /\ q.read = row[i] BY <2>1 DEF Idle
  <2>3. \A s \in Requests : req'[s] = IF s = r THEN q ELSE req[s]
    BY <1>0, <1>6, <2>1 DEF GetMember, TypeOK
  <2>4. Guarded(q, row) BY <2>2 DEF Guarded
  <2> QED BY <1>0, <1>6, <2>3, <2>4, LockKept DEF GetMember
<1>7. ASSUME NEW r \in Requests, NEW q, q.pc # "write", req' = [req EXCEPT ![r] = q],
             UNCHANGED <<made, row, stale>>
      PROVE  AllGuarded' /\ (~stale' => Owned')
  <2>1. \A s \in Requests : req'[s] = IF s = r THEN q ELSE req[s]
    BY <1>0, <1>7 DEF TypeOK
  <2>2. Guarded(q, row) BY <1>7 DEF Guarded
  <2> QED BY <1>0, <1>7, <2>1, <2>2, LockKept
<1>8. ASSUME NEW r \in Requests, NEW u \in Users, NEW role \in Roles, CreateInvitation(r, u, role)
      PROVE  AllGuarded' /\ (~stale' => Owned')
  BY <1>7, <1>8 DEF CreateInvitation, Idle
<1>9. ASSUME NEW r \in Requests, NEW i \in Invs, AcceptInvitation(r, i)
      PROVE  AllGuarded' /\ (~stale' => Owned')
  BY <1>7, <1>9 DEF AcceptInvitation, Idle
<1>10. ASSUME NEW r \in Requests, NEW i \in Invs, RevokeInvitation(r, i)
       PROVE  AllGuarded' /\ (~stale' => Owned')
  BY <1>7, <1>10 DEF RevokeInvitation, Idle
<1>11. /\ \A r \in Requests, u \in Users : ~CreateTeamRow(r, u)
       /\ \A i \in Ids, c \in Change : ~guardedMemberWriteInTx(i, c)
  BY DEF CreateTeamRow, guardedMemberWriteInTx
<1>12. CASE UNCHANGED vars
  BY <1>0, <1>12 DEF vars, AllGuarded, Guarded, Owned, present
<1> QED
  BY <1>4, <1>5, <1>6, <1>8, <1>9, <1>10, <1>11, <1>12 DEF Next

\* No order of role changes, deactivations, removals and invitations leaves a
\* team without an active owner (guardedMemberWrite): where a transaction is
\* one step always, and under the row locks of pgstore until a member row is
\* written on an outdated read.
THEOREM OwnerAlways == Spec => []HasOwner
<1> DEFINE S == isolation = "serializable" => SerialInv
           L == isolation = "readCommitted" => LockInv
<1>1. Init => L
  BY TypeInit, IdleType DEF Init, LockInv, AllGuarded, Guarded, Owned
<1>2. L /\ [Next]_vars => L'
  BY LockStep, Rigid
<1>3. S /\ L => HasOwner
  BY DEF SerialInv, LockInv, Owned, HasOwner
<1> QED BY <1>1, <1>2, <1>3, SerialAlways, PTL DEF Spec

=============================================================================
