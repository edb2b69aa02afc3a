------------------------------- MODULE MemStore -------------------------------
(***************************************************************************)
(* memstore: a table is a map from ids to rows, a map from the values of a *)
(* unique column to ids, and lists of ids by the columns rows are listed   *)
(* by, all behind one mutex. A method says what it does to each of them. A *)
(* read through an index or a list that finds no row dereferences nil.     *)
(***************************************************************************)
EXTENDS Rows, Sequences

\* The two lists of a member are in maps of their own, byTeamID and byUserID;
\* one function from both columns' values stands for them.
ASSUME MemStoreAssumption == Owners \cap Keys = {}

Listers == Owners \cup Keys \cup {NoUuid}

\* rows and index are Go maps. A list is there, empty, before it is used.
EmptyMemory == [rows |-> [i \in {} |-> NoArg], index |-> [k \in {} |-> NoArg], lists |-> [o \in Listers |-> <<>>]]

\* A method: what it does; the secondary maps it keeps, by the column; the
\* check it makes first, or whether a list is read without one; what it sets;
\* and what it returns: an error or none, nothing ever, or a number.
Method(do, maps, check, set, reply) ==
    [do |-> do, maps |-> maps, check |-> check, set |-> set, reply |-> reply]

\* Creating looks at the ids, at the keys, at neither or at both.
Creates(checks, maps) == Method("create", maps, checks, "row", "error")
Puts(set) == Method("put", {}, {}, set, "error")
Gets == Method("get", {"id"}, {}, "row", "error")
Looks == Method("get", {"key"}, {}, "row", "error")
Lists(column) == Method("list", {column}, {}, "row", "error")
ListsTrusting(column, only) == Method("list", {column}, {"trusting", only}, "row", "error")
Edits(check, set, maps) == Method("edit", maps, check, set, "error")
EditsCounting(check, set) == Method("edit", {}, check, set, "number")
MarksAll(reply) == Method("mark all", {"owner"}, {"unmarked"}, "mark", reply)
Deletes(maps, reply) == Method("delete", maps, {}, "row", reply)
Does(do) == Method(do, {}, {}, "row", "error")

-----------------------------------------------------------------------------
Panic == Answer("panic", {}, 0, FALSE)

Keeps(m, answer) == [table |-> m, answer |-> answer]

Bind(f, k, v) == [x \in DOMAIN f \cup {k} |-> IF x = k THEN v ELSE f[x]]
Unbind(f, S) == [x \in DOMAIN f \ S |-> f[x]]

\* The column a list goes by: a member's two are its team and its user.
ListKey(r, column) == IF column = "owner" THEN r.owner ELSE r.key

\* removeID: a list without the first place that holds the id. The lists that
\* slices.DeleteFunc cuts hold an id once, too.
Cut(l, i) ==
    LET at == CHOOSE k \in 1..Len(l) : l[k] = i /\ \A j \in 1..(k - 1) : l[j] # i
    IN IF \E k \in 1..Len(l) : l[k] = i THEN SubSeq(l, 1, at - 1) \o SubSeq(l, at + 1, Len(l)) ELSE l

\* A plausible bug: the user's list keeps the id of a row that is gone.
ForgetsUser(lists, r, columns) ==
    [o \in Listers |-> IF "owner" \in columns /\ o = r.owner THEN Cut(lists[o], r.id) ELSE lists[o]]

\* The ids of a row appended to its lists, or cut out of them; a member
\* without a user is in no user's list.
Appended(lists, r, columns) ==
    [o \in Listers |-> IF \E col \in columns : o = ListKey(r, col) THEN Append(lists[o], r.id) ELSE lists[o]]

Removed(lists, r, columns) ==
    [o \in Listers |-> IF \E col \in columns : o = ListKey(r, col) THEN Cut(lists[o], r.id) ELSE lists[o]]

Stored(m, r, maps) ==
    [rows |-> Bind(m.rows, r.id, r),
     index |-> IF "key" \in maps THEN Bind(m.index, r.key, r.id) ELSE m.index,
     lists |-> Appended(m.lists, r, maps \cap {"owner", "user"})]

Dropped(m, r, maps) ==
    [rows |-> Unbind(m.rows, {r.id}),
     index |-> IF "key" \in maps THEN Unbind(m.index, {r.key}) ELSE m.index,
     lists |-> Removed(m.lists, r, maps \cap {"owner", "user"})]

\* The ids a list holds, and their rows where they have one.
ListIds(m, column, c) == LET l == m.lists[IF column = "owner" THEN c.owner ELSE c.key] IN {l[k] : k \in 1..Len(l)}
RowsOf(m, ids) == {m.rows[i] : i \in ids \cap DOMAIN m.rows}

\* A list is as old as its rows were appended.
OldestFirst(m, l) ==
    \A j, k \in 1..Len(l) : {l[j], l[k]} \subseteq DOMAIN m.rows /\ j < k => m.rows[l[j]].born <= m.rows[l[k]].born

MemCreate(method, m, c) ==
    IF \/ "id" \in method.check /\ c.id \in DOMAIN m.rows
       \/ "key" \in method.check /\ c.key \in DOMAIN m.index
      THEN Keeps(m, Conflict)
      ELSE [table |-> Stored(m, RowOf(c), method.maps), answer |-> Done]

\* One assignment to the map; a row that is there keeps its CreatedAt, if
\* asked to.
MemPut(method, m, c) ==
    LET r == IF method.set = "val" /\ c.id \in DOMAIN m.rows THEN [RowOf(c) EXCEPT !.born = m.rows[c.id].born]
             ELSE RowOf(c)
    IN [table |-> Stored(m, r, {}), answer |-> Done]

MemGet(method, m, c) ==
    LET i == IF method.maps = {"id"} THEN c.id ELSE m.index[c.key]
    IN CASE method.maps = {"key"} /\ c.key \notin DOMAIN m.index -> Keeps(m, NotFound)
         [] method.maps = {"key"} /\ c.key \in DOMAIN m.index /\ i \notin DOMAIN m.rows -> Keeps(m, Panic)
         [] OTHER -> Keeps(m, Found(RowsOf(m, {i})))

MemList(method, m, c) ==
    LET column == CHOOSE col \in {"owner", "user"} : col \in method.maps
        ids == ListIds(m, column, c)
        those == {r \in RowsOf(m, ids) : "live" \in method.check => r.mark = 0 /\ r.exp > c.now}
    IN IF "trusting" \in method.check /\ ~ids \subseteq DOMAIN m.rows THEN Keeps(m, Panic)
       ELSE Keeps(m, Listed(those, OldestFirst(m, m.lists[IF column = "owner" THEN c.owner ELSE c.key])))

\* check: only an unmarked row. The row replaced whole is indexed again, if
\* the store does so.
MemEdit(method, m, c) ==
    LET those == {r \in RowsOf(m, {c.id}) : "unmarked" \in method.check => r.mark = 0}
        r == Assigned(CHOOSE x \in those : TRUE, method.set, c)
        edited == [m EXCEPT !.rows = Bind(@, r.id, r),
                            !.index = IF "key" \in method.maps THEN Bind(@, r.key, r.id) ELSE @]
    IN IF those = {} THEN Keeps(m, IF method.reply = "number" /\ method.set = "mark" THEN Counted(0) ELSE NotFound)
       ELSE [table |-> edited,
             answer |-> IF method.reply = "error" THEN Done ELSE Counted(IF method.set = "hits" THEN r.hits ELSE 1)]

MemMarkAll(method, m, c) ==
    LET ids == ListIds(m, "owner", c)
        those == {r \in RowsOf(m, ids) : r.mark = 0}
        edited == [i \in DOMAIN m.rows |-> IF m.rows[i] \in those THEN Assigned(m.rows[i], "mark", c) ELSE m.rows[i]]
    IN IF ~ids \subseteq DOMAIN m.rows THEN Keeps(m, Panic)
       ELSE [table |-> [m EXCEPT !.rows = edited],
             answer |-> IF method.reply = "number" THEN Counted(Cardinality(those)) ELSE Done]

MemDelete(method, m, c) ==
    IF c.id \notin DOMAIN m.rows THEN Keeps(m, IF method.reply = "error" THEN NotFound ELSE Done)
    ELSE [table |-> Dropped(m, m.rows[c.id], method.maps), answer |-> Done]

\* The rows of an owner's list, their index entries and the list.
MemClear(m, c) ==
    LET those == RowsOf(m, ListIds(m, "owner", c))
    IN [table |-> [rows |-> Unbind(m.rows, {r.id : r \in those}),
                   index |-> Unbind(m.index, {r.key : r \in those}),
                   lists |-> [m.lists EXCEPT ![c.owner] = <<>>]],
        answer |-> Done]

\* From the end of the list, the first row that is there.
MemNewest(m, c) ==
    LET l == m.lists[c.owner]
        there == {k \in 1..Len(l) : l[k] \in DOMAIN m.rows}
    IN IF there = {} THEN Keeps(m, NotFound)
       ELSE Keeps(m, Found({m.rows[l[CHOOSE k \in there : \A j \in there : j <= k]]}))

AllRows(m) == RowsOf(m, DOMAIN m.rows)

MemCall(method, m, c) ==
    CASE method.do = "create" -> MemCreate(method, m, c)
      [] method.do = "put" -> MemPut(method, m, c)
      [] method.do = "get" -> MemGet(method, m, c)
      [] method.do = "list" -> MemList(method, m, c)
      [] method.do = "edit" -> MemEdit(method, m, c)
      [] method.do = "mark all" -> MemMarkAll(method, m, c)
      [] method.do = "delete" -> MemDelete(method, m, c)
      [] method.do = "clear" -> MemClear(m, c)
      [] method.do = "newest" -> MemNewest(m, c)
      [] method.do = "take" -> [MemDelete(Deletes({}, "error"), m, c)
                                  EXCEPT !.answer = Found(RowsOf(m, {c.id}))]
      [] method.do = "pair" -> Keeps(m, Found({r \in RowsOf(m, ListIds(m, "user", c)) : r.owner = c.owner}))
      [] method.do = "exists" -> Keeps(m, Counted(Cardinality({c.id} \cap DOMAIN m.rows)))
      [] method.do = "everything" -> Keeps(m, Listed(AllRows(m), FALSE))
      [] method.do = "count" -> Keeps(m, Counted(Cardinality(AllRows(m))))
      [] method.do = "recent" ->
           Keeps(m, Counted(Cardinality({r \in AllRows(m) : r.owner = c.owner /\ r.born > c.born})))
      [] method.do = "sweep" ->
           [table |-> [m EXCEPT !.rows = Unbind(@, {r.id : r \in {x \in AllRows(m) : x.owner = c.owner}})],
            answer |-> Done]

-----------------------------------------------------------------------------
MemUsers ==
    [CreateUser |-> Creates({"key"}, {"key"}), GetUserByID |-> Gets, GetUserByEmail |-> Looks,
     UpdateUser |-> Edits({}, "row", {})]

MemRefreshTokens ==
    [CreateRefreshToken |-> Creates({}, {"key", "owner"}), GetRefreshTokenByHash |-> Looks,
     RevokeRefreshToken |-> Edits({}, "mark", {}),
     ConsumeRefreshToken |-> EditsCounting({"unmarked"}, "mark"),
     TouchRefreshToken |-> Edits({"unmarked"}, "exp", {}),
     RevokeAllUserRefreshTokens |-> MarksAll("nothing"),
     ListActiveRefreshTokens |-> ListsTrusting("owner", "live")]

MemResetTokens ==
    [CreatePasswordResetToken |-> Creates({}, {"key", "owner"}), GetPasswordResetTokenByHash |-> Looks,
     MarkPasswordResetTokenUsed |-> Edits({}, "mark", {}), DeleteUserPasswordResetTokens |-> Does("clear")]

MemVerificationTokens ==
    [CreateEmailVerificationToken |-> Creates({}, {"key", "owner"}), GetEmailVerificationTokenByHash |-> Looks,
     MarkEmailVerificationTokenUsed |-> Edits({}, "mark", {}),
     DeleteUserEmailVerificationTokens |-> Does("clear")]

MemTotp ==
    [CreateTOTPSettings |-> Creates({"id"}, {}), GetTOTPSettingsByUserID |-> Gets,
     UpdateTOTPSettings |-> Edits({}, "row", {}), DeleteTOTPSettings |-> Deletes({}, "nothing")]

MemPending ==
    [CreatePendingTwoFactorSession |-> Creates({}, {"key"}), GetPendingTwoFactorSessionByHash |-> Looks,
     DeletePendingTwoFactorSession |-> Deletes({"key"}, "nothing")]

\* A slice of attempts, in no order that matters.
MemAttempts ==
    [RecordFailedLoginAttempt |-> Creates({}, {}), CountRecentFailedLoginAttempts |-> Does("recent"),
     ClearFailedLoginAttempts |-> Does("sweep")]

MemLocks ==
    [LockAccount |-> Puts("row"), IsAccountLocked |-> Does("exists"), UnlockAccount |-> Deletes({}, "nothing")]

MemAccounts ==
    [CreateAccount |-> Creates({"key"}, {"key", "owner"}), GetAccount |-> Gets, GetAccountByProvider |-> Looks,
     ListAccountsByUser |-> Lists("owner"), UpdateAccount |-> Edits({}, "row", {"key"}),
     DeleteAccount |-> Deletes({"key", "owner"}, "error")]

MemCredentials ==
    [CreateWebAuthnCredential |-> Creates({"key"}, {"key", "owner"}), GetWebAuthnCredential |-> Gets,
     GetWebAuthnCredentialByCredentialID |-> Looks, ListWebAuthnCredentialsByUser |-> Lists("owner"),
     UpdateWebAuthnCredential |-> Edits({}, "row", {"key"}),
     DeleteWebAuthnCredential |-> Deletes({"key", "owner"}, "error")]

MemChallenges ==
    [CreateWebAuthnChallenge |-> Creates({"id"}, {}), ConsumeWebAuthnChallenge |-> Does("take")]

MemEmailLogin ==
    [CreateEmailLoginToken |-> Creates({}, {"key", "owner"}), GetEmailLoginTokenByHash |-> Looks,
     GetEmailLoginTokenByEmail |-> Does("newest"), MarkEmailLoginTokenUsed |-> Edits({"unmarked"}, "mark", {}),
     IncrementEmailLoginTokenAttempts |-> EditsCounting({}, "hits"), DeleteEmailLoginTokens |-> Does("clear")]

MemPats ==
    [CreatePersonalAccessToken |-> Creates({}, {"key", "owner"}), GetPersonalAccessToken |-> Gets,
     GetPersonalAccessTokenByHash |-> Looks, ListPersonalAccessTokensByUser |-> ListsTrusting("owner", "any"),
     UpdatePersonalAccessToken |-> Edits({}, "row", {})]

\* The two unique columns are indexed alike.
MemDevices ==
    [CreateDeviceAuthorization |-> Creates({}, {"key"}), GetDeviceAuthorizationByDeviceCodeHash |-> Looks,
     GetDeviceAuthorizationByUserCode |-> Looks, UpdateDeviceAuthorization |-> Edits({}, "row", {}),
     DeleteDeviceAuthorization |-> Deletes({"key"}, "nothing")]

MemPins ==
    [SetPINCredential |-> Puts("val"), GetPINCredential |-> Gets, DeletePINCredential |-> Deletes({}, "nothing")]

MemBoundDevices ==
    [CreateBoundDevice |-> Creates({"id", "key"}, {"key", "owner"}), GetBoundDevice |-> Gets,
     GetBoundDeviceByTokenHash |-> Looks, ListBoundDevicesByUser |-> ListsTrusting("owner", "any"),
     TouchBoundDevice |-> Edits({"unmarked"}, "val", {}), RevokeBoundDevice |-> Edits({}, "coalesce", {}),
     RevokeAllBoundDevices |-> MarksAll("number")]

MemTeams ==
    [CreateTeam |-> Creates({"key"}, {"key"}), GetTeam |-> Gets, GetTeamBySlug |-> Looks,
     UpdateTeam |-> Edits({}, "row", {}), DeleteTeam |-> Deletes({"key"}, "error")]

\* No index: the pair is looked for in the user's list.
MemMembers ==
    [CreateMember |-> Creates({}, {"owner", "user"}), GetMember |-> Gets, GetMemberByUserAndTeam |-> Does("pair"),
     ListMembersByTeam |-> Lists("owner"), ListMembershipsByUser |-> ListsTrusting("user", "any"),
     UpdateMember |-> Edits({}, "row", {}), DeleteMember |-> Deletes({"owner", "user"}, "error")]

MemInvitations ==
    [CreateInvitation |-> Creates({}, {"key", "owner"}), GetInvitation |-> Gets,
     GetInvitationByTokenHash |-> Looks, ListInvitationsByTeam |-> ListsTrusting("owner", "any"),
     UpdateInvitation |-> Edits({}, "row", {})]

MemSuperusers ==
    [CreateSuperuser |-> Creates({"key"}, {"key"}), GetSuperuserByID |-> Gets, GetSuperuserByEmail |-> Looks,
     ListSuperusers |-> Does("everything"), UpdateSuperuser |-> Edits({}, "row", {}),
     CountSuperusers |-> Does("count")]

MemSuperuserTokens ==
    [CreateSuperuserRefreshToken |-> Creates({}, {"key", "owner"}), GetSuperuserRefreshTokenByHash |-> Looks,
     RevokeSuperuserRefreshToken |-> Edits({}, "mark", {}),
     ConsumeSuperuserRefreshToken |-> EditsCounting({"unmarked"}, "mark"),
     RevokeAllSuperuserRefreshTokens |-> MarksAll("nothing"),
     ListActiveSuperuserRefreshTokens |-> ListsTrusting("owner", "live")]

\* SuperuserTwoFactorStore delegates to stores of its own.
MemSuperuserTotp ==
    [CreateSuperuserTOTPSettings |-> MemTotp.CreateTOTPSettings,
     GetSuperuserTOTPSettings |-> MemTotp.GetTOTPSettingsByUserID,
     UpdateSuperuserTOTPSettings |-> MemTotp.UpdateTOTPSettings,
     DeleteSuperuserTOTPSettings |-> MemTotp.DeleteTOTPSettings]

MemSuperuserPending ==
    [CreateSuperuserPendingTwoFactorSession |-> MemPending.CreatePendingTwoFactorSession,
     GetSuperuserPendingTwoFactorSessionByHash |-> MemPending.GetPendingTwoFactorSessionByHash,
     DeleteSuperuserPendingTwoFactorSession |-> MemPending.DeletePendingTwoFactorSession]

Mem ==
    [users |-> MemUsers, refresh |-> MemRefreshTokens, reset |-> MemResetTokens,
     verification |-> MemVerificationTokens, totp |-> MemTotp, pending |-> MemPending,
     attempts |-> MemAttempts, locks |-> MemLocks, accounts |-> MemAccounts,
     credentials |-> MemCredentials, challenges |-> MemChallenges, emailLogin |-> MemEmailLogin,
     pats |-> MemPats, devices |-> MemDevices, pins |-> MemPins, bound |-> MemBoundDevices,
     teams |-> MemTeams, members |-> MemMembers, invitations |-> MemInvitations,
     superusers |-> MemSuperusers, superuserRefresh |-> MemSuperuserTokens,
     superuserTotp |-> MemSuperuserTotp, superuserPending |-> MemSuperuserPending]
=============================================================================
