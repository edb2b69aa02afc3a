----------------------------- MODULE SqliteStore -----------------------------
(***************************************************************************)
(* sqlitestore: a method is one statement, the helper that runs it and     *)
(* turns what the driver says into what the port returns, and what the     *)
(* method returns at once for an id that is no uuid.                       *)
(***************************************************************************)
EXTENDS Rows

\* The helpers a statement is run with: exec, execRow and execCount for a
\* write, one and collect for a query, scan for a query of one number.
ById(otherwise, helper, q) == [guarded |-> TRUE, otherwise |-> otherwise, helper |-> helper, q |-> q]
Via(helper, q) == [guarded |-> FALSE, otherwise |-> Broken, helper |-> helper, q |-> q]

\* A constraint that refuses is store.ErrConflict (mapErr); every query that
\* collects rows orders them by created_at, id.
Reply(method, out) ==
    LET helper == method.helper
    IN IF out.refused THEN Conflict
       ELSE CASE helper = "exec" -> Done
              [] helper = "execRow" -> Hit(out.seen)
              [] helper = "execCount" -> Counted(Cardinality(out.seen))
              [] helper = "scan" -> Number(method.q, out.seen)
              [] helper = "one" -> Found(out.seen)
              [] helper = "collect" -> Listed(out.seen, TRUE)

\* Ids are text, so that an unguarded statement would match nothing.
SqliteCall(method, rows, c) ==
    LET out == Run(rows, method.q, c)
    IN IF method.guarded /\ MalformedId(c) THEN [table |-> rows, answer |-> method.otherwise]
       ELSE [table |-> out.table, answer |-> Reply(method, out)]

-----------------------------------------------------------------------------
SqliteUsers ==
    [CreateUser |-> Via("exec", Insert("key")),
     GetUserByID |-> ById(NotFound, "one", Select("id", "any")),
     GetUserByEmail |-> Via("one", Select("key", "any")),
     UpdateUser |-> ById(NotFound, "execRow", Update("id", "any", "row"))]

SqliteRefreshTokens ==
    [CreateRefreshToken |-> Via("exec", Insert("key")),
     GetRefreshTokenByHash |-> Via("one", Select("key", "any")),
     RevokeRefreshToken |-> ById(NotFound, "execRow", Update("id", "any", "coalesce")),
     ConsumeRefreshToken |-> ById(Counted(0), "execCount", Update("id", "unmarked", "mark")),
     TouchRefreshToken |-> ById(NotFound, "execRow", Update("id", "unmarked", "exp")),
     RevokeAllUserRefreshTokens |-> ById(Done, "exec", Update("owner", "unmarked", "mark")),
     ListActiveRefreshTokens |-> ById(Listed({}, TRUE), "collect", Select("owner", "live"))]

SqliteResetTokens ==
    [CreatePasswordResetToken |-> Via("exec", Insert("key")),
     GetPasswordResetTokenByHash |-> Via("one", Select("key", "any")),
     MarkPasswordResetTokenUsed |-> ById(NotFound, "execRow", Update("id", "any", "mark")),
     DeleteUserPasswordResetTokens |-> ById(Done, "exec", Delete("owner"))]

SqliteVerificationTokens ==
    [CreateEmailVerificationToken |-> Via("exec", Insert("key")),
     GetEmailVerificationTokenByHash |-> Via("one", Select("key", "any")),
     MarkEmailVerificationTokenUsed |-> ById(NotFound, "execRow", Update("id", "any", "mark")),
     DeleteUserEmailVerificationTokens |-> ById(Done, "exec", Delete("owner"))]

SqliteTotp ==
    [CreateTOTPSettings |-> Via("exec", Insert("key")),
     GetTOTPSettingsByUserID |-> ById(NotFound, "one", Select("id", "any")),
     UpdateTOTPSettings |-> ById(NotFound, "execRow", Update("id", "any", "row")),
     DeleteTOTPSettings |-> ById(Done, "exec", Delete("id"))]

SqlitePending ==
    [CreatePendingTwoFactorSession |-> Via("exec", Insert("key")),
     GetPendingTwoFactorSessionByHash |-> Via("one", Select("key", "any")),
     DeletePendingTwoFactorSession |-> ById(Done, "exec", Delete("id"))]

SqliteAttempts ==
    [RecordFailedLoginAttempt |-> Via("exec", Insert("id")),
     CountRecentFailedLoginAttempts |-> Via("scan", Select("owner", "since")),
     ClearFailedLoginAttempts |-> Via("exec", Delete("owner"))]

SqliteLocks ==
    [LockAccount |-> Via("exec", [Insert("id") EXCEPT !.do = "insert or nothing"]),
     IsAccountLocked |-> ById(Counted(0), "scan", Select("id", "any")),
     UnlockAccount |-> ById(Done, "exec", Delete("id"))]

SqliteAccounts ==
    [CreateAccount |-> Via("exec", Insert("key")),
     GetAccount |-> ById(NotFound, "one", Select("id", "any")),
     GetAccountByProvider |-> Via("one", Select("key", "any")),
     ListAccountsByUser |-> ById(Listed({}, TRUE), "collect", Select("owner", "any")),
     UpdateAccount |-> ById(NotFound, "execRow", Update("id", "any", "row")),
     DeleteAccount |-> ById(NotFound, "execRow", Delete("id"))]

SqliteCredentials ==
    [CreateWebAuthnCredential |-> Via("exec", Insert("key")),
     GetWebAuthnCredential |-> ById(NotFound, "one", Select("id", "any")),
     GetWebAuthnCredentialByCredentialID |-> Via("one", Select("key", "any")),
     ListWebAuthnCredentialsByUser |-> ById(Listed({}, TRUE), "collect", Select("owner", "any")),
     UpdateWebAuthnCredential |-> ById(NotFound, "execRow", Update("id", "any", "row")),
     DeleteWebAuthnCredential |-> ById(NotFound, "execRow", Delete("id"))]

\* DELETE ... RETURNING.
SqliteChallenges ==
    [CreateWebAuthnChallenge |-> Via("exec", Insert("id")),
     ConsumeWebAuthnChallenge |-> Via("one", Delete("id"))]

SqliteEmailLogin ==
    [CreateEmailLoginToken |-> Via("exec", Insert("key")),
     GetEmailLoginTokenByHash |-> Via("one", Select("key", "any")),
     GetEmailLoginTokenByEmail |-> Via("one", Select("owner", "newest")),
     MarkEmailLoginTokenUsed |-> ById(NotFound, "execRow", Update("id", "unmarked", "mark")),
     IncrementEmailLoginTokenAttempts |-> ById(NotFound, "scan", Update("id", "any", "hits")),
     DeleteEmailLoginTokens |-> Via("exec", Delete("owner"))]

SqlitePats ==
    [CreatePersonalAccessToken |-> Via("exec", Insert("key")),
     GetPersonalAccessToken |-> ById(NotFound, "one", Select("id", "any")),
     GetPersonalAccessTokenByHash |-> Via("one", Select("key", "any")),
     ListPersonalAccessTokensByUser |-> ById(Listed({}, TRUE), "collect", Select("owner", "any")),
     UpdatePersonalAccessToken |-> ById(NotFound, "execRow", Update("id", "any", "row"))]

SqliteDevices ==
    [CreateDeviceAuthorization |-> Via("exec", Insert("key")),
     GetDeviceAuthorizationByDeviceCodeHash |-> Via("one", Select("key", "any")),
     GetDeviceAuthorizationByUserCode |-> Via("one", Select("key", "any")),
     UpdateDeviceAuthorization |-> ById(NotFound, "execRow", Update("id", "any", "row")),
     DeleteDeviceAuthorization |-> ById(Done, "exec", Delete("id"))]

\* INSERT ... ON CONFLICT DO UPDATE.
SqlitePins ==
    [SetPINCredential |-> Via("exec", [Insert("id") EXCEPT !.do = "upsert"]),
     GetPINCredential |-> ById(NotFound, "one", Select("id", "any")),
     DeletePINCredential |-> ById(Done, "exec", Delete("id"))]

SqliteBoundDevices ==
    [CreateBoundDevice |-> Via("exec", Insert("key")),
     GetBoundDevice |-> ById(NotFound, "one", Select("id", "any")),
     GetBoundDeviceByTokenHash |-> Via("one", Select("key", "any")),
     ListBoundDevicesByUser |-> ById(Listed({}, TRUE), "collect", Select("owner", "any")),
     TouchBoundDevice |-> ById(NotFound, "execRow", Update("id", "unmarked", "val")),
     RevokeBoundDevice |-> ById(NotFound, "execRow", Update("id", "any", "coalesce")),
     RevokeAllBoundDevices |-> ById(Counted(0), "execCount", Update("owner", "unmarked", "mark"))]

SqliteTeams ==
    [CreateTeam |-> Via("exec", Insert("key")),
     GetTeam |-> ById(NotFound, "one", Select("id", "any")),
     GetTeamBySlug |-> Via("one", Select("key", "any")),
     UpdateTeam |-> ById(NotFound, "execRow", Update("id", "any", "row")),
     DeleteTeam |-> ById(NotFound, "execRow", Delete("id"))]

SqliteMembers ==
    [CreateMember |-> Via("exec", Insert("pair")),
     GetMember |-> ById(NotFound, "one", Select("id", "any")),
     GetMemberByUserAndTeam |-> ById(NotFound, "one", Select("pair", "any")),
     ListMembersByTeam |-> ById(Listed({}, TRUE), "collect", Select("owner", "any")),
     ListMembershipsByUser |-> ById(Listed({}, TRUE), "collect", Select("key", "any")),
     UpdateMember |-> ById(NotFound, "execRow", Update("id", "any", "row")),
     DeleteMember |-> ById(NotFound, "execRow", Delete("id"))]

SqliteInvitations ==
    [CreateInvitation |-> Via("exec", Insert("key")),
     GetInvitation |-> ById(NotFound, "one", Select("id", "any")),
     GetInvitationByTokenHash |-> Via("one", Select("key", "any")),
     ListInvitationsByTeam |-> ById(Listed({}, TRUE), "collect", Select("owner", "any")),
     UpdateInvitation |-> ById(NotFound, "execRow", Update("id", "any", "row"))]

SqliteSuperusers ==
    [CreateSuperuser |-> Via("exec", Insert("key")),
     GetSuperuserByID |-> ById(NotFound, "one", Select("id", "any")),
     GetSuperuserByEmail |-> Via("one", Select("key", "any")),
     ListSuperusers |-> Via("collect", Select("all", "any")),
     UpdateSuperuser |-> ById(NotFound, "execRow", Update("id", "any", "row")),
     CountSuperusers |-> Via("scan", Select("all", "any"))]

SqliteSuperuserTokens ==
    [CreateSuperuserRefreshToken |-> Via("exec", Insert("key")),
     GetSuperuserRefreshTokenByHash |-> Via("one", Select("key", "any")),
     RevokeSuperuserRefreshToken |-> ById(NotFound, "execRow", Update("id", "any", "coalesce")),
     ConsumeSuperuserRefreshToken |-> ById(Counted(0), "execCount", Update("id", "unmarked", "mark")),
     RevokeAllSuperuserRefreshTokens |-> ById(Done, "exec", Update("owner", "unmarked", "mark")),
     ListActiveSuperuserRefreshTokens |-> ById(Listed({}, TRUE), "collect", Select("owner", "live"))]

\* The operators' settings and half-done sign-ins are the users' statements
\* on other tables.
SqliteSuperuserTotp ==
    [CreateSuperuserTOTPSettings |-> SqliteTotp.CreateTOTPSettings,
     GetSuperuserTOTPSettings |-> SqliteTotp.GetTOTPSettingsByUserID,
     UpdateSuperuserTOTPSettings |-> SqliteTotp.UpdateTOTPSettings,
     DeleteSuperuserTOTPSettings |-> SqliteTotp.DeleteTOTPSettings]

SqliteSuperuserPending ==
    [CreateSuperuserPendingTwoFactorSession |-> SqlitePending.CreatePendingTwoFactorSession,
     GetSuperuserPendingTwoFactorSessionByHash |-> SqlitePending.GetPendingTwoFactorSessionByHash,
     DeleteSuperuserPendingTwoFactorSession |-> SqlitePending.DeletePendingTwoFactorSession]

Sqlite ==
    [users |-> SqliteUsers, refresh |-> SqliteRefreshTokens, reset |-> SqliteResetTokens,
     verification |-> SqliteVerificationTokens, totp |-> SqliteTotp, pending |-> SqlitePending,
     attempts |-> SqliteAttempts, locks |-> SqliteLocks, accounts |-> SqliteAccounts,
     credentials |-> SqliteCredentials, challenges |-> SqliteChallenges, emailLogin |-> SqliteEmailLogin,
     pats |-> SqlitePats, devices |-> SqliteDevices, pins |-> SqlitePins, bound |-> SqliteBoundDevices,
     teams |-> SqliteTeams, members |-> SqliteMembers, invitations |-> SqliteInvitations,
     superusers |-> SqliteSuperusers, superuserRefresh |-> SqliteSuperuserTokens,
     superuserTotp |-> SqliteSuperuserTotp, superuserPending |-> SqliteSuperuserPending]
=============================================================================
