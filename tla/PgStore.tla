------------------------------- MODULE PgStore -------------------------------
(***************************************************************************)
(* pgstore: a method runs the query of its name and turns what it yields   *)
(* into what the port returns. Ids are uuid columns: a method with an id   *)
(* to look up asks isID first, or the driver would fail to encode it.      *)
(***************************************************************************)
EXTENDS PgQueries

\* mapErr: the query's own answer, its errors translated. affected: no row
\* affected is store.ErrNotFound. n: the number of rows affected.
Always(as) == [guarded |-> FALSE, otherwise |-> Broken, as |-> as]
IfID(otherwise, as) == [guarded |-> TRUE, otherwise |-> otherwise, as |-> as]

\* A plausible bug: an update of no row is no error.
Unaffected(as, seen) == IF as = "n" THEN Counted(Cardinality(seen)) ELSE Done

Affected(as, seen) ==
    CASE as = "affected" -> Hit(seen) [] as = "n" -> Counted(Cardinality(seen)) [] OTHER -> Done

PgReply(query, as, out) ==
    IF out.refused THEN Conflict
    ELSE CASE query.yields \in {"nothing", "affected"} -> Affected(as, out.seen)
           [] query.yields = "one" -> Found(out.seen)
           [] query.yields = "number" -> Number(query.q, out.seen)
           [] query.yields = "many" -> Listed(out.seen, TRUE)

PgCall(method, query, rows, c) ==
    LET out == Run(rows, query.q, c)
    IN IF MalformedId(c)
         THEN [table |-> rows, answer |-> IF method.guarded THEN method.otherwise ELSE Broken]
         ELSE [table |-> out.table, answer |-> PgReply(query, method.as, out)]

-----------------------------------------------------------------------------
PgUsers ==
    [CreateUser |-> Always("mapErr"),
     GetUserByID |-> IfID(NotFound, "mapErr"),
     GetUserByEmail |-> Always("mapErr"),
     UpdateUser |-> IfID(NotFound, "affected")]

PgRefreshTokens ==
    [CreateRefreshToken |-> Always("mapErr"),
     GetRefreshTokenByHash |-> Always("mapErr"),
     RevokeRefreshToken |-> IfID(NotFound, "affected"),
     ConsumeRefreshToken |-> IfID(Counted(0), "n"),
     TouchRefreshToken |-> IfID(NotFound, "affected"),
     RevokeAllUserRefreshTokens |-> IfID(Done, "mapErr"),
     ListActiveRefreshTokens |-> IfID(Listed({}, TRUE), "mapErr")]

PgResetTokens ==
    [CreatePasswordResetToken |-> Always("mapErr"),
     GetPasswordResetTokenByHash |-> Always("mapErr"),
     MarkPasswordResetTokenUsed |-> IfID(NotFound, "affected"),
     DeleteUserPasswordResetTokens |-> IfID(Done, "mapErr")]

PgVerificationTokens ==
    [CreateEmailVerificationToken |-> Always("mapErr"),
     GetEmailVerificationTokenByHash |-> Always("mapErr"),
     MarkEmailVerificationTokenUsed |-> IfID(NotFound, "affected"),
     DeleteUserEmailVerificationTokens |-> IfID(Done, "mapErr")]

PgTotp ==
    [CreateTOTPSettings |-> Always("mapErr"),
     GetTOTPSettingsByUserID |-> IfID(NotFound, "mapErr"),
     UpdateTOTPSettings |-> IfID(NotFound, "affected"),
     DeleteTOTPSettings |-> IfID(Done, "mapErr")]

PgPending ==
    [CreatePendingTwoFactorSession |-> Always("mapErr"),
     GetPendingTwoFactorSessionByHash |-> Always("mapErr"),
     DeletePendingTwoFactorSession |-> IfID(Done, "mapErr")]

PgAttempts ==
    [RecordFailedLoginAttempt |-> Always("mapErr"),
     CountRecentFailedLoginAttempts |-> Always("mapErr"),
     ClearFailedLoginAttempts |-> Always("mapErr")]

PgLocks ==
    [LockAccount |-> Always("mapErr"),
     IsAccountLocked |-> IfID(Counted(0), "mapErr"),
     UnlockAccount |-> IfID(Done, "mapErr")]

PgAccounts ==
    [CreateAccount |-> Always("mapErr"),
     GetAccount |-> IfID(NotFound, "mapErr"),
     GetAccountByProvider |-> Always("mapErr"),
     ListAccountsByUser |-> IfID(Listed({}, TRUE), "mapErr"),
     UpdateAccount |-> IfID(NotFound, "affected"),
     DeleteAccount |-> IfID(NotFound, "affected")]

PgCredentials ==
    [CreateWebAuthnCredential |-> Always("mapErr"),
     GetWebAuthnCredential |-> IfID(NotFound, "mapErr"),
     GetWebAuthnCredentialByCredentialID |-> Always("mapErr"),
     ListWebAuthnCredentialsByUser |-> IfID(Listed({}, TRUE), "mapErr"),
     UpdateWebAuthnCredential |-> IfID(NotFound, "affected"),
     DeleteWebAuthnCredential |-> IfID(NotFound, "affected")]

PgChallenges ==
    [CreateWebAuthnChallenge |-> Always("mapErr"),
     ConsumeWebAuthnChallenge |-> Always("mapErr")]

PgEmailLogin ==
    [CreateEmailLoginToken |-> Always("mapErr"),
     GetEmailLoginTokenByHash |-> Always("mapErr"),
     GetEmailLoginTokenByEmail |-> Always("mapErr"),
     MarkEmailLoginTokenUsed |-> IfID(NotFound, "affected"),
     IncrementEmailLoginTokenAttempts |-> IfID(NotFound, "mapErr"),
     DeleteEmailLoginTokens |-> Always("mapErr")]

PgPats ==
    [CreatePersonalAccessToken |-> Always("mapErr"),
     GetPersonalAccessToken |-> IfID(NotFound, "mapErr"),
     GetPersonalAccessTokenByHash |-> Always("mapErr"),
     ListPersonalAccessTokensByUser |-> IfID(Listed({}, TRUE), "mapErr"),
     UpdatePersonalAccessToken |-> IfID(NotFound, "affected")]

PgDevices ==
    [CreateDeviceAuthorization |-> Always("mapErr"),
     GetDeviceAuthorizationByDeviceCodeHash |-> Always("mapErr"),
     GetDeviceAuthorizationByUserCode |-> Always("mapErr"),
     UpdateDeviceAuthorization |-> IfID(NotFound, "affected"),
     DeleteDeviceAuthorization |-> IfID(Done, "mapErr")]

PgPins ==
    [SetPINCredential |-> Always("mapErr"),
     GetPINCredential |-> IfID(NotFound, "mapErr"),
     DeletePINCredential |-> IfID(Done, "mapErr")]

PgBoundDevices ==
    [CreateBoundDevice |-> Always("mapErr"),
     GetBoundDevice |-> IfID(NotFound, "mapErr"),
     GetBoundDeviceByTokenHash |-> Always("mapErr"),
     ListBoundDevicesByUser |-> IfID(Listed({}, TRUE), "mapErr"),
     TouchBoundDevice |-> IfID(NotFound, "affected"),
     RevokeBoundDevice |-> IfID(NotFound, "affected"),
     RevokeAllBoundDevices |-> IfID(Counted(0), "n")]

PgTeams ==
    [CreateTeam |-> Always("mapErr"),
     GetTeam |-> IfID(NotFound, "mapErr"),
     GetTeamBySlug |-> Always("mapErr"),
     UpdateTeam |-> IfID(NotFound, "affected"),
     DeleteTeam |-> IfID(NotFound, "affected")]

PgMembers ==
    [CreateMember |-> Always("mapErr"),
     GetMember |-> IfID(NotFound, "mapErr"),
     GetMemberByUserAndTeam |-> IfID(NotFound, "mapErr"),
     ListMembersByTeam |-> IfID(Listed({}, TRUE), "mapErr"),
     ListMembershipsByUser |-> IfID(Listed({}, TRUE), "mapErr"),
     UpdateMember |-> IfID(NotFound, "affected"),
     DeleteMember |-> IfID(NotFound, "affected")]

PgInvitations ==
    [CreateInvitation |-> Always("mapErr"),
     GetInvitation |-> IfID(NotFound, "mapErr"),
     GetInvitationByTokenHash |-> Always("mapErr"),
     ListInvitationsByTeam |-> IfID(Listed({}, TRUE), "mapErr"),
     UpdateInvitation |-> IfID(NotFound, "affected")]

PgSuperusers ==
    [CreateSuperuser |-> Always("mapErr"),
     GetSuperuserByID |-> IfID(NotFound, "mapErr"),
     GetSuperuserByEmail |-> Always("mapErr"),
     ListSuperusers |-> Always("mapErr"),
     UpdateSuperuser |-> IfID(NotFound, "affected"),
     CountSuperusers |-> Always("mapErr")]

PgSuperuserTokens ==
    [CreateSuperuserRefreshToken |-> Always("mapErr"),
     GetSuperuserRefreshTokenByHash |-> Always("mapErr"),
     RevokeSuperuserRefreshToken |-> IfID(NotFound, "affected"),
     ConsumeSuperuserRefreshToken |-> IfID(Counted(0), "n"),
     RevokeAllSuperuserRefreshTokens |-> IfID(Done, "mapErr"),
     ListActiveSuperuserRefreshTokens |-> IfID(Listed({}, TRUE), "mapErr")]

PgSuperuserTotp ==
    [CreateSuperuserTOTPSettings |-> Always("mapErr"),
     GetSuperuserTOTPSettings |-> IfID(NotFound, "mapErr"),
     UpdateSuperuserTOTPSettings |-> IfID(NotFound, "affected"),
     DeleteSuperuserTOTPSettings |-> IfID(Done, "mapErr")]

PgSuperuserPending ==
    [CreateSuperuserPendingTwoFactorSession |-> Always("mapErr"),
     GetSuperuserPendingTwoFactorSessionByHash |-> Always("mapErr"),
     DeleteSuperuserPendingTwoFactorSession |-> IfID(Done, "mapErr")]

Pg ==
    [users |-> PgUsers, refresh |-> PgRefreshTokens, reset |-> PgResetTokens,
     verification |-> PgVerificationTokens, totp |-> PgTotp, pending |-> PgPending,
     attempts |-> PgAttempts, locks |-> PgLocks, accounts |-> PgAccounts,
     credentials |-> PgCredentials, challenges |-> PgChallenges, emailLogin |-> PgEmailLogin,
     pats |-> PgPats, devices |-> PgDevices, pins |-> PgPins, bound |-> PgBoundDevices,
     teams |-> PgTeams, members |-> PgMembers, invitations |-> PgInvitations,
     superusers |-> PgSuperusers, superuserRefresh |-> PgSuperuserTokens,
     superuserTotp |-> PgSuperuserTotp, superuserPending |-> PgSuperuserPending]
=============================================================================
