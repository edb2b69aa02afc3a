------------------------------ MODULE PgQueries ------------------------------
(***************************************************************************)
(* pgstore/internal/db: the queries of the PostgreSQL store, one module of *)
(* generated code per table: the statement and what running it yields.     *)
(***************************************************************************)
EXTENDS Rows

\* Nothing; the number of rows affected; the one row there must be; one
\* number; the rows, ordered by created_at, id.
Exec(q) == [yields |-> "nothing", q |-> q]
ExecRows(q) == [yields |-> "affected", q |-> q]
One(q) == [yields |-> "one", q |-> q]
Scalar(q) == [yields |-> "number", q |-> q]
Many(q) == [yields |-> "many", q |-> q]

UsersSql ==
    [CreateUser |-> Exec(Insert("key")),
     GetUserByID |-> One(Select("id", "any")),
     GetUserByEmail |-> One(Select("key", "any")),
     UpdateUser |-> ExecRows(Update("id", "any", "row"))]

RefreshTokensSql ==
    [CreateRefreshToken |-> Exec(Insert("key")),
     GetRefreshTokenByHash |-> One(Select("key", "any")),
     RevokeRefreshToken |-> ExecRows(Update("id", "any", "coalesce")),
     ConsumeRefreshToken |-> ExecRows(Update("id", "unmarked", "mark")),
     TouchRefreshToken |-> ExecRows(Update("id", "unmarked", "exp")),
     RevokeAllUserRefreshTokens |-> Exec(Update("owner", "unmarked", "mark")),
     ListActiveRefreshTokens |-> Many(Select("owner", "live"))]

ResetTokensSql ==
    [CreatePasswordResetToken |-> Exec(Insert("key")),
     GetPasswordResetTokenByHash |-> One(Select("key", "any")),
     MarkPasswordResetTokenUsed |-> ExecRows(Update("id", "any", "mark")),
     DeleteUserPasswordResetTokens |-> Exec(Delete("owner"))]

VerificationTokensSql ==
    [CreateEmailVerificationToken |-> Exec(Insert("key")),
     GetEmailVerificationTokenByHash |-> One(Select("key", "any")),
     MarkEmailVerificationTokenUsed |-> ExecRows(Update("id", "any", "mark")),
     DeleteUserEmailVerificationTokens |-> Exec(Delete("owner"))]

TotpSql ==
    [CreateTOTPSettings |-> Exec(Insert("key")),
     GetTOTPSettingsByUserID |-> One(Select("id", "any")),
     UpdateTOTPSettings |-> ExecRows(Update("id", "any", "row")),
     DeleteTOTPSettings |-> Exec(Delete("id"))]

PendingSql ==
    [CreatePendingTwoFactorSession |-> Exec(Insert("key")),
     GetPendingTwoFactorSessionByHash |-> One(Select("key", "any")),
     DeletePendingTwoFactorSession |-> Exec(Delete("id"))]

AttemptsSql ==
    [RecordFailedLoginAttempt |-> Exec(Insert("id")),
     CountRecentFailedLoginAttempts |-> Scalar(Select("owner", "since")),
     ClearFailedLoginAttempts |-> Exec(Delete("owner"))]

LocksSql ==
    [LockAccount |-> Exec([Insert("id") EXCEPT !.do = "insert or nothing"]),
     IsAccountLocked |-> Scalar(Select("id", "any")),
     UnlockAccount |-> Exec(Delete("id"))]

AccountsSql ==
    [CreateAccount |-> Exec(Insert("key")),
     GetAccount |-> One(Select("id", "any")),
     GetAccountByProvider |-> One(Select("key", "any")),
     ListAccountsByUser |-> Many(Select("owner", "any")),
     UpdateAccount |-> ExecRows(Update("id", "any", "row")),
     DeleteAccount |-> ExecRows(Delete("id"))]

CredentialsSql ==
    [CreateWebAuthnCredential |-> Exec(Insert("key")),
     GetWebAuthnCredential |-> One(Select("id", "any")),
     GetWebAuthnCredentialByCredentialID |-> One(Select("key", "any")),
     ListWebAuthnCredentialsByUser |-> Many(Select("owner", "any")),
     UpdateWebAuthnCredential |-> ExecRows(Update("id", "any", "row")),
     DeleteWebAuthnCredential |-> ExecRows(Delete("id"))]

\* DELETE ... RETURNING.
ChallengesSql ==
    [CreateWebAuthnChallenge |-> Exec(Insert("id")),
     ConsumeWebAuthnChallenge |-> One(Delete("id"))]

EmailLoginSql ==
    [CreateEmailLoginToken |-> Exec(Insert("key")),
     GetEmailLoginTokenByHash |-> One(Select("key", "any")),
     GetEmailLoginTokenByEmail |-> One(Select("owner", "newest")),
     MarkEmailLoginTokenUsed |-> ExecRows(Update("id", "unmarked", "mark")),
     IncrementEmailLoginTokenAttempts |-> Scalar(Update("id", "any", "hits")),
     DeleteEmailLoginTokens |-> Exec(Delete("owner"))]

PatsSql ==
    [CreatePersonalAccessToken |-> Exec(Insert("key")),
     GetPersonalAccessToken |-> One(Select("id", "any")),
     GetPersonalAccessTokenByHash |-> One(Select("key", "any")),
     ListPersonalAccessTokensByUser |-> Many(Select("owner", "any")),
     UpdatePersonalAccessToken |-> ExecRows(Update("id", "any", "row"))]

DevicesSql ==
    [CreateDeviceAuthorization |-> Exec(Insert("key")),
     GetDeviceAuthorizationByDeviceCodeHash |-> One(Select("key", "any")),
     GetDeviceAuthorizationByUserCode |-> One(Select("key", "any")),
     UpdateDeviceAuthorization |-> ExecRows(Update("id", "any", "row")),
     DeleteDeviceAuthorization |-> Exec(Delete("id"))]

\* INSERT ... ON CONFLICT DO UPDATE.
PinsSql ==
    [SetPINCredential |-> Exec([Insert("id") EXCEPT !.do = "upsert"]),
     GetPINCredential |-> One(Select("id", "any")),
     DeletePINCredential |-> Exec(Delete("id"))]

BoundDevicesSql ==
    [CreateBoundDevice |-> Exec(Insert("key")),
     GetBoundDevice |-> One(Select("id", "any")),
     GetBoundDeviceByTokenHash |-> One(Select("key", "any")),
     ListBoundDevicesByUser |-> Many(Select("owner", "any")),
     TouchBoundDevice |-> ExecRows(Update("id", "unmarked", "val")),
     RevokeBoundDevice |-> ExecRows(Update("id", "any", "coalesce")),
     RevokeAllBoundDevices |-> ExecRows(Update("owner", "unmarked", "mark"))]

TeamsSql ==
    [CreateTeam |-> Exec(Insert("key")),
     GetTeam |-> One(Select("id", "any")),
     GetTeamBySlug |-> One(Select("key", "any")),
     UpdateTeam |-> ExecRows(Update("id", "any", "row")),
     DeleteTeam |-> ExecRows(Delete("id"))]

MembersSql ==
    [CreateMember |-> Exec(Insert("pair")),
     GetMember |-> One(Select("id", "any")),
     GetMemberByUserAndTeam |-> One(Select("pair", "any")),
     ListMembersByTeam |-> Many(Select("owner", "any")),
     ListMembershipsByUser |-> Many(Select("key", "any")),
     UpdateMember |-> ExecRows(Update("id", "any", "row")),
     DeleteMember |-> ExecRows(Delete("id"))]

InvitationsSql ==
    [CreateInvitation |-> Exec(Insert("key")),
     GetInvitation |-> One(Select("id", "any")),
     GetInvitationByTokenHash |-> One(Select("key", "any")),
     ListInvitationsByTeam |-> Many(Select("owner", "any")),
     UpdateInvitation |-> ExecRows(Update("id", "any", "row"))]

SuperusersSql ==
    [CreateSuperuser |-> Exec(Insert("key")),
     GetSuperuserByID |-> One(Select("id", "any")),
     GetSuperuserByEmail |-> One(Select("key", "any")),
     ListSuperusers |-> Many(Select("all", "any")),
     UpdateSuperuser |-> ExecRows(Update("id", "any", "row")),
     CountSuperusers |-> Scalar(Select("all", "any"))]

SuperuserTokensSql ==
    [CreateSuperuserRefreshToken |-> Exec(Insert("key")),
     GetSuperuserRefreshTokenByHash |-> One(Select("key", "any")),
     RevokeSuperuserRefreshToken |-> ExecRows(Update("id", "any", "coalesce")),
     ConsumeSuperuserRefreshToken |-> ExecRows(Update("id", "unmarked", "mark")),
     RevokeAllSuperuserRefreshTokens |-> Exec(Update("owner", "unmarked", "mark")),
     ListActiveSuperuserRefreshTokens |-> Many(Select("owner", "live"))]

SuperuserTotpSql ==
    [CreateSuperuserTOTPSettings |-> Exec(Insert("key")),
     GetSuperuserTOTPSettings |-> One(Select("id", "any")),
     UpdateSuperuserTOTPSettings |-> ExecRows(Update("id", "any", "row")),
     DeleteSuperuserTOTPSettings |-> Exec(Delete("id"))]

SuperuserPendingSql ==
    [CreateSuperuserPendingTwoFactorSession |-> Exec(Insert("key")),
     GetSuperuserPendingTwoFactorSessionByHash |-> One(Select("key", "any")),
     DeleteSuperuserPendingTwoFactorSession |-> Exec(Delete("id"))]

Queries ==
    [users |-> UsersSql, refresh |-> RefreshTokensSql, reset |-> ResetTokensSql,
     verification |-> VerificationTokensSql, totp |-> TotpSql, pending |-> PendingSql,
     attempts |-> AttemptsSql, locks |-> LocksSql, accounts |-> AccountsSql,
     credentials |-> CredentialsSql, challenges |-> ChallengesSql, emailLogin |-> EmailLoginSql,
     pats |-> PatsSql, devices |-> DevicesSql, pins |-> PinsSql, bound |-> BoundDevicesSql,
     teams |-> TeamsSql, members |-> MembersSql, invitations |-> InvitationsSql,
     superusers |-> SuperusersSql, superuserRefresh |-> SuperuserTokensSql,
     superuserTotp |-> SuperuserTotpSql, superuserPending |-> SuperuserPendingSql]
=============================================================================
