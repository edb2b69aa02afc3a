----------------------------- MODULE StorePorts -----------------------------
(***************************************************************************)
(* What the store ports promise: the interfaces of the store package with  *)
(* the conformance suite of storetest. A port is a table of its methods,   *)
(* each with the promise the suite holds it to.                            *)
(***************************************************************************)
EXTENDS Rows

\* Creating a row under a key that is taken, where the port has such a key.
UserStore == [CreateUser |-> "create", GetUserByID |-> "get", GetUserByEmail |-> "getByKey",
              UpdateUser |-> "replace"]

RefreshTokenStore ==
    [CreateRefreshToken |-> "create", GetRefreshTokenByHash |-> "getByKey", RevokeRefreshToken |-> "revoke",
     ConsumeRefreshToken |-> "consume", TouchRefreshToken |-> "extend",
     RevokeAllUserRefreshTokens |-> "revokeAll", ListActiveRefreshTokens |-> "listLive"]

PasswordResetStore ==
    [CreatePasswordResetToken |-> "create", GetPasswordResetTokenByHash |-> "getByKey",
     MarkPasswordResetTokenUsed |-> "revoke", DeleteUserPasswordResetTokens |-> "clear"]

EmailVerificationStore ==
    [CreateEmailVerificationToken |-> "create", GetEmailVerificationTokenByHash |-> "getByKey",
     MarkEmailVerificationTokenUsed |-> "revoke", DeleteUserEmailVerificationTokens |-> "clear"]

TOTPStore ==
    [CreateTOTPSettings |-> "create", GetTOTPSettingsByUserID |-> "get", UpdateTOTPSettings |-> "replace",
     DeleteTOTPSettings |-> "forget"]

PendingTwoFactorStore ==
    [CreatePendingTwoFactorSession |-> "create", GetPendingTwoFactorSessionByHash |-> "getByKey",
     DeletePendingTwoFactorSession |-> "forget"]

AttemptStore ==
    [RecordFailedLoginAttempt |-> "create", CountRecentFailedLoginAttempts |-> "countSince",
     ClearFailedLoginAttempts |-> "clear"]

AccountLockStore ==
    [LockAccount |-> "ensure", IsAccountLocked |-> "exists", UnlockAccount |-> "forget"]

AccountStore ==
    [CreateAccount |-> "create", GetAccount |-> "get", GetAccountByProvider |-> "getByKey",
     ListAccountsByUser |-> "list", UpdateAccount |-> "replace", DeleteAccount |-> "remove"]

WebAuthnCredentialStore ==
    [CreateWebAuthnCredential |-> "create", GetWebAuthnCredential |-> "get",
     GetWebAuthnCredentialByCredentialID |-> "getByKey", ListWebAuthnCredentialsByUser |-> "list",
     UpdateWebAuthnCredential |-> "replace", DeleteWebAuthnCredential |-> "remove"]

WebAuthnChallengeStore ==
    [CreateWebAuthnChallenge |-> "create", ConsumeWebAuthnChallenge |-> "take"]

EmailLoginStore ==
    [CreateEmailLoginToken |-> "create", GetEmailLoginTokenByHash |-> "getByKey",
     GetEmailLoginTokenByEmail |-> "getNewest", MarkEmailLoginTokenUsed |-> "useOnce",
     IncrementEmailLoginTokenAttempts |-> "increment", DeleteEmailLoginTokens |-> "clear"]

PersonalAccessTokenStore ==
    [CreatePersonalAccessToken |-> "create", GetPersonalAccessToken |-> "get",
     GetPersonalAccessTokenByHash |-> "getByKey", ListPersonalAccessTokensByUser |-> "list",
     UpdatePersonalAccessToken |-> "replace"]

DeviceAuthorizationStore ==
    [CreateDeviceAuthorization |-> "create", GetDeviceAuthorizationByDeviceCodeHash |-> "getByKey",
     GetDeviceAuthorizationByUserCode |-> "getByKey", UpdateDeviceAuthorization |-> "replace",
     DeleteDeviceAuthorization |-> "forget"]

PINStore == [SetPINCredential |-> "set", GetPINCredential |-> "get", DeletePINCredential |-> "forget"]

BoundDeviceStore ==
    [CreateBoundDevice |-> "create", GetBoundDevice |-> "get", GetBoundDeviceByTokenHash |-> "getByKey",
     ListBoundDevicesByUser |-> "listOldestFirst", TouchBoundDevice |-> "touch",
     RevokeBoundDevice |-> "revoke", RevokeAllBoundDevices |-> "revokeAllCounting"]

TeamStore ==
    [CreateTeam |-> "create", GetTeam |-> "get", GetTeamBySlug |-> "getByKey", UpdateTeam |-> "replace",
     DeleteTeam |-> "remove"]

MemberStore ==
    [CreateMember |-> "create", GetMember |-> "get", GetMemberByUserAndTeam |-> "getByPair",
     ListMembersByTeam |-> "list", ListMembershipsByUser |-> "listByKey", UpdateMember |-> "replace",
     DeleteMember |-> "remove"]

InvitationStore ==
    [CreateInvitation |-> "create", GetInvitation |-> "get", GetInvitationByTokenHash |-> "getByKey",
     ListInvitationsByTeam |-> "list", UpdateInvitation |-> "replace"]

SuperuserStore ==
    [CreateSuperuser |-> "create", GetSuperuserByID |-> "get", GetSuperuserByEmail |-> "getByKey",
     ListSuperusers |-> "listAll", UpdateSuperuser |-> "replace", CountSuperusers |-> "countAll"]

SuperuserRefreshTokenStore ==
    [CreateSuperuserRefreshToken |-> "create", GetSuperuserRefreshTokenByHash |-> "getByKey",
     RevokeSuperuserRefreshToken |-> "revoke", ConsumeSuperuserRefreshToken |-> "consume",
     RevokeAllSuperuserRefreshTokens |-> "revokeAll",
     ListActiveSuperuserRefreshTokens |-> "listLiveOldestFirst"]

SuperuserTOTPStore ==
    [CreateSuperuserTOTPSettings |-> "create", GetSuperuserTOTPSettings |-> "get",
     UpdateSuperuserTOTPSettings |-> "replace", DeleteSuperuserTOTPSettings |-> "forget"]

SuperuserPendingStore ==
    [CreateSuperuserPendingTwoFactorSession |-> "create",
     GetSuperuserPendingTwoFactorSessionByHash |-> "getByKey",
     DeleteSuperuserPendingTwoFactorSession |-> "forget"]

Port ==
    [users |-> UserStore, refresh |-> RefreshTokenStore, reset |-> PasswordResetStore,
     verification |-> EmailVerificationStore, totp |-> TOTPStore, pending |-> PendingTwoFactorStore,
     attempts |-> AttemptStore, locks |-> AccountLockStore, accounts |-> AccountStore,
     credentials |-> WebAuthnCredentialStore, challenges |-> WebAuthnChallengeStore,
     emailLogin |-> EmailLoginStore, pats |-> PersonalAccessTokenStore,
     devices |-> DeviceAuthorizationStore, pins |-> PINStore, bound |-> BoundDeviceStore,
     teams |-> TeamStore, members |-> MemberStore, invitations |-> InvitationStore,
     superusers |-> SuperuserStore, superuserRefresh |-> SuperuserRefreshTokenStore,
     superuserTotp |-> SuperuserTOTPStore, superuserPending |-> SuperuserPendingStore]

Tables == DOMAIN Port

-----------------------------------------------------------------------------
\* What tells the tables apart, besides their methods. Naming: rows are named
\* by the hash of a secret, which no two rows share, or by what callers
\* choose and may repeat. Single: the id is the owner's own, so that there is
\* at most one row of each. Dated: when a row was created matters.
Hashed == {"refresh", "reset", "verification", "pending", "emailLogin", "pats", "devices", "invitations",
           "superuserRefresh", "superuserPending"}
Named == {"users", "accounts", "credentials", "bound", "teams", "superusers", "members"}
Single == {"totp", "locks", "challenges", "pins", "superuserTotp"}
Dated == {"refresh", "attempts", "emailLogin", "pins", "bound", "superuserRefresh"}
Expiring == {"refresh", "superuserRefresh"}
Owned == {"refresh", "reset", "verification", "attempts", "accounts", "credentials", "emailLogin", "pats",
          "bound", "members", "invitations", "superuserRefresh"}

\* A revocation of a bound device keeps the instant of the first one; of the
\* other tables only whether a row is marked is promised.
Stamped == {"bound"}

\* The rows creating one would duplicate.
Duplicates(t, rows, c) == {r \in rows : r.id = c.id \/ (t \in Named \ {"members"} /\ r.key = c.key)}

\* What a method does to the rows, by its promise.
Promise(t, promise, rows, c) ==
    LET this == {r \in rows : r.id = c.id}
        theirs == {r \in rows : r.owner = c.owner}
        named == {r \in rows : r.key = c.key}
        live == {r \in theirs : r.mark = 0 /\ r.exp > c.now}
        unmarked(S) == {r \in S : r.mark = 0}
        Keep(answer) == [table |-> rows, answer |-> answer]
        Without(S, answer) == [table |-> rows \ S, answer |-> answer]
        With(S, new, answer) == [table |-> (rows \ S) \cup new, answer |-> answer]
        marked(S) == {[r EXCEPT !.mark = c.at] : r \in unmarked(S)}
    IN CASE promise = "create" ->
              IF Duplicates(t, rows, c) = {} THEN With({}, {RowOf(c)}, Done) ELSE Keep(Conflict)
         [] promise = "set" ->
              With(this, {[RowOf(c) EXCEPT !.born = IF this = {} THEN @ ELSE (CHOOSE r \in this : TRUE).born]}, Done)
         [] promise = "ensure" -> IF this = {} THEN With({}, {RowOf(c)}, Done) ELSE Keep(Done)
         [] promise = "get" -> Keep(Found(this))
         [] promise = "getByKey" -> Keep(Found(named))
         [] promise = "getByPair" -> Keep(Found(named \cap theirs))
         [] promise = "getNewest" -> Keep(Found(Newest(theirs)))
         [] promise = "exists" -> Keep(Counted(Cardinality(this)))
         [] promise = "list" -> Keep(Listed(theirs, FALSE))
         [] promise = "listOldestFirst" -> Keep(Listed(theirs, TRUE))
         [] promise = "listByKey" -> Keep(Listed(named, FALSE))
         [] promise = "listAll" -> Keep(Listed(rows, FALSE))
         [] promise = "listLive" -> Keep(Listed(live, FALSE))
         [] promise = "listLiveOldestFirst" -> Keep(Listed(live, TRUE))
         [] promise = "countSince" -> Keep(Counted(Cardinality({r \in theirs : r.born > c.born})))
         [] promise = "countAll" -> Keep(Counted(Cardinality(rows)))
         [] promise = "replace" -> With(this, {[r EXCEPT !.val = c.val] : r \in this}, Hit(this))
         [] promise = "revoke" -> With(unmarked(this), marked(this), Hit(this))
         [] promise = "consume" -> With(unmarked(this), marked(this), Counted(Cardinality(unmarked(this))))
         [] promise = "useOnce" -> With(unmarked(this), marked(this), Hit(unmarked(this)))
         [] promise = "extend" -> With(unmarked(this), {[r EXCEPT !.exp = c.exp] : r \in unmarked(this)},
                                       Hit(unmarked(this)))
         [] promise = "touch" -> With(unmarked(this), {[r EXCEPT !.val = c.val] : r \in unmarked(this)},
                                      Hit(unmarked(this)))
         [] promise = "increment" ->
              With(this, {[r EXCEPT !.hits = @ + 1] : r \in this},
                   IF this = {} THEN NotFound ELSE Counted((CHOOSE r \in this : TRUE).hits + 1))
         [] promise = "revokeAll" -> With(unmarked(theirs), marked(theirs), Done)
         [] promise = "revokeAllCounting" ->
              With(unmarked(theirs), marked(theirs), Counted(Cardinality(unmarked(theirs))))
         [] promise = "take" -> Without(this, Found(this))
         [] promise = "remove" -> Without(this, Hit(this))
         [] promise = "forget" -> Without(this, Done)
         [] promise = "clear" -> Without(theirs, Done)
=============================================================================
