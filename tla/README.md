# authit in TLA+

authit is a Go library for authentication: a host embeds its services, gives
them stores, and calls them from its own handlers. The library has no process
of its own. What makes it hard is that any number of the host's requests run
through one service at the same time, that each reads rows, decides, and writes
rows back, and that a transaction around the writes is optional. The models
here are about that: requests whose store calls interleave, fail half way, or
act on what they read too long ago.

Every module is translated from the code. `PROJECT.json` maps each definition to
the lines it stands for.

## 1. Inventory

### 1.1 How the parts fit together

Services (`user`, `team`, `emaillogin`, `device`, `pin`, `passkey`, `oidc`,
`pat`, `superuser`) keep no state: their state is rows behind the interfaces of
`store`. Three packages implement those interfaces, `memstore` under a mutex and
`pgstore` and `sqlitestore` with one statement per method, so **one store method
is one atomic step**. Several steps are one only inside `store.RunInTx`, which
runs its function in the host's `TxRunner`, or plainly when `Stores.Tx` is nil.
`memstore` offers no transaction, `sqlitestore` a serializable one (`BEGIN
IMMEDIATE`), and `pgstore` READ COMMITTED (pgstore.go:91-97): there a statement
works on the rows that are committed when it starts, waits for those another
transaction has written, and never sees the rows that one inserts. Most store writes that are not compare-
and-sets write a whole row, so a row read before another request's write and
written after it takes that write back.

Services call each other in few places: `team` revokes a removed member's
sessions in the refresh-token table, `emaillogin`, `device`, `oidc` and `passkey`
end in a session that the host asks `user` for (`IssueSession`), the second
factor and the password share one failure counter, and `user`, `pin`,
`emaillogin`, `device` and `superuser` ask a rate limiter. In front of all of it
stands `authithttp`, which turns cookies and headers into calls.

| component | state | operations | hard behaviour | what makes it correct |
|---|---|---|---|---|
| sessions (`user`) | refresh-token rows: user, team, parent, `RevokedAt`, `ExpiresAt` | issue, Refresh, SwitchTeam, ValidateSession with sliding extension, Logout, revoke one, others or all, reset, reuse response | rotation racing rotation or bulk revocation; crash between consume and create; late extension | a token is spent once, a family never forks, what was ended stays ended |
| second factor (`user`) | TOTP settings with backup codes, pending tokens, failure counter | begin, confirm, disable, regenerate, Authenticate, VerifyTwoFactorLogin; the operator's ResetTwoFactor and Unlock | whole-row write of stale settings, check-then-record of guesses, read outside the transaction | guesses are metered, codes and pending tokens work once, it stays on until it is turned off |
| accounts (`user`) | user row, reset and verification tokens, operator lock | Register, ChangePassword, ResetPassword, VerifyEmail, rehash | lost updates of the user row, a reset token used twice, a reset that dies half way | a reset spends its link and ends the sessions from before it, a session waits for verification |
| email sign-in | link and code rows: used, attempts, expiry | request, redeem link, redeem code, sign up | guess racing burn, redeem racing redeem, sign-up losing the address | one sign-in per credential, a spent budget is final, a spent credential signed someone in |
| device grants | grant row: status, interval, last poll, expiry | start, approve, deny, poll | overlapping polls, decisions and polls writing the same row, ignored errors | one delivery, a denial holds, polling ends |
| PIN | credential row, attempt rows | set, import, clear, lock, sign in, bound devices | concurrent guesses, rehash of a row that was cleared, a device bound by a sign-in under way | the guess budget; who was cleared and had the devices ended stays out |
| teams | team, member and invitation rows | create, change, remove, leave, invite, revoke, accept | last-owner and seat checks under READ COMMITTED, stale member rows, half-done accepts | an owner always, an accepted invitation made its member (seats: not on `pgstore`, section 3) |
| superuser plane | superuser rows, own sessions and second factor | bootstrap, create, sign in, refresh, deactivate, revoke, 2FA settings | whole-row write after deactivation, rotation racing a replay | a deactivated operator stays out, a family has one credential |
| personal access tokens | token rows | create, revoke, resolve | resolve writes back the row it read | a revoked token stays revoked |
| OIDC | accounts rows that link an identity to a user | complete, link, unlink | sign-up in two writes, a link found free by two requests, last-credential check | every link is proven, a user keeps a credential |
| passkeys | challenges, credentials with counter and clone flag | begin, finish, rename, remove | a credential row written whole from a copy, last-credential check | evidence of a clone is kept, a user keeps a credential |
| rate limiter | token buckets under a cap | allow, evict, reset | full table, clock read outside the lock | forgetting a bucket changes no decision |
| HTTP middleware | the browser's session and double-submit cookies | validate, slide, clear, mint, check origin | answers that arrive out of order | a sign-in is kept, forms of one's own pages pass |
| stores | one table per port, three implementations | 108 methods | guards, row counts and errors read in different ways; index and lists that must agree | each answers as the port promises |
| authz, jwt, crypto, audit | none that changes | predicates, encodings, output | - | out of scope of a state model |

### 1.2 What a test hardly reaches

The list with its lines is `hazards` in `PROJECT.json`. Most of it falls into five kinds:
check-then-act with nothing held in between (guess counters, seats, last owner,
last credential); whole-row writes of stale rows (settings, members, grants,
users, operators, passkeys, tokens); single-use credentials whose check and spend
are two steps; several writes that a crash may cut in two when no transaction is
there; lists that are stale before the loop over them ends. Two are of another
kind: answers that reach a browser in another order than they were given, and
three stores that must answer alike after any sequence of calls.

## 2. Modules

| module | models | main state |
|---|---|---|
| `Sessions` | `user` sessions, `memstore/refresh_tokens.go`, and the end of team sessions in `team/members.go` | `isolation`, `sess`, `issued`, `revoked`, `age`, `active` (memberships), `req` |
| `SessionFamilies` | what `Sessions` promises: one credential per sign-in at a time, over is over | `used`, `family` |
| `Pin` | `pin/pin.go`, its stores and the attempt counter | `cred`, `att`, `charged`, `revoked` (devices) |
| `Team` | `team/*.go` and its store, with row locks | `row`, `inv`, `req`, `held` locks |
| `Device` | `device/device.go` and its store, with a clock | grant rows, polls, deciders, `now` |
| `EmailLogin` | `emaillogin/flow.go` and its store | token rows, the user, `req` |
| `TwoFactor` | `user/twofactor.go`, Authenticate, their stores | `totp`, `pending`, `failures`, `call` |
| `Account` | `user`: register, sign in, passwords, verification, lock | the users row, mailed links, failures, `req` |
| `Superuser` | `superuser` and its stores; implements `SessionFamilies` | `isolation`, operator rows, tokens, settings, pending, `req` |
| `Oidc` | `oidc/flow.go` | `acct` (links), `user`, `oreq` |
| `Passkey` | `passkey/ceremony.go`; EXTENDS `Oidc`: one set of users, two kinds of credential | `cred`, `chal`, `preq` |
| `RateLimit`, `Pat`, `Browser` | `ratelimit`, `pat`, `authithttp` with one browser | buckets; token rows; cookies and pages |
| `Gateway` | the three above, side by side | the state of each |
| `Rows` | a table, the calls on it, and the SQL the stores use | |
| `StorePorts` | `store` and `storetest`: what each method promises | |
| `SqliteStore`, `PgQueries` + `PgStore`, `MemStore` | the three implementations | |
| `Stores` | a table in the hands of all four | `promised`, `sqlite`, `postgres`, `memory` |
| `SessionsProofs`, `TeamProofs`, `AccountProofs` | theorems about the module named | |
| `GuessProofs` | theorems about `Pin` and `TwoFactor` | |
| `CodeProofs` | theorems about `EmailLogin` and `Device` | |
| `PasskeyProofs`, `GatewayProofs` | theorems about `Oidc` and `Passkey`, and about the three parts of `Gateway` | |
| `ContractProofs` | theorems about `Superuser`, and about the three implementations in `Stores` | |
| `MC...` | the same module with its bounds and symmetry for TLC; `MCAccount` runs `Account` and `TwoFactor`, one at a time | |

The form is the same everywhere. A request is a record with a program counter
`pc` and what it has read; a handler is its entry action, named after the method
and guarded by the checks made before its first write, and one action per later
store call, named after that call. A store method is an operator of its own and
carries the store's name, so that what a compare-and-set refuses is visible in
one place. What `RunInTx` gives is a variable that `Init` chooses and no step
changes, so that one run covers the deployments.

- Where other requests can tell the isolation levels apart, the variable is
  `isolation`: in `Sessions`, `Superuser` and `Team`. `"none"` is a nil
  `Stores.Tx`, with one action per store call. `"serializable"` makes the body of
  `RunInTx` one action. At `"readCommitted"` the body is as many actions as it
  has statements that wait or look, its writes appear at the last one, and an
  `UPDATE` of several rows is two actions: the rows it finds, and the write of all
  of them.
- In `EmailLogin`, `TwoFactor`, `Account` and `Oidc` it is a Boolean (`conf.hasTx`,
  `hasTx`). There the body of a transaction decides nothing on a row it reads
  inside, other than by the condition of an `UPDATE` or `DELETE` that names one row,
  which PostgreSQL evaluates again on the newest version when it has waited; so
  the step of the model is the commit, at READ COMMITTED too. A sign-in that reads
  the old row between a reset's last statement and its commit is, in `Account`,
  one that had read it before the step. What a Refresh does beside the reset is in
  `Sessions`.

`CutOff` ends a
request anywhere: it stands for a store error, a cancelled context and a dead
process alike, all of which leave the rows as the last completed step left them.
Refusals by the rate limiter, a host's hook or a validator change nothing and
are the request that is not made. Variables marked *history* are read by
properties only.

Names are values: a token, code or PIN is presented by whoever holds it, which
abstracts hashing and randomness. Time is an age per row in `Sessions` (fresh,
within the sliding window, expired), ticks of a clock in `Device` and `Pin`, an
`Expire` action in `EmailLogin` and `TwoFactor`.

Operators whose comment begins "A plausible bug" are not part of a
specification. Each is a changed form of the definition that follows it, and the
runs were repeated with that form in place to see the property fail.

### Sessions

`Refresh`, `SwitchTeam` and `ValidateSession` read a row and leave the request
holding it. What spends it and creates the next is `RotateInTx` on a serializable
store; `Consume` and then `issueSession` without a TxRunner, each a write of its
own; and the same two at READ COMMITTED, where they are the wait for the consumed
row and the commit of both. A consume that finds the row revoked goes to
`revokeFamilyOnReuse`, which revokes every row of the user. A bulk revocation and
the end of a membership (`DeactivateList`, `ListTeam`, `DeactivateCommit`) are
at READ COMMITTED a step that finds rows and one that writes them, and a row
inserted in between is not written. `requireActiveMembership` and `CheckTarget`
are the team checks at the places the code makes them. `RevokeAllSessions`,
`RevokeOtherSessions` and `endTeamSessions` list and then revoke row by row.
`root` and `parent` of a row record which sign-in and which token it came from;
`crossed` are the families a rotation of which overlapped such an `UPDATE`, and
`late` those whose team session expired while a request was working with it.
`Modes` are the token modes (JWT with refresh, opaque sessions) of the services
on the table; both use the same rows.

### Team

`isolation` is as in `Sessions`; at READ COMMITTED the `FOR UPDATE` of
ListMembersByTeam locks the rows it returns and no others, and a request that has
waited for them sees their newest version. `guardedMemberWrite` is one path for
role change, activation and removal, as in the code. `stale` records whether a
member row was ever written on a read that another request had outdated.

### Pin

`chargeAttempt` is three steps, count, record and recount, as it is in the code,
which calls no transaction. `Guesses(k, T)` are the attempts under a key that
were admitted, not refunded, and made in the LockDuration up to `T`. ImportPINHash
may store a weak hash, which sends a sign-in through `rehashIfNeeded`, a write of
the credential it read. A sign-in that succeeds binds a device, named by it.
`cleared` are the users whose PIN ClearPIN removed while no sign-in had such a
write before it, and `shut` those of them whose devices were ended after that while
no sign-in had yet to bind one; SetPIN and ImportPINHash take a user out of both.

### Device

A poll reads the row, then answers and writes what it read, changed; a decider
(Approve or Deny) does the same. Any write of a poll may be lost, since the code
ignores those errors. `lost` records a lost delete, and `denied` the denials
written while no other request held a copy of the row.

### EmailLogin

`issue` deletes, takes its time and then creates, so two requests may create their
rows in the other order than they took their times. A token's number is its place
in the order of times, and `place` where the store puts it: by `CreatedAt` in the
SQL stores, by insertion in memory, which `conf.byTime` chooses. A wrong code is
counted, and burned in a second call; `consume` marks the token with a
compare-and-set, then signs in or signs up. In a transaction a failed sign-up takes
the mark back.

### TwoFactor

One user within one FailedLoginWindow, and the operator's `ResetTwoFactor`,
`DeleteTOTPSettings` and `TUnlock`. The settings a request has read are part
of its state, because it writes them back. `bought`, `used` and `tries` count
completed logins per pending token and per backup code, and recorded wrong codes
since the last completed login or Unlock. `overlap` records whether a request has
ever begun while another was under way. The names that begin with T, and `call`
for a request, keep this module apart from `Account`, which it is run beside.

### Account

One users row, `[pw, verified]`, is enough for every lost update there is.
`rehashIfNeeded`, `ChangeWrite`, `SetPassword`, `VerifyWrite` and `MarkRow` write the
request's copy of it, changed, and `overtaken` records that another write had come
in between. `fails` counts failed sign-ins in two halves of the window, `Tick` passes
half a window. Of the sessions it keeps only whether one from before the last reset
lives, and one from after it. `setBy` are the links that have set a password, and
`halfDone` that a reset set its password and then died, or lost its link to a newer
request for one.

### Superuser

The operator plane repeats the user plane's rotation and second factor with one
more whole-row write: `StampLogin` and `VerifyStamp` write LastLoginAt into the row
read at the start. Rotation, replay and Deactivate's bulk revocation have the three
isolations of `Sessions`. `overtaken` are the operators `Deactivate` wrote while a
request that was to write the row held a copy, `crossed` those a rotation of whom
committed during the `UPDATE` of their sessions. `OperatorFamilies` is the abstract
specification of `Sessions` again, with its own mapping.

### Oidc and Passkey

A user is its address. `Complete` looks for the link and then goes one of three
ways: `refreshAccount` writes the row it read, `GetUserByEmail` and `Link` trust the
address, `SignUp...` creates a user and its link. `vouched` are the links whose
owner was proven, `raced` and `praced` the users two of whose credentials of one
kind were being removed at once. In `Passkey` an assertion brings any counter the
bound allows, as the key's holder or a copy of it may; `Scopes` splits the run into
the combinations of requests that can meet.

### RateLimit, Pat, Browser and Gateway

In `RateLimit` a tick is 1/Interval of a unit of budget, so that the fractional
tokens of the code are whole numbers. Allow's clock is read in a step of its own,
since the code reads it before the lock. In `Browser` a request carries what the
jar held when it was sent and its answer says what to do to the jar, and answers
arrive in any order, so `Deliver` is where the properties are at stake. The
double-submit cookie is SameSite=Strict unless the host says otherwise
(csrf.go:113-115), so a visit through a link on another site may come without it
and its answer then makes a new one over it: `outrun` are the pages asked for before
such an answer arrived. The three
share no state and never meet, so `Gateway` runs one at a time in one run.

### The stores

`Rows` has the shape of a row (id, unique column, the column it is listed by,
contents, stamp, expiry, attempts, age), of a call and of an answer, and the part
of SQL the stores use: an insert, and selects, updates and deletes by one column
under one condition. `StorePorts` gives each of the 108 methods of 23 tables a
promise. `SqliteStore` and `PgQueries` give each its statement, `SqliteStore` and
`PgStore` the helper that turns rows and row counts into an answer and the guard
on malformed ids, `MemStore` what it does to the map, the index and the lists.
`Stores` makes every legal call on all four, and compares, in every state, what each
would answer to every call. What is legal:

- a row's id is new, since ids are random, except where the id is the owner's;
- two rows of one owner are not created at the same instant where age matters;
- a user is added to a team once: the port is silent on the second row, SQL
  refuses it, and memory keeps both;
- an id that is no uuid may be looked up and not created, and a whole-row update
  does not change a unique column.

Two differences remain outside the comparison. The in-memory store lists by
insertion and SQL by `created_at`, so rows inserted out of that order are left out
(`InOrder`): it concerns the newest email login and the order of bound devices and of
operator sessions. What a sign-in by code makes of the first is in `EmailLogin`. And only bound devices promise to keep the instant of the
first revocation; elsewhere a caller sees whether a row is revoked.

## 3. Runs

A run passes when TLC exhausts the instance. `CHECK_DEADLOCK FALSE` stands where an
instance can run out of names or time, and a host may stop calling; the other
runs check it.

| run | asks | bounds |
|---|---|---|
| `sessions` | is a token spent once, does a family stay single, is revocation final; with a TxRunner, do a reset, the reuse response and the end of a membership end everything they cover, and does the table implement `SessionFamilies`? | 1 user, 1 team, 3 tokens, 2 requests, both token modes, all three isolations. With a TxRunner 1 crash, and no sliding extension; without one no crash, since a request that stands still is as good as one (1.5 million states) |
| `pin` | are concurrent guesses within the budget in every window, does a user who was cleared and lost the devices stay out? | 3 attempts, budget 2, 2 instants, a known and an unknown login, 2 PINs, 1 operator (3.6 million) |
| `team` | an owner always, closed invitations, at every isolation | serializable: 3 members, 3 users, 2 invitations, 2 requests; else 2 members, 2 users, 1 invitation, up to the first write on an outdated read |
| `device` | one delivery, lasting denials, an end to polling | 1 grant, 1 poll and 2 decisions at a time, TTL 2, 5 instants |
| `email` | one sign-in per credential, none spent for nothing, none by a burned or superseded code | 3 credentials, 2 requests, 2 guesses, all eight configurations |
| `account` | is a reset whole, does a session wait for verification; are second factors metered, codes and pending tokens spent for good, does two-factor stay on until it is turned off? | 2 requests; 2 passwords, 1 link, budget 1; 2 pending tokens, 2 sets of codes, 2 failures; all configurations (3.2 million) |
| `superuser` | is deactivation final, does the plane implement `SessionFamilies`? | 1 operator, 3 tokens, 1 pending token, 2 requests, all three isolations (1 million) |
| `passkey` | are links proven, does a user keep a credential, is clone evidence kept? | 2 users, 2 identities, 2 links, 2 keys, counters to 2, 2 requests (0.9 million) |
| `gateway` | is the limiter exact, is a revoked token refused, does a browser keep its sign-in, do its forms pass? | 3 keys for 2 buckets, burst 2, 4 instants; 2 tokens, 2 calls; 2 sessions, 3 form tokens, 2 requests, 3 set-ups |
| `stores` | does each store answer every call as promised? | 3 ids, 3 keys, 2 owners, 2 contents, 3 instants, every table |
| `sessions_pg` (violation) | does a password reset end every session at READ COMMITTED? | as `sessions`, one mode, no crash |
| `team_seats_pg` (violation) | is the seat limit kept at READ COMMITTED? | as `team`, 2 seats |

The last two show where a comment promises more than `pgstore` keeps.

- `ForcesReLogin`: "Every other session for the user is revoked, forcing re-login
  everywhere else" (user/password.go:105-107). A Refresh has consumed its row and not
  committed; the reset's `UPDATE` waits for that row, finds it revoked, and never sees
  the row the Refresh has inserted. That session outlives the reset.
- `SeatLimit`: "a seat limit is actually enforceable rather than advisory under
  concurrency" (team/service.go:55-58). Of two accepts the second waits for the first
  one's row locks and then counts the members of its own snapshot, which lacks the row
  the first has inserted. On a serializable store the accept is one step and the count
  right by construction.

Two requests suffice for the races the code can have: each hazard is one
request's check against another's write, and a third can only do to the second
what the second does to the first. Three tokens let a rotation be followed by
another, which is where a family could fork a second time, and three email
credentials let a used code stand between an older and a newer one. Seats and
members are chosen so that one accept more than allowed fits in the table of `team_seats_pg`. Three
limiter keys for two buckets make every admission of a new key an eviction or a
refusal. Three rows in a store let a statement select one of an owner's, another
of the owner's and one of somebody else's. Where a bound might hide something,
the theorems of section 5 hold without it.

Several properties carry a condition, and the condition is what the code needs.
Dropped, TLC shows what happens otherwise:

| property | condition | without it |
|---|---|---|
| `EndedStaysEnded` | a TxRunner, and at READ COMMITTED no rotation of the session that commits during the `UPDATE` (`crossed`) | a Refresh between consume and create survives ResetPassword |
| `TeamSessionsOver` | the same, and no session that expired while a request was working with it (`late`) | a Refresh past its membership check rotates a row that has expired since, which the end of the membership passed over |
| `ShutOut` | no sign-in had yet to write a rehash when the PIN was removed, or to bind a device when the devices were ended | the rehash restores the PIN ClearPIN removed, and the next sign-in binds a device |
| `HasOwner` | at READ COMMITTED, no write on an outdated read | a stale member row takes back a promotion and leaves no owner |
| `OneDelivery` | one poll at a time, whose delete is not lost | overlapping polls are both given the user |
| `DenialHolds` | nobody held a copy of the row | a poll writes a denied grant back as pending |
| `BurnedStaysBurned` | the burn has happened | a right guess between the last wrong one and its burn signs in |
| `NoOlderCode` | older and newer by the store's order | in memory, where the last created is the newest, a code signs in that took its time before one that has |
| `SecondFactorMetered`, `OnUntilDisabled` | requests one after another | concurrent guesses exceed MaxFailedLoginAttempts; a setup begun beside a confirmation turns two-factor off |
| `SpentForGood` (backup codes, pending tokens bought once) | requests one after another | one backup code, two logins; one pending token, two sessions, with a TxRunner too |
| `ResetIsWhole` | the reset did not die between its writes and its link was not deleted by a newer request; neither matters with a TxRunner | a crash leaves the link live, or the sessions |
| `SessionsAreVerified` | no write of an overtaken copy | a stale row takes the verification back |
| `DeactivationIsFinal` | a TxRunner, and no sign-in or password change that had read the row (`overtaken`); of the sessions, at READ COMMITTED no Refresh that commits during the `UPDATE` (`crossed`) | a login's LastLoginAt reactivates the operator; a Refresh leaves a session that cannot be refreshed |
| `KeepsACredential` | no two removals of a kind at once | both go, each while the other was listed |
| `CloneEvidence` | no write of an overtaken copy | a rename takes the flag or the counter back |
| `Metered` | no key whose bucket was dropped behind a caller's clock | it gets the time since twice |
| `RevokedIsRefused` | no Resolve between read and write | Resolve's LastUsedAt takes the revocation back |
| `KeepsSignIn` | no answer to an earlier request | a late 401 clears the new session's cookie |
| `FormsPass` | no visit without the double-submit cookie, a first one or one through a link on another site, answered since the page was asked for | a page shows a token the cookie lost |

Where a condition names a race, that race is a hazard the code is exposed to and the
property says how far it reaches: `hazards` names them with their lines.

Three more behaviours were met that no run states. `RevokeAllSessions` lists the
sessions and revokes them one by one, so a Refresh meanwhile keeps its new token,
with a TxRunner too. The last-owner check of `guardedMemberWrite`, which
team/service.go says "sqlitestore and pgstore both make ... hold under concurrency",
does not on `pgstore` once a row has been written on an outdated read (`stale`). And
"they can no longer sign in a new device" (pin/pin.go:89-90) fails for ClearPIN
beside a sign-in that has yet to write its rehash.

## 4. Fairness

Only liveness needs it, and one promise here is about liveness. `Device!FairSpec`
is weak fairness of answering a poll and of the clock, and strong fairness of
polling for each grant. A request the host has started runs on, which is what
Go's scheduler gives a goroutine that does not block on another, and store calls
return. The strong one is an assumption on the client: `PollingEnds` is about a
client that does not give up. It holds although every write a poll makes may be
lost, because expiry is read from the row. Everywhere else a request may stop at
any step, which the safety properties have to survive.

## 5. Proofs

Every theorem is about a specification as it is run, for every value of the
constants its module's assumption allows, and quantifies over deployments where
the specification does. Type correctness is proved of every module (`TypeCorrect`
and the theorems ending so) and left out of the table.

| theorem | property | in words | under |
|---|---|---|---|
| `SessionsProofs!TokensAreSingleUse` | `SingleUse` | a refresh token is exchanged once | any isolation |
| `FamiliesNeverFork` | `OneLivePerFamily` | a chain of rotations has one live token | any isolation |
| `RevocationIsFinal` | `RevokedIsFinal` | no step takes a revocation back | any isolation |
| `BulkRevocationIsComplete` | `EndedStaysEnded` | what a reset or reuse response has ended stays ended, and what a rotation under way makes of it | a TxRunner of either isolation, not `crossed` |
| `TeamSessionsEnd` | `TeamSessionsOver` | who left a team has no session in it | a TxRunner of either isolation, not `crossed` or `late` |
| `SessionsImplementFamilies` | `ImplementsFamilies` | refinement of `SessionFamilies` | a TxRunner of either isolation |
| `TeamProofs!OwnerAlways` | `HasOwner` | a team has an active owner | serializable, and READ COMMITTED until `stale` |
| `TeamSpentIsClosed`, `TeamAcceptedMadeMember` | `SpentIsClosed`, `AcceptedMadeMember` | an invitation redeemed is closed and made its member | every isolation |
| `GuessProofs!BudgetHolds` | `GuessBudget` | PIN guesses stay in budget in every window | concurrent requests |
| `ShutOutHolds` | `ShutOut` | who was cleared and lost the devices has none again until an operator sets a PIN | no rehash or device on its way then |
| `TwoFactorSpentForGood` | `SpentForGood` | codes and pending tokens work once | as conditioned |
| `TwoFactorMetered`, `TwoFactorOnUntilDisabled` | `SecondFactorMetered`, `OnUntilDisabled` | guesses are metered; only DisableTwoFactor and an operator's ResetTwoFactor turn it off | requests one after another |
| `CodeProofs!EmailLoginOneSignInEach` | `OneSignInEach` | a link or a code signs in once | any configuration |
| `EmailLoginBurnedStaysBurned`, `EmailLoginNoOlderCode` | `BurnedStaysBurned`, `NoOlderCode` | no sign-in by a burned code, or by one the store places before one that signed in | any configuration |
| `DeviceDenialHolds` | `DenialHolds` | a denial stands | nobody held a copy |
| `DeviceOneDelivery` | `OneDelivery` | a device code is delivered once | one poll at a time |
| `AccountProofs!AccountResetIsWhole` | `ResetIsWhole` | a reset that sets its password spends its link and ends the older sessions, and with a TxRunner none is half done | with and without a TxRunner |
| `AccountSessionsAreVerified` | `SessionsAreVerified` | a session waits for verification | until an overtaken write |
| `ContractProofs!SuperuserStaysOut` | `DeactivationIsFinal` | a deactivated operator stays inactive and without a session | a TxRunner of either isolation, not `overtaken`, sessions not `crossed` |
| `SuperuserImplementsFamilies` | `OperatorFamilies` | refinement of `SessionFamilies` | a TxRunner of either isolation |
| `SqliteIsConformant`, `PostgresIsConformant` | `SqliteAnswers`, `PostgresAnswers` | both SQL stores answer every call as promised | legal calls, one at a time |
| `MemoryIsConformant` | `MemoryAnswers` | so does the in-memory store, and never panics | the same; insertion order where age decides |
| `PasskeyProofs!PasskeyLinksAreProven` | `LinksAreProven` | an identity is linked once and on proof | any interleaving |
| `PasskeyKeepsACredential` | `KeepsACredential` | a user keeps a credential | no two removals of a kind at once |
| `PasskeyCloneEvidence` | `CloneEvidence` | flag and counter of a clone stay | no overtaken write |
| `GatewayProofs!GatewayMetered` | `Metered` | a key gets its burst and its refill | nobody behind a dropped bucket |
| `GatewayRevokedIsRefused` | `RevokedIsRefused` | a revoked access token is refused | no Resolve across the revocation |
| `GatewayKeepsSignIn`, `GatewayFormsPass` | `KeepsSignIn`, `FormsPass` | a sign-in survives reordered answers; forms pass | as conditioned |

The conditions in the last column are those of section 3: where a property
carries its condition, the theorem is about the property as it is checked. The
histories `crossed`, `late`, `cleared` and the operator plane's `overtaken` are kept per
family, user or operator: they excuse the one that met the race and no other.

The assumptions on constants are named in the module that declares them
(`SessionsAssumption` and so on) and say only that bounds are naturals, that
sets which must have a member have one, and that the values that stand for an
absent row, copy or argument are outside the sets they stand beside.

There are fewer proof modules than components. `GuessProofs` is about `Pin` and
`TwoFactor`, `CodeProofs` about `EmailLogin` and `Device`, `PasskeyProofs` about
`Oidc` too, `GatewayProofs` about its three parts, `ContractProofs` about
`Superuser` and `Stores`.

### The inductive invariants

Most of them have one shape: what a request is known to hold at each program
counter (`Ready`, `Sound`, `Guarded`), what no two requests hold at once, and
what is true of each row. A lemma then says that a step which moves one request
and leaves the rest keeps the first, and only the steps that write rows need the
others.

**Sessions.** `TypeInv` adds to `TypeOK` that a row's root is an issued row and
that a request holding a token holds an issued one; without it a step could read
a row that does not exist. `SingleUse` and `OneLivePerFamily` are not inductive:
a request between consume and create holds the right to one more row. `FamilyInv`
says who has it: `Lineage` (a parent is revoked and in the same family) and
`IssueInv`. While a request is between its two writes, no row of its family is
unrevoked but, at READ COMMITTED, the one whose lock it holds; no row has its token
as parent, and no other request is there for that family. On a serializable store no
request is ever there. `EndedInv` needs that a family has one user (`OneUser`), and of
an `UPDATE` under way that it has found every row of the families it ends, but those
that are `crossed` (`Found`). `MemberInv` follows each request to the end of the
membership: the row it holds is in time, or its family is `late` (`InTime`); a switch
at READ COMMITTED that has looked at a membership since ended is `crossed`
(`Looked`); and the end of a membership has listed every session in the team but
those excused (`Listed`). The refinement maps a family to the set of its unrevoked
rows; that a rotation replaces the whole of that set is `OneLivePerFamily`.

**Pin.** `GuessBudget` becomes inductive with `AdmittedPast`: an admitted attempt
was charged at an instant that has passed, so that the recount that admits
another one has counted every guess of the window. The count itself is
`Cardinality`, through the library's theorems on finite sets. `ShutOut` needs what no
request may still do: whoever is `cleared` has no PIN (`NoPIN`) and no sign-in that
would write one back (`NoWriteBack`), and whoever is `shut` no sign-in that would
bind a device (`NoDevice`).

**TwoFactor.** Which pending token a request knows (`KnowsToken`) holds whatever
races. That there is one request at a time, that the settings it will write back
are the stored ones and that no code it holds has been used (`OneAtATime`,
`InStep`, `CodesAreGood`) hold as long as nothing has overlapped, and `tries` stay
within the failures recorded.

**Team.** `TypeInv` adds that a request holds what its next step needs (`Ready`).
On a serializable store `NoneHalfway` (no request is between two writes of a
transaction) and `TeamFirst` (no member before the team) make the owner inductive.
Under row locks `LockInv` says that a request about to take an owner away holds the
lock of another owner's row (`AllGuarded`), which no other request can change
meanwhile. `InvitationInv` says who may close an invitation (`Closing`): without
a transaction a request that has made the member before, and with one the step
that makes it.

**EmailLogin and Device.** A credential signs in once because a row that has
signed in is marked or gone (`TokenIsSound`), and without a transaction the one
request that won the mark is known (`Apart`). `Ordered` says that a request standing at
a code has none after it in the store's order among the rows it has seen, for as long
as it stands there. A grant's copies are the other danger: `DeviceInv` says what copy a
poll or a decision may hold, and `DenialStands` that none holds one of a grant denied
in peace.

**Account.** `AllSound` says what an overtaken copy may be, and that whoever was let in
under EmailVerificationRequired had read a verified row. `OfSomebody` adds that links
and sessions belong to a row. `ResetIsWhole` is inductive beside these: every step is
shown to leave the requests that are between two writes of a reset (`Between`) where
they are, or to be one of their own.

**Superuser.** `Ready`, `Lineage` and `OneLive` repeat the argument of Sessions.
`StaysClosed` is the new part. From the moment Deactivate has written the row of an
operator that nobody held, the operator is inactive and no request that holds an active
copy, or has passed the check, is left (`Closed`), through its `UPDATE` of the sessions
(`Leaving`) and after. A step can then only take live tokens away, or exchange one, of
which `crossed` knows (`Steady`); so the `UPDATE` has found all there are.

**Oidc and Passkey.** `OSound` and `PSound` say that a request about to link has
the proof, and that the row it holds is as it read it, or gone; `OSpares` and
`PSpares` that a removal which nothing has come in between of leaves another
credential.

**Gateway.** For the limiter `Accounted`: what a key was let through and still
holds has come in by the time its bucket was refilled, and what a key without a
bucket was let through has come in by any clock a new bucket may be made at. That
is the reason why dropping a full bucket changes no decision. `PatInv` and `BInv`
say what a request or an answer under way may still write.

**Stores.** `SqlAsPromised` is that the rows of both SQL stores *are* the promised
rows, and that the table is tidy (an id names one row, a hash is its row's own).
`Keeping` is the form a statement must have to keep each of the 29 promises. 23
lemmas find that form in the 108 methods of SQLite, and the same statement with a
like reading of its result (`Alike`) in PostgreSQL; a lemma per promise shows that
a statement of that form does to a tidy table what is promised, and `MalformedDoes`
that the guards answer as the statement would have. `CallDoes` puts these
together, and `TidyStep` keeps the table tidy.

`MemoryAsPromised` is the same of memory: the promised rows are the ones in the row
map, and the index and the lists of the table hold the ids of the rows they should and
no other (`Agreed`), each id in a list once (`ListOf`). The last is what lets `removeID`
stop at the first place (`Cut`, whose effect on a list is `CutListOf`), and makes every
read that dereferences without a check safe. Three clauses keep it inductive: rows are
of ids in `made`, so that a new row is in no list yet; no two rows of an owner are as
old, without which the last of a list need not be the newest; and a lock says no more
than whose it is, so that LockAccount may overwrite one. `MemKeeping` is the form of a
method, as `Keeping` is of a statement; `AllMemKept` finds it in the 108 methods, and a
lemma per promise shows what a method of that form does. `MemStoreAssumption`, that
teams and users have different ids, is two Go maps put into one function.

### Left to TLC

`PollingEnds` is liveness under fairness, which is out of the prover's reach, as
is ENABLED. Every other property of a run is stated by a theorem. Nothing here needs
induction over data, and no module that is proved about has a recursive operator.

## 6. Not modelled

- `authz`, `jwt`, `audit`, and of `crypto` all but the backup codes: they keep no
  state that changes. Their results are inputs here.
- Of the SQL stores: migrations, column encodings, foreign keys with the `ON
  DELETE CASCADE` of a team, the pool, and the interleaving of statements; the
  last is in the service modules, as transactions. Each method of `Stores` runs alone, as in `storetest`.
- Of the operator plane: Impersonate (a signed claim, nothing stored), the guess
  counter, which is TwoFactor's code again, and token expiry.
- Of `pin`: ValidateDevice and ImportDevice; the store of bound devices is in `Stores`,
  where the table's two unique columns are one key.
- Of `pat`: the refusal of a lifetime beyond MaxExpiry when a token is created, so the
  model creates some the code would not.
- Of `authithttp`: bearer headers, the refresh cookie, and cookie attributes other than
  the double-submit cookie's SameSite.
- The audit trail, hooks that veto (they refuse, which changes nothing) and
  configuration defaults that no decision depends on.
- A revoked invitation that an accept had already read: the code does not look
  again, and the model lets it through. A login that read its settings before
  RegenerateBackupCodes writes the old set back; sign-ins that race past the first
  PIN count charge each other out. Both are in the models and no property says
  otherwise.
- `recordFailedLogin` is best effort: a guess whose record fails is not counted,
  in the code and so in `SecondFactorMetered`.

## 7. Plan

Done: sessions first, since every sign-in ends there and every revocation must
reach it; then the guess budget of PINs; teams; the single-use credentials of
device, email and second factor; accounts and the operator plane; OIDC and
passkeys; the gateway; the stores.

The safety and action properties of every component are proved; `PollingEnds` is
model-checked.

What a further model could add: the interleaving of statements inside a SQL store's
method with another's, and the `ON DELETE CASCADE` of a team (section 6), for which
`Stores` would need more than one table in a behaviour.
