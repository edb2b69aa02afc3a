------------------------------ MODULE TwoFactor -------------------------------
(***************************************************************************)
(* The second factor of the user plane (user/twofactor.go) and the part of *)
(* Authenticate it stands on, for one user: the TOTP settings with their   *)
(* backup codes, the pending-2FA tokens, and the failed-login counter both *)
(* factors share, beside the operator who resets the one or clears the     *)
(* other. Every store call is a step of its own, except that the           *)
(* writes that complete a login are one step when Stores.Tx is set.        *)
(*                                                                         *)
(* A code presented is a TOTP code that is right for the settings read, a  *)
(* backup code, or a wrong code. The counter is looked at within one       *)
(* FailedLoginWindow, so no attempt ages out of it.                        *)
(***************************************************************************)
EXTENDS Naturals

CONSTANTS
    Calls,            \* concurrently running requests
    Pendings,         \* pending-2FA tokens (named bound)
    MaxBatches,       \* bound on sets of backup codes ever generated
    CodeCount,        \* Config.BackupCodeCount
    MaxFailedLogins,  \* Config.MaxFailedLoginAttempts
    Absent            \* no settings, no token

ASSUME TwoFactorAssumption ==
    /\ MaxBatches \in Nat
    /\ CodeCount \in Nat
    /\ MaxFailedLogins \in Nat \ {0}

\* A backup code: the set it was generated in, and its place there.
Codes == (1 .. MaxBatches) \X (1 .. CodeCount)

Settings == [on : BOOLEAN, codes : SUBSET Codes]

ASSUME AbsentAssumption == Absent \notin Settings \cup Pendings

VARIABLES
    hasTx,     \* whether Stores.Tx is set; it never changes
    totp,      \* the totp_settings row, or Absent
    batch,     \* sets of backup codes generated
    pending,   \* the pending-2FA tokens in the table
    failures,  \* rows of the failed-login counter
    call,      \* local state of each request
    bought,    \* history: logins completed with each pending token, 2 for more
    used,      \* history: logins each backup code completed, 2 for more
    tries,     \* history: wrong second factors recorded since the last login or Unlock
    overlap    \* history: whether a request has begun while another was under way

twoFactorVars == <<hasTx, totp, batch, pending, failures, call, bought, used, tries, overlap>>

\* More failures than these are not told apart.
Cap == MaxFailedLogins + 1

Stages == {"idle", "begin", "confirm", "disable", "reset", "regenerate", "password",
           "badPassword", "pend", "clear", "throttle", "check", "badCode", "issue", "retire",
           "session"}

Totp == <<0, 0>>     \* a TOTP code that is right

Wrong == <<0, 1>>    \* a code that is neither

Input == Codes \cup {Totp, Wrong}

Call == [pc : Stages, read : Settings \cup {Absent}, token : Pendings \cup {Absent},
         code : Input, late : BOOLEAN]

TIdle == [pc |-> "idle", read |-> Absent, token |-> Absent, code |-> Wrong, late |-> FALSE]

TwoFactorTypeOK ==
    /\ hasTx \in BOOLEAN
    /\ totp \in Settings \cup {Absent}
    /\ batch \in 0 .. MaxBatches
    /\ pending \subseteq Pendings
    /\ failures \in 0 .. Cap
    /\ call \in [Calls -> Call]
    /\ bought \in [Pendings -> 0 .. 2]
    /\ used \in [Codes -> 0 .. 2]
    /\ tries \in 0 .. Cap
    /\ overlap \in BOOLEAN

TwoFactorInit ==
    /\ hasTx \in BOOLEAN
    /\ totp = Absent
    /\ batch = 0
    /\ pending = {}
    /\ failures = 0
    /\ call = [r \in Calls |-> TIdle]
    /\ bought = [p \in Pendings |-> 0]
    /\ used = [c \in Codes |-> 0]
    /\ tries = 0
    /\ overlap = FALSE

-----------------------------------------------------------------------------
UpTo(n, max) == IF n < max THEN n + 1 ELSE n

Start(r, q) ==
    /\ call' = [call EXCEPT ![r] = q]
    /\ overlap' = (overlap \/ \E s \in Calls \ {r} : call[s] # TIdle)

TReturn(r) == call' = [call EXCEPT ![r] = TIdle]

Enter(r, p) == call' = [call EXCEPT ![r] = [@ EXCEPT !.pc = p]]

\* UpdateTOTPSettings: the whole row, ErrNotFound if there is none.
UpdateTOTPSettings(s) == IF totp = Absent THEN UNCHANGED totp ELSE totp' = s

\* authitcrypto.GenerateBackupCodes
Fresh(b) == {b} \X (1 .. CodeCount)

\* Whether code is right for settings s, which for a backup code is
\* consumeBackupCode.
Valid(s, code) == code = Totp \/ code \in s.codes

ClearFailures == failures' = 0

-----------------------------------------------------------------------------
(***************************************************************************)
(* Setting up and turning off. Each reads the settings and then writes.    *)
(***************************************************************************)

\* A plausible bug: the setup starts over whatever is there.
AlwaysAllowed == TRUE

\* BeginTwoFactorSetup refuses an account that has 2FA on.
NotEnabled == totp = Absent \/ (totp # Absent /\ ~totp.on)

BeginTwoFactorSetup(r) ==
    /\ call[r] = TIdle
    /\ NotEnabled
    /\ Start(r, [TIdle EXCEPT !.pc = "begin"])
    /\ UNCHANGED <<hasTx, totp, batch, pending, failures, bought, used, tries>>

\* The row is looked for and then written; if it came or went in between, the
\* write is refused, as when it is cut off.
upsertTOTPSettings(r) ==
    /\ call[r].pc = "begin"
    /\ totp' = [on |-> FALSE, codes |-> {}]
    /\ TReturn(r)
    /\ UNCHANGED <<hasTx, batch, pending, failures, bought, used, tries, overlap>>

\* The reads of ConfirmTwoFactorSetup and RegenerateBackupCodes, which take a
\* TOTP code, and of DisableTwoFactor, which takes a backup code too.
getDecryptedTOTPSettings(r, pc, code) ==
    /\ call[r] = TIdle
    /\ totp # Absent
    /\ Valid(totp, code)
    /\ pc # "disable" => code = Totp /\ batch < MaxBatches
    /\ Start(r, [TIdle EXCEPT !.pc = pc, !.read = totp])
    /\ UNCHANGED <<hasTx, totp, batch, pending, failures, bought, used, tries>>

\* Confirm turns 2FA on; both give the settings read a new set of codes.
NewCodes(r) ==
    /\ call[r].pc \in {"confirm", "regenerate"}
    /\ batch < MaxBatches
    /\ batch' = batch + 1
    /\ UpdateTOTPSettings([on    |-> call[r].pc = "confirm" \/ call[r].read.on,
                           codes |-> Fresh(batch + 1)])
    /\ TReturn(r)
    /\ UNCHANGED <<hasTx, pending, failures, bought, used, tries, overlap>>

DisableTwoFactor(r) ==
    /\ call[r].pc = "disable"
    /\ totp' = Absent
    /\ TReturn(r)
    /\ UNCHANGED <<hasTx, batch, pending, failures, bought, used, tries, overlap>>

-----------------------------------------------------------------------------
(***************************************************************************)
(* The operator.                                                           *)
(***************************************************************************)
\* For someone who lost app and codes: no code is asked for, but there must be
\* settings to remove (ErrTwoFactorNotEnabled). Pending tokens stay.
ResetTwoFactor(r) ==
    /\ call[r] = TIdle
    /\ totp # Absent
    /\ Start(r, [TIdle EXCEPT !.pc = "reset"])
    /\ UNCHANGED <<hasTx, totp, batch, pending, failures, bought, used, tries>>

DeleteTOTPSettings(r) ==
    /\ call[r].pc = "reset"
    /\ totp' = Absent
    /\ TReturn(r)
    /\ UNCHANGED <<hasTx, batch, pending, failures, bought, used, tries, overlap>>

\* At any time: of the table it clears, a request under way keeps no copy.
TUnlock ==
    /\ ClearFailures
    /\ tries' = 0
    /\ UNCHANGED <<hasTx, totp, batch, pending, call, bought, used, overlap>>

-----------------------------------------------------------------------------
(***************************************************************************)
(* Authenticate.                                                           *)
(***************************************************************************)
tooManyFailures == failures >= MaxFailedLogins

\* A request the rate limiter, an operator's lock or the verification policy
\* turns away changes nothing, like one that is never made or is cut off.
TAuthenticate(r, right) ==
    /\ call[r] = TIdle
    /\ ~tooManyFailures
    /\ Start(r, [TIdle EXCEPT !.pc = IF right THEN "password" ELSE "badPassword"])
    /\ UNCHANGED <<hasTx, totp, batch, pending, failures, bought, used, tries>>

\* recordFailedLogin, for a wrong password and for a wrong second factor.
TRecordFailedLogin(r) ==
    /\ call[r].pc \in {"badPassword", "badCode"}
    /\ failures' = UpTo(failures, Cap)
    /\ tries' = IF call[r].pc = "badCode" THEN UpTo(tries, Cap) ELSE tries
    /\ TReturn(r)
    /\ UNCHANGED <<hasTx, totp, batch, pending, bought, used, overlap>>

\* A plausible bug: a correct password clears the counter before the second
\* factor is in.
ClearsEarly(r) ==
    /\ call[r].pc = "password"
    /\ Enter(r, IF totp # Absent /\ totp.on THEN "pend" ELSE "clear")
    /\ ClearFailures
    /\ UNCHANGED <<hasTx, totp, batch, pending, bought, used, tries, overlap>>

\* GetTOTPSettingsByUserID, once the password is right.
ReadSettings(r) ==
    /\ call[r].pc = "password"
    /\ Enter(r, IF totp # Absent /\ totp.on THEN "pend" ELSE "clear")
    /\ UNCHANGED <<hasTx, totp, batch, pending, failures, bought, used, tries, overlap>>

createPendingTwoFactorSession(r) ==
    /\ call[r].pc = "pend"
    /\ \E p \in Pendings \ pending :
          /\ bought[p] = 0
          /\ \A s \in Calls : call[s].token # p
          /\ pending' = pending \cup {p}
    /\ TReturn(r)
    /\ UNCHANGED <<hasTx, totp, batch, failures, bought, used, tries, overlap>>

\* A completed login, by either path, resets the counter.
Complete(r) ==
    /\ call[r].pc = "clear"
    /\ ClearFailures
    /\ tries' = 0
    /\ TReturn(r)
    /\ UNCHANGED <<hasTx, totp, batch, pending, bought, used, overlap>>

-----------------------------------------------------------------------------
(***************************************************************************)
(* VerifyTwoFactorLogin.                                                   *)
(***************************************************************************)
\* PendingTwoFactorTTL passes: a token found after that is refused.
TExpire(p) ==
    /\ p \in pending
    /\ pending' = pending \ {p}
    /\ UNCHANGED <<hasTx, totp, batch, failures, call, bought, used, tries, overlap>>

VerifyTwoFactorLogin(r, p, code) ==
    /\ call[r] = TIdle
    /\ p \in pending
    /\ Start(r, [TIdle EXCEPT !.pc = "throttle", !.token = p, !.code = code,
                              !.late = bought[p] > 0])
    /\ UNCHANGED <<hasTx, totp, batch, pending, failures, bought, used, tries>>

Throttle(r) ==
    /\ call[r].pc = "throttle"
    /\ IF tooManyFailures THEN TReturn(r) ELSE Enter(r, "check")
    /\ UNCHANGED <<hasTx, totp, batch, pending, failures, bought, used, tries, overlap>>

\* The settings are read and the code checked; a backup code is taken out of
\* the copy. Settings that are gone by now end the login.
CheckCode(r) ==
    /\ call[r].pc = "check"
    /\ IF totp = Absent
       THEN TReturn(r)
       ELSE call' = [call EXCEPT ![r] =
                        [@ EXCEPT !.read = [totp EXCEPT !.codes = @ \ {call[r].code}],
                                  !.pc = IF Valid(totp, call[r].code) THEN "issue" ELSE "badCode"]]
    /\ UNCHANGED <<hasTx, totp, batch, pending, failures, bought, used, tries, overlap>>

UsedBackupCode(r) == call[r].code \in Codes

\* A plausible bug: the copy without the code is never written.
NotPersisted(r) == UNCHANGED totp

\* UpdateTOTPSettings, when a backup code was used.
Spend(r) ==
    IF UsedBackupCode(r) THEN UpdateTOTPSettings(call[r].read) ELSE UNCHANGED totp

\* Settings gone before the code could be written off: ErrNotFound.
CannotSpend(r) == UsedBackupCode(r) /\ totp = Absent

\* A plausible bug: the token is left for its TTL to end.
KeepsPending(p) == UNCHANGED pending

DeletePendingTwoFactorSession(p) == pending' = pending \ {p}

TIssueTokenPair(r) ==
    /\ bought' = [bought EXCEPT ![call[r].token] = UpTo(@, 2)]
    /\ used' = [c \in Codes |-> IF c = call[r].code THEN UpTo(used[c], 2) ELSE used[c]]

\* The three writes in one transaction.
IssueInTx(r) ==
    /\ hasTx
    /\ call[r].pc = "issue"
    /\ IF CannotSpend(r)
       THEN TReturn(r) /\ UNCHANGED <<totp, pending, bought, used>>
       ELSE /\ Spend(r)
            /\ DeletePendingTwoFactorSession(call[r].token)
            /\ TIssueTokenPair(r)
            /\ Enter(r, "clear")
    /\ UNCHANGED <<hasTx, batch, failures, tries, overlap>>

\* The same, one by one, with Stores.Tx nil.
SpendCode(r) ==
    /\ ~hasTx
    /\ call[r].pc = "issue"
    /\ Spend(r)
    /\ IF CannotSpend(r) THEN TReturn(r) ELSE Enter(r, "retire")
    /\ UNCHANGED <<hasTx, batch, pending, failures, bought, used, tries, overlap>>

Retire(r) ==
    /\ call[r].pc = "retire"
    /\ DeletePendingTwoFactorSession(call[r].token)
    /\ Enter(r, "session")
    /\ UNCHANGED <<hasTx, totp, batch, failures, bought, used, tries, overlap>>

Issue(r) ==
    /\ call[r].pc = "session"
    /\ TIssueTokenPair(r)
    /\ Enter(r, "clear")
    /\ UNCHANGED <<hasTx, totp, batch, pending, failures, tries, overlap>>

\* The request ends early: its process, its context or a store call fails.
TCutOff(r) ==
    /\ call[r] # TIdle
    /\ TReturn(r)
    /\ UNCHANGED <<hasTx, totp, batch, pending, failures, bought, used, tries, overlap>>

-----------------------------------------------------------------------------
RequestStep(r) ==
    \/ upsertTOTPSettings(r)
    \/ NewCodes(r)
    \/ DisableTwoFactor(r)
    \/ DeleteTOTPSettings(r)
    \/ TRecordFailedLogin(r)
    \/ ReadSettings(r)
    \/ createPendingTwoFactorSession(r)
    \/ Complete(r)
    \/ Throttle(r)
    \/ CheckCode(r)
    \/ IssueInTx(r)
    \/ SpendCode(r)
    \/ Retire(r)
    \/ Issue(r)
    \/ TCutOff(r)

TwoFactorNext ==
    \/ \E r \in Calls : RequestStep(r)
    \/ \E p \in Pendings : TExpire(p)
    \/ \E r \in Calls : BeginTwoFactorSetup(r) \/ ResetTwoFactor(r)
    \/ TUnlock
    \/ \E r \in Calls, pc \in {"confirm", "disable", "regenerate"}, code \in Input :
          getDecryptedTOTPSettings(r, pc, code)
    \/ \E r \in Calls, right \in BOOLEAN : TAuthenticate(r, right)
    \/ \E r \in Calls, p \in Pendings, code \in Input : VerifyTwoFactorLogin(r, p, code)

TwoFactorSpec == TwoFactorInit /\ [][TwoFactorNext]_twoFactorVars

-----------------------------------------------------------------------------
(***************************************************************************)
(* Properties.                                                             *)
(***************************************************************************)

\* Whoever holds the password gets MaxFailedLoginAttempts guesses at the second
\* factor and no more: no new pending session, and no password login, starts
\* the count again; an operator's Unlock does. It is of requests made one
\* after another, and of the guesses recordFailedLogin (best effort) gets
\* recorded: requests made together all pass the count before any of them has
\* raised it.
SecondFactorMetered == ~overlap => tries <= MaxFailedLogins

\* Two-factor goes off by DisableTwoFactor or the operator's ResetTwoFactor and
\* by nothing else: a setup begun anew is refused (ErrTwoFactorEnabled), and no
\* new set of codes or login that writes the settings back turns it off. It is
\* of requests made one after another; a setup begun while another is being
\* confirmed does turn it off.
OnUntilDisabled ==
    [][~overlap /\ totp # Absent /\ totp.on /\ ~(totp' # Absent /\ totp'.on)
          => \E r \in Calls : call[r].pc \in {"disable", "reset"} /\ call'[r] = TIdle
      ]_twoFactorVars

\* A backup code completes one login (consumeBackupCode, "single use"), with
\* or without a TxRunner and wherever a request is cut off. It is of requests
\* made one after another: the settings are read outside the transaction and
\* written back whole, so two that read them together both spend one code.
BackupCodeOnce == ~overlap => \A c \in Codes : used[c] <= 1

\* A pending token that has bought a session buys none for a request begun
\* afterwards, with or without a TxRunner, whatever fails on the way and
\* whichever requests race.
SpentPendingIsDead == \A r \in Calls : call[r].pc = "issue" => ~call[r].late

\* One pending token buys one session, of requests made one after another:
\* two that have read it together are both served, with a TxRunner too, for
\* the read is outside the transaction and the delete inside it succeeds when
\* the row is gone.
PendingOnce == ~overlap => \A p \in Pendings : bought[p] <= 1

\* What a login spends it spends for good: the backup code and the pending
\* token.
SpentForGood == BackupCodeOnce /\ SpentPendingIsDead /\ PendingOnce

=============================================================================
