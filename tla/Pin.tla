--------------------------------- MODULE Pin ---------------------------------
(***************************************************************************)
(* PIN sign-in (pin/pin.go): the credential table, the failed-attempt      *)
(* table that keeps a six-digit PIN from being guessed, and the requests   *)
(* that run on both. None of it is in a transaction: every store call is a *)
(* step of its own, and a sign-in keeps what it has read.                  *)
(*                                                                         *)
(* A sign-in is named by the row it would charge, so an attempt runs once. *)
(* The failures of a login that resolves are counted under its user, those *)
(* of one that does not under the login itself. The device a sign-in binds *)
(* is named by it too.                                                     *)
(***************************************************************************)
EXTENDS Integers, FiniteSets

CONSTANTS
    Attempts,   \* sign-ins, each with the id of the row it charges
    Operators,  \* concurrently running SetPIN and ImportPINHash calls
    Users,      \* accounts; the lock key of a login that resolves
    Strangers,  \* the lock keys of logins that resolve to nobody
    Pins,       \* PINs
    None,       \* no credential, no pending call
    MaxFailed,  \* Config.MaxFailedAttempts
    LockTicks,  \* Config.LockDuration
    MaxTime     \* bound on the clock

ASSUME PinAssumption ==
    /\ IsFiniteSet(Attempts)
    /\ Users \cap Strangers = {}
    /\ Users \cup Strangers # {}
    /\ Pins # {}
    /\ None \notin Users
    /\ None \notin [pin : Pins, weak : BOOLEAN]   \* no credential
    /\ MaxFailed \in Nat \ {0}
    /\ LockTicks \in Nat \ {0}
    /\ MaxTime \in Nat

VARIABLES
    clock,     \* time.Now
    cred,      \* the PIN credential of each user, or None
    locked,    \* users an operator has locked
    charged,   \* rows of the failed-attempt table
    att,       \* local state of each sign-in
    op,        \* the user whose lock a storePIN has still to clear, or None
    revoked,   \* bound devices that are revoked
    admitted,  \* history: attempts chargeAttempt let through to a guess
    cleared,   \* history: users without a PIN, see ClearPIN
    shut       \* history: those of them whose devices were ended too

history == <<admitted, cleared, shut>>

vars == <<clock, cred, locked, charged, att, op, revoked, history>>

Keys == Users \cup Strangers

Credential == [pin : Pins, weak : BOOLEAN]

PCs == {"new", "count", "record", "recount", "adminlock", "verify", "rehash",
        "clear", "bind", "locked", "failed", "bound"}

Attempt == [pc : PCs, key : Keys, at : 0 .. MaxTime, pin : Pins]

TypeOK ==
    /\ clock \in 0 .. MaxTime
    /\ cred \in [Users -> Credential \cup {None}]
    /\ locked \subseteq Users
    /\ charged \subseteq Attempts
    /\ att \in [Attempts -> Attempt]
    /\ op \in [Operators -> Users \cup {None}]
    /\ revoked \subseteq Attempts
    /\ admitted \subseteq Attempts
    /\ cleared \subseteq Users
    /\ shut \subseteq Users

Init ==
    /\ clock = 0
    /\ cred = [u \in Users |-> None]
    /\ locked = {}
    /\ charged = {}
    /\ att = [a \in Attempts |->
                 [pc |-> "new", key |-> CHOOSE k \in Keys : TRUE, at |-> 0,
                  pin |-> CHOOSE p \in Pins : TRUE]]
    /\ op = [o \in Operators |-> None]
    /\ revoked = {}
    /\ admitted = {}
    /\ cleared = {}
    /\ shut = {}

-----------------------------------------------------------------------------
(***************************************************************************)
(* The store's operations on failed attempts, credentials and devices.     *)
(***************************************************************************)

CountRecentFailedLoginAttempts(k, since) ==
    Cardinality({b \in charged : att[b].key = k /\ att[b].at > since})

ClearFailedLoginAttempts(k) == charged' = {b \in charged : att[b].key # k}

\* A plausible bug: the row holds the PIN and not its hash.
StoresThePin(u, c) == cred' = [cred EXCEPT ![u] = c.pin]

SetPINCredential(u, c) == cred' = [cred EXCEPT ![u] = c]

DevicesOf(u) == {a \in Attempts : att[a].key = u /\ att[a].pc = "bound"}

\* A plausible bug: the loop over the user's devices ends at the first one.
RevokesTheFirst(u) ==
    \/ \E a \in DevicesOf(u) : revoked' = revoked \cup {a}
    \/ DevicesOf(u) = {} /\ UNCHANGED revoked

RevokeAllBoundDevices(u) == revoked' = revoked \cup DevicesOf(u)

-----------------------------------------------------------------------------
(***************************************************************************)
(* Operator calls.                                                         *)
(***************************************************************************)

\* storePIN's first write, for SetPIN (weak FALSE) and ImportPINHash.
storePIN(o, u, p, weak) ==
    /\ op[o] = None
    /\ SetPINCredential(u, [pin |-> p, weak |-> weak])
    /\ op' = [op EXCEPT ![o] = u]
    /\ cleared' = cleared \ {u}
    /\ shut' = shut \ {u}
    /\ UNCHANGED <<clock, locked, charged, att, revoked, admitted>>

SetPIN(o, u, p) == storePIN(o, u, p, FALSE)

\* A bcrypt hash is weak; an Argon2id one is as good as a PIN set here.
ImportPINHash(o, u, p) == storePIN(o, u, p, TRUE)

\* storePIN's second write: a new PIN lifts the lock. The call may also end
\* before it, the process gone or the store failing.
LiftLock(o) ==
    /\ op[o] # None
    /\ \/ ClearFailedLoginAttempts(op[o])
       \/ UNCHANGED charged
    /\ op' = [op EXCEPT ![o] = None]
    /\ UNCHANGED <<clock, cred, locked, att, revoked, history>>

SignsIn(u, where) == \E a \in Attempts : att[a].key = u /\ att[a].pc \in where

\* The history notes the call only if no sign-in of the user's has yet to
\* write back the PIN it read, which would undo it.
ClearPIN(u) ==
    /\ cred' = [cred EXCEPT ![u] = None]
    /\ cleared' = IF SignsIn(u, {"rehash"}) THEN cleared ELSE cleared \cup {u}
    /\ UNCHANGED <<clock, locked, charged, att, op, revoked, admitted, shut>>

\* RevokeDevice, and RevokeDeviceByToken, which is the device's own.
RevokeDevice(a) ==
    /\ att[a].pc = "bound"
    /\ revoked' = revoked \cup {a}
    /\ UNCHANGED <<clock, cred, locked, charged, att, op, history>>

\* The history notes the call only if it follows a ClearPIN and no sign-in that
\* has had its PIN accepted is still to bind a device.
RevokeAllDevices(u) ==
    /\ RevokeAllBoundDevices(u)
    /\ shut' = IF u \in cleared /\ ~SignsIn(u, {"clear", "bind"}) THEN shut \cup {u} ELSE shut
    /\ UNCHANGED <<clock, cred, locked, charged, att, op, admitted, cleared>>

\* LockAccount and UnlockAccount, which the host calls on the shared store.
SetLocked(u, on) ==
    /\ locked' = IF on THEN locked \cup {u} ELSE locked \ {u}
    /\ UNCHANGED <<clock, cred, charged, att, op, revoked, history>>

-----------------------------------------------------------------------------
(***************************************************************************)
(* SignIn. A store call that fails ends the request (Fails), except the    *)
(* best-effort rehash.                                                     *)
(***************************************************************************)
Goto(a, p) == att' = [att EXCEPT ![a] = [@ EXCEPT !.pc = p]]

\* resolve, then time.Now: everything later is stamped with this instant.
SignIn(a, k, p) ==
    /\ att[a].pc = "new"
    /\ att' = [att EXCEPT ![a] = [pc |-> "count", key |-> k, at |-> clock, pin |-> p]]
    /\ UNCHANGED <<clock, cred, locked, charged, op, revoked, history>>

Count(a) == CountRecentFailedLoginAttempts(att[a].key, att[a].at - LockTicks)

\* chargeAttempt's first count: a spent budget refuses without a charge.
CheckBudget(a) ==
    /\ att[a].pc = "count"
    /\ Goto(a, IF Count(a) >= MaxFailed THEN "locked" ELSE "record")
    /\ UNCHANGED <<clock, cred, locked, charged, op, revoked, history>>

RecordFailedLoginAttempt(a) ==
    /\ att[a].pc = "record"
    /\ charged' = charged \cup {a}
    /\ Goto(a, "recount")
    /\ UNCHANGED <<clock, cred, locked, op, revoked, history>>

\* A plausible bug: the recount forgets that this attempt is in it.
AdmitsOneMore(n) == n <= MaxFailed + 1

\* chargeAttempt's last line, negated.
WithinBudget(n) == n <= MaxFailed

\* chargeAttempt's second count, with this attempt in.
Recount(a) ==
    /\ att[a].pc = "recount"
    /\ IF WithinBudget(Count(a))
       THEN /\ Goto(a, IF att[a].key \in Users THEN "adminlock" ELSE "verify")
            /\ admitted' = admitted \cup {a}
       ELSE /\ Goto(a, "locked")
            /\ UNCHANGED admitted
    /\ UNCHANGED <<clock, cred, locked, charged, op, revoked, cleared, shut>>

IsAccountLocked(a) ==
    /\ att[a].pc = "adminlock"
    /\ Goto(a, IF att[a].key \in locked THEN "locked" ELSE "verify")
    /\ UNCHANGED <<clock, cred, locked, charged, op, revoked, history>>

NeedsRehash(c) == c.weak

\* The credential is read and the PIN checked against it. A login that
\* resolves to nobody, or to a user without a PIN, fails like a wrong PIN.
Verify(a) ==
    LET k == att[a].key
    IN  /\ att[a].pc = "verify"
        /\ \/ /\ k \in Users
              /\ cred[k] # None
              /\ cred[k].pin = att[a].pin
              /\ Goto(a, IF NeedsRehash(cred[k]) THEN "rehash" ELSE "clear")
           \/ /\ \/ k \in Strangers
                 \/ k \in Users /\ cred[k] = None
                 \/ k \in Users /\ cred[k] # None /\ cred[k].pin # att[a].pin
              /\ Goto(a, "failed")
        /\ UNCHANGED <<clock, cred, locked, charged, op, revoked, history>>

\* The credential read is written back under the configured hasher, whatever
\* the row is by now. Best effort: the sign-in goes on if the write fails.
rehashIfNeeded(a) ==
    /\ att[a].pc = "rehash"
    /\ \/ SetPINCredential(att[a].key, [pin |-> att[a].pin, weak |-> FALSE])
       \/ UNCHANGED cred
    /\ Goto(a, "clear")
    /\ UNCHANGED <<clock, locked, charged, op, revoked, history>>

\* Success refunds every charge under the key; BeforeBind may then refuse.
Refund(a) ==
    /\ att[a].pc = "clear"
    /\ ClearFailedLoginAttempts(att[a].key)
    /\ Goto(a, "bind") \/ Goto(a, "failed")
    /\ UNCHANGED <<clock, cred, locked, op, revoked, history>>

\* CreateBoundDevice, with AfterSignIn in its transaction.
Bind(a) ==
    /\ att[a].pc = "bind"
    /\ Goto(a, "bound")
    /\ UNCHANGED <<clock, cred, locked, charged, op, revoked, history>>

Fails(a) ==
    /\ att[a].pc \in {"count", "record", "recount", "adminlock", "verify", "clear", "bind"}
    /\ Goto(a, "failed")
    /\ UNCHANGED <<clock, cred, locked, charged, op, revoked, history>>

Tick ==
    /\ clock < MaxTime
    /\ clock' = clock + 1
    /\ UNCHANGED <<cred, locked, charged, att, op, revoked, history>>

-----------------------------------------------------------------------------
Step(a) ==
    \/ CheckBudget(a)
    \/ RecordFailedLoginAttempt(a)
    \/ Recount(a)
    \/ IsAccountLocked(a)
    \/ Verify(a)
    \/ rehashIfNeeded(a)
    \/ Refund(a)
    \/ Bind(a)
    \/ Fails(a)

Next ==
    \/ \E a \in Attempts : Step(a)
    \/ \E a \in Attempts, k \in Keys, p \in Pins : SignIn(a, k, p)
    \/ \E o \in Operators, u \in Users, p \in Pins : SetPIN(o, u, p) \/ ImportPINHash(o, u, p)
    \/ \E o \in Operators : LiftLock(o)
    \/ \E u \in Users : ClearPIN(u) \/ RevokeAllDevices(u)
    \/ \E a \in Attempts : RevokeDevice(a)
    \/ \E u \in Users, on \in BOOLEAN : SetLocked(u, on)
    \/ Tick

Spec == Init /\ [][Next]_vars

-----------------------------------------------------------------------------
(***************************************************************************)
(* Properties.                                                             *)
(***************************************************************************)

\* The attempts under key k that were let through to a guess, have not been
\* refunded and were made in the LockDuration up to instant T.
Guesses(k, T) ==
    {a \in admitted \cap charged :
        att[a].key = k /\ T - LockTicks < att[a].at /\ att[a].at <= T}

\* The budget: in any LockDuration, of requests racing each other in any way,
\* no more than MaxFailedAttempts unrefunded ones get to guess a PIN, known
\* login or not ("Charging first and refunding on success ... is what makes
\* the limit hold under concurrency", chargeAttempt). It bounds the guesses from
\* above only: requests racing past the first count may all be charged and all
\* refused at the second, so a login can be locked that nobody guessed at.
GuessBudget ==
    \A k \in Keys, T \in 0 .. MaxTime : Cardinality(Guesses(k, T)) <= MaxFailed

\* A user whose PIN was removed and whose devices were ended after that is out:
\* no device of theirs is live, and none becomes so until an operator stores
\* a new PIN ("so they can no longer sign in a new device ... RevokeAllDevices
\* ends those", ClearPIN). Sign-ins under way, of imported PINs too, do not
\* matter but for the two kinds the histories leave out: one that has yet to
\* write a rehash of the PIN it read when it is removed (that write brings the
\* PIN back), and one that has yet to bind a device when they are ended.
ShutOut == \A u \in shut : DevicesOf(u) \subseteq revoked

=============================================================================
