-------------------------------- MODULE Device --------------------------------
(***************************************************************************)
(* The device authorization grant (device/device.go): a CLI polls a row    *)
(* that a browser approves or denies. No step of it is in a transaction:   *)
(* each store call is a step of its own, every write is of a whole row as  *)
(* it was read, and a write to a row that is gone is refused. A poll       *)
(* ignores the errors of its own writes, any of which may be lost.         *)
(*                                                                         *)
(* A grant stands for its device code and its user code (both are random,  *)
(* and a user code in use is not given out again). The rate limiter only   *)
(* refuses lookups, which here need not be made.                           *)
(***************************************************************************)
EXTENDS Naturals

CONSTANTS
    Grants,       \* device authorizations (named bound)
    Polls,        \* polls that may be under way at once
    Deciders,     \* approvals and denials that may be under way at once
    Users,
    None,         \* no row, no user, no answer
    TTL,          \* Config.DeviceCodeTTL
    Interval,     \* Config.PollInterval
    SlowDown,     \* Config.SlowDownIncrement
    MaxTime       \* bound on the clock

ASSUME DeviceAssumption ==
    /\ TTL \in Nat \ {0}
    /\ SlowDown \in Nat \ {0}
    /\ MaxTime \in Nat
    /\ Interval \in 1 .. MaxTime + 1     \* any longer one refuses every poll

VARIABLES
    clock,      \* time.Now
    row,        \* the device_authorizations table
    poll,       \* local state of each PollDeviceToken
    decide,     \* local state of each approval and denial
    answered,   \* history: grants whose CLI has had a final answer
    delivered,  \* history: how often a grant's user was returned, 2 for more
    lost,       \* history: grants for which a final poll's delete was lost
    denied      \* history: grants denied while nothing else was at work on them

deviceVars == <<clock, row, poll, decide, answered, delivered, lost, denied>>

Never == MaxTime + 1          \* LastPolledAt is nil

\* An interval past MaxTime refuses every poll: larger ones need no telling apart.
MaxInterval == MaxTime + 1

Authorization == [status : {"pending", "approved", "denied"}, user : Users \cup {None},
        exp : 0 .. MaxTime, last : 0 .. Never, interval : 0 .. MaxInterval]

ASSUME NobodyAssumption == None \notin Grants \cup Users \cup Authorization

Outcomes == {"expired", "slow", "denied", "approved", "pending"}

Poll == [pc : {"idle", "read"} \cup Outcomes, grant : Grants \cup {None},
         read : Authorization \cup {None}, now : 0 .. MaxTime, afterDenial : BOOLEAN]

Decision == [to : {"idle", "approved", "denied"}, grant : Grants \cup {None},
             read : Authorization \cup {None}, user : Users \cup {None}]

IdlePoll == [pc |-> "idle", grant |-> None, read |-> None, now |-> 0,
             afterDenial |-> FALSE]

NoDecision == [to |-> "idle", grant |-> None, read |-> None, user |-> None]

DeviceTypeOK ==
    /\ clock \in 0 .. MaxTime
    /\ row \in [Grants -> Authorization \cup {None}]
    /\ poll \in [Polls -> Poll]
    /\ decide \in [Deciders -> Decision]
    /\ answered \subseteq Grants
    /\ delivered \in [Grants -> 0 .. 2]
    /\ lost \subseteq Grants
    /\ denied \subseteq Grants

DeviceInit ==
    /\ clock = 0
    /\ row = [g \in Grants |-> None]
    /\ poll = [p \in Polls |-> IdlePoll]
    /\ decide = [w \in Deciders |-> NoDecision]
    /\ answered = {}
    /\ delivered = [g \in Grants |-> 0]
    /\ lost = {}
    /\ denied = {}

\* history: grants ever started.
started == {g \in Grants : row[g] # None} \cup answered

-----------------------------------------------------------------------------
(***************************************************************************)
(* The store.                                                              *)
(***************************************************************************)

\* A plausible bug: an update brings a deleted row back (an upsert).
Upserts(g, r) == row' = [row EXCEPT ![g] = r]

\* ErrNotFound when the row is gone.
UpdateDeviceAuthorization(g, r) ==
    IF row[g] = None THEN UNCHANGED row ELSE row' = [row EXCEPT ![g] = r]

DeleteDeviceAuthorization(g) == row' = [row EXCEPT ![g] = None]

-----------------------------------------------------------------------------
StartDeviceAuthorization(g) ==
    /\ g \notin started
    /\ clock + TTL < MaxTime
    /\ row' = [row EXCEPT ![g] = [status |-> "pending", user |-> None, exp |-> clock + TTL,
                                  last |-> Never, interval |-> Interval]]
    /\ UNCHANGED <<clock, poll, decide, answered, delivered, lost, denied>>

\* A plausible bug: a code that has been decided can be decided again.
anyByUserCode(g) == row[g] # None /\ clock <= row[g].exp

\* pendingByUserCode, for both decisions: the row is read here.
pendingByUserCode(g) == row[g] # None /\ row[g].status = "pending" /\ clock <= row[g].exp

Lookup(w, g, to, u) ==
    /\ decide[w] = NoDecision
    /\ pendingByUserCode(g)
    /\ decide' = [decide EXCEPT ![w] = [to |-> to, grant |-> g, read |-> row[g], user |-> u]]
    /\ UNCHANGED <<clock, row, poll, answered, delivered, lost, denied>>

\* The row as it was read, decided. A caller whose row is gone gets an error.
ApproveDeviceAuthorization(w) ==
    LET d == decide[w]
    IN  /\ d.to = "approved"
        /\ UpdateDeviceAuthorization(d.grant, [d.read EXCEPT !.status = "approved",
                                                             !.user = d.user])
        /\ decide' = [decide EXCEPT ![w] = NoDecision]
        /\ UNCHANGED <<clock, poll, answered, delivered, lost, denied>>

\* No poll of g, and no other decision on it, has read the row.
Unraced(w, g) ==
    /\ \A p \in Polls : poll[p].grant # g
    /\ \A v \in Deciders \ {w} : decide[v].grant # g

DenyDeviceAuthorization(w) ==
    LET d == decide[w]
    IN  /\ d.to = "denied"
        /\ UpdateDeviceAuthorization(d.grant, [d.read EXCEPT !.status = "denied"])
        /\ decide' = [decide EXCEPT ![w] = NoDecision]
        /\ denied' = IF row[d.grant] # None /\ Unraced(w, d.grant)
                     THEN denied \cup {d.grant}
                     ELSE denied
        /\ UNCHANGED <<clock, poll, answered, delivered, lost>>

-----------------------------------------------------------------------------
(***************************************************************************)
(* PollDeviceToken: read, look at the clock, write.                        *)
(***************************************************************************)
PollDeviceToken(p, g) ==
    /\ poll[p] = IdlePoll
    /\ g \in started
    /\ IF row[g] = None
       THEN /\ answered' = answered \cup {g}
            /\ UNCHANGED poll
       ELSE /\ poll' = [poll EXCEPT ![p] = [pc |-> "read", grant |-> g, read |-> row[g],
                                            now |-> 0, afterDenial |-> g \in denied]]
            /\ UNCHANGED answered
    /\ UNCHANGED <<clock, row, decide, delivered, lost, denied>>

TooSoon(r, now) == r.last # Never /\ now - r.last < r.interval

\* A plausible bug: the polling pace is looked at before the expiry.
PaceBeforeExpiry(r, now) ==
    CASE TooSoon(r, now)                     -> "slow"
      [] ~TooSoon(r, now) /\ now > r.exp      -> "expired"
      [] ~TooSoon(r, now) /\ ~(now > r.exp)   -> r.status

\* The order of PollDeviceToken's tests on the row it has read.
Outcome(r, now) ==
    CASE now > r.exp                          -> "expired"
      [] ~(now > r.exp) /\ TooSoon(r, now)    -> "slow"
      [] ~(now > r.exp) /\ ~TooSoon(r, now)   -> r.status

Judge(p) ==
    /\ poll[p].pc = "read"
    /\ poll' = [poll EXCEPT ![p] = [@ EXCEPT !.pc = Outcome(poll[p].read, clock),
                                             !.now = clock]]
    /\ UNCHANGED <<clock, row, decide, answered, delivered, lost, denied>>

Polled(r, now) == [r EXCEPT !.last = now]

Slower(i) == IF i + SlowDown > MaxInterval THEN MaxInterval ELSE i + SlowDown

\* ErrSlowDown and ErrAuthorizationPending: the row read is written back.
AnswerLater(p) ==
    LET q == poll[p]
    IN  /\ \/ /\ q.pc = "slow"
              /\ \/ UpdateDeviceAuthorization(q.grant,
                        [Polled(q.read, q.now) EXCEPT !.interval = Slower(@)])
                 \/ UNCHANGED row
           \/ /\ q.pc = "pending"
              /\ \/ UpdateDeviceAuthorization(q.grant, Polled(q.read, q.now))
                 \/ UNCHANGED row
        /\ poll' = [poll EXCEPT ![p] = IdlePoll]
        /\ UNCHANGED <<clock, decide, answered, delivered, lost, denied>>

\* ErrExpiredToken, ErrAccessDenied or the user: the row is deleted.
AnswerFinally(p) ==
    LET q == poll[p]
        g == q.grant
    IN  /\ q.pc \in {"expired", "denied", "approved"}
        /\ \/ DeleteDeviceAuthorization(g) /\ UNCHANGED lost
           \/ UNCHANGED row /\ lost' = lost \cup {g}
        /\ delivered' = IF q.pc = "approved" /\ q.read.user # None /\ delivered[g] < 2
                        THEN [delivered EXCEPT ![g] = @ + 1]
                        ELSE delivered
        /\ answered' = answered \cup {g}
        /\ poll' = [poll EXCEPT ![p] = IdlePoll]
        /\ UNCHANGED <<clock, decide, denied>>

Tick ==
    /\ clock < MaxTime
    /\ clock' = clock + 1
    /\ UNCHANGED <<row, poll, decide, answered, delivered, lost, denied>>

-----------------------------------------------------------------------------
Decide(w) == ApproveDeviceAuthorization(w) \/ DenyDeviceAuthorization(w)

Answer(p) == Judge(p) \/ AnswerLater(p) \/ AnswerFinally(p)

DeviceNext ==
    \/ \E g \in Grants : StartDeviceAuthorization(g)
    \/ \E w \in Deciders, g \in Grants :
          \/ Lookup(w, g, "denied", None)
          \/ \E u \in Users : Lookup(w, g, "approved", u)
    \/ \E w \in Deciders : Decide(w)
    \/ \E p \in Polls, g \in Grants : PollDeviceToken(p, g)
    \/ \E p \in Polls : Answer(p)
    \/ Tick

\* A poll that has started is answered, its CLI goes on polling ("what the CLI
\* calls repeatedly"), and time passes. Nobody need decide.
Fairness ==
    /\ \A p \in Polls : WF_deviceVars(Answer(p))
    /\ \A g \in Grants : SF_deviceVars(\E p \in Polls : PollDeviceToken(p, g))
    /\ WF_deviceVars(Tick)

DeviceSpec == DeviceInit /\ [][DeviceNext]_deviceVars

FairSpec == DeviceSpec /\ Fairness

-----------------------------------------------------------------------------
(***************************************************************************)
(* Properties.                                                             *)
(***************************************************************************)

\* A device code is exchanged for its user at most once ("the record is
\* deleted so it cannot be polled again", PollDeviceToken), also against the
\* late write of a second approval, unless the delete was lost. Holds for a
\* CLI that polls one at a time: two polls that have both read the approved
\* row both return the user, for the delete is idempotent.
OneDelivery == \A g \in Grants \ lost : delivered[g] <= 1

\* A poll begun after a denial has returned does not come back with a user
\* ("so the CLI's poll terminates with ErrAccessDenied"), whatever polls and
\* approvals follow it. It is of denials written while no poll and no other
\* decision held a copy of the row: such a copy, written back after the
\* denial, puts the row back to pending or approved.
DenialHolds ==
    \A p \in Polls : poll[p].pc = "approved" => ~poll[p].afterDenial

\* A CLI that goes on polling always gets a final answer, at its own pace or
\* far too fast, and whether or not anyone decides: the expiry is looked at
\* before the pace.
PollingEnds == \A g \in Grants : g \in started ~> g \in answered

=============================================================================
