------------------------------ MODULE GuessProofs ------------------------------
(***************************************************************************)
(* Proofs about the two flows that meter guesses, the PIN sign-in (Pin)    *)
(* and the second factor (TwoFactor), which share nothing else.            *)
(*                                                                         *)
(* Pin: the tables are well typed, no lock key is admitted to more guesses *)
(* in a window than the maximum, and a user whose PIN was removed and whose *)
(* devices were ended is out. TwoFactor: what a login spends it spends for *)
(* good, the second factor is metered, and it goes off by being disabled   *)
(* or reset alone.                                                         *)
(***************************************************************************)
EXTENDS Pin, TwoFactor, FiniteSetTheorems, TLAPS

\* The shape of a control step on the attempts.
LEMMA GotoType ==
    ASSUME att \in [Attempts -> Attempt], NEW a \in Attempts, NEW p \in PCs, Goto(a, p)
    PROVE  /\ att' \in [Attempts -> Attempt]
           /\ att'[a].pc = p
           /\ \A b \in Attempts : /\ att'[b].key = att[b].key
                                  /\ att'[b].at = att[b].at
                                  /\ att'[b].pin = att[b].pin
                                  /\ b # a => att'[b].pc = att[b].pc
<1> DEFINE q == [att[a] EXCEPT !.pc = p]
<1>1. att' = [att EXCEPT ![a] = q] BY DEF Goto
<1>2. q \in Attempt /\ q.pc = p /\ q.key = att[a].key /\ q.at = att[a].at /\ q.pin = att[a].pin
  BY DEF Attempt
<1> HIDE DEF q
<1> QED BY <1>1, <1>2

\* The control points, as one fact for the steps below.
LEMMA PCsList ==
    /\ "count" \in PCs /\ "record" \in PCs /\ "recount" \in PCs
    /\ "adminlock" \in PCs /\ "verify" \in PCs /\ "rehash" \in PCs
    /\ "clear" \in PCs /\ "bind" \in PCs /\ "locked" \in PCs
    /\ "failed" \in PCs /\ "bound" \in PCs /\ "new" \in PCs
BY DEF PCs

\* What storePIN and rehashIfNeeded store.
LEMMA CredentialMade ==
    ASSUME NEW p \in Pins
    PROVE  /\ [pin |-> p, weak |-> FALSE] \in Credential
           /\ [pin |-> p, weak |-> FALSE] # None
<1>1. [pin |-> p, weak |-> FALSE] \in Credential BY DEF Credential
<1>2. None \notin Credential BY PinAssumption DEF Credential
<1> QED BY <1>1, <1>2

LEMMA TypeInit == Init => TypeOK
<1>1. (CHOOSE k \in Keys : TRUE) \in Keys BY PinAssumption DEF Keys
<1>2. (CHOOSE p \in Pins : TRUE) \in Pins BY PinAssumption
<1> QED BY <1>1, <1>2, PCsList, PinAssumption DEF Init, TypeOK, Attempt

LEMMA TypeStep == TypeOK /\ [Next]_vars => TypeOK'
<1> SUFFICES ASSUME TypeOK, [Next]_vars PROVE TypeOK'
  OBVIOUS
<1> USE PinAssumption
<1>1. ASSUME NEW a \in Attempts, CheckBudget(a) PROVE TypeOK'
  BY <1>1, PCsList, GotoType DEF CheckBudget, TypeOK, history
<1>2. ASSUME NEW a \in Attempts, RecordFailedLoginAttempt(a) PROVE TypeOK'
  BY <1>2, PCsList, GotoType DEF RecordFailedLoginAttempt, TypeOK, history
<1>3. ASSUME NEW a \in Attempts, Recount(a) PROVE TypeOK'
  BY <1>3, PCsList, GotoType DEF Recount, TypeOK, history
<1>4. ASSUME NEW a \in Attempts, IsAccountLocked(a) PROVE TypeOK'
  BY <1>4, PCsList, GotoType DEF IsAccountLocked, TypeOK, history
<1>5. ASSUME NEW a \in Attempts, Verify(a) PROVE TypeOK'
  BY <1>5, PCsList, GotoType DEF Verify, TypeOK, history
<1>6. ASSUME NEW a \in Attempts, rehashIfNeeded(a) PROVE TypeOK'
  <2>1. att[a].pin \in Pins BY DEF TypeOK, Attempt
  <2> DEFINE c == [pin |-> att[a].pin, weak |-> FALSE]
  <2>2. c \in Credential BY <2>1, CredentialMade
  <2>3. cred' = [cred EXCEPT ![att[a].key] = c] \/ cred' = cred
    BY <1>6 DEF rehashIfNeeded, SetPINCredential
  <2> HIDE DEF c
  <2>4. cred' \in [Users -> Credential \cup {None}]
    BY <2>2, <2>3 DEF TypeOK
  <2> QED BY <1>6, <2>4, PCsList, GotoType DEF rehashIfNeeded, TypeOK, history
<1>7. ASSUME NEW a \in Attempts, Refund(a) PROVE TypeOK'
  BY <1>7, PCsList, GotoType DEF Refund, TypeOK, ClearFailedLoginAttempts, history
<1>8. ASSUME NEW a \in Attempts, Bind(a) PROVE TypeOK'
  BY <1>8, PCsList, GotoType DEF Bind, TypeOK, history
<1>9. ASSUME NEW a \in Attempts, Fails(a) PROVE TypeOK'
  BY <1>9, PCsList, GotoType DEF Fails, TypeOK, history
<1>10. ASSUME NEW a \in Attempts, NEW k \in Keys, NEW p \in Pins, SignIn(a, k, p)
       PROVE  TypeOK'
  BY <1>10, PCsList DEF SignIn, TypeOK, Attempt, history
<1>11. ASSUME NEW o \in Operators, NEW u \in Users, NEW p \in Pins, NEW w \in BOOLEAN,
              storePIN(o, u, p, w)
       PROVE  TypeOK'
  BY <1>11 DEF storePIN, SetPINCredential, TypeOK, Credential
<1>12. ASSUME NEW o \in Operators, LiftLock(o) PROVE TypeOK'
  BY <1>12 DEF LiftLock, ClearFailedLoginAttempts, TypeOK, history
<1>13. ASSUME NEW u \in Users, ClearPIN(u) PROVE TypeOK'
  BY <1>13 DEF ClearPIN, TypeOK
<1>14. ASSUME NEW u \in Users, NEW on \in BOOLEAN, SetLocked(u, on) PROVE TypeOK'
  BY <1>14 DEF SetLocked, TypeOK, history
<1>15. CASE Tick
  BY <1>15 DEF Tick, TypeOK, history
<1>16. CASE UNCHANGED vars
  BY <1>16 DEF vars, TypeOK, history
<1>17. ASSUME NEW u \in Users, RevokeAllDevices(u) PROVE TypeOK'
  BY <1>17 DEF RevokeAllDevices, RevokeAllBoundDevices, DevicesOf, TypeOK
<1>18. ASSUME NEW a \in Attempts, RevokeDevice(a) PROVE TypeOK'
  BY <1>18 DEF RevokeDevice, TypeOK, history
<1> QED
  BY <1>1, <1>2, <1>3, <1>4, <1>5, <1>6, <1>7, <1>8, <1>9, <1>10, <1>11, <1>12,
     <1>13, <1>14, <1>15, <1>16, <1>17, <1>18
  DEF Next, Step, SetPIN, ImportPINHash

\* Every variable keeps its type in every behaviour of Pin.
THEOREM PinTypeCorrect == Spec => []TypeOK
BY TypeInit, TypeStep, PTL DEF Spec

-----------------------------------------------------------------------------
(***************************************************************************)
(* The budget. An attempt is admitted by its recount alone, so it is past  *)
(* it for good; the last of a window's attempts to recount has counted     *)
(* them all, its own window reaching back no less far than theirs.         *)
(***************************************************************************)

\* An admitted attempt has its recount behind it.
AdmittedPast ==
    \A a \in admitted : att[a].pc \notin {"new", "count", "record", "recount"}

BudgetInv == TypeOK /\ AdmittedPast /\ GuessBudget

\* A step that admits nobody and charges nobody admitted keeps the budget.
LEMMA BudgetKept ==
    ASSUME TypeOK, GuessBudget,
           admitted' \cap charged' \subseteq admitted \cap charged,
           \A b \in admitted : att'[b].key = att[b].key /\ att'[b].at = att[b].at
    PROVE  GuessBudget'
<1> SUFFICES ASSUME NEW k \in Keys, NEW T \in 0 .. MaxTime
             PROVE  Cardinality(Guesses(k, T)') <= MaxFailed
  BY DEF GuessBudget, Guesses
<1>1. Guesses(k, T)' \subseteq Guesses(k, T)
  BY DEF Guesses
<1>2. IsFiniteSet(Guesses(k, T))
  BY PinAssumption, FS_Subset DEF Guesses, TypeOK
<1>3. Cardinality(Guesses(k, T)) <= MaxFailed
  BY DEF GuessBudget
<1>4. /\ Cardinality(Guesses(k, T)) \in Nat
      /\ Cardinality(Guesses(k, T)') \in Nat
      /\ Cardinality(Guesses(k, T)') <= Cardinality(Guesses(k, T))
  BY <1>1, <1>2, FS_Subset, FS_CardinalityType
<1> QED BY <1>3, <1>4, PinAssumption

\* The recount: what the admitted attempt counts includes every guess of any
\* window it falls in.
LEMMA BudgetRecount ==
    ASSUME TypeOK, GuessBudget, NEW a \in Attempts, Recount(a)
    PROVE  GuessBudget'
<1>1. \A b \in Attempts : att'[b].key = att[b].key /\ att'[b].at = att[b].at
  BY PCsList, GotoType DEF Recount, TypeOK
<1>2. CASE ~WithinBudget(Count(a))
  BY <1>1, <1>2, BudgetKept DEF Recount, TypeOK
<1>3. CASE WithinBudget(Count(a))
  <2> SUFFICES ASSUME NEW k \in Keys, NEW T \in 0 .. MaxTime
               PROVE  Cardinality(Guesses(k, T)') <= MaxFailed
    BY DEF GuessBudget, Guesses
  <2>1. admitted' = admitted \cup {a} /\ charged' = charged
    BY <1>3 DEF Recount
  <2>2. CASE a \in Guesses(k, T)'
    <3> DEFINE Counted == {b \in charged : att[b].key = att[a].key
                                           /\ att[b].at > att[a].at - LockTicks}
    <3>1. att[a].key = k /\ att[a].at <= T
      BY <2>2, <1>1 DEF Guesses
    <3>2. \A b \in Attempts : att[b].at \in Int
      BY DEF TypeOK, Attempt
    <3>3. Guesses(k, T)' \subseteq Counted
      BY <1>1, <2>1, <3>1, <3>2, PinAssumption DEF Guesses, TypeOK
    <3>4. IsFiniteSet(Counted)
      BY PinAssumption, FS_Subset DEF TypeOK
    <3>5. Cardinality(Counted) <= MaxFailed
      BY <1>3 DEF WithinBudget, Count, CountRecentFailedLoginAttempts
    <3> HIDE DEF Counted
    <3>6. /\ Cardinality(Counted) \in Nat
          /\ Cardinality(Guesses(k, T)') \in Nat
          /\ Cardinality(Guesses(k, T)') <= Cardinality(Counted)
      BY <3>3, <3>4, FS_Subset, FS_CardinalityType
    <3> QED BY <3>5, <3>6, PinAssumption
  <2>3. CASE a \notin Guesses(k, T)'
    <3>1. Guesses(k, T)' \subseteq Guesses(k, T)
      BY <2>1, <2>3, <1>1 DEF Guesses, TypeOK
    <3>2. IsFiniteSet(Guesses(k, T))
      BY PinAssumption, FS_Subset DEF Guesses, TypeOK
    <3>3. Cardinality(Guesses(k, T)) <= MaxFailed
      BY DEF GuessBudget
    <3>4. /\ Cardinality(Guesses(k, T)) \in Nat
          /\ Cardinality(Guesses(k, T)') \in Nat
          /\ Cardinality(Guesses(k, T)') <= Cardinality(Guesses(k, T))
      BY <3>1, <3>2, FS_Subset, FS_CardinalityType
    <3> QED BY <3>3, <3>4, PinAssumption
  <2> QED BY <2>2, <2>3
<1> QED BY <1>2, <1>3

LEMMA BudgetInit == Init => BudgetInv
<1> SUFFICES ASSUME Init PROVE BudgetInv
  OBVIOUS
<1>1. TypeOK BY TypeInit
<1>2. AdmittedPast BY DEF Init, AdmittedPast
<1>3. \A k, T : Guesses(k, T) = {} BY DEF Init, Guesses
<1>4. GuessBudget BY <1>3, FS_EmptySet, PinAssumption DEF GuessBudget
<1> QED BY <1>1, <1>2, <1>4 DEF BudgetInv

LEMMA BudgetStep == BudgetInv /\ [Next]_vars => BudgetInv'
<1> SUFFICES ASSUME TypeOK, AdmittedPast, GuessBudget, [Next]_vars PROVE BudgetInv'
  BY DEF BudgetInv
<1>0. TypeOK' BY TypeStep
<1>0a. admitted \subseteq Attempts BY DEF TypeOK
<1>1. ASSUME NEW a \in Attempts, CheckBudget(a) PROVE AdmittedPast' /\ GuessBudget'
  <2>1. /\ \A b \in Attempts : att'[b].key = att[b].key /\ att'[b].at = att[b].at
        /\ \A b \in Attempts \ {a} : att'[b].pc = att[b].pc
    BY <1>1, PCsList, GotoType DEF CheckBudget, TypeOK
  <2>2. a \notin admitted BY <1>1 DEF CheckBudget, AdmittedPast
  <2>3. admitted' = admitted /\ charged' = charged BY <1>1 DEF CheckBudget, history
  <2> QED BY <2>1, <2>2, <2>3, <1>0a, BudgetKept DEF AdmittedPast
<1>2. ASSUME NEW a \in Attempts, RecordFailedLoginAttempt(a) PROVE AdmittedPast' /\ GuessBudget'
  <2>1. /\ \A b \in Attempts : att'[b].key = att[b].key /\ att'[b].at = att[b].at
        /\ \A b \in Attempts \ {a} : att'[b].pc = att[b].pc
    BY <1>2, PCsList, GotoType DEF RecordFailedLoginAttempt, TypeOK
  <2>2. a \notin admitted BY <1>2 DEF RecordFailedLoginAttempt, AdmittedPast
  <2>3. admitted' = admitted /\ charged' = charged \cup {a}
    BY <1>2 DEF RecordFailedLoginAttempt, history
  <2> QED BY <2>1, <2>2, <2>3, <1>0a, BudgetKept DEF AdmittedPast
<1>3. ASSUME NEW a \in Attempts, Recount(a) PROVE AdmittedPast' /\ GuessBudget'
  <2>1. /\ \A b \in Attempts \ {a} : att'[b].pc = att[b].pc
        /\ att'[a].pc \in {"adminlock", "verify", "locked"}
        /\ admitted' \subseteq admitted \cup {a}
    BY <1>3, PCsList, GotoType DEF Recount, TypeOK
  <2>2. AdmittedPast' BY <2>1, <1>0a DEF AdmittedPast
  <2> QED BY <2>2, <1>3, BudgetRecount
<1>4. ASSUME NEW a \in Attempts,
             IsAccountLocked(a) \/ Verify(a) \/ rehashIfNeeded(a) \/ Refund(a)
                 \/ Bind(a) \/ Fails(a)
      PROVE  AdmittedPast' /\ GuessBudget'
  <2>1. \E p \in PCs \ {"new", "count", "record", "recount"} : Goto(a, p)
    BY <1>4, PCsList DEF IsAccountLocked, Verify, rehashIfNeeded, Refund, Bind, Fails
  <2>2. /\ \A b \in Attempts : att'[b].key = att[b].key /\ att'[b].at = att[b].at
        /\ \A b \in Attempts \ {a} : att'[b].pc = att[b].pc
        /\ att'[a].pc \notin {"new", "count", "record", "recount"}
    BY <2>1, GotoType DEF TypeOK
  <2>3. admitted' = admitted /\ charged' \subseteq charged
    BY <1>4 DEF IsAccountLocked, Verify, rehashIfNeeded, Refund, Bind, Fails,
                ClearFailedLoginAttempts, history
  <2> QED BY <2>2, <2>3, <1>0a, BudgetKept DEF AdmittedPast
<1>5. ASSUME NEW a \in Attempts, NEW k \in Keys, NEW p \in Pins, SignIn(a, k, p)
      PROVE  AdmittedPast' /\ GuessBudget'
  <2>1. a \notin admitted BY <1>5 DEF SignIn, AdmittedPast
  <2>2. \A b \in admitted : att'[b] = att[b]
    BY <1>5, <2>1, <1>0a DEF SignIn, TypeOK
  <2>3. admitted' = admitted /\ charged' = charged BY <1>5 DEF SignIn, history
  <2> QED BY <2>2, <2>3, BudgetKept DEF AdmittedPast
<1>6. ASSUME UNCHANGED <<att, admitted>>, charged' \subseteq charged
      PROVE  AdmittedPast' /\ GuessBudget'
  <2>1. \A b \in admitted : att'[b] = att[b] BY <1>6
  <2> QED BY <2>1, <1>6, BudgetKept DEF AdmittedPast
<1>7. ASSUME NEW o \in Operators, LiftLock(o) PROVE AdmittedPast' /\ GuessBudget'
  BY <1>7, <1>6 DEF LiftLock, ClearFailedLoginAttempts, history
<1>8. ASSUME NEW o \in Operators, NEW u \in Users, NEW p \in Pins, NEW w \in BOOLEAN,
             storePIN(o, u, p, w)
      PROVE  AdmittedPast' /\ GuessBudget'
  BY <1>8, <1>6 DEF storePIN
<1>9. ASSUME NEW u \in Users, ClearPIN(u) \/ RevokeAllDevices(u)
       PROVE  AdmittedPast' /\ GuessBudget'
  BY <1>9, <1>6 DEF ClearPIN, RevokeAllDevices
<1>14. ASSUME NEW u \in Users, NEW on \in BOOLEAN, SetLocked(u, on)
       PROVE  AdmittedPast' /\ GuessBudget'
  BY <1>14, <1>6 DEF SetLocked, history
<1>15. ASSUME NEW a \in Attempts, RevokeDevice(a)
       PROVE  AdmittedPast' /\ GuessBudget'
  BY <1>15, <1>6 DEF RevokeDevice, history
<1>10. CASE Tick BY <1>10, <1>6, <1>0 DEF Tick, BudgetInv, history
<1>11. CASE UNCHANGED vars BY <1>11, <1>6, <1>0 DEF vars, BudgetInv, history
<1>12. CASE \E a \in Attempts : Step(a)
  BY <1>12, <1>0, <1>1, <1>2, <1>3, <1>4 DEF Step, BudgetInv
<1>13. CASE \E u \in Users : ClearPIN(u) \/ RevokeAllDevices(u)
  BY <1>13, <1>0, <1>9 DEF BudgetInv
<1> QED
  BY <1>0, <1>5, <1>7, <1>8, <1>14, <1>15, <1>10, <1>11, <1>12, <1>13
  DEF Next, SetPIN, ImportPINHash, BudgetInv

\* However sign-ins race each other, at most MaxFailedAttempts of those made
\* in one LockDuration under one key, and not refunded, guess a PIN.
THEOREM BudgetHolds == Spec => []GuessBudget
<1>1. Spec => []BudgetInv BY BudgetInit, BudgetStep, PTL DEF Spec
<1>2. BudgetInv => GuessBudget BY DEF BudgetInv
<1> QED BY <1>1, <1>2, PTL

-----------------------------------------------------------------------------
(***************************************************************************)
(* Who is out. A user whose PIN the history notes as removed has none, and *)
(* no sign-in that would write one back; one whose devices it notes as     *)
(* ended has, besides, no sign-in left that would bind one.                *)
(***************************************************************************)
NoWriteBack == \A a \in Attempts : att[a].key \in cleared => att[a].pc # "rehash"

NoDevice ==
    \A a \in Attempts :
        att[a].key \in shut => /\ att[a].pc # "clear"
                               /\ att[a].pc # "bind"
                               /\ att[a].pc = "bound" => a \in revoked

NoPIN == \A u \in cleared : cred[u] = None

OutInv == TypeOK /\ shut \subseteq cleared /\ NoPIN /\ NoWriteBack /\ NoDevice

LEMMA OutInit == Init => OutInv
BY TypeInit DEF Init, OutInv, NoPIN, NoWriteBack, NoDevice

\* What a step of sign-in a must respect to keep the invariant.
LEMMA OutKept ==
    ASSUME OutInv, NEW a \in Attempts, NEW p \in PCs, Goto(a, p),
           UNCHANGED <<revoked, cleared, shut>>,
           p = "rehash" => att[a].key \notin cleared,
           p \in {"clear", "bind", "bound"} => att[a].key \notin shut
    PROVE  NoWriteBack' /\ NoDevice'
<1>1. att'[a].pc = p /\ \A b \in Attempts : /\ att'[b].key = att[b].key
                                            /\ b # a => att'[b].pc = att[b].pc
  BY GotoType DEF OutInv, TypeOK
<1>2. NoWriteBack' BY <1>1 DEF OutInv, NoWriteBack
<1>3. NoDevice' BY <1>1 DEF OutInv, NoDevice
<1> QED BY <1>2, <1>3

LEMMA OutStep ==
    ASSUME OutInv, [Next]_vars PROVE OutInv'
<1> DEFINE Kept == shut' \subseteq cleared' /\ NoPIN' /\ NoWriteBack' /\ NoDevice'
<1>0. TypeOK' BY TypeStep DEF OutInv
<1>1. ASSUME NEW a \in Attempts,
             \/ CheckBudget(a) \/ RecordFailedLoginAttempt(a) \/ Recount(a)
             \/ IsAccountLocked(a) \/ Fails(a)
      PROVE  Kept
  <2>1. PICK p \in {"record", "recount", "adminlock", "verify", "locked", "failed"} : Goto(a, p)
    BY <1>1 DEF CheckBudget, RecordFailedLoginAttempt, Recount, IsAccountLocked, Fails
  <2>2. UNCHANGED <<cred, revoked, cleared, shut>>
    BY <1>1 DEF CheckBudget, RecordFailedLoginAttempt, Recount, IsAccountLocked, Fails, history
  <2>3. NoWriteBack' /\ NoDevice'
    BY <2>1, <2>2, PCsList, OutKept
  <2> QED BY <2>2, <2>3 DEF OutInv, NoPIN
<1>2. ASSUME NEW a \in Attempts, Verify(a) PROVE Kept
  <2>1. PICK p \in {"rehash", "clear", "failed"} :
           Goto(a, p) /\ (p # "failed" => att[a].key \in Users /\ cred[att[a].key] # None)
    BY <1>2 DEF Verify
  <2>2. p # "failed" => att[a].key \notin cleared /\ att[a].key \notin shut
    BY <2>1 DEF OutInv, NoPIN
  <2>3. UNCHANGED <<cred, revoked, cleared, shut>>
    BY <1>2 DEF Verify, history
  <2>4. NoWriteBack' /\ NoDevice'
    BY <2>1, <2>2, <2>3, PCsList, OutKept
  <2> QED BY <2>3, <2>4 DEF OutInv, NoPIN
<1>3. ASSUME NEW a \in Attempts, rehashIfNeeded(a) PROVE Kept
  <2>1. att[a].pc = "rehash" /\ Goto(a, "clear") BY <1>3 DEF rehashIfNeeded
  <2>2. att[a].key \notin cleared /\ att[a].key \notin shut
    BY <2>1 DEF OutInv, NoWriteBack
  <2>3. UNCHANGED <<revoked, cleared, shut>>
    BY <1>3 DEF rehashIfNeeded, history
  <2>4. NoPIN'
    <3> DEFINE c == [pin |-> att[a].pin, weak |-> FALSE]
    <3>1. cred' = cred \/ cred' = [cred EXCEPT ![att[a].key] = c]
      BY <1>3 DEF rehashIfNeeded, SetPINCredential
    <3> HIDE DEF c
    <3>2. \A u \in cleared : cred'[u] = cred[u]
      BY <2>2, <3>1 DEF OutInv, TypeOK
    <3> QED BY <2>3, <3>2 DEF OutInv, NoPIN
  <2>5. NoWriteBack' /\ NoDevice'
    <3>1. att'[a].pc = "clear" /\ \A b \in Attempts : /\ att'[b].key = att[b].key
                                                      /\ b # a => att'[b].pc = att[b].pc
      BY <2>1, PCsList, GotoType DEF OutInv, TypeOK
    <3>2. NoWriteBack' BY <2>3, <3>1 DEF OutInv, NoWriteBack
    <3>3. NoDevice' BY <2>2, <2>3, <3>1 DEF OutInv, NoDevice
    <3> QED BY <3>2, <3>3
  <2> QED BY <2>3, <2>4, <2>5 DEF OutInv
<1>4. ASSUME NEW a \in Attempts, Refund(a) \/ Bind(a) PROVE Kept
  <2>1. att[a].key \notin shut
    BY <1>4 DEF Refund, Bind, OutInv, NoDevice
  <2>2. PICK p \in {"bind", "failed", "bound"} : Goto(a, p)
    BY <1>4 DEF Refund, Bind
  <2>3. UNCHANGED <<cred, revoked, cleared, shut>>
    BY <1>4 DEF Refund, Bind, history
  <2>4. NoWriteBack' /\ NoDevice'
    BY <2>1, <2>2, <2>3, PCsList, OutKept
  <2> QED BY <2>3, <2>4 DEF OutInv, NoPIN
<1>5. ASSUME NEW a \in Attempts, NEW k \in Keys, NEW p \in Pins, SignIn(a, k, p) PROVE Kept
  <2>1. /\ att'[a].pc = "count"
        /\ \A b \in Attempts : b # a => att'[b] = att[b]
        /\ UNCHANGED <<cred, revoked, cleared, shut>>
    BY <1>5 DEF SignIn, history, OutInv, TypeOK
  <2> QED BY <2>1 DEF OutInv, NoPIN, NoWriteBack, NoDevice
<1>6. ASSUME NEW o \in Operators, NEW u \in Users, NEW p \in Pins, NEW w \in BOOLEAN,
             storePIN(o, u, p, w)
      PROVE  Kept
  <2> DEFINE c == [pin |-> p, weak |-> w]
  <2>1. NoPIN'
    <3>1. cred' = [cred EXCEPT ![u] = c] /\ cleared' = cleared \ {u}
      BY <1>6 DEF storePIN, SetPINCredential
    <3> HIDE DEF c
    <3> QED BY <3>1 DEF OutInv, TypeOK, NoPIN
  <2> QED BY <1>6, <2>1 DEF storePIN, OutInv, NoWriteBack, NoDevice
<1>7. ASSUME NEW u \in Users, ClearPIN(u) PROVE Kept
  <2>1. NoPIN'
    BY <1>7 DEF ClearPIN, OutInv, TypeOK, NoPIN
  <2>2. NoWriteBack'
    BY <1>7 DEF ClearPIN, OutInv, SignsIn, NoWriteBack
  <2> QED BY <1>7, <2>1, <2>2 DEF ClearPIN, OutInv, NoDevice
<1>8. ASSUME NEW u \in Users, RevokeAllDevices(u) PROVE Kept
  <2>1. shut' \subseteq cleared
    BY <1>8 DEF RevokeAllDevices, OutInv
  <2>2. NoDevice'
    <3>1. ASSUME NEW a \in Attempts, att[a].key \in shut'
          PROVE  /\ att[a].pc # "clear" /\ att[a].pc # "bind"
                 /\ att[a].pc = "bound" => a \in revoked'
      <4>1. CASE att[a].key \in shut
        <5>1. revoked \subseteq revoked'
          BY <1>8 DEF RevokeAllDevices, RevokeAllBoundDevices, DevicesOf
        <5> QED BY <4>1, <5>1 DEF OutInv, NoDevice
      <4>2. CASE att[a].key \notin shut
        <5>1. att[a].key = u /\ ~SignsIn(u, {"clear", "bind"})
          BY <1>8, <3>1, <4>2 DEF RevokeAllDevices
        <5>2. att[a].pc = "bound" => a \in revoked'
          BY <1>8, <5>1 DEF RevokeAllDevices, RevokeAllBoundDevices, DevicesOf
        <5>3. att[a].pc \notin {"clear", "bind"} BY <5>1 DEF SignsIn
        <5> QED BY <5>2, <5>3
      <4> QED BY <4>1, <4>2
    <3>2. att' = att BY <1>8 DEF RevokeAllDevices
    <3> QED BY <3>1, <3>2 DEF NoDevice
  <2> QED BY <1>8, <2>1, <2>2 DEF RevokeAllDevices, OutInv, NoPIN, NoWriteBack
<1>9. ASSUME UNCHANGED <<cred, att, cleared, shut>>, revoked \subseteq revoked' PROVE Kept
  BY <1>9 DEF OutInv, NoPIN, NoWriteBack, NoDevice
<1>10. ASSUME NEW a \in Attempts, RevokeDevice(a) PROVE Kept
  BY <1>10, <1>9 DEF RevokeDevice, history
<1>11. ASSUME NEW o \in Operators, LiftLock(o) PROVE Kept
  BY <1>11, <1>9 DEF LiftLock, history
<1>12. ASSUME NEW u \in Users, NEW on \in BOOLEAN, SetLocked(u, on) PROVE Kept
  BY <1>12, <1>9 DEF SetLocked, history
<1>13. CASE Tick BY <1>13, <1>9, <1>0 DEF Tick, history, OutInv
<1>14. CASE UNCHANGED vars BY <1>14, <1>9, <1>0 DEF vars, history, OutInv
<1> HIDE DEF Kept
<1>15. CASE \E a \in Attempts : Step(a)
  <2>1. Kept BY <1>15, <1>1, <1>2, <1>3, <1>4 DEF Step
  <2> QED BY <2>1, <1>0 DEF OutInv, Kept
<1>16. CASE ~\E a \in Attempts : Step(a)
  <2>1. CASE Tick \/ UNCHANGED vars BY <2>1, <1>13, <1>14
  <2>2. CASE ~(Tick \/ UNCHANGED vars)
    <3>1. Kept
      BY <1>16, <2>2, <1>5, <1>6, <1>7, <1>8, <1>10, <1>11, <1>12 DEF Next, SetPIN, ImportPINHash
    <3> QED BY <3>1, <1>0 DEF OutInv, Kept
  <2> QED BY <2>1, <2>2
<1> QED BY <1>15, <1>16

\* Whatever sign-ins are under way, imported PINs included, a user without a PIN
\* whose devices were ended has none live until an operator stores a PIN.
THEOREM ShutOutHolds == Spec => []ShutOut
<1>1. Spec => []OutInv BY OutInit, OutStep, PTL DEF Spec
<1>2. OutInv => ShutOut BY DEF OutInv, NoDevice, ShutOut, DevicesOf
<1> QED BY <1>1, <1>2, PTL

-----------------------------------------------------------------------------
(***************************************************************************)
(* The second factor: what every request relies on, whatever races it, and *)
(* what holds besides while requests have come one after another.          *)
(***************************************************************************)
Verifying == {"throttle", "check", "issue", "retire", "session"}

\* A login in state q has a pending token, of the tokens pend, that bought
\* nothing before it began.
KnowsToken(q, pend) ==
    /\ q.pc \in Verifying => q.token \in Pendings
    /\ q.pc = "session" => q.token \notin pend
    /\ q.pc \in {"confirm", "regenerate", "issue"} => q.read \in Settings
    /\ q.late = FALSE

\* What the only request under way has read is still so.
InStep(q) ==
    /\ q.pc = "begin" => NotEnabled
    /\ q.pc \in {"confirm", "regenerate", "issue"} => totp # Absent /\ q.read.on = totp.on
    /\ q.pc = "issue" => q.read.codes \subseteq totp.codes \ {q.code}
    /\ q.pc \in {"issue", "retire", "session"} /\ q.code \in Codes => used[q.code] = 0 /\ q.code[1] <= batch
    /\ q.pc \in {"retire", "session"} /\ q.code \in Codes /\ totp # Absent => q.code \notin totp.codes
    /\ q.pc \in Verifying => bought[q.token] = 0
    /\ q.pc \in {"badPassword", "check", "badCode"} => failures < MaxFailedLogins

\* No code on file has been used, nor one of a set not made yet.
CodesAreGood ==
    /\ totp # Absent => \A c \in totp.codes : used[c] = 0 /\ c[1] <= batch
    /\ \A c \in Codes : used[c] <= 1 /\ (used[c] > 0 => c[1] <= batch)

OneAtATime == \A r, s \in Calls : r # s => call[r] = TIdle \/ call[s] = TIdle

Orderly ==
    /\ OneAtATime
    /\ \A r \in Calls : InStep(call[r])
    /\ CodesAreGood
    /\ \A p \in Pendings : bought[p] <= 1
    /\ failures <= MaxFailedLogins

TwoFactorInv ==
    /\ TwoFactorTypeOK
    /\ \A r \in Calls : KnowsToken(call[r], pending)
    /\ \A p \in Pendings : bought[p] > 0 => p \notin pending
    /\ tries <= failures
    /\ ~overlap => Orderly

-----------------------------------------------------------------------------
\* What the types come to.
LEMMA TwoFactorTypes ==
    ASSUME TwoFactorInv
    PROVE  /\ hasTx \in BOOLEAN /\ totp \in Settings \cup {Absent} /\ batch \in 0 .. MaxBatches /\ batch \in Nat
           /\ pending \subseteq Pendings /\ failures \in 0 .. Cap /\ failures \in Nat /\ call \in [Calls -> Call]
           /\ bought \in [Pendings -> 0 .. 2] /\ used \in [Codes -> 0 .. 2] /\ tries \in 0 .. Cap /\ tries \in Nat
           /\ overlap \in BOOLEAN /\ MaxBatches \in Nat /\ CodeCount \in Nat /\ MaxFailedLogins \in Nat
           /\ MaxFailedLogins > 0 /\ Absent \notin Settings /\ Cap = MaxFailedLogins + 1
BY TwoFactorAssumption, AbsentAssumption DEF TwoFactorInv, TwoFactorTypeOK, Cap

\* A backup code is of a set that can be generated, and is no other input.
LEMMA CodesAre ==
    /\ Totp \notin Codes /\ Wrong \notin Codes /\ Codes \subseteq Input
    /\ Totp \in Input /\ Wrong \in Input
    /\ \A c \in Codes : c[1] \in 1 .. MaxBatches
    /\ \A b \in 1 .. MaxBatches : Fresh(b) \subseteq Codes /\ \A c \in Fresh(b) : c[1] = b
<1>1. MaxBatches \in Nat /\ CodeCount \in Nat
  BY TwoFactorAssumption
<1>. QED  BY <1>1 DEF Totp, Wrong, Codes, Input, Fresh

LEMMA IdleRequest ==
    /\ TIdle \in Call /\ TIdle.pc = "idle" /\ TIdle.token = Absent /\ TIdle.late = FALSE
    /\ TIdle.read = Absent /\ TIdle.code = Wrong
    /\ \A pend : KnowsToken(TIdle, pend)
    /\ InStep(TIdle)
<1>1. TIdle \in Call /\ TIdle.pc = "idle" /\ TIdle.token = Absent /\ TIdle.read = Absent /\ TIdle.code = Wrong
  BY CodesAre DEF TIdle, Call, Stages
<1>2. TIdle.late = FALSE
  BY DEF TIdle
<1>. QED  BY <1>1, <1>2 DEF KnowsToken, InStep, Verifying

\* Between no failures and too many of them.
LEMMA Counting ==
    /\ \A n \in 0 .. 2 : UpTo(n, 2) \in 0 .. 2 /\ UpTo(n, 2) > 0 /\ (n = 0 => UpTo(n, 2) = 1)
    /\ \A n \in 0 .. Cap : UpTo(n, Cap) \in 0 .. Cap /\ UpTo(n, Cap) <= n + 1 /\ n <= UpTo(n, Cap)
    /\ \A n, m \in 0 .. Cap : n <= m => UpTo(n, Cap) <= UpTo(m, Cap)
<1>1. Cap \in Nat
  BY TwoFactorAssumption DEF Cap
<1>. QED  BY <1>1 DEF UpTo

\* Of requests made one after another, the one under way is alone.
LEMMA Alone ==
    ASSUME TwoFactorInv, ~overlap, NEW r \in Calls, call[r].pc # "idle"
    PROVE  Orderly /\ InStep(call[r]) /\ \A s \in Calls \ {r} : call[s] = TIdle
BY IdleRequest DEF TwoFactorInv, Orderly, OneAtATime

\* One request turns into q, and the tables become what they become.
LEMMA RequestMoves ==
    ASSUME TwoFactorInv, NEW r \in Calls, NEW q \in Call, call' = [call EXCEPT ![r] = q],
           UNCHANGED hasTx, totp' \in Settings \cup {Absent}, batch' \in 0 .. MaxBatches, pending' \subseteq Pendings,
           failures' \in 0 .. Cap, bought' \in [Pendings -> 0 .. 2], used' \in [Codes -> 0 .. 2],
           tries' \in 0 .. Cap, overlap' \in BOOLEAN,
           ~overlap' => ~overlap /\ \A s \in Calls \ {r} : call[s] = TIdle,
           \A s \in Calls : call[s].token \in pending' => call[s].token \in pending,
           KnowsToken(q, pending'),
           \A p \in Pendings : bought'[p] > 0 => p \notin pending',
           tries' <= failures',
           ~overlap' => InStep(q)',
           ~overlap' => CodesAreGood',
           ~overlap' => failures' <= MaxFailedLogins /\ \A p \in Pendings : bought'[p] <= 1
    PROVE  TwoFactorInv'
<1>1. call' \in [Calls -> Call] /\ \A s \in Calls : call'[s] = IF s = r THEN q ELSE call[s]
  BY TwoFactorTypes
<1>2. TwoFactorTypeOK'
  BY <1>1, TwoFactorTypes DEF TwoFactorTypeOK
<1>3. ASSUME NEW s \in Calls PROVE KnowsToken(call'[s], pending')
  <2>1. CASE s = r
    BY <1>1, <2>1
  <2>2. CASE s # r
    <3>1. KnowsToken(call[s], pending) /\ call'[s] = call[s]
      BY <1>1, <2>2 DEF TwoFactorInv
    <3>. QED  BY <3>1 DEF KnowsToken
  <2>. QED  BY <2>1, <2>2
<1>4. ASSUME ~overlap' PROVE Orderly'
  <2>1. \A s \in Calls : call'[s] = IF s = r THEN q ELSE TIdle
    BY <1>1, <1>4
  <2>2. OneAtATime'
    BY <2>1 DEF OneAtATime
  <2>3. \A s \in Calls : InStep(call[s])'
    BY <2>1, <1>4, IdleRequest DEF InStep, Verifying
  <2>. QED  BY <1>4, <2>2, <2>3 DEF Orderly
<1>. QED  BY <1>2, <1>3, <1>4 DEF TwoFactorInv

\* A request moves and writes nothing.
LEMMA RequestReads ==
    ASSUME TwoFactorInv, NEW r \in Calls, NEW q \in Call, call' = [call EXCEPT ![r] = q],
           UNCHANGED <<hasTx, totp, batch, pending, failures, bought, used, tries>>, overlap' \in BOOLEAN,
           ~overlap' => ~overlap /\ \A s \in Calls \ {r} : call[s] = TIdle,
           KnowsToken(q, pending),
           ~overlap /\ Orderly => InStep(q)
    PROVE  TwoFactorInv'
<1>1. ~overlap' => Orderly
  BY DEF TwoFactorInv
<1>2. ~overlap' => CodesAreGood' /\ failures' <= MaxFailedLogins /\ \A p \in Pendings : bought'[p] <= 1
  BY <1>1 DEF Orderly, CodesAreGood
<1>3. ~overlap' => InStep(q)'
  BY <1>1 DEF InStep, NotEnabled
<1>4. \A p \in Pendings : bought'[p] > 0 => p \notin pending'
  BY DEF TwoFactorInv
<1>5. tries' <= failures'
  BY DEF TwoFactorInv
<1>. QED  BY <1>2, <1>3, <1>4, <1>5, TwoFactorTypes, RequestMoves

\* A request begins in state q, which is what it has read.
LEMMA RequestStarts ==
    ASSUME TwoFactorInv, NEW r \in Calls, NEW q \in Call, Start(r, q),
           UNCHANGED <<hasTx, totp, batch, pending, failures, bought, used, tries>>,
           KnowsToken(q, pending), ~overlap /\ Orderly => InStep(q)
    PROVE  TwoFactorInv'
<1>1. call' = [call EXCEPT ![r] = q] /\ overlap' = (overlap \/ \E s \in Calls \ {r} : call[s] # TIdle)
  BY DEF Start
<1>2. overlap' \in BOOLEAN /\ (~overlap' => ~overlap /\ \A s \in Calls \ {r} : call[s] = TIdle)
  BY <1>1, TwoFactorTypes
<1>. QED  BY <1>1, <1>2, RequestReads

\* A request under way goes on to pc k.
LEMMA Entered ==
    ASSUME TwoFactorInv, NEW r \in Calls, NEW k \in Stages, Enter(r, k)
    PROVE  \E q \in Call : /\ call' = [call EXCEPT ![r] = q] /\ q.pc = k /\ q.read = call[r].read
                           /\ q.token = call[r].token /\ q.code = call[r].code /\ q.late = FALSE
<1>1. PICK o : o = call[r]
  OBVIOUS
<1>2. PICK q : q = [o EXCEPT !.pc = k]
  OBVIOUS
<1>3. o \in Call /\ o.late = FALSE
  BY <1>1, TwoFactorTypes DEF TwoFactorInv, KnowsToken
<1>4. call' = [call EXCEPT ![r] = q]
  BY <1>1, <1>2 DEF Enter
<1>5. q \in Call /\ q.pc = k /\ q.read = o.read /\ q.token = o.token /\ q.code = o.code
  BY <1>2, <1>3 DEF Call
<1>6. q.late = o.late
  BY <1>2, <1>3 DEF Call
<1>. QED  BY <1>1, <1>3, <1>4, <1>5, <1>6

\* What a request does once it has begun is not the beginning of another.
LEMMA GoesOn ==
    ASSUME TwoFactorInv, NEW r \in Calls, call[r].pc # "idle", UNCHANGED overlap
    PROVE  /\ overlap' \in BOOLEAN
           /\ ~overlap' => ~overlap /\ \A s \in Calls \ {r} : call[s] = TIdle
           /\ ~overlap' => Orderly /\ InStep(call[r])
BY Alone, TwoFactorTypes

\* A request that ends without a write.
LEMMA ReturnKeeps ==
    ASSUME TwoFactorInv, NEW r \in Calls, call[r].pc # "idle", TReturn(r),
           UNCHANGED <<hasTx, totp, batch, pending, failures, bought, used, tries, overlap>>
    PROVE  TwoFactorInv'
<1>1. call' = [call EXCEPT ![r] = TIdle]
  BY DEF TReturn
<1>. QED  BY <1>1, GoesOn, IdleRequest, RequestReads

-----------------------------------------------------------------------------
LEMMA BeginKeeps == ASSUME TwoFactorInv, NEW r \in Calls, BeginTwoFactorSetup(r) PROVE TwoFactorInv'
<1>1. PICK q : q = [TIdle EXCEPT !.pc = "begin"]
  OBVIOUS
<1>2. q \in Call /\ q.pc = "begin"
  BY <1>1, IdleRequest DEF Call, Stages
<1>3. q.late = FALSE
  BY <1>1 DEF TIdle
<1>4. Start(r, q) /\ NotEnabled /\ UNCHANGED <<hasTx, totp, batch, pending, failures, bought, used, tries>>
  BY <1>1 DEF BeginTwoFactorSetup
<1>5. KnowsToken(q, pending) /\ InStep(q)
  BY <1>2, <1>3, <1>4 DEF KnowsToken, InStep, Verifying
<1>. QED  BY <1>2, <1>4, <1>5, RequestStarts

LEMMA ReadKeeps ==
    ASSUME TwoFactorInv, NEW r \in Calls, NEW pc \in {"confirm", "disable", "regenerate"}, NEW code \in Input,
           getDecryptedTOTPSettings(r, pc, code)
    PROVE  TwoFactorInv'
<1>1. PICK q : q = [TIdle EXCEPT !.pc = pc, !.read = totp]
  OBVIOUS
<1>2. Start(r, q) /\ totp # Absent /\ UNCHANGED <<hasTx, totp, batch, pending, failures, bought, used, tries>>
  BY <1>1 DEF getDecryptedTOTPSettings
<1>3. q \in Call /\ q.pc = pc /\ q.read = totp
  BY <1>1, IdleRequest, TwoFactorTypes DEF Call, Stages
<1>4. q.late = FALSE
  BY <1>1 DEF TIdle
<1>5. KnowsToken(q, pending) /\ InStep(q)
  BY <1>2, <1>3, <1>4, TwoFactorTypes DEF KnowsToken, InStep, Verifying
<1>. QED  BY <1>2, <1>3, <1>5, RequestStarts

LEMMA ResetKeeps == ASSUME TwoFactorInv, NEW r \in Calls, ResetTwoFactor(r) PROVE TwoFactorInv'
<1>1. PICK q : q = [TIdle EXCEPT !.pc = "reset"]
  OBVIOUS
<1>2. q \in Call /\ q.pc = "reset"
  BY <1>1, IdleRequest DEF Call, Stages
<1>3. q.late = FALSE
  BY <1>1 DEF TIdle
<1>4. Start(r, q) /\ UNCHANGED <<hasTx, totp, batch, pending, failures, bought, used, tries>>
  BY <1>1 DEF ResetTwoFactor
<1>5. KnowsToken(q, pending) /\ InStep(q)
  BY <1>2, <1>3 DEF KnowsToken, InStep, Verifying
<1>. QED  BY <1>2, <1>4, <1>5, RequestStarts

LEMMA AuthenticateKeeps ==
    ASSUME TwoFactorInv, NEW r \in Calls, NEW right \in BOOLEAN, TAuthenticate(r, right)
    PROVE  TwoFactorInv'
<1>1. PICK k \in {"password", "badPassword"} : k = IF right THEN "password" ELSE "badPassword"
  OBVIOUS
<1>2. PICK q : q = [TIdle EXCEPT !.pc = k]
  OBVIOUS
<1>3. Start(r, q) /\ ~tooManyFailures /\ UNCHANGED <<hasTx, totp, batch, pending, failures, bought, used, tries>>
  BY <1>1, <1>2 DEF TAuthenticate
<1>4. q \in Call /\ q.pc = k
  BY <1>2, IdleRequest DEF Call, Stages
<1>5. q.late = FALSE
  BY <1>2 DEF TIdle
<1>6. KnowsToken(q, pending) /\ InStep(q)
  BY <1>3, <1>4, <1>5, TwoFactorTypes DEF KnowsToken, InStep, Verifying, tooManyFailures
<1>. QED  BY <1>3, <1>4, <1>6, RequestStarts

LEMMA VerifyKeeps ==
    ASSUME TwoFactorInv, NEW r \in Calls, NEW p \in Pendings, NEW code \in Input, VerifyTwoFactorLogin(r, p, code)
    PROVE  TwoFactorInv'
<1>1. PICK q : q = [TIdle EXCEPT !.pc = "throttle", !.token = p, !.code = code, !.late = bought[p] > 0]
  OBVIOUS
<1>2. Start(r, q) /\ p \in pending /\ UNCHANGED <<hasTx, totp, batch, pending, failures, bought, used, tries>>
  BY <1>1 DEF VerifyTwoFactorLogin
<1>3. bought[p] = 0
  BY <1>2, TwoFactorTypes DEF TwoFactorInv
<1>4. q = [pc |-> "throttle", read |-> Absent, token |-> p, code |-> code, late |-> FALSE]
  <2>1. (bought[p] > 0) = FALSE
    BY <1>3
  <2>2. q = [TIdle EXCEPT !.pc = "throttle", !.token = p, !.code = code, !.late = FALSE]
    BY <1>1, <2>1, Zenon
  <2>. QED  BY <2>2 DEF TIdle
<1>5. q \in Call /\ q.pc = "throttle" /\ q.token = p
  BY <1>4 DEF Call, Stages
<1>6. q.late = FALSE
  BY <1>4
<1>7. KnowsToken(q, pending) /\ InStep(q)
  BY <1>3, <1>5, <1>6 DEF KnowsToken, InStep, Verifying
<1>. QED  BY <1>2, <1>5, <1>7, RequestStarts

LEMMA UpsertKeeps == ASSUME TwoFactorInv, NEW r \in Calls, upsertTOTPSettings(r) PROVE TwoFactorInv'
<1>1. /\ call[r].pc = "begin" /\ totp' = [on |-> FALSE, codes |-> {}] /\ call' = [call EXCEPT ![r] = TIdle]
      /\ UNCHANGED <<hasTx, batch, pending, failures, bought, used, tries, overlap>>
  BY DEF upsertTOTPSettings, TReturn
<1>2. totp' \in Settings /\ totp'.codes = {}
  BY <1>1 DEF Settings
<1>3. ~overlap' => Orderly
  BY <1>1, GoesOn
<1>4. ~overlap' => CodesAreGood' /\ InStep(TIdle)'
  BY <1>1, <1>2, <1>3, IdleRequest DEF Orderly, CodesAreGood, InStep, Verifying
<1>5. ~overlap' => failures' <= MaxFailedLogins /\ \A p \in Pendings : bought'[p] <= 1
  BY <1>1, <1>3 DEF Orderly
<1>6. tries' <= failures' /\ \A p \in Pendings : bought'[p] > 0 => p \notin pending'
  BY <1>1 DEF TwoFactorInv
<1>. QED  BY <1>1, <1>2, <1>4, <1>5, <1>6, GoesOn, IdleRequest, TwoFactorTypes, RequestMoves

LEMMA NewCodesKeeps == ASSUME TwoFactorInv, NEW r \in Calls, NewCodes(r) PROVE TwoFactorInv'
<1>1. PICK b \in 1 .. MaxBatches : b = batch + 1 /\ batch' = b
  BY TwoFactorTypes DEF NewCodes
<1>2. /\ call[r].pc \in {"confirm", "regenerate"} /\ call' = [call EXCEPT ![r] = TIdle]
      /\ UNCHANGED <<hasTx, pending, failures, bought, used, tries, overlap>>
  BY DEF NewCodes, TReturn
<1>3. PICK o \in BOOLEAN : o = (call[r].pc = "confirm" \/ call[r].read.on)
  OBVIOUS
<1>4. PICK s : s = [on |-> o, codes |-> Fresh(b)]
  OBVIOUS
<1>5. s \in Settings /\ s.codes = Fresh(b)
  BY <1>4, CodesAre DEF Settings
<1>6. totp' = totp \/ totp' = s
  BY <1>1, <1>3, <1>4 DEF NewCodes, UpdateTOTPSettings
<1>7. ~overlap' => Orderly
  BY <1>2, GoesOn
<1>8. ASSUME ~overlap' PROVE CodesAreGood'
  <2>1. CodesAreGood
    BY <1>7, <1>8 DEF Orderly
  <2>2. \A c \in Codes : used'[c] <= 1 /\ (used'[c] > 0 => c[1] <= batch') /\ c[1] \in Nat
    BY <1>1, <1>2, <2>1, CodesAre, TwoFactorTypes DEF CodesAreGood
  <2>3. \A c \in Fresh(b) : c \in Codes /\ c[1] = b /\ used'[c] = 0
    <3>1. \A c \in Fresh(b) : c \in Codes /\ c[1] = b
      BY CodesAre
    <3>2. \A c \in Fresh(b) : ~(used[c] > 0)
      BY <1>1, <2>1, <3>1, TwoFactorTypes DEF CodesAreGood
    <3>. QED  BY <1>2, <3>1, <3>2, TwoFactorTypes
  <2>4. CASE totp' = s
    BY <1>1, <1>5, <2>2, <2>3, <2>4 DEF CodesAreGood
  <2>5. CASE totp' = totp
    <3>1. \A c \in Codes : c[1] <= batch => c[1] <= batch'
      BY <1>1, <2>2, TwoFactorTypes
    <3>2. totp # Absent => totp.codes \subseteq Codes
      BY TwoFactorTypes DEF Settings
    <3>. QED  BY <1>2, <2>1, <2>2, <2>5, <3>1, <3>2 DEF CodesAreGood
  <2>. QED  BY <1>6, <2>4, <2>5
<1>9. InStep(TIdle)'
  BY IdleRequest DEF InStep, Verifying
<1>10. ~overlap' => failures' <= MaxFailedLogins /\ \A p \in Pendings : bought'[p] <= 1
  BY <1>2, <1>7 DEF Orderly
<1>11. tries' <= failures' /\ \A p \in Pendings : bought'[p] > 0 => p \notin pending'
  BY <1>2 DEF TwoFactorInv
<1>12. totp' \in Settings \cup {Absent} /\ batch' \in 0 .. MaxBatches
  BY <1>1, <1>5, <1>6, TwoFactorTypes
<1>. QED  BY <1>2, <1>8, <1>9, <1>10, <1>11, <1>12, GoesOn, IdleRequest, TwoFactorTypes, RequestMoves

LEMMA DisableKeeps ==
    ASSUME TwoFactorInv, NEW r \in Calls, DisableTwoFactor(r) \/ DeleteTOTPSettings(r)
    PROVE  TwoFactorInv'
<1>1. /\ call[r].pc \in {"disable", "reset"} /\ totp' = Absent /\ call' = [call EXCEPT ![r] = TIdle]
      /\ UNCHANGED <<hasTx, batch, pending, failures, bought, used, tries, overlap>>
  BY DEF DisableTwoFactor, DeleteTOTPSettings, TReturn
<1>2. ~overlap' => Orderly
  BY <1>1, GoesOn
<1>3. ~overlap' => CodesAreGood' /\ InStep(TIdle)'
  BY <1>1, <1>2, IdleRequest DEF Orderly, CodesAreGood, InStep, Verifying
<1>4. ~overlap' => failures' <= MaxFailedLogins /\ \A p \in Pendings : bought'[p] <= 1
  BY <1>1, <1>2 DEF Orderly
<1>5. tries' <= failures' /\ \A p \in Pendings : bought'[p] > 0 => p \notin pending'
  BY <1>1 DEF TwoFactorInv
<1>. QED  BY <1>1, <1>3, <1>4, <1>5, GoesOn, IdleRequest, TwoFactorTypes, RequestMoves

LEMMA RecordKeeps == ASSUME TwoFactorInv, NEW r \in Calls, TRecordFailedLogin(r) PROVE TwoFactorInv'
<1>1. /\ call[r].pc \in {"badPassword", "badCode"} /\ failures' = UpTo(failures, Cap) /\ call' = [call EXCEPT ![r] = TIdle]
      /\ tries' = UpTo(tries, Cap) \/ tries' = tries
      /\ UNCHANGED <<hasTx, totp, batch, pending, bought, used, overlap>>
  BY DEF TRecordFailedLogin, TReturn
<1>2. tries <= failures
  BY DEF TwoFactorInv
<1>3. failures' \in 0 .. Cap /\ tries' \in 0 .. Cap /\ tries' <= failures' /\ failures' <= failures + 1
  BY <1>1, <1>2, Counting, TwoFactorTypes
<1>4. ~overlap' => Orderly /\ InStep(call[r])
  BY <1>1, GoesOn
<1>5. ~overlap' => failures < MaxFailedLogins
  BY <1>1, <1>4 DEF InStep
<1>6. ~overlap' => failures' <= MaxFailedLogins /\ \A p \in Pendings : bought'[p] <= 1
  BY <1>1, <1>3, <1>4, <1>5, TwoFactorTypes DEF Orderly
<1>7. ~overlap' => CodesAreGood' /\ InStep(TIdle)'
  BY <1>1, <1>4, IdleRequest DEF Orderly, CodesAreGood, InStep, Verifying
<1>8. \A p \in Pendings : bought'[p] > 0 => p \notin pending'
  BY <1>1 DEF TwoFactorInv
<1>. QED  BY <1>1, <1>3, <1>6, <1>7, <1>8, GoesOn, IdleRequest, TwoFactorTypes, RequestMoves

LEMMA ReadSettingsKeeps == ASSUME TwoFactorInv, NEW r \in Calls, ReadSettings(r) PROVE TwoFactorInv'
<1>1. PICK k \in Stages : k = IF totp # Absent /\ totp.on THEN "pend" ELSE "clear"
  BY DEF Stages
<1>2. Enter(r, k)
  BY <1>1 DEF ReadSettings
<1>3. call[r].pc = "password" /\ UNCHANGED <<hasTx, totp, batch, pending, failures, bought, used, tries, overlap>>
  BY DEF ReadSettings
<1>4. PICK q \in Call : /\ call' = [call EXCEPT ![r] = q] /\ q.pc = k /\ q.read = call[r].read
                        /\ q.token = call[r].token /\ q.code = call[r].code /\ q.late = FALSE
  BY <1>2, Entered
<1>5. q.pc \in {"pend", "clear"}
  BY <1>1, <1>4
<1>6. KnowsToken(q, pending) /\ InStep(q)
  BY <1>4, <1>5 DEF KnowsToken, InStep, Verifying
<1>. QED  BY <1>3, <1>4, <1>6, GoesOn, RequestReads

LEMMA PendKeeps == ASSUME TwoFactorInv, NEW r \in Calls, createPendingTwoFactorSession(r) PROVE TwoFactorInv'
<1>1. PICK p \in Pendings \ pending : bought[p] = 0 /\ (\A s \in Calls : call[s].token # p) /\ pending' = pending \cup {p}
  BY DEF createPendingTwoFactorSession
<1>2. /\ call[r].pc = "pend" /\ call' = [call EXCEPT ![r] = TIdle]
      /\ UNCHANGED <<hasTx, totp, batch, failures, bought, used, tries, overlap>>
  BY DEF createPendingTwoFactorSession, TReturn
<1>3. ~overlap' => Orderly
  BY <1>2, GoesOn
<1>4. ~overlap' => CodesAreGood' /\ InStep(TIdle)'
  BY <1>2, <1>3, IdleRequest DEF Orderly, CodesAreGood, InStep, Verifying
<1>5. ~overlap' => failures' <= MaxFailedLogins /\ \A o \in Pendings : bought'[o] <= 1
  BY <1>2, <1>3 DEF Orderly
<1>6. tries' <= failures' /\ \A o \in Pendings : bought'[o] > 0 => o \notin pending'
  BY <1>1, <1>2 DEF TwoFactorInv
<1>7. \A s \in Calls : call[s].token \in pending' => call[s].token \in pending
  BY <1>1
<1>8. pending' \subseteq Pendings
  BY <1>1, TwoFactorTypes
<1>. QED  BY <1>2, <1>4, <1>5, <1>6, <1>7, <1>8, GoesOn, IdleRequest, TwoFactorTypes, RequestMoves

LEMMA CompleteKeeps == ASSUME TwoFactorInv, NEW r \in Calls, Complete(r) PROVE TwoFactorInv'
<1>1. /\ call[r].pc = "clear" /\ failures' = 0 /\ tries' = 0 /\ call' = [call EXCEPT ![r] = TIdle]
      /\ UNCHANGED <<hasTx, totp, batch, pending, bought, used, overlap>>
  BY DEF Complete, TReturn, ClearFailures
<1>2. ~overlap' => Orderly
  BY <1>1, GoesOn
<1>3. ~overlap' => CodesAreGood' /\ InStep(TIdle)'
  BY <1>1, <1>2, IdleRequest DEF Orderly, CodesAreGood, InStep, Verifying
<1>4. ~overlap' => failures' <= MaxFailedLogins /\ \A p \in Pendings : bought'[p] <= 1
  BY <1>1, <1>2, TwoFactorTypes DEF Orderly
<1>5. \A p \in Pendings : bought'[p] > 0 => p \notin pending'
  BY <1>1 DEF TwoFactorInv
<1>6. failures' \in 0 .. Cap /\ tries' \in 0 .. Cap /\ tries' <= failures'
  BY <1>1, TwoFactorTypes
<1>. QED  BY <1>1, <1>3, <1>4, <1>5, <1>6, GoesOn, IdleRequest, TwoFactorTypes, RequestMoves

LEMMA ThrottleKeeps == ASSUME TwoFactorInv, NEW r \in Calls, Throttle(r) PROVE TwoFactorInv'
<1>1. call[r].pc = "throttle" /\ UNCHANGED <<hasTx, totp, batch, pending, failures, bought, used, tries, overlap>>
  BY DEF Throttle
<1>2. CASE TReturn(r)
  BY <1>1, <1>2, ReturnKeeps
<1>3. CASE Enter(r, "check") /\ ~tooManyFailures
  <2>1. PICK q \in Call : call' = [call EXCEPT ![r] = q] /\ q.pc = "check" /\ q.token = call[r].token /\ q.late = FALSE
    <3>1. PICK k \in Stages : k = "check"
      BY DEF Stages
    <3>2. Enter(r, k)
      BY <3>1, <1>3
    <3>3. PICK q \in Call : /\ call' = [call EXCEPT ![r] = q] /\ q.pc = k /\ q.read = call[r].read
                            /\ q.token = call[r].token /\ q.code = call[r].code /\ q.late = FALSE
      BY <3>2, Entered
    <3>. QED  BY <3>1, <3>3
  <2>2. KnowsToken(q, pending)
    BY <1>1, <2>1 DEF TwoFactorInv, KnowsToken, Verifying
  <2>3. failures < MaxFailedLogins
    BY <1>3, TwoFactorTypes DEF tooManyFailures
  <2>4. InStep(call[r]) => InStep(q)
    BY <1>1, <2>1, <2>3 DEF InStep, Verifying
  <2>5. Orderly => InStep(q)
    BY <2>4 DEF Orderly
  <2>. QED  BY <1>1, <2>1, <2>2, <2>5, GoesOn, RequestReads
<1>. QED  BY <1>2, <1>3 DEF Throttle

LEMMA CheckKeeps == ASSUME TwoFactorInv, NEW r \in Calls, CheckCode(r) PROVE TwoFactorInv'
<1>1. call[r].pc = "check" /\ UNCHANGED <<hasTx, totp, batch, pending, failures, bought, used, tries, overlap>>
  BY DEF CheckCode
<1>2. CASE totp = Absent
  BY <1>1, <1>2, ReturnKeeps DEF CheckCode
<1>3. CASE totp # Absent
  <2>1. PICK o : o = call[r]
    OBVIOUS
  <2>2. PICK t : t = [totp EXCEPT !.codes = totp.codes \ {o.code}]
    OBVIOUS
  <2>3. PICK k \in {"issue", "badCode"} : k = IF Valid(totp, o.code) THEN "issue" ELSE "badCode"
    OBVIOUS
  <2>4. PICK q : q = [o EXCEPT !.read = t, !.pc = k]
    OBVIOUS
  <2>5. call' = [call EXCEPT ![r] = q]
    BY <1>3, <2>1, <2>2, <2>3, <2>4 DEF CheckCode
  <2>6. totp \in Settings /\ o \in Call /\ o.late = FALSE /\ o.token \in Pendings
    BY <1>1, <1>3, <2>1, TwoFactorTypes DEF TwoFactorInv, KnowsToken, Verifying
  <2>7. t \in Settings /\ t.codes = totp.codes \ {o.code}
    BY <2>2, <2>6 DEF Settings
  <2>8. t.on = totp.on
    BY <2>2, <2>6 DEF Settings
  <2>9. q \in Call /\ q.pc = k /\ q.read = t /\ q.token = o.token /\ q.code = o.code
    BY <2>4, <2>6, <2>7 DEF Call, Stages
  <2>10. q.late = FALSE
    BY <2>4, <2>6 DEF Call
  <2>11. KnowsToken(q, pending)
    BY <2>6, <2>7, <2>9, <2>10 DEF KnowsToken
  <2>12. ASSUME Orderly PROVE InStep(q)
    <3>1. bought[q.token] = 0 /\ failures < MaxFailedLogins
      BY <1>1, <2>1, <2>9, <2>12 DEF Orderly, InStep, Verifying
    <3>2. q.pc = "issue" /\ q.code \in Codes => q.code \in totp.codes
      BY <2>3, <2>9, CodesAre DEF Valid
    <3>3. q.pc = "issue" /\ q.code \in Codes => used[q.code] = 0 /\ q.code[1] <= batch
      BY <1>3, <2>12, <3>2 DEF Orderly, CodesAreGood
    <3>. QED  BY <1>3, <2>7, <2>8, <2>9, <3>1, <3>3 DEF InStep, Verifying
  <2>. QED  BY <1>1, <2>5, <2>9, <2>11, <2>12, GoesOn, RequestReads
<1>. QED  BY <1>2, <1>3

-----------------------------------------------------------------------------
(***************************************************************************)
(* The writes of a completed login.                                        *)
(***************************************************************************)
\* A code written off leaves settings that are as they were, without it.
LEMMA Spent ==
    ASSUME TwoFactorInv, NEW r \in Calls, call[r].pc = "issue", Spend(r)
    PROVE  /\ totp' \in Settings \cup {Absent}
           /\ InStep(call[r]) => /\ totp # Absent /\ totp' # Absent /\ totp'.on = totp.on /\ totp'.codes \subseteq totp.codes
                                 /\ call[r].code \in Codes => call[r].code \notin totp'.codes
<1>1. call[r].read \in Settings
  BY DEF TwoFactorInv, KnowsToken
<1>2. totp' = totp \/ totp' = call[r].read
  BY DEF Spend, UpdateTOTPSettings
<1>3. totp' \in Settings \cup {Absent}
  BY <1>1, <1>2, TwoFactorTypes
<1>4. ASSUME InStep(call[r])
      PROVE  /\ totp # Absent /\ totp' # Absent /\ totp'.on = totp.on /\ totp'.codes \subseteq totp.codes
             /\ call[r].code \in Codes => call[r].code \notin totp'.codes
  <2>1. totp # Absent /\ call[r].read.on = totp.on /\ call[r].read.codes \subseteq totp.codes \ {call[r].code}
    BY <1>4 DEF InStep
  <2>2. CASE call[r].code \in Codes
    <3>1. totp' = call[r].read
      BY <2>1, <2>2 DEF Spend, UsedBackupCode, UpdateTOTPSettings
    <3>. QED  BY <1>1, <2>1, <3>1, TwoFactorTypes
  <2>3. CASE call[r].code \notin Codes
    <3>1. totp' = totp
      BY <2>3 DEF Spend, UsedBackupCode
    <3>. QED  BY <2>1, <2>3, <3>1
  <2>. QED  BY <2>2, <2>3
<1>. QED  BY <1>3, <1>4

\* A session for the token of a request, and one more use of its code.
LEMMA Issued ==
    ASSUME TwoFactorInv, NEW r \in Calls, call[r].token \in Pendings, TIssueTokenPair(r)
    PROVE  /\ bought' \in [Pendings -> 0 .. 2] /\ used' \in [Codes -> 0 .. 2]
           /\ \A p \in Pendings : p # call[r].token => bought'[p] = bought[p]
           /\ \A c \in Codes : c # call[r].code => used'[c] = used[c]
           /\ bought[call[r].token] = 0 => bought'[call[r].token] = 1
           /\ \A c \in Codes : c = call[r].code /\ used[c] = 0 => used'[c] = 1
<1>1. PICK t : t = call[r].token
  OBVIOUS
<1>2. PICK n : n = UpTo(bought[t], 2)
  OBVIOUS
<1>3. t \in Pendings /\ n \in 0 .. 2 /\ (bought[t] = 0 => n = 1)
  BY <1>1, <1>2, Counting, TwoFactorTypes
<1>4. bought' = [bought EXCEPT ![t] = n]
  BY <1>1, <1>2 DEF TIssueTokenPair
<1>5. bought' \in [Pendings -> 0 .. 2] /\ \A p \in Pendings : bought'[p] = IF p = t THEN n ELSE bought[p]
  BY <1>3, <1>4, TwoFactorTypes
<1>6. used' = [c \in Codes |-> IF c = call[r].code THEN UpTo(used[c], 2) ELSE used[c]]
  BY DEF TIssueTokenPair
<1>7. \A c \in Codes : used[c] \in 0 .. 2 /\ UpTo(used[c], 2) \in 0 .. 2 /\ (used[c] = 0 => UpTo(used[c], 2) = 1)
  BY Counting, TwoFactorTypes
<1>8. used' \in [Codes -> 0 .. 2]
  BY <1>6, <1>7
<1>. QED  BY <1>1, <1>3, <1>5, <1>6, <1>7, <1>8

\* A login that is completed, of requests made one after another, is the first
\* with its token and with its code, of which none is on file any longer.
LEMMA FirstUse ==
    ASSUME TwoFactorInv, NEW r \in Calls, call[r].token \in Pendings, TIssueTokenPair(r), Orderly,
           bought[call[r].token] = 0, call[r].code \in Codes => used[call[r].code] = 0 /\ call[r].code[1] <= batch,
           totp' \in Settings \cup {Absent}, UNCHANGED batch,
           totp' # Absent => totp # Absent /\ totp'.codes \subseteq totp.codes /\ (call[r].code \in Codes => call[r].code \notin totp'.codes)
    PROVE  CodesAreGood' /\ \A p \in Pendings : bought'[p] <= 1
<1>1. \A p \in Pendings : bought'[p] <= 1
  BY Issued DEF Orderly
<1>2. \A c \in Codes : used'[c] <= 1 /\ (used'[c] > 0 => c[1] <= batch')
  <2>. SUFFICES ASSUME NEW c \in Codes PROVE used'[c] <= 1 /\ (used'[c] > 0 => c[1] <= batch')
    OBVIOUS
  <2>1. CASE c = call[r].code
    BY <2>1, Issued
  <2>2. CASE c # call[r].code
    BY <2>2, Issued DEF Orderly, CodesAreGood
  <2>. QED  BY <2>1, <2>2
<1>3. ASSUME totp' # Absent, NEW c \in totp'.codes PROVE used'[c] = 0 /\ c[1] <= batch'
  <2>1. c \in totp.codes /\ c \in Codes /\ c # call[r].code
    BY <1>3 DEF Settings
  <2>2. used[c] = 0 /\ c[1] <= batch
    BY <1>3, <2>1 DEF Orderly, CodesAreGood
  <2>. QED  BY <2>1, <2>2, Issued
<1>. QED  BY <1>1, <1>2, <1>3 DEF CodesAreGood

LEMMA IssueInTxKeeps == ASSUME TwoFactorInv, NEW r \in Calls, IssueInTx(r) PROVE TwoFactorInv'
<1>1. call[r].pc = "issue" /\ UNCHANGED <<hasTx, batch, failures, tries, overlap>>
  BY DEF IssueInTx
<1>2. CASE CannotSpend(r)
  BY <1>1, <1>2, ReturnKeeps DEF IssueInTx
<1>3. CASE ~CannotSpend(r)
  <2>1. Spend(r) /\ pending' = pending \ {call[r].token} /\ TIssueTokenPair(r) /\ Enter(r, "clear")
    BY <1>3 DEF IssueInTx, DeletePendingTwoFactorSession
  <2>2. PICK q \in Call : call' = [call EXCEPT ![r] = q] /\ q.pc = "clear" /\ q.late = FALSE
    <3>1. PICK k \in Stages : k = "clear"
      BY DEF Stages
    <3>2. Enter(r, k)
      BY <3>1, <2>1
    <3>3. PICK q \in Call : /\ call' = [call EXCEPT ![r] = q] /\ q.pc = k /\ q.read = call[r].read
                            /\ q.token = call[r].token /\ q.code = call[r].code /\ q.late = FALSE
      BY <3>2, Entered
    <3>. QED  BY <3>1, <3>3
  <2>3. call[r].token \in Pendings
    BY <1>1 DEF TwoFactorInv, KnowsToken, Verifying
  <2>4. KnowsToken(q, pending') /\ InStep(q)'
    BY <2>2 DEF KnowsToken, InStep, Verifying
  <2>5. ~overlap' => Orderly /\ InStep(call[r])
    BY <1>1, GoesOn
  <2>6. totp' \in Settings \cup {Absent}
    BY <1>1, <2>1, Spent
  <2>7. ASSUME ~overlap' PROVE CodesAreGood' /\ \A p \in Pendings : bought'[p] <= 1
    <3>1. bought[call[r].token] = 0 /\ (call[r].code \in Codes => used[call[r].code] = 0 /\ call[r].code[1] <= batch)
      BY <1>1, <2>5, <2>7 DEF InStep, Verifying
    <3>2. totp # Absent /\ totp'.codes \subseteq totp.codes /\ (call[r].code \in Codes => call[r].code \notin totp'.codes)
      BY <1>1, <2>1, <2>5, <2>7, Spent
    <3>. QED  BY <1>1, <2>1, <2>3, <2>5, <2>6, <2>7, <3>1, <3>2, FirstUse
  <2>8. ~overlap' => failures' <= MaxFailedLogins
    BY <1>1, <2>5 DEF Orderly
  <2>9. \A p \in Pendings : bought'[p] > 0 => p \notin pending'
    BY <2>1, <2>3, Issued DEF TwoFactorInv
  <2>10. pending' \subseteq pending /\ pending' \subseteq Pendings
    BY <2>1, TwoFactorTypes
  <2>11. tries' <= failures' /\ tries' \in 0 .. Cap /\ failures' \in 0 .. Cap /\ batch' \in 0 .. MaxBatches
    BY <1>1, TwoFactorTypes DEF TwoFactorInv
  <2>12. bought' \in [Pendings -> 0 .. 2] /\ used' \in [Codes -> 0 .. 2]
    BY <2>1, <2>3, Issued
  <2>. QED  BY <1>1, <2>2, <2>4, <2>6, <2>7, <2>8, <2>9, <2>10, <2>11, <2>12, GoesOn, RequestMoves
<1>. QED  BY <1>2, <1>3

LEMMA SpendCodeKeeps == ASSUME TwoFactorInv, NEW r \in Calls, SpendCode(r) PROVE TwoFactorInv'
<1>1. call[r].pc = "issue" /\ Spend(r) /\ UNCHANGED <<hasTx, batch, pending, failures, bought, used, tries, overlap>>
  BY DEF SpendCode
<1>2. CASE CannotSpend(r)
  <2>1. UNCHANGED totp
    BY <1>1, <1>2 DEF CannotSpend, Spend, UpdateTOTPSettings
  <2>. QED  BY <1>1, <1>2, <2>1, ReturnKeeps DEF SpendCode
<1>3. CASE ~CannotSpend(r)
  <2>1. PICK q \in Call : /\ call' = [call EXCEPT ![r] = q] /\ q.pc = "retire" /\ q.late = FALSE
                          /\ q.token = call[r].token /\ q.code = call[r].code
    <3>1. PICK k \in Stages : k = "retire"
      BY DEF Stages
    <3>2. Enter(r, k)
      BY <3>1, <1>3 DEF SpendCode
    <3>3. PICK q \in Call : /\ call' = [call EXCEPT ![r] = q] /\ q.pc = k /\ q.read = call[r].read
                            /\ q.token = call[r].token /\ q.code = call[r].code /\ q.late = FALSE
      BY <3>2, Entered
    <3>. QED  BY <3>1, <3>3
  <2>2. call[r].token \in Pendings
    BY <1>1 DEF TwoFactorInv, KnowsToken, Verifying
  <2>3. KnowsToken(q, pending')
    BY <2>1, <2>2 DEF KnowsToken
  <2>4. ~overlap' => Orderly /\ InStep(call[r])
    BY <1>1, GoesOn
  <2>5. totp' \in Settings \cup {Absent}
    BY <1>1, Spent
  <2>6. ASSUME ~overlap' PROVE InStep(q)' /\ CodesAreGood'
    <3>1. /\ bought[call[r].token] = 0
          /\ call[r].code \in Codes => used[call[r].code] = 0 /\ call[r].code[1] <= batch
      BY <1>1, <2>4, <2>6 DEF InStep, Verifying
    <3>2. totp # Absent /\ totp'.codes \subseteq totp.codes /\ (call[r].code \in Codes => call[r].code \notin totp'.codes)
      BY <1>1, <2>4, <2>6, Spent
    <3>3. InStep(q)'
      BY <1>1, <2>1, <3>1, <3>2 DEF InStep, Verifying
    <3>4. CodesAreGood'
      BY <1>1, <2>4, <2>6, <3>2 DEF Orderly, CodesAreGood
    <3>. QED  BY <3>3, <3>4
  <2>7. ~overlap' => failures' <= MaxFailedLogins /\ \A p \in Pendings : bought'[p] <= 1
    BY <1>1, <2>4 DEF Orderly
  <2>8. tries' <= failures' /\ \A p \in Pendings : bought'[p] > 0 => p \notin pending'
    BY <1>1 DEF TwoFactorInv
  <2>. QED  BY <1>1, <2>1, <2>3, <2>5, <2>6, <2>7, <2>8, GoesOn, TwoFactorTypes, RequestMoves
<1>. QED  BY <1>2, <1>3

LEMMA RetireKeeps == ASSUME TwoFactorInv, NEW r \in Calls, Retire(r) PROVE TwoFactorInv'
<1>1. /\ call[r].pc = "retire" /\ pending' = pending \ {call[r].token} /\ Enter(r, "session")
      /\ UNCHANGED <<hasTx, totp, batch, failures, bought, used, tries, overlap>>
  BY DEF Retire, DeletePendingTwoFactorSession
<1>2. PICK q \in Call : /\ call' = [call EXCEPT ![r] = q] /\ q.pc = "session" /\ q.late = FALSE
                        /\ q.token = call[r].token /\ q.code = call[r].code
  <2>1. PICK k \in Stages : k = "session"
    BY DEF Stages
  <2>2. Enter(r, k)
    BY <2>1, <1>1
  <2>3. PICK q \in Call : /\ call' = [call EXCEPT ![r] = q] /\ q.pc = k /\ q.read = call[r].read
                          /\ q.token = call[r].token /\ q.code = call[r].code /\ q.late = FALSE
    BY <2>2, Entered
  <2>. QED  BY <2>1, <2>3
<1>3. KnowsToken(q, pending')
  BY <1>1, <1>2 DEF TwoFactorInv, KnowsToken, Verifying
<1>4. ~overlap' => Orderly /\ InStep(call[r])
  BY <1>1, GoesOn
<1>5. ~overlap' => InStep(q)'
  BY <1>1, <1>2, <1>4 DEF InStep, Verifying
<1>6. ~overlap' => CodesAreGood'
  BY <1>1, <1>4 DEF Orderly, CodesAreGood
<1>7. ~overlap' => failures' <= MaxFailedLogins /\ \A p \in Pendings : bought'[p] <= 1
  BY <1>1, <1>4 DEF Orderly
<1>8. tries' <= failures' /\ \A p \in Pendings : bought'[p] > 0 => p \notin pending'
  BY <1>1 DEF TwoFactorInv
<1>9. pending' \subseteq pending /\ pending' \subseteq Pendings
  BY <1>1, TwoFactorTypes
<1>. QED  BY <1>1, <1>2, <1>3, <1>5, <1>6, <1>7, <1>8, <1>9, GoesOn, TwoFactorTypes, RequestMoves

LEMMA IssueKeeps == ASSUME TwoFactorInv, NEW r \in Calls, Issue(r) PROVE TwoFactorInv'
<1>1. /\ call[r].pc = "session" /\ TIssueTokenPair(r) /\ Enter(r, "clear")
      /\ UNCHANGED <<hasTx, totp, batch, pending, failures, tries, overlap>>
  BY DEF Issue
<1>2. PICK q \in Call : call' = [call EXCEPT ![r] = q] /\ q.pc = "clear" /\ q.late = FALSE
  <2>1. PICK k \in Stages : k = "clear"
    BY DEF Stages
  <2>2. Enter(r, k)
    BY <2>1, <1>1
  <2>3. PICK q \in Call : /\ call' = [call EXCEPT ![r] = q] /\ q.pc = k /\ q.read = call[r].read
                          /\ q.token = call[r].token /\ q.code = call[r].code /\ q.late = FALSE
    BY <2>2, Entered
  <2>. QED  BY <2>1, <2>3
<1>3. KnowsToken(q, pending') /\ InStep(q)'
  BY <1>2 DEF KnowsToken, InStep, Verifying
<1>4. call[r].token \in Pendings /\ call[r].token \notin pending
  BY <1>1 DEF TwoFactorInv, KnowsToken, Verifying
<1>5. ~overlap' => Orderly /\ InStep(call[r])
  BY <1>1, GoesOn
<1>6. ASSUME ~overlap' PROVE CodesAreGood' /\ \A p \in Pendings : bought'[p] <= 1
  <2>1. /\ bought[call[r].token] = 0
        /\ call[r].code \in Codes => used[call[r].code] = 0 /\ call[r].code[1] <= batch
        /\ call[r].code \in Codes /\ totp # Absent => call[r].code \notin totp.codes
    BY <1>1, <1>5, <1>6 DEF InStep, Verifying
  <2>. QED  BY <1>1, <1>4, <1>5, <1>6, <2>1, FirstUse, TwoFactorTypes
<1>7. ~overlap' => failures' <= MaxFailedLogins
  BY <1>1, <1>5 DEF Orderly
<1>8. \A p \in Pendings : bought'[p] > 0 => p \notin pending'
  BY <1>1, <1>4, Issued DEF TwoFactorInv
<1>9. tries' <= failures'
  BY <1>1 DEF TwoFactorInv
<1>10. bought' \in [Pendings -> 0 .. 2] /\ used' \in [Codes -> 0 .. 2]
  BY <1>1, <1>4, Issued
<1>. QED  BY <1>1, <1>2, <1>3, <1>6, <1>7, <1>8, <1>9, <1>10, GoesOn, TwoFactorTypes, RequestMoves

LEMMA CutOffKeeps == ASSUME TwoFactorInv, NEW r \in Calls, TCutOff(r) PROVE TwoFactorInv'
<1>1. TReturn(r) /\ UNCHANGED <<hasTx, totp, batch, pending, failures, bought, used, tries, overlap>>
  BY DEF TCutOff
<1>2. CASE call[r].pc = "idle"
  <2>1. call' = [call EXCEPT ![r] = TIdle]
    BY <1>1 DEF TReturn
  <2>2. overlap' \in BOOLEAN /\ (~overlap' => ~overlap)
    BY <1>1, TwoFactorTypes
  <2>3. ~overlap' => \A s \in Calls \ {r} : call[s] = TIdle
    <3>1. call[r] # TIdle
      BY DEF TCutOff
    <3>. QED  BY <2>2, <3>1 DEF TwoFactorInv, Orderly, OneAtATime
  <2>. QED  BY <1>1, <2>1, <2>2, <2>3, IdleRequest, RequestReads
<1>3. CASE call[r].pc # "idle"
  BY <1>1, <1>3, ReturnKeeps
<1>. QED  BY <1>2, <1>3

LEMMA ExpireKeeps == ASSUME TwoFactorInv, NEW p \in Pendings, TExpire(p) PROVE TwoFactorInv'
<1>1. /\ pending' = pending \ {p}
      /\ UNCHANGED <<hasTx, totp, batch, failures, call, bought, used, tries, overlap>>
  BY DEF TExpire
<1>2. TwoFactorTypeOK'
  BY <1>1 DEF TwoFactorInv, TwoFactorTypeOK
<1>3. \A r \in Calls : KnowsToken(call'[r], pending')
  BY <1>1 DEF TwoFactorInv, KnowsToken
<1>4. Orderly => Orderly'
  BY <1>1 DEF Orderly, OneAtATime, InStep, NotEnabled, CodesAreGood
<1>. QED  BY <1>1, <1>2, <1>3, <1>4 DEF TwoFactorInv

LEMMA UnlockKeeps == ASSUME TwoFactorInv, TUnlock PROVE TwoFactorInv'
<1>1. failures' = 0 /\ tries' = 0 /\ UNCHANGED <<hasTx, totp, batch, pending, call, bought, used, overlap>>
  BY DEF TUnlock, ClearFailures
<1>2. TwoFactorTypeOK'
  BY <1>1, TwoFactorTypes DEF TwoFactorInv, TwoFactorTypeOK
<1>3. \A r \in Calls : KnowsToken(call'[r], pending')
  BY <1>1 DEF TwoFactorInv, KnowsToken
<1>4. Orderly => Orderly'
  BY <1>1, TwoFactorTypes DEF Orderly, OneAtATime, InStep, NotEnabled, CodesAreGood
<1>. QED  BY <1>1, <1>2, <1>3, <1>4 DEF TwoFactorInv

-----------------------------------------------------------------------------
LEMMA TwoFactorSteps == ASSUME TwoFactorInv, [TwoFactorNext]_twoFactorVars PROVE TwoFactorInv'
<1>1. ASSUME NEW r \in Calls, RequestStep(r) PROVE TwoFactorInv'
  BY <1>1, UpsertKeeps, NewCodesKeeps, DisableKeeps, RecordKeeps, ReadSettingsKeeps, PendKeeps, CompleteKeeps,
     ThrottleKeeps, CheckKeeps, IssueInTxKeeps, SpendCodeKeeps, RetireKeeps, IssueKeeps, CutOffKeeps DEF RequestStep
<1>2. ASSUME NEW p \in Pendings, TExpire(p) PROVE TwoFactorInv'
  BY <1>2, ExpireKeeps
<1>3. ASSUME NEW r \in Calls, BeginTwoFactorSetup(r) PROVE TwoFactorInv'
  BY <1>3, BeginKeeps
<1>4. ASSUME NEW r \in Calls, NEW pc \in {"confirm", "disable", "regenerate"}, NEW code \in Input,
             getDecryptedTOTPSettings(r, pc, code)
      PROVE  TwoFactorInv'
  BY <1>4, ReadKeeps
<1>5. ASSUME NEW r \in Calls, NEW right \in BOOLEAN, TAuthenticate(r, right) PROVE TwoFactorInv'
  BY <1>5, AuthenticateKeeps
<1>6. ASSUME NEW r \in Calls, NEW p \in Pendings, NEW code \in Input, VerifyTwoFactorLogin(r, p, code)
      PROVE  TwoFactorInv'
  BY <1>6, VerifyKeeps
<1>7. CASE UNCHANGED twoFactorVars
  BY <1>7 DEF twoFactorVars, TwoFactorInv, TwoFactorTypeOK, KnowsToken, Orderly, OneAtATime, InStep, NotEnabled, CodesAreGood
<1>8. ASSUME NEW r \in Calls, ResetTwoFactor(r) PROVE TwoFactorInv'
  BY <1>8, ResetKeeps
<1>. QED  BY <1>1, <1>2, <1>3, <1>4, <1>5, <1>6, <1>7, <1>8, UnlockKeeps DEF TwoFactorNext

LEMMA TwoFactorStarts == TwoFactorInit => TwoFactorInv
<1>. SUFFICES ASSUME TwoFactorInit PROVE TwoFactorInv
  OBVIOUS
<1>1. MaxBatches \in Nat /\ MaxFailedLogins \in Nat /\ Cap \in Nat
  BY TwoFactorAssumption DEF Cap
<1>2. \A r \in Calls : call[r] = TIdle
  BY DEF TwoFactorInit
<1>3. TwoFactorTypeOK
  <2>1. hasTx \in BOOLEAN /\ overlap \in BOOLEAN /\ totp \in Settings \cup {Absent}
    BY DEF TwoFactorInit
  <2>2. batch \in 0 .. MaxBatches /\ failures \in 0 .. Cap /\ tries \in 0 .. Cap
    BY <1>1 DEF TwoFactorInit
  <2>3. pending \subseteq Pendings /\ call \in [Calls -> Call]
    BY IdleRequest DEF TwoFactorInit
  <2>4. bought \in [Pendings -> 0 .. 2] /\ used \in [Codes -> 0 .. 2]
    BY DEF TwoFactorInit
  <2>. QED  BY <2>1, <2>2, <2>3, <2>4 DEF TwoFactorTypeOK
<1>4. \A r \in Calls : KnowsToken(call[r], pending) /\ InStep(call[r])
  BY <1>2, IdleRequest
<1>5. CodesAreGood /\ OneAtATime
  BY <1>2 DEF TwoFactorInit, CodesAreGood, OneAtATime
<1>6. Orderly
  BY <1>1, <1>4, <1>5 DEF TwoFactorInit, Orderly
<1>. QED  BY <1>3, <1>4, <1>6 DEF TwoFactorInit, TwoFactorInv

\* The invariant the results below rest on.
THEOREM TwoFactorInvariant == TwoFactorSpec => []TwoFactorInv
BY TwoFactorStarts, TwoFactorSteps, PTL DEF TwoFactorSpec

\* The rows of the second factor, the counter and every request are well
\* typed, also when settings read before another write are written back.
THEOREM TwoFactorTypeCorrect == TwoFactorSpec => []TwoFactorTypeOK
<1>1. TwoFactorInv => TwoFactorTypeOK
  BY DEF TwoFactorInv
<1>. QED  BY <1>1, TwoFactorInvariant, PTL

\* VerifyTwoFactorLogin spends what it spends for good: a pending token that
\* has bought a session is dead to later requests, whatever races; and of
\* requests made one after another each token and each backup code completes
\* one login, for any number of requests, tokens and codes.
THEOREM TwoFactorSpentForGood == TwoFactorSpec => []SpentForGood
<1>1. TwoFactorInv => SpentForGood
  BY DEF TwoFactorInv, SpentForGood, BackupCodeOnce, SpentPendingIsDead, PendingOnce, KnowsToken, Orderly, CodesAreGood
<1>. QED  BY <1>1, TwoFactorInvariant, PTL

\* Whoever holds the password gets MaxFailedLoginAttempts guesses at the
\* second factor (throttled, recordFailedLogin), for any maximum.
THEOREM TwoFactorMetered == TwoFactorSpec => []SecondFactorMetered
<1>1. ASSUME TwoFactorInv PROVE SecondFactorMetered
  BY <1>1, TwoFactorTypes DEF TwoFactorInv, SecondFactorMetered, Orderly
<1>. QED  BY <1>1, TwoFactorInvariant, PTL

\* A request that neither disables nor resets writes settings that are on over
\* settings that are on.
LEMMA StaysOn ==
    ASSUME TwoFactorInv, TwoFactorNext, ~overlap, totp # Absent, totp.on,
           \A r \in Calls : ~DisableTwoFactor(r) /\ ~DeleteTOTPSettings(r)
    PROVE  totp' # Absent /\ totp'.on
<1>1. CASE UNCHANGED totp
  BY <1>1
<1>2. ASSUME NEW r \in Calls, upsertTOTPSettings(r) PROVE FALSE
  <2>1. call[r].pc = "begin"
    BY <1>2 DEF upsertTOTPSettings
  <2>2. InStep(call[r])
    BY <2>1, Alone
  <2>. QED  BY <2>1, <2>2 DEF InStep, NotEnabled
<1>3. ASSUME NEW r \in Calls, NewCodes(r) PROVE totp' # Absent /\ totp'.on
  <2>1. call[r].pc \in {"confirm", "regenerate"}
    BY <1>3 DEF NewCodes
  <2>2. InStep(call[r])
    BY <2>1, Alone
  <2>3. call[r].pc = "confirm" \/ call[r].read.on
    BY <2>1, <2>2 DEF InStep
  <2>4. totp' = [on |-> call[r].pc = "confirm" \/ call[r].read.on, codes |-> Fresh(batch + 1)]
    BY <1>3 DEF NewCodes, UpdateTOTPSettings
  <2>5. totp'.on = (call[r].pc = "confirm" \/ call[r].read.on)
    BY <2>4
  <2>6. TwoFactorInv' BY <1>3, NewCodesKeeps
  <2>7. totp' # Absent
    <3>1. PICK b : b = (call[r].pc = "confirm" \/ call[r].read.on) OBVIOUS
    <3>2. b = TRUE BY <2>3, <3>1
    <3>3. totp' = [on |-> TRUE, codes |-> Fresh(batch + 1)] BY <2>4, <3>1, <3>2
    <3>4. batch + 1 \in 1 .. MaxBatches BY <1>3, TwoFactorTypes DEF NewCodes
    <3>5. totp' \in Settings BY <3>3, <3>4, CodesAre DEF Settings
    <3>. QED  BY <3>5, AbsentAssumption
  <2>. QED  BY <2>3, <2>5, <2>7
<1>5. ASSUME NEW r \in Calls, call[r].pc = "issue", Spend(r) PROVE totp' # Absent /\ totp'.on
  <2>1. InStep(call[r])
    BY <1>5, Alone
  <2>. QED  BY <1>5, <2>1, Spent
<1>6. ASSUME NEW r \in Calls, RequestStep(r) PROVE totp' # Absent /\ totp'.on
  <2>1. CASE IssueInTx(r)
    BY <1>1, <1>5, <2>1 DEF IssueInTx
  <2>2. CASE SpendCode(r)
    BY <1>5, <2>2 DEF SpendCode
  <2>. QED  BY <1>1, <1>2, <1>3, <1>6, <2>1, <2>2 DEF RequestStep, TRecordFailedLogin, ReadSettings,
            createPendingTwoFactorSession, Complete, Throttle, CheckCode, Retire, Issue, TCutOff
<1>. QED  BY <1>1, <1>6 DEF TwoFactorNext, TExpire, BeginTwoFactorSetup, getDecryptedTOTPSettings, TAuthenticate,
                            VerifyTwoFactorLogin, ResetTwoFactor, TUnlock

\* Two-factor goes off by DisableTwoFactor and the operator's ResetTwoFactor
\* alone: no step of any other request turns it off, of requests made one after
\* another.
THEOREM TwoFactorOnUntilDisabled == TwoFactorSpec => OnUntilDisabled
<1>1. ASSUME TwoFactorInv, [TwoFactorNext]_twoFactorVars
      PROVE  [~overlap /\ totp # Absent /\ totp.on /\ ~(totp' # Absent /\ totp'.on)
                 => \E r \in Calls : call[r].pc \in {"disable", "reset"} /\ call'[r] = TIdle
             ]_twoFactorVars
  <2>1. CASE UNCHANGED twoFactorVars
    BY <2>1
  <2>2. ASSUME TwoFactorNext, ~overlap, totp # Absent, totp.on, ~(totp' # Absent /\ totp'.on)
        PROVE  \E r \in Calls : call[r].pc \in {"disable", "reset"} /\ call'[r] = TIdle
    <3>1. PICK r \in Calls : DisableTwoFactor(r) \/ DeleteTOTPSettings(r)
      BY <1>1, <2>2, StaysOn
    <3>. QED  BY <1>1, <3>1, TwoFactorTypes DEF DisableTwoFactor, DeleteTOTPSettings, TReturn
  <2>. QED  BY <1>1, <2>1, <2>2
<1>. QED  BY <1>1, TwoFactorInvariant, PTL DEF TwoFactorSpec, OnUntilDisabled

=============================================================================
