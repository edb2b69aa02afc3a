------------------------------ MODULE MCAccount ------------------------------
(* An account's row and its second factor, which share no state: a behaviour *)
(* exercises one of them, and the other stays as it starts.                  *)
EXTENDS Account, TwoFactor, TLC

VARIABLE part  \* the one this behaviour exercises; it never changes

\* The set-up of the part at rest is of no account.
AccountInit ==
    /\ part \in {"row", "factor"}
    /\ Init /\ (part = "factor" => row = Gone /\ ~conf.hasTx /\ ~conf.required)
    /\ TwoFactorInit /\ (part = "row" => ~hasTx)

RowStep == part = "row" /\ Next /\ UNCHANGED <<part, twoFactorVars>>

FactorStep == part = "factor" /\ TwoFactorNext /\ UNCHANGED <<part, vars>>

AccountNext == RowStep \/ FactorStep

AccountSpec == AccountInit /\ [][AccountNext]_<<part, vars, twoFactorVars>>

\* Requests, passwords and pending tokens are only compared with one another.
\* The parts share their names.
Symmetry == Permutations(Requests) \cup Permutations(Passwords)
=============================================================================
