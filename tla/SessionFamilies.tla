---------------------------- MODULE SessionFamilies ---------------------------
(***************************************************************************)
(* What the user plane promises of its sessions, without requests, rows or *)
(* interleavings: a sign-in starts a family, a family has one credential   *)
(* at a time, a rotation replaces it by a new one, and a family that is    *)
(* over stays so. Sessions implements this when the rotation is one        *)
(* transaction.                                                            *)
(***************************************************************************)

CONSTANT Tokens   \* credentials; a family is named by the one it started with

VARIABLES
    used,     \* the credentials ever given out
    family    \* [Tokens -> SUBSET Tokens], the credentials a family has

vars == <<used, family>>

Init ==
    /\ used = {}
    /\ family = [f \in Tokens |-> {}]

GiveOut(f, t) ==
    /\ t \notin used
    /\ used' = used \cup {t}
    /\ family' = [family EXCEPT ![f] = {t}]

SignIn(f) == GiveOut(f, f)

\* The one credential is replaced: the family never has two, and one that has
\* none left gets no other.
Rotate(f, old, t) ==
    /\ family[f] = {old}
    /\ GiveOut(f, t)

\* A logout ends one family, a reset or a reuse response a user's families.
End(F) ==
    /\ family' = [f \in Tokens |-> IF f \in F THEN {} ELSE family[f]]
    /\ UNCHANGED used

Next ==
    \/ \E f \in Tokens : SignIn(f)
    \/ \E f, old, t \in Tokens : Rotate(f, old, t)
    \/ \E F \in SUBSET Tokens : End(F)

Spec == Init /\ [][Next]_vars

=============================================================================
