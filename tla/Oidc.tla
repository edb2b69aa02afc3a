--------------------------------- MODULE Oidc ---------------------------------
(***************************************************************************)
(* Sign-in through an OpenID provider (oidc/flow.go): the accounts table,  *)
(* which links a provider identity to a user, and the requests that sign   *)
(* in with an identity, link one and unlink one. Every store call is a     *)
(* step of its own; the sign-up, which creates a user and its first link   *)
(* in RunInTx, is one step when Stores.Tx is set.                          *)
(*                                                                         *)
(* A user is its address. A provider's identity is a provider and a        *)
(* subject at it; which address the provider asserts for it, and whether   *)
(* it says the address is verified, may differ from one sign-in to the     *)
(* next. The exchange of the code with the provider happens before any of  *)
(* this and changes nothing. Module Passkey adds the other kind of         *)
(* credential to the same users.                                           *)
(***************************************************************************)
EXTENDS Naturals, FiniteSets

CONSTANTS
    Users,    \* addresses
    Idents,   \* (provider, subject) pairs
    Rows,     \* ids of accounts rows
    Logins,   \* concurrently running requests
    None      \* no row, or nothing carried

\* A row of the accounts table.
AccountRow == [owner : Users, ident : Idents]

ASSUME NoneAssumption == None \notin Users \cup Idents \cup Rows \cup AccountRow

\* hasTx: Stores.Tx is set. linking: LinkingVerifiedEmail, not LinkingManual.
\* signUp: not DisableSignUp.
Conf == [hasTx : BOOLEAN, linking : BOOLEAN, signUp : BOOLEAN]

VARIABLES
    conf,    \* how the service is set up; it never changes
    user,    \* the users table: no row, a row with a password, or one without
             \* that a provider's sign-up or an emailed link created
    acct,    \* the accounts table
    oreq,    \* local state of each request
    vouched, \* history: the rows whose owner was proven
    raced    \* history: users two of whose credentials of one kind were being
             \* removed at once

ovars == <<conf, user, acct, oreq, vouched, raced>>

\* late: another link of the user has gone since this Unlink listed them.
Login ==
    [pc : {"idle", "refresh", "byEmail", "link", "signUp", "signUpLink", "unlink"},
     of : Users \cup {None}, ident : Idents \cup {None}, row : Rows \cup {None}, late : BOOLEAN,
     verified : BOOLEAN]

OIdle == [pc |-> "idle", of |-> None, ident |-> None, row |-> None, late |-> FALSE, verified |-> FALSE]

OTypeOK ==
    /\ conf \in Conf
    /\ user \in [Users -> {"none", "social", "mail", "password"}]
    /\ acct \in [Rows -> AccountRow \cup {None}]
    /\ oreq \in [Logins -> Login]
    /\ vouched \subseteq Rows
    /\ raced \subseteq Users

OInit ==
    /\ conf \in Conf
    /\ user \in [Users -> {"none", "mail", "password"}]
    /\ acct = [a \in Rows |-> None]
    /\ oreq = [r \in Logins |-> OIdle]
    /\ vouched = {}
    /\ raced = {}

-----------------------------------------------------------------------------
OGoto(r, p) == oreq' = [oreq EXCEPT ![r].pc = p]

OReturn(r) == oreq' = [oreq EXCEPT ![r] = OIdle]

(***************************************************************************)
(* The stores.                                                             *)
(***************************************************************************)
Exists(u) == user[u] # "none"

CreateUser(u, kind) ==
    /\ ~Exists(u)
    /\ user' = [user EXCEPT ![u] = kind]

\* GetAccountByProvider: the row of an identity, if there is one.
LinkOf(i) == {a \in Rows : acct[a] # None /\ acct[a].ident = i}

ListAccountsByUser(u) == {a \in Rows : acct[a] # None /\ acct[a].owner = u}

\* A new row's id is one no request has ever seen.
Fresh(a) == acct[a] = None /\ \A q \in Logins : oreq[q].row # a

\* CreateAccount is refused when the identity has a row.
MayCreateAccount(i) == LinkOf(i) = {}

\* The owner is proven when the user is: signed in, or just created by the
\* identity itself, or known to the provider as the owner of the address.
CreateAccount(u, i, proven) ==
    \E a \in Rows :
        /\ Fresh(a)
        /\ acct' = [acct EXCEPT ![a] = [owner |-> u, ident |-> i]]
        /\ vouched' = IF proven THEN vouched \cup {a} ELSE vouched \ {a}

\* A plausible bug: an update that creates the row when it is gone.
Upserts(a, u, i) == acct' = [acct EXCEPT ![a] = [owner |-> u, ident |-> i]]

\* The row by its id; one that is gone is not written.
UpdateAccount(a, u, i) ==
    acct' = IF acct[a] = None THEN acct ELSE [acct EXCEPT ![a] = [owner |-> u, ident |-> i]]

DeleteAccount(a) == acct' = [acct EXCEPT ![a] = None]

-----------------------------------------------------------------------------
(***************************************************************************)
(* Complete, from the identity the provider has answered with.             *)
(***************************************************************************)
\* resolve: a linked identity signs its user in, whatever address it has.
Complete(r) ==
    /\ oreq[r].pc = "idle"
    /\ \E i \in Idents :
         \/ /\ LinkOf(i) = {}
            /\ \E u \in Users, v \in BOOLEAN :
                 oreq' = [oreq EXCEPT ![r] = [OIdle EXCEPT !.pc = "byEmail", !.ident = i, !.of = u, !.verified = v]]
         \/ \E a \in LinkOf(i) :
                 oreq' = [oreq EXCEPT ![r] = [OIdle EXCEPT !.pc = "refresh", !.ident = i,
                                                           !.of = acct[a].owner, !.row = a]]
    /\ UNCHANGED <<conf, user, acct, vouched, raced>>

refreshAccount(r) ==
    /\ oreq[r].pc = "refresh"
    /\ UpdateAccount(oreq[r].row, oreq[r].of, oreq[r].ident)
    /\ OReturn(r)
    /\ UNCHANGED <<conf, user, vouched, raced>>

\* Whether an unknown identity may attach itself to the account of its address.
MayLink(verified) == conf.linking /\ verified

GetUserByEmail(r) ==
    /\ oreq[r].pc = "byEmail"
    /\ CASE Exists(oreq[r].of) /\ MayLink(oreq[r].verified) -> OGoto(r, "link")
         [] ~Exists(oreq[r].of) /\ conf.signUp -> OGoto(r, "signUp")
         [] OTHER -> OReturn(r)
    /\ UNCHANGED <<conf, user, acct, vouched, raced>>

\* A conflict fails the transaction: no user without its link.
SignUpInTx(r) ==
    /\ conf.hasTx
    /\ oreq[r].pc = "signUp"
    /\ IF ~Exists(oreq[r].of) /\ MayCreateAccount(oreq[r].ident)
         THEN CreateUser(oreq[r].of, "social") /\ CreateAccount(oreq[r].of, oreq[r].ident, TRUE)
         ELSE UNCHANGED <<user, acct, vouched>>
    /\ OReturn(r)
    /\ UNCHANGED <<conf, raced>>

SignUpUser(r) ==
    /\ ~conf.hasTx
    /\ oreq[r].pc = "signUp"
    /\ \/ CreateUser(oreq[r].of, "social") /\ OGoto(r, "signUpLink")
       \/ Exists(oreq[r].of) /\ OReturn(r) /\ UNCHANGED user
    /\ UNCHANGED <<conf, acct, vouched, raced>>

\* newAccount, of a sign-up, of an automatic link or of Link.
newAccount(r) ==
    /\ oreq[r].pc \in {"link", "signUpLink"}
    /\ IF MayCreateAccount(oreq[r].ident)
         THEN CreateAccount(oreq[r].of, oreq[r].ident, oreq[r].verified \/ oreq[r].pc = "signUpLink")
         ELSE UNCHANGED <<acct, vouched>>
    /\ OReturn(r)
    /\ UNCHANGED <<conf, user, raced>>

-----------------------------------------------------------------------------
(***************************************************************************)
(* Link and Unlink, of a user signed in.                                   *)
(***************************************************************************)
\* An identity linked already, to whomever, is refused. The user is proven.
Link(r) ==
    /\ oreq[r].pc = "idle"
    /\ \E u \in Users, i \in Idents :
         /\ Exists(u)
         /\ LinkOf(i) = {}
         /\ oreq' = [oreq EXCEPT ![r] = [OIdle EXCEPT !.pc = "link", !.ident = i, !.of = u, !.verified = TRUE]]
    /\ UNCHANGED <<conf, user, acct, vouched, raced>>

\* A plausible bug: the password is not asked about.
CountsPassword(u, n) == n > 0

\* Whether one of the n credentials of a kind may go: not the last one of a
\* user with no password.
MayRemove(u, n) == n > 1 \/ user[u] = "password"

Unlink(r) ==
    /\ oreq[r].pc = "idle"
    /\ \E u \in Users : \E a \in ListAccountsByUser(u) :
         /\ MayRemove(u, Cardinality(ListAccountsByUser(u)))
         /\ oreq' = [oreq EXCEPT ![r] = [OIdle EXCEPT !.pc = "unlink", !.of = u, !.row = a]]
    /\ UNCHANGED <<conf, user, acct, vouched, raced>>

UnlinkDelete(r) ==
    /\ oreq[r].pc = "unlink"
    /\ DeleteAccount(oreq[r].row)
    /\ raced' = IF oreq[r].late THEN raced \cup {oreq[r].of} ELSE raced
    /\ oreq' = [q \in Logins |->
         IF q = r THEN OIdle
         ELSE IF oreq[q].pc = "unlink" /\ oreq[q].of = oreq[r].of THEN [oreq[q] EXCEPT !.late = TRUE]
         ELSE oreq[q]]
    /\ vouched' = vouched \ {oreq[r].row}
    /\ UNCHANGED <<conf, user>>

-----------------------------------------------------------------------------
\* Account's Register and ResetPassword, as far as they concern this.
SetPassword(u) ==
    /\ user[u] # "password"
    /\ user' = [user EXCEPT ![u] = "password"]
    /\ UNCHANGED <<conf, acct, oreq, vouched, raced>>

\* The process dies, a store call fails or the request is refused.
OCutOff(r) ==
    /\ oreq[r].pc # "idle"
    /\ OReturn(r)
    /\ UNCHANGED <<conf, user, acct, vouched, raced>>

OStep(r) ==
    \/ Complete(r) \/ refreshAccount(r) \/ GetUserByEmail(r)
    \/ SignUpInTx(r) \/ SignUpUser(r) \/ newAccount(r)
    \/ Link(r) \/ Unlink(r) \/ UnlinkDelete(r) \/ OCutOff(r)

-----------------------------------------------------------------------------
(***************************************************************************)
(* Properties.                                                             *)
(***************************************************************************)
\* A provider identity is linked to one user at a time, and every link rests
\* on a proof of whose account it is: a signed-in user, an account the
\* identity itself created, or a claim of the address the provider vouches
\* for under LinkingVerifiedEmail. That holds against racing sign-ups, links
\* and unlinks, and against a returning sign-in that writes its row back
\* after the link has been removed and given to somebody else.
LinksAreProven ==
    /\ \A i \in Idents : Cardinality(LinkOf(i)) <= 1
    /\ \A a \in Rows : acct[a] # None => a \in vouched

\* A user a provider's sign-up created, with no password yet, keeps a
\* provider link: Unlink refuses the last one, and with a TxRunner no
\* sign-up leaves a user without. The exception is two Unlinks at once.
KeepsALink ==
    conf.hasTx => \A u \in Users \ raced : user[u] = "social" => ListAccountsByUser(u) # {}
=============================================================================
