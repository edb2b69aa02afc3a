---------------------------- MODULE PasskeyProofs ----------------------------
(***************************************************************************)
(* Proofs about Oidc and Passkey: that links are proven, that a user keeps *)
(* a credential and that the evidence of a clone is kept, for any number   *)
(* of users, identities, rows, keys and requests.                          *)
(***************************************************************************)
EXTENDS Passkey, FiniteSetTheorems, TLAPS

(***************************************************************************)
(* Links. A request knows whom it is about, links only what is proven, and *)
(* holds a row that is as it read it or gone.                              *)
(***************************************************************************)
OSound(q, table) ==
    /\ q.pc \notin {"idle", "unlink"} => q.of \in Users /\ q.ident \in Idents
    /\ q.pc = "link" => q.verified
    /\ q.pc = "refresh" => q.row \in Rows /\ table[q.row] \in {None, [owner |-> q.of, ident |-> q.ident]}
    /\ q.pc = "unlink" =>
         /\ q.of \in Users /\ q.row \in Rows
         /\ table[q.row] # None => table[q.row].owner = q.of

\* An Unlink that nothing has come in between of leaves another link.
OSpares(q, table, kind) ==
    q.pc = "unlink" /\ ~q.late /\ kind[q.of] # "password" =>
      \E a \in Rows \ {q.row} : table[a] # None /\ table[a].owner = q.of

OneLinkEach == \A a, b \in Rows : acct[a] # None /\ acct[b] # None /\ acct[a].ident = acct[b].ident => a = b

Vouched == \A a \in Rows : acct[a] # None => a \in vouched

OInv ==
    /\ OTypeOK
    /\ \A r \in Logins : OSound(oreq[r], acct) /\ OSpares(oreq[r], acct, user)
    /\ OneLinkEach
    /\ Vouched
    /\ KeepsALink

(***************************************************************************)
(* Passkeys. A ceremony has read what its next step works with, and the    *)
(* row it holds a copy of is still its owner's, unless it is gone.         *)
(***************************************************************************)
PSound(q, table) ==
    /\ q.pc = "create" => q.of \in Users
    /\ q.pc \notin {"idle", "load"} => q.key \in Keys
    /\ q.pc \in {"consume", "stored", "flag", "update"} => q.blob \in Blob
    /\ q.pc \in {"flag", "update", "rename", "remove"} => q.copy \in Cred
    /\ q.copy # None /\ ~q.gone => q.key \in Keys /\ table[q.key] # None /\ table[q.key].owner = q.copy.owner
    /\ q.pc = "remove" => q.of = q.copy.owner

\* A Remove that nothing has come in between of leaves another passkey.
PSpares(q, table, kind) ==
    q.pc = "remove" /\ ~q.late /\ kind[q.of] # "password" =>
      \E k \in Keys \ {q.key} : table[k] # None /\ table[k].owner = q.of

KeepsAPasskey ==
    \A u \in had \ praced : user[u] # "password" => ListWebAuthnCredentialsByUser(u) # {}

\* There is no warning about a credential that is not there.
WarnedOfSome == \A k \in warned : cred[k] # None

PInv ==
    /\ TypeOK
    /\ \A r \in Ceremonies : PSound(preq[r], cred) /\ PSpares(preq[r], cred, user)
    /\ KeepsAPasskey
    /\ WarnedOfSome
    /\ CloneEvidence

Inv == OInv /\ PInv

-----------------------------------------------------------------------------
(***************************************************************************)
(* Links: every step of OStep, and every change of a password, keeps OInv. *)
(***************************************************************************)

\* A request that is not under way.
LEMMA OIdleIs ==
    ASSUME NEW table, NEW kind
    PROVE  OIdle \in Login /\ OIdle.pc = "idle" /\ OSound(OIdle, table) /\ OSpares(OIdle, table, kind)
BY DEF OIdle, Login, OSound, OSpares

\* At the start there are no links.
LEMMA OStarts == OInit => OInv
<1>. SUFFICES ASSUME OInit PROVE OInv
  OBVIOUS
<1>1. \A r \in Logins : oreq[r] = OIdle
  BY DEF OInit
<1>2. OTypeOK
  BY OIdleIs DEF OInit, OTypeOK
<1>3. KeepsALink
  BY DEF KeepsALink, OInit
<1>. QED  BY <1>1, <1>2, <1>3, OIdleIs DEF OInv, OInit, OneLinkEach, Vouched

\* The requests are well when r has turned into q and every other one is.
LEMMA OMoves ==
    ASSUME OInv, NEW r \in Logins, NEW q \in Login, oreq' = [oreq EXCEPT ![r] = q],
           OSound(q, acct'), OSpares(q, acct', user'),
           \A p \in Logins \ {r} : OSound(oreq[p], acct') /\ OSpares(oreq[p], acct', user')
    PROVE  /\ oreq' \in [Logins -> Login]
           /\ \A p \in Logins : OSound(oreq'[p], acct') /\ OSpares(oreq'[p], acct', user')
<1>1. \A p \in Logins : oreq'[p] = IF p = r THEN q ELSE oreq[p]
  BY DEF OInv, OTypeOK
<1>2. oreq' \in [Logins -> Login]
  BY DEF OInv, OTypeOK
<1>. QED  BY <1>1, <1>2

\* Requests move while the tables stay.
LEMMA OReads ==
    ASSUME OInv, NEW r \in Logins, NEW q \in Login, oreq' = [oreq EXCEPT ![r] = q],
           OSound(q, acct), OSpares(q, acct, user), UNCHANGED <<conf, user, acct, vouched, raced>>
    PROVE  OInv'
<1>1. \A p \in Logins \ {r} : OSound(oreq[p], acct') /\ OSpares(oreq[p], acct', user')
  BY DEF OInv, OSound, OSpares
<1>2. OSound(q, acct') /\ OSpares(q, acct', user')
  BY DEF OSound, OSpares
<1>3. /\ oreq' \in [Logins -> Login]
      /\ \A p \in Logins : OSound(oreq'[p], acct') /\ OSpares(oreq'[p], acct', user')
  BY <1>1, <1>2, OMoves
<1>4. OTypeOK' /\ OneLinkEach' /\ Vouched' /\ KeepsALink'
  BY <1>3 DEF OInv, OTypeOK, OneLinkEach, Vouched, KeepsALink, ListAccountsByUser
<1>. QED  BY <1>3, <1>4 DEF OInv, OSound, OSpares

\* A request returns while the tables stay.
LEMMA OReturns ==
    ASSUME OInv, NEW r \in Logins, OReturn(r), UNCHANGED <<conf, user, acct, vouched, raced>>
    PROVE  OInv'
<1>1. oreq' = [oreq EXCEPT ![r] = OIdle]
  BY DEF OReturn
<1>. QED  BY <1>1, OIdleIs, OReads

\* A link is made: row a, which no request has seen, links identity i to u.
Linked(a, u, i) == [acct EXCEPT ![a] = [owner |-> u, ident |-> i]]

\* The links, the requests and the other users after that.
LEMMA LinkMade ==
    ASSUME OInv, NEW a \in Rows, Fresh(a), NEW u \in Users, NEW i \in Idents, MayCreateAccount(i),
           acct' = Linked(a, u, i), vouched' = vouched \cup {a},
           \A v \in Users : user'[v] = user[v] \/ (v = u /\ user'[v] = "social" /\ user[v] # "password")
    PROVE  /\ acct' \in [Rows -> AccountRow \cup {None}]
           /\ OneLinkEach' /\ Vouched'
           /\ \A q \in Logins : OSound(oreq[q], acct') /\ OSpares(oreq[q], acct', user')
           /\ conf' = conf /\ raced' = raced => KeepsALink'
<1>. DEFINE row == [owner |-> u, ident |-> i]
<1>1. row \in AccountRow /\ row # None /\ row.owner = u /\ row.ident = i
  BY NoneAssumption DEF AccountRow
<1>2. /\ acct' \in [Rows -> AccountRow \cup {None}]
      /\ \A b \in Rows : acct'[b] = IF b = a THEN row ELSE acct[b]
  BY <1>1 DEF OInv, OTypeOK, Linked
<1>3. acct[a] = None /\ \A q \in Logins : oreq[q].row # a
  BY DEF Fresh
<1>4. \A b \in Rows : acct[b] # None => acct[b].ident # i /\ b # a /\ acct'[b] = acct[b]
  BY <1>2, <1>3 DEF MayCreateAccount, LinkOf
<1>. HIDE DEF row
<1>5. OneLinkEach'
  BY <1>1, <1>2, <1>4 DEF OInv, OneLinkEach
<1>6. Vouched'
  BY <1>2 DEF OInv, Vouched
<1>7. \A q \in Logins : OSound(oreq[q], acct')
  BY <1>2, <1>3 DEF OInv, OSound
<1>8. ASSUME NEW q \in Logins PROVE OSpares(oreq[q], acct', user')
  <2>. SUFFICES ASSUME oreq[q].pc = "unlink", ~oreq[q].late, user'[oreq[q].of] # "password"
                PROVE  \E b \in Rows \ {oreq[q].row} : acct'[b] # None /\ acct'[b].owner = oreq[q].of
    BY DEF OSpares
  <2>1. oreq[q].of \in Users /\ user[oreq[q].of] # "password"
    BY DEF OInv, OSound
  <2>2. PICK b \in Rows \ {oreq[q].row} : acct[b] # None /\ acct[b].owner = oreq[q].of
    BY <2>1 DEF OInv, OSpares
  <2>. QED  BY <1>4, <2>2
<1>9. ASSUME conf' = conf, raced' = raced PROVE KeepsALink'
  <2>1. ASSUME conf.hasTx, NEW v \in Users \ raced, user'[v] = "social"
        PROVE  \E b \in Rows : acct'[b] # None /\ acct'[b].owner = v
    <3>1. CASE v = u
      BY <1>1, <1>2, <3>1
    <3>2. CASE v # u
      <4>1. user[v] = "social"
        BY <2>1, <3>2
      <4>2. PICK b \in Rows : acct[b] # None /\ acct[b].owner = v
        BY <2>1, <4>1 DEF OInv, KeepsALink, ListAccountsByUser
      <4>. QED  BY <1>4, <4>2
    <3>. QED  BY <3>1, <3>2
  <2>. QED  BY <1>9, <2>1 DEF KeepsALink, ListAccountsByUser
<1>. QED  BY <1>2, <1>5, <1>6, <1>7, <1>8, <1>9

\* OInv is made of what is known of the tables and of the requests.
LEMMA OTogether ==
    ASSUME conf' \in Conf, user' \in [Users -> {"none", "social", "mail", "password"}],
           acct' \in [Rows -> AccountRow \cup {None}], oreq' \in [Logins -> Login],
           vouched' \subseteq Rows, raced' \subseteq Users,
           \A r \in Logins : OSound(oreq'[r], acct') /\ OSpares(oreq'[r], acct', user'),
           OneLinkEach', Vouched', KeepsALink'
    PROVE  OInv'
<1>1. OTypeOK'
  BY DEF OTypeOK
<1>. QED  BY <1>1 DEF OInv, OSound, OSpares

\* A step that makes a link and returns.
LEMMA LinkMadeReturns ==
    ASSUME OInv, NEW r \in Logins, OReturn(r), NEW u \in Users, NEW i \in Idents,
           MayCreateAccount(i), CreateAccount(u, i, TRUE), UNCHANGED <<conf, raced>>,
           user' \in [Users -> {"none", "social", "mail", "password"}],
           \A v \in Users : user'[v] = user[v] \/ (v = u /\ user'[v] = "social" /\ user[v] # "password")
    PROVE  OInv'
<1>1. PICK a \in Rows : Fresh(a) /\ acct' = Linked(a, u, i) /\ vouched' = vouched \cup {a}
  BY DEF CreateAccount, Linked
<1>2. /\ acct' \in [Rows -> AccountRow \cup {None}]
      /\ OneLinkEach' /\ Vouched' /\ KeepsALink'
      /\ \A q \in Logins : OSound(oreq[q], acct') /\ OSpares(oreq[q], acct', user')
  BY <1>1, LinkMade
<1>3. oreq' = [oreq EXCEPT ![r] = OIdle]
  BY DEF OReturn
<1>4. /\ oreq' \in [Logins -> Login]
      /\ \A p \in Logins : OSound(oreq'[p], acct') /\ OSpares(oreq'[p], acct', user')
  BY <1>2, <1>3, OIdleIs, OMoves
<1>5. conf' \in Conf /\ vouched' \subseteq Rows /\ raced' \subseteq Users
  BY <1>1 DEF OInv, OTypeOK
<1>. QED  BY <1>2, <1>4, <1>5, OTogether

\* A change of the users that gives none a password less and makes nobody
\* one of a provider's sign-up, while the links stay.
LEMMA UsersChange ==
    ASSUME OInv, UNCHANGED <<conf, acct, vouched, raced>>,
           user' \in [Users -> {"none", "social", "mail", "password"}],
           \A v \in Users : user[v] = "password" => user'[v] = "password",
           conf.hasTx => \A v \in Users : user'[v] = "social" => user[v] = "social",
           oreq' \in [Logins -> Login],
           \A q \in Logins : oreq'[q] = oreq[q] \/
             (OSound(oreq'[q], acct') /\ OSpares(oreq'[q], acct', user'))
    PROVE  OInv'
<1>1. \A q \in Logins : OSound(oreq[q], acct') /\ OSpares(oreq[q], acct', user')
  BY DEF OInv, OSound, OSpares
<1>2. \A q \in Logins : OSound(oreq'[q], acct') /\ OSpares(oreq'[q], acct', user')
  BY <1>1
<1>3. OneLinkEach' /\ Vouched' /\ KeepsALink'
  BY DEF OInv, OneLinkEach, Vouched, KeepsALink, ListAccountsByUser
<1>4. conf' \in Conf /\ acct' \in [Rows -> AccountRow \cup {None}] /\ vouched' \subseteq Rows /\ raced' \subseteq Users
  BY DEF OInv, OTypeOK
<1>. QED  BY <1>2, <1>3, <1>4, OTogether

\* Setting a password.
LEMMA SetPasswordKeeps == ASSUME OInv, NEW u \in Users, SetPassword(u) PROVE OInv'
<1>1. user' = [user EXCEPT ![u] = "password"] /\ UNCHANGED <<conf, acct, oreq, vouched, raced>>
  BY DEF SetPassword
<1>2. /\ user' \in [Users -> {"none", "social", "mail", "password"}]
      /\ \A v \in Users : user'[v] = IF v = u THEN "password" ELSE user[v]
      /\ oreq' \in [Logins -> Login]
  BY <1>1 DEF OInv, OTypeOK
<1>. QED  BY <1>1, <1>2, UsersChange

\* The steps of a request keep OInv.
LEMMA OSteps == ASSUME OInv, NEW r \in Logins, OStep(r) PROVE OInv'
<1>0. /\ oreq[r] \in Login /\ OSound(oreq[r], acct) /\ OSpares(oreq[r], acct, user)
      /\ user \in [Users -> {"none", "social", "mail", "password"}]
      /\ acct \in [Rows -> AccountRow \cup {None}]
      /\ conf \in Conf /\ vouched \subseteq Rows /\ raced \subseteq Users
  BY DEF OInv, OTypeOK
<1>1. CASE Complete(r)
  <2>1. PICK i \in Idents :
          \/ \E u \in Users, v \in BOOLEAN :
               oreq' = [oreq EXCEPT ![r] = [OIdle EXCEPT !.pc = "byEmail", !.ident = i, !.of = u, !.verified = v]]
          \/ \E a \in LinkOf(i) :
               oreq' = [oreq EXCEPT ![r] = [OIdle EXCEPT !.pc = "refresh", !.ident = i,
                                                         !.of = acct[a].owner, !.row = a]]
    BY <1>1 DEF Complete
  <2>2. UNCHANGED <<conf, user, acct, vouched, raced>>
    BY <1>1 DEF Complete
  <2>3. CASE \E u \in Users, v \in BOOLEAN :
               oreq' = [oreq EXCEPT ![r] = [OIdle EXCEPT !.pc = "byEmail", !.ident = i, !.of = u, !.verified = v]]
    <3>1. PICK u \in Users, v \in BOOLEAN :
            oreq' = [oreq EXCEPT ![r] = [OIdle EXCEPT !.pc = "byEmail", !.ident = i, !.of = u, !.verified = v]]
      BY <2>3
    <3>2. PICK q : q = [OIdle EXCEPT !.pc = "byEmail", !.ident = i, !.of = u, !.verified = v]
      OBVIOUS
    <3>3. q \in Login /\ OSound(q, acct) /\ OSpares(q, acct, user)
      BY <3>2 DEF OIdle, Login, OSound, OSpares
    <3>. QED  BY <2>2, <3>1, <3>2, <3>3, OReads
  <2>4. CASE \E a \in LinkOf(i) :
               oreq' = [oreq EXCEPT ![r] = [OIdle EXCEPT !.pc = "refresh", !.ident = i,
                                                         !.of = acct[a].owner, !.row = a]]
    <3>1. PICK a \in LinkOf(i) :
            oreq' = [oreq EXCEPT ![r] = [OIdle EXCEPT !.pc = "refresh", !.ident = i,
                                                      !.of = acct[a].owner, !.row = a]]
      BY <2>4
    <3>2. PICK q : q = [OIdle EXCEPT !.pc = "refresh", !.ident = i, !.of = acct[a].owner, !.row = a]
      OBVIOUS
    <3>3. a \in Rows /\ acct[a] \in AccountRow /\ acct[a].ident = i /\ acct[a].owner \in Users
      BY <1>0, <3>1 DEF LinkOf, AccountRow
    <3>4. acct[a] = [owner |-> acct[a].owner, ident |-> i]
      BY <3>3 DEF AccountRow
    <3>5. q \in Login /\ OSound(q, acct) /\ OSpares(q, acct, user)
      BY <3>2, <3>3, <3>4 DEF OIdle, Login, OSound, OSpares
    <3>. QED  BY <2>2, <3>1, <3>2, <3>5, OReads
  <2>. QED  BY <2>1, <2>3, <2>4
<1>2. CASE refreshAccount(r)
  <2>1. acct[oreq[r].row] = None \/ acct[oreq[r].row] = [owner |-> oreq[r].of, ident |-> oreq[r].ident]
    BY <1>0, <1>2 DEF refreshAccount, OSound
  <2>2. acct' = acct
    BY <1>0, <1>2, <2>1 DEF refreshAccount, UpdateAccount
  <2>. QED  BY <1>2, <2>2, OReturns DEF refreshAccount
<1>3. CASE GetUserByEmail(r)
  <2>1. oreq[r].pc = "byEmail" /\ oreq[r].of \in Users /\ oreq[r].ident \in Idents
        /\ UNCHANGED <<conf, user, acct, vouched, raced>>
    BY <1>0, <1>3 DEF GetUserByEmail, OSound
  <2>2. CASE OReturn(r)
    BY <2>1, <2>2, OReturns
  <2>3. CASE OGoto(r, "link") /\ oreq[r].verified
    <3>1. PICK q : q = [oreq[r] EXCEPT !.pc = "link"]
      OBVIOUS
    <3>2. oreq' = [oreq EXCEPT ![r] = q]
      BY <2>3, <3>1 DEF OGoto
    <3>3. q \in Login /\ OSound(q, acct) /\ OSpares(q, acct, user)
      BY <1>0, <2>1, <2>3, <3>1 DEF Login, OSound, OSpares
    <3>. QED  BY <2>1, <3>2, <3>3, OReads
  <2>4. CASE OGoto(r, "signUp")
    <3>1. PICK q : q = [oreq[r] EXCEPT !.pc = "signUp"]
      OBVIOUS
    <3>2. oreq' = [oreq EXCEPT ![r] = q]
      BY <2>4, <3>1 DEF OGoto
    <3>3. q \in Login /\ OSound(q, acct) /\ OSpares(q, acct, user)
      BY <1>0, <2>1, <3>1 DEF Login, OSound, OSpares
    <3>. QED  BY <2>1, <3>2, <3>3, OReads
  <2>. QED  BY <1>3, <2>2, <2>3, <2>4 DEF GetUserByEmail, MayLink
<1>4. CASE SignUpInTx(r)
  <2>1. oreq[r].of \in Users /\ oreq[r].ident \in Idents /\ OReturn(r) /\ UNCHANGED <<conf, raced>>
    BY <1>0, <1>4 DEF SignUpInTx, OSound
  <2>2. CASE ~Exists(oreq[r].of) /\ MayCreateAccount(oreq[r].ident)
    <3>1. user' = [user EXCEPT ![oreq[r].of] = "social"] /\ CreateAccount(oreq[r].of, oreq[r].ident, TRUE)
      BY <1>4, <2>2 DEF SignUpInTx, CreateUser
    <3>2. PICK u \in Users : u = oreq[r].of
      BY <2>1
    <3>3. /\ user' \in [Users -> {"none", "social", "mail", "password"}]
          /\ \A v \in Users : user'[v] = user[v] \/ (v = u /\ user'[v] = "social" /\ user[v] # "password")
      BY <1>0, <2>2, <3>1, <3>2 DEF Exists
    <3>. QED  BY <2>1, <2>2, <3>1, <3>2, <3>3, LinkMadeReturns
  <2>3. CASE ~(~Exists(oreq[r].of) /\ MayCreateAccount(oreq[r].ident))
    BY <1>4, <2>1, <2>3, OReturns DEF SignUpInTx
  <2>. QED  BY <2>2, <2>3
<1>5. CASE SignUpUser(r)
  <2>1. ~conf.hasTx /\ oreq[r].pc = "signUp" /\ oreq[r].of \in Users /\ oreq[r].ident \in Idents
        /\ UNCHANGED <<conf, acct, vouched, raced>>
    BY <1>0, <1>5 DEF SignUpUser, OSound
  <2>2. CASE OReturn(r) /\ UNCHANGED user
    BY <2>1, <2>2, OReturns
  <2>3. CASE CreateUser(oreq[r].of, "social") /\ OGoto(r, "signUpLink")
    <3>1. PICK q : q = [oreq[r] EXCEPT !.pc = "signUpLink"]
      OBVIOUS
    <3>2. oreq' = [oreq EXCEPT ![r] = q]
      BY <2>3, <3>1 DEF OGoto
    <3>3. q \in Login /\ q.pc = "signUpLink" /\ q.of = oreq[r].of /\ q.ident = oreq[r].ident
      BY <1>0, <3>1 DEF Login
    <3>4. OSound(q, acct') /\ OSpares(q, acct', user')
      BY <2>1, <3>3 DEF OSound, OSpares
    <3>5. /\ user' \in [Users -> {"none", "social", "mail", "password"}]
          /\ \A v \in Users : user[v] = "password" => user'[v] = "password"
      BY <1>0, <2>3 DEF CreateUser, Exists
    <3>6. oreq' \in [Logins -> Login] /\ \A p \in Logins : oreq'[p] = IF p = r THEN q ELSE oreq[p]
      BY <3>2, <3>3 DEF OInv, OTypeOK
    <3>. QED  BY <2>1, <3>4, <3>5, <3>6, UsersChange
  <2>. QED  BY <1>5, <2>2, <2>3 DEF SignUpUser
<1>6. CASE newAccount(r)
  <2>1. /\ oreq[r].of \in Users /\ oreq[r].ident \in Idents /\ OReturn(r) /\ UNCHANGED <<conf, user, raced>>
        /\ oreq[r].verified \/ oreq[r].pc = "signUpLink"
    BY <1>0, <1>6 DEF newAccount, OSound
  <2>2. CASE MayCreateAccount(oreq[r].ident)
    <3>1. CreateAccount(oreq[r].of, oreq[r].ident, oreq[r].verified \/ oreq[r].pc = "signUpLink")
      BY <1>6, <2>2 DEF newAccount
    <3>2. CreateAccount(oreq[r].of, oreq[r].ident, TRUE)
      BY <2>1, <3>1 DEF CreateAccount
    <3>3. /\ user' \in [Users -> {"none", "social", "mail", "password"}]
          /\ \A v \in Users : user'[v] = user[v]
      BY <1>0, <2>1
    <3>. QED  BY <2>1, <2>2, <3>2, <3>3, LinkMadeReturns
  <2>3. CASE ~MayCreateAccount(oreq[r].ident)
    BY <1>6, <2>1, <2>3, OReturns DEF newAccount
  <2>. QED  BY <2>2, <2>3
<1>7. CASE Link(r)
  <2>1. PICK u \in Users, i \in Idents :
          oreq' = [oreq EXCEPT ![r] = [OIdle EXCEPT !.pc = "link", !.ident = i, !.of = u, !.verified = TRUE]]
    BY <1>7 DEF Link
  <2>2. PICK q : q = [OIdle EXCEPT !.pc = "link", !.ident = i, !.of = u, !.verified = TRUE]
    OBVIOUS
  <2>3. q \in Login /\ OSound(q, acct) /\ OSpares(q, acct, user)
    BY <2>2 DEF OIdle, Login, OSound, OSpares
  <2>. QED  BY <1>7, <2>1, <2>2, <2>3, OReads DEF Link
<1>8. CASE Unlink(r)
  <2>1. PICK u \in Users : \E a \in ListAccountsByUser(u) :
          /\ MayRemove(u, Cardinality(ListAccountsByUser(u)))
          /\ oreq' = [oreq EXCEPT ![r] = [OIdle EXCEPT !.pc = "unlink", !.of = u, !.row = a]]
    BY <1>8 DEF Unlink
  <2>2. PICK a \in ListAccountsByUser(u) :
          /\ MayRemove(u, Cardinality(ListAccountsByUser(u)))
          /\ oreq' = [oreq EXCEPT ![r] = [OIdle EXCEPT !.pc = "unlink", !.of = u, !.row = a]]
    BY <2>1
  <2>3. PICK q : q = [OIdle EXCEPT !.pc = "unlink", !.of = u, !.row = a]
    OBVIOUS
  <2>4. a \in Rows /\ acct[a] # None /\ acct[a].owner = u
    BY <2>2 DEF ListAccountsByUser
  <2>5. q \in Login /\ q.pc = "unlink" /\ q.of = u /\ q.row = a
    BY <2>3, <2>4 DEF OIdle, Login
  <2>6. OSound(q, acct)
    BY <2>4, <2>5 DEF OSound
  <2>7. user[u] # "password" => \E b \in Rows \ {a} : acct[b] # None /\ acct[b].owner = u
    <3>. SUFFICES ASSUME user[u] # "password", ListAccountsByUser(u) = {a} PROVE FALSE
      BY <2>2 DEF ListAccountsByUser
    <3>1. Cardinality(ListAccountsByUser(u)) = 1
      BY FS_Singleton
    <3>. QED  BY <2>2, <3>1 DEF MayRemove
  <2>8. OSpares(q, acct, user)
    BY <2>5, <2>7 DEF OSpares
  <2>. QED  BY <1>8, <2>2, <2>3, <2>5, <2>6, <2>8, OReads DEF Unlink
<1>9. CASE UnlinkDelete(r)
  <2>1. PICK a \in Rows, u \in Users : a = oreq[r].row /\ u = oreq[r].of
    BY <1>0, <1>9 DEF UnlinkDelete, OSound
  <2>2. /\ oreq[r].pc = "unlink"
        /\ acct' = [acct EXCEPT ![a] = None]
        /\ raced' = IF oreq[r].late THEN raced \cup {u} ELSE raced
        /\ oreq' = [q \in Logins |->
             IF q = r THEN OIdle
             ELSE IF oreq[q].pc = "unlink" /\ oreq[q].of = u THEN [oreq[q] EXCEPT !.late = TRUE]
             ELSE oreq[q]]
        /\ vouched' = vouched \ {a}
        /\ UNCHANGED <<conf, user>>
    BY <1>9, <2>1 DEF UnlinkDelete, DeleteAccount
  <2>3. \A b \in Rows : acct'[b] = IF b = a THEN None ELSE acct[b]
    BY <1>0, <2>2
  <2>4. acct[a] # None => acct[a].owner = u
    BY <1>0, <2>1, <2>2 DEF OSound
  <2>5. ASSUME NEW q \in Logins
        PROVE  oreq'[q] \in Login /\ OSound(oreq'[q], acct') /\ OSpares(oreq'[q], acct', user')
    <3>1. oreq[q] \in Login /\ OSound(oreq[q], acct) /\ OSpares(oreq[q], acct, user)
      BY DEF OInv, OTypeOK
    <3>2. CASE q = r
      BY <2>2, <3>2, OIdleIs
    <3>3. CASE q # r /\ oreq[q].pc = "unlink" /\ oreq[q].of = u
      <4>1. oreq'[q] = [oreq[q] EXCEPT !.late = TRUE]
        BY <2>2, <3>3
      <4>2. /\ oreq'[q] \in Login /\ oreq'[q].pc = "unlink" /\ oreq'[q].of = u
            /\ oreq'[q].row = oreq[q].row /\ oreq'[q].late
        BY <3>1, <3>3, <4>1 DEF Login
      <4>. QED  BY <2>3, <3>1, <3>3, <4>2 DEF OSound, OSpares
    <3>4. CASE q # r /\ ~(oreq[q].pc = "unlink" /\ oreq[q].of = u)
      <4>1. oreq'[q] = oreq[q]
        BY <2>2, <3>4
      <4>2. OSound(oreq[q], acct')
        BY <2>3, <3>1 DEF OSound
      <4>3. OSpares(oreq[q], acct', user')
        BY <2>2, <2>3, <2>4, <3>1, <3>4 DEF OSpares
      <4>. QED  BY <3>1, <4>1, <4>2, <4>3
    <3>. QED  BY <3>2, <3>3, <3>4
  <2>6. oreq' \in [Logins -> Login]
    BY <2>2, <2>5
  <2>7. OneLinkEach' /\ Vouched'
    BY <2>2, <2>3 DEF OInv, OneLinkEach, Vouched
  <2>8. KeepsALink'
    <3>1. ASSUME conf.hasTx, NEW v \in Users \ raced', user[v] = "social"
          PROVE  \E b \in Rows : acct'[b] # None /\ acct'[b].owner = v
      <4>1. CASE v = u
        <5>1. ~oreq[r].late
          BY <2>2, <4>1
        <5>2. PICK b \in Rows \ {a} : acct[b] # None /\ acct[b].owner = u
          BY <1>0, <2>1, <2>2, <3>1, <4>1, <5>1 DEF OSpares
        <5>. QED  BY <2>3, <4>1, <5>2
      <4>2. CASE v # u
        <5>1. v \notin raced
          BY <2>2
        <5>2. PICK b \in Rows : acct[b] # None /\ acct[b].owner = v
          BY <3>1, <5>1 DEF OInv, KeepsALink, ListAccountsByUser
        <5>. QED  BY <2>3, <2>4, <4>2, <5>2
      <4>. QED  BY <4>1, <4>2
    <3>. QED  BY <2>2, <3>1 DEF KeepsALink, ListAccountsByUser
  <2>9. /\ conf' \in Conf /\ user' \in [Users -> {"none", "social", "mail", "password"}]
        /\ acct' \in [Rows -> AccountRow \cup {None}] /\ vouched' \subseteq Rows /\ raced' \subseteq Users
    BY <1>0, <2>1, <2>2
  <2>. QED  BY <2>5, <2>6, <2>7, <2>8, <2>9, OTogether
<1>10. CASE OCutOff(r)
  BY <1>10, OReturns DEF OCutOff
<1>. QED
  BY <1>1, <1>2, <1>3, <1>4, <1>5, <1>6, <1>7, <1>8, <1>9, <1>10 DEF OStep

\* OInv is about the links' own variables.
LEMMA ORests == ASSUME OInv, UNCHANGED ovars PROVE OInv'
BY DEF OInv, OTypeOK, OSound, OSpares, OneLinkEach, Vouched, KeepsALink, ListAccountsByUser, ovars

\* What it comes to: no identity has two links.
LEMMA OProves == OInv => LinksAreProven
<1>. SUFFICES ASSUME OInv PROVE LinksAreProven
  OBVIOUS
<1>1. ASSUME NEW i \in Idents PROVE Cardinality(LinkOf(i)) <= 1
  <2>1. CASE LinkOf(i) = {}
    BY <2>1, FS_EmptySet
  <2>2. CASE LinkOf(i) # {}
    <3>1. PICK a : LinkOf(i) = {a}
      BY <2>2 DEF LinkOf, OInv, OneLinkEach
    <3>. QED  BY <3>1, FS_Singleton
  <2>. QED  BY <2>1, <2>2
<1>. QED  BY <1>1 DEF OInv, Vouched, LinksAreProven

-----------------------------------------------------------------------------
(***************************************************************************)
(* Passkeys: every step of PStep and of Begin keeps PInv.                  *)
(***************************************************************************)

\* A request that is not under way.
LEMMA PIdleIs ==
    ASSUME NEW table, NEW kind
    PROVE  PIdle \in Ceremony /\ PIdle.pc = "idle" /\ PSound(PIdle, table) /\ PSpares(PIdle, table, kind)
<1>1. PIdle \in Ceremony
  BY PasskeyAssumption DEF PIdle, Ceremony, PCs
<1>. QED  BY <1>1 DEF PIdle, PSound, PSpares

\* The bounds of a behaviour are within the constants.
LEMMA Bounds ==
    ASSUME Inv
    PROVE  /\ scope.logins \subseteq Logins /\ scope.ceremonies \subseteq Ceremonies /\ scope.users \subseteq Users
           /\ scope.keys \subseteq Keys /\ scope.max \in 0 .. MaxCount
BY PasskeyAssumption DEF Inv, PInv, TypeOK

\* The credentials after a step are those before it, and their owners too.
SameOwners ==
    \A k \in Keys :
        /\ cred'[k] = None <=> cred[k] = None
        /\ cred[k] # None => cred'[k].owner = cred[k].owner

\* Requests and users stay well when no credential comes, goes or changes
\* hands, and nobody loses a password.
LEMMA OwnersStay ==
    ASSUME Inv, SameOwners, \A u \in Users : user[u] = "password" => user'[u] = "password",
           UNCHANGED <<praced, had>>
    PROVE  /\ \A p \in Ceremonies : PSound(preq[p], cred') /\ PSpares(preq[p], cred', user')
           /\ KeepsAPasskey'
<1>1. ASSUME NEW p \in Ceremonies PROVE PSound(preq[p], cred')
  <2>1. preq[p] \in Ceremony /\ PSound(preq[p], cred)
    BY DEF Inv, PInv, TypeOK
  <2>. QED  BY <2>1 DEF PSound, SameOwners
<1>2. ASSUME NEW p \in Ceremonies PROVE PSpares(preq[p], cred', user')
  <2>. SUFFICES ASSUME preq[p].pc = "remove", ~preq[p].late, user'[preq[p].of] # "password"
                PROVE  \E k \in Keys \ {preq[p].key} : cred'[k] # None /\ cred'[k].owner = preq[p].of
    BY DEF PSpares
  <2>1. PSound(preq[p], cred) /\ PSpares(preq[p], cred, user)
    BY DEF Inv, PInv
  <2>2. preq[p].of \in Users
    BY <2>1 DEF PSound, Cred
  <2>3. PICK k \in Keys \ {preq[p].key} : cred[k] # None /\ cred[k].owner = preq[p].of
    BY <2>1, <2>2 DEF PSpares
  <2>. QED  BY <2>3 DEF SameOwners
<1>3. KeepsAPasskey'
  <2>. SUFFICES ASSUME NEW u \in had \ praced, user'[u] # "password"
                PROVE  \E k \in Keys : cred'[k] # None /\ cred'[k].owner = u
    BY DEF KeepsAPasskey, ListWebAuthnCredentialsByUser
  <2>1. u \in Users
    BY DEF Inv, PInv, TypeOK
  <2>2. PICK k \in Keys : cred[k] # None /\ cred[k].owner = u
    BY <2>1 DEF Inv, PInv, KeepsAPasskey, ListWebAuthnCredentialsByUser
  <2>. QED  BY <2>2 DEF SameOwners
<1>. QED  BY <1>1, <1>2, <1>3

\* Request r has turned into q and the others are as well as they were.
LEMMA PMoves ==
    ASSUME Inv, NEW r \in Ceremonies, NEW q \in Ceremony, preq' = [preq EXCEPT ![r] = q],
           PSound(q, cred'), PSpares(q, cred', user'),
           \A p \in Ceremonies \ {r} : PSound(preq[p], cred') /\ PSpares(preq[p], cred', user')
    PROVE  /\ preq' \in [Ceremonies -> Ceremony]
           /\ \A p \in Ceremonies : PSound(preq'[p], cred') /\ PSpares(preq'[p], cred', user')
<1>1. preq \in [Ceremonies -> Ceremony]
  BY DEF Inv, PInv, TypeOK
<1>2. \A p \in Ceremonies : preq'[p] = IF p = r THEN q ELSE preq[p]
  BY <1>1
<1>3. preq' \in [Ceremonies -> Ceremony]
  BY <1>1
<1>. QED  BY <1>2, <1>3

\* What the tables and histories of passkeys are.
PTables ==
    /\ scope \in Scopes
    /\ reject \in BOOLEAN
    /\ cred \in [Keys -> Cred \cup {None}]
    /\ chal \in [Handles -> Challenge \cup {None}]
    /\ highest \in [Keys -> 0 .. MaxCount]
    /\ warned \subseteq Keys
    /\ overtaken \subseteq Keys
    /\ praced \subseteq Users
    /\ had \subseteq Users

LEMMA PTablesAre == ASSUME Inv PROVE PTables
BY DEF Inv, PInv, TypeOK, PTables

\* Inv is made of what is known of links, tables and requests.
LEMMA PTogether ==
    ASSUME OInv', PTables', preq' \in [Ceremonies -> Ceremony],
           \A p \in Ceremonies : PSound(preq'[p], cred') /\ PSpares(preq'[p], cred', user'),
           KeepsAPasskey', WarnedOfSome', CloneEvidence'
    PROVE  Inv'
<1>1. TypeOK'
  BY DEF TypeOK, PTables, OInv
<1>. QED  BY <1>1 DEF Inv, PInv, PSound, PSpares

\* Requests and ceremonies move while credentials and histories stay.
LEMMA PReads ==
    ASSUME Inv, NEW r \in Ceremonies, NEW q \in Ceremony, preq' = [preq EXCEPT ![r] = q],
           PSound(q, cred), PSpares(q, cred, user), chal' \in [Handles -> Challenge \cup {None}],
           UNCHANGED <<scope, ovars, reject, cred, Histories>>
    PROVE  Inv'
<1>0. cred' = cred /\ user' = user /\ UNCHANGED <<highest, warned, overtaken, praced, had>>
  BY DEF ovars, Histories
<1>1. OInv'
  BY ORests DEF Inv
<1>2. PTables'
  BY <1>0, PTablesAre DEF PTables
<1>3. SameOwners
  BY <1>0 DEF SameOwners
<1>4. (\A p \in Ceremonies : PSound(preq[p], cred') /\ PSpares(preq[p], cred', user')) /\ KeepsAPasskey'
  BY <1>0, <1>3, OwnersStay
<1>5. PSound(q, cred') /\ PSpares(q, cred', user')
  BY <1>0
<1>6. /\ preq' \in [Ceremonies -> Ceremony]
      /\ \A p \in Ceremonies : PSound(preq'[p], cred') /\ PSpares(preq'[p], cred', user')
  BY <1>4, <1>5, PMoves
<1>7. WarnedOfSome' /\ CloneEvidence'
  BY <1>0 DEF Inv, PInv, WarnedOfSome, CloneEvidence
<1>. QED  BY <1>1, <1>2, <1>4, <1>6, <1>7, PTogether

\* A request returns while credentials and histories stay.
LEMMA PReturns ==
    ASSUME Inv, NEW r \in Ceremonies, PReturn(r), chal' \in [Handles -> Challenge \cup {None}],
           UNCHANGED <<scope, ovars, reject, cred, Histories>>
    PROVE  Inv'
<1>1. preq' = [preq EXCEPT ![r] = PIdle]
  BY DEF PReturn
<1>. QED  BY <1>1, PIdleIs, PReads

\* A ceremony is issued or runs out.
LEMMA BeginKeeps == ASSUME Inv, Begin, UNCHANGED <<scope, ovars>> PROVE Inv'
<1>0. PTables
  BY PTablesAre
<1>1. chal' \in [Handles -> Challenge \cup {None}] /\ UNCHANGED <<reject, cred, preq, Histories>>
  <2>1. ASSUME NEW c \in Challenge, issueCeremony(c)
        PROVE  chal' \in [Handles -> Challenge \cup {None}] /\ UNCHANGED <<reject, cred, preq, Histories>>
    BY <1>0, <2>1 DEF issueCeremony, CreateWebAuthnChallenge, PTables
  <2>2. ASSUME NEW f \in Users \cup {None}, NEW kind \in {"registration", "login"}
        PROVE  [kind |-> kind, for |-> f] \in Challenge
    BY DEF Challenge
  <2>3. CASE BeginRegistration
    BY <2>1, <2>2, <2>3 DEF BeginRegistration
  <2>4. CASE BeginLogin
    BY <2>1, <2>2, <2>4 DEF BeginLogin
  <2>5. CASE BeginDiscoverableLogin
    BY <2>1, <2>2, <2>5 DEF BeginDiscoverableLogin
  <2>6. CASE Expire
    BY <1>0, <2>6 DEF Expire, ConsumeWebAuthnChallenge, PTables
  <2>. QED  BY <2>3, <2>4, <2>5, <2>6 DEF Begin
<1>2. cred' = cred /\ user' = user /\ UNCHANGED <<highest, warned, overtaken, praced, had>>
  BY <1>1 DEF ovars, Histories
<1>3. OInv'
  BY ORests DEF Inv
<1>4. PTables'
  BY <1>0, <1>1, <1>2 DEF PTables
<1>5. SameOwners
  BY <1>2 DEF SameOwners
<1>6. (\A p \in Ceremonies : PSound(preq[p], cred') /\ PSpares(preq[p], cred', user')) /\ KeepsAPasskey'
  BY <1>2, <1>5, OwnersStay
<1>7. preq' = preq /\ preq' \in [Ceremonies -> Ceremony]
  BY <1>1 DEF Inv, PInv, TypeOK
<1>8. WarnedOfSome' /\ CloneEvidence'
  BY <1>2 DEF Inv, PInv, WarnedOfSome, CloneEvidence
<1>. QED  BY <1>3, <1>4, <1>6, <1>7, <1>8, PTogether

\* A step of the links, or a password set.
LEMMA LinksMove ==
    ASSUME Inv, UNCHANGED <<scope, pvars>>,
           (\E u \in Users : SetPassword(u)) \/ (\E r \in Logins : OStep(r))
    PROVE  Inv'
<1>1. OInv'
  BY SetPasswordKeeps, OSteps DEF Inv
<1>2. \A u \in Users : user[u] = "password" => user'[u] = "password"
  <2>1. user \in [Users -> {"none", "social", "mail", "password"}]
    BY DEF Inv, OInv, OTypeOK
  <2>2. CASE \E u \in Users : SetPassword(u)
    BY <2>1, <2>2 DEF SetPassword
  <2>3. ASSUME NEW r \in Logins, OStep(r)
        PROVE  user' = user \/ CreateUser(oreq[r].of, "social")
    BY <2>3 DEF OStep, Complete, refreshAccount, GetUserByEmail, SignUpInTx, SignUpUser, newAccount,
                Link, Unlink, UnlinkDelete, OCutOff
  <2>4. ASSUME NEW r \in Logins, OStep(r)
        PROVE  \A u \in Users : user[u] = "password" => user'[u] = "password"
    BY <2>1, <2>3, <2>4 DEF CreateUser, Exists
  <2>. QED  BY <2>2, <2>4
<1>3. UNCHANGED <<scope, reject, cred, chal, preq, highest, warned, overtaken, praced, had>>
  BY DEF pvars
<1>4. PTables'
  BY <1>3, PTablesAre DEF PTables
<1>5. SameOwners
  BY <1>3 DEF SameOwners
<1>6. (\A p \in Ceremonies : PSound(preq[p], cred') /\ PSpares(preq[p], cred', user')) /\ KeepsAPasskey'
  BY <1>2, <1>3, <1>5, OwnersStay
<1>7. preq' = preq /\ preq' \in [Ceremonies -> Ceremony]
  BY <1>3 DEF Inv, PInv, TypeOK
<1>8. WarnedOfSome' /\ CloneEvidence'
  BY <1>3 DEF Inv, PInv, WarnedOfSome, CloneEvidence
<1>. QED  BY <1>1, <1>4, <1>6, <1>7, <1>8, PTogether

\* A row is written: nothing comes, goes or changes hands, and outside of the
\* overtaken credentials the row was what the new one is made from.
LEMMA RowWritten ==
    ASSUME Inv, NEW r \in Ceremonies, preq[r].pc \in {"flag", "update", "rename"},
           NEW row \in Cred, row.owner = preq[r].copy.owner, NEW read, UpdateWebAuthnCredential(r, row, read)
    PROVE  /\ cred' \in [Keys -> Cred \cup {None}] /\ overtaken' \subseteq Keys /\ SameOwners
           /\ \A k \in Keys \ overtaken' : k \notin overtaken
           /\ preq[r].gone => cred' = cred
           /\ ~preq[r].gone =>
                 /\ preq[r].key \in Keys
                 /\ cred[preq[r].key] # None /\ cred'[preq[r].key] = row
                 /\ preq[r].key \notin overtaken' => cred[preq[r].key] = read
           /\ \A k \in Keys \ {preq[r].key} : cred'[k] = cred[k]
<1>1. PTables /\ PSound(preq[r], cred)
  BY PTablesAre DEF Inv, PInv
<1>2. row # None /\ preq[r].copy # None
  BY <1>1, PasskeyAssumption DEF PSound
<1>3. CASE preq[r].gone
  BY <1>1, <1>3 DEF UpdateWebAuthnCredential, SameOwners, PTables
<1>4. CASE ~preq[r].gone
  <2>1. PICK k \in Keys : k = preq[r].key
    BY <1>1, <1>2, <1>4 DEF PSound
  <2>2. cred[k] # None /\ cred[k].owner = row.owner
    BY <1>1, <1>2, <1>4, <2>1 DEF PSound
  <2>3. /\ cred' = [cred EXCEPT ![k] = row]
        /\ overtaken' = IF read = cred[k] THEN overtaken ELSE overtaken \cup {k}
    BY <1>4, <2>1 DEF UpdateWebAuthnCredential
  <2>4. \A j \in Keys : cred'[j] = IF j = k THEN row ELSE cred[j]
    BY <1>1, <2>3 DEF PTables
  <2>5. cred' \in [Keys -> Cred \cup {None}] /\ overtaken' \subseteq Keys
    BY <1>1, <2>3 DEF PTables
  <2>6. SameOwners
    BY <1>2, <2>2, <2>4 DEF SameOwners
  <2>. QED  BY <1>4, <2>1, <2>2, <2>3, <2>4, <2>5, <2>6
<1>. QED  BY <1>3, <1>4

\* A step that writes a row, with what the histories and the request become.
LEMMA WriteKeeps ==
    ASSUME Inv, NEW r \in Ceremonies, cred' \in [Keys -> Cred \cup {None}], overtaken' \subseteq Keys, SameOwners,
           UNCHANGED <<scope, ovars, reject, chal, praced, had>>,
           highest' \in [Keys -> 0 .. MaxCount], warned' \subseteq Keys,
           \A k \in warned' : cred[k] # None,
           NEW q \in Ceremony, preq' = [preq EXCEPT ![r] = q], PSound(q, cred'), PSpares(q, cred', user'),
           CloneEvidence'
    PROVE  Inv'
<1>1. OInv'
  BY ORests DEF Inv
<1>2. PTables'
  BY PTablesAre DEF PTables
<1>3. user' = user
  BY DEF ovars
<1>4. (\A p \in Ceremonies : PSound(preq[p], cred') /\ PSpares(preq[p], cred', user')) /\ KeepsAPasskey'
  BY <1>3, OwnersStay
<1>5. /\ preq' \in [Ceremonies -> Ceremony]
      /\ \A p \in Ceremonies : PSound(preq'[p], cred') /\ PSpares(preq'[p], cred', user')
  BY <1>4, PMoves
<1>6. WarnedOfSome'
  BY DEF WarnedOfSome, SameOwners
<1>. QED  BY <1>1, <1>2, <1>4, <1>5, <1>6, PTogether

\* The library's UpdateCounter: its result is a blob, and its counter is the
\* highest of the one before and the one asserted.
LEMMA UpdateCounterIs ==
    ASSUME NEW blob \in Blob, NEW n \in 0 .. MaxCount
    PROVE  /\ UpdateCounter(blob, n) \in Blob
           /\ UpdateCounter(blob, n).count = IF n <= blob.count THEN blob.count ELSE n
<1>1. blob.count \in Nat /\ n \in Nat /\ MaxCount \in Nat
  BY PasskeyAssumption DEF Blob
<1>2. CASE Regressed(blob, n)
  <2>1. PICK b : b = [blob EXCEPT !.cloned = TRUE]
    OBVIOUS
  <2>2. b \in Blob /\ b.count = blob.count
    BY <2>1 DEF Blob
  <2>. QED  BY <1>2, <2>1, <2>2 DEF UpdateCounter, Regressed
<1>3. CASE ~Regressed(blob, n)
  <2>1. PICK b : b = [blob EXCEPT !.count = n]
    OBVIOUS
  <2>2. b \in Blob /\ b.count = n
    BY <2>1 DEF Blob
  <2>3. n = IF n <= blob.count THEN blob.count ELSE n
    BY <1>1, <1>3 DEF Regressed
  <2>. QED  BY <1>3, <2>1, <2>2, <2>3 DEF UpdateCounter
<1>. QED  BY <1>2, <1>3

\* The warning of a clone.
LEMMA FlagCloneKeeps ==
    ASSUME Inv, NEW r \in Ceremonies, FlagClone(r), UNCHANGED <<scope, ovars>>
    PROVE  Inv'
<1>0. PTables /\ preq[r] \in Ceremony /\ PSound(preq[r], cred) /\ preq[r].pc = "flag"
  BY PTablesAre DEF Inv, PInv, TypeOK, FlagClone
<1>1. preq[r].copy \in Cred /\ preq[r].key \in Keys /\ preq[r].blob \in Blob
  BY <1>0 DEF PSound
<1>2. PICK row : row = Flagged(preq[r].copy)
  OBVIOUS
<1>3. row \in Cred /\ row.owner = preq[r].copy.owner /\ row.data = preq[r].copy.data /\ row.flagged
  BY <1>1, <1>2 DEF Flagged, Cred
<1>4. /\ UpdateWebAuthnCredential(r, row, preq[r].copy)
      /\ warned' = IF preq[r].gone THEN warned ELSE warned \cup {preq[r].key}
      /\ UNCHANGED <<reject, chal, highest, praced, had>>
  BY <1>2 DEF FlagClone
<1>5. /\ cred' \in [Keys -> Cred \cup {None}] /\ overtaken' \subseteq Keys /\ SameOwners
      /\ \A k \in Keys \ overtaken' : k \notin overtaken
      /\ preq[r].gone => cred' = cred
      /\ ~preq[r].gone =>
            /\ preq[r].key \in Keys
            /\ cred[preq[r].key] # None /\ cred'[preq[r].key] = row
            /\ preq[r].key \notin overtaken' => cred[preq[r].key] = preq[r].copy
      /\ \A k \in Keys \ {preq[r].key} : cred'[k] = cred[k]
  BY <1>0, <1>3, <1>4, RowWritten
<1>6. warned' \subseteq Keys /\ \A k \in warned' : cred[k] # None
  BY <1>0, <1>1, <1>4, <1>5 DEF PTables, Inv, PInv, WarnedOfSome
<1>7. CloneEvidence'
  <2>. SUFFICES ASSUME NEW k \in Keys \ overtaken', cred'[k] # None
                PROVE  cred'[k].data.count = highest[k] /\ (k \in warned' => cred'[k].flagged)
    BY <1>4 DEF CloneEvidence
  <2>1. cred[k] # None /\ k \notin overtaken
    BY <1>5 DEF SameOwners
  <2>2. cred[k].data.count = highest[k] /\ (k \in warned => cred[k].flagged)
    BY <2>1 DEF Inv, PInv, CloneEvidence
  <2>3. CASE k = preq[r].key /\ ~preq[r].gone
    BY <1>3, <1>5, <2>2, <2>3
  <2>4. CASE ~(k = preq[r].key /\ ~preq[r].gone)
    <3>1. cred'[k] = cred[k]
      BY <1>5, <2>4
    <3>2. k \in warned' => k \in warned
      BY <1>4, <2>4
    <3>. QED  BY <2>2, <3>1, <3>2
  <2>. QED  BY <2>3, <2>4
<1>8. highest' \in [Keys -> 0 .. MaxCount]
  BY <1>0, <1>4 DEF PTables
<1>9. CASE reject \/ preq[r].gone
  <2>1. preq' = [preq EXCEPT ![r] = PIdle]
    BY <1>9 DEF FlagClone, PReturn
  <2>. QED  BY <1>4, <1>5, <1>6, <1>7, <1>8, <2>1, PIdleIs, WriteKeeps
<1>10. CASE ~(reject \/ preq[r].gone)
  <2>1. PICK q : q = [preq[r] EXCEPT !.pc = "update", !.copy = row]
    OBVIOUS
  <2>2. preq' = [preq EXCEPT ![r] = q]
    BY <1>2, <1>10, <2>1, <1>0 DEF FlagClone, PTables
  <2>3. /\ q \in Ceremony /\ q.pc = "update" /\ q.copy = row /\ q.key = preq[r].key
        /\ q.blob = preq[r].blob /\ q.gone = preq[r].gone
    BY <1>0, <1>3, <2>1 DEF Ceremony, PCs
  <2>4. PSound(q, cred') /\ PSpares(q, cred', user')
    BY <1>1, <1>3, <1>5, <1>10, <2>3, PasskeyAssumption DEF PSound, PSpares
  <2>. QED  BY <1>4, <1>5, <1>6, <1>7, <1>8, <2>2, <2>3, <2>4, WriteKeeps
<1>. QED  BY <1>9, <1>10

\* The new counter and the time of use.
LEMMA UpdateLoginKeeps ==
    ASSUME Inv, NEW r \in Ceremonies, UpdateLogin(r), UNCHANGED <<scope, ovars>>
    PROVE  Inv'
<1>0. PTables /\ preq[r] \in Ceremony /\ PSound(preq[r], cred) /\ preq[r].pc = "update"
  BY PTablesAre DEF Inv, PInv, TypeOK, UpdateLogin
<1>1. preq[r].copy \in Cred /\ preq[r].key \in Keys /\ preq[r].blob \in Blob /\ preq[r].n \in 0 .. MaxCount
  BY <1>0 DEF PSound, Ceremony
<1>2. PICK blob : blob = UpdateCounter(preq[r].blob, preq[r].n)
  OBVIOUS
<1>3. blob \in Blob /\ blob.count = IF preq[r].n <= preq[r].blob.count THEN preq[r].blob.count ELSE preq[r].n
  BY <1>1, <1>2, UpdateCounterIs
<1>4. PICK row : row = applyCredential(preq[r].copy, blob)
  OBVIOUS
<1>5. row \in Cred /\ row.owner = preq[r].copy.owner /\ row.data = blob /\ row.flagged = preq[r].copy.flagged
  BY <1>1, <1>3, <1>4 DEF applyCredential, Cred
<1>6. PICK read : read = [preq[r].copy EXCEPT !.data = preq[r].blob]
  OBVIOUS
<1>7. read.data = preq[r].blob /\ read.flagged = preq[r].copy.flagged
  BY <1>1, <1>6 DEF Cred
<1>8. /\ UpdateWebAuthnCredential(r, row, read)
      /\ highest' = IF preq[r].gone \/ preq[r].n <= highest[preq[r].key]
                      THEN highest ELSE [highest EXCEPT ![preq[r].key] = preq[r].n]
      /\ preq' = [preq EXCEPT ![r] = PIdle]
      /\ UNCHANGED <<reject, chal, warned, praced, had>>
  BY <1>2, <1>4, <1>6 DEF UpdateLogin, PReturn
<1>9. /\ cred' \in [Keys -> Cred \cup {None}] /\ overtaken' \subseteq Keys /\ SameOwners
      /\ \A k \in Keys \ overtaken' : k \notin overtaken
      /\ preq[r].gone => cred' = cred
      /\ ~preq[r].gone =>
            /\ preq[r].key \in Keys
            /\ cred[preq[r].key] # None /\ cred'[preq[r].key] = row
            /\ preq[r].key \notin overtaken' => cred[preq[r].key] = read
      /\ \A k \in Keys \ {preq[r].key} : cred'[k] = cred[k]
  BY <1>0, <1>5, <1>8, RowWritten
<1>10. highest' \in [Keys -> 0 .. MaxCount]
  BY <1>0, <1>1, <1>8 DEF PTables
<1>11. warned' \subseteq Keys /\ \A k \in warned' : cred[k] # None
  BY <1>0, <1>8 DEF PTables, Inv, PInv, WarnedOfSome
<1>12. CloneEvidence'
  <2>. SUFFICES ASSUME NEW k \in Keys \ overtaken', cred'[k] # None
                PROVE  cred'[k].data.count = highest'[k] /\ (k \in warned => cred'[k].flagged)
    BY <1>8 DEF CloneEvidence
  <2>1. cred[k] # None /\ k \notin overtaken
    BY <1>9 DEF SameOwners
  <2>2. cred[k].data.count = highest[k] /\ (k \in warned => cred[k].flagged)
    BY <2>1 DEF Inv, PInv, CloneEvidence
  <2>3. CASE k = preq[r].key /\ ~preq[r].gone
    <3>1. cred[k] = read /\ cred'[k] = row
      BY <1>9, <2>3
    <3>2. preq[r].blob.count = highest[k]
      BY <1>7, <2>2, <3>1
    <3>3. highest'[k] = IF preq[r].n <= highest[k] THEN highest[k] ELSE preq[r].n
      BY <1>0, <1>8, <2>3 DEF PTables
    <3>. QED  BY <1>3, <1>5, <1>7, <2>2, <3>1, <3>2, <3>3
  <2>4. CASE ~(k = preq[r].key /\ ~preq[r].gone)
    <3>1. cred'[k] = cred[k] /\ highest'[k] = highest[k]
      BY <1>0, <1>8, <1>9, <2>4 DEF PTables
    <3>. QED  BY <2>2, <3>1
  <2>. QED  BY <2>3, <2>4
<1>. QED  BY <1>8, <1>9, <1>10, <1>11, <1>12, PIdleIs, WriteKeeps

\* A new name.
LEMMA RenameWriteKeeps ==
    ASSUME Inv, NEW r \in Ceremonies, RenameWrite(r), UNCHANGED <<scope, ovars>>
    PROVE  Inv'
<1>0. PTables /\ preq[r] \in Ceremony /\ PSound(preq[r], cred) /\ preq[r].pc = "rename"
  BY PTablesAre DEF Inv, PInv, TypeOK, RenameWrite
<1>1. PICK row \in Cred : row = preq[r].copy
  BY <1>0 DEF PSound
<1>2. /\ UpdateWebAuthnCredential(r, row, row)
      /\ preq' = [preq EXCEPT ![r] = PIdle]
      /\ UNCHANGED <<reject, chal, highest, warned, praced, had>>
  BY <1>1 DEF RenameWrite, PReturn
<1>3. /\ cred' \in [Keys -> Cred \cup {None}] /\ overtaken' \subseteq Keys /\ SameOwners
      /\ \A k \in Keys \ overtaken' : k \notin overtaken
      /\ preq[r].gone => cred' = cred
      /\ ~preq[r].gone =>
            /\ preq[r].key \in Keys
            /\ cred[preq[r].key] # None /\ cred'[preq[r].key] = row
            /\ preq[r].key \notin overtaken' => cred[preq[r].key] = row
      /\ \A k \in Keys \ {preq[r].key} : cred'[k] = cred[k]
  BY <1>0, <1>1, <1>2, RowWritten
<1>4. \A k \in Keys \ overtaken' : cred'[k] = cred[k] /\ k \notin overtaken
  BY <1>3
<1>5. CloneEvidence'
  BY <1>2, <1>4 DEF Inv, PInv, CloneEvidence
<1>6. /\ highest' \in [Keys -> 0 .. MaxCount] /\ warned' \subseteq Keys
      /\ \A k \in warned' : cred[k] # None
  BY <1>0, <1>2 DEF PTables, Inv, PInv, WarnedOfSome
<1>. QED  BY <1>2, <1>3, <1>5, <1>6, PIdleIs, WriteKeeps

\* A credential is created, unless the store has one of its id.
LEMMA RegistrationCreateKeeps ==
    ASSUME Inv, NEW r \in Ceremonies, RegistrationCreate(r), UNCHANGED <<scope, ovars>>
    PROVE  Inv'
<1>0. PTables /\ preq[r] \in Ceremony /\ PSound(preq[r], cred) /\ preq[r].pc = "create"
  BY PTablesAre DEF Inv, PInv, TypeOK, RegistrationCreate
<1>1. PICK k \in Keys, u \in Users : k = preq[r].key /\ u = preq[r].of
  BY <1>0 DEF PSound
<1>2. PReturn(r) /\ UNCHANGED <<reject, chal, warned, overtaken, praced>>
  BY DEF RegistrationCreate
<1>3. CASE cred[k] # None
  <2>1. UNCHANGED <<cred, highest, had>>
    BY <1>1, <1>3 DEF RegistrationCreate
  <2>2. UNCHANGED Histories /\ chal' \in [Handles -> Challenge \cup {None}]
    BY <1>0, <1>2, <2>1 DEF Histories, PTables
  <2>. QED  BY <1>2, <2>1, <2>2, PReturns
<1>4. CASE cred[k] = None
  <2>1. PICK n \in 0 .. scope.max :
          /\ CreateWebAuthnCredential(k, u, n)
          /\ highest' = [highest EXCEPT ![k] = n]
          /\ had' = had \cup {u}
    BY <1>1, <1>4 DEF RegistrationCreate
  <2>2. n \in 0 .. MaxCount
    BY Bounds, PasskeyAssumption
  <2>3. PICK row : row = [owner |-> u, data |-> [count |-> n, cloned |-> FALSE], flagged |-> FALSE]
    OBVIOUS
  <2>4. row \in Cred /\ row.owner = u /\ row.data.count = n /\ row # None
    <3>1. [count |-> n, cloned |-> FALSE] \in Blob
      BY <2>2 DEF Blob
    <3>2. row \in Cred
      BY <2>3, <3>1 DEF Cred
    <3>3. row.owner = u /\ row.data.count = n
      BY <2>3
    <3>. QED  BY <3>2, <3>3, PasskeyAssumption
  <2>5. cred' = [cred EXCEPT ![k] = row]
    BY <2>1, <2>3 DEF CreateWebAuthnCredential
  <2>6. \A j \in Keys : cred'[j] = IF j = k THEN row ELSE cred[j]
    BY <1>0, <2>5 DEF PTables
  <2>7. PTables'
    BY <1>0, <1>2, <2>1, <2>2, <2>4, <2>5 DEF PTables
  <2>8. ASSUME NEW p \in Ceremonies
        PROVE  PSound(preq[p], cred') /\ PSpares(preq[p], cred', user')
    <3>1. PSound(preq[p], cred) /\ PSpares(preq[p], cred, user)
      BY DEF Inv, PInv
    <3>2. PSound(preq[p], cred')
      BY <1>4, <2>6, <3>1 DEF PSound
    <3>3. PSpares(preq[p], cred', user')
      BY <1>4, <2>6, <3>1 DEF PSpares, ovars
    <3>. QED  BY <3>2, <3>3
  <2>9. KeepsAPasskey'
    <3>. SUFFICES ASSUME NEW v \in (had \cup {u}) \ praced, user[v] # "password"
                  PROVE  \E j \in Keys : cred'[j] # None /\ cred'[j].owner = v
      BY <1>2, <2>1 DEF KeepsAPasskey, ListWebAuthnCredentialsByUser, ovars
    <3>1. CASE v = u
      BY <2>4, <2>6, <3>1
    <3>2. CASE v # u
      <4>1. PICK j \in Keys : cred[j] # None /\ cred[j].owner = v
        BY <3>2 DEF Inv, PInv, KeepsAPasskey, ListWebAuthnCredentialsByUser
      <4>. QED  BY <1>4, <2>6, <4>1
    <3>. QED  BY <3>1, <3>2
  <2>10. WarnedOfSome'
    BY <1>0, <1>2, <2>4, <2>6 DEF Inv, PInv, WarnedOfSome, PTables
  <2>11. CloneEvidence'
    <3>. SUFFICES ASSUME NEW j \in Keys \ overtaken, cred'[j] # None
                  PROVE  cred'[j].data.count = highest'[j] /\ (j \in warned => cred'[j].flagged)
      BY <1>2 DEF CloneEvidence
    <3>1. highest'[j] = IF j = k THEN n ELSE highest[j]
      BY <1>0, <2>1 DEF PTables
    <3>2. CASE j = k
      BY <1>4, <2>4, <2>6, <3>1, <3>2 DEF Inv, PInv, WarnedOfSome
    <3>3. CASE j # k
      BY <2>6, <3>1, <3>3 DEF Inv, PInv, CloneEvidence
    <3>. QED  BY <3>2, <3>3
  <2>12. /\ preq' \in [Ceremonies -> Ceremony]
         /\ \A p \in Ceremonies : PSound(preq'[p], cred') /\ PSpares(preq'[p], cred', user')
    <3>1. preq' = [preq EXCEPT ![r] = PIdle]
      BY <1>2 DEF PReturn
    <3>. QED  BY <2>8, <3>1, PIdleIs, PMoves
  <2>13. OInv'
    BY ORests DEF Inv
  <2>. QED  BY <2>7, <2>9, <2>10, <2>11, <2>12, <2>13, PTogether
<1>. QED  BY <1>3, <1>4

\* A request that a removal overtakes.
Overtaken(q, g, l) == [q EXCEPT !.gone = g, !.late = l]

LEMMA OvertakenIs ==
    ASSUME NEW q \in Ceremony
    PROVE  \A g, l \in BOOLEAN :
             /\ Overtaken(q, g, l) \in Ceremony
             /\ Overtaken(q, g, l).pc = q.pc /\ Overtaken(q, g, l).of = q.of /\ Overtaken(q, g, l).key = q.key
             /\ Overtaken(q, g, l).blob = q.blob /\ Overtaken(q, g, l).copy = q.copy
             /\ Overtaken(q, g, l).gone = g /\ Overtaken(q, g, l).late = l
BY DEF Overtaken, Ceremony

\* A credential is removed.
LEMMA RemoveDeleteKeeps ==
    ASSUME Inv, NEW r \in Ceremonies, RemoveDelete(r), UNCHANGED <<scope, ovars>>
    PROVE  Inv'
<1>0. /\ PTables /\ preq[r] \in Ceremony /\ PSound(preq[r], cred) /\ PSpares(preq[r], cred, user)
      /\ preq[r].pc = "remove"
  BY PTablesAre DEF Inv, PInv, TypeOK, RemoveDelete
<1>1. PICK k \in Keys, u \in Users : k = preq[r].key /\ u = preq[r].of /\ u = preq[r].copy.owner
  BY <1>0 DEF PSound, Cred
<1>2. preq[r].copy # None
  BY <1>0, PasskeyAssumption DEF PSound
<1>3. /\ IF preq[r].gone
           THEN UNCHANGED <<cred, highest, warned, overtaken>>
           ELSE /\ cred' = [cred EXCEPT ![k] = None]
                /\ highest' = [highest EXCEPT ![k] = 0]
                /\ warned' = warned \ {k}
                /\ overtaken' = overtaken \ {k}
      /\ praced' = IF preq[r].late THEN praced \cup {u} ELSE praced
      /\ preq' = [q \in Ceremonies |->
           IF q = r THEN PIdle
           ELSE Overtaken(preq[q], preq[q].gone \/ (preq[q].key = k /\ preq[q].copy # None),
                          preq[q].late \/ (preq[q].pc = "remove" /\ preq[q].of = u))]
      /\ UNCHANGED <<reject, chal, had>>
  BY <1>1 DEF RemoveDelete, Overtaken
<1>4. \A j \in Keys : cred'[j] = IF j = k /\ ~preq[r].gone THEN None ELSE cred[j]
  BY <1>0, <1>3 DEF PTables
<1>5. ~preq[r].gone => cred[k] # None /\ cred[k].owner = u
  BY <1>0, <1>1, <1>2 DEF PSound
<1>6. user' = user
  BY DEF ovars
<1>7. PTables'
  <2>1. 0 \in 0 .. MaxCount
    BY PasskeyAssumption
  <2>2. CASE preq[r].gone
    BY <1>0, <1>3, <2>2 DEF PTables
  <2>3. CASE ~preq[r].gone
    BY <1>0, <1>3, <2>1, <2>3 DEF PTables
  <2>. QED  BY <2>2, <2>3
<1>8. ASSUME NEW p \in Ceremonies
      PROVE  preq'[p] \in Ceremony /\ PSound(preq'[p], cred') /\ PSpares(preq'[p], cred', user')
  <2>1. preq[p] \in Ceremony /\ PSound(preq[p], cred) /\ PSpares(preq[p], cred, user)
    BY DEF Inv, PInv, TypeOK
  <2>2. CASE p = r
    BY <1>3, <2>2, PIdleIs
  <2>3. CASE p # r
    <3>. DEFINE G(g) == g <=> (preq[p].gone \/ (preq[p].key = k /\ preq[p].copy # None))
                L(l) == l <=> (preq[p].late \/ (preq[p].pc = "remove" /\ preq[p].of = u))
    <3>1. preq'[p] = Overtaken(preq[p], preq[p].gone \/ (preq[p].key = k /\ preq[p].copy # None),
                               preq[p].late \/ (preq[p].pc = "remove" /\ preq[p].of = u))
      BY <1>3, <2>3
    <3>2. ASSUME NEW g \in BOOLEAN, NEW l \in BOOLEAN, G(g), L(l)
          PROVE  /\ Overtaken(preq[p], g, l) \in Ceremony
                 /\ PSound(Overtaken(preq[p], g, l), cred')
                 /\ PSpares(Overtaken(preq[p], g, l), cred', user')
      <4>. DEFINE q == Overtaken(preq[p], g, l)
      <4>1. /\ q \in Ceremony /\ q.pc = preq[p].pc /\ q.of = preq[p].of /\ q.key = preq[p].key
            /\ q.blob = preq[p].blob /\ q.copy = preq[p].copy /\ q.gone = g /\ q.late = l
        BY <2>1, OvertakenIs
      <4>. HIDE DEF q
      <4>2. PSound(q, cred')
        BY <1>4, <2>1, <3>2, <4>1 DEF PSound
      <4>3. PSpares(q, cred', user')
        <5>. SUFFICES ASSUME q.pc = "remove", ~l, user[q.of] # "password"
                      PROVE  \E j \in Keys \ {q.key} : cred'[j] # None /\ cred'[j].owner = q.of
          BY <1>6, <4>1 DEF PSpares
        <5>1. ~preq[p].late /\ q.of # u
          BY <3>2, <4>1
        <5>2. PICK j \in Keys \ {q.key} : cred[j] # None /\ cred[j].owner = q.of
          BY <2>1, <4>1, <5>1 DEF PSpares
        <5>. QED  BY <1>4, <1>5, <5>1, <5>2
      <4>. QED  BY <4>1, <4>2, <4>3 DEF q
    <3>3. PICK g \in BOOLEAN, l \in BOOLEAN : G(g) /\ L(l)
      <4>1. (preq[p].gone \/ (preq[p].key = k /\ preq[p].copy # None)) \in BOOLEAN
        BY <2>1 DEF Ceremony
      <4>2. (preq[p].late \/ (preq[p].pc = "remove" /\ preq[p].of = u)) \in BOOLEAN
        BY <2>1 DEF Ceremony
      <4>. QED  BY <4>1, <4>2
    <3>4. preq'[p] = Overtaken(preq[p], g, l)
      <4>1. g = (preq[p].gone \/ (preq[p].key = k /\ preq[p].copy # None))
        BY <3>3
      <4>2. l = (preq[p].late \/ (preq[p].pc = "remove" /\ preq[p].of = u))
        BY <3>3
      <4>. QED  BY <3>1, <4>1, <4>2, Zenon
    <3>. QED  BY <3>2, <3>3, <3>4
  <2>. QED  BY <2>2, <2>3
<1>9. preq' \in [Ceremonies -> Ceremony]
  BY <1>3, <1>8
<1>10. KeepsAPasskey'
  <2>. SUFFICES ASSUME NEW v \in had \ praced', user[v] # "password"
                PROVE  \E j \in Keys : cred'[j] # None /\ cred'[j].owner = v
    BY <1>3, <1>6 DEF KeepsAPasskey, ListWebAuthnCredentialsByUser
  <2>1. CASE v = u
    <3>1. ~preq[r].late
      BY <1>3, <2>1
    <3>2. PICK j \in Keys \ {k} : cred[j] # None /\ cred[j].owner = u
      BY <1>0, <1>1, <2>1, <3>1 DEF PSpares
    <3>. QED  BY <1>4, <2>1, <3>2
  <2>2. CASE v # u
    <3>1. v \notin praced
      BY <1>3
    <3>2. PICK j \in Keys : cred[j] # None /\ cred[j].owner = v
      BY <3>1 DEF Inv, PInv, KeepsAPasskey, ListWebAuthnCredentialsByUser
    <3>. QED  BY <1>4, <1>5, <2>2, <3>2
  <2>. QED  BY <2>1, <2>2
<1>11. WarnedOfSome'
  BY <1>0, <1>3, <1>4 DEF Inv, PInv, WarnedOfSome, PTables
<1>12. CloneEvidence'
  <2>. SUFFICES ASSUME NEW j \in Keys \ overtaken', cred'[j] # None
                PROVE  cred'[j].data.count = highest'[j] /\ (j \in warned' => cred'[j].flagged)
    BY DEF CloneEvidence
  <2>1. cred'[j] = cred[j] /\ (j # k \/ preq[r].gone)
    BY <1>4
  <2>2. highest'[j] = highest[j] /\ j \notin overtaken /\ (j \in warned' => j \in warned)
    BY <1>0, <1>3, <2>1 DEF PTables
  <2>. QED  BY <2>1, <2>2 DEF Inv, PInv, CloneEvidence
<1>13. OInv'
  BY ORests DEF Inv
<1>. QED  BY <1>7, <1>8, <1>9, <1>10, <1>11, <1>12, <1>13, PTogether

\* A request that has loaded a credential.
LEMMA LoadedIs ==
    ASSUME Inv, NEW r \in Ceremonies, NEW k \in Keys, cred[k] # None, NEW n \in 0 .. MaxCount,
           NEW p \in {"consume", "stored"}
    PROVE  /\ Loaded(r, p, k, n) \in Ceremony /\ Loaded(r, p, k, n).pc = p
           /\ PSound(Loaded(r, p, k, n), cred)
<1>1. cred[k] \in Cred
  BY PTablesAre DEF PTables
<1>2. cred[k].owner \in Users /\ cred[k].data \in Blob
  BY <1>1 DEF Cred
<1>3. PICK q : q = Loaded(r, p, k, n)
  OBVIOUS
<1>4. /\ q \in Ceremony /\ q.pc = p /\ q.key = k /\ q.blob = cred[k].data /\ q.copy = None
  BY <1>2, <1>3, PIdleIs DEF Loaded, PIdle, Ceremony, PCs
<1>5. PSound(q, cred)
  BY <1>2, <1>4 DEF PSound
<1>. QED  BY <1>3, <1>4, <1>5

\* A request that has read the row it renames or removes.
Held(p, k) == [PIdle EXCEPT !.pc = p, !.of = cred[k].owner, !.key = k, !.copy = cred[k]]

LEMMA HeldIs ==
    ASSUME Inv, NEW k \in Keys, cred[k] # None, NEW p \in {"rename", "remove"}
    PROVE  /\ Held(p, k) \in Ceremony /\ Held(p, k).pc = p /\ Held(p, k).key = k
           /\ Held(p, k).of = cred[k].owner /\ PSound(Held(p, k), cred)
<1>1. cred[k] \in Cred
  BY PTablesAre DEF PTables
<1>2. cred[k].owner \in Users
  BY <1>1 DEF Cred
<1>3. PICK q : q = Held(p, k)
  OBVIOUS
<1>4. /\ q \in Ceremony /\ q.pc = p /\ q.key = k /\ q.of = cred[k].owner /\ q.copy = cred[k]
  BY <1>1, <1>2, <1>3, PIdleIs DEF Held, PIdle, Ceremony, PCs
<1>5. PSound(q, cred)
  BY <1>1, <1>4 DEF PSound
<1>. QED  BY <1>3, <1>4, <1>5

\* The steps of a request keep Inv.
LEMMA PSteps == ASSUME Inv, NEW r \in Ceremonies, PStep(r), UNCHANGED <<scope, ovars>> PROVE Inv'
<1>0. PTables /\ preq[r] \in Ceremony /\ PSound(preq[r], cred) /\ PSpares(preq[r], cred, user)
  BY PTablesAre DEF Inv, PInv, TypeOK
<1>. DEFINE Now(q) == [preq EXCEPT ![r] = q]
<1>1. chal' = chal => chal' \in [Handles -> Challenge \cup {None}]
  BY <1>0 DEF PTables
<1>2. ASSUME NEW h \in Handles, ConsumeWebAuthnChallenge(h) PROVE chal' \in [Handles -> Challenge \cup {None}]
  BY <1>0, <1>2 DEF ConsumeWebAuthnChallenge, PTables
<1>3. CASE FinishRegistration(r)
  <2>1. PICK h \in Handles, u \in Users, k \in Keys :
          /\ ConsumeWebAuthnChallenge(h)
          /\ preq' = Now(PIdle) \/ preq' = Now([PIdle EXCEPT !.pc = "create", !.of = u, !.key = k])
    BY <1>3, Bounds DEF FinishRegistration, consumeCeremony
  <2>2. chal' \in [Handles -> Challenge \cup {None}] /\ UNCHANGED <<reject, cred, Histories>>
    BY <1>2, <1>3, <2>1 DEF FinishRegistration
  <2>3. PICK q : q = [PIdle EXCEPT !.pc = "create", !.of = u, !.key = k]
    OBVIOUS
  <2>4. q \in Ceremony /\ PSound(q, cred) /\ PSpares(q, cred, user)
    <3>1. q \in Ceremony
      BY <2>3, PIdleIs DEF Ceremony, PCs
    <3>2. q.pc \in {"create", "load"} /\ q.copy = None /\ (q.pc = "create" => q.of \in Users /\ q.key \in Keys)
      BY <2>3 DEF PIdle
    <3>. QED  BY <3>1, <3>2 DEF PSound, PSpares
  <2>5. CASE preq' = Now(PIdle)
    BY <2>2, <2>5, PIdleIs, PReads
  <2>6. CASE preq' = Now(q)
    BY <2>2, <2>4, <2>6, PReads
  <2>. QED  BY <2>1, <2>3, <2>5, <2>6
<1>4. CASE RegistrationCreate(r)
  BY <1>4, RegistrationCreateKeeps
<1>5. \A n \in 0 .. scope.max : n \in 0 .. MaxCount
  BY Bounds, PasskeyAssumption
<1>6. CASE FinishLogin(r)
  <2>1. PICK h \in Handles, k \in Keys, n \in 0 .. MaxCount :
          /\ cred[k] # None
          /\ preq' = Now([Loaded(r, "consume", k, n) EXCEPT !.handle = h])
    BY <1>5, <1>6, Bounds DEF FinishLogin
  <2>2. chal' \in [Handles -> Challenge \cup {None}] /\ UNCHANGED <<reject, cred, Histories>>
    BY <1>1, <1>6 DEF FinishLogin
  <2>3. PICK q : q = [Loaded(r, "consume", k, n) EXCEPT !.handle = h]
    OBVIOUS
  <2>4. /\ Loaded(r, "consume", k, n) \in Ceremony /\ Loaded(r, "consume", k, n).pc = "consume"
        /\ PSound(Loaded(r, "consume", k, n), cred)
    BY <2>1, LoadedIs
  <2>5. q \in Ceremony /\ PSound(q, cred) /\ PSpares(q, cred, user)
    BY <2>3, <2>4 DEF Ceremony, PSound, PSpares
  <2>. QED  BY <2>1, <2>2, <2>3, <2>5, PReads
<1>7. CASE FinishConsume(r)
  <2>1. /\ preq[r].pc = "consume" /\ UNCHANGED <<reject, cred, Histories>>
        /\ \/ PReturn(r) /\ UNCHANGED chal
           \/ /\ ConsumeWebAuthnChallenge(preq[r].handle)
              /\ preq' = Now(PIdle) \/ preq' = Now([preq[r] EXCEPT !.pc = "stored", !.handle = None])
    BY <1>7 DEF FinishConsume, consumeCeremony
  <2>2. chal' \in [Handles -> Challenge \cup {None}]
    BY <1>0, <2>1 DEF ConsumeWebAuthnChallenge, PTables
  <2>3. PICK q : q = [preq[r] EXCEPT !.pc = "stored", !.handle = None]
    OBVIOUS
  <2>4. q \in Ceremony /\ PSound(q, cred) /\ PSpares(q, cred, user)
    BY <1>0, <2>1, <2>3 DEF Ceremony, PCs, PSound, PSpares
  <2>5. CASE preq' = Now(PIdle)
    BY <2>1, <2>2, <2>5, PIdleIs, PReads
  <2>6. CASE preq' = Now(q)
    BY <2>1, <2>2, <2>4, <2>6, PReads
  <2>. QED  BY <2>1, <2>3, <2>5, <2>6 DEF PReturn
<1>8. CASE FinishDiscoverableLogin(r)
  <2>1. PICK h \in Handles :
          /\ ConsumeWebAuthnChallenge(h)
          /\ preq' = Now(PIdle) \/ preq' = Now([PIdle EXCEPT !.pc = "load"])
    BY <1>8 DEF FinishDiscoverableLogin, consumeCeremony
  <2>2. chal' \in [Handles -> Challenge \cup {None}] /\ UNCHANGED <<reject, cred, Histories>>
    BY <1>2, <1>8, <2>1 DEF FinishDiscoverableLogin
  <2>3. PICK q : q = [PIdle EXCEPT !.pc = "load"]
    OBVIOUS
  <2>4. q \in Ceremony /\ PSound(q, cred) /\ PSpares(q, cred, user)
    <3>1. q \in Ceremony
      BY <2>3, PIdleIs DEF Ceremony, PCs
    <3>2. q.pc \in {"create", "load"} /\ q.copy = None /\ (q.pc = "create" => q.of \in Users /\ q.key \in Keys)
      BY <2>3 DEF PIdle
    <3>. QED  BY <3>1, <3>2 DEF PSound, PSpares
  <2>5. CASE preq' = Now(PIdle)
    BY <2>2, <2>5, PIdleIs, PReads
  <2>6. CASE preq' = Now(q)
    BY <2>2, <2>4, <2>6, PReads
  <2>. QED  BY <2>1, <2>3, <2>5, <2>6
<1>9. CASE DiscoverableLoad(r)
  <2>1. PICK k \in Keys, n \in 0 .. MaxCount : cred[k] # None /\ preq' = Now(Loaded(r, "stored", k, n))
    BY <1>5, <1>9, Bounds DEF DiscoverableLoad
  <2>2. chal' \in [Handles -> Challenge \cup {None}] /\ UNCHANGED <<reject, cred, Histories>>
    BY <1>1, <1>9 DEF DiscoverableLoad
  <2>3. /\ Loaded(r, "stored", k, n) \in Ceremony /\ Loaded(r, "stored", k, n).pc = "stored"
        /\ PSound(Loaded(r, "stored", k, n), cred)
    BY <2>1, LoadedIs
  <2>4. PSpares(Loaded(r, "stored", k, n), cred, user)
    BY <2>3 DEF PSpares
  <2>. QED  BY <2>1, <2>2, <2>3, <2>4, PReads
<1>10. CASE completeLogin(r)
  <2>1. /\ preq[r].pc = "stored" /\ UNCHANGED <<reject, cred, Histories>>
        /\ chal' \in [Handles -> Challenge \cup {None}]
    BY <1>1, <1>10 DEF completeLogin
  <2>2. PICK k \in Keys : k = preq[r].key
    BY <1>0, <2>1 DEF PSound
  <2>3. CASE cred[k] = None
    BY <1>10, <2>1, <2>2, <2>3, PReturns DEF completeLogin
  <2>4. CASE cred[k] # None
    <3>1. PICK next \in {"flag", "update"} : preq' = [preq EXCEPT ![r] = [@ EXCEPT !.copy = cred[k], !.pc = next]]
      BY <1>10, <2>2, <2>4 DEF completeLogin
    <3>2. PICK q : q = [preq[r] EXCEPT !.copy = cred[k], !.pc = next]
      OBVIOUS
    <3>3. preq' = Now(q)
      BY <1>0, <3>1, <3>2 DEF Inv, PInv, TypeOK
    <3>4. cred[k] \in Cred
      BY <1>0, <2>4 DEF PTables
    <3>5. /\ q \in Ceremony /\ q.pc = next /\ q.key = k /\ q.copy = cred[k] /\ q.blob = preq[r].blob
      BY <1>0, <2>2, <3>2, <3>4 DEF Ceremony, PCs
    <3>6. PSound(q, cred) /\ PSpares(q, cred, user)
      BY <1>0, <2>1, <2>4, <3>4, <3>5 DEF PSound, PSpares
    <3>. QED  BY <2>1, <3>3, <3>5, <3>6, PReads
  <2>. QED  BY <2>3, <2>4
<1>11. CASE FlagClone(r)
  BY <1>11, FlagCloneKeeps
<1>12. CASE UpdateLogin(r)
  BY <1>12, UpdateLoginKeeps
<1>13. CASE Rename(r)
  <2>1. PICK k \in Keys : cred[k] # None /\ Hold(r, "rename", k)
    BY <1>13 DEF Rename
  <2>2. chal' \in [Handles -> Challenge \cup {None}] /\ UNCHANGED <<reject, cred, Histories>>
    BY <1>1, <1>13 DEF Rename
  <2>3. PICK q : q = Held("rename", k)
    OBVIOUS
  <2>4. q \in Ceremony /\ q.pc = "rename" /\ PSound(q, cred)
    BY <2>1, <2>3, HeldIs
  <2>5. PSpares(q, cred, user)
    BY <2>4 DEF PSpares
  <2>. QED  BY <2>1, <2>2, <2>3, <2>4, <2>5, PReads DEF Hold, Held
<1>14. CASE RenameWrite(r)
  BY <1>14, RenameWriteKeeps
<1>15. CASE Remove(r)
  <2>1. PICK k \in Keys :
          /\ cred[k] # None
          /\ MayRemove(cred[k].owner, Cardinality(ListWebAuthnCredentialsByUser(cred[k].owner)))
          /\ Hold(r, "remove", k)
    BY <1>15 DEF Remove
  <2>2. chal' \in [Handles -> Challenge \cup {None}] /\ UNCHANGED <<reject, cred, Histories>>
    BY <1>1, <1>15 DEF Remove
  <2>3. PICK q : q = Held("remove", k)
    OBVIOUS
  <2>4. q \in Ceremony /\ q.pc = "remove" /\ q.key = k /\ q.of = cred[k].owner /\ PSound(q, cred)
    BY <2>1, <2>3, HeldIs
  <2>5. PICK u : u = cred[k].owner
    OBVIOUS
  <2>6. user[u] # "password" => \E j \in Keys \ {k} : cred[j] # None /\ cred[j].owner = u
    <3>. SUFFICES ASSUME user[u] # "password", ListWebAuthnCredentialsByUser(u) = {k} PROVE FALSE
      BY <2>1, <2>5 DEF ListWebAuthnCredentialsByUser
    <3>1. Cardinality(ListWebAuthnCredentialsByUser(u)) = 1
      BY FS_Singleton
    <3>. QED  BY <2>1, <2>5, <3>1 DEF MayRemove
  <2>7. PSpares(q, cred, user)
    BY <2>4, <2>5, <2>6 DEF PSpares
  <2>. QED  BY <2>1, <2>2, <2>3, <2>4, <2>7, PReads DEF Hold, Held
<1>16. CASE RemoveDelete(r)
  BY <1>16, RemoveDeleteKeeps
<1>17. CASE PCutOff(r)
  BY <1>1, <1>17, PReturns DEF PCutOff
<1>. QED
  BY <1>3, <1>4, <1>6, <1>7, <1>8, <1>9, <1>10, <1>11, <1>12, <1>13, <1>14, <1>15, <1>16, <1>17 DEF PStep

-----------------------------------------------------------------------------
(***************************************************************************)
(* The theorems.                                                           *)
(***************************************************************************)
\* The initial states satisfy the inductive invariant.
LEMMA Starts == Init => Inv
<1>. SUFFICES ASSUME Init PROVE Inv
  OBVIOUS
<1>1. OInv
  BY OStarts DEF Init
<1>2. \A r \in Ceremonies : preq[r] = PIdle
  BY DEF Init
<1>3. preq \in [Ceremonies -> Ceremony]
  BY PIdleIs DEF Init
<1>4. scope \in Scopes /\ reject \in BOOLEAN
  BY PasskeyAssumption DEF Init
<1>5. highest \in [Keys -> 0 .. MaxCount]
  BY PasskeyAssumption DEF Init
<1>6. TypeOK
  BY <1>1, <1>3, <1>4, <1>5 DEF Init, TypeOK, OInv
<1>7. KeepsAPasskey /\ WarnedOfSome /\ CloneEvidence
  BY DEF Init, KeepsAPasskey, WarnedOfSome, CloneEvidence
<1>. QED  BY <1>1, <1>2, <1>6, <1>7, PIdleIs DEF Inv, PInv

\* Every step keeps it, one of the links or one of the passkeys.
LEMMA Steps == Inv /\ [Next]_vars => Inv'
<1>. SUFFICES ASSUME Inv, [Next]_vars PROVE Inv'
  OBVIOUS
<1>1. CASE (\E u \in scope.users : SetPassword(u)) /\ UNCHANGED <<scope, pvars>>
  BY <1>1, Bounds, LinksMove
<1>2. CASE (\E r \in scope.logins : OStep(r)) /\ UNCHANGED <<scope, pvars>>
  BY <1>2, Bounds, LinksMove
<1>3. CASE scope.ceremonies # {} /\ Begin /\ UNCHANGED <<scope, ovars>>
  BY <1>3, BeginKeeps
<1>4. CASE (\E r \in scope.ceremonies : PStep(r)) /\ UNCHANGED <<scope, ovars>>
  BY <1>4, Bounds, PSteps
<1>5. CASE UNCHANGED vars
  <2>1. UNCHANGED <<scope, ovars, reject, cred, chal, preq, highest, warned, overtaken, praced, had>>
    BY <1>5 DEF vars, pvars
  <2>2. OInv' /\ user' = user
    BY <2>1, ORests DEF Inv, ovars
  <2>3. TypeOK'
    BY <2>1, <2>2 DEF Inv, PInv, TypeOK, OInv
  <2>4. \A r \in Ceremonies : PSound(preq'[r], cred') /\ PSpares(preq'[r], cred', user')
    BY <2>1, <2>2 DEF Inv, PInv
  <2>5. KeepsAPasskey' /\ WarnedOfSome' /\ CloneEvidence'
    BY <2>1, <2>2 DEF Inv, PInv, KeepsAPasskey, WarnedOfSome, CloneEvidence, ListWebAuthnCredentialsByUser
  <2>. QED  BY <2>2, <2>3, <2>4, <2>5 DEF Inv, PInv, PSound, PSpares
<1>. QED  BY <1>1, <1>2, <1>3, <1>4, <1>5 DEF Next

\* The inductive invariant of the sign-ins with a provider and a passkey
\* (oidc/flow.go, passkey/ceremony.go).
THEOREM PasskeyInvariant == Spec => []Inv
BY Starts, Steps, PTL DEF Spec

\* Every variable has its type, whatever oidc/flow.go and
\* passkey/ceremony.go do to it.
THEOREM PasskeyTypeCorrect == Spec => []TypeOK
<1>1. Inv => TypeOK
  BY DEF Inv, PInv
<1>. QED  BY <1>1, PasskeyInvariant, PTL

\* No identity has two links and every link's owner was proven: resolve,
\* newAccount and Link of oidc/flow.go, interleaved as they may be.
THEOREM PasskeyLinksAreProven == Spec => []LinksAreProven
<1>1. Inv => LinksAreProven
  BY OProves DEF Inv
<1>. QED  BY <1>1, PasskeyInvariant, PTL

\* Unlink of oidc/flow.go and Remove of passkey/ceremony.go leave a user who
\* has no password a link or a passkey to come back with, unless two of a
\* kind run at once.
THEOREM PasskeyKeepsACredential == Spec => []KeepsACredential
<1>1. Inv => KeepsACredential
  BY DEF Inv, OInv, PInv, KeepsAPasskey, KeepsACredential
<1>. QED  BY <1>1, PasskeyInvariant, PTL

\* completeLogin, Rename, Remove and FinishRegistration of
\* passkey/ceremony.go keep the highest counter and the warning, unless a
\* write goes over a row that has changed since it was read.
THEOREM PasskeyCloneEvidence == Spec => []CloneEvidence
<1>1. Inv => CloneEvidence
  BY DEF Inv, PInv
<1>. QED  BY <1>1, PasskeyInvariant, PTL
=============================================================================
