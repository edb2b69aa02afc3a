------------------------------- MODULE Passkey -------------------------------
(***************************************************************************)
(* Passkeys (passkey/ceremony.go), beside the provider links of the same   *)
(* users (module Oidc): the stored credentials with their signature        *)
(* counters, the ceremonies under way, and the requests that register an   *)
(* authenticator, sign in with one, rename it and remove it. Every store   *)
(* call is a step of its own; no transaction is used. A credential row is  *)
(* always written whole, from the copy the request read.                   *)
(*                                                                         *)
(* The WebAuthn library's verification of a response happens between the   *)
(* steps: a response that does not verify is one of the refusals PCutOff   *)
(* stands for. An assertion carries the counter of whoever holds the key,  *)
(* the authenticator or a copy of it.                                      *)
(***************************************************************************)
EXTENDS Oidc

CONSTANTS
    Keys,        \* credential ids
    Handles,     \* ceremonies under way at one time
    Ceremonies,  \* concurrently running requests
    MaxCount,    \* bound on signature counters
    Scopes       \* bound: the requests of either kind a behaviour may have,
                 \* the users, keys and counters it has, and its set-ups

\* count and cloned are in the library's blob (Data); flagged is the
\* CloneWarning column.
Blob == [count : 0 .. MaxCount, cloned : BOOLEAN]
Cred == [owner : Users, data : Blob, flagged : BOOLEAN]

\* for: the user of the ceremony, None for a discoverable login.
Challenge == [kind : {"registration", "login"}, for : Users \cup {None}]

ASSUME PasskeyAssumption ==
    /\ MaxCount \in Nat
    /\ None \notin Keys \cup Handles \cup Blob \cup Cred \cup Challenge
    /\ Scopes \subseteq [logins : SUBSET Logins, ceremonies : SUBSET Ceremonies, users : SUBSET Users,
                         keys : SUBSET Keys, max : 0 .. MaxCount, confs : SUBSET Conf, rejects : SUBSET BOOLEAN]

VARIABLES
    scope,      \* what this behaviour is bounded to; it never changes
    reject,     \* Config.OnClone is CloneReject; it never changes
    cred,       \* the webauthn_credentials table, by credential id
    chal,       \* the webauthn_challenges table
    preq,       \* local state of each request
    highest,    \* history: the highest counter each credential was used with
    warned,     \* history: credentials that have raised a clone warning
    overtaken,  \* history: credentials written from an outdated copy
    praced,     \* history: users two of whose passkeys were removed at once
    had         \* history: users who have had a passkey

pvars == <<reject, cred, chal, preq, highest, warned, overtaken, praced, had>>

vars == <<scope, ovars, pvars>>

PCs == {"idle", "consume", "create", "load", "stored", "flag", "update", "rename", "remove"}

\* blob: the credential as loadUser read it. copy: the row as it was read
\* last. n: the counter asserted. gone: the row read has been deleted.
Ceremony ==
    [pc : PCs, of : Users \cup {None}, key : Keys \cup {None}, handle : Handles \cup {None},
     blob : Blob \cup {None}, copy : Cred \cup {None}, n : 0 .. MaxCount, gone : BOOLEAN, late : BOOLEAN]

PIdle == [pc |-> "idle", of |-> None, key |-> None, handle |-> None,
          blob |-> None, copy |-> None, n |-> 0, gone |-> FALSE, late |-> FALSE]

TypeOK ==
    /\ OTypeOK
    /\ scope \in Scopes
    /\ reject \in BOOLEAN
    /\ cred \in [Keys -> Cred \cup {None}]
    /\ chal \in [Handles -> Challenge \cup {None}]
    /\ preq \in [Ceremonies -> Ceremony]
    /\ highest \in [Keys -> 0 .. MaxCount]
    /\ warned \subseteq Keys
    /\ overtaken \subseteq Keys
    /\ praced \subseteq Users
    /\ had \subseteq Users

Init ==
    /\ OInit
    /\ scope \in {s \in Scopes : conf \in s.confs /\ \A u \in Users \ s.users : user[u] = "none"}
    /\ reject \in scope.rejects
    /\ cred = [k \in Keys |-> None]
    /\ chal = [h \in Handles |-> None]
    /\ preq = [r \in Ceremonies |-> PIdle]
    /\ highest = [k \in Keys |-> 0]
    /\ warned = {}
    /\ overtaken = {}
    /\ praced = {}
    /\ had = {}

-----------------------------------------------------------------------------
PReturn(r) == preq' = [preq EXCEPT ![r] = PIdle]

Histories == <<highest, warned, overtaken, praced, had>>

(***************************************************************************)
(* The stores.                                                             *)
(***************************************************************************)
ListWebAuthnCredentialsByUser(u) == {k \in Keys : cred[k] # None /\ cred[k].owner = u}

CreateWebAuthnCredential(k, u, n) ==
    cred' = [cred EXCEPT ![k] = [owner |-> u, data |-> [count |-> n, cloned |-> FALSE], flagged |-> FALSE]]

\* By the row's id: a row deleted since it was read is not written. read is
\* what the new row was made from, and the history compares it with the row.
UpdateWebAuthnCredential(r, row, read) ==
    LET k == preq[r].key IN
    IF preq[r].gone
      THEN UNCHANGED <<cred, overtaken>>
      ELSE /\ cred' = [cred EXCEPT ![k] = row]
           /\ overtaken' = IF read = cred[k] THEN overtaken ELSE overtaken \cup {k}

\* A handle is 32 random bytes: no request carries it before it is issued.
CreateWebAuthnChallenge(c) ==
    \E h \in Handles :
        /\ chal[h] = None
        /\ \A q \in Ceremonies : preq[q].handle # h
        /\ chal' = [chal EXCEPT ![h] = c]

\* Deleted and returned at once.
ConsumeWebAuthnChallenge(h) == chal' = [chal EXCEPT ![h] = None]

-----------------------------------------------------------------------------
(***************************************************************************)
(* Starting a ceremony: BeginRegistration, BeginLogin and                  *)
(* BeginDiscoverableLogin. A user found stays one.                         *)
(***************************************************************************)
issueCeremony(c) ==
    /\ CreateWebAuthnChallenge(c)
    /\ UNCHANGED <<reject, cred, preq, Histories>>

BeginRegistration == \E u \in Users : Exists(u) /\ issueCeremony([kind |-> "registration", for |-> u])

BeginLogin ==
    \E u \in Users :
        /\ ListWebAuthnCredentialsByUser(u) # {}
        /\ issueCeremony([kind |-> "login", for |-> u])

BeginDiscoverableLogin == issueCeremony([kind |-> "login", for |-> None])

-----------------------------------------------------------------------------
(***************************************************************************)
(* FinishRegistration, for authenticator k.                                *)
(***************************************************************************)
\* A handle of the other kind of ceremony is spent and refused.
consumeCeremony(r, h, kind, next) ==
    /\ chal[h] # None
    /\ ConsumeWebAuthnChallenge(h)
    /\ preq' = [preq EXCEPT ![r] = IF chal[h].kind = kind THEN next ELSE PIdle]

FinishRegistration(r) ==
    /\ preq[r].pc = "idle"
    /\ \E h \in Handles, u \in Users, k \in scope.keys :
         /\ Exists(u)
         /\ consumeCeremony(r, h, "registration",
              IF chal[h].for = u /\ cred[k] = None THEN [PIdle EXCEPT !.pc = "create", !.of = u, !.key = k] ELSE PIdle)
    /\ UNCHANGED <<reject, cred, Histories>>

\* The store refuses a credential id it has.
RegistrationCreate(r) ==
    LET k == preq[r].key IN
    /\ preq[r].pc = "create"
    /\ IF cred[k] # None
         THEN UNCHANGED <<cred, highest, had>>
         ELSE \E n \in 0 .. scope.max :
                /\ CreateWebAuthnCredential(k, preq[r].of, n)
                /\ highest' = [highest EXCEPT ![k] = n]
                /\ had' = had \cup {preq[r].of}
    /\ PReturn(r)
    /\ UNCHANGED <<reject, chal, warned, overtaken, praced>>

-----------------------------------------------------------------------------
(***************************************************************************)
(* FinishLogin and FinishDiscoverableLogin. The first loads the user's     *)
(* credentials before it spends the handle, the second after.              *)
(***************************************************************************)
Loaded(r, p, k, n) ==
    [PIdle EXCEPT !.pc = p, !.of = cred[k].owner, !.key = k, !.blob = cred[k].data, !.n = n]

FinishLogin(r) ==
    /\ preq[r].pc = "idle"
    /\ \E h \in Handles, k \in scope.keys, n \in 0 .. scope.max :
         /\ chal[h] # None
         /\ cred[k] # None
         /\ preq' = [preq EXCEPT ![r] = [Loaded(r, "consume", k, n) EXCEPT !.handle = h]]
    /\ UNCHANGED <<reject, cred, chal, Histories>>

FinishConsume(r) ==
    LET h == preq[r].handle IN
    /\ preq[r].pc = "consume"
    /\ IF chal[h] = None
         THEN PReturn(r) /\ UNCHANGED chal
         ELSE consumeCeremony(r, h, "login",
                IF chal[h].for = preq[r].of THEN [preq[r] EXCEPT !.pc = "stored", !.handle = None] ELSE PIdle)
    /\ UNCHANGED <<reject, cred, Histories>>

FinishDiscoverableLogin(r) ==
    /\ preq[r].pc = "idle"
    /\ \E h \in Handles :
         consumeCeremony(r, h, "login", IF chal[h].for = None THEN [PIdle EXCEPT !.pc = "load"] ELSE PIdle)
    /\ UNCHANGED <<reject, cred, Histories>>

DiscoverableLoad(r) ==
    /\ preq[r].pc = "load"
    /\ \E k \in scope.keys, n \in 0 .. scope.max :
         /\ cred[k] # None
         /\ preq' = [preq EXCEPT ![r] = Loaded(r, "stored", k, n)]
    /\ UNCHANGED <<reject, cred, chal, Histories>>

\* The library's UpdateCounter: a counter that does not advance is a warning
\* and is not taken over, unless both are zero. A warning in the blob stays.
Regressed(blob, n) == n <= blob.count /\ (n # 0 \/ blob.count # 0)

UpdateCounter(blob, n) ==
    IF Regressed(blob, n) THEN [blob EXCEPT !.cloned = TRUE] ELSE [blob EXCEPT !.count = n]

\* completeLogin reads the row again, by its credential id.
completeLogin(r) ==
    LET k == preq[r].key IN
    /\ preq[r].pc = "stored"
    /\ IF cred[k] = None
         THEN PReturn(r)
         ELSE preq' = [preq EXCEPT ![r] = [@ EXCEPT !.copy = cred[k],
                !.pc = IF UpdateCounter(preq[r].blob, preq[r].n).cloned THEN "flag" ELSE "update"]]
    /\ UNCHANGED <<reject, cred, chal, Histories>>

\* A plausible bug: a login that is refused leaves no trace.
FlagsOnlyAllowed(row) == [row EXCEPT !.flagged = ~reject]

Flagged(row) == [row EXCEPT !.flagged = TRUE]

\* The warning is written whether or not the login goes on.
FlagClone(r) ==
    LET row == Flagged(preq[r].copy) IN
    /\ preq[r].pc = "flag"
    /\ UpdateWebAuthnCredential(r, row, preq[r].copy)
    /\ warned' = IF preq[r].gone THEN warned ELSE warned \cup {preq[r].key}
    /\ IF reject \/ preq[r].gone
         THEN PReturn(r)
         ELSE preq' = [preq EXCEPT ![r] = [@ EXCEPT !.pc = "update", !.copy = row]]
    /\ UNCHANGED <<reject, chal, highest, praced, had>>

applyCredential(row, blob) == [row EXCEPT !.data = blob]

UpdateLogin(r) ==
    LET k == preq[r].key
        blob == UpdateCounter(preq[r].blob, preq[r].n)
    IN
    /\ preq[r].pc = "update"
    /\ UpdateWebAuthnCredential(r, applyCredential(preq[r].copy, blob), [preq[r].copy EXCEPT !.data = preq[r].blob])
    /\ highest' = IF preq[r].gone \/ preq[r].n <= highest[k] THEN highest ELSE [highest EXCEPT ![k] = preq[r].n]
    /\ PReturn(r)
    /\ UNCHANGED <<reject, chal, warned, praced, had>>

-----------------------------------------------------------------------------
(***************************************************************************)
(* Rename and Remove, of a credential the user owns.                       *)
(***************************************************************************)
Hold(r, p, k) ==
    preq' = [preq EXCEPT ![r] = [PIdle EXCEPT !.pc = p, !.of = cred[k].owner, !.key = k, !.copy = cred[k]]]

Rename(r) ==
    /\ preq[r].pc = "idle"
    /\ \E k \in Keys : cred[k] # None /\ Hold(r, "rename", k)
    /\ UNCHANGED <<reject, cred, chal, Histories>>

RenameWrite(r) ==
    /\ preq[r].pc = "rename"
    /\ UpdateWebAuthnCredential(r, preq[r].copy, preq[r].copy)
    /\ PReturn(r)
    /\ UNCHANGED <<reject, chal, highest, warned, praced, had>>

Remove(r) ==
    /\ preq[r].pc = "idle"
    /\ \E k \in Keys :
         /\ cred[k] # None
         /\ MayRemove(cred[k].owner, Cardinality(ListWebAuthnCredentialsByUser(cred[k].owner)))
         /\ Hold(r, "remove", k)
    /\ UNCHANGED <<reject, cred, chal, Histories>>

\* The others lose the row they have read, or the list they have counted.
RemoveDelete(r) ==
    LET k == preq[r].key IN
    /\ preq[r].pc = "remove"
    /\ IF preq[r].gone
         THEN UNCHANGED <<cred, highest, warned, overtaken>>
         ELSE /\ cred' = [cred EXCEPT ![k] = None]
              /\ highest' = [highest EXCEPT ![k] = 0]
              /\ warned' = warned \ {k}
              /\ overtaken' = overtaken \ {k}
    /\ praced' = IF preq[r].late THEN praced \cup {preq[r].of} ELSE praced
    /\ preq' = [q \in Ceremonies |->
         IF q = r THEN PIdle
         ELSE [preq[q] EXCEPT
                !.gone = @ \/ (preq[q].key = k /\ preq[q].copy # None),
                !.late = @ \/ (preq[q].pc = "remove" /\ preq[q].of = preq[r].of)]]
    /\ UNCHANGED <<reject, chal, had>>

-----------------------------------------------------------------------------
PCutOff(r) ==
    /\ preq[r].pc # "idle"
    /\ PReturn(r)
    /\ UNCHANGED <<reject, cred, chal, Histories>>

\* A handle that has run out is as good as gone.
Expire ==
    /\ \E h \in Handles : chal[h] # None /\ ConsumeWebAuthnChallenge(h)
    /\ UNCHANGED <<reject, cred, preq, Histories>>

PStep(r) ==
    \/ FinishRegistration(r) \/ RegistrationCreate(r)
    \/ FinishLogin(r) \/ FinishConsume(r) \/ FinishDiscoverableLogin(r) \/ DiscoverableLoad(r)
    \/ completeLogin(r) \/ FlagClone(r) \/ UpdateLogin(r)
    \/ Rename(r) \/ RenameWrite(r) \/ Remove(r) \/ RemoveDelete(r) \/ PCutOff(r)

Begin == BeginRegistration \/ BeginLogin \/ BeginDiscoverableLogin \/ Expire

Next ==
    \/ (\E u \in scope.users : SetPassword(u)) /\ UNCHANGED <<scope, pvars>>
    \/ (\E r \in scope.logins : OStep(r)) /\ UNCHANGED <<scope, pvars>>
    \/ scope.ceremonies # {} /\ Begin /\ UNCHANGED <<scope, ovars>>
    \/ (\E r \in scope.ceremonies : PStep(r)) /\ UNCHANGED <<scope, ovars>>

Spec == Init /\ [][Next]_vars

-----------------------------------------------------------------------------
(***************************************************************************)
(* Properties.                                                             *)
(***************************************************************************)
\* A user with no password who has a passkey keeps one, and one whom a
\* provider's sign-up created keeps a link, although Remove does not look at
\* links nor Unlink at passkeys. Only two removals of the same kind at once
\* can leave nothing.
KeepsACredential ==
    /\ KeepsALink
    /\ \A u \in had \ praced : user[u] # "password" => ListWebAuthnCredentialsByUser(u) # {}

\* The evidence of a cloned authenticator is kept: the stored counter is the
\* highest the credential was ever used with, so that a copy that lags is
\* noticed, and a credential that has raised a warning is flagged, whether
\* or not the login was refused and whatever is renamed, removed and
\* registered anew around it. Only a write from an overtaken copy can lose
\* either.
CloneEvidence ==
    \A k \in Keys \ overtaken :
        cred[k] # None =>
            /\ cred[k].data.count = highest[k]
            /\ k \in warned => cred[k].flagged
=============================================================================
