-------------------------------- MODULE Pat --------------------------------
(***************************************************************************)
(* Personal access tokens (pat/pat.go): CreateToken, RevokeToken and       *)
(* Resolve over a store that writes whole rows. Each store call is a step. *)
(***************************************************************************)
EXTENDS Integers, FiniteSets

CONSTANTS
    Pats,   \* tokens
    Owners, \* users
    Calls,  \* concurrently running requests
    NoPat    \* no row, no token

VARIABLES
    requireExpiry,  \* Config.RequireExpiry; it never changes
    pat,            \* the personal_access_tokens table
    call,           \* local state of each request
    revokedPats,    \* history: tokens a RevokeToken has returned success for
    overlapped      \* history: tokens revoked between a Resolve's read and its write

patvars == <<requireExpiry, pat, call, revokedPats, overlapped>>

\* expires: has an ExpiresAt. used: LastUsedAt is set.
Row == [owner : Owners, expires : BOOLEAN, expired : BOOLEAN, used : BOOLEAN, revoked : BOOLEAN]

ASSUME PatAssumption == NoPat \notin Pats \cup Owners \cup Row

\* late: the token had been revoked, by a call that returned, before this
\* one began.
PatCall == [pc : {"idle", "resolve", "write", "revoke", "revokeWrite"}, token : Pats \cup {NoPat},
            by : Owners \cup {NoPat}, copy : Row \cup {NoPat}, late : BOOLEAN]

IdleCall == [pc |-> "idle", token |-> NoPat, by |-> NoPat, copy |-> NoPat, late |-> FALSE]

PatTypeOK ==
    /\ requireExpiry \in BOOLEAN
    /\ pat \in [Pats -> Row \cup {NoPat}]
    /\ call \in [Calls -> PatCall]
    /\ revokedPats \subseteq Pats
    /\ overlapped \subseteq Pats

PatInit ==
    /\ requireExpiry \in BOOLEAN
    /\ pat = [t \in Pats |-> NoPat]
    /\ call = [c \in Calls |-> IdleCall]
    /\ revokedPats = {}
    /\ overlapped = {}

-----------------------------------------------------------------------------
PatReturn(c) == call' = [call EXCEPT ![c] = IdleCall]

\* Resolves that have read t as live and not yet written it.
Resolving(t) == {c \in Calls : call[c].pc = "write" /\ call[c].token = t /\ ~call[c].copy.revoked}

\* The row whole; nothing deletes a token.
UpdatePersonalAccessToken(t, row) == pat' = [pat EXCEPT ![t] = row]

CreateToken ==
    \E t \in Pats, u \in Owners, expires \in BOOLEAN :
        /\ pat[t] = NoPat
        /\ requireExpiry => expires
        /\ pat' = [pat EXCEPT ![t] = [owner |-> u, expires |-> expires, expired |-> FALSE,
                                       used |-> FALSE, revoked |-> FALSE]]
        /\ UNCHANGED <<requireExpiry, call, revokedPats, overlapped>>

BeginCall(c) ==
    /\ call[c].pc = "idle"
    /\ \E t \in Pats, pc \in {"resolve", "revoke"}, u \in Owners :
         /\ pat[t] # NoPat
         /\ call' = [call EXCEPT ![c] = [IdleCall EXCEPT !.pc = pc, !.token = t, !.by = u,
                                                         !.late = t \in revokedPats]]
    /\ UNCHANGED <<requireExpiry, pat, revokedPats, overlapped>>

\* A plausible bug: only the expiry is looked at.
ChecksExpiry(row) == ~row.expired

\* Resolve's refusals.
Resolvable(row) == ~row.revoked /\ ~row.expired

Resolve(c) ==
    LET t == call[c].token IN
    /\ call[c].pc = "resolve"
    /\ IF Resolvable(pat[t])
         THEN call' = [call EXCEPT ![c].pc = "write", ![c].copy = pat[t]]
         ELSE PatReturn(c)
    /\ UNCHANGED <<requireExpiry, pat, revokedPats, overlapped>>

\* The error of this write is ignored: the token resolves all the same.
ResolveWrite(c) ==
    LET t == call[c].token IN
    /\ call[c].pc = "write"
    /\ \/ UpdatePersonalAccessToken(t, [call[c].copy EXCEPT !.used = TRUE])
       \/ UNCHANGED pat
    /\ PatReturn(c)
    /\ UNCHANGED <<requireExpiry, revokedPats, overlapped>>

\* A token that is not the caller's is refused; one revoked already is done.
RevokeToken(c) ==
    LET t == call[c].token IN
    /\ call[c].pc = "revoke"
    /\ IF pat[t].owner # call[c].by \/ pat[t].revoked
         THEN /\ revokedPats' = IF pat[t].owner = call[c].by THEN revokedPats \cup {t} ELSE revokedPats
              /\ PatReturn(c)
         ELSE /\ call' = [call EXCEPT ![c].pc = "revokeWrite", ![c].copy = pat[t]]
              /\ UNCHANGED revokedPats
    /\ overlapped' = IF t \in revokedPats' /\ Resolving(t) # {} THEN overlapped \cup {t} ELSE overlapped
    /\ UNCHANGED <<requireExpiry, pat>>

RevokeWrite(c) ==
    LET t == call[c].token IN
    /\ call[c].pc = "revokeWrite"
    /\ UpdatePersonalAccessToken(t, [call[c].copy EXCEPT !.revoked = TRUE])
    /\ revokedPats' = revokedPats \cup {t}
    /\ overlapped' = IF Resolving(t) # {} THEN overlapped \cup {t} ELSE overlapped
    /\ PatReturn(c)
    /\ UNCHANGED requireExpiry

ExpirePat ==
    \E t \in Pats :
        /\ pat[t] # NoPat /\ pat[t].expires /\ ~pat[t].expired
        /\ pat' = [pat EXCEPT ![t].expired = TRUE]
        /\ UNCHANGED <<requireExpiry, call, revokedPats, overlapped>>

\* A request whose store call fails, or whose process dies.
PatCutOff(c) ==
    /\ call[c].pc # "idle"
    /\ PatReturn(c)
    /\ UNCHANGED <<requireExpiry, pat, revokedPats, overlapped>>

PatNext ==
    \/ CreateToken \/ ExpirePat
    \/ \E c \in Calls :
         BeginCall(c) \/ Resolve(c) \/ ResolveWrite(c) \/ RevokeToken(c) \/ RevokeWrite(c) \/ PatCutOff(c)

-----------------------------------------------------------------------------
\* pat.go:67-68, 102-104. Once RevokeToken has returned, the token does not
\* resolve again, however many requests were under way: a revocation that a
\* Resolve did not read around stays. That one Resolve's write may take the
\* revocation back (pat.go:110), and those tokens are left out.
RevokedIsRefused ==
    \A c \in Calls : call[c].pc = "write" /\ call[c].late => call[c].token \in overlapped
=============================================================================
