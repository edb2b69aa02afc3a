---------------------------- MODULE GatewayProofs ----------------------------
(***************************************************************************)
(* Proofs about Gateway: that the limiter meters every key, that a revoked *)
(* access token is refused, that a browser keeps its sign-in and that      *)
(* forms pass, for any number of keys, attempts, tokens, requests and      *)
(* sessions, any budget and any length of time.                            *)
(***************************************************************************)
EXTENDS Gateway, FiniteSetTheorems, TLAPS

(***************************************************************************)
(* The limiter. The clock an attempt works with, and the one a bucket was  *)
(* last refilled at, are not ahead of the clock.                           *)
(***************************************************************************)
LTimes ==
    /\ admitted \in [LimitKeys -> Nat]
    /\ since \in 0 .. MaxClock
    /\ \A a \in Attempts : att[a].now <= clock
    /\ \A k \in LimitKeys : buckets[k] # NoKey => buckets[k].last <= clock

LSize == IsFiniteSet(Held) /\ Cardinality(Held) <= MaxKeys

Spent(k) == admitted[k] * Interval

\* What key k has been let through and still holds has come in by the time
\* its bucket was refilled. What a key without a bucket was let through has
\* come in by any time a new one may be made at: now, or when a call that has
\* not missed the loss of the old one read the clock.
Accounted(k) ==
    /\ buckets[k] # NoKey => Spent(k) + buckets[k].tokens <= Full + (buckets[k].last - since)
    /\ buckets[k] = NoKey =>
         /\ Spent(k) <= clock - since
         /\ \A a \in Attempts : att[a].now # -1 /\ k \notin att[a].missed => Spent(k) <= att[a].now - since

LInv == LTypeOK /\ LTimes /\ LSize /\ \A k \in LimitKeys \ behind : Accounted(k)

(***************************************************************************)
(* Access tokens. A request works with a token that has a row; the copy it *)
(* is about to write is of a row that was not revoked; and one that came   *)
(* after a revocation knows it did. A revocation that no Resolve's write   *)
(* was under way across is in the row, and no such write is left.          *)
(***************************************************************************)
PatSound(q, table, revoked) ==
    /\ q.pc # "idle" => q.token \in Pats /\ table[q.token] # NoPat
    /\ q.pc \in {"write", "revokeWrite"} => q.copy \in Row /\ ~q.copy.revoked
    /\ q.pc # "idle" /\ q.late => q.token \in revoked

Final == revokedPats \ overlapped

PatInv ==
    /\ PatTypeOK
    /\ \A c \in Calls : PatSound(call[c], pat, revokedPats)
    /\ \A t \in Final : pat[t] # NoPat /\ pat[t].revoked
    /\ \A c \in Calls : call[c].pc = "write" => call[c].token \notin Final

(***************************************************************************)
(* The browser. entered: the answer signs in. What an answer to a request  *)
(* sent while s was signed in does to the cookie is to keep s, for as long *)
(* as s lives.                                                             *)
(***************************************************************************)
Entered(q) == q.kind = "signIn" /\ q.ok
Left(q) == q.kind = "signOut" /\ q.ok

BSound(q, known, late) ==
    /\ q.at # Empty => known[q.at] # "none"
    /\ Entered(q) => q.set \in Sess /\ known[q.set] # "none"
    /\ q.pc = "sent" => q.set = Leave /\ ~q.ok /\ q.mint = Empty
    /\ q.mint # Empty => q.token = Empty
    /\ q.pc # "idle" /\ q.at # Empty /\ known[q.at] = "live" /\ q.at \notin late =>
         /\ q.pc = "sent" => q.cookie \in {q.at, Empty}
         /\ q.pc = "answered" /\ ~Entered(q) /\ ~Left(q) => q.set \in {q.at, Leave}
    /\ ~q.own => q.kind = "act" /\ q.sent = Empty /\ Foreign(q.headers)
    /\ q.pc = "answered" /\ q.ok /\ ~q.own =>
         setup.allowMissing /\ q.headers = NoHeaders /\ ~setup.doubleSubmit

BAllSound == \A r \in Requests : BSound(req[r], server, lateFor)

\* A page asked for with a token comes back with the cookie's, unless a new
\* one has been set since.
Fresh(q, cookie) ==
    q.pc # "idle" /\ q.kind = "page" /\ ~q.over /\ q.token # Empty => q.token = cookie

BAllFresh == \A r \in Requests : Fresh(req[r], csrf)

BInv ==
    /\ BTypeOK
    /\ BAllSound
    /\ BAllFresh
    /\ signedIn # Empty => server[signedIn] # "none"
    /\ KeepsSignIn
    /\ FormsPass

Inv == LInv /\ PatInv /\ BInv

-----------------------------------------------------------------------------
(***************************************************************************)
(* Access tokens: every step of PatNext keeps PatInv.                      *)
(***************************************************************************)

\* At the start there is no token and no request.
LEMMA PatStarts == PatInit => PatInv
BY PatAssumption DEF PatInit, PatInv, PatTypeOK, PatSound, Final, IdleCall, PatCall

\* A request turns into q, of a kind the tables allow, while they change in
\* a way that suits every other request.
LEMMA PatMoves ==
    ASSUME PatInv, NEW c \in Calls, NEW q \in PatCall, call' = [call EXCEPT ![c] = q],
           PatSound(q, pat', revokedPats'),
           q.pc = "write" => q.token \notin Final',
           \A d \in Calls \ {c} : PatSound(call[d], pat', revokedPats'),
           \A d \in Calls \ {c} : call[d].pc = "write" => call[d].token \notin Final',
           requireExpiry' = requireExpiry,
           pat' \in [Pats -> Row \cup {NoPat}], revokedPats' \subseteq Pats, overlapped' \subseteq Pats,
           \A t \in Final' : pat'[t] # NoPat /\ pat'[t].revoked
    PROVE  PatInv'
<1>1. PatTypeOK'
  BY DEF PatInv, PatTypeOK
<1>2. \A d \in Calls : call'[d] = IF d = c THEN q ELSE call[d]
  BY DEF PatInv, PatTypeOK
<1>3. \A d \in Calls : PatSound(call'[d], pat', revokedPats')
  BY <1>2
<1>4. \A d \in Calls : call'[d].pc = "write" => call'[d].token \notin Final'
  BY <1>2
<1>. QED  BY <1>1, <1>3, <1>4 DEF PatInv, PatSound

\* What a request relies on survives when tokens keep their rows and
\* revocations are not forgotten.
LEMMA PatSoundStays ==
    ASSUME NEW q \in PatCall, NEW t1, NEW t2, NEW r1, NEW r2, PatSound(q, t1, r1),
           \A t \in Pats : t1[t] # NoPat => t2[t] # NoPat, r1 \subseteq r2
    PROVE  PatSound(q, t2, r2)
BY DEF PatSound

\* An idle request relies on nothing.
LEMMA PatIdle ==
    ASSUME NEW t, NEW r
    PROVE  IdleCall \in PatCall /\ PatSound(IdleCall, t, r) /\ IdleCall.pc = "idle"
BY DEF IdleCall, PatCall, PatSound

\* A request returns while the tables stay.
LEMMA PatReturns ==
    ASSUME PatInv, NEW c \in Calls, PatReturn(c), UNCHANGED <<requireExpiry, pat, revokedPats, overlapped>>
    PROVE  PatInv'
<1>1. Final' = Final
  BY DEF Final
<1>2. PatSound(IdleCall, pat', revokedPats') /\ IdleCall \in PatCall /\ IdleCall.pc = "idle"
  BY PatIdle
<1>3. \A d \in Calls \ {c} : PatSound(call[d], pat', revokedPats')
  BY DEF PatInv, PatSound
<1>4. \A d \in Calls \ {c} : call[d].pc = "write" => call[d].token \notin Final'
  BY <1>1 DEF PatInv
<1>5. /\ requireExpiry' = requireExpiry
      /\ pat' \in [Pats -> Row \cup {NoPat}] /\ revokedPats' \subseteq Pats /\ overlapped' \subseteq Pats
      /\ \A t \in Final' : pat'[t] # NoPat /\ pat'[t].revoked
      /\ call' = [call EXCEPT ![c] = IdleCall]
  BY <1>1 DEF PatInv, PatTypeOK, PatReturn
<1>. QED  BY <1>2, <1>3, <1>4, <1>5, PatMoves

\* One row is written while the requests stay.
LEMMA PatRowWritten ==
    ASSUME PatInv, NEW t \in Pats, NEW row \in Row, pat' = [pat EXCEPT ![t] = row],
           t \in Final => row.revoked,
           UNCHANGED <<requireExpiry, call, revokedPats, overlapped>>
    PROVE  PatInv'
<1>1. \A s \in Pats : pat'[s] = IF s = t THEN row ELSE pat[s]
  BY DEF PatInv, PatTypeOK
<1>2. Final' = Final /\ Final \subseteq Pats
  BY DEF Final, PatInv, PatTypeOK
<1>3. row # NoPat
  BY PatAssumption
<1>4. PatTypeOK'
  BY DEF PatInv, PatTypeOK
<1>5. \A c \in Calls : PatSound(call'[c], pat', revokedPats')
  BY <1>1, <1>3 DEF PatInv, PatSound
<1>6. \A s \in Final' : pat'[s] # NoPat /\ pat'[s].revoked
  BY <1>1, <1>2, <1>3 DEF PatInv
<1>. QED  BY <1>2, <1>4, <1>5, <1>6 DEF PatInv, PatSound

\* The steps of requests about tokens keep PatInv.
LEMMA PatSteps == ASSUME PatInv, PatNext PROVE PatInv'
<1>1. ASSUME CreateToken PROVE PatInv'
  <2>1. PICK t \in Pats, u \in Owners, expires \in BOOLEAN :
          /\ pat[t] = NoPat
          /\ pat' = [pat EXCEPT ![t] = [owner |-> u, expires |-> expires, expired |-> FALSE,
                                         used |-> FALSE, revoked |-> FALSE]]
          /\ UNCHANGED <<requireExpiry, call, revokedPats, overlapped>>
    BY <1>1 DEF CreateToken
  <2>2. [owner |-> u, expires |-> expires, expired |-> FALSE, used |-> FALSE, revoked |-> FALSE] \in Row
    BY DEF Row
  <2>3. t \notin Final
    BY <2>1 DEF PatInv
  <2>. QED  BY <2>1, <2>2, <2>3, PatRowWritten
<1>2. ASSUME ExpirePat PROVE PatInv'
  <2>1. PICK t \in Pats :
          /\ pat[t] # NoPat
          /\ pat' = [pat EXCEPT ![t].expired = TRUE]
          /\ UNCHANGED <<requireExpiry, call, revokedPats, overlapped>>
    BY <1>2 DEF ExpirePat
  <2>. DEFINE row == [pat[t] EXCEPT !.expired = TRUE]
  <2>2. pat[t] \in Row
    BY <2>1 DEF PatInv, PatTypeOK
  <2>3. row \in Row /\ row.revoked = pat[t].revoked
    BY <2>2 DEF Row
  <2>4. t \in Final => row.revoked
    BY <2>3 DEF PatInv
  <2>5. pat' = [pat EXCEPT ![t] = row]
    BY <2>1
  <2>. HIDE DEF row
  <2>. QED  BY <2>1, <2>3, <2>4, <2>5, PatRowWritten
<1>3. ASSUME NEW c \in Calls, BeginCall(c) PROVE PatInv'
  <2>1. PICK t \in Pats, pc \in {"resolve", "revoke"}, u \in Owners :
          /\ pat[t] # NoPat
          /\ call' = [call EXCEPT ![c] = [IdleCall EXCEPT !.pc = pc, !.token = t, !.by = u,
                                                          !.late = t \in revokedPats]]
    BY <1>3 DEF BeginCall
  <2>. DEFINE q == [IdleCall EXCEPT !.pc = pc, !.token = t, !.by = u, !.late = t \in revokedPats]
  <2>2. UNCHANGED <<requireExpiry, pat, revokedPats, overlapped>> /\ Final' = Final
    BY <1>3 DEF BeginCall, Final
  <2>3. q \in PatCall /\ q.pc = pc /\ q.token = t /\ (q.late <=> t \in revokedPats)
    <3>. DEFINE Began(late) == [IdleCall EXCEPT !.pc = pc, !.token = t, !.by = u, !.late = late]
    <3>1. \A late \in BOOLEAN :
            Began(late) \in PatCall /\ Began(late).pc = pc /\ Began(late).token = t /\ Began(late).late = late
      BY DEF IdleCall, PatCall
    <3>2. (t \in revokedPats) \in BOOLEAN /\ q = Began(t \in revokedPats)
      OBVIOUS
    <3>. HIDE DEF q, Began
    <3>. QED  BY <3>1, <3>2, Zenon
  <2>4. PatSound(q, pat', revokedPats')
    BY <2>1, <2>2, <2>3 DEF PatSound
  <2>5. call' = [call EXCEPT ![c] = q]
    BY <2>1
  <2>. HIDE DEF q
  <2>6. \A d \in Calls \ {c} : PatSound(call[d], pat', revokedPats')
    BY <2>2 DEF PatInv, PatSound
  <2>7. /\ \A d \in Calls \ {c} : call[d].pc = "write" => call[d].token \notin Final'
        /\ \A s \in Final' : pat'[s] # NoPat /\ pat'[s].revoked
        /\ pat' \in [Pats -> Row \cup {NoPat}] /\ revokedPats' \subseteq Pats /\ overlapped' \subseteq Pats
    BY <2>2 DEF PatInv, PatTypeOK
  <2>. QED  BY <2>2, <2>3, <2>4, <2>5, <2>6, <2>7, PatMoves
<1>4. ASSUME NEW c \in Calls, Resolve(c) PROVE PatInv'
  <2>. DEFINE t == call[c].token
  <2>1. call[c].pc = "resolve" /\ call[c] \in PatCall /\ t \in Pats /\ pat[t] \in Row
    BY <1>4 DEF Resolve, PatInv, PatTypeOK, PatSound
  <2>2. UNCHANGED <<requireExpiry, pat, revokedPats, overlapped>> /\ Final' = Final
    BY <1>4 DEF Resolve, Final
  <2>3. CASE ~Resolvable(pat[t])
    <3>1. PatReturn(c)
      BY <1>4, <2>3 DEF Resolve
    <3>. QED  BY <3>1, <2>2, PatReturns
  <2>4. CASE Resolvable(pat[t])
    <3>. DEFINE q == [call[c] EXCEPT !.pc = "write", !.copy = pat[t]]
    <3>1. call' = [call EXCEPT ![c] = q]
      BY <1>4, <2>4 DEF Resolve
    <3>2. q \in PatCall /\ q.pc = "write" /\ q.token = t /\ q.copy = pat[t] /\ q.late = call[c].late
      BY <2>1 DEF PatCall
    <3>3. ~pat[t].revoked /\ t \notin Final
      BY <2>4 DEF Resolvable, PatInv
    <3>. HIDE DEF q
    <3>4. PatSound(q, pat', revokedPats') /\ (q.pc = "write" => q.token \notin Final')
      BY <3>2, <3>3, <2>1, <2>2, PatAssumption DEF PatSound, PatInv
    <3>5. \A d \in Calls \ {c} : PatSound(call[d], pat', revokedPats')
      BY <2>2 DEF PatInv, PatSound
    <3>6. /\ \A d \in Calls \ {c} : call[d].pc = "write" => call[d].token \notin Final'
          /\ \A s \in Final' : pat'[s] # NoPat /\ pat'[s].revoked
          /\ pat' \in [Pats -> Row \cup {NoPat}] /\ revokedPats' \subseteq Pats /\ overlapped' \subseteq Pats
      BY <2>2 DEF PatInv, PatTypeOK
    <3>. QED  BY <2>2, <3>1, <3>2, <3>4, <3>5, <3>6, PatMoves
  <2>. QED  BY <2>3, <2>4
<1>5. ASSUME NEW c \in Calls, ResolveWrite(c) PROVE PatInv'
  <2>. DEFINE t == call[c].token
              row == [call[c].copy EXCEPT !.used = TRUE]
  <2>1. /\ call[c].pc = "write" /\ call[c] \in PatCall /\ t \in Pats /\ pat[t] \in Row /\ pat[t] # NoPat
        /\ call[c].copy \in Row /\ t \notin Final
    BY <1>5 DEF ResolveWrite, PatInv, PatTypeOK, PatSound
  <2>2. UNCHANGED <<requireExpiry, revokedPats, overlapped>> /\ Final' = Final /\ PatReturn(c)
    BY <1>5 DEF ResolveWrite, Final
  <2>3. CASE UNCHANGED pat
    BY <2>2, <2>3, PatReturns
  <2>4. CASE UpdatePersonalAccessToken(t, row)
    <3>1. row \in Row /\ row # NoPat
      BY <2>1, PatAssumption DEF Row
    <3>2. \A s \in Pats : pat'[s] = IF s = t THEN row ELSE pat[s]
      BY <2>4 DEF UpdatePersonalAccessToken, PatInv, PatTypeOK
    <3>3. pat' \in [Pats -> Row \cup {NoPat}]
      BY <2>1, <2>4, <3>1 DEF UpdatePersonalAccessToken, PatInv, PatTypeOK
    <3>. HIDE DEF row
    <3>4. \A s \in Final' : pat'[s] # NoPat /\ pat'[s].revoked
      BY <2>1, <2>2, <3>2 DEF PatInv, PatTypeOK, Final
    <3>5. \A d \in Calls \ {c} : PatSound(call[d], pat', revokedPats')
      BY <2>2, <3>1, <3>2 DEF PatInv, PatSound
    <3>6. IdleCall \in PatCall /\ PatSound(IdleCall, pat', revokedPats') /\ IdleCall.pc = "idle"
      BY PatIdle
    <3>7. /\ \A d \in Calls \ {c} : call[d].pc = "write" => call[d].token \notin Final'
          /\ revokedPats' \subseteq Pats /\ overlapped' \subseteq Pats
          /\ call' = [call EXCEPT ![c] = IdleCall]
      BY <2>2 DEF PatInv, PatTypeOK, PatReturn
    <3>. QED  BY <2>2, <3>3, <3>4, <3>5, <3>6, <3>7, PatMoves
  <2>. QED  BY <1>5, <2>3, <2>4 DEF ResolveWrite
<1>6. ASSUME NEW c \in Calls, RevokeToken(c) PROVE PatInv'
  <2>. DEFINE t == call[c].token
  <2>1. /\ call[c].pc = "revoke" /\ call[c] \in PatCall /\ t \in Pats /\ pat[t] \in Row /\ pat[t] # NoPat
        /\ revokedPats \subseteq Pats /\ overlapped \subseteq Pats
    BY <1>6 DEF RevokeToken, PatInv, PatTypeOK, PatSound
  <2>2. /\ UNCHANGED <<requireExpiry, pat>>
        /\ overlapped' = IF t \in revokedPats' /\ Resolving(t) # {} THEN overlapped \cup {t} ELSE overlapped
        /\ revokedPats' = revokedPats \/ (pat[t].revoked /\ revokedPats' = revokedPats \cup {t})
    BY <1>6, <2>1 DEF RevokeToken
  <2>3. Final' \subseteq Final \cup {t} /\ (t \in Final' => Resolving(t) = {})
        /\ (Final' \subseteq Final \/ pat[t].revoked)
    BY <2>1, <2>2 DEF Final
  <2>4. \A s \in Final' : pat'[s] # NoPat /\ pat'[s].revoked
    BY <2>1, <2>2, <2>3 DEF PatInv
  <2>5. \A d \in Calls : call[d].pc = "write" => call[d].token \notin Final'
    BY <2>3 DEF PatInv, Resolving, PatSound
  <2>6. \A d \in Calls : PatSound(call[d], pat', revokedPats')
    BY <2>2 DEF PatInv, PatSound
  <2>7. pat' \in [Pats -> Row \cup {NoPat}] /\ revokedPats' \subseteq Pats /\ overlapped' \subseteq Pats
    BY <2>1, <2>2 DEF PatInv, PatTypeOK
  <2>8. CASE PatReturn(c)
    <3>1. IdleCall \in PatCall /\ PatSound(IdleCall, pat', revokedPats') /\ IdleCall.pc = "idle"
      BY PatIdle
    <3>2. call' = [call EXCEPT ![c] = IdleCall]
      BY <2>8 DEF PatReturn
    <3>. QED  BY <2>2, <2>4, <2>5, <2>6, <2>7, <3>1, <3>2, PatMoves
  <2>9. CASE ~PatReturn(c)
    <3>. DEFINE q == [call[c] EXCEPT !.pc = "revokeWrite", !.copy = pat[t]]
    <3>1. call' = [call EXCEPT ![c] = q] /\ ~pat[t].revoked
      BY <1>6, <2>9 DEF RevokeToken
    <3>2. q \in PatCall /\ q.pc = "revokeWrite" /\ q.token = t /\ q.copy = pat[t] /\ q.late = call[c].late
      BY <2>1 DEF PatCall
    <3>. HIDE DEF q
    <3>3. PatSound(call[c], pat', revokedPats')
      BY <2>6
    <3>4. PatSound(q, pat', revokedPats')
      BY <2>1, <3>1, <3>2, <3>3 DEF PatSound
    <3>. QED  BY <2>2, <2>4, <2>5, <2>6, <2>7, <3>1, <3>2, <3>4, PatMoves
  <2>. QED  BY <2>8, <2>9
<1>7. ASSUME NEW c \in Calls, RevokeWrite(c) PROVE PatInv'
  <2>. DEFINE t == call[c].token
              row == [call[c].copy EXCEPT !.revoked = TRUE]
  <2>1. /\ call[c].pc = "revokeWrite" /\ call[c] \in PatCall /\ t \in Pats /\ call[c].copy \in Row
        /\ revokedPats \subseteq Pats /\ overlapped \subseteq Pats
    BY <1>7 DEF RevokeWrite, PatInv, PatTypeOK, PatSound
  <2>2. /\ UNCHANGED requireExpiry /\ PatReturn(c) /\ UpdatePersonalAccessToken(t, row)
        /\ revokedPats' = revokedPats \cup {t}
        /\ overlapped' = IF Resolving(t) # {} THEN overlapped \cup {t} ELSE overlapped
    BY <1>7 DEF RevokeWrite
  <2>3. row \in Row /\ row # NoPat /\ row.revoked
    BY <2>1, PatAssumption DEF Row
  <2>4. \A s \in Pats : pat'[s] = IF s = t THEN row ELSE pat[s]
    BY <2>2 DEF UpdatePersonalAccessToken, PatInv, PatTypeOK
  <2>5. pat' \in [Pats -> Row \cup {NoPat}]
    BY <2>1, <2>2, <2>3 DEF UpdatePersonalAccessToken, PatInv, PatTypeOK
  <2>. HIDE DEF row
  <2>6. Final' \subseteq Final \cup {t} /\ (t \in Final' => Resolving(t) = {}) /\ Final \subseteq Pats
    BY <2>1, <2>2 DEF Final
  <2>7. \A s \in Final' : pat'[s] # NoPat /\ pat'[s].revoked
    BY <2>1, <2>3, <2>4, <2>6 DEF PatInv
  <2>8. \A d \in Calls : call[d].pc = "write" => call[d].token \notin Final'
    BY <2>6 DEF PatInv, Resolving, PatSound
  <2>9. \A d \in Calls : PatSound(call[d], pat', revokedPats')
    BY <2>2, <2>3, <2>4 DEF PatInv, PatSound
  <2>10. IdleCall \in PatCall /\ PatSound(IdleCall, pat', revokedPats') /\ IdleCall.pc = "idle"
    BY PatIdle
  <2>11. call' = [call EXCEPT ![c] = IdleCall] /\ revokedPats' \subseteq Pats /\ overlapped' \subseteq Pats
    BY <2>1, <2>2 DEF PatReturn
  <2>. QED  BY <2>2, <2>5, <2>7, <2>8, <2>9, <2>10, <2>11, PatMoves
<1>8. ASSUME NEW c \in Calls, PatCutOff(c) PROVE PatInv'
  BY <1>8, PatReturns DEF PatCutOff
<1>. QED  BY <1>1, <1>2, <1>3, <1>4, <1>5, <1>6, <1>7, <1>8 DEF PatNext

\* PatInv is about the tokens' own variables.
LEMMA PatRests == ASSUME PatInv, UNCHANGED patvars PROVE PatInv'
BY DEF PatInv, PatTypeOK, PatSound, Final, patvars

\* What it comes to.
LEMMA PatRefuses == PatInv => RevokedIsRefused
BY DEF PatInv, PatSound, Final, RevokedIsRefused

-----------------------------------------------------------------------------
(***************************************************************************)
(* The browser: every step of BNext keeps BInv.                            *)
(***************************************************************************)

\* Sessions begin, and end for good.
Onward(k1, k2) ==
    \A s \in Sess : k1[s] # "none" => k2[s] # "none" /\ (k2[s] = "live" => k1[s] = "live")

\* A slot with no request has the form of one, and nothing to rely on.
LEMMA BIdle ==
    ASSUME NEW known, NEW late
    PROVE  NoRequest \in Request /\ BSound(NoRequest, known, late) /\ \A c : Fresh(NoRequest, c)
<1>1. NoRequest \in Request
  BY DEF NoRequest, Request, NoHeaders, Headers, Kinds
<1>2. BSound(NoRequest, known, late) /\ \A c : Fresh(NoRequest, c)
  BY DEF NoRequest, BSound, Entered, Left, Fresh
<1>. QED  BY <1>1, <1>2

\* At the start the jar is empty and nobody is signed in.
LEMMA BStarts == BInit => BInv
<1>. SUFFICES ASSUME BInit PROVE BInv
  OBVIOUS
<1>1. \A r \in Requests : req[r] = NoRequest
  BY DEF BInit
<1>2. BTypeOK
  BY BIdle, BrowserAssumption DEF BInit, BTypeOK
<1>3. BAllSound /\ BAllFresh
  BY <1>1, BIdle DEF BAllSound, BAllFresh
<1>4. NoRequest.pc = "idle"
  BY DEF NoRequest
<1>. QED  BY <1>1, <1>2, <1>3, <1>4 DEF BInv, BInit, KeepsSignIn, FormsPass

\* What a request relies on survives the sessions going on and others being
\* told of as late.
LEMMA BSoundStays ==
    ASSUME NEW q \in Request, NEW k1, NEW k2, NEW l1, NEW l2,
           BSound(q, k1, l1), Onward(k1, k2), l1 \subseteq l2
    PROVE  BSound(q, k2, l2)
<1>1. q.at \in Sess \cup {Empty} /\ q.set \in Sess \cup {Empty, Leave}
  BY DEF Request
<1>2. q.at # Empty => k1[q.at] # "none" /\ k2[q.at] # "none" /\ (k2[q.at] = "live" => k1[q.at] = "live")
  BY <1>1 DEF BSound, Onward
<1>3. Entered(q) => q.set \in Sess /\ k2[q.set] # "none"
  BY DEF BSound, Onward
<1>. QED  BY <1>2, <1>3 DEF BSound

\* One request turns into q, and the others go on.
LEMMA BMoves ==
    ASSUME BInv, NEW r \in Requests, NEW q \in Request, req' = [req EXCEPT ![r] = q],
           BSound(q, server', lateFor'), Onward(server, server'), lateFor \subseteq lateFor', setup' = setup
    PROVE  req' \in [Requests -> Request] /\ BAllSound'
<1>1. req' \in [Requests -> Request] /\ \A p \in Requests : req'[p] = IF p = r THEN q ELSE req[p]
  BY DEF BInv, BTypeOK
<1>2. \A p \in Requests : BSound(req[p], server', lateFor')
  BY BSoundStays DEF BInv, BTypeOK, BAllSound
<1>3. \A p \in Requests : BSound(req'[p], server', lateFor')
  BY <1>1, <1>2
<1>. QED  BY <1>1, <1>3 DEF BAllSound, BSound

\* One request turns into q, the sessions go on, and nothing reaches the
\* browser.
LEMMA BAnswers ==
    ASSUME BInv, NEW r \in Requests, NEW q \in Request, req' = [req EXCEPT ![r] = q],
           BSound(q, server', lateFor), Onward(server, server'),
           Fresh(q, csrf), server' \in [Sess -> {"none", "live", "ended"}],
           UNCHANGED <<setup, jar, csrf, page, signedIn, lateFor, outrun>>
    PROVE  BInv'
<1>1. req' \in [Requests -> Request] /\ BAllSound'
  BY BMoves
<1>0. BAllFresh'
  BY <1>1 DEF BInv, BTypeOK, BAllFresh, Fresh
<1>2. BTypeOK'
  BY <1>1 DEF BInv, BTypeOK
<1>3. /\ signedIn' # Empty => server'[signedIn'] # "none"
      /\ KeepsSignIn'
  BY DEF BInv, BTypeOK, KeepsSignIn, Onward
<1>4. FormsPass'
  <2>1. \A p \in Requests :
          req'[p].pc = "answered" /\ req'[p].ok /\ ~req'[p].own =>
            setup'.allowMissing /\ req'[p].headers = NoHeaders /\ ~setup'.doubleSubmit
    BY <1>1 DEF BAllSound, BSound
  <2>2. \A p \in Requests \ outrun' : page'[p] # Empty => page'[p] = csrf'
    BY DEF BInv, FormsPass
  <2>. QED  BY <2>1, <2>2 DEF FormsPass
<1>. QED  BY <1>0, <1>1, <1>2, <1>3, <1>4 DEF BInv

\* A request that sets out from the browser, its cookies with it.
LEMMA BSets ==
    ASSUME BInv, NEW r \in Requests, NEW q \in Request, req' = [req EXCEPT ![r] = q],
           q.pc = "sent", q.cookie \in {jar, Empty}, q.token \in {csrf, Empty}, q.at = signedIn,
           q.set = Leave, q.mint = Empty, ~q.ok,
           ~q.own => q.kind = "act" /\ q.sent = Empty /\ Foreign(q.headers),
           UNCHANGED <<setup, server, jar, csrf, page, signedIn, lateFor, outrun>>
    PROVE  BInv'
<1>1. BSound(q, server', lateFor)
  BY DEF BInv, BSound, Entered, Left, KeepsSignIn
<1>3. Fresh(q, csrf)
  BY DEF Fresh
<1>2. Onward(server, server') /\ server' \in [Sess -> {"none", "live", "ended"}]
  BY DEF Onward, BInv, BTypeOK
<1>. QED  BY <1>1, <1>2, <1>3, BAnswers

\* What an answered request keeps, and what its answer says.
Reply(p, set, mint, ok) == [Answered(p) EXCEPT !.set = set, !.mint = mint, !.ok = ok]

Replies(q, p, set, mint, ok) ==
    /\ q \in Request
    /\ q.pc = "answered" /\ q.set = set /\ q.mint = mint /\ q.ok = ok /\ q.kind = p.kind
    /\ q.token = p.token /\ q.sent = Empty /\ q.own = p.own /\ q.at = p.at /\ q.over = p.over
    /\ p.own = FALSE => q.headers = p.headers

LEMMA ReplyHas ==
    ASSUME NEW p \in Request, NEW set \in Sess \cup {Empty, Leave}, NEW mint \in Csrfs \cup {Empty},
           NEW ok \in BOOLEAN
    PROVE  Replies(Reply(p, set, mint, ok), p, set, mint, ok)
<1>. DEFINE h == IF p.own THEN NoHeaders ELSE p.headers
<1>1. h \in Headers /\ h \in {p.headers, NoHeaders} /\ (p.own = FALSE => h = p.headers)
  BY DEF NoHeaders, Headers, Request
<1>2. Answered(p) = [p EXCEPT !.pc = "answered", !.cookie = Empty, !.sent = Empty, !.headers = h]
  BY DEF Answered, Request
<1>. HIDE DEF h
<1>3. Reply(p, set, mint, ok)
        = [[p EXCEPT !.pc = "answered", !.cookie = Empty, !.sent = Empty, !.headers = h]
             EXCEPT !.set = set, !.mint = mint, !.ok = ok]
  BY <1>2 DEF Reply
<1>4. Reply(p, set, mint, ok) \in Request
  BY <1>1, <1>3 DEF Request
<1>5. Reply(p, set, mint, ok).headers = h
  BY <1>3 DEF Request
<1>6. /\ Reply(p, set, mint, ok).pc = "answered"
      /\ Reply(p, set, mint, ok).set = set
      /\ Reply(p, set, mint, ok).mint = mint
      /\ Reply(p, set, mint, ok).ok = ok
      /\ Reply(p, set, mint, ok).kind = p.kind
      /\ Reply(p, set, mint, ok).token = p.token
      /\ Reply(p, set, mint, ok).sent = Empty
  BY <1>3 DEF Request
<1>7. /\ Reply(p, set, mint, ok).own = p.own
      /\ Reply(p, set, mint, ok).at = p.at
      /\ Reply(p, set, mint, ok).over = p.over
  BY <1>3 DEF Request
<1>. QED  BY <1>1, <1>4, <1>5, <1>6, <1>7 DEF Replies

\* A request that is answered in a way that suits what its sender relies on.
LEMMA BReplies ==
    ASSUME BInv, NEW r \in Requests, req[r].pc = "sent",
           NEW set \in Sess \cup {Empty, Leave}, NEW mint \in Csrfs \cup {Empty}, NEW ok \in BOOLEAN,
           NEW q, q = [Answered(req[r]) EXCEPT !.set = set, !.mint = mint, !.ok = ok],
           req' = [req EXCEPT ![r] = q],
           mint # Empty => req[r].token = Empty,
           ok = TRUE /\ req[r].kind = "signIn" => set \in Sess /\ server'[set] # "none",
           ok = TRUE /\ ~req[r].own => CSRFProtect(req[r]),
           \/ ok = TRUE /\ req[r].kind \in {"signIn", "signOut"}
           \/ req[r].at # Empty /\ server[req[r].at] = "live" /\ req[r].cookie \in {req[r].at, Empty}
                => set \in {req[r].at, Leave},
           Onward(server, server'), server' \in [Sess -> {"none", "live", "ended"}],
           UNCHANGED <<setup, jar, csrf, page, signedIn, lateFor, outrun>>
    PROVE  BInv'
<1>1. req[r] \in Request /\ BSound(req[r], server, lateFor)
  BY DEF BInv, BTypeOK, BAllSound
<1>2. /\ q \in Request
      /\ q.pc = "answered" /\ q.set = set /\ q.mint = mint /\ q.ok = ok /\ q.kind = req[r].kind
      /\ q.token = req[r].token /\ q.sent = Empty
      /\ q.own = req[r].own /\ (~q.own => q.headers = req[r].headers)
      /\ q.at = req[r].at /\ q.over = req[r].over
  <2>1. q = Reply(req[r], set, mint, ok)
    BY DEF Reply
  <2>2. req[r] \in Request
    BY <1>1
  <2>3. Replies(Reply(req[r], set, mint, ok), req[r], set, mint, ok)
    BY ONLY <2>2, ReplyHas, set \in Sess \cup {Empty, Leave}, mint \in Csrfs \cup {Empty}, ok \in BOOLEAN, Zenon
  <2>4. Replies(q, req[r], set, mint, ok)
    BY <2>1, <2>3
  <2>5. req[r].own \in BOOLEAN
    BY <2>2 DEF Request
  <2>. QED  BY <2>4, <2>5 DEF Replies
<1>3. BSound(req[r], server', lateFor)
  BY <1>1, BSoundStays
<1>4. q.at # Empty => server'[q.at] # "none" /\ (server'[q.at] = "live" => server[q.at] = "live")
  BY <1>1, <1>2 DEF BSound, Onward, Request
<1>5. (q.mint # Empty => q.token = Empty) /\ Fresh(q, csrf)
  BY <1>1, <1>2 DEF BInv, BAllFresh, Fresh
<1>6. q.at # Empty /\ server'[q.at] = "live" /\ q.at \notin lateFor =>
        (~Entered(q) /\ ~Left(q) => q.set \in {q.at, Leave})
  BY <1>1, <1>2, <1>4 DEF BSound, Entered, Left
<1>7. ~q.own => q.kind = "act" /\ q.sent = Empty /\ Foreign(q.headers)
  BY <1>1, <1>2 DEF BSound
<1>8. q.ok /\ ~q.own => setup.allowMissing /\ q.headers = NoHeaders /\ ~setup.doubleSubmit
  <2>. SUFFICES ASSUME q.ok, ~q.own PROVE setup.allowMissing /\ q.headers = NoHeaders /\ ~setup.doubleSubmit
    OBVIOUS
  <2>1. sameOrigin(q.headers) /\ (setup.doubleSubmit => req[r].token # Empty /\ req[r].sent = req[r].token)
        /\ req[r].sent = Empty
    BY <1>1, <1>2, <1>7 DEF CSRFProtect, BSound
  <2>2. q.headers.origin = "missing" /\ q.headers.site = "missing" /\ setup.allowMissing
    BY <2>1, <1>7 DEF sameOrigin, Foreign
  <2>3. q.headers = NoHeaders
    BY <1>2, <2>2 DEF Request, Headers, NoHeaders
  <2>. QED  BY <1>7, <2>1, <2>2, <2>3
<1>9. BSound(q, server', lateFor)
  BY <1>2, <1>4, <1>5, <1>6, <1>7, <1>8 DEF BSound, Entered
<1>. QED  BY <1>2, <1>5, <1>9, BAnswers

\* Sessions that begin, and sessions that end.
LEMMA SessionsGoOn ==
    ASSUME BTypeOK, NEW s \in Sess, NEW to \in {"live", "ended"},
           server' = [server EXCEPT ![s] = to], to = "live" => server[s] = "none"
    PROVE  /\ Onward(server, server') /\ server' \in [Sess -> {"none", "live", "ended"}]
           /\ server'[s] = to
BY DEF BTypeOK, Onward

\* A token cookie is set for a request that came without one.
LEMMA Minted ==
    ASSUME NEW q, NEW t \in Mint(q)
    PROVE  t \in Csrfs \cup {Empty} /\ (t # Empty => q.token = Empty)
BY DEF Mint

\* A request brings the browser's cookies or none.
LEMMA CarriedIs ==
    ASSUME NEW kind, NEW abroad, NEW with \in Carried(kind, abroad)
    PROVE  with[1] \in {jar, Empty} /\ with[2] \in {csrf, Empty}
BY DEF Carried

\* A request told that a new token was set is the same otherwise.
LEMMA OverSound ==
    ASSUME NEW q \in Request, NEW known, NEW late, BSound(q, known, late)
    PROVE  /\ [q EXCEPT !.over = TRUE] \in Request
           /\ BSound([q EXCEPT !.over = TRUE], known, late)
           /\ \A c : Fresh([q EXCEPT !.over = TRUE], c)
<1>. PICK x : x = [q EXCEPT !.over = TRUE]
  OBVIOUS
<1>1. /\ x \in Request /\ x.over = TRUE /\ x.pc = q.pc /\ x.kind = q.kind /\ x.cookie = q.cookie
      /\ x.token = q.token /\ x.sent = q.sent /\ x.headers = q.headers /\ x.set = q.set /\ x.mint = q.mint
      /\ x.own = q.own /\ x.ok = q.ok /\ x.at = q.at
  BY DEF Request
<1>2. BSound(x, known, late)
  BY <1>1 DEF BSound, Entered, Left
<1>3. \A c : Fresh(x, c)
  BY <1>1 DEF Fresh
<1>. QED  BY <1>1, <1>2, <1>3

\* The browser's and the middleware's steps keep BInv.
LEMMA BSteps == ASSUME BInv, BNext PROVE BInv'
<1>. USE DEF BInv
<1>1. ASSUME End PROVE BInv'
  <2>1. PICK s \in Sess : server[s] = "live" /\ server' = [server EXCEPT ![s] = "ended"]
    BY <1>1 DEF End
  <2>2. UNCHANGED <<setup, jar, csrf, page, req, signedIn, lateFor, outrun>>
    BY <1>1 DEF End
  <2>3. Onward(server, server') /\ server' \in [Sess -> {"none", "live", "ended"}]
    BY <2>1, SessionsGoOn
  <2>4. \A p \in Requests : BSound(req[p], server', lateFor)
    BY <2>3, BSoundStays DEF BTypeOK, BAllSound
  <2>5. BAllSound'
    BY <2>2, <2>4 DEF BAllSound, BSound
  <2>6. BTypeOK' /\ (signedIn' # Empty => server'[signedIn'] # "none") /\ KeepsSignIn' /\ FormsPass'
        /\ BAllFresh'
    BY <2>2, <2>3 DEF BTypeOK, Onward, KeepsSignIn, FormsPass, BAllFresh
  <2>. QED  BY <2>5, <2>6
<1>2. ASSUME NEW r \in Requests, Send(r) PROVE BInv'
  <2>1. PICK kind \in Kinds, h \in Headers, abroad \in BOOLEAN : \E with \in Carried(kind, abroad) :
          req' = [req EXCEPT ![r] = [NoRequest EXCEPT !.pc = "sent", !.kind = kind, !.cookie = with[1],
                                       !.token = with[2], !.sent = IF kind = "page" THEN Empty ELSE page[r],
                                       !.headers = h, !.at = signedIn]]
    BY <1>2 DEF Send
  <2>2. PICK with \in Carried(kind, abroad) :
          req' = [req EXCEPT ![r] = [NoRequest EXCEPT !.pc = "sent", !.kind = kind, !.cookie = with[1],
                                       !.token = with[2], !.sent = IF kind = "page" THEN Empty ELSE page[r],
                                       !.headers = h, !.at = signedIn]]
    BY <2>1
  <2>3. PICK sent : sent = IF kind = "page" THEN Empty ELSE page[r]
    OBVIOUS
  <2>4. PICK q : q = [NoRequest EXCEPT !.pc = "sent", !.kind = kind, !.cookie = with[1], !.token = with[2],
                                       !.sent = sent, !.headers = h, !.at = signedIn]
    OBVIOUS
  <2>5. with[1] \in {jar, Empty} /\ with[2] \in {csrf, Empty}
    BY CarriedIs
  <2>6. sent \in Csrfs \cup {Empty} /\ with[1] \in Sess \cup {Empty} /\ with[2] \in Csrfs \cup {Empty}
        /\ signedIn \in Sess \cup {Empty}
    BY <2>3, <2>5 DEF BTypeOK
  <2>7. /\ q \in Request /\ q.pc = "sent" /\ q.cookie = with[1] /\ q.token = with[2]
        /\ q.at = signedIn /\ q.set = Leave /\ q.mint = Empty /\ ~q.ok /\ q.own
    BY <2>4, <2>6 DEF NoRequest, Request
  <2>8. req' = [req EXCEPT ![r] = q] /\ UNCHANGED <<setup, server, jar, csrf, page, signedIn, lateFor, outrun>>
    BY <1>2, <2>2, <2>3, <2>4 DEF Send
  <2>. QED  BY <2>5, <2>7, <2>8, BSets
<1>3. ASSUME NEW r \in Requests, SendForeign(r) PROVE BInv'
  <2>1. PICK h \in Headers, with \in Carried("act", TRUE) :
          /\ Foreign(h)
          /\ req' = [req EXCEPT ![r] = [NoRequest EXCEPT !.pc = "sent", !.kind = "act", !.cookie = with[1],
                                          !.token = with[2], !.headers = h, !.own = FALSE, !.at = signedIn]]
    BY <1>3 DEF SendForeign
  <2>2. PICK q : q = [NoRequest EXCEPT !.pc = "sent", !.kind = "act", !.cookie = with[1], !.token = with[2],
                                       !.headers = h, !.own = FALSE, !.at = signedIn]
    OBVIOUS
  <2>3. with[1] \in {jar, Empty} /\ with[2] \in {csrf, Empty}
    BY CarriedIs
  <2>4. with[1] \in Sess \cup {Empty} /\ with[2] \in Csrfs \cup {Empty} /\ signedIn \in Sess \cup {Empty}
    BY <2>3 DEF BTypeOK
  <2>5. /\ q \in Request /\ q.pc = "sent" /\ q.cookie = with[1] /\ q.token = with[2]
        /\ q.at = signedIn /\ q.set = Leave /\ q.mint = Empty /\ ~q.ok
        /\ q.kind = "act" /\ q.sent = Empty /\ q.headers = h
    BY <2>2, <2>4 DEF NoRequest, Request, Kinds
  <2>6. req' = [req EXCEPT ![r] = q] /\ UNCHANGED <<setup, server, jar, csrf, page, signedIn, lateFor, outrun>>
    BY <1>3, <2>1, <2>2 DEF SendForeign
  <2>. QED  BY <2>1, <2>3, <2>5, <2>6, BSets
<1>4. ASSUME NEW r \in Requests, Refuse(r) PROVE BInv'
  <2>1. req[r] \in Request /\ BSound(req[r], server, lateFor) /\ req[r].pc = "sent"
    BY <1>4 DEF Refuse, BTypeOK, BAllSound
  <2>. DEFINE q == Answered(req[r])
  <2>2. q = [Answered(req[r]) EXCEPT !.set = Leave, !.mint = Empty, !.ok = FALSE]
    BY <2>1 DEF BSound, Request, Answered
  <2>3. req' = [req EXCEPT ![r] = q] /\ UNCHANGED <<setup, server, jar, csrf, page, signedIn, lateFor, outrun>>
    BY <1>4 DEF Refuse, Answer
  <2>4. Onward(server, server') /\ server' \in [Sess -> {"none", "live", "ended"}]
    BY <2>3 DEF Onward, BTypeOK
  <2>5. PICK x : x = q
    OBVIOUS
  <2>6. x = [Answered(req[r]) EXCEPT !.set = Leave, !.mint = Empty, !.ok = FALSE]
        /\ req' = [req EXCEPT ![r] = x]
    BY <2>2, <2>3, <2>5
  <2>. QED  BY <2>1, <2>3, <2>4, <2>6, BReplies
<1>5. ASSUME NEW r \in Requests, Serve(r) PROVE BInv'
  <2>1. req[r] \in Request /\ BSound(req[r], server, lateFor) /\ req[r].pc = "sent"
        /\ CSRFProtect(req[r]) /\ req[r].kind \in {"page", "act"}
    BY <1>5 DEF Serve, BTypeOK, BAllSound
  <2>2. PICK t \in Mint(req[r]), status \in StatusFor(req[r]) : \E set \in CookieFor(req[r], status) :
          Answer(r, [Answered(req[r]) EXCEPT !.set = set, !.mint = t,
                                   !.ok = status = 200 \/ (status = 401 /\ setup.optional)])
    BY <1>5 DEF Serve
  <2>3. PICK set \in CookieFor(req[r], status) :
          Answer(r, [Answered(req[r]) EXCEPT !.set = set, !.mint = t,
                                   !.ok = status = 200 \/ (status = 401 /\ setup.optional)])
    BY <2>2
  <2>. DEFINE ok == status = 200 \/ (status = 401 /\ setup.optional)
              q == [Answered(req[r]) EXCEPT !.set = set, !.mint = t, !.ok = ok]
  <2>4. PICK x : x = q
    OBVIOUS
  <2>5. ok = TRUE \/ ok = FALSE
    OBVIOUS
  <2>6. req' = [req EXCEPT ![r] = x] /\ UNCHANGED <<setup, server, jar, csrf, page, signedIn, lateFor, outrun>>
    BY <1>5, <2>3, <2>4 DEF Serve, Answer
  <2>7. set \in Sess \cup {Empty, Leave}
    BY <2>1, <2>3 DEF CookieFor, Request
  <2>8. req[r].at # Empty /\ server[req[r].at] = "live" /\ req[r].cookie \in {req[r].at, Empty} =>
          set \in {req[r].at, Leave}
    BY <2>2, <2>3 DEF CookieFor, StatusFor
  <2>9. t \in Csrfs \cup {Empty} /\ (t # Empty => req[r].token = Empty)
    BY Minted
  <2>10. Onward(server, server') /\ server' \in [Sess -> {"none", "live", "ended"}]
    BY <2>6 DEF Onward, BTypeOK
  <2>. HIDE DEF ok
  <2>11. x = [Answered(req[r]) EXCEPT !.set = set, !.mint = t, !.ok = ok]
    BY <2>4
  <2>. HIDE DEF q
  <2>12. /\ ok /\ req[r].kind = "signIn" => set \in Sess /\ server'[set] # "none"
         /\ ok /\ ~req[r].own => CSRFProtect(req[r])
         /\ \/ ok /\ req[r].kind \in {"signIn", "signOut"}
            \/ req[r].at # Empty /\ server[req[r].at] = "live" /\ req[r].cookie \in {req[r].at, Empty}
                 => set \in {req[r].at, Leave}
    BY <2>1, <2>8
  <2>. HIDE DEF BInv
  <2>. QED  BY <2>1, <2>5, <2>6, <2>7, <2>9, <2>10, <2>11, <2>12, BReplies
<1>6. ASSUME NEW r \in Requests, SignIn(r) PROVE BInv'
  <2>1. req[r] \in Request /\ req[r].pc = "sent" /\ CSRFProtect(req[r]) /\ req[r].kind = "signIn"
    BY <1>6 DEF SignIn, BTypeOK
  <2>2. PICK s \in Sess, t \in Mint(req[r]) :
          /\ server[s] = "none"
          /\ server' = [server EXCEPT ![s] = "live"]
          /\ Answer(r, [Answered(req[r]) EXCEPT !.set = s, !.mint = t, !.ok = TRUE])
    BY <1>6 DEF SignIn
  <2>3. PICK x : x = [Answered(req[r]) EXCEPT !.set = s, !.mint = t, !.ok = TRUE]
    OBVIOUS
  <2>4. req' = [req EXCEPT ![r] = x] /\ UNCHANGED <<setup, jar, csrf, page, signedIn, lateFor, outrun>>
    BY <2>2, <2>3 DEF Answer
  <2>5. Onward(server, server') /\ server' \in [Sess -> {"none", "live", "ended"}] /\ server'[s] = "live"
    BY <2>2, SessionsGoOn
  <2>6. t \in Csrfs \cup {Empty} /\ (t # Empty => req[r].token = Empty)
    BY Minted
  <2>. QED  BY <2>1, <2>3, <2>4, <2>5, <2>6, BReplies
<1>7. ASSUME NEW r \in Requests, SignOut(r) PROVE BInv'
  <2>1. req[r] \in Request /\ req[r].pc = "sent" /\ CSRFProtect(req[r]) /\ req[r].kind = "signOut"
        /\ req[r].cookie \in Sess \cup {Empty}
    BY <1>7 DEF SignOut, BTypeOK, Request
  <2>2. PICK t \in Mint(req[r]) :
          Answer(r, [Answered(req[r]) EXCEPT !.set = Empty, !.mint = t, !.ok = TRUE])
    BY <1>7 DEF SignOut
  <2>3. PICK x : x = [Answered(req[r]) EXCEPT !.set = Empty, !.mint = t, !.ok = TRUE]
    OBVIOUS
  <2>4. req' = [req EXCEPT ![r] = x] /\ UNCHANGED <<setup, jar, csrf, page, signedIn, lateFor, outrun>>
    BY <2>2, <2>3 DEF Answer
  <2>5. Onward(server, server') /\ server' \in [Sess -> {"none", "live", "ended"}]
    <3>1. CASE req[r].cookie = Empty
      BY <1>7, <3>1 DEF SignOut, Onward, BTypeOK
    <3>2. CASE req[r].cookie # Empty
      BY <1>7, <2>1, <3>2, SessionsGoOn DEF SignOut
    <3>. QED  BY <3>1, <3>2
  <2>6. t \in Csrfs \cup {Empty} /\ (t # Empty => req[r].token = Empty)
    BY Minted
  <2>. QED  BY <2>1, <2>3, <2>4, <2>5, <2>6, BReplies
<1>8. ASSUME NEW r \in Requests, Deliver(r) PROVE BInv'
  <2>. DEFINE q == req[r]
              token == IF q.mint # Empty THEN q.mint ELSE q.token
              shown == q.kind = "page" /\ q.ok
              anew == q.mint # Empty /\ q.token = Empty
  <2>1. q \in Request /\ BSound(q, server, lateFor) /\ q.pc = "answered" /\ Fresh(q, csrf)
    BY <1>8 DEF Deliver, BTypeOK, BAllSound, BAllFresh
  <2>2. /\ jar' = IF q.set = Leave THEN jar ELSE q.set
        /\ csrf' = IF q.mint # Empty THEN q.mint ELSE csrf
        /\ page' = IF shown THEN [page EXCEPT ![r] = token] ELSE page
        /\ signedIn' = IF Entered(q) THEN q.set ELSE IF Left(q) THEN Empty ELSE signedIn
        /\ lateFor' = IF ~Entered(q) /\ q.at # signedIn /\ jar' # jar
                        THEN lateFor \cup ({signedIn} \ {Empty}) ELSE lateFor
        /\ outrun' = {p \in Requests : IF p = r /\ shown THEN q.over /\ ~anew
                                        ELSE p \in outrun \/ (anew /\ page[p] # Empty)}
        /\ req' = [p \in Requests |-> IF p = r THEN NoRequest
                                      ELSE IF anew /\ req[p].pc # "idle" /\ req[p].kind = "page"
                                             THEN [req[p] EXCEPT !.over = TRUE]
                                      ELSE req[p]]
        /\ UNCHANGED <<setup, server>>
    BY <1>8 DEF Deliver, Entered, Left
  <2>3. token \in Csrfs \cup {Empty} /\ q.set \in Sess \cup {Empty, Leave} /\ q.mint \in Csrfs \cup {Empty}
        /\ q.at \in Sess \cup {Empty}
    BY <2>1 DEF Request
  <2>. anew <=> q.mint # Empty
    BY <2>1 DEF BSound
  <2>. HIDE DEF q, token, shown, anew
  <2>4. jar' \in Sess \cup {Empty} /\ csrf' \in Csrfs \cup {Empty} /\ page' \in [Requests -> Csrfs \cup {Empty}]
    BY <2>2, <2>3 DEF BTypeOK
  <2>5. lateFor \subseteq lateFor' /\ lateFor' \subseteq Sess /\ outrun' \subseteq Requests
    BY <2>2 DEF BTypeOK
  <2>6. signedIn' \in Sess \cup {Empty} /\ (signedIn' # Empty => server'[signedIn'] # "none")
    BY <2>1, <2>2 DEF BSound, BTypeOK
  <2>7. Onward(server, server')
    BY <2>2 DEF Onward
  <2>8. req' \in [Requests -> Request] /\ BAllSound' /\ BAllFresh'
    <3>1. ASSUME NEW p \in Requests
          PROVE  req'[p] \in Request /\ BSound(req'[p], server', lateFor') /\ Fresh(req'[p], csrf')
      <4>1. req[p] \in Request /\ BSound(req[p], server', lateFor') /\ Fresh(req[p], csrf)
        BY <2>5, <2>7, BSoundStays DEF BTypeOK, BAllSound, BAllFresh
      <4>2. CASE p = r
        BY <2>2, <4>2, BIdle
      <4>3. CASE p # r /\ req'[p] = [req[p] EXCEPT !.over = TRUE]
        BY <4>1, <4>3, OverSound
      <4>4. CASE p # r /\ req'[p] = req[p] /\ (anew => req[p].pc = "idle" \/ req[p].kind # "page")
        <5>1. Fresh(req[p], csrf')
          BY <2>2, <4>1, <4>4 DEF Fresh
        <5>. QED  BY <4>1, <4>4, <5>1
      <4>. QED  BY <2>2, <4>2, <4>3, <4>4
    <3>2. req' \in [Requests -> Request]
      BY <2>2, <3>1
    <3>3. \A p \in Requests : BSound(req'[p], server', lateFor') /\ Fresh(req'[p], csrf')
      BY <3>1
    <3>. QED  BY <2>2, <3>2, <3>3 DEF BAllSound, BSound, BAllFresh
  <2>9. BTypeOK'
    BY <2>2, <2>4, <2>5, <2>6, <2>8 DEF BTypeOK
  <2>10. KeepsSignIn'
    <3>1. CASE Entered(q)
      <4>1. q.set \in Sess /\ q.set # Leave
        BY <2>1, <3>1, BrowserAssumption DEF BSound
      <4>. QED  BY <2>2, <3>1, <4>1 DEF KeepsSignIn
    <3>2. CASE ~Entered(q) /\ Left(q)
      BY <2>2, <3>2 DEF KeepsSignIn
    <3>3. CASE ~Entered(q) /\ ~Left(q) /\ q.at # signedIn
      BY <2>2, <3>3 DEF KeepsSignIn
    <3>4. CASE ~Entered(q) /\ ~Left(q) /\ q.at = signedIn
      BY <2>1, <2>2, <2>5, <3>4 DEF KeepsSignIn, BSound
    <3>. QED  BY <3>1, <3>2, <3>3, <3>4
  <2>11. \A p \in Requests \ outrun' : page'[p] # Empty => page'[p] = csrf'
    <3>. SUFFICES ASSUME NEW p \in Requests, page'[p] # Empty, page'[p] # csrf' PROVE p \in outrun'
      OBVIOUS
    <3>1. CASE p = r /\ shown
      <4>1. page'[p] = token
        BY <2>2, <3>1 DEF BTypeOK
      <4>2. q.mint = Empty
        BY <2>2, <4>1 DEF token
      <4>3. q.kind = "page" /\ q.token # Empty /\ q.token # csrf
        BY <2>2, <3>1, <4>1, <4>2 DEF token, shown
      <4>4. q.over
        BY <2>1, <4>3 DEF Fresh
      <4>. QED  BY <2>2, <3>1, <4>2, <4>4
    <3>2. CASE ~(p = r /\ shown)
      <4>1. page'[p] = page[p]
        BY <2>2, <3>2 DEF BTypeOK
      <4>2. CASE p \in outrun
        BY <2>2, <3>2, <4>2
      <4>3. CASE p \notin outrun
        <5>1. anew /\ page[p] # Empty
          BY <2>2, <4>1, <4>3 DEF FormsPass
        <5>. QED  BY <2>2, <3>2, <5>1
      <4>. QED  BY <4>2, <4>3
    <3>. QED  BY <3>1, <3>2
  <2>12. FormsPass'
    <3>1. \A p \in Requests :
            req'[p].pc = "answered" /\ req'[p].ok /\ ~req'[p].own =>
              setup'.allowMissing /\ req'[p].headers = NoHeaders /\ ~setup'.doubleSubmit
      BY <2>8 DEF BAllSound, BSound
    <3>. QED  BY <2>11, <3>1 DEF FormsPass
  <2>. QED  BY <2>6, <2>8, <2>9, <2>10, <2>12
<1>9. ASSUME NEW r \in Requests, Lose(r) PROVE BInv'
  <2>1. req' = [req EXCEPT ![r] = NoRequest]
        /\ UNCHANGED <<setup, server, jar, csrf, page, signedIn, lateFor, outrun>>
    BY <1>9 DEF Lose
  <2>2. Onward(server, server') /\ server' \in [Sess -> {"none", "live", "ended"}]
    BY <2>1 DEF Onward, BTypeOK
  <2>. QED  BY <2>1, <2>2, BIdle, BAnswers
<1>. QED  BY <1>1, <1>2, <1>3, <1>4, <1>5, <1>6, <1>7, <1>8, <1>9 DEF BNext

\* BInv is about the browser's own variables.
LEMMA BRests == ASSUME BInv, UNCHANGED bvars PROVE BInv'
BY DEF BInv, BTypeOK, BAllSound, BSound, BAllFresh, KeepsSignIn, FormsPass, bvars

-----------------------------------------------------------------------------
(***************************************************************************)
(* The limiter: every step of LNext keeps LInv.                            *)
(***************************************************************************)

\* A whole bucket pays for an attempt.
LEMMA Budget ==
    /\ Interval \in Nat \ {0} /\ MaxKeys \in Nat \ {0} /\ MaxClock \in Nat
    /\ Full \in Nat /\ Interval <= Full
<1>1. Interval \in Nat \ {0} /\ MaxKeys \in Nat \ {0} /\ MaxClock \in Nat /\ Burst \in Nat \ {0}
  BY RateLimitAssumption
<1>2. \A n, m \in Nat : n * m \in Nat /\ (n + 1) * m = n * m + m
  OBVIOUS
<1>3. PICK n \in Nat : Burst = n + 1
  <2>1. Burst - 1 \in Nat /\ Burst = (Burst - 1) + 1
    BY <1>1
  <2>. QED  BY <2>1
<1>4. Burst * Interval \in Nat /\ Burst * Interval = n * Interval + Interval /\ n * Interval \in Nat
  BY <1>1, <1>2, <1>3
<1>. QED  BY <1>1, <1>4 DEF Full

\* One attempt more costs one interval more.
LEMMA Costs ==
    ASSUME NEW n \in Nat
    PROVE  n * Interval \in Nat /\ (n + 1) * Interval = n * Interval + Interval
<1>1. Interval \in Nat
  BY Budget
<1>. QED  BY <1>1

\* A caller that reads the clock before keys are dropped misses it.
LEMMA Dropped ==
    ASSUME LTypeOK, LTimes, NEW a \in Attempts, NEW ks \in SUBSET LimitKeys
    PROVE  /\ Drop(a, ks) \in Attempt /\ Drop(a, ks).now = att[a].now
           /\ att[a].missed \subseteq Drop(a, ks).missed
           /\ att[a].now # -1 /\ att[a].now # clock => ks \subseteq Drop(a, ks).missed
<1>1. att[a] \in Attempt /\ att[a].now <= clock /\ clock \in 0 .. MaxClock /\ MaxClock \in Nat
  BY Budget DEF LTypeOK, LTimes
<1>2. att[a].now \in -1 .. MaxClock /\ att[a].missed \in SUBSET LimitKeys
  BY <1>1 DEF Attempt
<1>3. att[a].now # -1 /\ att[a].now # clock => att[a].now \in 0 .. clock - 1
  BY <1>1, <1>2
<1>. QED  BY <1>1, <1>2, <1>3 DEF Drop, Attempt

\* At the start every budget is whole.
LEMMA LStarts == LInit => LInv
<1>. SUFFICES ASSUME LInit PROVE LInv
  OBVIOUS
<1>1. MaxClock \in Nat /\ Interval \in Nat /\ MaxKeys \in Nat /\ Full \in Nat
  BY Budget
<1>2. NoAttempt \in Attempt /\ NoAttempt.now = -1
  BY <1>1 DEF NoAttempt, Attempt
<1>3. LTypeOK /\ LTimes
  BY <1>1, <1>2 DEF LInit, LTypeOK, LTimes
<1>4. Held = {}
  BY DEF LInit, Held
<1>5. LSize
  BY <1>1, <1>4, FS_EmptySet DEF LSize
<1>6. \A k \in LimitKeys : Spent(k) = 0
  BY <1>1 DEF LInit, Spent
<1>7. \A k \in LimitKeys : Accounted(k)
  BY <1>2, <1>6 DEF LInit, Accounted
<1>. QED  BY <1>3, <1>5, <1>7 DEF LInv

\* An attempt goes on to q, and no bucket is touched.
LEMMA LMoves ==
    ASSUME LInv, NEW a \in Attempts, NEW q \in Attempt, att' = [att EXCEPT ![a] = q],
           q.now = -1 \/ q.now = clock, UNCHANGED <<clock, buckets, admitted, since, behind>>
    PROVE  LInv'
<1>1. MaxClock \in Nat /\ clock \in 0 .. MaxClock /\ since \in 0 .. MaxClock
  BY Budget DEF LInv, LTypeOK, LTimes
<1>2. \A c \in Attempts : att'[c] = IF c = a THEN q ELSE att[c]
  BY DEF LInv, LTypeOK
<1>3. LTypeOK' /\ LTimes'
  BY <1>1, <1>2 DEF LInv, LTypeOK, LTimes
<1>4. Held' = Held
  BY DEF Held
<1>5. LSize'
  BY <1>4 DEF LInv, LSize
<1>6. ASSUME NEW k \in LimitKeys \ behind' PROVE Accounted(k)'
  <2>1. Accounted(k)
    BY DEF LInv
  <2>2. Spent(k)' = Spent(k)
    BY DEF Spent
  <2>. QED  BY <1>2, <2>1, <2>2 DEF Accounted
<1>. QED  BY <1>3, <1>5, <1>6 DEF LInv

\* What the bucket is that a key is charged to.
LEMMA ChargedIs ==
    ASSUME LTypeOK, LTimes, NEW k \in LimitKeys, NEW now \in 0 .. clock, NEW kept, IsFiniteSet(kept)
    PROVE  /\ k \in Held => /\ Charged(k, now, kept) \in Bucket
                            /\ Charged(k, now, kept).last <= clock
                            /\ Charged(k, now, kept).tokens - Charged(k, now, kept).last
                                 <= buckets[k].tokens - buckets[k].last
           /\ k \notin Held /\ Cardinality(kept) >= MaxKeys => Charged(k, now, kept) = NoKey
           /\ k \notin Held /\ ~(Cardinality(kept) >= MaxKeys) =>
                /\ Charged(k, now, kept) \in Bucket
                /\ Charged(k, now, kept).tokens = Full
                /\ Charged(k, now, kept).last = now
<1>1. Full \in Nat /\ MaxClock \in Nat /\ clock \in 0 .. MaxClock /\ now \in 0 .. MaxClock
  BY Budget DEF LTypeOK
<1>2. Bucket = [tokens : 0 .. Full, last : 0 .. MaxClock]
  BY DEF Bucket, Full
<1>3. CASE k \in Held
  <2>1. buckets[k] \in Bucket /\ buckets[k].last <= clock
    BY <1>3 DEF Held, LTypeOK, LTimes
  <2>2. buckets[k].tokens \in 0 .. Full /\ buckets[k].last \in 0 .. MaxClock
    BY <1>2, <2>1
  <2>. DEFINE held == buckets[k].tokens + (now - buckets[k].last)
              new == [tokens |-> IF held > Full THEN Full ELSE held, last |-> now]
  <2>3. Charged(k, now, kept) = IF now > buckets[k].last THEN new ELSE buckets[k]
    BY <1>3 DEF Charged, Refilled
  <2>4. CASE now > buckets[k].last
    <3>1. held \in Nat
      BY <1>1, <2>2, <2>4
    <3>2. /\ new.tokens \in 0 .. Full /\ new.last = now
          /\ new.tokens - new.last <= buckets[k].tokens - buckets[k].last
      BY <1>1, <2>2, <2>4, <3>1
    <3>3. new \in Bucket
      BY <1>1, <1>2, <3>2
    <3>. QED  BY <1>1, <1>3, <2>3, <2>4, <3>2, <3>3
  <2>5. CASE ~(now > buckets[k].last)
    BY <1>3, <2>1, <2>2, <2>3, <2>5
  <2>. QED  BY <2>4, <2>5
<1>4. CASE k \notin Held
  <2>1. Charged(k, now, kept) = IF Cardinality(kept) >= MaxKeys THEN NoKey ELSE [tokens |-> Full, last |-> now]
    BY <1>4 DEF Charged
  <2>2. Full \in 0 .. Full /\ now \in 0 .. MaxClock
    BY <1>1
  <2>3. [tokens |-> Full, last |-> now] \in Bucket
    BY <1>2, <2>2
  <2>. QED  BY <1>4, <2>1, <2>3
<1>. QED  BY <1>3, <1>4

\* What Allow does under the lock: key k is charged to bucket b, what was
\* evicted for it is gone, and attempt a goes on to q.
Charges(a, k, now, evicted, b, ok, q) ==
    /\ now \in 0 .. clock /\ att[a].now = now
    /\ evicted = IF k \notin Held /\ Cardinality(Held) >= MaxKeys THEN Evictable(now) ELSE {}
    /\ b = Charged(k, now, Held \ evicted)
    /\ ok <=> b # NoKey /\ b.tokens >= Interval
    /\ q \in Attempt /\ q.now = -1
    /\ buckets' = [j \in LimitKeys |-> buckets'[j]]
    /\ \A j \in LimitKeys \ {k} : buckets'[j] = IF j \in evicted THEN NoKey ELSE buckets[j]
    /\ ok => buckets'[k] = [b EXCEPT !.tokens = b.tokens - Interval]
    /\ ~ok => buckets'[k] = b
    /\ behind' = IF k \notin Held /\ b # NoKey /\ k \in att[a].missed THEN behind \cup {k} ELSE behind
    /\ admitted' = IF ok THEN [admitted EXCEPT ![k] = @ + 1] ELSE admitted
    /\ att' = [c \in Attempts |-> IF c = a THEN q ELSE Drop(c, evicted)]
    /\ UNCHANGED <<clock, since>>

\* Such a step keeps LInv.
LEMMA AllowKeeps ==
    ASSUME LInv, NEW a \in Attempts, NEW k \in LimitKeys, NEW now, NEW evicted, NEW b, NEW ok \in BOOLEAN, NEW q,
           Charges(a, k, now, evicted, b, ok, q)
    PROVE  LInv'
<1>. USE DEF Charges
<1>1. /\ Full \in Nat /\ MaxClock \in Nat /\ MaxKeys \in Nat /\ Interval \in Nat
      /\ clock \in 0 .. MaxClock /\ since \in 0 .. MaxClock
  BY Budget DEF LInv, LTypeOK, LTimes
<1>2. Bucket = [tokens : 0 .. Full, last : 0 .. MaxClock]
  BY DEF Bucket, Full
<1>3. IsFiniteSet(Held) /\ Cardinality(Held) <= MaxKeys /\ Held \subseteq LimitKeys
  BY DEF LInv, LSize, Held
<1>4. evicted \subseteq Held \ {k} /\ (k \in Held => evicted = {})
  BY DEF Evictable
<1>5. /\ IsFiniteSet(Held \ evicted) /\ Cardinality(Held \ evicted) <= MaxKeys
      /\ Cardinality(Held \ evicted) \in Nat
  BY <1>1, <1>3, FS_Subset, FS_CardinalityType
<1>6. /\ k \in Held => b \in Bucket /\ b.last <= clock
                       /\ b.tokens - b.last <= buckets[k].tokens - buckets[k].last
      /\ k \notin Held /\ Cardinality(Held \ evicted) >= MaxKeys => b = NoKey
      /\ k \notin Held /\ ~(Cardinality(Held \ evicted) >= MaxKeys) =>
           b \in Bucket /\ b.tokens = Full /\ b.last = now
  BY <1>5, ChargedIs DEF LInv
<1>7. b \in Bucket \cup {NoKey} /\ (b # NoKey <=> b \in Bucket) /\ (b # NoKey => b.last <= clock)
  BY <1>1, <1>6, RateLimitAssumption
<1>8. k \in LimitKeys /\ \A j \in LimitKeys \ {k} : buckets'[j] = IF j \in evicted THEN NoKey ELSE buckets[j]
  OBVIOUS
<1>9. /\ b = NoKey => buckets'[k] = NoKey
      /\ b # NoKey => /\ buckets'[k] \in Bucket
                      /\ buckets'[k].last = b.last
                      /\ buckets'[k].tokens = IF ok THEN b.tokens - Interval ELSE b.tokens
  <2>1. CASE ok
    <3>1. buckets'[k] = [b EXCEPT !.tokens = b.tokens - Interval]
      BY <2>1
    <3>2. b \in Bucket /\ b.tokens \in 0 .. Full /\ b.last \in 0 .. MaxClock /\ b.tokens >= Interval
      BY <1>2, <1>7, <2>1
    <3>3. b.tokens - Interval \in 0 .. Full
      BY <1>1, <3>2
    <3>. QED  BY <1>2, <1>7, <2>1, <3>1, <3>2, <3>3
  <2>2. CASE ~ok
    BY <1>7, <2>2
  <2>. QED  BY <2>1, <2>2
<1>10. \A c \in Attempts :
         /\ att'[c] \in Attempt
         /\ c = a => att'[c].now = -1
         /\ c # a => /\ att'[c].now = att[c].now /\ att[c].missed \subseteq att'[c].missed
                     /\ att[c].now # -1 /\ att[c].now # clock => evicted \subseteq att'[c].missed
  <2>1. evicted \in SUBSET LimitKeys
    BY <1>3, <1>4
  <2>. QED  BY <2>1, Dropped DEF LInv
<1>11. admitted' \in [LimitKeys -> Nat]
       /\ \A j \in LimitKeys : admitted'[j] = IF j = k /\ ok THEN admitted[j] + 1 ELSE admitted[j]
  BY DEF LInv, LTimes
<1>12. buckets' \in [LimitKeys -> Bucket \cup {NoKey}]
  <2>1. \A j \in LimitKeys : buckets'[j] \in Bucket \cup {NoKey}
    BY <1>8, <1>9 DEF LInv, LTypeOK
  <2>. QED  BY <2>1
<1>13. att' \in [Attempts -> Attempt]
  BY <1>10
<1>14. LTypeOK'
  BY <1>12, <1>13 DEF LInv, LTypeOK
<1>15. LTimes'
  <2>1. \A c \in Attempts : att'[c].now <= clock'
    BY <1>1, <1>10 DEF LInv, LTimes
  <2>2. \A j \in LimitKeys : buckets'[j] # NoKey => buckets'[j].last <= clock'
    BY <1>7, <1>8, <1>9 DEF LInv, LTimes
  <2>. QED  BY <1>11, <2>1, <2>2 DEF LInv, LTimes
<1>16. LSize'
  <2>1. Held' = {j \in LimitKeys : buckets'[j] # NoKey}
    BY DEF Held
  <2>2. \A j \in LimitKeys \ {k} : j \in Held' <=> j \in Held \ evicted
    BY <1>8, <2>1 DEF Held
  <2>3. k \in Held' <=> b # NoKey
    BY <1>7, <1>9, <2>1, RateLimitAssumption
  <2>4. CASE k \in Held
    <3>1. Held' = Held
      BY <1>3, <1>4, <1>6, <1>7, <2>1, <2>2, <2>3, <2>4
    <3>. QED  BY <1>3, <3>1 DEF LSize
  <2>5. CASE k \notin Held /\ b = NoKey
    <3>1. Held' = Held \ evicted
      BY <1>3, <2>1, <2>2, <2>3, <2>5
    <3>. QED  BY <1>5, <3>1 DEF LSize
  <2>6. CASE k \notin Held /\ b # NoKey
    <3>1. Held' = (Held \ evicted) \cup {k}
      BY <1>3, <2>1, <2>2, <2>3, <2>6
    <3>2. ~(Cardinality(Held \ evicted) >= MaxKeys)
      BY <1>6, <2>6
    <3>3. IsFiniteSet(Held') /\ Cardinality(Held') = Cardinality(Held \ evicted) + 1
      BY <1>5, <2>6, <3>1, FS_AddElement
    <3>. QED  BY <1>1, <1>5, <3>2, <3>3 DEF LSize
  <2>. QED  BY <2>4, <2>5, <2>6
<1>17. ASSUME NEW j \in LimitKeys \ behind' PROVE Accounted(j)'
  <2>1. j \in LimitKeys \ behind /\ Accounted(j)
    BY DEF LInv
  <2>2. Spent(j) \in Nat /\ Spent(j)' = IF j = k /\ ok THEN Spent(j) + Interval ELSE Spent(j)
    <3>1. admitted[j] \in Nat
      BY DEF LInv, LTimes
    <3>. QED  BY <1>11, <3>1, Costs DEF Spent
  <2>. DEFINE spent == Spent(j)'
  <2>3. SUFFICES
          /\ buckets'[j] # NoKey => spent + buckets'[j].tokens <= Full + (buckets'[j].last - since)
          /\ buckets'[j] = NoKey =>
               /\ spent <= clock - since
               /\ \A c \in Attempts : att'[c].now # -1 /\ j \notin att'[c].missed => spent <= att'[c].now - since
    BY DEF Accounted
  <2>4. spent \in Nat /\ spent = IF j = k /\ ok THEN Spent(j) + Interval ELSE Spent(j)
    BY <1>1, <2>2
  <2>. HIDE DEF spent
  <2>5. /\ buckets[j] # NoKey => Spent(j) + buckets[j].tokens <= Full + (buckets[j].last - since)
        /\ buckets[j] = NoKey =>
             /\ Spent(j) <= clock - since
             /\ \A c \in Attempts : att[c].now # -1 /\ j \notin att[c].missed => Spent(j) <= att[c].now - since
    BY <2>1 DEF Accounted
  <2>6. CASE j # k /\ j \notin evicted
    BY <1>8, <1>10, <2>1, <2>4, <2>5, <2>6
  <2>7. CASE j # k /\ j \in evicted
    <3>1. buckets'[j] = NoKey /\ spent = Spent(j)
      BY <1>8, <2>1, <2>4, <2>7
    <3>2. buckets[j] # NoKey /\ buckets[j].tokens + (now - buckets[j].last) >= Full
      BY <2>7 DEF Evictable, Held, Refilled
    <3>3. buckets[j].tokens \in 0 .. Full /\ buckets[j].last \in 0 .. MaxClock
      BY <1>2, <2>1, <3>2 DEF LInv, LTypeOK
    <3>4. spent <= now - since /\ now <= clock
      BY <1>1, <2>2, <2>5, <3>1, <3>2, <3>3
    <3>5. ASSUME NEW c \in Attempts, att'[c].now # -1, j \notin att'[c].missed
          PROVE  spent <= att'[c].now - since
      <4>1. att'[c].now = clock
        BY <1>10, <2>7, <3>5
      <4>. QED  BY <1>1, <2>4, <3>4, <4>1
    <3>. QED  BY <1>1, <2>4, <3>1, <3>4, <3>5
  <2>8. CASE j = k /\ k \in Held
    <3>1. buckets[j] # NoKey /\ buckets[j] \in Bucket /\ b # NoKey /\ b \in Bucket
      BY <1>6, <1>7, <2>8 DEF Held, LInv, LTypeOK
    <3>2. /\ b.tokens \in 0 .. Full /\ b.last \in 0 .. MaxClock
          /\ buckets[j].tokens \in 0 .. Full /\ buckets[j].last \in 0 .. MaxClock
      BY <1>2, <3>1
    <3>3. Spent(j) + b.tokens <= Full + (b.last - since)
      BY <1>1, <1>6, <2>2, <2>5, <2>8, <3>1, <3>2
    <3>4. /\ buckets'[j] # NoKey /\ buckets'[j].last = b.last
          /\ buckets'[j].tokens = IF ok THEN b.tokens - Interval ELSE b.tokens
      BY <1>9, <2>8, <3>1, RateLimitAssumption
    <3>. QED  BY <1>1, <2>2, <2>4, <2>8, <3>2, <3>3, <3>4
  <2>9. CASE j = k /\ k \notin Held /\ b = NoKey
    <3>1. buckets'[j] = NoKey /\ buckets[j] = NoKey /\ ~ok
      BY <1>9, <2>9 DEF Held
    <3>. QED  BY <1>10, <2>4, <2>5, <3>1
  <2>10. CASE j = k /\ k \notin Held /\ b # NoKey
    <3>1. buckets[j] = NoKey /\ b \in Bucket /\ b.tokens = Full /\ b.last = now /\ j \notin att[a].missed
      BY <1>6, <2>10 DEF Held
    <3>2. now # -1
      BY <1>1
    <3>3. Spent(j) <= now - since
      BY <2>5, <3>1, <3>2
    <3>4. /\ buckets'[j] # NoKey /\ buckets'[j].last = now
          /\ buckets'[j].tokens = IF ok THEN Full - Interval ELSE Full
      BY <1>9, <2>10, <3>1, RateLimitAssumption
    <3>. QED  BY <1>1, <2>2, <2>4, <2>10, <3>3, <3>4
  <2>. QED  BY <2>6, <2>7, <2>8, <2>9, <2>10
<1>. QED  BY <1>14, <1>15, <1>16, <1>17 DEF LInv

\* The limiter's steps keep LInv.
LEMMA LSteps == ASSUME LInv, LNext PROVE LInv'
<1>. USE DEF LInv
<1>0. MaxClock \in Nat /\ clock \in 0 .. MaxClock /\ since \in 0 .. MaxClock /\ Full \in Nat
  BY Budget DEF LTypeOK, LTimes
<1>1. ASSUME NEW a \in Attempts, AllowEach(a) PROVE LInv'
  <2>1. PICK ks \in SUBSET LimitKeys : att' = [att EXCEPT ![a].keys = ks]
    BY <1>1 DEF AllowEach
  <2>2. [att[a] EXCEPT !.keys = ks] \in Attempt /\ [att[a] EXCEPT !.keys = ks].now = -1
    BY <1>0, <1>1 DEF AllowEach, NoAttempt, Attempt
  <2>3. PICK q : q = [att[a] EXCEPT !.keys = ks]
    OBVIOUS
  <2>4. q \in Attempt /\ q.now = -1 /\ att' = [att EXCEPT ![a] = q]
    BY <2>1, <2>2, <2>3
  <2>. QED  BY <1>1, <2>4, LMoves DEF AllowEach
<1>2. ASSUME NEW a \in Attempts, ReadClock(a) PROVE LInv'
  <2>1. att[a] \in Attempt
    BY DEF LTypeOK
  <2>2. [att[a] EXCEPT !.now = clock] \in Attempt /\ [att[a] EXCEPT !.now = clock].now = clock
    BY <1>0, <2>1 DEF Attempt
  <2>3. PICK q : q = [att[a] EXCEPT !.now = clock]
    OBVIOUS
  <2>4. q \in Attempt /\ q.now = clock /\ att' = [att EXCEPT ![a] = q]
    BY <1>2, <2>2, <2>3 DEF ReadClock
  <2>. QED  BY <1>2, <2>4, LMoves DEF ReadClock
<1>3. ASSUME NEW a \in Attempts, Allow(a) PROVE LInv'
  <2>1. att[a] \in Attempt /\ att[a].now # -1 /\ att[a].now <= clock
    BY <1>3 DEF Allow, LTypeOK, LTimes
  <2>2. att[a].now \in 0 .. clock /\ att[a].keys \in SUBSET LimitKeys
    BY <1>0, <2>1 DEF Attempt
  <2>3. PICK k \in att[a].keys :
          LET now == att[a].now
              evicted == IF k \notin Held /\ Cardinality(Held) >= MaxKeys THEN Evictable(now) ELSE {}
              b == Charged(k, now, Held \ evicted)
              ok == b # NoKey /\ b.tokens >= Interval
              left == att[a].keys \ {k}
          IN
          /\ buckets' = [j \in LimitKeys |->
                           CASE j = k /\ ok -> [b EXCEPT !.tokens = @ - Interval]
                             [] j = k /\ ~ok -> b
                             [] j \in evicted -> NoKey
                             [] OTHER -> buckets[j]]
          /\ behind' = IF k \notin Held /\ b # NoKey /\ k \in att[a].missed THEN behind \cup {k} ELSE behind
          /\ admitted' = IF ok THEN [admitted EXCEPT ![k] = @ + 1] ELSE admitted
          /\ att' = [c \in Attempts |->
                       CASE c # a -> Drop(c, evicted)
                         [] c = a /\ left = {} -> NoAttempt
                         [] OTHER -> [NoAttempt EXCEPT !.keys = left]]
    BY <1>3 DEF Allow
  <2>. DEFINE now == att[a].now
              evicted == IF k \notin Held /\ Cardinality(Held) >= MaxKeys THEN Evictable(now) ELSE {}
              b == Charged(k, now, Held \ evicted)
              ok == b # NoKey /\ b.tokens >= Interval
              left == att[a].keys \ {k}
  <2>4. /\ evicted = IF k \notin Held /\ Cardinality(Held) >= MaxKeys THEN Evictable(now) ELSE {}
        /\ b = Charged(k, now, Held \ evicted)
        /\ ok <=> b # NoKey /\ b.tokens >= Interval
        /\ now \in 0 .. clock /\ att[a].now = now
        /\ k \notin evicted
    BY <2>2 DEF Evictable
  <2>5. ok \in BOOLEAN
    OBVIOUS
  <2>6. /\ buckets' = [j \in LimitKeys |->
                         CASE j = k /\ ok -> [b EXCEPT !.tokens = @ - Interval]
                           [] j = k /\ ~ok -> b
                           [] j \in evicted -> NoKey
                           [] OTHER -> buckets[j]]
        /\ behind' = IF k \notin Held /\ b # NoKey /\ k \in att[a].missed THEN behind \cup {k} ELSE behind
        /\ admitted' = IF ok THEN [admitted EXCEPT ![k] = @ + 1] ELSE admitted
        /\ att' = [c \in Attempts |->
                     CASE c # a -> Drop(c, evicted)
                       [] c = a /\ left = {} -> NoAttempt
                       [] OTHER -> [NoAttempt EXCEPT !.keys = left]]
    BY <2>3
  <2>7. k \in LimitKeys /\ left \in SUBSET LimitKeys
    BY <2>2
  <2>8. /\ buckets' = [j \in LimitKeys |-> buckets'[j]]
        /\ \A j \in LimitKeys \ {k} : buckets'[j] = IF j \in evicted THEN NoKey ELSE buckets[j]
        /\ ok => buckets'[k] = [b EXCEPT !.tokens = b.tokens - Interval]
        /\ ~ok => buckets'[k] = b
    <3>. HIDE DEF now, evicted, b, ok, left
    <3>1. ASSUME NEW j \in LimitKeys
          PROVE  buckets'[j] = CASE j = k /\ ok -> [b EXCEPT !.tokens = b.tokens - Interval]
                                 [] j = k /\ ~ok -> b
                                 [] j \in evicted -> NoKey
                                 [] OTHER -> buckets[j]
      BY <2>6
    <3>2. buckets' = [j \in LimitKeys |-> buckets'[j]]
      BY <2>6
    <3>3. \A j \in LimitKeys \ {k} : buckets'[j] = IF j \in evicted THEN NoKey ELSE buckets[j]
      BY <3>1
    <3>4. ok => buckets'[k] = [b EXCEPT !.tokens = b.tokens - Interval]
      BY <2>4, <2>7, <3>1
    <3>5. ~ok => buckets'[k] = b
      BY <2>4, <2>7, <3>1
    <3>. QED  BY <3>2, <3>3, <3>4, <3>5
  <2>9. PICK q : q = IF left = {} THEN NoAttempt ELSE [NoAttempt EXCEPT !.keys = left]
    OBVIOUS
  <2>10. q \in Attempt /\ q.now = -1
    BY <1>0, <2>7, <2>9 DEF NoAttempt, Attempt
  <2>11. att' = [c \in Attempts |-> IF c = a THEN q ELSE Drop(c, evicted)]
    <3>. HIDE DEF now, evicted, b, ok, left
    <3>. QED  BY <2>6, <2>9
  <2>12. UNCHANGED <<clock, since>>
    BY <1>3 DEF Allow
  <2>. HIDE DEF LInv, now, evicted, b, ok, left
  <2>13. k \in LimitKeys /\ ok \in BOOLEAN /\ now \in 0 .. clock
    BY <2>4, <2>5, <2>7
  <2>14. Charges(a, k, now, evicted, b, ok, q)
    BY <2>4, <2>6, <2>8, <2>10, <2>11, <2>12, <2>13 DEF Charges
  <2>15. \A x \in BOOLEAN : Charges(a, k, now, evicted, b, x, q) => LInv'
    BY <2>13, AllowKeeps
  <2>. QED  BY <2>13, <2>14, <2>15, Zenon
<1>4. ASSUME Reset PROVE LInv'
  <2>1. /\ buckets' = [k \in LimitKeys |-> NoKey]
        /\ admitted' = [k \in LimitKeys |-> 0]
        /\ since' = clock
        /\ att' = [a \in Attempts |-> Drop(a, LimitKeys)]
        /\ UNCHANGED <<clock, behind>>
    BY <1>4 DEF Reset
  <2>2. \A c \in Attempts :
          /\ att'[c] \in Attempt /\ att'[c].now = att[c].now
          /\ att[c].now # -1 /\ att[c].now # clock => LimitKeys \subseteq att'[c].missed
    <3>1. LimitKeys \in SUBSET LimitKeys
      OBVIOUS
    <3>. QED  BY <2>1, <3>1, Dropped
  <2>3. att' \in [Attempts -> Attempt]
    BY <2>1, <2>2
  <2>4. LTypeOK' /\ LTimes'
    BY <1>0, <2>1, <2>2, <2>3 DEF LTypeOK, LTimes
  <2>5. Held' = {}
    BY <2>1 DEF Held
  <2>6. LSize'
    BY <2>5, FS_EmptySet, Budget DEF LSize
  <2>7. ASSUME NEW k \in LimitKeys PROVE Accounted(k)'
    <3>1. Spent(k)' = 0
      BY <2>1, Budget DEF Spent
    <3>2. buckets'[k] = NoKey /\ clock' - since' = 0
      BY <1>0, <2>1
    <3>3. \A c \in Attempts : att'[c].now # -1 /\ k \notin att'[c].missed => 0 <= att'[c].now - since'
      BY <1>0, <2>1, <2>2
    <3>. QED  BY <3>1, <3>2, <3>3 DEF Accounted
  <2>. QED  BY <2>4, <2>6, <2>7
<1>5. ASSUME LTick PROVE LInv'
  <2>1. clock < MaxClock /\ clock' = clock + 1 /\ UNCHANGED <<buckets, att, admitted, since, behind>>
    BY <1>5 DEF LTick
  <2>2. \A c \in Attempts : att[c].now \in -1 .. MaxClock
    BY DEF LTypeOK, Attempt
  <2>3. \A k \in LimitKeys : buckets[k] # NoKey => buckets[k].last \in 0 .. MaxClock
    BY DEF LTypeOK, Bucket
  <2>4. LTypeOK' /\ LTimes'
    BY <1>0, <2>1, <2>2, <2>3 DEF LTypeOK, LTimes
  <2>5. LSize'
    BY <2>1 DEF LSize, Held
  <2>6. ASSUME NEW k \in LimitKeys \ behind' PROVE Accounted(k)'
    <3>1. Accounted(k)
      BY <2>1
    <3>2. Spent(k)' = Spent(k) /\ Spent(k) \in Nat
      BY <2>1, Costs DEF Spent, LTimes
    <3>3. buckets[k] = NoKey => Spent(k) <= clock' - since'
      BY <1>0, <2>1, <3>1, <3>2 DEF Accounted
    <3>. QED  BY <2>1, <3>1, <3>2, <3>3 DEF Accounted
  <2>. QED  BY <2>4, <2>5, <2>6
<1>. QED  BY <1>1, <1>2, <1>3, <1>4, <1>5 DEF LNext

\* LInv is about the limiter's own variables.
LEMMA LRests == ASSUME LInv, UNCHANGED lvars PROVE LInv'
<1>1. LTypeOK' /\ LTimes' /\ LSize'
  BY DEF LInv, LTypeOK, LTimes, LSize, Held, lvars
<1>2. ASSUME NEW k \in LimitKeys \ behind' PROVE Accounted(k)'
  <2>1. Accounted(k)
    BY DEF LInv, lvars
  <2>2. Spent(k)' = Spent(k)
    BY DEF Spent, lvars
  <2>. QED  BY <2>1, <2>2 DEF Accounted, lvars
<1>. QED  BY <1>1, <1>2 DEF LInv

\* What it comes to.
LEMMA LMeters == LInv => Metered
<1>. SUFFICES ASSUME LInv PROVE Metered
  OBVIOUS
<1>1. MaxClock \in Nat /\ clock \in 0 .. MaxClock /\ since \in 0 .. MaxClock /\ Full \in Nat
  BY Budget DEF LInv, LTypeOK, LTimes
<1>3. Bucket = [tokens : 0 .. Full, last : 0 .. MaxClock]
  BY DEF Bucket, Full
<1>2. ASSUME NEW k \in LimitKeys \ behind PROVE admitted[k] * Interval <= Full + (clock - since)
  <2>. SUFFICES Spent(k) <= Full + (clock - since)
    BY DEF Spent
  <2>1. /\ buckets[k] # NoKey => Spent(k) + buckets[k].tokens <= Full + (buckets[k].last - since)
        /\ buckets[k] = NoKey => Spent(k) <= clock - since
    BY DEF LInv, Accounted
  <2>2. PICK spent : spent = Spent(k)
    OBVIOUS
  <2>0. spent \in Nat
    BY <2>2, Costs DEF Spent, LInv, LTimes
  <2>3. CASE buckets[k] = NoKey
    <3>1. spent <= clock - since
      BY <2>1, <2>2, <2>3
    <3>2. spent <= Full + (clock - since)
      BY <1>1, <2>0, <3>1
    <3>. QED  BY <2>2, <3>2
  <2>4. CASE buckets[k] # NoKey
    <3>1. buckets[k] \in Bucket /\ buckets[k].last <= clock
      BY <2>4 DEF LInv, LTypeOK, LTimes
    <3>2. buckets[k].tokens \in 0 .. Full /\ buckets[k].last \in 0 .. MaxClock
      BY <1>3, <3>1
    <3>3. spent + buckets[k].tokens <= Full + (buckets[k].last - since)
      BY <2>1, <2>2, <2>4
    <3>4. spent <= Full + (clock - since)
      BY <1>1, <2>0, <3>1, <3>2, <3>3
    <3>. QED  BY <2>2, <3>4
  <2>. QED  BY <2>3, <2>4
<1>. QED  BY <1>2 DEF LInv, LSize, Metered

-----------------------------------------------------------------------------
(***************************************************************************)
(* The whole: a behaviour exercises one part, and the others rest.         *)
(***************************************************************************)

\* Inv holds of every reachable state.
THEOREM GatewayInvariant == Spec => []Inv
<1>1. Init => Inv
  BY LStarts, PatStarts, BStarts DEF Init, Inv
<1>2. Inv /\ [Next]_vars => Inv'
  <2>. SUFFICES ASSUME Inv, [Next]_vars PROVE Inv'
    OBVIOUS
  <2>1. CASE LimiterStep
    BY <2>1, LSteps, PatRests, BRests DEF LimiterStep, Inv
  <2>2. CASE PatStep
    BY <2>2, LRests, PatSteps, BRests DEF PatStep, Inv
  <2>3. CASE BrowserStep
    BY <2>3, LRests, PatRests, BSteps DEF BrowserStep, Inv
  <2>4. CASE UNCHANGED vars
    BY <2>4, LRests, PatRests, BRests DEF vars, Inv
  <2>. QED  BY <2>1, <2>2, <2>3, <2>4 DEF Next
<1>. QED  BY <1>1, <1>2, PTL DEF Spec

\* Type correctness of the three parts.
THEOREM GatewayTypeCorrect == Spec => []TypeOK
<1>1. Inv => TypeOK
  BY DEF Inv, LInv, PatInv, BInv, TypeOK
<1>. QED  BY <1>1, GatewayInvariant, PTL

\* memory.go:19-28 and 119-131. The limiter lets a key through at most Burst
\* times and once more for every Interval gone by, and holds no more than
\* MaxKeys buckets.
THEOREM GatewayMetered == Spec => []Metered
<1>1. Inv => Metered
  BY LMeters DEF Inv
<1>. QED  BY <1>1, GatewayInvariant, PTL

\* pat.go:67-68, 102-104. A token whose revocation returned does not resolve
\* again, but where a Resolve read around it.
THEOREM GatewayRevokedIsRefused == Spec => []RevokedIsRefused
<1>1. Inv => RevokedIsRefused
  BY PatRefuses DEF Inv
<1>. QED  BY <1>1, GatewayInvariant, PTL

\* middleware.go:91-114. The browser holds the cookie of the session it
\* signed in with for as long as that lives.
THEOREM GatewayKeepsSignIn == Spec => []KeepsSignIn
<1>1. Inv => KeepsSignIn
  BY DEF Inv, BInv
<1>. QED  BY <1>1, GatewayInvariant, PTL

\* csrf.go:115-158. This site's forms pass CSRFProtect and another site's do
\* not.
THEOREM GatewayFormsPass == Spec => []FormsPass
<1>1. Inv => FormsPass
  BY DEF Inv, BInv
<1>. QED  BY <1>1, GatewayInvariant, PTL
=============================================================================
