------------------------------ MODULE CodeProofs ------------------------------
(***************************************************************************)
(* Proofs about the two flows that sign in with a code sent elsewhere, the *)
(* email sign-in (EmailLogin) and the device grant (Device), which share   *)
(* nothing else.                                                           *)
(*                                                                         *)
(* EmailLogin: a link or a code signs in once, one burned for its wrong    *)
(* guesses signs nobody in, and no older code does after a newer one has,  *)
(* for any number of tokens and requests. Device: a denial made in peace   *)
(* stands for any number of polls and decisions, and a CLI that polls one  *)
(* at a time is given its user once.                                       *)
(***************************************************************************)
EXTENDS EmailLogin, Device, FiniteSetTheorems, TLAPS

(***************************************************************************)
(* What a request in state q has and what it relies on, of the rows tab,   *)
(* the first n of which are issued, the sign-ins red and the burned codes  *)
(* brn.                                                                    *)
(***************************************************************************)
\* A row that is gone or marked can not be marked again.
Dead(tab, t) == tab[t] = Gone \/ tab[t].used

Sound(q, tab, n, red, brn) ==
    /\ q.pc # "idle" => q.tok \in Tokens
    /\ q.tok <= n
    /\ q.pc = "create" => tab[q.tok] = Gone /\ red[q.tok] = 0 /\ q.tok \notin brn
    /\ q.pc \in {"wrong", "burn"} => tab[q.tok] = Gone \/ tab[q.tok].kind = "code"
    /\ q.pc = "user" => red[q.tok] = 0 /\ Dead(tab, q.tok)
    /\ \A s \in q.seen : red[s] > 0

\* A row about to be created is known to one request, and a mark won without
\* a TxRunner is one request's.
Apart(q, p) ==
    /\ q.pc = "create" => p.tok # q.tok
    /\ q.pc = "user" /\ p.pc = "user" => p.tok # q.tok

\* Only without a TxRunner is a mark won before the account is created.
NoUserInTx == \A r \in Requests : req[r].pc = "user" => ~conf.hasTx

\* What is not issued is nowhere, what has signed in is dead, and what is
\* burned is gone.
TokenIsSound(t) ==
    /\ t > issued => tok[t] = Gone /\ redeemed[t] = 0 /\ t \notin burned
    /\ redeemed[t] > 0 => Dead(tok, t)
    /\ t \in burned => tok[t] = Gone

\* The types, but for the order of the tokens, which is left to the end.
Typed ==
    /\ conf \in Conf
    /\ tok \in [Tokens -> Row \cup {Gone}]
    /\ issued \in 0 .. MaxTokens
    /\ account \in BOOLEAN
    /\ req \in [Requests -> Request]
    /\ redeemed \in [Tokens -> 0 .. 2]
    /\ burned \subseteq Tokens

Inv ==
    /\ Typed
    /\ \A r \in Requests : Sound(req[r], tok, issued, redeemed, burned)
    /\ \A r, p \in Requests : r # p => Apart(req[r], req[p])
    /\ NoUserInTx
    /\ \A t \in Tokens : TokenIsSound(t)
    /\ OneSignInEach

-----------------------------------------------------------------------------
(***************************************************************************)
(* Requests.                                                               *)
(***************************************************************************)

\* A request that is not under way.
LEMMA IdleIs ==
    /\ Idle \in Request /\ Idle.pc = "idle" /\ Idle.tok = 0 /\ Idle.seen = {} /\ Idle.kind = "link"
    /\ \A tab, red, brn : \A n \in Nat : Sound(Idle, tab, n, red, brn)
<1>1. MaxTokens \in Nat
  BY EmailLoginAssumption
<1>2. Idle \in Request /\ Idle.pc = "idle" /\ Idle.tok = 0 /\ Idle.seen = {} /\ Idle.kind = "link"
  BY <1>1 DEF Idle, Request, PCs, Kinds, Tokens
<1>. QED  BY <1>2 DEF Sound

\* What the types come to.
LEMMA Types ==
    ASSUME Inv
    PROVE  /\ tok \in [Tokens -> Row \cup {Gone}] /\ issued \in Nat /\ issued \in 0 .. MaxTokens /\ conf \in Conf
           /\ req \in [Requests -> Request] /\ redeemed \in [Tokens -> 0 .. 2] /\ burned \subseteq Tokens
           /\ account \in BOOLEAN /\ Tokens \subseteq Nat \ {0} /\ MaxTokens \in Nat
BY EmailLoginAssumption DEF Inv, Typed, Tokens

\* A row ages: it goes, or stays of its kind and as used as it was.
Ages(t) ==
    \/ tok'[t] = Gone
    \/ /\ tok[t] # Gone /\ tok'[t] # Gone /\ tok'[t].kind = tok[t].kind
       /\ tok[t].used => tok'[t].used

\* A request that does not move stays well, when rows age, but for one that
\* it does not know and that has not signed in.
LEMMA OthersStay ==
    ASSUME Inv, NEW q \in Request, Sound(q, tok, issued, redeemed, burned),
           issued' \in Nat, issued <= issued', redeemed' \in [Tokens -> 0 .. 2],
           \A s \in Tokens : Ages(s) \/ (redeemed[s] = 0 /\ q.tok # s),
           \A s \in Tokens : redeemed[s] > 0 => redeemed'[s] > 0,
           q.pc \in {"create", "user"} => redeemed'[q.tok] = redeemed[q.tok],
           q.pc = "create" => q.tok \notin burned'
    PROVE  Sound(q, tok', issued', redeemed', burned')
<1>1. q.tok <= issued'
  BY Types DEF Sound, Request
<1>2. q.pc # "idle" => q.tok \in Tokens /\ Ages(q.tok)
  <2>. SUFFICES ASSUME q.pc # "idle" PROVE q.tok \in Tokens /\ Ages(q.tok)
    OBVIOUS
  <2>. QED  BY DEF Sound
<1>3. q.pc = "create" => tok'[q.tok] = Gone /\ redeemed'[q.tok] = 0 /\ q.tok \notin burned'
  BY <1>2 DEF Sound, Ages
<1>4. q.pc \in {"wrong", "burn"} => tok'[q.tok] = Gone \/ tok'[q.tok].kind = "code"
  BY <1>2 DEF Sound, Ages
<1>5. q.pc = "user" => redeemed'[q.tok] = 0 /\ Dead(tok', q.tok)
  BY <1>2 DEF Sound, Ages, Dead
<1>6. q.seen \subseteq Tokens
  BY DEF Request
<1>7. \A s \in q.seen : redeemed'[s] > 0 /\ Ages(s)
  BY <1>6, Types DEF Sound
<1>. QED  BY <1>1, <1>2, <1>3, <1>4, <1>5, <1>7 DEF Sound

\* Request r has turned into q.
LEMMA Moves ==
    ASSUME Inv, NEW r \in Requests, NEW q \in Request, req' = [req EXCEPT ![r] = q], UNCHANGED conf,
           Sound(q, tok', issued', redeemed', burned'),
           q.pc = "user" => ~conf.hasTx,
           \A p \in Requests \ {r} :
             /\ Sound(req[p], tok', issued', redeemed', burned')
             /\ Apart(q, req[p]) /\ Apart(req[p], q)
    PROVE  /\ req' \in [Requests -> Request]
           /\ \A p \in Requests : Sound(req'[p], tok', issued', redeemed', burned')
           /\ \A p, o \in Requests : p # o => Apart(req'[p], req'[o])
           /\ NoUserInTx'
<1>1. \A p \in Requests : req'[p] = IF p = r THEN q ELSE req[p]
  BY Types
<1>2. req' \in [Requests -> Request]
  BY Types
<1>3. \A p \in Requests : Sound(req'[p], tok', issued', redeemed', burned')
  BY <1>1
<1>4. ASSUME NEW p \in Requests, NEW o \in Requests, p # o PROVE Apart(req'[p], req'[o])
  BY <1>1, <1>4 DEF Inv
<1>5. NoUserInTx'
  BY <1>1 DEF Inv, NoUserInTx
<1>. QED  BY <1>2, <1>3, <1>4, <1>5

\* Inv is made of what is known of requests and tokens.
LEMMA Together ==
    ASSUME conf' \in Conf, tok' \in [Tokens -> Row \cup {Gone}], issued' \in 0 .. MaxTokens, account' \in BOOLEAN,
           req' \in [Requests -> Request], redeemed' \in [Tokens -> 0 .. 2], burned' \subseteq Tokens,
           \A p \in Requests : Sound(req'[p], tok', issued', redeemed', burned'),
           \A p, o \in Requests : p # o => Apart(req'[p], req'[o]),
           NoUserInTx', \A t \in Tokens : TokenIsSound(t)', OneSignInEach'
    PROVE  Inv'
<1>1. Typed'
  BY DEF Typed
<1>. QED  BY <1>1 DEF Inv, Sound, Apart

\* A request moves while the tables stay.
LEMMA Reads ==
    ASSUME Inv, NEW r \in Requests, NEW q \in Request, req' = [req EXCEPT ![r] = q],
           Sound(q, tok, issued, redeemed, burned), q.pc \notin {"create", "user"},
           \A p \in Requests \ {r} : req[p].pc = "create" => q.tok # req[p].tok,
           UNCHANGED <<conf, tok, issued, redeemed, burned>>, account' \in BOOLEAN
    PROVE  Inv'
<1>1. Sound(q, tok', issued', redeemed', burned')
  OBVIOUS
<1>2. ASSUME NEW p \in Requests \ {r}
      PROVE  /\ Sound(req[p], tok', issued', redeemed', burned')
             /\ Apart(q, req[p]) /\ Apart(req[p], q)
  BY <1>2 DEF Inv, Apart
<1>3. /\ req' \in [Requests -> Request]
      /\ \A p \in Requests : Sound(req'[p], tok', issued', redeemed', burned')
      /\ \A p, o \in Requests : p # o => Apart(req'[p], req'[o])
      /\ NoUserInTx'
  BY <1>1, <1>2, Moves
<1>4. (\A t \in Tokens : TokenIsSound(t)') /\ OneSignInEach'
  BY DEF Inv, TokenIsSound, OneSignInEach, SingleUse, SpentSignedIn
<1>5. /\ conf' \in Conf /\ tok' \in [Tokens -> Row \cup {Gone}] /\ issued' \in 0 .. MaxTokens
      /\ redeemed' \in [Tokens -> 0 .. 2] /\ burned' \subseteq Tokens
  BY Types
<1>. QED  BY <1>3, <1>4, <1>5, Together

\* A request returns while the tables stay.
LEMMA Returns ==
    ASSUME Inv, NEW r \in Requests, Return(r),
           UNCHANGED <<conf, tok, issued, redeemed, burned>>, account' \in BOOLEAN
    PROVE  Inv'
<1>1. req' = [req EXCEPT ![r] = Idle]
  BY DEF Return
<1>2. Sound(Idle, tok, issued, redeemed, burned) /\ Idle.pc = "idle" /\ Idle \in Request /\ Idle.tok = 0
  BY IdleIs, Types
<1>3. \A p \in Requests \ {r} : req[p].pc = "create" => Idle.tok # req[p].tok
  BY <1>2, Types DEF Inv, Sound
<1>. QED  BY <1>1, <1>2, <1>3, Reads

\* A request goes on to its next step while the tables stay.
LEMMA Goes ==
    ASSUME Inv, NEW r \in Requests, req[r].pc \in {"resolve", "wrong"}, NEW pc \in {"mark", "signup"}, Goto(r, pc),
           UNCHANGED <<conf, tok, issued, redeemed, burned>>, account' \in BOOLEAN
    PROVE  Inv'
<1>1. PICK q : q = [req[r] EXCEPT !.pc = pc]
  OBVIOUS
<1>2. req' = [req EXCEPT ![r] = q]
  BY <1>1, Types DEF Goto
<1>3. req[r] \in Request /\ Sound(req[r], tok, issued, redeemed, burned)
  BY Types DEF Inv
<1>4. q \in Request /\ q.pc = pc /\ q.tok = req[r].tok /\ q.kind = req[r].kind /\ q.seen = req[r].seen
  BY <1>1, <1>3 DEF Request, PCs
<1>5. Sound(q, tok, issued, redeemed, burned)
  BY <1>3, <1>4 DEF Sound
<1>6. \A p \in Requests \ {r} : req[p].pc = "create" => q.tok # req[p].tok
  BY <1>4 DEF Inv, Apart
<1>. QED  BY <1>2, <1>4, <1>5, <1>6, Reads

-----------------------------------------------------------------------------
(***************************************************************************)
(* The steps that write.                                                   *)
(***************************************************************************)

\* Rows that age, with no other change.
LEMMA RowsAge ==
    ASSUME Inv, \A t \in Tokens : Ages(t) /\ (tok'[t] # Gone /\ conf.hasTx /\ tok'[t].used => tok[t].used),
           UNCHANGED <<conf, redeemed>>, issued' \in Nat, issued <= issued', burned \subseteq burned',
           \A t \in burned' \ burned : tok'[t] = Gone /\ t <= issued
    PROVE  (\A t \in Tokens : TokenIsSound(t)') /\ OneSignInEach'
<1>1. ASSUME NEW t \in Tokens PROVE TokenIsSound(t)'
  <2>1. TokenIsSound(t) /\ Ages(t) /\ t \in Nat /\ redeemed' = redeemed /\ issued \in Nat
    BY Types DEF Inv
  <2>2. t > issued' => tok'[t] = Gone /\ redeemed'[t] = 0 /\ t \notin burned'
    BY <2>1 DEF TokenIsSound, Ages
  <2>3. redeemed'[t] > 0 => Dead(tok', t)
    BY <2>1 DEF TokenIsSound, Ages, Dead
  <2>4. t \in burned' => tok'[t] = Gone
    BY <2>1 DEF TokenIsSound, Ages
  <2>. QED  BY <2>2, <2>3, <2>4 DEF TokenIsSound
<1>2. OneSignInEach'
  BY DEF Inv, OneSignInEach, SingleUse, SpentSignedIn, Ages
<1>. QED  BY <1>1, <1>2

\* The rows of a kind are deleted and the next token is numbered.
LEMMA IssueKeeps == ASSUME Inv, NEW r \in Requests, NEW k \in Kinds, issue(r, k) PROVE Inv'
<1>1. PICK n : n = issued + 1
  OBVIOUS
<1>2. n \in Tokens /\ n \in Nat /\ n > issued
  BY <1>1, Types DEF issue, Tokens
<1>3. PICK q : q = [Idle EXCEPT !.pc = "create", !.kind = k, !.tok = n]
  OBVIOUS
<1>4. q \in Request /\ q.pc = "create" /\ q.tok = n /\ q.seen = {}
  <2>1. n \in 0 .. MaxTokens
    BY <1>2 DEF Tokens
  <2>2. Idle \in Request /\ Idle.seen = {}
    BY IdleIs
  <2>. QED  BY <1>3, <2>1, <2>2 DEF Request, PCs
<1>5. /\ req' = [req EXCEPT ![r] = q] /\ issued' = n
      /\ UNCHANGED <<conf, account, redeemed, burned>>
      /\ tok' = [t \in Tokens |-> IF t \in OfKind(k) THEN Gone ELSE tok[t]]
  BY <1>1, <1>3 DEF issue, DeleteEmailLoginTokens
<1>6. \A t \in Tokens : Ages(t) /\ (tok'[t] # Gone /\ conf.hasTx /\ tok'[t].used => tok[t].used)
  BY <1>5 DEF Ages
<1>7. (\A t \in Tokens : TokenIsSound(t)') /\ OneSignInEach'
  BY <1>1, <1>2, <1>5, <1>6, Types, RowsAge
<1>8. tok[n] = Gone /\ redeemed[n] = 0 /\ n \notin burned
  BY <1>2, Types DEF Inv, TokenIsSound
<1>9. Sound(q, tok', issued', redeemed', burned')
  BY <1>2, <1>4, <1>5, <1>8 DEF Sound
<1>10. ASSUME NEW p \in Requests \ {r}
       PROVE  /\ Sound(req[p], tok', issued', redeemed', burned')
              /\ Apart(q, req[p]) /\ Apart(req[p], q)
  <2>1. req[p] \in Request /\ Sound(req[p], tok, issued, redeemed, burned)
    BY Types DEF Inv
  <2>2. Sound(req[p], tok', issued', redeemed', burned')
    <3>1. req[p].pc = "create" => req[p].tok \notin burned'
      BY <1>5, <2>1 DEF Sound
    <3>. QED  BY <1>1, <1>2, <1>5, <1>6, <2>1, <3>1, Types, OthersStay
  <2>3. req[p].tok <= issued /\ req[p].tok \in Nat
    BY <2>1, Types DEF Sound, Request
  <2>. QED  BY <1>2, <1>4, <2>2, <2>3, Types DEF Apart
<1>11. /\ req' \in [Requests -> Request]
       /\ \A p \in Requests : Sound(req'[p], tok', issued', redeemed', burned')
       /\ \A p, o \in Requests : p # o => Apart(req'[p], req'[o])
       /\ NoUserInTx'
  BY <1>4, <1>5, <1>9, <1>10, Moves
<1>12. /\ conf' \in Conf /\ tok' \in [Tokens -> Row \cup {Gone}] /\ issued' \in 0 .. MaxTokens /\ account' \in BOOLEAN
       /\ redeemed' \in [Tokens -> 0 .. 2] /\ burned' \subseteq Tokens
  BY <1>2, <1>5, Types DEF Tokens
<1>. QED  BY <1>7, <1>11, <1>12, Together

\* The row is created.
LEMMA CreateKeeps == ASSUME Inv, NEW r \in Requests, CreateEmailLoginToken(r) PROVE Inv'
<1>1. req[r].pc = "create" /\ req[r] \in Request /\ Sound(req[r], tok, issued, redeemed, burned)
  BY Types DEF Inv, CreateEmailLoginToken
<1>2. PICK t \in Tokens : t = req[r].tok
  BY <1>1 DEF Sound
<1>3. tok[t] = Gone /\ redeemed[t] = 0 /\ t \notin burned /\ t <= issued
  BY <1>1, <1>2 DEF Sound
<1>4. PICK put : put = [kind |-> req[r].kind, attempts |-> 0, used |-> FALSE, expired |-> FALSE]
  OBVIOUS
<1>5. put \in Row /\ put # Gone /\ ~put.used
  <2>1. req[r].kind \in Kinds /\ 0 \in 0 .. MaxCodeAttempts
    BY <1>1, EmailLoginAssumption DEF Request
  <2>2. put \in Row /\ ~put.used
    BY <1>4, <2>1 DEF Row
  <2>. QED  BY <2>2, GoneAssumption
<1>6. /\ tok' = [tok EXCEPT ![t] = put] /\ req' = [req EXCEPT ![r] = Idle]
      /\ UNCHANGED <<conf, issued, account, redeemed, burned>>
  BY <1>2, <1>4 DEF CreateEmailLoginToken, Return
<1>7. \A s \in Tokens : tok'[s] = IF s = t THEN put ELSE tok[s]
  BY <1>6, Types
<1>8. ASSUME NEW p \in Requests \ {r}
      PROVE  /\ Sound(req[p], tok', issued', redeemed', burned')
             /\ Apart(Idle, req[p]) /\ Apart(req[p], Idle)
  <2>1. req[p] \in Request /\ Sound(req[p], tok, issued, redeemed, burned) /\ req[p].tok # t
    BY <1>1, <1>2, Types DEF Inv, Apart
  <2>2. \A s \in Tokens : Ages(s) \/ (redeemed[s] = 0 /\ req[p].tok # s)
    BY <1>3, <1>7, <2>1 DEF Ages
  <2>3. req[p].pc = "create" => req[p].tok \notin burned'
    BY <1>6, <2>1 DEF Sound
  <2>4. issued' \in Nat /\ issued <= issued' /\ redeemed' \in [Tokens -> 0 .. 2] /\ redeemed' = redeemed
    BY <1>6, Types
  <2>5. Sound(req[p], tok', issued', redeemed', burned')
    BY <2>1, <2>2, <2>3, <2>4, OthersStay
  <2>. QED  BY <2>1, <2>5, IdleIs, Types DEF Apart, Sound
<1>9. /\ req' \in [Requests -> Request]
      /\ \A p \in Requests : Sound(req'[p], tok', issued', redeemed', burned')
      /\ \A p, o \in Requests : p # o => Apart(req'[p], req'[o])
      /\ NoUserInTx'
  BY <1>6, <1>8, IdleIs, Types, Moves
<1>10. \A s \in Tokens : TokenIsSound(s)'
  BY <1>3, <1>6, <1>7, Types DEF Inv, TokenIsSound, Dead
<1>11. OneSignInEach'
  BY <1>5, <1>6, <1>7 DEF Inv, OneSignInEach, SingleUse, SpentSignedIn
<1>12. tok' \in [Tokens -> Row \cup {Gone}]
  BY <1>5, <1>6, Types
<1>. QED  BY <1>6, <1>9, <1>10, <1>11, <1>12, Types, Together

\* A row is written that ages, by a request that goes on to q.
LEMMA RowWritten ==
    ASSUME Inv, NEW r \in Requests, NEW t \in Tokens, t = req[r].tok, tok[t] # Gone,
           NEW put \in Row, put.kind = tok[t].kind, put.used = tok[t].used, tok' = [tok EXCEPT ![t] = put],
           UNCHANGED <<conf, issued, account, redeemed, burned>>,
           NEW q \in Request, req' = [req EXCEPT ![r] = q], q \in {Idle, req[r]} \/ (q.pc = "burn" /\ q.tok = t),
           Sound(q, tok, issued, redeemed, burned), req[r].pc \notin {"create", "user"}
    PROVE  Inv'
<1>1. put # Gone
  BY GoneAssumption
<1>2. \A s \in Tokens : tok'[s] = IF s = t THEN put ELSE tok[s]
  BY Types
<1>3. \A s \in Tokens : Ages(s) /\ (tok'[s] # Gone /\ conf.hasTx /\ tok'[s].used => tok[s].used)
  BY <1>1, <1>2 DEF Ages
<1>4. (\A s \in Tokens : TokenIsSound(s)') /\ OneSignInEach'
  BY <1>3, Types, RowsAge
<1>5. q.pc \notin {"create", "user"} /\ q.tok \in {0, t}
  BY IdleIs
<1>6. Sound(q, tok', issued', redeemed', burned')
  <2>1. issued' \in Nat /\ issued <= issued' /\ redeemed' \in [Tokens -> 0 .. 2] /\ redeemed' = redeemed
    BY Types
  <2>. QED  BY <1>3, <1>5, <2>1, OthersStay
<1>7. ASSUME NEW p \in Requests \ {r}
      PROVE  /\ Sound(req[p], tok', issued', redeemed', burned')
             /\ Apart(q, req[p]) /\ Apart(req[p], q)
  <2>1. req[p] \in Request /\ Sound(req[p], tok, issued, redeemed, burned)
    BY Types DEF Inv
  <2>2. req[p].pc = "create" => req[p].tok \notin burned' /\ req[p].tok \notin {0, t}
    BY <2>1, Types DEF Inv, Sound, Apart
  <2>3. issued' \in Nat /\ issued <= issued' /\ redeemed' \in [Tokens -> 0 .. 2] /\ redeemed' = redeemed
    BY Types
  <2>4. Sound(req[p], tok', issued', redeemed', burned')
    BY <1>3, <2>1, <2>2, <2>3, OthersStay
  <2>. QED  BY <1>5, <2>2, <2>4 DEF Apart
<1>8. /\ req' \in [Requests -> Request]
      /\ \A p \in Requests : Sound(req'[p], tok', issued', redeemed', burned')
      /\ \A p, o \in Requests : p # o => Apart(req'[p], req'[o])
      /\ NoUserInTx'
  BY <1>5, <1>6, <1>7, Moves
<1>9. tok' \in [Tokens -> Row \cup {Gone}]
  BY Types
<1>. QED  BY <1>4, <1>8, <1>9, Types, Together

\* A wrong code is counted.
LEMMA IncrementKeeps == ASSUME Inv, NEW r \in Requests, IncrementEmailLoginTokenAttempts(r) PROVE Inv'
<1>1. req[r].pc = "wrong" /\ req[r] \in Request /\ Sound(req[r], tok, issued, redeemed, burned)
      /\ UNCHANGED <<conf, issued, account, redeemed, burned>>
  BY Types DEF Inv, IncrementEmailLoginTokenAttempts
<1>2. PICK t \in Tokens : t = req[r].tok
  BY <1>1 DEF Sound
<1>3. CASE tok[t] = Gone
  BY <1>1, <1>2, <1>3, Types, Returns DEF IncrementEmailLoginTokenAttempts
<1>4. CASE tok[t] # Gone
  <2>1. PICK n : n = Charged(tok[t].attempts)
    OBVIOUS
  <2>2. tok[t] \in Row
    BY <1>4, Types
  <2>3. n \in 0 .. MaxCodeAttempts
    BY <2>1, <2>2, EmailLoginAssumption DEF Row, Charged
  <2>4. PICK put : put = [tok[t] EXCEPT !.attempts = n]
    OBVIOUS
  <2>5. put \in Row /\ put.kind = tok[t].kind /\ put.used = tok[t].used
    BY <2>2, <2>3, <2>4 DEF Row
  <2>6. tok' = [tok EXCEPT ![t] = put]
    BY <1>2, <1>4, <2>1, <2>4, Types DEF IncrementEmailLoginTokenAttempts
  <2>7. CASE Return(r)
    <3>1. Idle \in Request /\ Sound(Idle, tok, issued, redeemed, burned)
      BY IdleIs, Types
    <3>. QED  BY <1>1, <1>2, <1>4, <2>5, <2>6, <2>7, <3>1, RowWritten DEF Return
  <2>8. CASE Goto(r, "burn")
    <3>1. PICK q : q = [req[r] EXCEPT !.pc = "burn"]
      OBVIOUS
    <3>2. q \in Request /\ q.pc = "burn" /\ q.tok = t /\ q.kind = req[r].kind /\ q.seen = req[r].seen
      BY <1>1, <1>2, <3>1 DEF Request, PCs
    <3>3. Sound(q, tok, issued, redeemed, burned)
      BY <1>1, <1>2, <3>2 DEF Sound
    <3>4. req' = [req EXCEPT ![r] = q]
      BY <2>8, <3>1, Types DEF Goto
    <3>. QED  BY <1>1, <1>2, <1>4, <2>5, <2>6, <3>2, <3>3, <3>4, RowWritten
  <2>. QED  BY <1>2, <1>4, <2>7, <2>8 DEF IncrementEmailLoginTokenAttempts
<1>. QED  BY <1>3, <1>4

\* The codes are burned.
LEMMA BurnKeeps == ASSUME Inv, NEW r \in Requests, Burn(r) PROVE Inv'
<1>1. req[r].pc = "burn" /\ req[r] \in Request /\ Sound(req[r], tok, issued, redeemed, burned)
  BY Types DEF Inv, Burn
<1>2. PICK t \in Tokens : t = req[r].tok
  BY <1>1 DEF Sound
<1>3. t <= issued /\ (tok[t] = Gone \/ tok[t].kind = "code")
  BY <1>1, <1>2 DEF Sound
<1>4. /\ tok' = [s \in Tokens |-> IF s \in OfKind("code") THEN Gone ELSE tok[s]]
      /\ burned' = burned \cup {t} /\ req' = [req EXCEPT ![r] = Idle]
      /\ UNCHANGED <<conf, issued, account, redeemed>>
  BY <1>2 DEF Burn, DeleteEmailLoginTokens, Return
<1>5. \A s \in Tokens : Ages(s) /\ (tok'[s] # Gone /\ conf.hasTx /\ tok'[s].used => tok[s].used)
  BY <1>4 DEF Ages
<1>6. tok'[t] = Gone
  BY <1>3, <1>4 DEF OfKind
<1>7. (\A s \in Tokens : TokenIsSound(s)') /\ OneSignInEach'
  BY <1>3, <1>4, <1>5, <1>6, Types, RowsAge
<1>8. ASSUME NEW p \in Requests \ {r}
      PROVE  /\ Sound(req[p], tok', issued', redeemed', burned')
             /\ Apart(Idle, req[p]) /\ Apart(req[p], Idle)
  <2>1. req[p] \in Request /\ Sound(req[p], tok, issued, redeemed, burned)
    BY Types DEF Inv
  <2>2. req[p].pc = "create" => req[p].tok \notin burned' /\ req[p].tok # 0
    BY <1>2, <1>4, <2>1, Types DEF Inv, Sound, Apart
  <2>3. issued' \in Nat /\ issued <= issued' /\ redeemed' \in [Tokens -> 0 .. 2] /\ redeemed' = redeemed
    BY <1>4, Types
  <2>4. Sound(req[p], tok', issued', redeemed', burned')
    BY <1>5, <2>1, <2>2, <2>3, OthersStay
  <2>. QED  BY <2>2, <2>4, IdleIs DEF Apart
<1>9. /\ req' \in [Requests -> Request]
      /\ \A p \in Requests : Sound(req'[p], tok', issued', redeemed', burned')
      /\ \A p, o \in Requests : p # o => Apart(req'[p], req'[o])
      /\ NoUserInTx'
  BY <1>4, <1>8, IdleIs, Types, Moves
<1>10. tok' \in [Tokens -> Row \cup {Gone}] /\ burned' \subseteq Tokens
  BY <1>4, Types
<1>. QED  BY <1>4, <1>7, <1>9, <1>10, Types, Together

\* A mark is won: the row was there, unused, and had signed nobody in.
LEMMA MarkIsWon ==
    ASSUME Inv, NEW t \in Tokens, MarkEmailLoginTokenUsed(t)
    PROVE  /\ tok[t] # Gone /\ ~tok[t].used /\ redeemed[t] = 0 /\ t \notin burned
           /\ tok' \in [Tokens -> Row \cup {Gone}]
           /\ \A s \in Tokens : Ages(s) /\ (s # t => tok'[s] = tok[s])
           /\ tok'[t] # Gone /\ tok'[t].used
<1>1. tok[t] # Gone /\ ~tok[t].used
  BY DEF MarkEmailLoginTokenUsed, Unused
<1>2. redeemed[t] = 0 /\ t \notin burned
  BY <1>1, Types DEF Inv, TokenIsSound, Dead
<1>3. tok[t] \in Row
  BY <1>1, Types
<1>4. PICK put : put = [tok[t] EXCEPT !.used = TRUE]
  OBVIOUS
<1>5. put \in Row /\ put.used /\ put.kind = tok[t].kind /\ put # Gone
  BY <1>3, <1>4, GoneAssumption DEF Row
<1>6. tok' = [tok EXCEPT ![t] = put]
  BY <1>4, Types DEF MarkEmailLoginTokenUsed
<1>7. \A s \in Tokens : tok'[s] = IF s = t THEN put ELSE tok[s]
  BY <1>6, Types
<1>8. tok' \in [Tokens -> Row \cup {Gone}]
  BY <1>5, <1>6, Types
<1>. QED  BY <1>1, <1>2, <1>5, <1>7, <1>8 DEF Ages

\* A sign-in is counted.
LEMMA SignedInIs ==
    ASSUME Inv, NEW t \in Tokens, redeemed[t] = 0, SignedIn(t)
    PROVE  redeemed' \in [Tokens -> 0 .. 2] /\ \A s \in Tokens : redeemed'[s] = IF s = t THEN 1 ELSE redeemed[s]
BY Types DEF SignedIn

\* A sign-in, whose token is dead after it and was for no other request to
\* create or to sign up with.
LEMMA SignsInKeeps ==
    ASSUME Inv, NEW r \in Requests, Return(r), NEW t \in Tokens, redeemed[t] = 0, SignedIn(t), Dead(tok', t),
           t <= issued, t \notin burned \/ tok'[t] = Gone,
           \A p \in Requests \ {r} : req[p].pc \in {"create", "user"} => req[p].tok # t,
           tok' \in [Tokens -> Row \cup {Gone}], \A s \in Tokens : Ages(s) /\ (s # t => tok'[s] = tok[s]),
           UNCHANGED <<conf, issued, burned>>, account' \in BOOLEAN
    PROVE  Inv'
<1>1. redeemed' \in [Tokens -> 0 .. 2] /\ \A s \in Tokens : redeemed'[s] = IF s = t THEN 1 ELSE redeemed[s]
  BY SignedInIs
<1>2. req' = [req EXCEPT ![r] = Idle]
  BY DEF Return
<1>3. ASSUME NEW p \in Requests \ {r}
      PROVE  /\ Sound(req[p], tok', issued', redeemed', burned')
             /\ Apart(Idle, req[p]) /\ Apart(req[p], Idle)
  <2>1. req[p] \in Request /\ Sound(req[p], tok, issued, redeemed, burned)
    BY Types DEF Inv
  <2>2. req[p].pc = "create" => req[p].tok \notin burned' /\ req[p].tok # 0
    BY <2>1, Types DEF Sound
  <2>3. req[p].pc \in {"create", "user"} => redeemed'[req[p].tok] = redeemed[req[p].tok]
    BY <1>1, <2>1 DEF Sound
  <2>4. issued' \in Nat /\ issued <= issued' /\ \A s \in Tokens : redeemed[s] > 0 => redeemed'[s] > 0
    BY <1>1, Types
  <2>5. Sound(req[p], tok', issued', redeemed', burned')
    BY <1>1, <2>1, <2>2, <2>3, <2>4, OthersStay
  <2>. QED  BY <2>2, <2>5, IdleIs DEF Apart
<1>4. /\ req' \in [Requests -> Request]
      /\ \A p \in Requests : Sound(req'[p], tok', issued', redeemed', burned')
      /\ \A p, o \in Requests : p # o => Apart(req'[p], req'[o])
      /\ NoUserInTx'
  BY <1>2, <1>3, IdleIs, Types, Moves
<1>5. ASSUME NEW s \in Tokens PROVE TokenIsSound(s)'
  <2>1. TokenIsSound(s) /\ Ages(s) /\ s \in Nat /\ t \in Nat /\ issued \in Nat
    BY Types DEF Inv
  <2>2. CASE s = t
    BY <1>1, <2>1, <2>2, Types DEF TokenIsSound, Ages
  <2>3. CASE s # t
    BY <1>1, <2>1, <2>3, Types DEF TokenIsSound, Ages, Dead
  <2>. QED  BY <2>2, <2>3
<1>6. OneSignInEach'
  BY <1>1 DEF Inv, OneSignInEach, SingleUse, SpentSignedIn
<1>. QED  BY <1>1, <1>4, <1>5, <1>6, Types, Together

\* The mark that signs an existing user in, or a new one in the same
\* transaction.
LEMMA MarkSignsIn ==
    ASSUME Inv, NEW r \in Requests, Return(r), req[r].pc \in {"mark", "signup"},
           MarkEmailLoginTokenUsed(req[r].tok), SignedIn(req[r].tok),
           UNCHANGED <<conf, issued, burned>>, account' \in BOOLEAN
    PROVE  Inv'
<1>1. Sound(req[r], tok, issued, redeemed, burned)
  BY DEF Inv
<1>2. PICK t \in Tokens : t = req[r].tok
  BY <1>1 DEF Sound
<1>3. MarkEmailLoginTokenUsed(t) /\ SignedIn(t)
  BY <1>2
<1>4. /\ tok[t] # Gone /\ ~tok[t].used /\ redeemed[t] = 0 /\ t \notin burned
      /\ tok' \in [Tokens -> Row \cup {Gone}]
      /\ \A s \in Tokens : Ages(s) /\ (s # t => tok'[s] = tok[s])
      /\ tok'[t] # Gone /\ tok'[t].used
  BY <1>3, MarkIsWon
<1>5. \A p \in Requests \ {r} : req[p].pc \in {"create", "user"} => req[p].tok # t
  BY <1>4 DEF Inv, Sound, Dead
<1>6. Dead(tok', t) /\ t <= issued
  BY <1>1, <1>2, <1>4 DEF Dead, Sound
<1>. QED  BY <1>3, <1>4, <1>5, <1>6, SignsInKeeps

\* The mark of a sign-up without a TxRunner.
LEMMA SignUpMarkKeeps == ASSUME Inv, NEW r \in Requests, SignUpMark(r) PROVE Inv'
<1>1. /\ req[r].pc = "signup" /\ ~conf.hasTx /\ UNCHANGED <<conf, issued, account, redeemed, burned>>
      /\ req[r] \in Request /\ Sound(req[r], tok, issued, redeemed, burned)
  BY Types DEF Inv, SignUpMark
<1>2. PICK t \in Tokens : t = req[r].tok
  BY <1>1 DEF Sound
<1>3. CASE Return(r) /\ UNCHANGED tok
  BY <1>1, <1>3, Types, Returns
<1>4. CASE MarkEmailLoginTokenUsed(t) /\ Goto(r, "user")
  <2>1. /\ tok[t] # Gone /\ ~tok[t].used /\ redeemed[t] = 0 /\ t \notin burned
        /\ tok' \in [Tokens -> Row \cup {Gone}]
        /\ \A s \in Tokens : Ages(s) /\ (s # t => tok'[s] = tok[s])
        /\ tok'[t] # Gone /\ tok'[t].used
    BY <1>4, MarkIsWon
  <2>2. PICK q : q = [req[r] EXCEPT !.pc = "user"]
    OBVIOUS
  <2>3. q \in Request /\ q.pc = "user" /\ q.tok = t /\ q.kind = req[r].kind /\ q.seen = req[r].seen
    BY <1>1, <1>2, <2>2 DEF Request, PCs
  <2>4. req' = [req EXCEPT ![r] = q]
    BY <1>4, <2>2, Types DEF Goto
  <2>5. issued' \in Nat /\ issued <= issued' /\ redeemed' \in [Tokens -> 0 .. 2] /\ redeemed' = redeemed
    BY <1>1, Types
  <2>6. Sound(req[r], tok', issued', redeemed', burned')
    <3>1. req[r].pc # "create"
      BY <1>1
    <3>. QED  BY <1>1, <2>1, <2>5, <3>1, OthersStay
  <2>7. Sound(q, tok', issued', redeemed', burned')
    BY <1>1, <1>2, <2>1, <2>3, <2>5, <2>6 DEF Sound, Dead
  <2>8. ASSUME NEW p \in Requests \ {r}
        PROVE  /\ Sound(req[p], tok', issued', redeemed', burned')
               /\ Apart(q, req[p]) /\ Apart(req[p], q)
    <3>1. req[p] \in Request /\ Sound(req[p], tok, issued, redeemed, burned)
      BY Types DEF Inv
    <3>2. req[p].pc \in {"create", "user"} => req[p].tok # t
      BY <2>1, <3>1 DEF Sound, Dead
    <3>3. req[p].pc = "create" => req[p].tok \notin burned'
      BY <1>1, <3>1 DEF Sound
    <3>4. Sound(req[p], tok', issued', redeemed', burned')
      BY <2>1, <2>5, <3>1, <3>3, OthersStay
    <3>. QED  BY <2>3, <3>2, <3>4 DEF Apart
  <2>9. /\ req' \in [Requests -> Request]
        /\ \A p \in Requests : Sound(req'[p], tok', issued', redeemed', burned')
        /\ \A p, o \in Requests : p # o => Apart(req'[p], req'[o])
        /\ NoUserInTx'
    BY <1>1, <2>3, <2>4, <2>7, <2>8, Moves
  <2>10. (\A s \in Tokens : TokenIsSound(s)') /\ OneSignInEach'
    BY <1>1, <2>1, <2>5, Types, RowsAge
  <2>. QED  BY <1>1, <2>1, <2>9, <2>10, Types, Together
<1>. QED  BY <1>2, <1>3, <1>4 DEF SignUpMark

\* The account after it.
LEMMA CreateUserKeeps == ASSUME Inv, NEW r \in Requests, CreateUser(r) PROVE Inv'
<1>1. /\ req[r].pc = "user" /\ UNCHANGED <<conf, tok, issued, burned>> /\ Return(r)
      /\ req[r] \in Request /\ Sound(req[r], tok, issued, redeemed, burned)
  BY Types DEF Inv, CreateUser
<1>2. PICK t \in Tokens : t = req[r].tok
  BY <1>1 DEF Sound
<1>3. CASE UNCHANGED <<account, redeemed>>
  BY <1>1, <1>3, Types, Returns
<1>4. CASE account' = TRUE /\ SignedIn(t)
  <2>1. redeemed[t] = 0 /\ Dead(tok', t) /\ t <= issued
    BY <1>1, <1>2 DEF Sound
  <2>2. t \in burned => tok'[t] = Gone
    BY <1>1 DEF Inv, TokenIsSound
  <2>3. \A p \in Requests \ {r} : req[p].pc \in {"create", "user"} => req[p].tok # t
    BY <1>1, <1>2 DEF Inv, Apart
  <2>4. \A s \in Tokens : Ages(s) /\ (s # t => tok'[s] = tok[s])
    BY <1>1 DEF Ages
  <2>5. tok' \in [Tokens -> Row \cup {Gone}]
    BY <1>1, Types
  <2>. QED  BY <1>1, <1>4, <2>1, <2>2, <2>3, <2>4, <2>5, SignsInKeeps
<1>. QED  BY <1>2, <1>3, <1>4 DEF CreateUser

\* A token expires.
LEMMA ExpireKeeps == ASSUME Inv, NEW t \in Tokens, Expire(t) PROVE Inv'
<1>1. tok[t] # Gone /\ UNCHANGED <<conf, issued, account, req, redeemed, burned>>
  BY DEF Expire
<1>2. tok[t] \in Row
  BY <1>1, Types
<1>3. PICK put : put = [tok[t] EXCEPT !.expired = TRUE]
  OBVIOUS
<1>4. put \in Row /\ put # Gone /\ put.kind = tok[t].kind /\ put.used = tok[t].used
  BY <1>2, <1>3, GoneAssumption DEF Row
<1>5. tok' = [tok EXCEPT ![t] = put]
  BY <1>3 DEF Expire
<1>6. \A s \in Tokens : tok'[s] = IF s = t THEN put ELSE tok[s]
  BY <1>5, Types
<1>7. \A s \in Tokens : Ages(s) /\ (tok'[s] # Gone /\ conf.hasTx /\ tok'[s].used => tok[s].used)
  BY <1>1, <1>4, <1>6 DEF Ages
<1>8. (\A s \in Tokens : TokenIsSound(s)') /\ OneSignInEach'
  BY <1>1, <1>7, Types, RowsAge
<1>9. ASSUME NEW p \in Requests PROVE Sound(req'[p], tok', issued', redeemed', burned')
  <2>1. req[p] \in Request /\ Sound(req[p], tok, issued, redeemed, burned)
    BY Types DEF Inv
  <2>2. req[p].pc = "create" => req[p].tok \notin burned'
    BY <1>1, <2>1 DEF Sound
  <2>3. issued' \in Nat /\ issued <= issued' /\ redeemed' \in [Tokens -> 0 .. 2] /\ redeemed' = redeemed
    BY <1>1, Types
  <2>4. Sound(req[p], tok', issued', redeemed', burned')
    BY <1>7, <2>1, <2>2, <2>3, OthersStay
  <2>. QED  BY <1>1, <2>4
<1>10. /\ req' \in [Requests -> Request]
       /\ \A p, o \in Requests : p # o => Apart(req'[p], req'[o])
       /\ NoUserInTx'
  BY <1>1, Types DEF Inv, NoUserInTx
<1>11. tok' \in [Tokens -> Row \cup {Gone}]
  BY <1>4, <1>5, Types
<1>. QED  BY <1>1, <1>8, <1>9, <1>10, <1>11, Types, Together

\* A link or a code is read for its redemption.
LEMMA RedeemKeeps ==
    ASSUME Inv, NEW r \in Requests, NEW t \in Tokens, tok[t] # Gone, NEW pc \in {"resolve", "wrong"},
           NEW k \in Kinds, tok[t].kind = k, pc = "wrong" => k = "code",
           req' = [req EXCEPT ![r] = [pc |-> pc, kind |-> k, tok |-> t, seen |-> Redemptions]],
           UNCHANGED <<conf, tok, issued, account, redeemed, burned>>
    PROVE  Inv'
<1>1. PICK q : q = [pc |-> pc, kind |-> k, tok |-> t, seen |-> Redemptions]
  OBVIOUS
<1>2. t \in 0 .. MaxTokens /\ t \in Nat /\ Redemptions \subseteq Tokens
  BY EmailLoginAssumption DEF Tokens, Redemptions
<1>3. q \in Request /\ q.pc = pc /\ q.kind = k /\ q.tok = t /\ q.seen = Redemptions
  BY <1>1, <1>2 DEF Request, PCs
<1>4. t <= issued
  BY <1>2, Types DEF Inv, TokenIsSound
<1>5. \A s \in q.seen : redeemed[s] > 0
  BY <1>3 DEF Redemptions
<1>7. Sound(q, tok, issued, redeemed, burned)
  BY <1>3, <1>4, <1>5 DEF Sound
<1>8. \A p \in Requests \ {r} : req[p].pc = "create" => q.tok # req[p].tok
  BY <1>3 DEF Inv, Sound
<1>. QED  BY <1>1, <1>3, <1>7, <1>8, Types, Reads

\* Every step keeps Inv.
LEMMA Steps == ASSUME Inv, [Next]_vars PROVE Inv'
<1>1. ASSUME NEW r \in Requests, Step(r) PROVE Inv'
  <2>1. CASE CreateEmailLoginToken(r)
    BY <2>1, CreateKeeps
  <2>2. CASE IncrementEmailLoginTokenAttempts(r)
    BY <2>2, IncrementKeeps
  <2>3. CASE Burn(r)
    BY <2>3, BurnKeeps
  <2>4. CASE consume(r)
    <3>1. req[r].pc = "resolve" /\ UNCHANGED <<conf, tok, issued, redeemed, burned>> /\ account' \in BOOLEAN
      BY <2>4, Types DEF consume
    <3>2. Return(r) \/ Goto(r, "mark") \/ Goto(r, "signup")
      BY <2>4 DEF consume
    <3>. QED  BY <3>1, <3>2, Returns, Goes
  <2>5. CASE MarkExisting(r)
    <3>1. /\ req[r].pc = "mark" /\ Return(r) /\ UNCHANGED <<conf, issued, burned>> /\ account' \in BOOLEAN
          /\ \/ MarkEmailLoginTokenUsed(req[r].tok) /\ SignedIn(req[r].tok)
             \/ UNCHANGED <<tok, redeemed>>
      BY <2>5, Types DEF MarkExisting
    <3>. QED  BY <3>1, MarkSignsIn, Returns
  <2>6. CASE signUp(r)
    <3>1. /\ req[r].pc = "signup" /\ Return(r) /\ UNCHANGED <<conf, issued, burned>> /\ account' \in BOOLEAN
          /\ \/ MarkEmailLoginTokenUsed(req[r].tok) /\ SignedIn(req[r].tok)
             \/ UNCHANGED <<tok, redeemed>>
      BY <2>6, Types DEF signUp
    <3>. QED  BY <3>1, MarkSignsIn, Returns
  <2>7. CASE SignUpMark(r)
    BY <2>7, SignUpMarkKeeps
  <2>8. CASE CreateUser(r)
    BY <2>8, CreateUserKeeps
  <2>9. CASE CutOff(r)
    BY <2>9, Types, Returns DEF CutOff
  <2>. QED  BY <1>1, <2>1, <2>2, <2>3, <2>4, <2>5, <2>6, <2>7, <2>8, <2>9 DEF Step
<1>2. ASSUME NEW r \in Requests, NEW k \in Kinds, issue(r, k) PROVE Inv'
  BY <1>2, IssueKeeps
<1>3. ASSUME NEW r \in Requests, NEW t \in Tokens, RedeemMagicLink(r, t) PROVE Inv'
  <2>1. tok[t] # Gone /\ tok[t].kind = "link"
    BY <1>3 DEF RedeemMagicLink, OfKind
  <2>. QED  BY <1>3, <2>1, RedeemKeeps DEF RedeemMagicLink, Kinds
<1>4. ASSUME NEW r \in Requests, NEW t \in Tokens, NEW right \in BOOLEAN, RedeemSignInCode(r, t, right) PROVE Inv'
  <2>1. tok[t] # Gone /\ tok[t].kind = "code"
    BY <1>4 DEF RedeemSignInCode, GetEmailLoginTokenByEmail, OfKind
  <2>2. PICK pc \in {"resolve", "wrong"} : pc = IF right THEN "resolve" ELSE "wrong"
    OBVIOUS
  <2>3. req' = [req EXCEPT ![r] = [pc |-> pc, kind |-> "code", tok |-> t, seen |-> Redemptions]]
    BY <1>4, <2>2 DEF RedeemSignInCode
  <2>. QED  BY <1>4, <2>1, <2>3, RedeemKeeps DEF RedeemSignInCode, Kinds
<1>5. CASE Register
  <2>1. UNCHANGED <<conf, tok, issued, req, redeemed, burned>> /\ account' \in BOOLEAN
    BY <1>5 DEF Register
  <2>2. (\A t \in Tokens : TokenIsSound(t)') /\ OneSignInEach' /\ NoUserInTx'
    BY <2>1 DEF Inv, TokenIsSound, OneSignInEach, SingleUse, SpentSignedIn, NoUserInTx
  <2>3. /\ \A p \in Requests : Sound(req'[p], tok', issued', redeemed', burned')
        /\ \A p, o \in Requests : p # o => Apart(req'[p], req'[o])
    BY <2>1 DEF Inv
  <2>. QED  BY <2>1, <2>2, <2>3, Types, Together
<1>6. ASSUME NEW t \in Tokens, Expire(t) PROVE Inv'
  BY <1>6, ExpireKeeps
<1>7. CASE UNCHANGED vars
  <2>1. UNCHANGED <<conf, tok, issued, account, req, redeemed, burned>>
    BY <1>7 DEF vars
  <2>2. (\A t \in Tokens : TokenIsSound(t)') /\ OneSignInEach' /\ NoUserInTx'
    BY <2>1 DEF Inv, TokenIsSound, OneSignInEach, SingleUse, SpentSignedIn, NoUserInTx
  <2>3. /\ \A p \in Requests : Sound(req'[p], tok', issued', redeemed', burned')
        /\ \A p, o \in Requests : p # o => Apart(req'[p], req'[o])
    BY <2>1 DEF Inv
  <2>. QED  BY <2>1, <2>2, <2>3, Types, Together
<1>. QED  BY <1>1, <1>2, <1>3, <1>4, <1>5, <1>6, <1>7 DEF Next

\* At the start there are no tokens.
LEMMA Starts == Init => Inv
<1>. SUFFICES ASSUME Init PROVE Inv
  OBVIOUS
<1>1. \A r \in Requests : req[r] = Idle
  BY DEF Init
<1>2. Typed
  BY IdleIs, EmailLoginAssumption DEF Init, Typed
<1>3. \A r \in Requests : Sound(req[r], tok, issued, redeemed, burned)
  BY <1>1, IdleIs DEF Init
<1>4. \A r, p \in Requests : r # p => Apart(req[r], req[p])
  BY <1>1, IdleIs DEF Apart
<1>5. NoUserInTx
  BY <1>1, IdleIs DEF NoUserInTx
<1>6. \A t \in Tokens : TokenIsSound(t)
  BY DEF Init, TokenIsSound
<1>7. OneSignInEach
  BY DEF Init, OneSignInEach, SingleUse, SpentSignedIn
<1>. QED  BY <1>2, <1>3, <1>4, <1>5, <1>6, <1>7 DEF Inv

-----------------------------------------------------------------------------
(***************************************************************************)
(* The theorems.                                                           *)
(***************************************************************************)
\* The inductive invariant of emaillogin/flow.go.
THEOREM EmailLoginInvariant == Spec => []Inv
BY Starts, Steps, PTL DEF Spec

\* However many requests of emaillogin/flow.go hold the same link or code, it
\* signs in once; and with a TxRunner none is marked used for nothing.
THEOREM EmailLoginOneSignInEach == Spec => []OneSignInEach
<1>1. Inv => OneSignInEach
  BY DEF Inv
<1>. QED  BY <1>1, EmailLoginInvariant, PTL

\* Who signs in with which token in a step: a request that has come to the
\* mark, and wins it, or that has won it before.
LEMMA WhoSignsIn ==
    ASSUME Inv, [Next]_vars, NEW t \in Tokens, redeemed'[t] # redeemed[t]
    PROVE  \E r \in Requests :
             /\ req[r].pc \in {"mark", "signup", "user"} /\ req[r].tok = t
             /\ req[r].pc # "user" => tok[t] # Gone
             /\ req' = [req EXCEPT ![r] = Idle]
<1>1. ASSUME NEW r \in Requests, MarkExisting(r) \/ signUp(r) \/ CreateUser(r)
      PROVE  /\ req[r].pc \in {"mark", "signup", "user"} /\ req[r].tok = t
             /\ req[r].pc # "user" => tok[t] # Gone
             /\ req' = [req EXCEPT ![r] = Idle]
  <2>1. /\ req[r].pc \in {"mark", "signup", "user"} /\ req' = [req EXCEPT ![r] = Idle]
        /\ redeemed' = redeemed \/ SignedIn(req[r].tok)
        /\ redeemed' = redeemed \/ req[r].pc = "user" \/ tok[req[r].tok] # Gone
    BY <1>1 DEF MarkExisting, signUp, CreateUser, Return, MarkEmailLoginTokenUsed, Unused
  <2>2. req[r].tok = t
    BY <2>1, Types DEF SignedIn
  <2>. QED  BY <2>1, <2>2
<1>2. \E r \in Requests : MarkExisting(r) \/ signUp(r) \/ CreateUser(r)
  BY DEF Next, Step, vars, CreateEmailLoginToken, IncrementEmailLoginTokenAttempts, Burn, consume, SignUpMark, CutOff,
         issue, RedeemMagicLink, RedeemSignInCode, Register, Expire
<1>. QED  BY <1>1, <1>2

\* A code burned after too many wrong guesses signs nobody in any more
\* (RedeemSignInCode of emaillogin/flow.go), but for a sign-up without a
\* TxRunner that had won its mark.
THEOREM EmailLoginBurnedStaysBurned == Spec => BurnedStaysBurned
<1>1. ASSUME Inv, [Next]_vars
      PROVE  \A t \in burned :
               redeemed'[t] # redeemed[t] => \E r \in Requests : req[r].pc = "user" /\ req[r].tok = t
  <2>. SUFFICES ASSUME NEW t \in burned, redeemed'[t] # redeemed[t]
                PROVE  \E r \in Requests : req[r].pc = "user" /\ req[r].tok = t
    OBVIOUS
  <2>1. t \in Tokens /\ tok[t] = Gone
    BY <1>1, Types DEF Inv, TokenIsSound
  <2>. QED  BY <1>1, <2>1, WhoSignsIn
<1>. QED  BY <1>1, EmailLoginInvariant, PTL DEF Spec, BurnedStaysBurned

-----------------------------------------------------------------------------
(***************************************************************************)
(* The store's order of the codes. A request that has found a code has     *)
(* found the last of the order: of those that had signed in by then, none  *)
(* that is placed after it is a code of the table, and none becomes one,   *)
(* for a row that is created has signed nobody in.                         *)
(***************************************************************************)
NotACode(tab, t) == tab[t] = Gone \/ tab[t].kind = "link"

Found(q) == q.pc \notin {"idle", "create"} /\ q.kind = "code"

Last(q, tab, pl) == Found(q) => \A s \in q.seen : pl[s] > pl[q.tok] => NotACode(tab, s)

Ordered ==
    /\ place \in [Tokens -> Nat]
    /\ \A r \in Requests : Last(req[r], tok, place)

\* A request that stands at its code, or goes on with it, stays in order.
LEMMA StaysLast ==
    ASSUME Inv, NEW p \in Requests, Last(req[p], tok, place),
           \/ ~Found(req'[p])
           \/ /\ Found(req[p]) /\ req'[p].tok = req[p].tok /\ req'[p].seen = req[p].seen
              /\ place'[req[p].tok] = place[req[p].tok]
              /\ \A s \in req[p].seen : place'[s] = place[s] /\ (NotACode(tok, s) => NotACode(tok', s))
    PROVE  Last(req'[p], tok', place')
BY DEF Last

\* Such a step leaves the order alone, and makes a code of no row.
LEMMA AloneStays ==
    ASSUME Inv, Ordered, NEW r \in Requests, place' = place,
           \A p \in Requests \ {r} : req'[p] = req[p],
           \/ ~Found(req'[r])
           \/ Found(req[r]) /\ req'[r].tok = req[r].tok /\ req'[r].seen = req[r].seen,
           \A s \in Tokens : NotACode(tok, s) => NotACode(tok', s)
    PROVE  Ordered'
<1>1. ASSUME NEW p \in Requests PROVE Last(req'[p], tok', place')
  <2>1. req[p].seen \subseteq Tokens
    BY Types DEF Request
  <2>. QED  BY <2>1, StaysLast DEF Ordered
<1>. QED  BY <1>1 DEF Ordered

\* A row keeps its kind.
LEMMA KeepsKind ==
    ASSUME Inv, NEW t \in Tokens, tok[t] # Gone, NEW put, put.kind = tok[t].kind,
           tok' = [tok EXCEPT ![t] = put]
    PROVE  \A s \in Tokens : NotACode(tok, s) => NotACode(tok', s)
BY Types DEF NotACode

LEMMA MarkKeepsKind ==
    ASSUME Inv, NEW t \in Tokens, MarkEmailLoginTokenUsed(t)
    PROVE  \A s \in Tokens : NotACode(tok, s) => NotACode(tok', s)
<1>1. \A s \in Tokens : Ages(s)
  BY MarkIsWon
<1>. QED  BY <1>1 DEF Ages, NotACode

LEMMA CreateStays == ASSUME Inv, Ordered, NEW r \in Requests, CreateEmailLoginToken(r) PROVE Ordered'
<1>1. req[r].pc = "create" /\ Sound(req[r], tok, issued, redeemed, burned)
  BY DEF Inv, CreateEmailLoginToken
<1>2. PICK t \in Tokens : t = req[r].tok
  BY <1>1 DEF Sound
<1>3. PICK put : put = [kind |-> req[r].kind, attempts |-> 0, used |-> FALSE, expired |-> FALSE]
  OBVIOUS
<1>4. PICK n : n = IF conf.byTime THEN t ELSE NextPlace
  OBVIOUS
<1>5. /\ tok' = [tok EXCEPT ![t] = put] /\ place' = [place EXCEPT ![t] = n]
      /\ req' = [req EXCEPT ![r] = Idle]
  BY <1>2, <1>3, <1>4 DEF CreateEmailLoginToken, Return
<1>6. n \in Nat
  <2>1. IsFiniteSet(Tokens)
    BY EmailLoginAssumption, FS_Interval DEF Tokens
  <2>2. IsFiniteSet({s \in Tokens : place[s] > 0})
    BY <2>1, FS_Subset
  <2>3. Cardinality({s \in Tokens : place[s] > 0}) \in Nat
    BY <2>2, FS_CardinalityType
  <2>4. NextPlace \in Nat
    BY <2>3 DEF NextPlace
  <2>. QED  BY <1>4, <2>4, Types
<1>7. ASSUME NEW p \in Requests PROVE Last(req'[p], tok', place')
  <2>1. CASE p = r
    <3>1. req'[p] = Idle
      BY <1>5, <2>1, Types
    <3>. QED  BY <3>1, IdleIs DEF Last, Found
  <2>2. CASE p # r
    <3>1. req'[p] = req[p] /\ req[p].tok # t /\ req[p].seen \subseteq Tokens
      BY <1>1, <1>2, <1>5, <2>2, Types DEF Inv, Apart, Request
    <3>2. \A s \in req[p].seen : s # t /\ tok'[s] = tok[s] /\ place'[s] = place[s]
      BY <1>1, <1>2, <1>5, <3>1, Types DEF Inv, Sound, Ordered
    <3>3. place'[req[p].tok] = place[req[p].tok]
      BY <1>5, <3>1 DEF Ordered
    <3>4. \A s \in req[p].seen : NotACode(tok, s) => NotACode(tok', s)
      BY <3>2 DEF NotACode
    <3>. QED  BY <3>1, <3>2, <3>3, <3>4 DEF Ordered, Last
  <2>. QED  BY <2>1, <2>2
<1>8. place' \in [Tokens -> Nat]
  BY <1>5, <1>6 DEF Ordered
<1>. QED  BY <1>7, <1>8 DEF Ordered

LEMMA RequestStays ==
    ASSUME Inv, Ordered, NEW r \in Requests,
           \/ IncrementEmailLoginTokenAttempts(r) \/ Burn(r) \/ consume(r) \/ MarkExisting(r)
           \/ signUp(r) \/ SignUpMark(r) \/ CreateUser(r) \/ CutOff(r)
           \/ \E k \in Kinds : issue(r, k)
           \/ \E t \in Tokens : RedeemMagicLink(r, t)
    PROVE  Ordered'
<1>1. place' = place
  BY DEF IncrementEmailLoginTokenAttempts, Burn, consume, MarkExisting, signUp, SignUpMark,
         CreateUser, CutOff, issue, RedeemMagicLink
<1>2. req[r] \in Request /\ Sound(req[r], tok, issued, redeemed, burned)
  BY Types DEF Inv
<1>3. PICK q : /\ req' = [req EXCEPT ![r] = q]
               /\ ~Found(q) \/ (Found(req[r]) /\ q.tok = req[r].tok /\ q.seen = req[r].seen)
  <2>1. ASSUME Return(r) PROVE req' = [req EXCEPT ![r] = Idle] /\ ~Found(Idle)
    BY <2>1, IdleIs DEF Return, Found
  <2>2. ASSUME NEW pc \in {"burn", "mark", "signup", "user"}, Goto(r, pc), req[r].pc \notin {"idle", "create"}
        PROVE  \E q : /\ req' = [req EXCEPT ![r] = q]
                      /\ ~Found(q) \/ (Found(req[r]) /\ q.tok = req[r].tok /\ q.seen = req[r].seen)
    <3>1. PICK q : q = [req[r] EXCEPT !.pc = pc]
      OBVIOUS
    <3>2. req' = [req EXCEPT ![r] = q]
      BY <2>2, <3>1, Types DEF Goto
    <3>3. q.tok = req[r].tok /\ q.seen = req[r].seen /\ q.kind = req[r].kind
      BY <1>2, <3>1 DEF Request
    <3>. QED  BY <2>2, <3>2, <3>3 DEF Found
  <2>3. CASE \/ IncrementEmailLoginTokenAttempts(r) \/ Burn(r) \/ consume(r) \/ MarkExisting(r)
             \/ signUp(r) \/ SignUpMark(r) \/ CreateUser(r) \/ CutOff(r)
    <3>1. Return(r) \/ (req[r].pc \notin {"idle", "create"} /\ \E pc \in {"burn", "mark", "signup", "user"} : Goto(r, pc))
      BY <2>3 DEF IncrementEmailLoginTokenAttempts, Burn, consume, MarkExisting, signUp, SignUpMark,
                  CreateUser, CutOff
    <3>. QED  BY <2>1, <2>2, <3>1
  <2>4. ASSUME NEW k \in Kinds, issue(r, k)
        PROVE  \E q : req' = [req EXCEPT ![r] = q] /\ ~Found(q)
    <3>1. PICK q : q = [Idle EXCEPT !.pc = "create", !.kind = k, !.tok = issued + 1]
      OBVIOUS
    <3>2. req' = [req EXCEPT ![r] = q]
      BY <2>4, <3>1 DEF issue
    <3>3. q.pc = "create"
      BY <3>1, IdleIs DEF Request
    <3>. QED  BY <3>2, <3>3 DEF Found
  <2>5. ASSUME NEW t \in Tokens, RedeemMagicLink(r, t)
        PROVE  \E q : req' = [req EXCEPT ![r] = q] /\ ~Found(q)
    <3>1. PICK q : q = [pc |-> "resolve", kind |-> "link", tok |-> t, seen |-> Redemptions]
      OBVIOUS
    <3>2. req' = [req EXCEPT ![r] = q]
      BY <2>5, <3>1 DEF RedeemMagicLink
    <3>3. ~Found(q)
      BY <3>1 DEF Found
    <3>. QED  BY <3>2, <3>3
  <2>. QED  BY <2>3, <2>4, <2>5
<1>4. req'[r] = q /\ \A p \in Requests \ {r} : req'[p] = req[p]
  BY <1>3, Types
<1>5. \A s \in Tokens : NotACode(tok, s) => NotACode(tok', s)
  <2>1. ASSUME NEW k, DeleteEmailLoginTokens(k) PROVE \A s \in Tokens : NotACode(tok, s) => NotACode(tok', s)
    BY <2>1 DEF DeleteEmailLoginTokens, NotACode
  <2>2. CASE IncrementEmailLoginTokenAttempts(r)
    <3>1. PICK t \in Tokens : t = req[r].tok
      BY <1>2, <2>2 DEF Sound, IncrementEmailLoginTokenAttempts
    <3>2. CASE tok[t] = Gone
      BY <2>2, <3>1, <3>2 DEF IncrementEmailLoginTokenAttempts
    <3>3. CASE tok[t] # Gone
      <4>1. PICK put : put = [tok[t] EXCEPT !.attempts = Charged(tok[t].attempts)]
        OBVIOUS
      <4>2. tok' = [tok EXCEPT ![t] = put]
        BY <2>2, <3>1, <3>3, <4>1, Types DEF IncrementEmailLoginTokenAttempts
      <4>3. tok[t] \in Row
        BY <3>3, Types
      <4>4. put.kind = tok[t].kind
        BY <4>1, <4>3 DEF Row
      <4>. QED  BY <3>3, <4>2, <4>4, KeepsKind
    <3>. QED  BY <3>2, <3>3
  <2>3. CASE Burn(r) \/ \E k \in Kinds : issue(r, k)
    BY <2>1, <2>3 DEF Burn, issue
  <2>4. CASE MarkExisting(r) \/ signUp(r) \/ SignUpMark(r)
    <3>1. req[r].tok \in Tokens
      BY <1>2, <2>4 DEF Sound, MarkExisting, signUp, SignUpMark
    <3>2. MarkEmailLoginTokenUsed(req[r].tok) \/ tok' = tok
      BY <2>4 DEF MarkExisting, signUp, SignUpMark
    <3>. QED  BY <3>1, <3>2, MarkKeepsKind
  <2>5. CASE consume(r) \/ CreateUser(r) \/ CutOff(r) \/ \E t \in Tokens : RedeemMagicLink(r, t)
    BY <2>5 DEF consume, CreateUser, CutOff, RedeemMagicLink
  <2>. QED  BY <2>2, <2>3, <2>4, <2>5
<1>. QED  BY <1>1, <1>3, <1>4, <1>5, AloneStays

\* A request that finds a code finds the last one.
LEMMA RedeemStays ==
    ASSUME Inv, Ordered, NEW r \in Requests, NEW t \in Tokens, NEW right \in BOOLEAN,
           RedeemSignInCode(r, t, right)
    PROVE  Ordered'
<1>1. PICK q : q = [pc |-> IF right THEN "resolve" ELSE "wrong", kind |-> "code",
                    tok |-> t, seen |-> Redemptions]
  OBVIOUS
<1>2. req' = [req EXCEPT ![r] = q] /\ UNCHANGED <<tok, place>> /\ GetEmailLoginTokenByEmail(t, "code")
  BY <1>1 DEF RedeemSignInCode
<1>3. q.tok = t /\ q.seen \subseteq Tokens
  BY <1>1 DEF Redemptions
<1>4. ASSUME NEW s \in Tokens, place[s] > place[t] PROVE NotACode(tok, s)
  <2>1. place[s] \in Nat /\ place[t] \in Nat
    BY DEF Ordered
  <2>2. s \notin OfKind("code")
    BY <1>2, <1>4, <2>1 DEF GetEmailLoginTokenByEmail
  <2>3. tok[s] = Gone \/ tok[s] \in Row
    BY Types
  <2>. QED  BY <2>2, <2>3 DEF OfKind, NotACode, Row, Kinds
<1>5. Last(q, tok, place)
  BY <1>3, <1>4 DEF Last
<1>6. \A p \in Requests : Last(req'[p], tok', place')
  BY <1>2, <1>5, Types DEF Ordered
<1>. QED  BY <1>2, <1>6 DEF Ordered

LEMMA OrderedStep == ASSUME Inv, Ordered, [Next]_vars PROVE Ordered'
<1>1. ASSUME NEW r \in Requests, Step(r) PROVE Ordered'
  BY <1>1, CreateStays, RequestStays DEF Step
<1>2. ASSUME NEW t \in Tokens, Expire(t) PROVE Ordered'
  <2>1. tok[t] # Gone /\ UNCHANGED <<req, place>>
    BY <1>2 DEF Expire
  <2>2. PICK put : put = [tok[t] EXCEPT !.expired = TRUE]
    OBVIOUS
  <2>3. tok' = [tok EXCEPT ![t] = put]
    BY <1>2, <2>2 DEF Expire
  <2>4. tok[t] \in Row
    BY <2>1, Types
  <2>5. put.kind = tok[t].kind
    BY <2>2, <2>4 DEF Row
  <2>6. \A s \in Tokens : NotACode(tok, s) => NotACode(tok', s)
    BY <2>1, <2>3, <2>5, KeepsKind
  <2>7. \A p \in Requests : req[p].seen \subseteq Tokens
    BY Types DEF Request
  <2>. QED  BY <2>1, <2>6, <2>7 DEF Ordered, Last
<1>3. CASE Register \/ UNCHANGED vars
  BY <1>3 DEF Register, vars, Ordered, Last, NotACode
<1>. QED  BY <1>1, <1>2, <1>3, RequestStays, RedeemStays DEF Next

LEMMA OrderedAlways == Spec => []Ordered
<1>1. Init => Ordered
  <2>. SUFFICES ASSUME Init PROVE Ordered
    OBVIOUS
  <2>1. \A r \in Requests : req[r] = Idle
    BY DEF Init
  <2>. QED  BY <2>1, IdleIs DEF Init, Ordered, Last, Found
<1>. QED  BY <1>1, OrderedStep, EmailLoginInvariant, PTL DEF Spec

\* Every variable has its type.
THEOREM EmailLoginTypeCorrect == Spec => []TypeOK
<1>1. Inv /\ Ordered => TypeOK
  BY DEF Inv, Typed, Ordered, TypeOK
<1>. QED  BY <1>1, EmailLoginInvariant, OrderedAlways, PTL

\* When a code signs in, none the store holds to be newer and that had signed
\* in before it was read is left: GetEmailLoginTokenByEmail looks at the
\* newest alone, used or not, whether it goes by CreatedAt or by creation.
THEOREM EmailLoginNoOlderCode == Spec => NoOlderCode
<1>1. ASSUME Inv, Ordered, [Next]_vars
      PROVE  \A r \in Requests, t \in Tokens :
               SignsIn(r, t) /\ req[r].kind = "code"
                 => \A s \in req[r].seen :
                      place[s] > place[t] => tok[s] = Gone \/ tok[s].kind = "link"
  <2>. SUFFICES ASSUME NEW r \in Requests, NEW t \in Tokens, SignsIn(r, t), req[r].kind = "code"
                PROVE  \A s \in req[r].seen : place[s] > place[t] => NotACode(tok, s)
    BY DEF NotACode
  <2>1. req[r].tok = t /\ req'[r] # req[r] /\ redeemed'[t] # redeemed[t]
    BY DEF SignsIn
  <2>2. PICK p \in Requests : req[p].pc \in {"mark", "signup", "user"} /\ req' = [req EXCEPT ![p] = Idle]
    BY <1>1, <2>1, WhoSignsIn
  <2>3. p = r
    BY <1>1, <2>1, <2>2, Types
  <2>. QED  BY <1>1, <2>1, <2>2, <2>3 DEF Ordered, Last, Found
<1>. QED  BY <1>1, EmailLoginInvariant, OrderedAlways, PTL DEF Spec, NoOlderCode
-----------------------------------------------------------------------------
(***************************************************************************)
(* The device grant: what a poll and a decision under way have read, what  *)
(* stays true of a grant that was denied in peace, and of one whose user   *)
(* was returned to a CLI that polls one at a time.                         *)
(***************************************************************************)
\* What is under way knows its grant and has a copy of its row.
HasCopy(q) ==
    /\ q.pc = "idle" => q.grant = None
    /\ q.pc # "idle" => q.grant \in Grants /\ q.read \in Authorization

HasRead(d) ==
    /\ d.to = "idle" => d.grant = None
    /\ d.to # "idle" => d.grant \in Grants /\ d.read \in Authorization

\* A poll that has read a denied row can only say so, or put it off.
SaysNo(q) == q.read.status = "denied" /\ q.pc \in {"read", "expired", "slow", "denied"}

\* Nothing at work on g can undo its denial.
DenialStands(g) ==
    /\ row[g] = None => g \in answered
    /\ row[g] # None => row[g].status = "denied"
    /\ \A w \in Deciders : decide[w].grant # g
    /\ \A p \in Polls : poll[p].grant = g => SaysNo(poll[p])

\* After the user was returned there is no row, nor a copy of one in a poll.
OnceOnly(g) ==
    g \notin lost =>
      /\ delivered[g] <= 1
      /\ delivered[g] > 0 => /\ row[g] = None /\ g \in answered
                             /\ \A p \in Polls : poll[p].grant # g

OnePoll == \A p, o \in Polls : p = o

DeviceInv ==
    /\ DeviceTypeOK
    /\ \A p \in Polls : HasCopy(poll[p])
    /\ \A w \in Deciders : HasRead(decide[w])
    /\ \A p \in Polls : poll[p].afterDenial => poll[p].grant \in denied
    /\ \A g \in denied : DenialStands(g)
    /\ OnePoll => \A g \in Grants : OnceOnly(g)

-----------------------------------------------------------------------------
\* What the types come to.
LEMMA DeviceTypes ==
    ASSUME DeviceInv
    PROVE  /\ clock \in 0 .. MaxTime /\ row \in [Grants -> Authorization \cup {None}] /\ poll \in [Polls -> Poll]
           /\ decide \in [Deciders -> Decision] /\ answered \subseteq Grants /\ delivered \in [Grants -> 0 .. 2]
           /\ lost \subseteq Grants /\ denied \subseteq Grants /\ MaxTime \in Nat /\ TTL \in Nat /\ SlowDown \in Nat
           /\ None \notin Grants /\ None \notin Authorization
BY DeviceAssumption, NobodyAssumption DEF DeviceInv, DeviceTypeOK

LEMMA AtRest ==
    /\ MaxTime \in Nat => IdlePoll \in Poll
    /\ IdlePoll.pc = "idle" /\ IdlePoll.grant = None /\ IdlePoll.afterDenial = FALSE
    /\ NoDecision \in Decision /\ NoDecision.to = "idle" /\ NoDecision.grant = None
BY DEF IdlePoll, Poll, NoDecision, Decision, Outcomes

\* A row that is written was there, and no other row is touched.
LEMMA RowUpdated ==
    ASSUME DeviceInv, NEW g \in Grants, NEW r \in Authorization,
           UpdateDeviceAuthorization(g, r) \/ UNCHANGED row
    PROVE  /\ row' \in [Grants -> Authorization \cup {None}]
           /\ \A h \in Grants : row'[h] = None <=> row[h] = None
           /\ \A h \in Grants : row'[h] = row[h] \/ (h = g /\ row'[h] = r)
BY DeviceTypes DEF UpdateDeviceAuthorization

\* A poll turned into q.
Turns(p, q) == \A o \in Polls : poll'[o] = IF o = p THEN q ELSE poll[o]

\* A decision turned into d.
Turned(w, d) == \A v \in Deciders : decide'[v] = IF v = w THEN d ELSE decide[v]

\* A denial stands when its row stays denied or goes, once answered, and no
\* poll or decision that undoes it comes up.
LEMMA DenialKept ==
    ASSUME DeviceInv, NEW g \in denied,
           row'[g] = None => g \in answered',
           row'[g] # None => row'[g].status = "denied",
           \A w \in Deciders : decide'[w].grant = g => decide'[w] = decide[w],
           \A p \in Polls : poll'[p].grant = g => poll'[p] = poll[p] \/ SaysNo(poll'[p])
    PROVE  DenialStands(g)'
BY DEF DeviceInv, DenialStands

LEMMA StartKeeps == ASSUME DeviceInv, NEW g \in Grants, StartDeviceAuthorization(g) PROVE DeviceInv'
<1>1. PICK a : a = [status |-> "pending", user |-> None, exp |-> clock + TTL, last |-> Never, interval |-> Interval]
  OBVIOUS
<1>2. a \in Authorization
  BY <1>1, DeviceTypes, DeviceAssumption DEF StartDeviceAuthorization, Authorization, Never, MaxInterval
<1>3. row' = [row EXCEPT ![g] = a] /\ UNCHANGED <<clock, poll, decide, answered, delivered, lost, denied>>
  BY <1>1 DEF StartDeviceAuthorization
<1>4. row[g] = None /\ g \notin answered
  BY DEF StartDeviceAuthorization, started
<1>5. DeviceTypeOK'
  BY <1>2, <1>3, DeviceTypes DEF DeviceInv, DeviceTypeOK
<1>6. g \notin denied
  BY <1>4 DEF DeviceInv, DenialStands
<1>7. ASSUME NEW h \in denied PROVE DenialStands(h)'
  <2>1. h # g /\ h \in Grants /\ DenialStands(h)
    BY <1>6, DeviceTypes DEF DeviceInv
  <2>2. row'[h] = row[h]
    BY <1>3, <2>1, DeviceTypes
  <2>. QED  BY <2>1, <2>2, <1>3 DEF DenialStands
<1>8. ASSUME OnePoll, NEW h \in Grants PROVE OnceOnly(h)'
  <2>1. OnceOnly(h)
    BY <1>8 DEF DeviceInv
  <2>2. h # g => row'[h] = row[h]
    BY <1>3, DeviceTypes
  <2>. QED  BY <2>1, <2>2, <1>3, <1>4 DEF OnceOnly
<1>. QED  BY <1>3, <1>5, <1>7, <1>8 DEF DeviceInv, OnePoll

LEMMA LookupKeeps ==
    ASSUME DeviceInv, NEW w \in Deciders, NEW g \in Grants, NEW to \in {"approved", "denied"},
           NEW u \in Users \cup {None}, Lookup(w, g, to, u)
    PROVE  DeviceInv'
<1>1. PICK d : d = [to |-> to, grant |-> g, read |-> row[g], user |-> u]
  OBVIOUS
<1>2. /\ row[g] \in Authorization /\ row[g].status = "pending" /\ decide' = [decide EXCEPT ![w] = d]
      /\ UNCHANGED <<clock, row, poll, answered, delivered, lost, denied>>
  BY <1>1, DeviceTypes DEF Lookup, pendingByUserCode
<1>3. d \in Decision /\ HasRead(d) /\ d.grant = g
  BY <1>1, <1>2 DEF Decision, HasRead
<1>4. Turned(w, d) /\ decide' \in [Deciders -> Decision]
  BY <1>2, <1>3, DeviceTypes DEF Turned
<1>5. g \notin denied
  BY <1>2, DeviceTypes DEF DeviceInv, DenialStands
<1>6. \A h \in denied : DenialStands(h)'
  BY <1>2, <1>3, <1>4, <1>5 DEF DeviceInv, DenialStands, Turned
<1>7. OnePoll => \A h \in Grants : OnceOnly(h)'
  BY <1>2 DEF DeviceInv, OnceOnly
<1>8. DeviceTypeOK'
  BY <1>2, <1>4 DEF DeviceInv, DeviceTypeOK
<1>. QED  BY <1>2, <1>3, <1>4, <1>6, <1>7, <1>8 DEF DeviceInv, Turned, OnePoll

\* A decision returns: the row, if it is there, is as decided.
LEMMA DecisionReturns ==
    ASSUME DeviceInv, NEW w \in Deciders, NEW g \in Grants, decide[w].grant = g, NEW r \in Authorization,
           UpdateDeviceAuthorization(g, r), decide' = [decide EXCEPT ![w] = NoDecision],
           denied' = denied \/ (denied' = denied \cup {g} /\ row[g] # None /\ r.status = "denied" /\ Unraced(w, g)),
           UNCHANGED <<clock, poll, answered, delivered, lost>>
    PROVE  DeviceInv'
<1>1. /\ row' \in [Grants -> Authorization \cup {None}]
      /\ \A h \in Grants : row'[h] = None <=> row[h] = None
      /\ \A h \in Grants : row'[h] = row[h] \/ (h = g /\ row'[h] = r)
  BY RowUpdated
<1>2. Turned(w, NoDecision) /\ decide' \in [Deciders -> Decision]
  BY AtRest, DeviceTypes DEF Turned
<1>3. denied \subseteq denied' /\ denied' \subseteq Grants
  BY DeviceTypes
<1>4. g \notin denied
  BY DEF DeviceInv, DenialStands
<1>5. ASSUME NEW h \in denied' PROVE DenialStands(h)'
  <2>1. CASE h # g
    <3>1. h \in denied /\ row'[h] = row[h] /\ DenialStands(h)
      BY <2>1, <1>1, <1>3 DEF DeviceInv
    <3>2. \A v \in Deciders : decide'[v].grant # h
      BY <3>1, <1>2, <1>3, AtRest, DeviceTypes DEF Turned, DenialStands
    <3>. QED  BY <3>1, <3>2 DEF DenialStands
  <2>2. CASE h = g
    <3>1. row[g] # None /\ r.status = "denied" /\ Unraced(w, g)
      BY <2>2, <1>4, <1>5
    <3>2. row'[g] # None /\ row'[g] = r
      BY <3>1, DeviceTypes DEF UpdateDeviceAuthorization
    <3>3. \A v \in Deciders : decide'[v].grant # g
      BY <3>1, <1>2, AtRest, DeviceTypes DEF Turned, Unraced
    <3>. QED  BY <2>2, <3>1, <3>2, <3>3 DEF DenialStands, Unraced
  <2>. QED  BY <2>1, <2>2
<1>6. OnePoll => \A h \in Grants : OnceOnly(h)'
  BY <1>1 DEF DeviceInv, OnceOnly
<1>7. DeviceTypeOK'
  BY <1>1, <1>2, <1>3 DEF DeviceInv, DeviceTypeOK
<1>8. \A v \in Deciders : HasRead(decide'[v])
  BY <1>2, AtRest DEF DeviceInv, HasRead, Turned
<1>. QED  BY <1>3, <1>5, <1>6, <1>7, <1>8 DEF DeviceInv, OnePoll

LEMMA ApproveKeeps == ASSUME DeviceInv, NEW w \in Deciders, ApproveDeviceAuthorization(w) PROVE DeviceInv'
<1>1. PICK d : d = decide[w]
  OBVIOUS
<1>2. d.to = "approved" /\ d \in Decision /\ HasRead(d)
  BY <1>1, DeviceTypes DEF DeviceInv, ApproveDeviceAuthorization
<1>3. d.grant \in Grants /\ d.read \in Authorization /\ d.user \in Users \cup {None}
  BY <1>2 DEF HasRead, Decision
<1>4. PICK r : r = [d.read EXCEPT !.status = "approved", !.user = d.user]
  OBVIOUS
<1>5. r \in Authorization
  BY <1>3, <1>4 DEF Authorization
<1>6. UpdateDeviceAuthorization(d.grant, r) /\ decide' = [decide EXCEPT ![w] = NoDecision]
  BY <1>1, <1>4 DEF ApproveDeviceAuthorization
<1>7. UNCHANGED <<clock, poll, answered, delivered, lost, denied>>
  BY DEF ApproveDeviceAuthorization
<1>. QED  BY <1>1, <1>3, <1>5, <1>6, <1>7, DecisionReturns

LEMMA DenyKeeps == ASSUME DeviceInv, NEW w \in Deciders, DenyDeviceAuthorization(w) PROVE DeviceInv'
<1>1. PICK d : d = decide[w]
  OBVIOUS
<1>2. d.to = "denied" /\ HasRead(d)
  BY <1>1 DEF DeviceInv, DenyDeviceAuthorization
<1>3. d.grant \in Grants /\ d.read \in Authorization
  BY <1>2 DEF HasRead
<1>4. PICK r : r = [d.read EXCEPT !.status = "denied"]
  OBVIOUS
<1>5. r \in Authorization /\ r.status = "denied"
  BY <1>3, <1>4 DEF Authorization
<1>6. UpdateDeviceAuthorization(d.grant, r) /\ decide' = [decide EXCEPT ![w] = NoDecision]
  BY <1>1, <1>4 DEF DenyDeviceAuthorization
<1>7. UNCHANGED <<clock, poll, answered, delivered, lost>>
  BY DEF DenyDeviceAuthorization
<1>8. denied' = denied \/ (denied' = denied \cup {d.grant} /\ row[d.grant] # None /\ Unraced(w, d.grant))
  BY <1>1 DEF DenyDeviceAuthorization
<1>. QED  BY <1>1, <1>3, <1>5, <1>6, <1>7, <1>8, DecisionReturns

LEMMA PollKeeps ==
    ASSUME DeviceInv, NEW p \in Polls, NEW g \in Grants, PollDeviceToken(p, g)
    PROVE  DeviceInv'
<1>0. UNCHANGED <<clock, row, decide, delivered, lost, denied>>
  BY DEF PollDeviceToken
<1>1. CASE row[g] = None
  <2>1. answered' = answered \cup {g} /\ UNCHANGED poll
    BY <1>1 DEF PollDeviceToken
  <2>2. DeviceTypeOK'
    BY <1>0, <2>1 DEF DeviceInv, DeviceTypeOK
  <2>3. \A h \in denied : DenialStands(h)'
    BY <1>0, <2>1 DEF DeviceInv, DenialStands
  <2>4. OnePoll => \A h \in Grants : OnceOnly(h)'
    BY <1>0, <2>1 DEF DeviceInv, OnceOnly
  <2>. QED  BY <1>0, <2>1, <2>2, <2>3, <2>4 DEF DeviceInv, OnePoll
<1>2. CASE row[g] # None
  <2>1. PICK q : q = [pc |-> "read", grant |-> g, read |-> row[g], now |-> 0, afterDenial |-> g \in denied]
    OBVIOUS
  <2>2. row[g] \in Authorization /\ poll' = [poll EXCEPT ![p] = q] /\ UNCHANGED answered
    BY <1>2, <2>1, DeviceTypes DEF PollDeviceToken
  <2>3. q \in Poll /\ q.pc = "read" /\ q.grant = g /\ q.read = row[g]
    BY <2>1, <2>2, DeviceTypes DEF Poll
  <2>4. q.afterDenial => g \in denied
    BY <2>1
  <2>5. Turns(p, q) /\ poll' \in [Polls -> Poll]
    BY <2>2, <2>3, DeviceTypes DEF Turns
  <2>6. DeviceTypeOK'
    BY <1>0, <2>2, <2>5 DEF DeviceInv, DeviceTypeOK
  <2>7. ASSUME NEW h \in denied PROVE DenialStands(h)'
    <3>1. DenialStands(h)
      BY DEF DeviceInv
    <3>2. h = g => SaysNo(q)
      BY <1>2, <2>3, <3>1 DEF DenialStands, SaysNo
    <3>. QED  BY <1>0, <2>2, <2>3, <2>5, <3>1, <3>2 DEF DenialStands, Turns
  <2>8. ASSUME OnePoll, NEW h \in Grants PROVE OnceOnly(h)'
    <3>1. OnceOnly(h)
      BY <2>8 DEF DeviceInv
    <3>. QED  BY <1>0, <1>2, <2>2, <2>3, <2>5, <3>1 DEF OnceOnly, Turns
  <2>9. HasCopy(q)
    BY <2>2, <2>3 DEF HasCopy
  <2>. QED  BY <1>0, <2>3, <2>4, <2>5, <2>6, <2>7, <2>8, <2>9 DEF DeviceInv, OnePoll, Turns
<1>. QED  BY <1>1, <1>2

LEMMA JudgeKeeps == ASSUME DeviceInv, NEW p \in Polls, Judge(p) PROVE DeviceInv'
<1>1. PICK o : o = poll[p]
  OBVIOUS
<1>2. PICK k : k = Outcome(o.read, clock)
  OBVIOUS
<1>3. PICK q : q = [o EXCEPT !.pc = k, !.now = clock]
  OBVIOUS
<1>4. /\ o \in Poll /\ o.pc = "read" /\ HasCopy(o) /\ poll' = [poll EXCEPT ![p] = q]
      /\ UNCHANGED <<clock, row, decide, answered, delivered, lost, denied>>
  BY <1>1, <1>2, <1>3, DeviceTypes DEF Judge, DeviceInv
<1>5. o.grant \in Grants /\ o.read \in Authorization
  BY <1>4 DEF HasCopy
<1>6. k \in {"expired", "slow"} \/ k = o.read.status
  BY <1>2 DEF Outcome
<1>7. k \in Outcomes
  BY <1>5, <1>6 DEF Authorization, Outcomes
<1>8. q \in Poll /\ q.pc = k /\ q.grant = o.grant /\ q.read = o.read
  <2>1. clock \in 0 .. MaxTime
    BY DeviceTypes
  <2>. QED  BY <1>3, <1>4, <1>7, <2>1 DEF Poll
<1>9. q.afterDenial = o.afterDenial
  BY <1>3, <1>4, Zenon DEF Poll
<1>10. HasCopy(q)
  BY <1>5, <1>7, <1>8 DEF HasCopy, Outcomes
<1>11. Turns(p, q) /\ poll' \in [Polls -> Poll]
  BY <1>4, <1>8, DeviceTypes DEF Turns
<1>12. DeviceTypeOK'
  BY <1>4, <1>11 DEF DeviceInv, DeviceTypeOK
<1>13. ASSUME NEW h \in denied PROVE DenialStands(h)'
  <2>1. DenialStands(h)
    BY DEF DeviceInv
  <2>2. ASSUME q.grant = h PROVE SaysNo(q)
    <3>1. poll[p].grant = h
      BY <1>1, <1>8, <2>2
    <3>2. SaysNo(o)
      BY <1>1, <2>1, <3>1 DEF DenialStands
    <3>3. o.read.status = "denied" /\ q.read = o.read /\ q.pc = k
      BY <1>8, <3>2 DEF SaysNo
    <3>. QED  BY <1>6, <3>3 DEF SaysNo
  <2>. QED  BY <1>4, <1>11, <2>1, <2>2 DEF DenialStands, Turns
<1>14. ASSUME OnePoll, NEW h \in Grants PROVE OnceOnly(h)'
  <2>1. OnceOnly(h)
    BY <1>14 DEF DeviceInv
  <2>. QED  BY <1>1, <1>4, <1>8, <1>11, <2>1 DEF OnceOnly, Turns
<1>15. ASSUME NEW i \in Polls, poll'[i].afterDenial PROVE poll'[i].grant \in denied
  <2>1. CASE i = p
    BY <2>1, <1>1, <1>8, <1>9, <1>11, <1>15 DEF DeviceInv, Turns
  <2>2. CASE i # p
    BY <2>2, <1>11, <1>15 DEF DeviceInv, Turns
  <2>. QED  BY <2>1, <2>2
<1>. QED  BY <1>4, <1>10, <1>11, <1>12, <1>13, <1>14, <1>15 DEF DeviceInv, OnePoll, Turns

LEMMA AnswerLaterKeeps == ASSUME DeviceInv, NEW p \in Polls, AnswerLater(p) PROVE DeviceInv'
<1>1. PICK q : q = poll[p]
  OBVIOUS
<1>2. /\ q.pc \in {"slow", "pending"} /\ q \in Poll /\ HasCopy(q) /\ poll' = [poll EXCEPT ![p] = IdlePoll]
      /\ UNCHANGED <<clock, decide, answered, delivered, lost, denied>>
  BY <1>1, DeviceTypes DEF AnswerLater, DeviceInv
<1>3. q.grant \in Grants /\ q.read \in Authorization /\ q.now \in 0 .. MaxTime
  BY <1>2 DEF HasCopy, Poll
<1>4. Polled(q.read, q.now) \in Authorization /\ Polled(q.read, q.now).status = q.read.status
  BY <1>3, DeviceTypes DEF Polled, Authorization, Never
<1>5. \A i \in 0 .. MaxInterval : Slower(i) \in 0 .. MaxInterval
  BY DeviceTypes DEF Slower, MaxInterval
<1>6. PICK r \in Authorization : r.status = q.read.status /\ (UpdateDeviceAuthorization(q.grant, r) \/ UNCHANGED row)
  <2>1. PICK s : s = Polled(q.read, q.now)
    OBVIOUS
  <2>2. PICK t : t = [s EXCEPT !.interval = Slower(s.interval)]
    OBVIOUS
  <2>3. s \in Authorization /\ s.status = q.read.status
    BY <1>4, <2>1
  <2>4. t \in Authorization /\ t.status = q.read.status
    BY <1>5, <2>2, <2>3 DEF Authorization
  <2>5. \/ UpdateDeviceAuthorization(q.grant, t) \/ UpdateDeviceAuthorization(q.grant, s)
        \/ UNCHANGED row
    BY <1>1, <2>1, <2>2 DEF AnswerLater
  <2>. QED  BY <2>3, <2>4, <2>5
<1>7. /\ row' \in [Grants -> Authorization \cup {None}]
      /\ \A h \in Grants : row'[h] = None <=> row[h] = None
      /\ \A h \in Grants : row'[h] = row[h] \/ (h = q.grant /\ row'[h] = r)
  BY <1>3, <1>6, RowUpdated
<1>8. Turns(p, IdlePoll) /\ poll' \in [Polls -> Poll]
  BY <1>2, AtRest, DeviceTypes DEF Turns
<1>9. DeviceTypeOK'
  BY <1>2, <1>7, <1>8 DEF DeviceInv, DeviceTypeOK
<1>10. ASSUME NEW h \in denied PROVE DenialStands(h)'
  <2>1. DenialStands(h) /\ h \in Grants
    BY DeviceTypes DEF DeviceInv
  <2>2. q.grant = h => r.status = "denied"
    BY <1>1, <1>6, <2>1 DEF DenialStands, SaysNo
  <2>3. row'[h] # None => row'[h].status = "denied"
    BY <1>7, <2>1, <2>2 DEF DenialStands
  <2>4. \A i \in Polls : poll'[i].grant = h => poll'[i] = poll[i]
    BY <1>8, <2>1, AtRest, DeviceTypes DEF Turns
  <2>. QED  BY <1>2, <1>7, <2>1, <2>3, <2>4 DEF DenialStands
<1>11. ASSUME OnePoll, NEW h \in Grants PROVE OnceOnly(h)'
  <2>1. OnceOnly(h)
    BY <1>11 DEF DeviceInv
  <2>2. \A i \in Polls : poll'[i].grant = h => poll'[i] = poll[i]
    BY <1>8, AtRest, DeviceTypes DEF Turns
  <2>. QED  BY <1>2, <1>7, <2>1, <2>2 DEF OnceOnly
<1>12. \A i \in Polls : HasCopy(poll'[i]) /\ (poll'[i].afterDenial => poll'[i].grant \in denied)
  BY <1>8, AtRest DEF DeviceInv, HasCopy, Turns
<1>. QED  BY <1>2, <1>9, <1>10, <1>11, <1>12 DEF DeviceInv, OnePoll

LEMMA AnswerFinallyKeeps == ASSUME DeviceInv, NEW p \in Polls, AnswerFinally(p) PROVE DeviceInv'
<1>1. PICK q : q = poll[p]
  OBVIOUS
<1>2. PICK g : g = q.grant
  OBVIOUS
<1>3. /\ q.pc \in {"expired", "denied", "approved"} /\ HasCopy(q) /\ poll' = [poll EXCEPT ![p] = IdlePoll]
      /\ answered' = answered \cup {g} /\ UNCHANGED <<clock, decide, denied>>
  BY <1>1, <1>2 DEF AnswerFinally, DeviceInv
<1>4. g \in Grants
  BY <1>2, <1>3 DEF HasCopy
<1>5. (row' = [row EXCEPT ![g] = None] /\ UNCHANGED lost) \/ (UNCHANGED row /\ lost' = lost \cup {g})
  BY <1>1, <1>2 DEF AnswerFinally, DeleteDeviceAuthorization
<1>6. \/ UNCHANGED delivered
      \/ delivered[g] < 2 /\ delivered' = [delivered EXCEPT ![g] = delivered[g] + 1]
  BY <1>1, <1>2 DEF AnswerFinally
<1>7. /\ delivered' \in [Grants -> 0 .. 2] /\ \A h \in Grants \ {g} : delivered'[h] = delivered[h]
      /\ delivered'[g] <= delivered[g] + 1
  BY <1>4, <1>6, DeviceTypes
<1>8. row' \in [Grants -> Authorization \cup {None}] /\ \A h \in Grants : row'[h] = row[h] \/ (h = g /\ row'[h] = None)
  BY <1>4, <1>5, DeviceTypes
<1>9. Turns(p, IdlePoll) /\ poll' \in [Polls -> Poll]
  BY <1>3, AtRest, DeviceTypes DEF Turns
<1>10. DeviceTypeOK'
  BY <1>3, <1>4, <1>5, <1>7, <1>8, <1>9, DeviceTypes DEF DeviceInv, DeviceTypeOK
<1>11. ASSUME NEW h \in Grants PROVE \A i \in Polls : poll'[i].grant = h => poll'[i] = poll[i]
  BY <1>9, AtRest, DeviceTypes DEF Turns
<1>12. ASSUME NEW h \in denied PROVE DenialStands(h)'
  <2>1. DenialStands(h) /\ h \in Grants
    BY DeviceTypes DEF DeviceInv
  <2>2. row'[h] = None => h \in answered'
    BY <1>3, <1>8, <2>1 DEF DenialStands
  <2>3. row'[h] # None => row'[h].status = "denied"
    BY <1>8, <2>1 DEF DenialStands
  <2>. QED  BY <1>3, <1>11, <2>1, <2>2, <2>3 DEF DenialStands
<1>13. ASSUME OnePoll, NEW h \in Grants PROVE OnceOnly(h)'
  <2>1. OnceOnly(h)
    BY <1>13 DEF DeviceInv
  <2>2. CASE h # g
    BY <1>3, <1>4, <1>5, <1>7, <1>8, <1>11, <2>1, <2>2 DEF OnceOnly
  <2>3. CASE h = g
    <3>1. SUFFICES ASSUME g \notin lost' PROVE OnceOnly(g)'
      BY <2>3 DEF OnceOnly
    <3>2. g \notin lost /\ row'[g] = None
      BY <1>4, <1>5, <3>1, DeviceTypes
    <3>3. delivered[g] = 0
      BY <1>1, <1>2, <1>4, <2>1, <2>3, <3>2, DeviceTypes DEF OnceOnly
    <3>4. \A i \in Polls : poll'[i].grant # g
      BY <1>4, <1>9, <1>13, AtRest, DeviceTypes DEF Turns, OnePoll
    <3>. QED  BY <1>3, <1>4, <1>7, <3>2, <3>3, <3>4, DeviceTypes DEF OnceOnly
  <2>. QED  BY <2>2, <2>3
<1>14. \A i \in Polls : HasCopy(poll'[i]) /\ (poll'[i].afterDenial => poll'[i].grant \in denied)
  BY <1>9, AtRest DEF DeviceInv, HasCopy, Turns
<1>. QED  BY <1>3, <1>10, <1>12, <1>13, <1>14 DEF DeviceInv, OnePoll

-----------------------------------------------------------------------------
LEMMA DeviceSteps == ASSUME DeviceInv, [DeviceNext]_deviceVars PROVE DeviceInv'
<1>1. ASSUME NEW g \in Grants, StartDeviceAuthorization(g) PROVE DeviceInv'
  BY <1>1, StartKeeps
<1>2. ASSUME NEW w \in Deciders, NEW g \in Grants, Lookup(w, g, "denied", None) PROVE DeviceInv'
  BY <1>2, LookupKeeps
<1>3. ASSUME NEW w \in Deciders, NEW g \in Grants, NEW u \in Users, Lookup(w, g, "approved", u) PROVE DeviceInv'
  BY <1>3, LookupKeeps
<1>4. ASSUME NEW w \in Deciders, Decide(w) PROVE DeviceInv'
  BY <1>4, ApproveKeeps, DenyKeeps DEF Decide
<1>5. ASSUME NEW p \in Polls, NEW g \in Grants, PollDeviceToken(p, g) PROVE DeviceInv'
  BY <1>5, PollKeeps
<1>6. ASSUME NEW p \in Polls, Answer(p) PROVE DeviceInv'
  BY <1>6, JudgeKeeps, AnswerLaterKeeps, AnswerFinallyKeeps DEF Answer
<1>7. CASE Tick
  <2>1. clock' \in 0 .. MaxTime /\ UNCHANGED <<row, poll, decide, answered, delivered, lost, denied>>
    BY <1>7, DeviceTypes DEF Tick
  <2>. QED  BY <2>1 DEF DeviceInv, DeviceTypeOK, DenialStands, OnceOnly, OnePoll
<1>8. CASE UNCHANGED deviceVars
  BY <1>8 DEF deviceVars, DeviceInv, DeviceTypeOK, DenialStands, OnceOnly, OnePoll
<1>. QED  BY <1>1, <1>2, <1>3, <1>4, <1>5, <1>6, <1>7, <1>8 DEF DeviceNext

LEMMA DeviceStarts == DeviceInit => DeviceInv
<1>. SUFFICES ASSUME DeviceInit PROVE DeviceInv
  OBVIOUS
<1>1. MaxTime \in Nat
  BY DeviceAssumption
<1>2. DeviceTypeOK
  BY <1>1, AtRest DEF DeviceInit, DeviceTypeOK
<1>3. \A p \in Polls : HasCopy(poll[p]) /\ poll[p].afterDenial = FALSE
  BY AtRest DEF DeviceInit, HasCopy
<1>4. \A w \in Deciders : HasRead(decide[w])
  BY AtRest DEF DeviceInit, HasRead
<1>5. \A g \in Grants : OnceOnly(g)
  BY DEF DeviceInit, OnceOnly
<1>. QED  BY <1>2, <1>3, <1>4, <1>5 DEF DeviceInv, DeviceInit

\* The invariant the results below rest on: what is under way has a copy of
\* its row, a denial made in peace can not be undone by any of them, and a CLI
\* that polls one at a time has no copy of the row of a user it was given.
THEOREM DeviceInvariant == DeviceSpec => []DeviceInv
BY DeviceStarts, DeviceSteps, PTL DEF DeviceSpec

\* The rows and the copies of them are well typed: a row written back from an
\* old read (PollDeviceToken, ApproveDeviceAuthorization) is a row.
THEOREM DeviceTypeCorrect == DeviceSpec => []DeviceTypeOK
<1>1. DeviceInv => DeviceTypeOK
  BY DEF DeviceInv
<1>. QED  BY <1>1, DeviceInvariant, PTL

\* A denial made while nothing else held a copy of the row is final
\* (DenyDeviceAuthorization): no poll begun after it comes back with a user,
\* for any number of polls, decisions, users and grants.
THEOREM DeviceDenialHolds == DeviceSpec => []DenialHolds
<1>1. DeviceInv => DenialHolds
  BY DEF DeviceInv, DenialHolds, DenialStands, SaysNo
<1>. QED  BY <1>1, DeviceInvariant, PTL

\* A CLI that polls one at a time is given the user of a device code at most
\* once (PollDeviceToken), whatever decisions race it, unless the delete of
\* the row was lost.
THEOREM DeviceOneDelivery == ASSUME OnePoll PROVE DeviceSpec => []OneDelivery
<1>1. DeviceInv => OneDelivery
  BY DeviceTypes, OnePoll DEF DeviceInv, OneDelivery, OnceOnly
<1>. QED  BY <1>1, DeviceInvariant, PTL

=============================================================================
