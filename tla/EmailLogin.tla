------------------------------ MODULE EmailLogin ------------------------------
(***************************************************************************)
(* Passwordless sign-in by magic link and by short code                    *)
(* (emaillogin/flow.go), for one address: the credentials issued to it and *)
(* the requests that issue, guess and redeem them. Every store call is a   *)
(* step of its own. The sign-up, which marks the credential used and       *)
(* creates the account, is one step when Stores.Tx is set, and two when it *)
(* is not.                                                                 *)
(*                                                                         *)
(* A token is its place in the order of CreatedAt, the time.Now issue      *)
(* takes before it creates the row. Two requests may create theirs the     *)
(* other way round, and which of two codes the store then holds to be the  *)
(* newer is its own affair: the SQL adapters go by CreatedAt, memstore by  *)
(* the order in which they were created. A code typed at RedeemSignInCode  *)
(* either is the code of the row read or is not; which of the two is all   *)
(* that the flow looks at.                                                 *)
(***************************************************************************)
EXTENDS Naturals, FiniteSets

CONSTANTS
    MaxTokens,        \* bound on credentials issued
    Requests,         \* concurrently running requests
    MaxCodeAttempts,  \* Config.MaxCodeAttempts
    Gone              \* there is no such row

ASSUME EmailLoginAssumption ==
    /\ MaxTokens \in Nat
    /\ MaxCodeAttempts \in Nat \ {0}

Kinds == {"link", "code"}

Tokens == 1 .. MaxTokens

\* hasTx: Stores.Tx is set. disableSignUp: Config.DisableSignUp.
\* byTime: the store orders codes by CreatedAt.
Conf == [hasTx : BOOLEAN, disableSignUp : BOOLEAN, byTime : BOOLEAN]

\* Attempts past the maximum are not told apart: they are only compared with it.
Row == [kind : Kinds, attempts : 0 .. MaxCodeAttempts, used : BOOLEAN, expired : BOOLEAN]

ASSUME GoneAssumption == Gone \notin Row

VARIABLES
    conf,      \* how the service is set up; it never changes
    tok,       \* the email_login_tokens table
    issued,    \* how many tokens have been numbered
    place,     \* the place of each token in the store's order, 0 before it is created
    account,   \* whether the address has an account
    req,       \* local state of each request
    redeemed,  \* history: sign-ins each token gave, 2 for more
    burned     \* history: codes destroyed for their wrong guesses

vars == <<conf, tok, issued, place, account, req, redeemed, burned>>

PCs == {"idle", "create", "wrong", "burn", "resolve", "mark", "signup", "user"}

Request == [pc : PCs, kind : Kinds, tok : 0 .. MaxTokens, seen : SUBSET Tokens]

Idle == [pc |-> "idle", kind |-> "link", tok |-> 0, seen |-> {}]

TypeOK ==
    /\ conf \in Conf
    /\ tok \in [Tokens -> Row \cup {Gone}]
    /\ issued \in 0 .. MaxTokens
    /\ place \in [Tokens -> Nat]
    /\ account \in BOOLEAN
    /\ req \in [Requests -> Request]
    /\ redeemed \in [Tokens -> 0 .. 2]
    /\ burned \subseteq Tokens

Init ==
    /\ conf \in Conf
    /\ tok = [t \in Tokens |-> Gone]
    /\ issued = 0
    /\ place = [t \in Tokens |-> 0]
    /\ account \in BOOLEAN
    /\ req = [r \in Requests |-> Idle]
    /\ redeemed = [t \in Tokens |-> 0]
    /\ burned = {}

-----------------------------------------------------------------------------
(***************************************************************************)
(* The store.                                                              *)
(***************************************************************************)
OfKind(k) == {t \in Tokens : tok[t] # Gone /\ tok[t].kind = k}

DeleteEmailLoginTokens(k) == tok' = [t \in Tokens |-> IF t \in OfKind(k) THEN Gone ELSE tok[t]]

\* A plausible bug: a used code is passed over, so an older one is found.
FindsUnused(t, k) ==
    LET S == {s \in OfKind(k) : ~tok[s].used} IN t \in S /\ \A s \in S : place[s] <= place[t]

\* Created after those created so far.
NextPlace == Cardinality({s \in Tokens : place[s] > 0}) + 1

\* GetEmailLoginTokenByEmail: the newest row of the kind in the store's
\* order, used or not.
GetEmailLoginTokenByEmail(t, k) ==
    t \in OfKind(k) /\ \A s \in OfKind(k) : place[s] <= place[t]

\* A plausible bug: a row that is gone counts as marked.
MarksGone(t) ==
    /\ IF tok[t] = Gone THEN TRUE ELSE ~tok[t].used
    /\ tok' = IF tok[t] = Gone THEN tok ELSE [tok EXCEPT ![t] = [@ EXCEPT !.used = TRUE]]

\* A plausible bug: an update in place of the compare-and-set.
MarksUsed(t) ==
    /\ tok[t] # Gone
    /\ tok' = [tok EXCEPT ![t] = [@ EXCEPT !.used = TRUE]]

\* Whether the compare-and-set can succeed.
Unused(t) == tok[t] # Gone /\ ~tok[t].used

MarkEmailLoginTokenUsed(t) ==
    /\ Unused(t)
    /\ tok' = [tok EXCEPT ![t] = [@ EXCEPT !.used = TRUE]]

\* The new count IncrementEmailLoginTokenAttempts returns.
Charged(n) == IF n < MaxCodeAttempts THEN n + 1 ELSE n

-----------------------------------------------------------------------------
Return(r) == req' = [req EXCEPT ![r] = Idle]

Goto(r, p) == req' = [req EXCEPT ![r] = [@ EXCEPT !.pc = p]]

\* The history of a sign-in with token t.
SignedIn(t) == redeemed' = [redeemed EXCEPT ![t] = IF @ < 2 THEN @ + 1 ELSE @]

\* RequestMagicLink and RequestSignInCode, as far as issue's deletion and the
\* time.Now that orders the new row.
issue(r, k) ==
    /\ req[r] = Idle
    /\ issued < MaxTokens
    /\ DeleteEmailLoginTokens(k)
    /\ issued' = issued + 1
    /\ req' = [req EXCEPT ![r] = [Idle EXCEPT !.pc = "create", !.kind = k, !.tok = issued + 1]]
    /\ UNCHANGED <<conf, account, redeemed, burned, place>>

CreateEmailLoginToken(r) ==
    /\ req[r].pc = "create"
    /\ tok' = [tok EXCEPT ![req[r].tok] = [kind |-> req[r].kind, attempts |-> 0,
                                           used |-> FALSE, expired |-> FALSE]]
    /\ place' = [place EXCEPT ![req[r].tok] = IF conf.byTime THEN req[r].tok ELSE NextPlace]
    /\ Return(r)
    /\ UNCHANGED <<conf, issued, account, redeemed, burned>>

usable(t) == ~tok[t].used /\ ~tok[t].expired

Redemptions == {t \in Tokens : redeemed[t] > 0}

RedeemMagicLink(r, t) ==
    /\ req[r] = Idle
    /\ t \in OfKind("link")
    /\ usable(t)
    /\ req' = [req EXCEPT ![r] = [pc |-> "resolve", kind |-> "link", tok |-> t,
                                  seen |-> Redemptions]]
    /\ UNCHANGED <<conf, tok, issued, account, redeemed, burned, place>>

RedeemSignInCode(r, t, right) ==
    /\ req[r] = Idle
    /\ GetEmailLoginTokenByEmail(t, "code")
    /\ usable(t)
    /\ req' = [req EXCEPT ![r] = [pc |-> IF right THEN "resolve" ELSE "wrong", kind |-> "code",
                                  tok |-> t, seen |-> Redemptions]]
    /\ UNCHANGED <<conf, tok, issued, account, redeemed, burned, place>>

\* A wrong code is counted; the count decides whether the code is burned.
IncrementEmailLoginTokenAttempts(r) ==
    LET t == req[r].tok
        n == Charged(tok[t].attempts)
    IN  /\ req[r].pc = "wrong"
        /\ IF tok[t] = Gone
           THEN Return(r) /\ UNCHANGED tok
           ELSE /\ tok' = [tok EXCEPT ![t] = [@ EXCEPT !.attempts = n]]
                /\ IF n >= MaxCodeAttempts THEN Goto(r, "burn") ELSE Return(r)
        /\ UNCHANGED <<conf, issued, account, redeemed, burned, place>>

\* Every code of the address goes, not only the one that was guessed.
Burn(r) ==
    /\ req[r].pc = "burn"
    /\ DeleteEmailLoginTokens("code")
    /\ burned' = burned \cup {req[r].tok}
    /\ Return(r)
    /\ UNCHANGED <<conf, issued, account, redeemed, place>>

\* consume's GetUserByEmail.
consume(r) ==
    /\ req[r].pc = "resolve"
    /\ \/ account /\ Goto(r, "mark")
       \/ ~account /\ conf.disableSignUp /\ Return(r)
       \/ ~account /\ ~conf.disableSignUp /\ Goto(r, "signup")
    /\ UNCHANGED <<conf, tok, issued, account, redeemed, burned, place>>

\* Winning the compare-and-set is the sign-in; losing it is ErrInvalidToken.
MarkExisting(r) ==
    LET t == req[r].tok
    IN  /\ req[r].pc = "mark"
        /\ \/ MarkEmailLoginTokenUsed(t) /\ SignedIn(t)
           \/ ~Unused(t) /\ UNCHANGED <<tok, redeemed>>
        /\ Return(r)
        /\ UNCHANGED <<conf, issued, account, burned, place>>

\* A plausible bug: a sign-up refused by the unique email keeps its mark.
KeepsMark(r) ==
    LET t == req[r].tok
    IN  /\ conf.hasTx
        /\ req[r].pc = "signup"
        /\ \/ /\ MarkEmailLoginTokenUsed(t)
              /\ account' = TRUE
              /\ IF account THEN UNCHANGED redeemed ELSE SignedIn(t)
           \/ ~Unused(t) /\ UNCHANGED <<tok, account, redeemed>>
        /\ Return(r)
        /\ UNCHANGED <<conf, issued, burned, place>>

\* Mark and account together, or neither: the mark is lost to another
\* redemption, or the address has an account by now (ErrConflict).
signUp(r) ==
    LET t == req[r].tok
    IN  /\ conf.hasTx
        /\ req[r].pc = "signup"
        /\ \/ ~account /\ MarkEmailLoginTokenUsed(t) /\ account' = TRUE /\ SignedIn(t)
           \/ (account \/ ~Unused(t)) /\ UNCHANGED <<tok, account, redeemed>>
        /\ Return(r)
        /\ UNCHANGED <<conf, issued, burned, place>>

\* The same without a TxRunner: the mark stays whatever comes of CreateUser.
SignUpMark(r) ==
    LET t == req[r].tok
    IN  /\ ~conf.hasTx
        /\ req[r].pc = "signup"
        /\ \/ MarkEmailLoginTokenUsed(t) /\ Goto(r, "user")
           \/ ~Unused(t) /\ Return(r) /\ UNCHANGED tok
        /\ UNCHANGED <<conf, issued, account, redeemed, burned, place>>

CreateUser(r) ==
    /\ req[r].pc = "user"
    /\ \/ ~account /\ account' = TRUE /\ SignedIn(req[r].tok)
       \/ account /\ UNCHANGED <<account, redeemed>>
    /\ Return(r)
    /\ UNCHANGED <<conf, tok, issued, burned, place>>

-----------------------------------------------------------------------------
\* The account is created by another flow (user.Register, oidc).
Register ==
    /\ ~account
    /\ account' = TRUE
    /\ UNCHANGED <<conf, tok, issued, req, redeemed, burned, place>>

\* ExpiresAt passes.
Expire(t) ==
    /\ tok[t] # Gone
    /\ ~tok[t].expired
    /\ tok' = [tok EXCEPT ![t] = [@ EXCEPT !.expired = TRUE]]
    /\ UNCHANGED <<conf, issued, account, req, redeemed, burned, place>>

\* The request ends early: its process, its context or a store call fails.
CutOff(r) ==
    /\ req[r] # Idle
    /\ Return(r)
    /\ UNCHANGED <<conf, tok, issued, account, redeemed, burned, place>>

Step(r) ==
    \/ CreateEmailLoginToken(r)
    \/ IncrementEmailLoginTokenAttempts(r)
    \/ Burn(r)
    \/ consume(r)
    \/ MarkExisting(r)
    \/ signUp(r)
    \/ SignUpMark(r)
    \/ CreateUser(r)
    \/ CutOff(r)

Next ==
    \/ \E r \in Requests : Step(r)
    \/ \E r \in Requests, k \in Kinds : issue(r, k)
    \/ \E r \in Requests, t \in Tokens : RedeemMagicLink(r, t)
    \/ \E r \in Requests, t \in Tokens, right \in BOOLEAN : RedeemSignInCode(r, t, right)
    \/ Register
    \/ \E t \in Tokens : Expire(t)

Spec == Init /\ [][Next]_vars

-----------------------------------------------------------------------------
(***************************************************************************)
(* Properties.                                                             *)
(***************************************************************************)

\* One link or code gives one sign-in, however many redemptions race and
\* whether or not Stores.Tx is set ("a check is not a claim", consume).
SingleUse == \A t \in Tokens : redeemed[t] <= 1

\* With a TxRunner no credential is spent for nothing: one that is marked used
\* has signed its owner in, crashes and lost races included ("a failed
\* CreateUser rolls the marking back and the user can try again", signUp).
SpentSignedIn ==
    conf.hasTx => \A t \in Tokens : tok[t] # Gone /\ tok[t].used => redeemed[t] = 1

\* One credential, one sign-in: never two, and none that was spent for none.
OneSignInEach == SingleUse /\ SpentSignedIn

\* A code burned for its wrong guesses signs nobody in, a redemption that had
\* read it before the burn included (RedeemSignInCode). It is the burn that
\* does it, and not the guess that spends the budget: nothing else looks at
\* the attempts, so a code still signs in between the two, and for good when
\* the burn fails. And without a TxRunner a sign-up that had won the mark
\* before the burn still creates its account.
BurnedStaysBurned ==
    [][\A t \in burned :
          redeemed'[t] # redeemed[t]
              => \E r \in Requests : req[r].pc = "user" /\ req[r].tok = t]_vars

\* The step that signs in with token t is one of request r.
SignsIn(r, t) ==
    req[r].tok = t /\ req'[r] # req[r] /\ redeemed'[t] # redeemed[t]

\* Once a code has signed its owner in, none that the store holds to be older
\* is redeemable: even where two requests have left two codes in the table,
\* only the newest is ever looked at, used or not (GetEmailLoginTokenByEmail).
\* With memstore the newest is the one created last, though its request may
\* have taken its time before the other's.
NoOlderCode ==
    [][\A r \in Requests, t \in Tokens :
          SignsIn(r, t) /\ req[r].kind = "code"
              => \A s \in req[r].seen :
                   place[s] > place[t] => tok[s] = Gone \/ tok[s].kind = "link"]_vars

=============================================================================
