------------------------------- MODULE Browser -------------------------------
(***************************************************************************)
(* One browser and the HTTP middleware (authithttp): SessionMiddleware     *)
(* behind CSRFProtect, both working on cookies. A request carries what the *)
(* jar holds when it is sent; its answer says what to do to the jar, and   *)
(* the answers of concurrent requests arrive in any order. In between the  *)
(* session may end on the server.                                          *)
(***************************************************************************)
EXTENDS Integers, FiniteSets

CONSTANTS
    Sess,      \* opaque session tokens
    Csrfs,     \* double-submit tokens
    Requests,  \* requests under way at one time, and the pages they leave
    Setups,    \* bound: the middleware's options
    Empty       \* no cookie, no page

\* sliding: Cookie.MaxAge > 0. strict: TokenCookie.SameSite, which is Strict by
\* default. allowMissing: CSRFOptions.AllowMissingOrigin.
Setup == [sliding : BOOLEAN, optional : BOOLEAN, doubleSubmit : BOOLEAN, strict : BOOLEAN, allowMissing : BOOLEAN]

\* What an answer that leaves the session cookie alone does to it.
Leave == "leave"

ASSUME BrowserAssumption ==
    /\ Empty \notin Sess \cup Csrfs \cup {Leave}
    /\ Leave \notin Sess
    /\ Setups \subseteq Setup

VARIABLES
    setup,     \* the middleware's options; they never change
    server,    \* the sessions, on the server
    jar,       \* the session cookie the browser holds
    csrf,      \* the double-submit cookie it holds
    page,      \* the token rendered into each page on display
    req,       \* the requests
    signedIn,  \* history: the session of the last sign-in whose answer has arrived
    lateFor,   \* history: sessions whose cookie an answer to an earlier request changed
    outrun     \* history: pages asked for before an answer that made a new token

bvars == <<setup, server, jar, csrf, page, req, signedIn, lateFor, outrun>>

(***************************************************************************)
(* Origin, or Referer where there is no Origin: the request's own host, a  *)
(* trusted origin, another one, one the browser withholds, or missing; and *)
(* Sec-Fetch-Site.                                                         *)
(***************************************************************************)
Headers == [origin : {"host", "trusted", "other", "null", "missing"}, site : {"same", "cross", "missing"}]

\* What a browser sends along with a form of this site's own page, of another
\* site's, and of a site in TrustedOrigins.
Own(h) == h.origin \in {"host", "missing"} /\ h.site \in {"same", "missing"}
Foreign(h) == h.origin \in {"other", "null", "missing"} /\ h.site \in {"cross", "missing"}
Trusted(h) == h.origin = "trusted" /\ h.site = "cross"

\* An unsafe request brings the token of the page it was sent from, if any.
\* A sign-in brings a session along. set: what the answer does to the
\* session cookie, Leave nothing and Empty clear it. mint: the double-submit
\* cookie it sets. own: sent by this site's page. at: signedIn when the
\* request was sent. over: since the page was asked for, an answer to a visit
\* that came without a double-submit cookie has set a new one.
Kinds == {"page", "signIn", "signOut", "act"}

Request ==
    [pc : {"idle", "sent", "answered"}, kind : Kinds, cookie : Sess \cup {Empty}, token : Csrfs \cup {Empty},
     sent : Csrfs \cup {Empty}, headers : Headers, set : Sess \cup {Empty, Leave}, mint : Csrfs \cup {Empty},
     own : BOOLEAN, ok : BOOLEAN, at : Sess \cup {Empty}, over : BOOLEAN]

NoHeaders == [origin |-> "missing", site |-> "missing"]

NoRequest ==
    [pc |-> "idle", kind |-> "page", cookie |-> Empty, token |-> Empty, sent |-> Empty, headers |-> NoHeaders,
     set |-> Leave, mint |-> Empty, own |-> TRUE, ok |-> FALSE, at |-> Empty, over |-> FALSE]

BTypeOK ==
    /\ setup \in Setup
    /\ server \in [Sess -> {"none", "live", "ended"}]
    /\ jar \in Sess \cup {Empty}
    /\ csrf \in Csrfs \cup {Empty}
    /\ page \in [Requests -> Csrfs \cup {Empty}]
    /\ req \in [Requests -> Request]
    /\ signedIn \in Sess \cup {Empty}
    /\ lateFor \subseteq Sess
    /\ outrun \subseteq Requests

BInit ==
    /\ setup \in Setups
    /\ server = [s \in Sess |-> "none"]
    /\ jar = Empty
    /\ csrf = Empty
    /\ page = [r \in Requests |-> Empty]
    /\ req = [r \in Requests |-> NoRequest]
    /\ signedIn = Empty
    /\ lateFor = {}
    /\ outrun = {}

-----------------------------------------------------------------------------
\* The cookies a request brings along. SameSite keeps some back from one that
\* starts on another site: off a link, those that are Strict (the session's is
\* Lax); off a form, both, in a browser that heeds it and unless the other
\* site is a sibling subdomain.
Carried(kind, abroad) ==
    LET all == <<jar, csrf>>
    IN  CASE abroad /\ kind = "page" -> {<<jar, IF setup.strict THEN Empty ELSE csrf>>}
          [] abroad /\ kind # "page" -> {all, <<Empty, Empty>>}
          [] OTHER -> {all}

\* The browser sends a request, from the page on display in its own slot. A
\* form carries that page's token; the page stays until the answer. A page may
\* be asked for through a link on another site.
Send(r) ==
    /\ req[r].pc = "idle"
    /\ \E kind \in Kinds, h \in Headers, abroad \in BOOLEAN : \E with \in Carried(kind, abroad) :
         /\ kind = "page" => h = NoHeaders
         /\ kind = "act" => IF abroad THEN Trusted(h) ELSE Own(h)
         /\ kind \in {"signIn", "signOut"} => Own(h) /\ h.origin = "host" /\ ~abroad
         /\ req' = [req EXCEPT ![r] = [NoRequest EXCEPT !.pc = "sent", !.kind = kind, !.cookie = with[1],
                                         !.token = with[2], !.sent = IF kind = "page" THEN Empty ELSE page[r],
                                         !.headers = h, !.at = signedIn]]
    /\ UNCHANGED <<setup, server, jar, csrf, page, signedIn, lateFor, outrun>>

\* Another site's page makes the browser send one.
SendForeign(r) ==
    /\ req[r].pc = "idle"
    /\ \E h \in Headers, with \in Carried("act", TRUE) :
         /\ Foreign(h)
         /\ req' = [req EXCEPT ![r] = [NoRequest EXCEPT !.pc = "sent", !.kind = "act", !.cookie = with[1],
                                         !.token = with[2], !.headers = h, !.own = FALSE, !.at = signedIn]]
    /\ UNCHANGED <<setup, server, jar, csrf, page, signedIn, lateFor, outrun>>

-----------------------------------------------------------------------------
(***************************************************************************)
(* The server.                                                             *)
(***************************************************************************)
sameOrigin(h) ==
    CASE h.origin = "missing" -> h.site = "same" \/ (h.site = "missing" /\ setup.allowMissing)
      [] OTHER -> h.origin \in {"host", "trusted"}

\* What CSRFProtect lets through.
CSRFProtect(q) ==
    \/ q.kind = "page"
    \/ /\ sameOrigin(q.headers)
       /\ setup.doubleSubmit => q.token # Empty /\ q.sent = q.token

\* A plausible bug: every page gets a token of its own.
MintsAlways(q) ==
    IF setup.doubleSubmit
      THEN {t \in Csrfs : t # csrf /\ \A r \in Requests : t \notin {page[r], req[r].mint, req[r].token, req[r].sent}}
      ELSE {Empty}

\* The token cookie set for a request that carried none. rand.Text never
\* gives the same token twice.
Mint(q) ==
    IF setup.doubleSubmit /\ q.token = Empty
      THEN {t \in Csrfs : t # csrf /\ \A r \in Requests : t \notin {page[r], req[r].mint, req[r].token, req[r].sent}}
      ELSE {Empty}

\* ValidateSession and StatusFor. A store that fails gives 500.
StatusFor(q) == IF q.cookie # Empty /\ server[q.cookie] = "live" THEN {200, 500}
                ELSE IF q.cookie = Empty THEN {401} ELSE {401, 500}

\* A plausible bug: any failure clears the cookie.
ClearsOnFailure(q, status) ==
    IF status = 200 THEN {IF setup.sliding THEN q.cookie ELSE Leave} ELSE {Empty}

\* What SessionMiddleware does to the cookie before, or instead of, the
\* handler. slideCookie leaves one about to expire alone.
CookieFor(q, status) ==
    CASE status = 200 -> IF setup.sliding THEN {q.cookie, Leave} ELSE {Leave}
      [] status = 401 -> IF q.cookie # Empty THEN {Empty} ELSE {Leave}
      [] OTHER -> {Leave}

\* What is left of a request of this site's once it is answered: nobody reads
\* what it carried any more.
Answered(q) ==
    [q EXCEPT !.pc = "answered", !.cookie = Empty, !.sent = Empty,
              !.headers = IF q.own THEN NoHeaders ELSE @]

\* The request is refused or serves a page, and changes nothing on the
\* server. Optional serves a page without a session, too.
Answer(r, answers) ==
    /\ req' = [req EXCEPT ![r] = answers]
    /\ UNCHANGED <<setup, jar, csrf, page, signedIn, lateFor, outrun>>

Refuse(r) ==
    /\ req[r].pc = "sent"
    /\ ~CSRFProtect(req[r])
    /\ Answer(r, Answered(req[r]))
    /\ UNCHANGED server

Serve(r) ==
    LET q == req[r] IN
    /\ q.pc = "sent"
    /\ CSRFProtect(q)
    /\ \E t \in Mint(q), status \in StatusFor(q) : \E set \in CookieFor(q, status) :
         Answer(r, [Answered(q) EXCEPT !.set = set, !.mint = t,
                                       !.ok = status = 200 \/ (status = 401 /\ setup.optional)])
    /\ q.kind \in {"page", "act"}
    /\ UNCHANGED server

\* The host's sign-in route is behind CSRFProtect only: a session is issued
\* and SetSessionCookie writes it.
SignIn(r) ==
    LET q == req[r] IN
    /\ q.pc = "sent" /\ q.kind = "signIn"
    /\ CSRFProtect(q)
    /\ \E s \in Sess, t \in Mint(q) :
         /\ server[s] = "none"
         /\ server' = [server EXCEPT ![s] = "live"]
         /\ Answer(r, [Answered(q) EXCEPT !.set = s, !.mint = t, !.ok = TRUE])

\* And its sign-out route: the session is revoked, ClearSessionCookie.
SignOut(r) ==
    LET q == req[r] IN
    /\ q.pc = "sent" /\ q.kind = "signOut"
    /\ CSRFProtect(q)
    /\ server' = IF q.cookie # Empty THEN [server EXCEPT ![q.cookie] = "ended"] ELSE server
    /\ \E t \in Mint(q) : Answer(r, [Answered(q) EXCEPT !.set = Empty, !.mint = t, !.ok = TRUE])

\* A session expires, or is revoked from elsewhere.
End ==
    /\ \E s \in Sess : server[s] = "live" /\ server' = [server EXCEPT ![s] = "ended"]
    /\ UNCHANGED <<setup, jar, csrf, page, req, signedIn, lateFor, outrun>>

-----------------------------------------------------------------------------
\* An answer reaches the browser: the cookies, then the page.
Deliver(r) ==
    LET q == req[r]
        entered == q.kind = "signIn" /\ q.ok
        left == q.kind = "signOut" /\ q.ok
        token == IF q.mint # Empty THEN q.mint ELSE q.token
        shown == q.kind = "page" /\ q.ok
        anew == q.mint # Empty /\ q.token = Empty
    IN
    /\ q.pc = "answered"
    /\ jar' = IF q.set = Leave THEN jar ELSE q.set
    /\ csrf' = IF q.mint # Empty THEN q.mint ELSE csrf
    /\ page' = IF shown THEN [page EXCEPT ![r] = token] ELSE page
    /\ signedIn' = IF entered THEN q.set ELSE IF left THEN Empty ELSE signedIn
    /\ lateFor' = IF ~entered /\ q.at # signedIn /\ jar' # jar THEN lateFor \cup ({signedIn} \ {Empty})
                  ELSE lateFor
    /\ outrun' = {p \in Requests : IF p = r /\ shown THEN q.over /\ ~anew
                                    ELSE p \in outrun \/ (anew /\ page[p] # Empty)}
    /\ req' = [p \in Requests |-> IF p = r THEN NoRequest
                                  ELSE IF anew /\ req[p].pc # "idle" /\ req[p].kind = "page" THEN [req[p] EXCEPT !.over = TRUE]
                                  ELSE req[p]]
    /\ UNCHANGED <<setup, server>>

\* The answer is lost on the way, or the request was.
Lose(r) ==
    /\ req[r].pc # "idle"
    /\ req' = [req EXCEPT ![r] = NoRequest]
    /\ UNCHANGED <<setup, server, jar, csrf, page, signedIn, lateFor, outrun>>

BNext ==
    \/ End
    \/ \E r \in Requests :
         Send(r) \/ SendForeign(r) \/ Refuse(r) \/ Serve(r) \/ SignIn(r) \/ SignOut(r) \/ Deliver(r) \/ Lose(r)

-----------------------------------------------------------------------------
\* middleware.go:91-114. Once the answer to a sign-in has arrived, the
\* browser holds that session's cookie for as long as the session lives and
\* nobody signs out: neither a failing store nor a reissue takes it away. An
\* answer to a request sent before the sign-in may (middleware.go:147-150).
KeepsSignIn ==
    signedIn # Empty /\ server[signedIn] = "live" /\ signedIn \notin lateFor => jar = signedIn

\* csrf.go:92-172. The token in a page on display is the one in the cookie,
\* so its form is accepted, unless a visit that came without the cookie has been
\* answered since the page was asked for: a first visit or, the cookie being
\* Strict, one through another site's link. And no form of another site's page
\* is accepted, but where a browser that says nothing of where a request came
\* from is let through and no token is asked for.
FormsPass ==
    /\ \A r \in Requests \ outrun : page[r] # Empty => page[r] = csrf
    /\ \A r \in Requests :
         req[r].pc = "answered" /\ req[r].ok /\ ~req[r].own =>
           setup.allowMissing /\ req[r].headers = NoHeaders /\ ~setup.doubleSubmit
=============================================================================
