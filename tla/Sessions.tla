------------------------------- MODULE Sessions -------------------------------
(***************************************************************************)
(* Sessions and forms (session.go, web.go) under concurrent requests of    *)
(* one browser, which a kiosk reset may replace by a new one.              *)
(*                                                                         *)
(* A request is sent with the cookie the browser then holds, is looked at, *)
(* may have its effect later, and its answer arrives later still, in any   *)
(* order with others.  The handlers lock the map of sessions per access.   *)
(* A session's id stands for its CSRF token too; NoSid is no cookie, and   *)
(* the empty token of a page that was rendered without a session.  A page  *)
(* is the account it shows and the token in its forms.                     *)
(***************************************************************************)
EXTENDS Naturals, FiniteSets

CONSTANTS
  Email,       \* accounts
  Sid,         \* bound: the random session ids of one history
  Request,     \* bound: requests under way at one time
  MaxReplaced, \* bound: kiosk resets
  MaxPages,    \* bound: pages open at one time
  NoEmail, NoSid, NoPage, Keep

ASSUME SessionsAssumption ==
  /\ MaxReplaced \in Nat /\ MaxPages \in Nat
  /\ NoEmail \notin Email /\ NoSid \notin Sid /\ Keep \notin Sid \cup {NoSid}
  /\ NoPage \notin Email \X (Sid \cup {NoSid})

VARIABLES
  sessions,   \* in memory: each id's account, or NoEmail
  used,       \* the ids made so far: they never repeat
  stale,      \* the sessions older than sessionTTL
  cookie,     \* the browser's session cookie
  pages,      \* the pages with an account that it shows, in any tab
  replaced,   \* how often the browser has been replaced
  request,    \* each request
  loggedOut,  \* history: the sessions that a logout has ended
  untidy      \* history: has a browser lost track of its session?

client  == <<cookie, pages, replaced>>
history == <<loggedOut, untidy>>
vars    == <<sessions, used, stale, client, request, history>>

Page     == Email \X (Sid \cup {NoSid})
Logins   == {"login", "callback"}
Changing == Logins \cup {"logout"}

\* page: the one it comes from (for logins, the account), later the one it
\* answers with.  held: the cookie sent.  account: whom its handler works for.
\* sets: the answer's Set-Cookie, NoSid to delete it.  heard: its browser is there.
Requests ==
  [at : {"idle", "sent", "checked", "answered"}, kind : Changing \cup {"get", "write"},
   page : Page \cup {NoPage}, held : Sid \cup {NoSid}, account : Email \cup {NoEmail},
   sets : Sid \cup {NoSid, Keep}, heard : BOOLEAN]

Idle == [at |-> "idle", kind |-> "get", page |-> NoPage, held |-> NoSid,
         account |-> NoEmail, sets |-> Keep, heard |-> TRUE]

SessTypeOK ==
  /\ sessions \in [Sid -> Email \cup {NoEmail}] /\ used \in SUBSET Sid /\ stale \in SUBSET used
  /\ cookie \in Sid \cup {NoSid} /\ pages \in SUBSET Page /\ replaced \in 0..MaxReplaced
  /\ request \in [Request -> Requests]
  /\ loggedOut \in SUBSET used /\ untidy \in BOOLEAN

SessInit ==
  /\ sessions = [s \in Sid |-> NoEmail] /\ used = {} /\ stale = {}
  /\ cookie = NoSid /\ pages = {} /\ replaced = 0
  /\ request = [q \in Request |-> Idle] /\ loggedOut = {} /\ untidy = FALSE

Live(s)     == s \in Sid /\ sessions[s] # NoEmail
Valid(s)    == Live(s) /\ s \notin stale
InFlight(k) == \E q \in Request : request[q].at # "idle" /\ request[q].kind \in k

-------------------------------------------------------------------------------
(* The browser.                                                            *)

Send(q, k, p) ==
  /\ request[q].at = "idle"
  /\ request' = [request EXCEPT ![q] = [Idle EXCEPT !.at = "sent", !.kind = k, !.page = p, !.held = cookie]]
  /\ untidy' = (untidy \/ (k \in Changing /\ InFlight(Changing)))
  /\ UNCHANGED <<sessions, used, stale, client, loggedOut>>

\* The account page; the forms of a page; the login form; the way back from RC.
Visit(q)         == Send(q, "get", NoPage)
Submit(q, p)     == p \in pages /\ \E k \in {"write", "logout"} : Send(q, k, p)
Login(q, e)      == Send(q, "login", <<e, NoSid>>)
BackFromRC(q, e) == Send(q, "callback", <<e, NoSid>>)

Deliver(q) ==
  LET r == request[q] IN
  /\ r.at = "answered" /\ request' = [request EXCEPT ![q] = Idle]
  /\ cookie' = IF r.heard /\ r.sets # Keep THEN r.sets ELSE cookie
  /\ pages' = IF r.heard THEN pages \cup ({r.page} \ {NoPage}) ELSE pages
  /\ Cardinality(pages') <= MaxPages
  /\ UNCHANGED <<sessions, used, stale, replaced, history>>

\* The connection breaks, before the request is looked at or after its answer.
Lose(q) ==
  /\ request[q].at \in {"sent", "answered"} /\ request' = [request EXCEPT ![q] = Idle]
  /\ untidy' = (untidy \/ (request[q].at = "answered" /\ request[q].kind \in Changing))
  /\ UNCHANGED <<sessions, used, stale, client, loggedOut>>

CloseTab(p) ==
  /\ p \in pages /\ pages' = pages \ {p}
  /\ UNCHANGED <<sessions, used, stale, cookie, replaced, request, history>>

\* A kiosk reset: a fresh profile.
Replace ==
  /\ replaced < MaxReplaced /\ replaced' = replaced + 1
  /\ cookie' = NoSid /\ pages' = {}
  /\ request' = [q \in Request |->
       IF request[q].at = "idle" THEN Idle ELSE [request[q] EXCEPT !.heard = FALSE]]
  /\ untidy' = (untidy \/ Live(cookie) \/ InFlight(Changing))
  /\ UNCHANGED <<sessions, used, stale, loggedOut>>

\* Twelve hours pass.  The cookie's MaxAge ends with them, or a little later.
Expire(s) ==
  /\ s \in used \ stale /\ stale' = stale \cup {s}
  /\ UNCHANGED <<sessions, used, client, request, history>>

DropCookie ==
  /\ cookie \in stale /\ cookie' = NoSid
  /\ UNCHANGED <<sessions, used, stale, pages, replaced, request, history>>

-------------------------------------------------------------------------------
(* The handlers.                                                           *)

Answer(q, set, page) ==
  request' = [request EXCEPT ![q] =
    [Idle EXCEPT !.at = "answered", !.kind = request[q].kind, !.heard = request[q].heard,
                 !.sets = set, !.page = page]]

Without(s) == [t \in Sid |-> IF t = s THEN NoEmail ELSE sessions[t]]

\* currentSession finds none, and deletes one that has expired: redirected to the
\* login page, or 403 for a logout.
NoSession(q) ==
  LET r == request[q] IN
  /\ r.at = "sent" /\ r.kind \notin Logins /\ ~Valid(r.held)
  /\ sessions' = Without(r.held) /\ Answer(q, Keep, NoPage)
  /\ UNCHANGED <<used, stale, client, history>>

\* handleAccount.
ShowAccount(q) ==
  LET r == request[q] IN
  /\ r.at = "sent" /\ r.kind = "get" /\ Valid(r.held)
  /\ Answer(q, Keep, <<sessions[r.held], r.held>>)
  /\ UNCHANGED <<sessions, used, stale, client, history>>

\* A form of somebody with a session.
Presents(q) == request[q].at = "sent" /\ request[q].kind \in {"write", "logout"} /\ Valid(request[q].held)

\* Mutant: the session is enough.
AcceptAnyForm(q) ==
  LET r == request[q] IN
  /\ Presents(q)
  /\ request' = [request EXCEPT ![q] = [r EXCEPT !.at = "checked", !.account = sessions[r.held]]]
  /\ UNCHANGED <<sessions, used, stale, client, history>>

\* validFormSession, validateCSRF: the form's token is the session's.
AcceptForm(q) ==
  LET r == request[q] IN
  /\ Presents(q) /\ r.page[2] = r.held
  /\ request' = [request EXCEPT ![q] = [r EXCEPT !.at = "checked", !.account = sessions[r.held]]]
  /\ UNCHANGED <<sessions, used, stale, client, history>>

\* 403.
RefuseForm(q) ==
  /\ Presents(q) /\ request[q].page[2] # request[q].held
  /\ Answer(q, Keep, NoPage)
  /\ UNCHANGED <<sessions, used, stale, client, history>>

\* addMAC, removeMAC or oauthAuthorizationURL; an error shows the page again.
Write(q) ==
  LET r == request[q] IN
  /\ r.at = "checked" /\ r.kind = "write"
  /\ \E page \in {NoPage, <<r.account, r.held>>} : Answer(q, Keep, page)
  /\ UNCHANGED <<sessions, used, stale, client, history>>

\* Mutant: the cookie is thought to be enough.
EndCookie(q) ==
  LET r == request[q] IN
  /\ r.at = "checked" /\ r.kind = "logout"
  /\ loggedOut' = loggedOut \cup {r.held} /\ Answer(q, NoSid, NoPage)
  /\ UNCHANGED <<sessions, used, stale, client, untidy>>

\* endSession.
EndSession(q) ==
  LET r == request[q] IN
  /\ r.at = "checked" /\ r.kind = "logout"
  /\ sessions' = Without(r.held)
  /\ loggedOut' = loggedOut \cup {r.held} /\ Answer(q, NoSid, NoPage)
  /\ UNCHANGED <<used, stale, client, untidy>>

\* Mutant: the session of the cookie that comes along is left alone.
StartSecondSession(q, s) ==
  LET r == request[q] IN
  /\ r.at = "sent" /\ r.kind \in Logins /\ s \in Sid \ used
  /\ sessions' = [sessions EXCEPT ![s] = r.page[1]]
  /\ used' = used \cup {s} /\ Answer(q, s, NoPage)
  /\ UNCHANGED <<stale, client, history>>

\* startSession, of a login or of a callback that has verified its account.
StartSession(q, s) ==
  LET r == request[q] IN
  /\ r.at = "sent" /\ r.kind \in Logins /\ s \in Sid \ used
  /\ sessions' = [Without(r.held) EXCEPT ![s] = r.page[1]]
  /\ used' = used \cup {s} /\ Answer(q, s, NoPage)
  /\ UNCHANGED <<stale, client, history>>

\* The login or the callback fails.  renderStateError shows the account's page,
\* without a session and therefore without a token.
LoginFails(q) ==
  LET r == request[q] IN
  /\ r.at = "sent" /\ r.kind \in Logins
  /\ Answer(q, Keep, NoPage) \/ (r.kind = "callback" /\ Answer(q, Keep, r.page))
  /\ UNCHANGED <<sessions, used, stale, client, history>>

\* Sessions are in memory only.
Restart ==
  /\ sessions' = [s \in Sid |-> NoEmail] /\ request' = [q \in Request |-> Idle]
  /\ UNCHANGED <<used, stale, client, history>>

SessNext ==
  \/ \E q \in Request :
       \/ Visit(q) \/ Deliver(q) \/ Lose(q)
       \/ NoSession(q) \/ ShowAccount(q) \/ AcceptForm(q) \/ RefuseForm(q)
       \/ Write(q) \/ EndSession(q) \/ LoginFails(q)
       \/ \E p \in pages : Submit(q, p)
       \/ \E e \in Email : Login(q, e) \/ BackFromRC(q, e)
       \/ \E s \in Sid : StartSession(q, s)
  \/ \E p \in pages : CloseTab(p)
  \/ \E s \in Sid : Expire(s)
  \/ Replace \/ DropCookie \/ Restart

SessSpec == SessInit /\ [][SessNext]_vars

-------------------------------------------------------------------------------
(* Properties.                                                             *)

\* A form writes to the account whose page it was on, whoever has logged in in
\* the same browser since the page was shown, and before the write
\* (web.go:368-379; web_test.go:28).
WritesToShownAccount ==
  \A q \in Request : request[q].at = "checked" => request[q].account = request[q].page[1]

\* A logout ends its session for every tab and every request that is looked at
\* afterwards, whatever cookie an answer that arrives late restores
\* (session.go:76-82).
LoggedOutForGood == \A s \in loggedOut : ~Live(s)

\* A browser that lets no logins and logouts overlap and loses no answer has one
\* session at a time: none but the one it holds, or is about to, stays in memory
\* before its time is over (session.go:34-45).
OneSession ==
  ~untidy => \A s \in Sid : Valid(s) =>
    s = cookie \/ \E q \in Request : request[q].at = "answered" /\ request[q].sets = s

\* In such a browser a form is refused only on the page of a failed callback, or
\* on that of a session that is over: the user of any other page can log out
\* (web.go:113, 227, 374).
RefusedOnlyIfOver ==
  [][\A q \in Request : ~untidy /\ RefuseForm(q) => ~Valid(request[q].page[2])]_vars
===============================================================================
