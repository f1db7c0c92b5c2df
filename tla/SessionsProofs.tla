----------------------------- MODULE SessionsProofs -----------------------------
(***************************************************************************)
(* Proofs about Sessions, for any number of accounts, ids, requests, pages *)
(* and browsers.                                                           *)
(***************************************************************************)
EXTENDS Sessions, TLAPS

Given == used \cup {NoSid}

\* No id is anywhere before it is made.
Issued ==
  /\ cookie \in Given /\ pages \in SUBSET (Email \X Given)
  /\ \A s \in Sid : sessions[s] # NoEmail => s \in used
  /\ \A q \in Request :
       /\ request[q].held \in Given /\ request[q].sets \in Given \cup {Keep}
       /\ request[q].page \in (Email \X Given) \cup {NoPage}

\* The token of a page is that of a session of its account, if of any.
Fits(p) == p[2] \in Sid => sessions[p[2]] \in {p[1], NoEmail}

Owned ==
  /\ \A p \in pages : Fits(p)
  /\ \A q \in Request :
       /\ request[q].page # NoPage => Fits(request[q].page)
       /\ request[q].at \in {"sent", "checked"} /\ request[q].kind # "get" => request[q].page # NoPage
       /\ request[q].at = "checked" =>
            /\ request[q].kind \in {"write", "logout"} /\ request[q].held \in Sid
            /\ request[q].page = <<request[q].account, request[q].held>>

Changes(q) == request[q].at # "idle" /\ request[q].kind \in Changing

\* A tidy browser has one login or logout under way, sent with its own cookie, and
\* once that is answered no session but the new one.
Tidy ==
  /\ \A q \in Request : request[q].sets # Keep =>
       request[q].at = "answered" /\ request[q].kind \in Changing
  /\ ~untidy =>
       /\ \A p, q \in Request : Changes(p) /\ Changes(q) => p = q
       /\ \A q \in Request : Changes(q) =>
            /\ request[q].heard
            /\ request[q].at \in {"sent", "checked"} =>
                 request[q].held = cookie \/ (cookie = NoSid /\ request[q].held \in stale)
       /\ \A q \in Request : request[q].sets # Keep => \A s \in Sid : Valid(s) => s = request[q].sets
       /\ OneSession

SessInv == SessTypeOK /\ Issued /\ Owned /\ LoggedOutForGood /\ Tidy

USE SessionsAssumption

-------------------------------------------------------------------------------
(* What an action makes of its request.                                    *)

Becomes(q, a, k, p, h, c, t, b) ==
  /\ request' \in [Request -> Requests]
  /\ \A o \in Request : o # q => request'[o] = request[o]
  /\ request'[q].at = a /\ request'[q].kind = k /\ request'[q].page = p /\ request'[q].held = h
  /\ request'[q].account = c /\ request'[q].sets = t /\ request'[q].heard = b

LEMMA BecomesIdle ==
  ASSUME SessTypeOK, NEW q \in Request, request' = [request EXCEPT ![q] = Idle]
  PROVE  Becomes(q, "idle", "get", NoPage, NoSid, NoEmail, Keep, TRUE)
<1>1. Idle \in Requests
  BY DEF Idle, Requests, Changing, Logins
<1> QED BY <1>1 DEF SessTypeOK, Becomes, Idle

LEMMA BecomesSent ==
  ASSUME SessTypeOK, NEW q \in Request, NEW k, NEW p \in Page \cup {NoPage}, Send(q, k, p),
         k \in Changing \cup {"get", "write"}
  PROVE  Becomes(q, "sent", k, p, cookie, NoEmail, Keep, TRUE)
<1> DEFINE r == [Idle EXCEPT !.at = "sent", !.kind = k, !.page = p, !.held = cookie]
<1>1. r \in Requests /\ r.at = "sent" /\ r.kind = k /\ r.page = p /\ r.held = cookie
      /\ r.account = NoEmail /\ r.sets = Keep /\ r.heard = TRUE
  BY DEF Idle, Requests, SessTypeOK
<1>2. request' = [request EXCEPT ![q] = r]
  BY DEF Send
<1> HIDE DEF r
<1> QED BY <1>1, <1>2 DEF SessTypeOK, Becomes

LEMMA BecomesAnswered ==
  ASSUME SessTypeOK, NEW q \in Request, NEW t \in Sid \cup {NoSid, Keep}, NEW p \in Page \cup {NoPage},
         Answer(q, t, p)
  PROVE  Becomes(q, "answered", request[q].kind, p, NoSid, NoEmail, t, request[q].heard)
<1> DEFINE r == [Idle EXCEPT !.at = "answered", !.kind = request[q].kind, !.heard = request[q].heard,
                             !.sets = t, !.page = p]
<1>1. request[q] \in Requests
  BY DEF SessTypeOK
<1>2. r \in Requests /\ r.at = "answered" /\ r.kind = request[q].kind /\ r.page = p /\ r.held = NoSid
      /\ r.account = NoEmail /\ r.sets = t /\ r.heard = request[q].heard
  BY <1>1 DEF Idle, Requests
<1>3. request' = [request EXCEPT ![q] = r]
  BY DEF Answer
<1> HIDE DEF r
<1> QED BY <1>2, <1>3 DEF SessTypeOK, Becomes

LEMMA BecomesChecked ==
  ASSUME SessTypeOK, NEW q \in Request, AcceptForm(q)
  PROVE  Becomes(q, "checked", request[q].kind, request[q].page, request[q].held,
                 sessions[request[q].held], request[q].sets, request[q].heard)
<1> DEFINE r == [request[q] EXCEPT !.at = "checked", !.account = sessions[request[q].held]]
<1>1. request[q] \in Requests /\ sessions[request[q].held] \in Email
  BY DEF SessTypeOK, AcceptForm, Presents, Valid, Live
<1>2. r \in Requests /\ r.at = "checked" /\ r.kind = request[q].kind /\ r.page = request[q].page
      /\ r.held = request[q].held /\ r.account = sessions[request[q].held]
      /\ r.sets = request[q].sets /\ r.heard = request[q].heard
  BY <1>1 DEF Requests
<1>3. request' = [request EXCEPT ![q] = r]
  BY DEF AcceptForm
<1> HIDE DEF r
<1> QED BY <1>2, <1>3 DEF SessTypeOK, Becomes

-------------------------------------------------------------------------------
(* One lemma per action.                                                   *)

LEMMA VisitStep ==
  ASSUME SessInv, NEW q \in Request, Visit(q)
  PROVE  SessInv'
<1> USE DEF SessInv
<1>1. Becomes(q, "sent", "get", NoPage, cookie, NoEmail, Keep, TRUE)
  BY BecomesSent DEF Visit
<1>2. SessTypeOK'
  BY <1>1 DEF Becomes, SessTypeOK, Visit, Send, client
<1>3. Issued'
  BY <1>1 DEF SessTypeOK, Requests, Becomes, Issued, Given, Visit, Send, client
<1>4. Owned'
  BY <1>1 DEF SessTypeOK, Requests, Becomes, Owned, Fits, Issued, Given, Visit, Send, client
<1>5. LoggedOutForGood'
  BY DEF SessTypeOK, LoggedOutForGood, Live, Visit, Send, client
<1>6. Tidy'
  BY <1>1 DEF SessTypeOK, Requests, Becomes, Tidy, OneSession, Valid, Live, Changes, InFlight, Changing, Logins, Visit, Send, client
<1> QED BY <1>2, <1>3, <1>4, <1>5, <1>6

LEMMA SubmitStep ==
  ASSUME SessInv, NEW q \in Request, NEW p \in pages, NEW k \in {"write", "logout"}, Send(q, k, p)
  PROVE  SessInv'
<1> USE DEF SessInv
<1>1. Becomes(q, "sent", k, p, cookie, NoEmail, Keep, TRUE)
  BY BecomesSent DEF SessTypeOK, Changing
<1>2. SessTypeOK'
  BY <1>1 DEF Becomes, SessTypeOK, Send, client
<1>3. Issued'
  BY <1>1 DEF SessTypeOK, Requests, Becomes, Issued, Given, Send, client
<1>4. Owned'
  BY <1>1 DEF SessTypeOK, Requests, Becomes, Owned, Fits, Issued, Given, Send, client
<1>5. LoggedOutForGood'
  BY DEF SessTypeOK, LoggedOutForGood, Live, Send, client
<1>6. Tidy'
  BY <1>1 DEF SessTypeOK, Requests, Becomes, Tidy, OneSession, Valid, Live, Changes, InFlight, Changing, Logins, Send, client
<1> QED BY <1>2, <1>3, <1>4, <1>5, <1>6

LEMMA LoginStep ==
  ASSUME SessInv, NEW q \in Request, NEW e \in Email, NEW k \in Logins, Send(q, k, <<e, NoSid>>)
  PROVE  SessInv'
<1> USE DEF SessInv
<1>1. <<e, NoSid>> \in Page
  BY DEF Page
<1>2. Becomes(q, "sent", k, <<e, NoSid>>, cookie, NoEmail, Keep, TRUE)
  BY <1>1, BecomesSent DEF Changing
<1>3. SessTypeOK'
  BY <1>1, <1>2 DEF Becomes, SessTypeOK, Send, client
<1>4. Issued'
  BY <1>1, <1>2 DEF SessTypeOK, Requests, Becomes, Issued, Given, Send, client
<1>5. Owned'
  BY <1>1, <1>2 DEF SessTypeOK, Requests, Becomes, Owned, Fits, Issued, Given, Send, client
<1>6. LoggedOutForGood'
  BY DEF SessTypeOK, LoggedOutForGood, Live, Send, client
<1>7. Tidy'
  BY <1>1, <1>2 DEF SessTypeOK, Requests, Becomes, Tidy, OneSession, Valid, Live, Changes, InFlight, Changing, Logins, Send, client
<1> QED BY <1>3, <1>4, <1>5, <1>6, <1>7

LEMMA DeliverStep ==
  ASSUME SessInv, NEW q \in Request, Deliver(q)
  PROVE  SessInv'
<1> USE DEF SessInv
<1>1. request[q].sets \in Sid \cup {NoSid, Keep} /\ request[q].page \in Page \cup {NoPage}
  BY DEF SessTypeOK, Requests
<1>2. Becomes(q, "idle", "get", NoPage, NoSid, NoEmail, Keep, TRUE)
  BY BecomesIdle DEF Deliver
<1>3. SessTypeOK'
  BY <1>1, <1>2 DEF Becomes, SessTypeOK, Deliver, history
<1>4. Issued'
  BY <1>1, <1>2 DEF SessTypeOK, Requests, Becomes, Issued, Given, Deliver, history
<1>5. Owned'
  BY <1>1, <1>2 DEF SessTypeOK, Requests, Becomes, Owned, Fits, Issued, Given, Deliver, history
<1>6. LoggedOutForGood'
  BY DEF SessTypeOK, LoggedOutForGood, Live, Deliver, history
<1>7. Tidy'
  BY <1>1, <1>2 DEF SessTypeOK, Requests, Becomes, Tidy, OneSession, Valid, Live, Changes, InFlight, Changing, Logins, Deliver, history
<1> QED BY <1>3, <1>4, <1>5, <1>6, <1>7

LEMMA LoseStep ==
  ASSUME SessInv, NEW q \in Request, Lose(q)
  PROVE  SessInv'
<1> USE DEF SessInv
<1>1. Becomes(q, "idle", "get", NoPage, NoSid, NoEmail, Keep, TRUE)
  BY BecomesIdle DEF Lose
<1>2. SessTypeOK'
  BY <1>1 DEF Becomes, SessTypeOK, Lose, client
<1>3. Issued'
  BY <1>1 DEF SessTypeOK, Requests, Becomes, Issued, Given, Lose, client
<1>4. Owned'
  BY <1>1 DEF SessTypeOK, Requests, Becomes, Owned, Fits, Issued, Given, Lose, client
<1>5. LoggedOutForGood'
  BY DEF SessTypeOK, LoggedOutForGood, Live, Lose, client
<1>6. Tidy'
  BY <1>1 DEF SessTypeOK, Requests, Becomes, Tidy, OneSession, Valid, Live, Changes, InFlight, Changing, Logins, Lose, client
<1> QED BY <1>2, <1>3, <1>4, <1>5, <1>6

LEMMA CloseTabStep ==
  ASSUME SessInv, NEW p \in pages, CloseTab(p)
  PROVE  SessInv'
<1> USE DEF SessInv
<1>1. SessTypeOK'
  BY DEF Becomes, SessTypeOK, CloseTab, history
<1>2. Issued'
  BY DEF SessTypeOK, Requests, Becomes, Issued, Given, CloseTab, history
<1>3. Owned'
  BY DEF SessTypeOK, Requests, Becomes, Owned, Fits, Issued, Given, CloseTab, history
<1>4. LoggedOutForGood'
  BY DEF SessTypeOK, LoggedOutForGood, Live, CloseTab, history
<1>5. Tidy'
  BY DEF SessTypeOK, Requests, Becomes, Tidy, OneSession, Valid, Live, Changes, InFlight, Changing, Logins, CloseTab, history
<1> QED BY <1>1, <1>2, <1>3, <1>4, <1>5

LEMMA ExpireStep ==
  ASSUME SessInv, NEW s \in Sid, Expire(s)
  PROVE  SessInv'
<1> USE DEF SessInv
<1>1. SessTypeOK'
  BY DEF Becomes, SessTypeOK, Expire, client, history
<1>2. Issued'
  BY DEF SessTypeOK, Requests, Becomes, Issued, Given, Expire, client, history
<1>3. Owned'
  BY DEF SessTypeOK, Requests, Becomes, Owned, Fits, Issued, Given, Expire, client, history
<1>4. LoggedOutForGood'
  BY DEF SessTypeOK, LoggedOutForGood, Live, Expire, client, history
<1>5. Tidy'
  BY DEF SessTypeOK, Requests, Becomes, Tidy, OneSession, Valid, Live, Changes, InFlight, Changing, Logins, Expire, client, history
<1> QED BY <1>1, <1>2, <1>3, <1>4, <1>5

LEMMA DropCookieStep ==
  ASSUME SessInv, DropCookie
  PROVE  SessInv'
<1> USE DEF SessInv
<1>1. SessTypeOK'
  BY DEF Becomes, SessTypeOK, DropCookie, history
<1>2. Issued'
  BY DEF SessTypeOK, Requests, Becomes, Issued, Given, DropCookie, history
<1>3. Owned'
  BY DEF SessTypeOK, Requests, Becomes, Owned, Fits, Issued, Given, DropCookie, history
<1>4. LoggedOutForGood'
  BY DEF SessTypeOK, LoggedOutForGood, Live, DropCookie, history
<1>5. Tidy'
  BY DEF SessTypeOK, Requests, Becomes, Tidy, OneSession, Valid, Live, Changes, InFlight, Changing, Logins, DropCookie, history
<1> QED BY <1>1, <1>2, <1>3, <1>4, <1>5

LEMMA NoSessionStep ==
  ASSUME SessInv, NEW q \in Request, NoSession(q)
  PROVE  SessInv'
<1> USE DEF SessInv
<1>1. Becomes(q, "answered", request[q].kind, NoPage, NoSid, NoEmail, Keep, request[q].heard)
  BY BecomesAnswered DEF NoSession
<1>2. SessTypeOK'
  BY <1>1 DEF Becomes, SessTypeOK, NoSession, Without, client, history
<1>3. Issued'
  BY <1>1 DEF SessTypeOK, Requests, Becomes, Issued, Given, NoSession, Without, client, history
<1>4. Owned'
  BY <1>1 DEF SessTypeOK, Requests, Becomes, Owned, Fits, Issued, Given, NoSession, Without, client, history
<1>5. LoggedOutForGood'
  BY DEF SessTypeOK, LoggedOutForGood, Live, NoSession, Without, client, history
<1>6. Tidy'
  BY <1>1 DEF SessTypeOK, Requests, Becomes, Tidy, OneSession, Valid, Live, Changes, InFlight, Changing, Logins, Issued, Given, Owned, NoSession, Without, client, history
<1> QED BY <1>2, <1>3, <1>4, <1>5, <1>6

LEMMA ShowAccountStep ==
  ASSUME SessInv, NEW q \in Request, ShowAccount(q)
  PROVE  SessInv'
<1> USE DEF SessInv
<1>1. request[q].held \in Sid /\ sessions[request[q].held] \in Email
  BY DEF ShowAccount, Valid, Live, SessTypeOK
<1>2. <<sessions[request[q].held], request[q].held>> \in Page
  BY <1>1 DEF Page
<1>3. Becomes(q, "answered", request[q].kind, <<sessions[request[q].held], request[q].held>>,
              NoSid, NoEmail, Keep, request[q].heard)
  BY <1>2, BecomesAnswered DEF ShowAccount
<1>4. UNCHANGED <<sessions, used, stale, cookie, pages, replaced, loggedOut, untidy>> /\ request[q].at \in {"sent", "checked"}
  BY DEF ShowAccount, client, history, Valid, Live
<1>5. /\ \A o \in Request : o # q => request'[o] = request[o]
      /\ request'[q].at = "answered" /\ request'[q].kind = request[q].kind
      /\ request'[q].sets = Keep /\ request'[q].heard = request[q].heard
  BY <1>3 DEF Becomes
<1>6. SessTypeOK'
  BY <1>1, <1>2, <1>3, <1>4 DEF Becomes, SessTypeOK
<1>7. Issued'
  BY <1>1, <1>2, <1>3, <1>4 DEF SessTypeOK, Requests, Becomes, Issued, Given
<1>8. Owned'
  BY <1>1, <1>2, <1>3, <1>4 DEF SessTypeOK, Requests, Becomes, Owned, Fits, Issued, Given
<1>9. LoggedOutForGood'
  BY <1>4 DEF SessTypeOK, LoggedOutForGood, Live
<1>10. Tidy'
  BY <1>4, <1>5 DEF SessTypeOK, Tidy, OneSession, Valid, Live, Changes, InFlight, Changing, Logins
<1> QED BY <1>6, <1>7, <1>8, <1>9, <1>10

LEMMA AcceptFormStep ==
  ASSUME SessInv, NEW q \in Request, AcceptForm(q)
  PROVE  SessInv'
<1> USE DEF SessInv
<1>1. request[q].page \in Page /\ request[q].held \in Sid
  BY DEF AcceptForm, Presents, Valid, Live, Owned, SessTypeOK, Requests
<1>2. request[q].page = <<sessions[request[q].held], request[q].held>>
  BY <1>1 DEF AcceptForm, Presents, Valid, Live, Owned, Fits, Page
<1>3. Becomes(q, "checked", request[q].kind, request[q].page, request[q].held,
              sessions[request[q].held], request[q].sets, request[q].heard)
  BY BecomesChecked
<1>4. SessTypeOK'
  BY <1>1, <1>2, <1>3 DEF Becomes, SessTypeOK, AcceptForm, Presents, client, history
<1>5. Issued'
  BY <1>1, <1>2, <1>3 DEF SessTypeOK, Requests, Becomes, Issued, Given, AcceptForm, Presents, client, history
<1>6. Owned'
  BY <1>1, <1>2, <1>3 DEF SessTypeOK, Requests, Becomes, Owned, Fits, Issued, Given, AcceptForm, Presents, client, history
<1>7. LoggedOutForGood'
  BY DEF SessTypeOK, LoggedOutForGood, Live, AcceptForm, Presents, client, history
<1>8. Tidy'
  BY <1>1, <1>2, <1>3 DEF SessTypeOK, Requests, Becomes, Tidy, OneSession, Valid, Live, Changes, InFlight, Changing, Logins, AcceptForm, Presents, client, history
<1> QED BY <1>4, <1>5, <1>6, <1>7, <1>8

LEMMA RefuseFormStep ==
  ASSUME SessInv, NEW q \in Request, RefuseForm(q)
  PROVE  SessInv'
<1> USE DEF SessInv
<1>1. Becomes(q, "answered", request[q].kind, NoPage, NoSid, NoEmail, Keep, request[q].heard)
  BY BecomesAnswered DEF RefuseForm
<1>2. SessTypeOK'
  BY <1>1 DEF Becomes, SessTypeOK, RefuseForm, Presents, client, history
<1>3. Issued'
  BY <1>1 DEF SessTypeOK, Requests, Becomes, Issued, Given, RefuseForm, Presents, client, history
<1>4. Owned'
  BY <1>1 DEF SessTypeOK, Requests, Becomes, Owned, Fits, Issued, Given, RefuseForm, Presents, client, history
<1>5. LoggedOutForGood'
  BY DEF SessTypeOK, LoggedOutForGood, Live, RefuseForm, Presents, client, history
<1>6. Tidy'
  BY <1>1 DEF SessTypeOK, Requests, Becomes, Tidy, OneSession, Valid, Live, Changes, InFlight, Changing, Logins, RefuseForm, Presents, client, history
<1> QED BY <1>2, <1>3, <1>4, <1>5, <1>6

LEMMA WriteStep ==
  ASSUME SessInv, NEW q \in Request, NEW p \in {NoPage, <<request[q].account, request[q].held>>}, Write(q),
         Answer(q, Keep, p)
  PROVE  SessInv'
<1> USE DEF SessInv
<1>1. p \in {NoPage, request[q].page} /\ p \in Page \cup {NoPage}
  BY DEF Write, Owned, SessTypeOK, Requests
<1>2. Becomes(q, "answered", request[q].kind, p, NoSid, NoEmail, Keep, request[q].heard)
  BY <1>1, BecomesAnswered
<1>3. UNCHANGED <<sessions, used, stale, cookie, pages, replaced, loggedOut, untidy>> /\ request[q].at \in {"sent", "checked"}
  BY DEF Write, client, history
<1>4. /\ \A o \in Request : o # q => request'[o] = request[o]
      /\ request'[q].at = "answered" /\ request'[q].kind = request[q].kind
      /\ request'[q].sets = Keep /\ request'[q].heard = request[q].heard
  BY <1>2 DEF Becomes
<1>5. SessTypeOK'
  BY <1>1, <1>2, <1>3 DEF Becomes, SessTypeOK
<1>6. Issued'
  BY <1>1, <1>2, <1>3 DEF SessTypeOK, Requests, Becomes, Issued, Given
<1>7. Owned'
  BY <1>1, <1>2, <1>3 DEF SessTypeOK, Requests, Becomes, Owned, Fits, Issued, Given
<1>8. LoggedOutForGood'
  BY <1>3 DEF SessTypeOK, LoggedOutForGood, Live
<1>9. Tidy'
  BY <1>3, <1>4 DEF SessTypeOK, Tidy, OneSession, Valid, Live, Changes, InFlight, Changing, Logins
<1> QED BY <1>5, <1>6, <1>7, <1>8, <1>9

LEMMA EndSessionStep ==
  ASSUME SessInv, NEW q \in Request, EndSession(q)
  PROVE  SessInv'
<1> USE DEF SessInv
<1>1. request[q].held \in used
  BY DEF EndSession, Owned, Issued, Given
<1>2. Becomes(q, "answered", request[q].kind, NoPage, NoSid, NoEmail, NoSid, request[q].heard)
  BY BecomesAnswered DEF EndSession
<1>3. SessTypeOK'
  BY <1>1, <1>2 DEF Becomes, SessTypeOK, EndSession, Without, client
<1>4. Issued'
  BY <1>1, <1>2 DEF SessTypeOK, Requests, Becomes, Issued, Given, EndSession, Without, client
<1>5. Owned'
  BY <1>1, <1>2 DEF SessTypeOK, Requests, Becomes, Owned, Fits, Issued, Given, EndSession, Without, client
<1>6. LoggedOutForGood'
  BY DEF SessTypeOK, LoggedOutForGood, Live, EndSession, Without, client
<1>7. Tidy'
  BY <1>1, <1>2 DEF SessTypeOK, Requests, Becomes, Tidy, OneSession, Valid, Live, Changes, InFlight, Changing, Logins, Issued, Given, Owned, EndSession, Without, client
<1> QED BY <1>3, <1>4, <1>5, <1>6, <1>7

LEMMA StartSessionStep ==
  ASSUME SessInv, NEW q \in Request, NEW s \in Sid, StartSession(q, s)
  PROVE  SessInv'
<1> USE DEF SessInv
<1>1. request[q].page \in Page /\ request[q].page[1] \in Email
  BY DEF StartSession, Owned, SessTypeOK, Requests, Page, Logins
<1>2. Becomes(q, "answered", request[q].kind, NoPage, NoSid, NoEmail, s, request[q].heard)
  BY BecomesAnswered DEF StartSession
<1>3. SessTypeOK'
  BY <1>1, <1>2 DEF Becomes, SessTypeOK, StartSession, Without, client, history
<1>4. Issued'
  BY <1>1, <1>2 DEF SessTypeOK, Requests, Becomes, Issued, Given, StartSession, Without, client, history
<1>5. Owned'
  BY <1>1, <1>2 DEF SessTypeOK, Requests, Becomes, Owned, Fits, Issued, Given, StartSession, Without, client, history
<1>6. LoggedOutForGood'
  BY DEF SessTypeOK, LoggedOutForGood, Live, Issued, Given, StartSession, Without, client, history
<1>7. Tidy'
  BY <1>1, <1>2 DEF SessTypeOK, Requests, Becomes, Tidy, OneSession, Valid, Live, Changes, InFlight, Changing, Logins, Issued, Given, Owned, StartSession, Without, client, history
<1> QED BY <1>3, <1>4, <1>5, <1>6, <1>7

LEMMA LoginFailsStep ==
  ASSUME SessInv, NEW q \in Request, NEW p \in {NoPage, request[q].page}, LoginFails(q), Answer(q, Keep, p)
  PROVE  SessInv'
<1> USE DEF SessInv
<1>1. p \in Page \cup {NoPage}
  BY DEF SessTypeOK, Requests
<1>2. Becomes(q, "answered", request[q].kind, p, NoSid, NoEmail, Keep, request[q].heard)
  BY <1>1, BecomesAnswered
<1>3. UNCHANGED <<sessions, used, stale, cookie, pages, replaced, loggedOut, untidy>> /\ request[q].at \in {"sent", "checked"}
  BY DEF LoginFails, client, history
<1>4. /\ \A o \in Request : o # q => request'[o] = request[o]
      /\ request'[q].at = "answered" /\ request'[q].kind = request[q].kind
      /\ request'[q].sets = Keep /\ request'[q].heard = request[q].heard
  BY <1>2 DEF Becomes
<1>5. SessTypeOK'
  BY <1>1, <1>2, <1>3 DEF Becomes, SessTypeOK
<1>6. Issued'
  BY <1>1, <1>2, <1>3 DEF SessTypeOK, Requests, Becomes, Issued, Given
<1>7. Owned'
  BY <1>1, <1>2, <1>3 DEF SessTypeOK, Requests, Becomes, Owned, Fits, Issued, Given
<1>8. LoggedOutForGood'
  BY <1>3 DEF SessTypeOK, LoggedOutForGood, Live
<1>9. Tidy'
  BY <1>3, <1>4 DEF SessTypeOK, Tidy, OneSession, Valid, Live, Changes, InFlight, Changing, Logins
<1> QED BY <1>5, <1>6, <1>7, <1>8, <1>9

LEMMA ReplaceStep ==
  ASSUME SessInv, Replace
  PROVE  SessInv'
<1> USE DEF SessInv
<1>1. /\ request' \in [Request -> Requests]
      /\ \A q \in Request : request[q].at # "idle" =>
           /\ request'[q].at = request[q].at /\ request'[q].kind = request[q].kind
           /\ request'[q].page = request[q].page /\ request'[q].held = request[q].held
           /\ request'[q].account = request[q].account /\ request'[q].sets = request[q].sets
      /\ \A q \in Request : request[q].at = "idle" => request'[q] = Idle
  <2>1. Idle \in Requests
    BY DEF Idle, Requests, Changing, Logins
  <2>2. ASSUME NEW q \in Request, NEW r, r = [request[q] EXCEPT !.heard = FALSE]
        PROVE  /\ r \in Requests /\ r.at = request[q].at /\ r.kind = request[q].kind
               /\ r.page = request[q].page /\ r.held = request[q].held
               /\ r.account = request[q].account /\ r.sets = request[q].sets
    <3>1. request[q] \in Requests
      BY DEF SessTypeOK
    <3> QED BY <2>2, <3>1 DEF Requests
  <2> QED BY <2>1, <2>2 DEF Replace
<1>2. Idle.at = "idle" /\ Idle.page = NoPage /\ Idle.held = NoSid /\ Idle.sets = Keep
  BY DEF Idle
<1>3. SessTypeOK'
  BY <1>1 DEF SessTypeOK, Replace
<1>4. Issued'
  BY <1>1, <1>2 DEF Issued, Given, Replace
<1>5. Owned'
  BY <1>1, <1>2 DEF Owned, Fits, Replace
<1>6. LoggedOutForGood'
  BY DEF LoggedOutForGood, Live, Replace
<1>7. Tidy'
  <2>1. \A q \in Request : request'[q].sets # Keep => request'[q].at = "answered" /\ request'[q].kind \in Changing
    BY <1>1, <1>2 DEF Tidy
  <2>2. ASSUME ~untidy' PROVE ~untidy /\ ~Live(cookie) /\ \A q \in Request : ~Changes(q) /\ ~Changes(q)'
    BY <1>1, <1>2, <2>2 DEF Replace, InFlight, Changes, SessTypeOK
  <2>3. ASSUME ~untidy', NEW s \in Sid PROVE ~Valid(s)'
    BY <2>2, <2>3 DEF Replace, Tidy, OneSession, Valid, Live, Changes
  <2> QED BY <2>1, <2>2, <2>3 DEF Tidy, OneSession, Changes
<1> QED BY <1>3, <1>4, <1>5, <1>6, <1>7

LEMMA RestartStep ==
  ASSUME SessInv, Restart
  PROVE  SessInv'
<1> USE DEF SessInv
<1>1. Idle \in Requests /\ Idle.at = "idle" /\ Idle.page = NoPage /\ Idle.held = NoSid /\ Idle.sets = Keep
  BY DEF Idle, Requests, Changing, Logins
<1>2. SessTypeOK' /\ Issued'
  BY <1>1 DEF SessTypeOK, Issued, Given, Restart, client, history
<1>3. Owned'
  BY <1>1 DEF Owned, Fits, SessTypeOK, Restart, client
<1>4. LoggedOutForGood' /\ Tidy'
  BY <1>1 DEF LoggedOutForGood, Tidy, OneSession, Changes, Valid, Live, Restart
<1> QED BY <1>2, <1>3, <1>4

-------------------------------------------------------------------------------
LEMMA SessInvHolds == SessSpec => []SessInv
<1>1. ASSUME SessInit PROVE SessInv
  <2>1. Idle \in Requests /\ Idle.at = "idle" /\ Idle.page = NoPage /\ Idle.held = NoSid /\ Idle.sets = Keep
    BY DEF Idle, Requests, Changing, Logins
  <2>2. 0 \in 0..MaxReplaced
    OBVIOUS
  <2>3. SessTypeOK
    BY <1>1, <2>1, <2>2 DEF SessInit, SessTypeOK
  <2>4. Issued
    BY <1>1, <2>1 DEF SessInit, Issued, Given
  <2>5. Owned /\ LoggedOutForGood
    BY <1>1, <2>1 DEF SessInit, Owned, LoggedOutForGood
  <2>6. Tidy
    BY <1>1, <2>1 DEF SessInit, Tidy, OneSession, Changes, Valid, Live
  <2> QED BY <2>3, <2>4, <2>5, <2>6 DEF SessInv
<1>2. ASSUME SessInv, [SessNext]_vars PROVE SessInv'
  <2>1. ASSUME NEW q \in Request, NEW p \in pages, Submit(q, p) PROVE SessInv'
    BY <1>2, <2>1, SubmitStep DEF Submit
  <2>2. ASSUME NEW q \in Request, NEW e \in Email, Login(q, e) \/ BackFromRC(q, e) PROVE SessInv'
    BY <1>2, <2>2, LoginStep DEF Login, BackFromRC, Logins
  <2>3. ASSUME NEW q \in Request, Write(q) PROVE SessInv'
    <3>1. PICK p \in {NoPage, <<request[q].account, request[q].held>>} : Answer(q, Keep, p)
      BY <2>3 DEF Write
    <3> QED BY <1>2, <2>3, <3>1, WriteStep
  <2>4. ASSUME NEW q \in Request, LoginFails(q) PROVE SessInv'
    <3>1. PICK p \in {NoPage, request[q].page} : Answer(q, Keep, p)
      BY <2>4 DEF LoginFails
    <3> QED BY <1>2, <2>4, <3>1, LoginFailsStep
  <2>5. CASE UNCHANGED vars
    BY <1>2, <2>5 DEF SessInv, SessTypeOK, Issued, Given, Owned, Fits, LoggedOutForGood, Tidy, OneSession,
                      Changes, Valid, Live, vars, client, history
  <2> QED BY <1>2, <2>1, <2>2, <2>3, <2>4, <2>5, VisitStep, DeliverStep, LoseStep, CloseTabStep, ExpireStep,
             DropCookieStep, NoSessionStep, ShowAccountStep, AcceptFormStep, RefuseFormStep, EndSessionStep,
             StartSessionStep, ReplaceStep, RestartStep DEF SessNext
<1> QED BY <1>1, <1>2, PTL DEF SessSpec

\* Sessions, requests and the browser keep their form.
THEOREM SessTypeCorrect == SessSpec => []SessTypeOK
<1>1. SessInv => SessTypeOK
  BY DEF SessInv
<1> QED BY <1>1, SessInvHolds, PTL

\* A form works for the account it was shown with (web.go:368-379).
THEOREM FormsKeepTheirAccount == SessSpec => []WritesToShownAccount
<1>1. SessInv => WritesToShownAccount
  BY DEF SessInv, Owned, WritesToShownAccount
<1> QED BY <1>1, SessInvHolds, PTL

\* A session that was logged out is not found again (session.go:76-82).
THEOREM LogoutsLast == SessSpec => []LoggedOutForGood
<1>1. SessInv => LoggedOutForGood
  BY DEF SessInv
<1> QED BY <1>1, SessInvHolds, PTL

\* A browser whose logins and logouts do not overlap has one session
\* (session.go:34-45).
THEOREM OneSessionAtATime == SessSpec => []OneSession
<1>1. SessInv => OneSession
  BY DEF SessInv, Tidy, OneSession
<1> QED BY <1>1, SessInvHolds, PTL

\* Such a browser's forms are refused only if their session is over, or they came
\* without one (web.go:113, 227, 374).
THEOREM RefusalsExplained == SessSpec => RefusedOnlyIfOver
<1>1. ASSUME SessInv, NEW q \in Request, ~untidy, RefuseForm(q) PROVE ~Valid(request[q].page[2])
  <2>1. Valid(request[q].held) /\ request[q].held # request[q].page[2]
    BY <1>1 DEF RefuseForm, Presents
  <2>2. ASSUME Valid(request[q].page[2]) PROVE FALSE
    <3>1. request[q].held \in Sid /\ request[q].page[2] \in Sid
      BY <2>1, <2>2 DEF Valid, Live
    <3>2. PICK o \in Request : request[o].sets # Keep
      BY <1>1, <2>1, <2>2, <3>1, SessionsAssumption DEF SessInv, Tidy, OneSession
    <3> QED BY <1>1, <2>1, <2>2, <3>1, <3>2 DEF SessInv, Tidy
  <2> QED BY <2>2
<1>2. SessInv => \A q \in Request : ~untidy /\ RefuseForm(q) => ~Valid(request[q].page[2])
  BY <1>1
<1> QED BY <1>2, SessInvHolds, PTL DEF RefusedOnlyIfOver
===============================================================================
