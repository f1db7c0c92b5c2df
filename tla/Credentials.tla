------------------------------ MODULE Credentials ------------------------------
(***************************************************************************)
(* The OAuth credential of each account (oauth.go, web.go): how a login    *)
(* obtains it through the Recurse Center (RC), how the hub monitor spends  *)
(* and replaces it, and what the two do to each other.                     *)
(*                                                                         *)
(* Callback requests run concurrently with each other and with the hub     *)
(* monitor.  A step ends where the code calls RC or the database.  The     *)
(* tokens table outlives the process; OAuth states do not.                 *)
(*                                                                         *)
(* RC's refresh tokens are numbered in the order it issues them; 0 is the  *)
(* empty token, with which canAuthorize is false, and Pat a personal       *)
(* access token that the migration has carried over: it is used as it is.  *)
(* RC may or may not rotate a refresh token when it is used, and does not  *)
(* revoke one because another is granted.  Profile ids and sessions, which *)
(* a callback saves last, are not kept here: HubMonitor has the former.    *)
(***************************************************************************)
EXTENDS Naturals, FiniteSets

CONSTANTS
  Email,      \* accounts, and the persons whose address each is
  State,      \* bound: the random states of one history
  Request,    \* bound: the callback requests served at one time
  MaxGrant,   \* bound: the refresh tokens RC issues
  NoEmail, NoState

ASSUME CredentialsAssumption ==
  /\ MaxGrant \in Nat /\ NoEmail \notin Email /\ NoState \notin State

VARIABLES
  tokens,       \* tokens table: each account's token
  oauthStates,  \* in memory: <<state, email, "fresh" or "expired">>
  made,         \* the states made so far: they never repeat
  codes,        \* RC's redirects: <<state, person who consented>>
  spent,        \* those whose code has been exchanged
  issuedTo,     \* RC: the person each refresh token was issued to
  valid,        \* RC: the refresh tokens it accepts
  request,      \* each callback request
  monitor,      \* the hub monitor's bearerToken call
  accepted,     \* history: the states a callback has been accepted for
  lost          \* history: accounts whose new token was lost on its way

rc       == <<codes, spent, issuedTo, valid>>
credVars == <<tokens, oauthStates, made, rc, request, monitor, accepted, lost>>

Grant == 1..MaxGrant
Pat   == MaxGrant + 1
NextGrant == {g \in Grant : issuedTo[g] = NoEmail /\ \A h \in 1..(g - 1) : issuedTo[h] # NoEmail}

IdleRequest == [at |-> "idle", state |-> NoState, email |-> NoEmail, person |-> NoEmail, grant |-> 0]
IdleMonitor == [at |-> "idle", email |-> NoEmail, grant |-> 0]

Callback ==
  [at : {"idle", "exchange", "verify", "save"}, state : State \cup {NoState},
   email : Email \cup {NoEmail}, person : Email \cup {NoEmail}, grant : Grant \cup {0}]

Refresh == [at : {"idle", "refresh", "save"}, email : Email \cup {NoEmail}, grant : Grant \cup {0}]

\* What a request or the monitor in the middle of its work has in hand.
InHand ==
  /\ \A q \in Request : request[q].at # "idle" => request[q].email \in Email /\ request[q].person \in Email
  /\ monitor.at # "idle" => monitor.email \in Email /\ monitor.grant # 0

CredTypeOK ==
  /\ tokens \in [Email -> Grant \cup {0, Pat}]
  /\ oauthStates \in SUBSET (State \X Email \X {"fresh", "expired"})
  /\ made \in SUBSET State /\ accepted \in SUBSET State /\ lost \in SUBSET Email
  /\ codes \in SUBSET (State \X Email) /\ spent \in SUBSET codes
  /\ issuedTo \in [Grant -> Email \cup {NoEmail}] /\ valid \in SUBSET Grant
  /\ request \in [Request -> Callback] /\ monitor \in Refresh /\ InHand

CredInit ==
  /\ tokens \in [Email -> {0, Pat}]
  /\ oauthStates = {} /\ made = {} /\ codes = {} /\ spent = {} /\ accepted = {} /\ lost = {}
  /\ issuedTo = [g \in Grant |-> NoEmail] /\ valid = {}
  /\ request = [q \in Request |-> IdleRequest] /\ monitor = IdleMonitor

-------------------------------------------------------------------------------
(* Logging in.                                                             *)

\* oauthAuthorizationURL: a new state, on its way to RC with the browser.
MakeState(e, s) ==
  /\ s \notin made
  /\ made' = made \cup {s} /\ oauthStates' = oauthStates \cup {<<s, e, "fresh">>}
  /\ UNCHANGED <<tokens, rc, request, monitor, accepted, lost>>

\* handleLogin asks for an authorization only while there is no usable token;
\* handleOAuthStart asks for one in any case.
Login(e, s)      == tokens[e] = 0 /\ MakeState(e, s)
OAuthStart(e, s) == MakeState(e, s)

\* Ten minutes pass.
StateExpires(s) ==
  /\ \E e \in Email :
       /\ <<s, e, "fresh">> \in oauthStates
       /\ oauthStates' = (oauthStates \ {<<s, e, "fresh">>}) \cup {<<s, e, "expired">>}
  /\ UNCHANGED <<tokens, made, rc, request, monitor, accepted, lost>>

\* At RC somebody consents, as whoever the browser is logged in there.
Consent(s, p) ==
  /\ s \in made /\ <<s, p>> \notin codes
  /\ codes' = codes \cup {<<s, p>>}
  /\ UNCHANGED <<tokens, oauthStates, made, spent, issuedTo, valid, request, monitor, accepted, lost>>

-------------------------------------------------------------------------------
(* The callback.  The browser may load its URL any number of times.        *)

Advance(q, r) == request' = [request EXCEPT ![q] = r]

\* Mutant: the state is looked up and stays.
AcceptStateKept(q, c, e) ==
  /\ request[q].at = "idle" /\ c \in codes /\ <<c[1], e, "fresh">> \in oauthStates
  /\ accepted' = accepted \cup {c[1]}
  /\ Advance(q, [at |-> "exchange", state |-> c[1], email |-> e, person |-> c[2], grant |-> 0])
  /\ UNCHANGED <<tokens, oauthStates, made, rc, monitor, lost>>

\* consumeOAuthState finds the state.
AcceptState(q, c, e) ==
  /\ request[q].at = "idle" /\ c \in codes /\ <<c[1], e, "fresh">> \in oauthStates
  /\ oauthStates' = oauthStates \ {<<c[1], e, "fresh">>}
  /\ accepted' = accepted \cup {c[1]}
  /\ Advance(q, [at |-> "exchange", state |-> c[1], email |-> e, person |-> c[2], grant |-> 0])
  /\ UNCHANGED <<tokens, made, rc, monitor, lost>>

\* It finds an expired one, and deletes it all the same.
RejectExpired(c) ==
  /\ c \in codes
  /\ \E e \in Email :
       /\ <<c[1], e, "expired">> \in oauthStates
       /\ oauthStates' = oauthStates \ {<<c[1], e, "expired">>}
  /\ UNCHANGED <<tokens, made, rc, request, monitor, accepted, lost>>

\* exchangeCode: RC takes each code once.  It grants a refresh token or none.
ExchangeCode(q) ==
  LET r == request[q]  c == <<r.state, r.person>> IN
  /\ r.at = "exchange" /\ c \in codes \ spent
  /\ spent' = spent \cup {c}
  /\ \/ \E g \in NextGrant :
          /\ issuedTo' = [issuedTo EXCEPT ![g] = r.person] /\ valid' = valid \cup {g}
          /\ Advance(q, [r EXCEPT !.at = "verify", !.grant = g])
     \/ Advance(q, [r EXCEPT !.at = "verify"]) /\ UNCHANGED <<issuedTo, valid>>
  /\ UNCHANGED <<tokens, oauthStates, made, codes, monitor, accepted, lost>>

\* Mutant: whoever has consented is taken for the account's person.
VerifyAnybody(q) ==
  /\ request[q].at = "verify"
  /\ Advance(q, [request[q] EXCEPT !.at = "save"])
  /\ UNCHANGED <<tokens, oauthStates, made, rc, monitor, accepted, lost>>

\* authenticatedRCProfile: the profile's email is that of the state.
VerifyPerson(q) ==
  /\ request[q].at = "verify" /\ request[q].person = request[q].email
  /\ Advance(q, [request[q] EXCEPT !.at = "save"])
  /\ UNCHANGED <<tokens, oauthStates, made, rc, monitor, accepted, lost>>

\* saveToken, the empty token included.
SaveToken(q) ==
  LET r == request[q] IN
  /\ r.at = "save"
  /\ tokens' = [tokens EXCEPT ![r.email] = r.grant] /\ lost' = lost \ {r.email}
  /\ Advance(q, IdleRequest)
  /\ UNCHANGED <<oauthStates, made, rc, monitor, accepted>>

\* Any call fails, the code is missing, or the account is somebody else's.
CallbackEnds(q) ==
  /\ request[q].at # "idle" /\ Advance(q, IdleRequest)
  /\ UNCHANGED <<tokens, oauthStates, made, rc, monitor, accepted, lost>>

-------------------------------------------------------------------------------
(* bearerToken in the hub monitor.                                         *)

\* A Pat would go to the Hub as it is, and leave nothing to do here.
ReadToken(e) ==
  /\ monitor.at = "idle" /\ tokens[e] \in Grant
  /\ monitor' = [at |-> "refresh", email |-> e, grant |-> tokens[e]]
  /\ UNCHANGED <<tokens, oauthStates, made, rc, request, accepted, lost>>

\* Mutant: no refresh token in the answer means an empty one.
RefreshKeepsNothing ==
  /\ monitor.at = "refresh" /\ monitor.grant \in valid
  /\ monitor' = [monitor EXCEPT !.at = "save", !.grant = 0]
  /\ UNCHANGED <<tokens, oauthStates, made, rc, request, accepted, lost>>

\* RC's answer carries no new refresh token: decodeOAuthTokenResponse falls back
\* on the one in use.
RefreshKeeps ==
  /\ monitor.at = "refresh" /\ monitor.grant \in valid
  /\ monitor' = [monitor EXCEPT !.at = "save"]
  /\ UNCHANGED <<tokens, oauthStates, made, rc, request, accepted, lost>>

\* RC rotates the token; the answer may not arrive.
RefreshRotates ==
  /\ monitor.at = "refresh" /\ monitor.grant \in valid
  /\ \E g \in NextGrant :
       /\ issuedTo' = [issuedTo EXCEPT ![g] = issuedTo[monitor.grant]]
       /\ valid' = (valid \ {monitor.grant}) \cup {g}
       /\ \/ monitor' = [monitor EXCEPT !.at = "save", !.grant = g] /\ UNCHANGED lost
          \/ monitor' = IdleMonitor /\ lost' = lost \cup {monitor.email}
  /\ UNCHANGED <<tokens, oauthStates, made, codes, spent, request, accepted>>

\* RC refuses the token, or cannot be reached.
RefreshFails ==
  /\ monitor.at = "refresh" /\ monitor' = IdleMonitor
  /\ UNCHANGED <<tokens, oauthStates, made, rc, request, accepted, lost>>

\* Mutant: the token that was read is taken for the one to keep.
SaveRefreshedOld ==
  /\ monitor.at = "save" /\ monitor' = IdleMonitor
  /\ UNCHANGED <<tokens, oauthStates, made, rc, request, accepted, lost>>

\* saveToken, over whatever a callback has put there meanwhile.
SaveRefreshed ==
  /\ monitor.at = "save"
  /\ tokens' = [tokens EXCEPT ![monitor.email] = monitor.grant]
  /\ monitor' = IdleMonitor
  /\ UNCHANGED <<oauthStates, made, rc, request, accepted, lost>>

\* The account whose new token is gone with the monitor's step.
Losing == {e \in Email : monitor.at = "save" /\ monitor.email = e /\ monitor.grant # tokens[e]}

SaveRefreshedFails ==
  /\ monitor.at = "save"
  /\ lost' = lost \cup Losing /\ monitor' = IdleMonitor
  /\ UNCHANGED <<tokens, oauthStates, made, rc, request, accepted>>

\* The process dies and is started again on the same tables.
Crash ==
  /\ oauthStates' = {} /\ request' = [q \in Request |-> IdleRequest] /\ monitor' = IdleMonitor
  /\ lost' = lost \cup Losing
  /\ UNCHANGED <<tokens, made, rc, accepted>>

CredNext ==
  \/ \E e \in Email, s \in State : Login(e, s) \/ OAuthStart(e, s) \/ Consent(s, e)
  \/ \E s \in State : StateExpires(s)
  \/ \E c \in codes : RejectExpired(c) \/ \E q \in Request, e \in Email : AcceptState(q, c, e)
  \/ \E q \in Request :
       ExchangeCode(q) \/ VerifyPerson(q) \/ SaveToken(q) \/ CallbackEnds(q)
  \/ \E e \in Email : ReadToken(e)
  \/ RefreshKeeps \/ RefreshRotates \/ RefreshFails \/ SaveRefreshed \/ SaveRefreshedFails \/ Crash

CredSpec == CredInit /\ [][CredNext]_credVars

-------------------------------------------------------------------------------
(* Properties.                                                             *)

\* An account's refresh token is one that RC issued to its own person, however
\* callbacks of several logins and the hub monitor overlap (web.go:264,
\* DOCS.md:114).
OwnCredential == \A e \in Email : tokens[e] \in Grant => issuedTo[tokens[e]] = e

\* An OAuth state opens the account to one callback at most, before and after a
\* restart (oauth.go:277-289).
StateAcceptedOnce ==
  [][\A q \in Request, c \in codes, e \in Email : AcceptState(q, c, e) => c[1] \notin accepted]_credVars

\* RC takes the stored refresh token, unless it has just been rotated and the
\* new one is about to be saved, or the new one has been lost on its way: the
\* monitor and a callback that overwrite each other's token do no harm
\* (oauth.go:239-259, web.go:270).
UsableUnlessLost ==
  \A e \in Email \ lost : tokens[e] \in Grant =>
    tokens[e] \in valid \/ (monitor.at = "save" /\ monitor.email = e)

\* Only a callback to which RC has granted no refresh token takes an
\* authorization away; using one never does (oauth.go:218-220, web.go:270).
KeepsAuthorization ==
  [][\A e \in Email : tokens[e] # 0 /\ tokens'[e] = 0 =>
       \E q \in Request : request[q].at = "save" /\ request[q].email = e /\ request[q].grant = 0]_credVars

\* To HubMonitor, which only asks what a token is good for, the table looks as it
\* expects, with the monitor's call between reading and saving as the borrower.
Table == INSTANCE TokenTable WITH
  Account <- Email, NoAccount <- NoEmail, borrower <- monitor.email,
  kept <- [e \in Email |-> IF tokens[e] = 0 THEN "none" ELSE IF tokens[e] = Pat THEN "pat" ELSE "oauth"]

\* However callbacks and refreshes overlap, fail and crash, the table changes only
\* as HubMonitor has it: no refresh empties it, fills an account that was not read,
\* or touches a personal access token (oauth.go:239-259, web.go:270).
ImplementsTokenTable == Table!TableSpec
===============================================================================
