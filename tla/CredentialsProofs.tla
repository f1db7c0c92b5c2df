-------------------------- MODULE CredentialsProofs --------------------------
(***************************************************************************)
(* Theorems about Credentials, for every set of accounts, every number of  *)
(* states, callbacks at one time and tokens issued.                        *)
(***************************************************************************)
EXTENDS Credentials, TLAPS

LEMMA CallbackTypeStep ==
  ASSUME CredTypeOK, NEW q \in Request,
         \/ \E c \in codes, e \in Email : AcceptState(q, c, e)
         \/ ExchangeCode(q) \/ VerifyPerson(q) \/ SaveToken(q) \/ CallbackEnds(q)
  PROVE  CredTypeOK'
<1> USE CredentialsAssumption DEF CredTypeOK, InHand, rc, Advance
<1>1. IdleRequest \in Callback /\ IdleRequest.at = "idle" /\ request[q] \in Callback
  BY DEF Callback, IdleRequest
<1>2. ASSUME NEW c \in codes, NEW e \in Email, AcceptState(q, c, e) PROVE CredTypeOK'
  <2>1. c[1] \in State /\ c[2] \in Email
    OBVIOUS
  <2> QED BY <1>2, <2>1 DEF AcceptState, Callback
<1>3. CASE ExchangeCode(q)
  <2>1. ASSUME NEW g \in Grant \cup {0}
        PROVE  LET v == [request[q] EXCEPT !.at = "verify", !.grant = g] IN
               v \in Callback /\ v.email = request[q].email /\ v.person = request[q].person
    BY <1>1 DEF Callback
  <2>2. [request[q] EXCEPT !.at = "verify"] = [request[q] EXCEPT !.at = "verify", !.grant = request[q].grant]
    BY <1>1 DEF Callback
  <2>3. request[q].grant \in Grant \cup {0} /\ request[q].at = "exchange" /\ request[q].person \in Email \cup {NoEmail}
    BY <1>1, <1>3 DEF ExchangeCode, Callback
  <2>4. CASE \E g \in NextGrant :
               /\ issuedTo' = [issuedTo EXCEPT ![g] = request[q].person] /\ valid' = valid \cup {g}
               /\ request' = [request EXCEPT ![q] = [request[q] EXCEPT !.at = "verify", !.grant = g]]
    <3>1. PICK g \in NextGrant :
            /\ issuedTo' = [issuedTo EXCEPT ![g] = request[q].person] /\ valid' = valid \cup {g}
            /\ request' = [request EXCEPT ![q] = [request[q] EXCEPT !.at = "verify", !.grant = g]]
      BY <2>4
    <3>2. g \in Grant
      BY DEF NextGrant
    <3>3. request' \in [Request -> Callback] /\ InHand'
      BY <1>3, <2>1, <2>3, <3>1, <3>2 DEF ExchangeCode
    <3>4. issuedTo' \in [Grant -> Email \cup {NoEmail}] /\ valid' \in SUBSET Grant /\ spent' \in SUBSET codes
      BY <1>3, <2>3, <3>1, <3>2 DEF ExchangeCode
    <3> QED BY <1>3, <3>3, <3>4 DEF ExchangeCode
  <2>5. CASE /\ request' = [request EXCEPT ![q] = [request[q] EXCEPT !.at = "verify"]]
             /\ UNCHANGED <<issuedTo, valid>>
    BY <1>3, <2>1, <2>2, <2>3, <2>5 DEF ExchangeCode
  <2> QED BY <1>3, <2>4, <2>5 DEF ExchangeCode
<1>4. CASE VerifyPerson(q)
  <2>1. LET v == [request[q] EXCEPT !.at = "save"] IN
        v \in Callback /\ v.email = request[q].email /\ v.person = request[q].person
    BY <1>1 DEF Callback
  <2>2. request[q].at = "verify"
    BY <1>4 DEF VerifyPerson
  <2> QED BY <1>4, <2>1, <2>2 DEF VerifyPerson
<1>5. CASE SaveToken(q)
  <2>1. request[q].grant \in Grant \cup {0}
    BY <1>1 DEF Callback
  <2> QED BY <1>1, <1>5, <2>1 DEF SaveToken
<1>6. CASE CallbackEnds(q)
  BY <1>1, <1>6 DEF CallbackEnds
<1> QED BY <1>2, <1>3, <1>4, <1>5, <1>6

LEMMA MonitorTypeStep ==
  ASSUME CredTypeOK,
         \/ \E e \in Email : ReadToken(e)
         \/ RefreshKeeps \/ RefreshRotates \/ RefreshFails \/ SaveRefreshed \/ SaveRefreshedFails \/ Crash
  PROVE  CredTypeOK'
<1> USE CredentialsAssumption DEF CredTypeOK, InHand, rc, Losing, Refresh
<1>1. IdleMonitor \in Refresh /\ IdleMonitor.at = "idle" /\ IdleRequest \in Callback /\ IdleRequest.at = "idle"
  BY DEF IdleMonitor, IdleRequest, Callback
<1>2. ASSUME NEW e \in Email, ReadToken(e) PROVE CredTypeOK'
  BY <1>2 DEF ReadToken, Grant
<1>3. CASE RefreshKeeps
  BY <1>3 DEF RefreshKeeps
<1>4. CASE RefreshRotates
  <2>1. PICK g \in NextGrant :
          /\ issuedTo' = [issuedTo EXCEPT ![g] = issuedTo[monitor.grant]]
          /\ valid' = (valid \ {monitor.grant}) \cup {g}
          /\ \/ monitor' = [monitor EXCEPT !.at = "save", !.grant = g] /\ UNCHANGED lost
             \/ monitor' = IdleMonitor /\ lost' = lost \cup {monitor.email}
    BY <1>4 DEF RefreshRotates
  <2>2. g \in Grant /\ g # 0 /\ monitor.grant \in Grant /\ monitor.at = "refresh" /\ monitor.email \in Email
    <3>1. g \in Grant
      BY DEF NextGrant
    <3>2. g # 0
      BY <3>1 DEF Grant
    <3> QED BY <1>4, <3>1, <3>2 DEF RefreshRotates
  <2>3. issuedTo' \in [Grant -> Email \cup {NoEmail}] /\ valid' \in SUBSET Grant
    BY <2>1, <2>2
  <2>4. monitor' \in Refresh /\ lost' \in SUBSET Email /\ (monitor'.at # "idle" => monitor'.email \in Email /\ monitor'.grant # 0)
    BY <1>1, <2>1, <2>2
  <2> QED BY <1>4, <2>3, <2>4 DEF RefreshRotates
<1>5. CASE RefreshFails
  BY <1>1, <1>5 DEF RefreshFails
<1>6. CASE SaveRefreshed
  BY <1>1, <1>6 DEF SaveRefreshed
<1>7. CASE SaveRefreshedFails
  BY <1>1, <1>7 DEF SaveRefreshedFails
<1>8. CASE Crash
  BY <1>1, <1>8 DEF Crash
<1> QED BY <1>2, <1>3, <1>4, <1>5, <1>6, <1>7, <1>8

LEMMA LoginTypeStep ==
  ASSUME CredTypeOK,
         \/ \E e \in Email, s \in State : Login(e, s) \/ OAuthStart(e, s) \/ Consent(s, e)
         \/ \E s \in State : StateExpires(s)
         \/ \E c \in codes : RejectExpired(c)
  PROVE  CredTypeOK'
<1> USE DEF CredTypeOK, InHand, rc
<1>1. ASSUME NEW e \in Email, NEW s \in State, MakeState(e, s) PROVE CredTypeOK'
  BY <1>1 DEF MakeState
<1>2. ASSUME NEW e \in Email, NEW s \in State, Consent(s, e) PROVE CredTypeOK'
  BY <1>2 DEF Consent
<1>3. ASSUME NEW s \in State, StateExpires(s) PROVE CredTypeOK'
  BY <1>3 DEF StateExpires
<1>4. ASSUME NEW c \in codes, RejectExpired(c) PROVE CredTypeOK'
  BY <1>4 DEF RejectExpired
<1> QED BY <1>1, <1>2, <1>3, <1>4 DEF Login, OAuthStart

LEMMA CredTypeStep == CredTypeOK /\ [CredNext]_credVars => CredTypeOK'
<1>1. CredTypeOK /\ UNCHANGED credVars => CredTypeOK'
  BY DEF CredTypeOK, InHand, credVars, rc
<1> QED BY <1>1, CallbackTypeStep, MonitorTypeStep, LoginTypeStep DEF CredNext

LEMMA CredTypeInit == CredInit => CredTypeOK
BY CredentialsAssumption DEF CredInit, CredTypeOK, InHand, Grant, Pat, IdleRequest, IdleMonitor, Callback, Refresh

\* Type correctness: the tables, the requests and the monitor's call keep their
\* form through every login, callback, refresh and crash.
THEOREM CredTypeCorrect == CredSpec => []CredTypeOK
BY CredTypeInit, CredTypeStep, PTL DEF CredSpec

-------------------------------------------------------------------------------
\* A request holds a token of the person who has consented, who at the end is
\* the account's; the monitor holds one of the account it is at.
Held ==
  /\ \A q \in Request : request[q].grant # 0 =>
       request[q].at # "idle" /\ issuedTo[request[q].grant] = request[q].person
  /\ \A q \in Request : request[q].at = "save" => request[q].person = request[q].email
  /\ monitor.at # "idle" => issuedTo[monitor.grant] = monitor.email

Owned == CredTypeOK /\ OwnCredential /\ Held

\* A token is nobody's until RC issues it, so nobody holds the next one.
LEMMA NextIsNew ==
  ASSUME Owned, NEW g \in NextGrant
  PROVE  /\ g \in Grant /\ g # 0 /\ \A e \in Email : tokens[e] # g
         /\ \A q \in Request : request[q].grant # g
         /\ monitor.at # "idle" => monitor.grant # g
<1> USE CredentialsAssumption DEF Owned, CredTypeOK, InHand
<1>1. g \in Grant /\ issuedTo[g] = NoEmail
  BY DEF NextGrant
<1>2. g # 0
  BY <1>1 DEF Grant
<1>3. \A e \in Email : tokens[e] # g
  BY <1>1 DEF OwnCredential
<1>4. \A q \in Request : request[q].grant # g
  BY <1>1, <1>2 DEF Held
<1>5. monitor.at # "idle" => monitor.grant # g
  BY <1>1 DEF Held
<1> QED BY <1>1, <1>2, <1>3, <1>4, <1>5

LEMMA OwnedCallbackStep ==
  ASSUME Owned, NEW q \in Request,
         \/ \E c \in codes, e \in Email : AcceptState(q, c, e)
         \/ ExchangeCode(q) \/ VerifyPerson(q) \/ SaveToken(q) \/ CallbackEnds(q)
  PROVE  OwnCredential' /\ Held'
<1> USE DEF Owned, CredTypeOK, InHand, OwnCredential, Held, Advance, rc
<1>1. IdleRequest.at = "idle" /\ IdleRequest.grant = 0 /\ request[q] \in Callback
  BY DEF IdleRequest
<1>2. ASSUME NEW c \in codes, NEW e \in Email, AcceptState(q, c, e) PROVE OwnCredential' /\ Held'
  BY <1>2 DEF AcceptState
<1>3. CASE ExchangeCode(q)
  <2>1. CASE \E g \in NextGrant :
               /\ issuedTo' = [issuedTo EXCEPT ![g] = request[q].person]
               /\ request' = [request EXCEPT ![q] = [request[q] EXCEPT !.at = "verify", !.grant = g]]
    <3>1. PICK g \in NextGrant :
            /\ issuedTo' = [issuedTo EXCEPT ![g] = request[q].person]
            /\ request' = [request EXCEPT ![q] = [request[q] EXCEPT !.at = "verify", !.grant = g]]
      BY <2>1
    <3>2. /\ request'[q].at = "verify" /\ request'[q].grant = g /\ request'[q].person = request[q].person
          /\ \A p \in Request \ {q} : request'[p] = request[p]
      BY <1>1, <3>1 DEF Callback
    <3>3. issuedTo'[g] = request[q].person /\ \A h \in Grant \ {g} : issuedTo'[h] = issuedTo[h]
      BY <3>1, NextIsNew
    <3>4. OwnCredential'
      <4>1. \A e \in Email : tokens'[e] = tokens[e] /\ tokens[e] # g
        BY <1>3, NextIsNew DEF ExchangeCode
      <4>2. \A e \in Email : tokens[e] \in Grant => issuedTo'[tokens[e]] = issuedTo[tokens[e]]
        BY <3>3, <4>1
      <4> QED BY <4>1, <4>2
    <3>5. monitor.grant \in Grant \cup {0}
      BY DEF Refresh
    <3>6. \A p \in Request : request[p].grant \in Grant \cup {0}
      BY DEF Callback
    <3>7. Held'
      <4>1. monitor' = monitor /\ \A p \in Request : request[p].grant # g
        BY <1>3, NextIsNew DEF ExchangeCode
      <4>2. \A p \in Request : request'[p].grant # 0 =>
              request'[p].at # "idle" /\ issuedTo'[request'[p].grant] = request'[p].person
        BY <3>2, <3>3, <3>6, <4>1
      <4>3. \A p \in Request : request'[p].at = "save" => request'[p].person = request'[p].email
        BY <3>2
      <4>4. monitor.at # "idle" => issuedTo'[monitor.grant] = monitor.email
        BY <3>3, <3>5, NextIsNew
      <4> QED BY <4>1, <4>2, <4>3, <4>4
    <3> QED BY <3>4, <3>7
  <2>2. CASE /\ request' = [request EXCEPT ![q] = [request[q] EXCEPT !.at = "verify"]]
             /\ UNCHANGED <<issuedTo, valid>>
    <3>1. /\ request'[q].at = "verify" /\ request'[q].grant = request[q].grant /\ request'[q].person = request[q].person
          /\ \A p \in Request \ {q} : request'[p] = request[p]
      BY <1>1, <2>2 DEF Callback
    <3> QED BY <1>3, <2>2, <3>1 DEF ExchangeCode
  <2> QED BY <1>3, <2>1, <2>2 DEF ExchangeCode
<1>4. CASE VerifyPerson(q)
  <2>1. /\ request'[q].at = "save" /\ request'[q].grant = request[q].grant
        /\ request'[q].person = request[q].person /\ request'[q].email = request[q].email
        /\ \A p \in Request \ {q} : request'[p] = request[p]
    BY <1>1, <1>4 DEF VerifyPerson, Callback
  <2> QED BY <1>4, <2>1 DEF VerifyPerson
<1>5. CASE SaveToken(q)
  <2>1. request[q].grant \in Grant => issuedTo[request[q].grant] = request[q].email
    BY <1>5, CredentialsAssumption DEF SaveToken, Grant
  <2>2. OwnCredential'
    BY <1>5, <2>1 DEF SaveToken
  <2>3. Held'
    BY <1>1, <1>5 DEF SaveToken
  <2> QED BY <2>2, <2>3
<1>6. CASE CallbackEnds(q)
  BY <1>1, <1>6 DEF CallbackEnds
<1> QED BY <1>2, <1>3, <1>4, <1>5, <1>6

LEMMA OwnedMonitorStep ==
  ASSUME Owned,
         \/ \E e \in Email : ReadToken(e)
         \/ RefreshKeeps \/ RefreshRotates \/ RefreshFails \/ SaveRefreshed \/ SaveRefreshedFails \/ Crash
  PROVE  OwnCredential' /\ Held'
<1> USE DEF Owned, CredTypeOK, InHand, OwnCredential, Held, rc
<1>1. IdleMonitor.at = "idle" /\ IdleRequest.at = "idle" /\ IdleRequest.grant = 0
  BY DEF IdleMonitor, IdleRequest
<1>2. ASSUME NEW e \in Email, ReadToken(e) PROVE OwnCredential' /\ Held'
  BY <1>2 DEF ReadToken
<1>3. CASE RefreshKeeps
  BY <1>3 DEF RefreshKeeps, Refresh
<1>4. CASE RefreshRotates
  <2>1. PICK g \in NextGrant :
          /\ issuedTo' = [issuedTo EXCEPT ![g] = issuedTo[monitor.grant]]
          /\ \/ monitor' = [monitor EXCEPT !.at = "save", !.grant = g]
             \/ monitor' = IdleMonitor
    BY <1>4 DEF RefreshRotates
  <2>2. issuedTo'[g] = monitor.email /\ \A h \in Grant \ {g} : issuedTo'[h] = issuedTo[h]
    BY <1>4, <2>1, NextIsNew DEF RefreshRotates
  <2>3. OwnCredential'
    <3>1. \A e \in Email : tokens'[e] = tokens[e] /\ tokens[e] # g
      BY <1>4, NextIsNew DEF RefreshRotates
    <3>2. \A e \in Email : tokens[e] \in Grant => issuedTo'[tokens[e]] = issuedTo[tokens[e]]
      BY <2>2, <3>1
    <3> QED BY <3>1, <3>2
  <2>4. \A p \in Request : request[p].grant \in Grant \cup {0}
    BY DEF Callback
  <2>5. monitor'.at # "idle" => monitor'.grant = g /\ monitor'.email = monitor.email
    BY <1>1, <2>1 DEF Refresh
  <2>6. Held'
    BY <1>4, <2>2, <2>4, <2>5, NextIsNew DEF RefreshRotates
  <2> QED BY <2>3, <2>6
<1>5. CASE RefreshFails
  BY <1>1, <1>5 DEF RefreshFails
<1>6. CASE SaveRefreshed
  BY <1>1, <1>6 DEF SaveRefreshed
<1>7. CASE SaveRefreshedFails
  BY <1>1, <1>7 DEF SaveRefreshedFails
<1>8. CASE Crash
  BY <1>1, <1>8 DEF Crash
<1> QED BY <1>2, <1>3, <1>4, <1>5, <1>6, <1>7, <1>8

LEMMA OwnedStep == Owned /\ [CredNext]_credVars => Owned'
<1> SUFFICES ASSUME Owned, [CredNext]_credVars PROVE OwnCredential' /\ Held'
  BY CredTypeStep DEF Owned
<1>1. CASE UNCHANGED <<tokens, issuedTo, request, monitor>>
  BY <1>1 DEF Owned, OwnCredential, Held
<1>2. CASE CredNext
  <2>1. ASSUME NEW e \in Email, NEW s \in State, Login(e, s) \/ OAuthStart(e, s) \/ Consent(s, e)
        PROVE  UNCHANGED <<tokens, issuedTo, request, monitor>>
    BY <2>1 DEF Login, OAuthStart, MakeState, Consent, rc
  <2>2. ASSUME NEW s \in State, StateExpires(s) PROVE UNCHANGED <<tokens, issuedTo, request, monitor>>
    BY <2>2 DEF StateExpires, rc
  <2>3. ASSUME NEW c \in codes, RejectExpired(c) PROVE UNCHANGED <<tokens, issuedTo, request, monitor>>
    BY <2>3 DEF RejectExpired, rc
  <2> QED BY <1>1, <1>2, <2>1, <2>2, <2>3, OwnedCallbackStep, OwnedMonitorStep DEF CredNext
<1> QED BY <1>1, <1>2 DEF credVars, rc

LEMMA OwnedInit == CredInit => Owned
<1> SUFFICES ASSUME CredInit PROVE OwnCredential /\ Held
  BY CredTypeInit DEF Owned
<1> QED BY CredentialsAssumption DEF CredInit, OwnCredential, Held, Grant, Pat, IdleRequest, IdleMonitor

\* No account ever holds a refresh token of another person: what handleOAuthCallback
\* and bearerToken save belongs to the account they save it for, however many
\* callbacks are served at one time.
THEOREM CredentialsOwned == CredSpec => []OwnCredential
<1>1. Owned => OwnCredential
  BY DEF Owned
<1> QED BY <1>1, OwnedInit, OwnedStep, PTL DEF CredSpec

\* Using an authorization never takes it away.
THEOREM AuthorizationKept == CredSpec => KeepsAuthorization
<1>1. Owned /\ [CredNext]_credVars =>
        [\A e \in Email : tokens[e] # 0 /\ tokens'[e] = 0 =>
           \E q \in Request : request[q].at = "save" /\ request[q].email = e /\ request[q].grant = 0]_credVars
  <2> SUFFICES ASSUME Owned, CredNext, NEW e \in Email, tokens[e] # 0, tokens'[e] = 0
               PROVE  \E q \in Request : request[q].at = "save" /\ request[q].email = e /\ request[q].grant = 0
    OBVIOUS
  <2>1. tokens' # tokens
    OBVIOUS
  <2>2. \/ SaveRefreshed \/ \E q \in Request : SaveToken(q)
    BY <2>1 DEF CredNext, Login, OAuthStart, MakeState, Consent, StateExpires, RejectExpired, AcceptState,
          ExchangeCode, VerifyPerson, CallbackEnds, ReadToken, RefreshKeeps, RefreshRotates, RefreshFails,
          SaveRefreshedFails, Crash
  <2>3. ~SaveRefreshed
    BY DEF SaveRefreshed, Owned, CredTypeOK, InHand
  <2>4. PICK q \in Request : SaveToken(q)
    BY <2>2, <2>3
  <2> QED BY <2>4 DEF SaveToken, Owned, CredTypeOK
<1> QED BY <1>1, OwnedInit, OwnedStep, PTL DEF CredSpec, KeepsAuthorization

-------------------------------------------------------------------------------
\* A state that waits has been made, for one account, and was never accepted.
StatesOnce ==
  /\ accepted \subseteq made
  /\ \A t \in oauthStates : t[1] \in made \ accepted
  /\ \A t, u \in oauthStates : t[1] = u[1] => t = u

LEMMA StatesOnceStep == CredTypeOK /\ StatesOnce /\ [CredNext]_credVars => StatesOnce'
<1> SUFFICES ASSUME CredTypeOK, StatesOnce, [CredNext]_credVars PROVE StatesOnce'
  OBVIOUS
<1> USE DEF StatesOnce, CredTypeOK
<1>1. CASE UNCHANGED <<oauthStates, made, accepted>>
  BY <1>1
<1>2. ASSUME NEW e \in Email, NEW s \in State, MakeState(e, s) PROVE StatesOnce'
  BY <1>2 DEF MakeState
<1>3. ASSUME NEW s \in State, StateExpires(s) PROVE StatesOnce'
  <2>1. PICK e \in Email :
          /\ <<s, e, "fresh">> \in oauthStates
          /\ oauthStates' = (oauthStates \ {<<s, e, "fresh">>}) \cup {<<s, e, "expired">>}
    BY <1>3 DEF StateExpires
  <2>2. \A t \in oauthStates : t[1] = s => t = <<s, e, "fresh">>
    BY <2>1
  <2>3. accepted' = accepted /\ made' = made
    BY <1>3 DEF StateExpires
  <2>4. \A t \in oauthStates' : (t \in oauthStates /\ t[1] # s) \/ t = <<s, e, "expired">>
    BY <2>1, <2>2
  <2> QED BY <2>1, <2>3, <2>4
<1>4. ASSUME NEW c \in codes, RejectExpired(c) PROVE StatesOnce'
  BY <1>4 DEF RejectExpired
<1>5. ASSUME NEW c \in codes, NEW q \in Request, NEW e \in Email, AcceptState(q, c, e) PROVE StatesOnce'
  <2>1. \A t \in oauthStates' : t \in oauthStates /\ t[1] # c[1]
    BY <1>5 DEF AcceptState
  <2>2. c[1] \in made
    BY <1>5 DEF AcceptState
  <2> QED BY <1>5, <2>1, <2>2 DEF AcceptState
<1>6. CASE Crash
  BY <1>6 DEF Crash
<1>7. CASE CredNext
  <2>1. ASSUME NEW e \in Email, NEW s \in State, Consent(s, e) PROVE StatesOnce'
    BY <1>1, <2>1 DEF Consent
  <2>2. ASSUME NEW q \in Request, ExchangeCode(q) \/ VerifyPerson(q) \/ SaveToken(q) \/ CallbackEnds(q)
        PROVE  StatesOnce'
    BY <1>1, <2>2 DEF ExchangeCode, VerifyPerson, SaveToken, CallbackEnds
  <2>3. ASSUME \/ \E e \in Email : ReadToken(e)
               \/ RefreshKeeps \/ RefreshRotates \/ RefreshFails \/ SaveRefreshed \/ SaveRefreshedFails
        PROVE  StatesOnce'
    BY <1>1, <2>3 DEF ReadToken, RefreshKeeps, RefreshRotates, RefreshFails, SaveRefreshed, SaveRefreshedFails
  <2> QED BY <1>2, <1>3, <1>4, <1>5, <1>6, <1>7, <2>1, <2>2, <2>3 DEF CredNext, Login, OAuthStart
<1> QED BY <1>1, <1>7 DEF credVars

\* An OAuth state admits one callback, whatever is loaded again, expires or is
\* restarted.
THEOREM StatesAcceptedOnce == CredSpec => StateAcceptedOnce
<1>1. CredInit => StatesOnce
  BY DEF CredInit, StatesOnce
<1>2. StatesOnce =>
        [\A q \in Request, c \in codes, e \in Email : AcceptState(q, c, e) => c[1] \notin accepted]_credVars
  BY DEF AcceptState, StatesOnce
<1> QED BY <1>1, <1>2, StatesOnceStep, CredTypeInit, CredTypeStep, PTL DEF CredSpec, StateAcceptedOnce

-------------------------------------------------------------------------------
\* Every token in somebody's hand is valid until it is stored, and is in one hand.
Unspent ==
  /\ \A q \in Request : request[q].grant # 0 =>
       /\ request[q].grant \in valid
       /\ monitor.at # "idle" => monitor.grant # request[q].grant
       /\ \A e \in Email : tokens[e] # request[q].grant
  /\ \A q, p \in Request : q # p /\ request[q].grant # 0 => request[q].grant # request[p].grant
  /\ monitor.at = "save" => monitor.grant \in valid

Usable == Owned /\ UsableUnlessLost /\ Unspent

LEMMA UsableCallbackStep ==
  ASSUME Usable, NEW q \in Request,
         \/ \E c \in codes, e \in Email : AcceptState(q, c, e)
         \/ ExchangeCode(q) \/ VerifyPerson(q) \/ SaveToken(q) \/ CallbackEnds(q)
  PROVE  UsableUnlessLost' /\ Unspent'
<1> USE DEF Usable, Owned, CredTypeOK, UsableUnlessLost, Unspent, Advance, rc
<1>1. IdleRequest.at = "idle" /\ IdleRequest.grant = 0 /\ request[q] \in Callback
  BY DEF IdleRequest
<1>2. ASSUME NEW c \in codes, NEW e \in Email, AcceptState(q, c, e) PROVE UsableUnlessLost' /\ Unspent'
  BY <1>2 DEF AcceptState
<1>3. CASE ExchangeCode(q)
  <2>1. CASE \E g \in NextGrant :
               /\ valid' = valid \cup {g}
               /\ request' = [request EXCEPT ![q] = [request[q] EXCEPT !.at = "verify", !.grant = g]]
    <3>1. PICK g \in NextGrant :
            /\ valid' = valid \cup {g}
            /\ request' = [request EXCEPT ![q] = [request[q] EXCEPT !.at = "verify", !.grant = g]]
      BY <2>1
    <3>2. request'[q].grant = g /\ \A p \in Request \ {q} : request'[p] = request[p]
      BY <1>1, <3>1 DEF Callback
    <3>3. UNCHANGED <<tokens, monitor, lost>>
      BY <1>3 DEF ExchangeCode
    <3>4. g # 0 /\ (\A e \in Email : tokens[e] # g) /\ (\A p \in Request : request[p].grant # g)
          /\ (monitor.at # "idle" => monitor.grant # g)
      BY NextIsNew
    <3>5. UsableUnlessLost'
      BY <3>1, <3>3
    <3>6. Unspent'
      BY <3>1, <3>2, <3>3, <3>4
    <3> QED BY <3>5, <3>6
  <2>2. CASE /\ request' = [request EXCEPT ![q] = [request[q] EXCEPT !.at = "verify"]]
             /\ UNCHANGED <<issuedTo, valid>>
    <3>1. request'[q].grant = request[q].grant /\ \A p \in Request \ {q} : request'[p] = request[p]
      BY <1>1, <2>2 DEF Callback
    <3> QED BY <1>3, <2>2, <3>1 DEF ExchangeCode
  <2> QED BY <1>3, <2>1, <2>2 DEF ExchangeCode
<1>4. CASE VerifyPerson(q)
  <2>1. request'[q].grant = request[q].grant /\ \A p \in Request \ {q} : request'[p] = request[p]
    BY <1>1, <1>4 DEF VerifyPerson, Callback
  <2> QED BY <1>4, <2>1 DEF VerifyPerson
<1>5. CASE SaveToken(q)
  <2>1. request'[q].grant = 0 /\ \A p \in Request \ {q} : request'[p] = request[p]
    BY <1>1, <1>5 DEF SaveToken
  <2>2. 0 \notin Grant
    BY CredentialsAssumption DEF Grant
  <2>3. UsableUnlessLost'
    BY <1>5, <2>2 DEF SaveToken
  <2>4. Unspent'
    BY <1>5, <2>1 DEF SaveToken
  <2> QED BY <2>3, <2>4
<1>6. CASE CallbackEnds(q)
  BY <1>1, <1>6 DEF CallbackEnds
<1> QED BY <1>2, <1>3, <1>4, <1>5, <1>6

LEMMA UsableMonitorStep ==
  ASSUME Usable,
         \/ \E e \in Email : ReadToken(e)
         \/ RefreshKeeps \/ RefreshRotates \/ RefreshFails \/ SaveRefreshed \/ SaveRefreshedFails \/ Crash
  PROVE  UsableUnlessLost' /\ Unspent'
<1> USE DEF Usable, Owned, CredTypeOK, InHand, UsableUnlessLost, Unspent, rc
<1>1. IdleMonitor.at = "idle" /\ IdleRequest.at = "idle" /\ IdleRequest.grant = 0
  BY DEF IdleMonitor, IdleRequest
<1>2. ASSUME NEW e \in Email, ReadToken(e) PROVE UsableUnlessLost' /\ Unspent'
  BY <1>2 DEF ReadToken
<1>3. CASE RefreshKeeps
  BY <1>3 DEF RefreshKeeps, Refresh
<1>4. CASE RefreshRotates
  <2>1. PICK g \in NextGrant :
          /\ valid' = (valid \ {monitor.grant}) \cup {g}
          /\ \/ monitor' = [monitor EXCEPT !.at = "save", !.grant = g] /\ UNCHANGED lost
             \/ monitor' = IdleMonitor /\ lost' = lost \cup {monitor.email}
    BY <1>4 DEF RefreshRotates
  <2>2. UNCHANGED <<tokens, request>> /\ monitor.at = "refresh"
    BY <1>4 DEF RefreshRotates
  <2>3. g # 0 /\ \A p \in Request : request[p].grant # g
    BY NextIsNew
  <2>4. \A e \in Email : tokens[e] = monitor.grant => e = monitor.email
    <3>1. monitor.grant \in Grant
      BY <2>2 DEF Refresh
    <3> QED BY <2>2, <3>1 DEF OwnCredential, Held
  <2>5. \/ monitor'.at = "save" /\ monitor'.grant = g /\ monitor'.email = monitor.email /\ lost' = lost
        \/ monitor'.at = "idle" /\ lost' = lost \cup {monitor.email}
    BY <1>1, <2>1 DEF Refresh
  <2>6. UsableUnlessLost'
    BY <2>1, <2>2, <2>4, <2>5
  <2>7. \A p \in Request : request[p].grant # 0 => request[p].grant \in valid' \ {g}
    BY <2>1, <2>2, <2>3
  <2>8. Unspent'
    BY <2>1, <2>2, <2>3, <2>5, <2>7
  <2> QED BY <2>6, <2>8
<1>5. CASE RefreshFails
  BY <1>1, <1>5 DEF RefreshFails
<1>6. CASE SaveRefreshed
  BY <1>1, <1>6 DEF SaveRefreshed
<1>7. CASE SaveRefreshedFails
  BY <1>1, <1>7 DEF SaveRefreshedFails, Losing
<1>8. CASE Crash
  BY <1>1, <1>8 DEF Crash, Losing
<1> QED BY <1>2, <1>3, <1>4, <1>5, <1>6, <1>7, <1>8

LEMMA UsableStep == Usable /\ [CredNext]_credVars => Usable'
<1> SUFFICES ASSUME Usable, [CredNext]_credVars PROVE UsableUnlessLost' /\ Unspent'
  BY OwnedStep DEF Usable
<1>1. CASE UNCHANGED <<tokens, valid, request, monitor, lost>>
  BY <1>1 DEF Usable, UsableUnlessLost, Unspent
<1>2. CASE CredNext
  <2>1. ASSUME NEW e \in Email, NEW s \in State, Login(e, s) \/ OAuthStart(e, s) \/ Consent(s, e)
        PROVE  UNCHANGED <<tokens, valid, request, monitor, lost>>
    BY <2>1 DEF Login, OAuthStart, MakeState, Consent, rc
  <2>2. ASSUME NEW s \in State, StateExpires(s) PROVE UNCHANGED <<tokens, valid, request, monitor, lost>>
    BY <2>2 DEF StateExpires, rc
  <2>3. ASSUME NEW c \in codes, RejectExpired(c) PROVE UNCHANGED <<tokens, valid, request, monitor, lost>>
    BY <2>3 DEF RejectExpired, rc
  <2> QED BY <1>1, <1>2, <2>1, <2>2, <2>3, UsableCallbackStep, UsableMonitorStep DEF CredNext
<1> QED BY <1>1, <1>2 DEF credVars, rc

\* RC takes the stored token of every account, except while its successor is
\* on its way or after that has been lost: no order of callbacks and refreshes
\* leaves a spent token in the table.
THEOREM CredentialsUsable == CredSpec => []UsableUnlessLost
<1>1. CredInit => Usable
  <2> SUFFICES ASSUME CredInit PROVE UsableUnlessLost /\ Unspent
    BY OwnedInit DEF Usable
  <2> QED BY CredentialsAssumption DEF CredInit, UsableUnlessLost, Unspent, Grant, Pat, IdleRequest, IdleMonitor
<1>2. Usable => UsableUnlessLost
  BY DEF Usable
<1> QED BY <1>1, <1>2, UsableStep, PTL DEF CredSpec

-------------------------------------------------------------------------------
\* What HubMonitor sees of the tokens table.
Kept == [e \in Email |-> IF tokens[e] = 0 THEN "none" ELSE IF tokens[e] = Pat THEN "pat" ELSE "oauth"]

\* A monitor that waits has no account in hand.
HandsFree == monitor.at = "idle" => monitor.email = NoEmail

LEMMA HandsFreeStep == CredTypeOK /\ HandsFree /\ [CredNext]_credVars => HandsFree'
<1> SUFFICES ASSUME CredTypeOK, HandsFree, [CredNext]_credVars PROVE HandsFree'
  OBVIOUS
<1> USE DEF HandsFree, CredTypeOK, Refresh
<1>1. CASE UNCHANGED monitor
  BY <1>1
<1>2. CASE monitor' = IdleMonitor
  BY <1>2 DEF IdleMonitor
<1>3. CASE SaveRefreshed \/ SaveRefreshedFails \/ RefreshFails \/ Crash
  BY <1>2, <1>3 DEF SaveRefreshed, SaveRefreshedFails, RefreshFails, Crash
<1>4. CASE RefreshKeeps
  BY <1>4 DEF RefreshKeeps
<1>5. CASE RefreshRotates
  <2>1. monitor' = IdleMonitor \/ \E g \in Grant : monitor' = [monitor EXCEPT !.at = "save", !.grant = g]
    BY <1>5 DEF RefreshRotates, NextGrant
  <2> QED BY <1>2, <2>1
<1>6. ASSUME NEW e \in Email, ReadToken(e) PROVE HandsFree'
  BY <1>6 DEF ReadToken
<1> QED BY <1>1, <1>3, <1>4, <1>5, <1>6 DEF CredNext, Login, OAuthStart, MakeState, Consent, StateExpires, RejectExpired,
      AcceptState, ExchangeCode, VerifyPerson, SaveToken, CallbackEnds, credVars

\* One row of the table changes, and with it what HubMonitor sees of that row.
LEMMA RowChanges ==
  ASSUME CredTypeOK, NEW a \in Email, NEW g \in Grant \cup {0}, tokens' = [tokens EXCEPT ![a] = g]
  PROVE  Kept' = [Kept EXCEPT ![a] = IF g = 0 THEN "none" ELSE "oauth"]
<1>1. Pat \notin Grant \cup {0}
  BY CredentialsAssumption DEF Pat, Grant
<1> QED BY <1>1 DEF CredTypeOK, Kept

\* Every step of a callback or of the monitor's call is one of TokenTable's, or none.
LEMMA TableStep ==
  ASSUME CredTypeOK, HandsFree, [CredNext]_credVars
  PROVE  Table!TableNext \/ UNCHANGED <<Kept, monitor.email>>
<1> USE DEF CredTypeOK, HandsFree
<1>1. CASE UNCHANGED <<tokens, monitor>>
  BY <1>1 DEF Kept
<1>2. ASSUME NEW q \in Request, SaveToken(q) PROVE Table!TableNext
  <2>1. request[q].email \in Email /\ request[q].grant \in Grant \cup {0}
    BY <1>2 DEF SaveToken, InHand, Callback
  <2>2. Kept' = [Kept EXCEPT ![request[q].email] = IF request[q].grant = 0 THEN "none" ELSE "oauth"]
    BY <1>2, <2>1, RowChanges DEF SaveToken
  <2>3. PICK a \in Email : a = request[q].email
    BY <2>1
  <2>4. Table!Authorize(a)
    BY <1>2, <2>2, <2>3 DEF SaveToken, Table!Authorize, Kept
  <2> QED BY <2>4 DEF Table!TableNext
<1>3. ASSUME NEW e \in Email, ReadToken(e) PROVE Table!TableNext
  <2>1. Kept[e] = "oauth"
    BY <1>3, CredentialsAssumption DEF ReadToken, Kept, Grant, Pat
  <2>2. Kept' = Kept /\ monitor.email = NoEmail /\ monitor'.email = e
    BY <1>3 DEF ReadToken, Kept
  <2>3. Table!Borrow(e)
    BY <2>1, <2>2 DEF Table!Borrow, Kept
  <2> QED BY <2>3 DEF Table!TableNext
<1>4. CASE SaveRefreshed
  <2>1. monitor.email \in Email /\ monitor.grant \in Grant \cup {0} /\ monitor.grant # 0
    BY <1>4 DEF SaveRefreshed, InHand, Refresh
  <2>2. Kept' = [Kept EXCEPT ![monitor.email] = "oauth"]
    BY <1>4, <2>1, RowChanges DEF SaveRefreshed
  <2>3. Table!GiveBack
    BY <1>4, <2>1, <2>2, CredentialsAssumption DEF SaveRefreshed, Table!GiveBack, Kept, IdleMonitor
  <2> QED BY <2>3 DEF Table!TableNext
<1>5. CASE RefreshFails \/ SaveRefreshedFails \/ Crash \/ RefreshKeeps \/ RefreshRotates
  <2>1. Kept' = Kept
    BY <1>5 DEF RefreshFails, SaveRefreshedFails, Crash, RefreshKeeps, RefreshRotates, Kept
  <2>2. monitor' = IdleMonitor \/ monitor'.email = monitor.email
    BY <1>5 DEF RefreshFails, SaveRefreshedFails, Crash, RefreshKeeps, RefreshRotates, Refresh
  <2>3. CASE monitor'.email = monitor.email
    BY <2>1, <2>3
  <2>4. CASE monitor' = IdleMonitor /\ monitor.at # "idle"
    <3>1. Table!GiveUp
      BY <2>1, <2>4, CredentialsAssumption DEF Table!GiveUp, IdleMonitor, InHand, Kept
    <3> QED BY <3>1 DEF Table!TableNext
  <2>5. CASE monitor' = IdleMonitor /\ monitor.at = "idle"
    BY <2>1, <2>5 DEF IdleMonitor
  <2> QED BY <2>2, <2>3, <2>4, <2>5
<1> QED BY <1>1, <1>2, <1>3, <1>4, <1>5
        DEF CredNext, Login, OAuthStart, MakeState, Consent, StateExpires, RejectExpired,
            AcceptState, ExchangeCode, VerifyPerson, CallbackEnds, credVars

\* Tokens themselves, in RC's and the program's hands, keep to what HubMonitor
\* takes the table for.
THEOREM TokenTableImplemented == CredSpec => ImplementsTokenTable
<1>1. CredInit => Table!TableInit /\ HandsFree
  BY CredentialsAssumption DEF CredInit, Table!TableInit, Table!Use, HandsFree, IdleMonitor
<1>2. CredTypeOK /\ HandsFree /\ [CredNext]_credVars => [Table!TableNext]_(Table!tableVars)
  BY TableStep DEF Table!tableVars, Kept
<1> QED BY <1>1, <1>2, HandsFreeStep, CredTypeCorrect, PTL DEF CredSpec, ImplementsTokenTable, Table!TableSpec
===============================================================================
