------------------------- MODULE OAuthTokensProofs -------------------------
(***************************************************************************)
(* What holds of codes and tokens for any number of clients, users, codes, *)
(* tokens and requests served at once.                                     *)
(***************************************************************************)
EXTENDS OAuthTokens, TLAPS

Request == {Idle} \union ExchangeRequest \union RefreshRequest \union ToolRequest

(* A request under way has found its code or its token.  TypeOK needs this *)
(* to be inductive: what is issued is made of that row.                    *)
Found(q, cs, ts) ==
  /\ q.at \in {"claim", "issue"} => cs[q.code] # None
  /\ q.at \in {"rotate", "reissue", "tool", "wrote"} => ts[q.token] # None

AllFound == \A r \in Requests : Found(requests[r], codes, tokens)

TypeInv == TypeOK /\ AllFound

(* Where a request is tells what it carries.                               *)
LEMMA RequestKinds ==
  ASSUME NEW q \in Request
  PROVE  /\ q.at \in {"claim", "issue"} => q \in ExchangeRequest
         /\ q.at \in {"rotate", "reissue"} => q \in RefreshRequest
         /\ q.at \in {"tool", "wrote"} => q \in ToolRequest
BY DEF Request, Idle, ExchangeRequest, RefreshRequest, ToolRequest

(* Rows stay: a request that goes on leaves the others what they found.    *)
LEMMA BecomeType ==
  ASSUME TypeInv, NEW r \in Requests, NEW q \in Request, Become(r, q), Found(q, codes', tokens'),
         \A k \in Codes : codes[k] # None => codes'[k] # None,
         \A t \in Tokens : tokens[t] # None => tokens'[t] # None
  PROVE  requests' \in [Requests -> Request] /\ AllFound'
<1>1. requests' = [requests EXCEPT ![r] = q] /\ requests \in [Requests -> Request]
  BY DEF TypeInv, TypeOK, Become, Request
<1>2. ASSUME NEW x \in Requests, x # r PROVE Found(requests'[x], codes', tokens')
  <2>1. requests'[x] = requests[x] /\ requests[x] \in Request /\ Found(requests[x], codes, tokens)
    BY <1>1, <1>2 DEF TypeInv, AllFound
  <2>2. /\ requests[x].at \in {"claim", "issue"} => requests[x].code \in Codes
        /\ requests[x].at \in {"rotate", "reissue", "tool", "wrote"} => requests[x].token \in Tokens
    BY <2>1, RequestKinds DEF ExchangeRequest, RefreshRequest, ToolRequest
  <2> QED
    BY <2>1, <2>2 DEF Found
<1> QED
  BY <1>1, <1>2 DEF AllFound

(* A step that only moves a request.                                       *)
LEMMA QuietType ==
  ASSUME TypeInv, NEW r \in Requests, NEW q \in Request, Become(r, q), Found(q, codes, tokens),
         UNCHANGED <<tables, sessions, clock>>, faults' \in {faults} \union 0..MaxFaults
  PROVE  TypeInv'
<1>1. Found(q, codes', tokens') /\ codes' = codes /\ tokens' = tokens
  BY DEF tables
<1>2. requests' \in [Requests -> Request] /\ AllFound'
  BY <1>1, BecomeType
<1> QED
  BY <1>2 DEF tables, TypeInv, TypeOK, Request

(* The tokens that are issued for a code or for another token of it.       *)
LEMMA IssuedType ==
  ASSUME TypeOK, NEW c \in Clients, NEW from \in Code \union Token, NEW k \in Codes
  PROVE  Issued(c, from, k) \in Token
<1>1. clock + AccessTTL \in Nat /\ clock + RefreshTTL \in Nat
  BY OAuthAssumption DEF TypeOK
<1>2. from.subject \in Subjects /\ from.scope \in Scopes /\ from.resource \in Origins
  BY DEF Code, Token
<1> QED
  BY <1>1, <1>2 DEF Issued, Token

(* The empty tables have their types.                                      *)
LEMMA TypeInit == Init => TypeInv
<1> SUFFICES ASSUME Init PROVE TypeInv
  OBVIOUS
<1>1. TypeOK
  BY OAuthAssumption DEF Init, TypeOK
<1>2. AllFound
  BY DEF Init, Idle, Found, AllFound
<1> QED
  BY <1>1, <1>2 DEF TypeInv

(* Every step of every user and every request keeps the typing.            *)
LEMMA TypeStep == TypeInv /\ [Next]_vars => TypeInv'
<1> SUFFICES ASSUME TypeInv, [Next]_vars PROVE TypeInv'
  OBVIOUS
<1>0. TypeOK /\ requests \in [Requests -> Request] /\ Idle \in Request
  BY DEF TypeInv, TypeOK, Request
<1>a. Found(Idle, codes, tokens) /\ Found(Idle, codes', tokens')
  BY DEF Found, Idle
<1>1. ASSUME NEW c \in Clients, NEW uris \in SUBSET Uris, NEW s \in {None, c}, Register(c, uris, s)
      PROVE  TypeInv'
  <2>1. [uris |-> uris, secret |-> s] \in Client
    BY DEF Client
  <2> QED
    BY <1>1, <2>1 DEF Register, TypeInv, TypeOK, AllFound, Found
<1>2. ASSUME NEW u \in Subjects, SignIn(u) \/ SignOut(u) PROVE TypeInv'
  BY <1>2 DEF SignIn, SignOut, tables, TypeInv, TypeOK, AllFound, Found
<1>3. ASSUME NEW k \in Codes, NEW u \in Subjects, NEW c \in Clients, NEW uri \in Uris,
             NEW asked \in SUBSET {"read", "write"}, NEW o1 \in Origins, NEW o2 \in Origins,
             NEW v \in Verifiers, Approve(k, u, c, uri, asked, o1, o2, v)
      PROVE  TypeInv'
  <2>1. ParseScopes(asked) \in Scopes
    <3>1. "read" \in asked
      BY <1>3 DEF Approve, ValidAuthorization
    <3>2. UNION Scopes = {"read", "write"}
      BY DEF Scopes
    <3> QED
      BY <3>1, <3>2 DEF ParseScopes, Scopes
  <2>2. clock + CodeTTL \in Nat
    BY OAuthAssumption, <1>0 DEF TypeOK
  <2> DEFINE new == NewCode(u, c, uri, ParseScopes(asked), o1, v)
  <2>3. new \in Code
    BY <2>1, <2>2 DEF NewCode, Code
  <2>4. codes' = [codes EXCEPT ![k] = new] /\ codes[k] = None
    BY <1>3 DEF Approve
  <2> HIDE DEF new
  <2>5. /\ codes' \in [Codes -> Code \union {None}]
        /\ \A x \in Codes : codes[x] # None => codes'[x] = codes[x]
    BY <1>0, <2>3, <2>4 DEF TypeOK
  <2>6. TypeOK'
    BY <1>0, <1>3, <2>5 DEF Approve, TypeOK
  <2>7. ASSUME NEW r \in Requests PROVE Found(requests'[r], codes', tokens')
    <3>1. requests[r].at \in {"claim", "issue"} => requests[r].code \in Codes
      BY <1>0, RequestKinds DEF ExchangeRequest
    <3> QED
      BY <1>3, <2>5, <3>1 DEF Approve, TypeInv, AllFound, Found
  <2> QED
    BY <2>6, <2>7 DEF TypeInv, AllFound
<1>4. ASSUME NEW r \in Requests, NEW k \in Codes, NEW c \in Clients,
             NEW s \in Clients \union {None}, NEW uri \in Uris, NEW v \in Verifiers,
             NEW o \in Origins \union {None}, AskExchange(r, k, c, s, uri, v, o)
      PROVE  TypeInv'
  <2> DEFINE q == [at |-> "claim", code |-> k, client |-> c, uri |-> uri, verifier |-> v,
                   resource |-> o, now |-> clock]
  <2>1. q \in Request
    BY <1>0 DEF TypeOK, Request, ExchangeRequest
  <2>2. Become(r, q) /\ Found(q, codes, tokens) /\ UNCHANGED <<tables, sessions, clock, faults>>
    BY <1>4 DEF AskExchange, tables, Found
  <2> HIDE DEF q
  <2> QED
    BY <1>0, <2>1, <2>2, QuietType
<1>5. ASSUME NEW r \in Requests, NEW t \in Tokens, NEW c \in Clients,
             NEW s \in Clients \union {None}, AskRefresh(r, t, c, s)
      PROVE  TypeInv'
  <2> DEFINE q == [at |-> "rotate", token |-> t, client |-> c, now |-> clock]
  <2>1. q \in Request
    BY <1>0 DEF TypeOK, Request, RefreshRequest
  <2>2. Become(r, q) /\ Found(q, codes, tokens) /\ UNCHANGED <<tables, sessions, clock, faults>>
    BY <1>5 DEF AskRefresh, tables, Found
  <2> HIDE DEF q
  <2> QED
    BY <1>0, <2>1, <2>2, QuietType
<1>6. ASSUME NEW r \in Requests, ClaimCode(r) PROVE TypeInv'
  <2> DEFINE q == [requests[r] EXCEPT !.at = "issue"]
  <2>1. requests[r] \in ExchangeRequest /\ Found(requests[r], codes, tokens)
    BY <1>0, <1>6, RequestKinds DEF ClaimCode, TypeInv, AllFound
  <2>2. q \in ExchangeRequest /\ q.code = requests[r].code /\ q.at = "issue"
    BY <2>1 DEF ExchangeRequest
  <2>3. /\ Become(r, q) \/ Become(r, Idle)
        /\ UNCHANGED <<tables, sessions, clock, faults>>
    BY <1>6 DEF ClaimCode
  <2> HIDE DEF q
  <2>4. q \in Request /\ Found(q, codes, tokens)
    BY <1>6, <2>1, <2>2, <2>3 DEF ClaimCode, tables, Request, Found
  <2> QED
    BY <1>0, <1>a, <2>3, <2>4, QuietType
<1>7. ASSUME NEW r \in Requests, ClaimToken(r) PROVE TypeInv'
  <2> DEFINE q == [requests[r] EXCEPT !.at = "reissue"]
  <2>1. requests[r] \in RefreshRequest /\ Found(requests[r], codes, tokens)
    BY <1>0, <1>7, RequestKinds DEF ClaimToken, TypeInv, AllFound
  <2>2. q \in RefreshRequest /\ q.token = requests[r].token /\ q.at = "reissue"
    BY <2>1 DEF RefreshRequest
  <2>3. /\ Become(r, q) \/ Become(r, Idle)
        /\ UNCHANGED <<tables, sessions, clock, faults>>
    BY <1>7 DEF ClaimToken
  <2> HIDE DEF q
  <2>4. q \in Request /\ Found(q, codes, tokens)
    BY <1>7, <2>1, <2>2, <2>3 DEF ClaimToken, tables, Request, Found
  <2> QED
    BY <1>0, <1>a, <2>3, <2>4, QuietType
<1>8. ASSUME NEW r \in Requests, NEW t \in Tokens, CommitExchange(r, t) PROVE TypeInv'
  <2> DEFINE q == requests[r]
             new == Issued(q.client, codes[q.code], q.code)
             spent == [codes[q.code] EXCEPT !.used = TRUE]
  <2>1. q \in ExchangeRequest /\ codes[q.code] # None
    BY <1>0, <1>8, RequestKinds DEF CommitExchange, TypeInv, AllFound, Found
  <2>2. q.code \in Codes /\ q.client \in Clients /\ codes[q.code] \in Code
    BY <1>0, <2>1 DEF ExchangeRequest, TypeOK
  <2>3. new \in Token
    BY <1>0, <2>2, IssuedType
  <2>4. spent \in Code
    BY <2>2 DEF Code
  <2>5. /\ codes' = [codes EXCEPT ![q.code] = spent]
        /\ tokens' = [tokens EXCEPT ![t] = new]
        /\ Become(r, Idle)
        /\ UNCHANGED <<clients, sessions, clock, faults>>
    BY <1>8 DEF CommitExchange
  <2> HIDE DEF q, new, spent
  <2>6. /\ codes' \in [Codes -> Code \union {None}]
        /\ tokens' \in [Tokens -> Token \union {None}]
        /\ \A k \in Codes : codes[k] # None => codes'[k] # None
        /\ \A s \in Tokens : tokens[s] # None => tokens'[s] # None
    BY <1>0, <2>2, <2>3, <2>4, <2>5, OAuthAssumption DEF TypeOK
  <2> QED
    BY <1>0, <1>a, <2>5, <2>6, BecomeType DEF TypeInv, TypeOK, Request
<1>9. ASSUME NEW r \in Requests, NEW t \in Tokens, CommitRefresh(r, t) PROVE TypeInv'
  <2> DEFINE q == requests[r]
             new == Issued(q.client, tokens[q.token], tokens[q.token].code)
             old == [tokens[q.token] EXCEPT !.revoked = TRUE, !.replacedBy = t]
  <2>1. q \in RefreshRequest /\ tokens[q.token] # None
    BY <1>0, <1>9, RequestKinds DEF CommitRefresh, TypeInv, AllFound, Found
  <2>2. q.token \in Tokens /\ q.client \in Clients /\ tokens[q.token] \in Token
    BY <1>0, <2>1 DEF RefreshRequest, TypeOK
  <2>3. new \in Token
    BY <1>0, <2>2, IssuedType DEF Token
  <2>4. old \in Token
    BY <2>2 DEF Token
  <2>5. /\ tokens' = [tokens EXCEPT ![q.token] = old, ![t] = new]
        /\ Become(r, Idle)
        /\ UNCHANGED <<clients, codes, sessions, clock, faults>>
    BY <1>9, <2>1 DEF CommitRefresh
  <2> HIDE DEF q, new, old
  <2>6. /\ tokens' \in [Tokens -> Token \union {None}]
        /\ \A s \in Tokens : tokens[s] # None => tokens'[s] # None
    BY <1>0, <2>2, <2>3, <2>4, <2>5, OAuthAssumption DEF TypeOK
  <2> QED
    BY <1>0, <1>a, <2>5, <2>6, BecomeType DEF TypeInv, TypeOK, Request
<1>10. ASSUME NEW r \in Requests, RefuseExchange(r) \/ RollBack(r) \/ Answer(r) PROVE TypeInv'
  <2>1. /\ Become(r, Idle)
        /\ UNCHANGED <<tables, sessions, clock>>
        /\ faults' \in 0..MaxFaults
    BY <1>0, <1>10, OAuthAssumption DEF RefuseExchange, RollBack, Answer, TypeOK
  <2> QED
    BY <1>0, <1>a, <2>1, QuietType
<1>11. ASSUME NEW t \in Tokens, RevokeToken(t) PROVE TypeInv'
  <2>1. tokens[t] \in Token
    BY <1>0, <1>11 DEF RevokeToken, TypeOK
  <2>2. [tokens[t] EXCEPT !.revoked = TRUE] \in Token
    BY <2>1 DEF Token
  <2>3. /\ tokens' \in [Tokens -> Token \union {None}]
        /\ \A s \in Tokens : tokens[s] # None => tokens'[s] # None
    BY <1>0, <1>11, <2>2, OAuthAssumption DEF RevokeToken, TypeOK
  <2>4. TypeOK'
    BY <1>0, <1>11, <2>3 DEF RevokeToken, TypeOK
  <2>5. ASSUME NEW r \in Requests PROVE Found(requests'[r], codes', tokens')
    <3>1. requests[r].at \in {"rotate", "reissue", "tool", "wrote"} => requests[r].token \in Tokens
      BY <1>0, RequestKinds DEF RefreshRequest, ToolRequest
    <3> QED
      BY <1>11, <2>3, <3>1 DEF RevokeToken, TypeInv, AllFound, Found
  <2> QED
    BY <2>4, <2>5 DEF TypeInv, AllFound
<1>12. ASSUME NEW r \in Requests, NEW t \in Tokens, NEW o \in Origins, CallServer(r, t, o)
       PROVE  TypeInv'
  <2> DEFINE q == [at |-> "tool", token |-> t, scope |-> tokens[t].scope]
  <2>1. tokens[t] \in Token
    BY <1>0, <1>12 DEF CallServer, Valid, TypeOK
  <2>2. q \in Request
    BY <2>1 DEF Token, Request, ToolRequest
  <2>3. Become(r, q) /\ Found(q, codes, tokens) /\ UNCHANGED <<tables, sessions, clock, faults>>
    BY <1>12 DEF CallServer, Valid, tables, Found
  <2> HIDE DEF q
  <2> QED
    BY <1>0, <2>2, <2>3, QuietType
<1>13. ASSUME NEW r \in Requests, WriteTool(r) PROVE TypeInv'
  <2> DEFINE q == [requests[r] EXCEPT !.at = "wrote"]
  <2>1. requests[r] \in ToolRequest /\ Found(requests[r], codes, tokens)
    BY <1>0, <1>13, RequestKinds DEF WriteTool, TypeInv, AllFound
  <2>2. q \in ToolRequest /\ q.token = requests[r].token /\ q.at = "wrote"
    BY <2>1 DEF ToolRequest
  <2>3. Become(r, q) /\ UNCHANGED <<tables, sessions, clock, faults>>
    BY <1>13 DEF WriteTool
  <2> HIDE DEF q
  <2>4. q \in Request /\ Found(q, codes, tokens)
    BY <1>13, <2>1, <2>2, <2>3 DEF WriteTool, tables, Request, Found
  <2> QED
    BY <1>0, <2>3, <2>4, QuietType
<1>14. ASSUME Tick PROVE TypeInv'
  BY <1>0, <1>14, OAuthAssumption DEF Tick, tables, TypeInv, TypeOK, AllFound, Found
<1>15. CASE UNCHANGED vars
  BY <1>15 DEF vars, tables, TypeInv, TypeOK, AllFound, Found
<1> QED
  BY <1>1, <1>2, <1>3, <1>4, <1>5, <1>6, <1>7, <1>8, <1>9, <1>10, <1>11, <1>12, <1>13, <1>14, <1>15
     DEF Next, Grant, Serve

(* Codes, tokens, clients and requests always have their types.            *)
THEOREM TypeCorrect == Spec => []TypeOK
<1>1. TypeInv => TypeOK
  BY DEF TypeInv
<1> QED
  BY <1>1, TypeInit, TypeStep, PTL DEF Spec

-----------------------------------------------------------------------------
(* What the row locks are for: a transaction under way has its code or its *)
(* token to itself, as it was when it was claimed.                         *)
CodesHeld ==
  \A r \in Requests : requests[r].at = "issue" =>
    /\ ~codes[requests[r].code].used
    /\ codes[requests[r].code].client = requests[r].client
    /\ \A x \in Requests :
         requests[x].at = "issue" /\ requests[x].code = requests[r].code => x = r

TokensHeld ==
  \A r \in Requests : requests[r].at = "reissue" =>
    /\ ~tokens[requests[r].token].revoked
    /\ tokens[requests[r].token].client = requests[r].client
    /\ \A x \in Requests :
         requests[x].at = "reissue" /\ requests[x].token = requests[r].token => x = r

(* Tokens are issued for codes that are used up.                           *)
Backed == \A t \in Tokens : tokens[t] # None =>
            codes[tokens[t].code] # None /\ codes[tokens[t].code].used

LockInv == TypeInv /\ CodesHeld /\ TokensHeld /\ Backed

(* What a step does to the tables, column by column.                       *)
SameGrant(a, b) ==
  /\ a.client = b.client /\ a.subject = b.subject /\ a.scope = b.scope
  /\ a.resource = b.resource

(* What an exchange that commits writes: a used code and its first token.  *)
LEMMA ExchangeTables ==
  ASSUME LockInv, NEW r \in Requests, NEW t \in Tokens, CommitExchange(r, t),
         NEW k, k = requests[r].code
  PROVE  /\ k \in Codes /\ codes[k] \in Code /\ codes[k] # None /\ ~codes[k].used
         /\ codes'[k] # None /\ codes'[k].used /\ SameGrant(codes'[k], codes[k])
         /\ \A x \in Codes \ {k} : codes'[x] = codes[x]
         /\ tokens[t] = None
         /\ tokens'[t] # None /\ tokens'[t].code = k /\ SameGrant(tokens'[t], codes[k])
         /\ ~tokens'[t].revoked /\ tokens'[t].replacedBy = None
         /\ \A s \in Tokens \ {t} : tokens'[s] = tokens[s]
<1>1. requests[r] \in ExchangeRequest /\ codes[k] # None
  BY RequestKinds DEF CommitExchange, LockInv, TypeInv, TypeOK, AllFound, Found, Request
<1>2. k \in Codes /\ requests[r].client \in Clients
  BY <1>1 DEF ExchangeRequest
<1>3. codes[k] \in Code
  BY <1>1, <1>2 DEF LockInv, TypeInv, TypeOK
<1>4. ~codes[k].used /\ codes[k].client = requests[r].client
  BY DEF CommitExchange, LockInv, CodesHeld
<1>5. Issued(requests[r].client, codes[k], k) \in Token
  BY <1>2, <1>3, IssuedType DEF LockInv, TypeInv
<1>6. [codes[k] EXCEPT !.used = TRUE] \in Code
  BY <1>3 DEF Code
<1>7. /\ codes' = [codes EXCEPT ![k] = [codes[k] EXCEPT !.used = TRUE]]
      /\ tokens' = [tokens EXCEPT ![t] = Issued(requests[r].client, codes[k], k)]
      /\ tokens[t] = None
  BY DEF CommitExchange
<1>8. codes \in [Codes -> Code \union {None}] /\ tokens \in [Tokens -> Token \union {None}]
  BY DEF LockInv, TypeInv, TypeOK
<1>9. /\ codes'[k] = [codes[k] EXCEPT !.used = TRUE]
      /\ tokens'[t] = Issued(codes[k].client, codes[k], k)
      /\ codes'[k] # None /\ tokens'[t] # None
      /\ \A x \in Codes \ {k} : codes'[x] = codes[x]
      /\ \A s \in Tokens \ {t} : tokens'[s] = tokens[s]
  BY <1>2, <1>4, <1>5, <1>6, <1>7, <1>8, OAuthAssumption
<1>10. codes'[k].used /\ SameGrant(codes'[k], codes[k])
  BY <1>3, <1>9 DEF Code, SameGrant
<1>11. /\ tokens'[t].code = k /\ SameGrant(tokens'[t], codes[k])
       /\ ~tokens'[t].revoked /\ tokens'[t].replacedBy = None
  BY <1>9 DEF Issued, SameGrant
<1> QED
  BY <1>1, <1>2, <1>3, <1>4, <1>7, <1>9, <1>10, <1>11

(* What a refresh that commits writes: the successor of a revoked token.   *)
LEMMA RefreshTables ==
  ASSUME LockInv, NEW r \in Requests, NEW t \in Tokens, CommitRefresh(r, t),
         NEW old, old = requests[r].token
  PROVE  /\ old \in Tokens /\ tokens[old] \in Token /\ tokens[old] # None
         /\ ~tokens[old].revoked
         /\ old # t
         /\ tokens[t] = None
         /\ tokens'[old] # None /\ tokens'[old].code = tokens[old].code
         /\ SameGrant(tokens'[old], tokens[old])
         /\ tokens'[old].revoked /\ tokens'[old].replacedBy = t
         /\ tokens'[t] # None /\ tokens'[t].code = tokens[old].code
         /\ SameGrant(tokens'[t], tokens[old])
         /\ ~tokens'[t].revoked /\ tokens'[t].replacedBy = None
         /\ \A s \in Tokens \ {old, t} : tokens'[s] = tokens[s]
         /\ codes' = codes
<1>1. requests[r] \in RefreshRequest /\ tokens[old] # None
  BY RequestKinds DEF CommitRefresh, LockInv, TypeInv, TypeOK, AllFound, Found, Request
<1>2. old \in Tokens /\ requests[r].client \in Clients
  BY <1>1 DEF RefreshRequest
<1>3. tokens[old] \in Token
  BY <1>1, <1>2 DEF LockInv, TypeInv, TypeOK
<1>4. ~tokens[old].revoked /\ tokens[old].client = requests[r].client
  BY DEF CommitRefresh, LockInv, TokensHeld
<1>5. Issued(requests[r].client, tokens[old], tokens[old].code) \in Token
  BY <1>2, <1>3, IssuedType DEF LockInv, TypeInv, Token
<1>6. [tokens[old] EXCEPT !.revoked = TRUE, !.replacedBy = t] \in Token
  BY <1>3 DEF Token
<1>7. /\ tokens' = [tokens EXCEPT
                      ![old] = [tokens[old] EXCEPT !.revoked = TRUE, !.replacedBy = t],
                      ![t] = Issued(requests[r].client, tokens[old], tokens[old].code)]
      /\ tokens[t] = None
      /\ codes' = codes
  BY <1>1 DEF CommitRefresh
<1>8. tokens \in [Tokens -> Token \union {None}]
  BY DEF LockInv, TypeInv, TypeOK
<1>9. /\ tokens'[old] = [tokens[old] EXCEPT !.revoked = TRUE, !.replacedBy = t]
      /\ tokens'[t] = Issued(tokens[old].client, tokens[old], tokens[old].code)
      /\ tokens'[old] # None /\ tokens'[t] # None
      /\ \A s \in Tokens \ {old, t} : tokens'[s] = tokens[s]
  BY <1>1, <1>2, <1>4, <1>5, <1>6, <1>7, <1>8, OAuthAssumption
<1>10. /\ tokens'[old].code = tokens[old].code /\ SameGrant(tokens'[old], tokens[old])
       /\ tokens'[old].revoked /\ tokens'[old].replacedBy = t
  BY <1>3, <1>9 DEF Token, SameGrant
<1>11. /\ tokens'[t].code = tokens[old].code /\ SameGrant(tokens'[t], tokens[old])
       /\ ~tokens'[t].revoked /\ tokens'[t].replacedBy = None
  BY <1>9 DEF Issued, SameGrant
<1> QED
  BY <1>1, <1>2, <1>3, <1>4, <1>7, <1>9, <1>10, <1>11

(* What a revocation writes: one token is revoked, and nothing else.       *)
LEMMA RevokeTables ==
  ASSUME TypeInv, NEW t \in Tokens, RevokeToken(t)
  PROVE  /\ tokens[t] # None
         /\ tokens'[t] # None /\ tokens'[t].code = tokens[t].code
         /\ SameGrant(tokens'[t], tokens[t])
         /\ tokens'[t].revoked /\ tokens'[t].replacedBy = tokens[t].replacedBy
         /\ \A s \in Tokens \ {t} : tokens'[s] = tokens[s]
<1>1. tokens[t] \in Token /\ tokens[t] # None
  BY DEF RevokeToken, TypeInv, TypeOK
<1>2. [tokens[t] EXCEPT !.revoked = TRUE] \in Token
  BY <1>1 DEF Token
<1>3. /\ tokens'[t] = [tokens[t] EXCEPT !.revoked = TRUE] /\ tokens'[t] # None
      /\ \A s \in Tokens \ {t} : tokens'[s] = tokens[s]
  BY <1>1, <1>2, OAuthAssumption DEF RevokeToken, TypeInv, TypeOK
<1>4. /\ tokens'[t].code = tokens[t].code /\ SameGrant(tokens'[t], tokens[t])
      /\ tokens'[t].revoked /\ tokens'[t].replacedBy = tokens[t].replacedBy
  BY <1>1, <1>3 DEF Token, SameGrant
<1> QED
  BY <1>1, <1>3, <1>4

(* What an approval writes: a code that is not used and has no token.      *)
LEMMA ApproveTables ==
  ASSUME NEW k \in Codes, NEW u, NEW c, NEW uri, NEW asked, NEW o1, NEW o2, NEW v,
         Approve(k, u, c, uri, asked, o1, o2, v)
  PROVE  /\ codes[k] = None
         /\ tokens' = tokens /\ requests' = requests
         /\ TypeInv => ~codes'[k].used /\ \A x \in Codes \ {k} : codes'[x] = codes[x]
BY DEF Approve, NewCode, TypeInv, TypeOK

(* Steps that do not touch codes and tokens and claim nothing.             *)
LEMMA QuietLocks ==
  ASSUME LockInv, TypeInv', NEW r \in Requests, NEW q, Become(r, q),
         q.at \notin {"issue", "reissue"}, codes' = codes, tokens' = tokens
  PROVE  LockInv'
<1>1. \A x \in Requests : requests'[x].at \in {"issue", "reissue"} => requests'[x] = requests[x]
  BY DEF Become, LockInv, TypeInv, TypeOK
<1>2. CodesHeld' /\ TokensHeld'
  BY <1>1 DEF LockInv, CodesHeld, TokensHeld
<1> QED
  BY <1>2 DEF LockInv, Backed

(* Nothing is locked, and no token is there, at the start.                 *)
LEMMA LockInit == Init => LockInv
<1> SUFFICES ASSUME Init PROVE LockInv
  OBVIOUS
<1>1. CodesHeld /\ TokensHeld /\ Backed
  BY DEF Init, Idle, CodesHeld, TokensHeld, Backed
<1> QED
  BY <1>1, TypeInit DEF LockInv

(* Row locks are kept: nobody else writes what a transaction has claimed.  *)
LEMMA LockStep == LockInv /\ [Next]_vars => LockInv'
<1> SUFFICES ASSUME LockInv, [Next]_vars PROVE LockInv'
  OBVIOUS
<1>0. TypeInv /\ TypeInv'
  BY TypeStep DEF LockInv
<1>r. requests \in [Requests -> Request] /\ AllFound
  BY <1>0 DEF TypeInv, TypeOK, Request
<1>c. \A x \in Requests : requests[x].at = "issue" =>
        requests[x].code \in Codes /\ codes[requests[x].code] # None
  BY <1>r, RequestKinds DEF AllFound, Found, ExchangeRequest
<1>t. \A x \in Requests : requests[x].at = "reissue" =>
        requests[x].token \in Tokens /\ tokens[requests[x].token] # None
  BY <1>r, RequestKinds DEF AllFound, Found, RefreshRequest
<1>b. \A t \in Tokens : tokens[t] # None => tokens[t].code \in Codes
  BY <1>0 DEF TypeInv, TypeOK, Token
<1>1. ASSUME UNCHANGED <<codes, tokens, requests>> PROVE LockInv'
  BY <1>0, <1>1 DEF LockInv, CodesHeld, TokensHeld, Backed
<1>2. ASSUME NEW k \in Codes, NEW u \in Subjects, NEW c \in Clients, NEW uri \in Uris,
             NEW asked \in SUBSET {"read", "write"}, NEW o1 \in Origins, NEW o2 \in Origins,
             NEW v \in Verifiers, Approve(k, u, c, uri, asked, o1, o2, v)
      PROVE  LockInv'
  <2>1. /\ codes[k] = None
        /\ tokens' = tokens /\ requests' = requests
        /\ \A x \in Codes \ {k} : codes'[x] = codes[x]
    BY <1>0, <1>2, ApproveTables
  <2>2. CodesHeld'
    BY <1>c, <2>1 DEF LockInv, CodesHeld
  <2>3. TokensHeld'
    BY <2>1 DEF LockInv, TokensHeld
  <2>4. Backed'
    BY <1>b, <2>1 DEF LockInv, Backed
  <2> QED
    BY <1>0, <2>2, <2>3, <2>4 DEF LockInv
<1>3. ASSUME NEW r \in Requests, NEW k \in Codes, NEW c \in Clients,
             NEW s \in Clients \union {None}, NEW uri \in Uris, NEW v \in Verifiers,
             NEW o \in Origins \union {None}, AskExchange(r, k, c, s, uri, v, o)
      PROVE  LockInv'
  BY <1>0, <1>3, QuietLocks DEF AskExchange, tables
<1>4. ASSUME NEW r \in Requests, NEW t \in Tokens, NEW c \in Clients,
             NEW s \in Clients \union {None}, AskRefresh(r, t, c, s)
      PROVE  LockInv'
  BY <1>0, <1>4, QuietLocks DEF AskRefresh, tables
<1>5. ASSUME NEW r \in Requests, RefuseExchange(r) \/ RollBack(r) \/ Answer(r) PROVE LockInv'
  BY <1>0, <1>5, QuietLocks DEF RefuseExchange, RollBack, Answer, tables, Idle
<1>6. ASSUME NEW r \in Requests, NEW t \in Tokens, NEW o \in Origins, CallServer(r, t, o)
      PROVE  LockInv'
  BY <1>0, <1>6, QuietLocks DEF CallServer, tables
<1>7. ASSUME NEW r \in Requests, WriteTool(r) PROVE LockInv'
  <2>1. requests[r] \in ToolRequest
    BY <1>r, <1>7, RequestKinds DEF WriteTool
  <2>2. [requests[r] EXCEPT !.at = "wrote"].at = "wrote"
    BY <2>1 DEF ToolRequest
  <2> QED
    BY <1>0, <1>7, <2>2, QuietLocks DEF WriteTool, tables
<1>8. ASSUME NEW r \in Requests, ClaimCode(r) PROVE LockInv'
  <2> DEFINE q == [requests[r] EXCEPT !.at = "issue"]
  <2>1. requests[r] \in ExchangeRequest
    BY <1>r, <1>8, RequestKinds DEF ClaimCode
  <2>2. q.at = "issue" /\ q.code = requests[r].code /\ q.client = requests[r].client
    BY <2>1 DEF ExchangeRequest
  <2>3. codes' = codes /\ tokens' = tokens
    BY <1>8 DEF ClaimCode, tables
  <2>4. CASE ~Claimable(requests[r])
    BY <1>0, <1>8, <2>3, <2>4, QuietLocks DEF ClaimCode, Idle
  <2>5. CASE Claimable(requests[r])
    <3>1. requests' = [requests EXCEPT ![r] = q]
      BY <1>8, <2>5 DEF ClaimCode, Become
    <3> HIDE DEF q
    <3>2. \A x \in Requests : requests[x].at = "issue" => requests[x].code # requests[r].code
      BY <1>8 DEF ClaimCode, LockedCode
    <3>3. CodesHeld'
      BY <1>r, <2>2, <2>3, <2>5, <3>1, <3>2 DEF LockInv, CodesHeld, Claimable
    <3>4. TokensHeld'
      BY <1>r, <2>2, <2>3, <3>1 DEF LockInv, TokensHeld
    <3> QED
      BY <1>0, <2>3, <3>3, <3>4 DEF LockInv, Backed
  <2> QED
    BY <2>4, <2>5
<1>9. ASSUME NEW r \in Requests, ClaimToken(r) PROVE LockInv'
  <2> DEFINE q == [requests[r] EXCEPT !.at = "reissue"]
  <2>1. requests[r] \in RefreshRequest
    BY <1>r, <1>9, RequestKinds DEF ClaimToken
  <2>2. q.at = "reissue" /\ q.token = requests[r].token /\ q.client = requests[r].client
    BY <2>1 DEF RefreshRequest
  <2>3. codes' = codes /\ tokens' = tokens
    BY <1>9 DEF ClaimToken, tables
  <2>4. CASE ~Rotatable(requests[r])
    BY <1>0, <1>9, <2>3, <2>4, QuietLocks DEF ClaimToken, Idle
  <2>5. CASE Rotatable(requests[r])
    <3>1. requests' = [requests EXCEPT ![r] = q]
      BY <1>9, <2>5 DEF ClaimToken, Become
    <3> HIDE DEF q
    <3>2. \A x \in Requests : requests[x].at = "reissue" => requests[x].token # requests[r].token
      BY <1>9 DEF ClaimToken, LockedToken
    <3>3. TokensHeld'
      BY <1>r, <2>2, <2>3, <2>5, <3>1, <3>2 DEF LockInv, TokensHeld, Rotatable
    <3>4. CodesHeld'
      BY <1>r, <2>2, <2>3, <3>1 DEF LockInv, CodesHeld
    <3> QED
      BY <1>0, <2>3, <3>3, <3>4 DEF LockInv, Backed
  <2> QED
    BY <2>4, <2>5
<1>10. ASSUME NEW r \in Requests, NEW t \in Tokens, CommitExchange(r, t) PROVE LockInv'
  <2> DEFINE k == requests[r].code
  <2>1. /\ k \in Codes
        /\ codes'[k] # None /\ codes'[k].used
        /\ \A x \in Codes \ {k} : codes'[x] = codes[x]
        /\ tokens[t] = None /\ tokens'[t].code = k
        /\ \A s \in Tokens \ {t} : tokens'[s] = tokens[s]
    BY <1>10, ExchangeTables
  <2>2. /\ requests[r].at = "issue"
        /\ \A x \in Requests : requests'[x].at \in {"issue", "reissue"} =>
             x # r /\ requests'[x] = requests[x]
    BY <1>r, <1>10 DEF CommitExchange, Become, Idle
  <2> HIDE DEF k
  <2>4. CodesHeld'
    BY <1>c, <2>1, <2>2 DEF LockInv, CodesHeld, k
  <2>5. TokensHeld'
    BY <1>t, <2>1, <2>2 DEF LockInv, TokensHeld
  <2>6. Backed'
    <3> SUFFICES ASSUME NEW s \in Tokens, tokens'[s] # None
                 PROVE  codes'[tokens'[s].code] # None /\ codes'[tokens'[s].code].used
      BY DEF Backed
    <3>1. CASE s = t
      BY <2>1, <3>1
    <3>2. CASE s # t
      <4>1. tokens'[s] = tokens[s]
        BY <2>1, <3>2
      <4>2. tokens[s].code \in Codes /\ codes[tokens[s].code] # None /\ codes[tokens[s].code].used
        BY <1>b, <4>1 DEF LockInv, Backed
      <4> QED
        BY <2>1, <4>1, <4>2
    <3> QED
      BY <3>1, <3>2
  <2> QED
    BY <1>0, <2>4, <2>5, <2>6 DEF LockInv
<1>11. ASSUME NEW r \in Requests, NEW t \in Tokens, CommitRefresh(r, t) PROVE LockInv'
  <2> DEFINE old == requests[r].token
  <2>1. /\ old \in Tokens /\ tokens[old] # None
        /\ old # t /\ tokens[t] = None
        /\ tokens'[old].code = tokens[old].code /\ tokens'[t].code = tokens[old].code
        /\ \A s \in Tokens \ {old, t} : tokens'[s] = tokens[s]
        /\ codes' = codes
    BY <1>11, RefreshTables
  <2>2. /\ requests[r].at = "reissue"
        /\ \A x \in Requests : requests'[x].at \in {"issue", "reissue"} =>
             x # r /\ requests'[x] = requests[x]
    BY <1>r, <1>11 DEF CommitRefresh, Become, Idle
  <2> HIDE DEF old
  <2>4. TokensHeld'
    BY <1>t, <2>1, <2>2 DEF LockInv, TokensHeld, old
  <2>5. CodesHeld'
    BY <2>1, <2>2 DEF LockInv, CodesHeld
  <2>6. Backed'
    <3> SUFFICES ASSUME NEW s \in Tokens, tokens'[s] # None
                 PROVE  codes'[tokens'[s].code] # None /\ codes'[tokens'[s].code].used
      BY DEF Backed
    <3>1. CASE s \in {old, t}
      BY <2>1, <2>2, <3>1 DEF LockInv, Backed
    <3>2. CASE s \notin {old, t}
      BY <2>1, <3>2 DEF LockInv, Backed
    <3> QED
      BY <3>1, <3>2
  <2> QED
    BY <1>0, <2>4, <2>5, <2>6 DEF LockInv
<1>12. ASSUME NEW t \in Tokens, RevokeToken(t) PROVE LockInv'
  <2>1. /\ tokens[t] # None /\ tokens'[t].code = tokens[t].code
        /\ \A s \in Tokens \ {t} : tokens'[s] = tokens[s]
    BY <1>0, <1>12, RevokeTables
  <2>2. /\ codes' = codes /\ requests' = requests
        /\ \A x \in Requests : requests[x].at = "reissue" => requests[x].token # t
    BY <1>12 DEF RevokeToken, LockedToken
  <2>4. CodesHeld' /\ TokensHeld'
    BY <1>t, <2>1, <2>2 DEF LockInv, CodesHeld, TokensHeld
  <2>5. Backed'
    BY <2>1, <2>2 DEF LockInv, Backed
  <2> QED
    BY <1>0, <2>4, <2>5 DEF LockInv
<1>13. ASSUME \/ \E c \in Clients, uris \in SUBSET Uris : \E s \in {None, c} : Register(c, uris, s)
              \/ \E u \in Subjects : SignIn(u) \/ SignOut(u)
              \/ Tick
              \/ UNCHANGED vars
       PROVE  UNCHANGED <<codes, tokens, requests>>
  BY <1>13 DEF Register, SignIn, SignOut, Tick, vars, tables
<1> QED
  BY <1>1, <1>2, <1>3, <1>4, <1>5, <1>6, <1>7, <1>8, <1>9, <1>10, <1>11, <1>12, <1>13
     DEF Next, Grant, Serve

-----------------------------------------------------------------------------
(* Approve and the two transactions and RevokeToken are all that touches   *)
(* codes and tokens.                                                       *)
LEMMA TableSteps ==
  ASSUME [Next]_vars
  PROVE  \/ UNCHANGED <<codes, tokens>>
         \/ \E k \in Codes, u \in Subjects, c \in Clients, uri \in Uris,
               asked \in SUBSET {"read", "write"}, o1, o2 \in Origins, v \in Verifiers :
              Approve(k, u, c, uri, asked, o1, o2, v)
         \/ \E r \in Requests, t \in Tokens : CommitExchange(r, t) \/ CommitRefresh(r, t)
         \/ \E t \in Tokens : RevokeToken(t)
<1>1. ASSUME NEW r \in Requests, Serve(r)
      PROVE  \/ UNCHANGED <<codes, tokens>>
             \/ \E t \in Tokens : CommitExchange(r, t) \/ CommitRefresh(r, t)
  BY <1>1 DEF Serve, AskExchange, AskRefresh, ClaimCode, ClaimToken, RefuseExchange, RollBack,
              CallServer, Answer, WriteTool, tables
<1>2. ASSUME Grant
      PROVE  \/ UNCHANGED <<codes, tokens>>
             \/ \E k \in Codes, u \in Subjects, c \in Clients, uri \in Uris,
                   asked \in SUBSET {"read", "write"}, o1, o2 \in Origins, v \in Verifiers :
                  Approve(k, u, c, uri, asked, o1, o2, v)
  BY <1>2 DEF Grant, Register, SignIn, SignOut, tables
<1>3. Tick \/ UNCHANGED vars => UNCHANGED <<codes, tokens>>
  BY DEF Tick, vars, tables
<1> QED
  BY <1>1, <1>2, <1>3 DEF Next

(* Of the tokens of a code the one that has not been replaced is the only  *)
(* one that may be live, because replacing revokes: so that a refresh      *)
(* always replaces the newest one.                                         *)
TokensInv == LockInv /\ OneLivePerGrant /\ SpentIsIssued

(* A token names a code that is used up, and so none names another code.   *)
LEMMA TokenFacts ==
  ASSUME LockInv, NEW s \in Tokens, tokens[s] # None
  PROVE  /\ tokens[s] \in Token /\ tokens[s].code \in Codes
         /\ codes[tokens[s].code] # None /\ codes[tokens[s].code].used
<1>1. tokens[s] \in Token
  BY DEF LockInv, TypeInv, TypeOK
<1> QED
  BY <1>1 DEF LockInv, Backed, Token

(* The first token of a code is alone, and nothing was replaced.           *)
LEMMA TokensExchange ==
  ASSUME TokensInv, NEW r \in Requests, NEW t \in Tokens, CommitExchange(r, t),
         NEW k, k = requests[r].code
  PROVE  OneLivePerGrant' /\ SpentIsIssued'
<1>1. /\ k \in Codes /\ ~codes[k].used
      /\ codes'[k] # None /\ codes'[k].used
      /\ \A x \in Codes \ {k} : codes'[x] = codes[x]
      /\ tokens[t] = None /\ tokens'[t] # None
      /\ tokens'[t].code = k /\ tokens'[t].replacedBy = None
      /\ \A s \in Tokens \ {t} : tokens'[s] = tokens[s]
  BY ExchangeTables DEF TokensInv
<1>2. OfCode(k) = {} /\ \A x \in Codes : t \notin OfCode(x)
  BY <1>1, TokenFacts DEF OfCode, TokensInv
<1>3. OfCode(k)' = {t}
  <2>1. \A s \in Tokens : tokens'[s] # None /\ tokens'[s].code = k <=> s = t
    BY <1>1, <1>2 DEF OfCode
  <2> QED
    BY <2>1 DEF OfCode
<1>4. \A x \in Codes \ {k} : OfCode(x)' = OfCode(x) /\ \A s \in OfCode(x) : tokens'[s] = tokens[s]
  BY <1>1, <1>2 DEF OfCode
<1>5. OneLivePerGrant'
  BY <1>3, <1>4 DEF OneLivePerGrant, TokensInv
<1>6. \A x \in Codes : codes'[x] # None /\ codes'[x].used =>
        \E n \in OfCode(x)' : \A s \in OfCode(x)' : tokens'[s].replacedBy = None <=> s = n
  <2> SUFFICES ASSUME NEW x \in Codes, codes'[x] # None, codes'[x].used
               PROVE  \E n \in OfCode(x)' : \A s \in OfCode(x)' :
                        tokens'[s].replacedBy = None <=> s = n
    OBVIOUS
  <2>1. CASE x = k
    BY <1>1, <1>3, <2>1
  <2>2. CASE x # k
    <3>1. PICK n \in OfCode(x) : \A s \in OfCode(x) : tokens[s].replacedBy = None <=> s = n
      BY <1>1, <2>2 DEF TokensInv, SpentIsIssued
    <3> QED
      BY <1>4, <2>2, <3>1
  <2> QED
    BY <2>1, <2>2
<1>7. \A x \in Codes : OfCode(x)' # {} => codes'[x] # None /\ codes'[x].used
  <2> TAKE x \in Codes
  <2>1. CASE x = k
    BY <1>1, <2>1
  <2>2. CASE x # k
    BY <1>1, <1>4, <2>2 DEF TokensInv, SpentIsIssued
  <2> QED
    BY <2>1, <2>2
<1>8. \A a, b \in Tokens : tokens'[a] # None /\ tokens'[a].replacedBy = b =>
        tokens'[b] # None /\ tokens'[b].code = tokens'[a].code /\ tokens'[a].revoked
  BY <1>1, OAuthAssumption DEF TokensInv, SpentIsIssued
<1> QED
  BY <1>5, <1>6, <1>7, <1>8 DEF SpentIsIssued

(* The new token takes the place of the one that was live.                 *)
LEMMA TokensRefresh ==
  ASSUME TokensInv, NEW r \in Requests, NEW t \in Tokens, CommitRefresh(r, t),
         NEW old, old = requests[r].token, NEW k, k = tokens[old].code
  PROVE  OneLivePerGrant' /\ SpentIsIssued'
<1>1. /\ old \in Tokens /\ tokens[old] # None /\ ~tokens[old].revoked
      /\ old # t /\ tokens[t] = None
      /\ tokens'[old] # None /\ tokens'[old].code = k
      /\ tokens'[old].revoked /\ tokens'[old].replacedBy = t
      /\ tokens'[t] # None /\ tokens'[t].code = k /\ tokens'[t].replacedBy = None
      /\ \A s \in Tokens \ {old, t} : tokens'[s] = tokens[s]
      /\ codes' = codes
  BY RefreshTables DEF TokensInv
<1>2. k \in Codes /\ old \in OfCode(k) /\ codes[k] # None /\ codes[k].used
  BY <1>1, TokenFacts DEF OfCode, TokensInv
<1>3. \A x \in Codes : t \notin OfCode(x) /\ (old \in OfCode(x) => x = k)
  BY <1>1 DEF OfCode
<1>4. \A x \in Codes : OfCode(x)' = IF x = k THEN OfCode(k) \union {t} ELSE OfCode(x)
  <2> TAKE x \in Codes
  <2>1. \A s \in Tokens : tokens'[s] # None /\ tokens'[s].code = x
                          <=> (tokens[s] # None /\ tokens[s].code = x) \/ (s = t /\ x = k)
    <3> TAKE s \in Tokens
    <3>1. CASE s \in {old, t}
      BY <1>1, <3>1
    <3>2. CASE s \notin {old, t}
      BY <1>1, <3>2
    <3> QED
      BY <3>1, <3>2
  <2>2. CASE x = k
    BY <2>1, <2>2 DEF OfCode
  <2>3. CASE x # k
    BY <2>1, <2>3 DEF OfCode
  <2> QED
    BY <2>2, <2>3
<1>5. \A x \in Codes : \A s \in OfCode(x) \ {old} : tokens'[s] = tokens[s]
  BY <1>1, <1>3 DEF OfCode
<1>6. OneLivePerGrant'
  <2> SUFFICES ASSUME NEW x \in Codes, NEW a \in OfCode(x)', NEW b \in OfCode(x)',
                      ~tokens'[a].revoked, ~tokens'[b].revoked
               PROVE  a = b
    BY DEF OneLivePerGrant
  <2>1. a # old /\ b # old
    BY <1>1
  <2>2. CASE x = k
    <3>1. \A s \in OfCode(k) : ~tokens[s].revoked => s = old
      BY <1>1, <1>2 DEF TokensInv, OneLivePerGrant
    <3> QED
      BY <1>4, <1>5, <2>1, <2>2, <3>1
  <2>3. CASE x # k
    BY <1>4, <1>5, <2>1, <2>3 DEF TokensInv, OneLivePerGrant
  <2> QED
    BY <2>2, <2>3
<1>7. \A x \in Codes : codes'[x] # None /\ codes'[x].used =>
        \E n \in OfCode(x)' : \A s \in OfCode(x)' : tokens'[s].replacedBy = None <=> s = n
  <2> SUFFICES ASSUME NEW x \in Codes, codes'[x] # None, codes'[x].used
               PROVE  \E n \in OfCode(x)' : \A s \in OfCode(x)' :
                        tokens'[s].replacedBy = None <=> s = n
    OBVIOUS
  <2>1. PICK n \in OfCode(x) : \A s \in OfCode(x) : tokens[s].replacedBy = None <=> s = n
    BY <1>1 DEF TokensInv, SpentIsIssued
  <2>2. CASE x = k
    <3>1. tokens[old].replacedBy = None
      <4>1. tokens[old].replacedBy \in Tokens \union {None}
        BY <1>1, TokenFacts DEF TokensInv, Token
      <4> QED
        BY <1>1, <4>1 DEF TokensInv, SpentIsIssued
    <3>2. n = old
      BY <1>2, <2>1, <2>2, <3>1
    <3>3. \A s \in OfCode(k) \union {t} : tokens'[s].replacedBy = None <=> s = t
      BY <1>1, <1>3, <1>5, <2>1, <2>2, <3>2, OAuthAssumption
    <3> QED
      BY <1>4, <2>2, <3>3
  <2>3. CASE x # k
    BY <1>3, <1>4, <1>5, <2>1, <2>3
  <2> QED
    BY <2>2, <2>3
<1>8. \A x \in Codes : OfCode(x)' # {} => codes'[x] # None /\ codes'[x].used
  BY <1>1, <1>2, <1>4 DEF TokensInv, SpentIsIssued
<1>9. \A a, b \in Tokens : tokens'[a] # None /\ tokens'[a].replacedBy = b =>
         tokens'[b] # None /\ tokens'[b].code = tokens'[a].code /\ tokens'[a].revoked
  <2> SUFFICES ASSUME NEW a \in Tokens, NEW b \in Tokens, tokens'[a] # None,
                      tokens'[a].replacedBy = b
               PROVE  tokens'[b] # None /\ tokens'[b].code = tokens'[a].code /\ tokens'[a].revoked
    OBVIOUS
  <2>1. CASE a = old
    BY <1>1, <2>1
  <2>2. a # t
    BY <1>1, OAuthAssumption
  <2>3. CASE a # old
    <3>1. /\ tokens[a] # None /\ tokens[a].replacedBy = b /\ tokens'[a] = tokens[a]
      BY <1>1, <2>2, <2>3
    <3>2. tokens[b] # None /\ tokens[b].code = tokens[a].code /\ tokens[a].revoked
      BY <3>1 DEF TokensInv, SpentIsIssued
    <3>3. tokens'[b] # None /\ tokens'[b].code = tokens[b].code
      BY <1>1, <3>2
    <3> QED
      BY <3>1, <3>2, <3>3
  <2> QED
    BY <2>1, <2>3
<1> QED
  BY <1>6, <1>7, <1>8, <1>9 DEF SpentIsIssued

(* Revoking a token leaves it the one that nothing has replaced.           *)
LEMMA TokensRevoke ==
  ASSUME TokensInv, NEW t \in Tokens, RevokeToken(t)
  PROVE  OneLivePerGrant' /\ SpentIsIssued'
<1>1. /\ tokens[t] # None /\ tokens'[t] # None /\ tokens'[t].code = tokens[t].code
      /\ tokens'[t].revoked /\ tokens'[t].replacedBy = tokens[t].replacedBy
      /\ \A s \in Tokens \ {t} : tokens'[s] = tokens[s]
      /\ codes' = codes
  BY RevokeTables DEF TokensInv, LockInv, RevokeToken
<1>2. \A x \in Codes : OfCode(x)' = OfCode(x)
  BY <1>1 DEF OfCode
<1>3. \A s \in Tokens : /\ tokens'[s].replacedBy = tokens[s].replacedBy
                        /\ tokens'[s].code = tokens[s].code
                        /\ tokens'[s] # None <=> tokens[s] # None
                        /\ tokens[s].revoked => tokens'[s].revoked
  BY <1>1
<1>4. \A x \in Codes : OfCode(x) \subseteq Tokens
  BY DEF OfCode
<1>5. OneLivePerGrant'
  BY <1>2, <1>3, <1>4 DEF TokensInv, OneLivePerGrant
<1>6. SpentIsIssued'
  BY <1>1, <1>2, <1>3, <1>4 DEF TokensInv, SpentIsIssued
<1> QED
  BY <1>5, <1>6

(* Without tokens and codes both properties hold.                          *)
LEMMA TokensInit == Init => TokensInv
<1> SUFFICES ASSUME Init PROVE TokensInv
  OBVIOUS
<1>1. \A k \in Codes : codes[k] = None /\ OfCode(k) = {}
  BY DEF Init, OfCode
<1>2. OneLivePerGrant /\ SpentIsIssued
  BY <1>1 DEF Init, OneLivePerGrant, SpentIsIssued
<1> QED
  BY <1>2, LockInit DEF TokensInv

(* Every step keeps one live token per code and one chain of successors.   *)
LEMMA TokensStep == TokensInv /\ [Next]_vars => TokensInv'
<1> SUFFICES ASSUME TokensInv, [Next]_vars PROVE TokensInv'
  OBVIOUS
<1>0. LockInv' /\ LockInv /\ TypeInv
  BY LockStep DEF TokensInv, LockInv
<1>1. CASE UNCHANGED <<codes, tokens>>
  BY <1>0, <1>1 DEF TokensInv, OneLivePerGrant, SpentIsIssued, OfCode
<1>2. ASSUME NEW k \in Codes, NEW u \in Subjects, NEW c \in Clients, NEW uri \in Uris,
             NEW asked \in SUBSET {"read", "write"}, NEW o1 \in Origins, NEW o2 \in Origins,
             NEW v \in Verifiers, Approve(k, u, c, uri, asked, o1, o2, v)
      PROVE  OneLivePerGrant' /\ SpentIsIssued'
  <2>1. /\ codes[k] = None /\ ~codes'[k].used
        /\ tokens' = tokens
        /\ \A x \in Codes \ {k} : codes'[x] = codes[x]
    BY <1>0, <1>2, ApproveTables
  <2>2. OfCode(k) = {}
    BY <1>0, <2>1, TokenFacts DEF OfCode
  <2>3. \A x \in Codes : OfCode(x)' = OfCode(x)
    BY <2>1 DEF OfCode
  <2> QED
    BY <2>1, <2>2, <2>3 DEF TokensInv, OneLivePerGrant, SpentIsIssued
<1>3. ASSUME NEW r \in Requests, NEW t \in Tokens, CommitExchange(r, t) \/ CommitRefresh(r, t)
      PROVE  OneLivePerGrant' /\ SpentIsIssued'
  BY <1>3, TokensExchange, TokensRefresh
<1>4. ASSUME NEW t \in Tokens, RevokeToken(t) PROVE OneLivePerGrant' /\ SpentIsIssued'
  BY <1>4, TokensRevoke
<1> QED
  BY <1>0, <1>1, <1>2, <1>3, <1>4, TableSteps DEF TokensInv

(* What a user approved never has two live tokens.                         *)
THEOREM OneLiveToken == Spec => []OneLivePerGrant
<1>1. TokensInv => OneLivePerGrant
  BY DEF TokensInv
<1> QED
  BY <1>1, TokensInit, TokensStep, PTL DEF Spec

(* A failed request burns nothing, and replaced tokens form one chain.     *)
THEOREM NothingBurnt == Spec => []SpentIsIssued
<1>1. TokensInv => SpentIsIssued
  BY DEF TokensInv
<1> QED
  BY <1>1, TokensInit, TokensStep, PTL DEF Spec

-----------------------------------------------------------------------------
(* A tool that is called has the scope of its token, which stays, and one  *)
(* that has written was allowed to.                                        *)
ToolsInv ==
  \A r \in Requests : requests[r].at \in {"tool", "wrote"} =>
    /\ requests[r].scope = tokens[requests[r].token].scope
    /\ requests[r].at = "wrote" => "write" \in requests[r].scope

KeptInv == LockInv /\ ToolsInv /\ \A t \in Tokens : tokens[t] # None =>
                                     SameGrant(tokens[t], codes[tokens[t].code])

(* Rows keep what was granted.                                             *)
LEMMA GrantsStay ==
  ASSUME LockInv, [Next]_vars
  PROVE  /\ \A k \in Codes : codes[k] # None => SameGrant(codes'[k], codes[k])
         /\ \A t \in Tokens : tokens[t] # None =>
              tokens'[t].code = tokens[t].code /\ SameGrant(tokens'[t], tokens[t])
<1>1. CASE UNCHANGED <<codes, tokens>>
  BY <1>1 DEF SameGrant
<1>2. ASSUME NEW k \in Codes, NEW u \in Subjects, NEW c \in Clients, NEW uri \in Uris,
             NEW asked \in SUBSET {"read", "write"}, NEW o1 \in Origins, NEW o2 \in Origins,
             NEW v \in Verifiers, Approve(k, u, c, uri, asked, o1, o2, v)
      PROVE  /\ \A x \in Codes : codes[x] # None => codes'[x] = codes[x]
             /\ tokens' = tokens
  BY <1>2, ApproveTables DEF LockInv
<1>3. ASSUME NEW r \in Requests, NEW t \in Tokens, CommitExchange(r, t)
      PROVE  /\ \A x \in Codes : codes'[x] = codes[x] \/ SameGrant(codes'[x], codes[x])
             /\ \A s \in Tokens : tokens[s] # None => tokens'[s] = tokens[s]
  BY <1>3, ExchangeTables
<1>4. ASSUME NEW r \in Requests, NEW t \in Tokens, CommitRefresh(r, t)
      PROVE  /\ codes' = codes
             /\ \A s \in Tokens : tokens[s] # None =>
                  \/ tokens'[s] = tokens[s]
                  \/ tokens'[s].code = tokens[s].code /\ SameGrant(tokens'[s], tokens[s])
  BY <1>4, RefreshTables
<1>5. ASSUME NEW t \in Tokens, RevokeToken(t)
      PROVE  /\ codes' = codes
             /\ \A s \in Tokens : tokens[s] # None =>
                  \/ tokens'[s] = tokens[s]
                  \/ tokens'[s].code = tokens[s].code /\ SameGrant(tokens'[s], tokens[s])
  BY <1>5, RevokeTables DEF LockInv, RevokeToken
<1> QED
  BY <1>1, <1>2, <1>3, <1>4, <1>5, TableSteps DEF SameGrant

(* Every step keeps grants, and a tool call the scope of its token.        *)
LEMMA KeptStep == KeptInv /\ [Next]_vars => KeptInv'
<1> SUFFICES ASSUME KeptInv, [Next]_vars PROVE KeptInv'
  OBVIOUS
<1>0. LockInv /\ LockInv' /\ TypeInv /\ TypeInv'
  BY LockStep DEF KeptInv, LockInv
<1>1. /\ \A k \in Codes : codes[k] # None => SameGrant(codes'[k], codes[k])
      /\ \A t \in Tokens : tokens[t] # None =>
           tokens'[t].code = tokens[t].code /\ SameGrant(tokens'[t], tokens[t])
  BY <1>0, GrantsStay
<1>2. \A t \in Tokens : tokens[t] # None => tokens[t].code \in Codes /\ codes[tokens[t].code] # None
  BY <1>0, TokenFacts
<1>3. ASSUME NEW s \in Tokens, tokens[s] = None, tokens'[s] # None
      PROVE  SameGrant(tokens'[s], codes'[tokens'[s].code])
  <2>1. CASE tokens' = tokens
    BY <1>3, <2>1
  <2>2. ASSUME NEW r \in Requests, NEW t \in Tokens, CommitExchange(r, t)
        PROVE  SameGrant(tokens'[s], codes'[tokens'[s].code])
    BY <1>0, <1>3, <2>2, ExchangeTables DEF SameGrant
  <2>3. ASSUME NEW r \in Requests, NEW t \in Tokens, CommitRefresh(r, t)
        PROVE  SameGrant(tokens'[s], codes'[tokens'[s].code])
    <3>1. PICK old \in Tokens :
            /\ tokens[old] # None /\ codes' = codes
            /\ \A x \in Tokens \ {old, t} : tokens'[x] = tokens[x]
            /\ tokens'[t].code = tokens[old].code /\ SameGrant(tokens'[t], tokens[old])
      BY <1>0, <2>3, RefreshTables
    <3>2. s = t
      BY <1>3, <3>1
    <3> QED
      BY <3>1, <3>2 DEF KeptInv, SameGrant
  <2>4. ASSUME NEW t \in Tokens, RevokeToken(t) PROVE tokens'[s] = tokens[s]
    BY <1>0, <1>3, <2>4, RevokeTables
  <2> QED
    BY <1>3, <2>1, <2>2, <2>3, <2>4, TableSteps DEF Approve
<1>4. \A s \in Tokens : tokens'[s] # None => SameGrant(tokens'[s], codes'[tokens'[s].code])
  BY <1>1, <1>2, <1>3 DEF KeptInv, SameGrant
<1>5. ToolsInv'
  <2> SUFFICES ASSUME NEW r \in Requests, requests'[r].at \in {"tool", "wrote"}
               PROVE  /\ requests'[r].scope = tokens'[requests'[r].token].scope
                      /\ requests'[r].at = "wrote" => "write" \in requests'[r].scope
    BY DEF ToolsInv
  <2>1. requests[r] \in Request /\ requests \in [Requests -> Request] /\ Found(requests[r], codes, tokens)
    BY <1>0 DEF TypeInv, TypeOK, AllFound, Request
  <2>2. CASE requests'[r] = requests[r]
    <3>1. requests[r].token \in Tokens /\ tokens[requests[r].token] # None
      BY <2>1, <2>2, RequestKinds DEF Found, ToolRequest
    <3> QED
      BY <1>1, <2>2, <3>1 DEF KeptInv, ToolsInv, SameGrant
  <2>3. ASSUME NEW x \in Requests, NEW t \in Tokens, NEW o \in Origins, CallServer(x, t, o),
               requests'[r] # requests[r]
        PROVE  /\ requests'[r] = [at |-> "tool", token |-> t, scope |-> tokens[t].scope]
               /\ tokens' = tokens
    BY <2>1, <2>3 DEF CallServer, Become, tables
  <2>4. ASSUME NEW x \in Requests, WriteTool(x), requests'[r] # requests[r]
        PROVE  /\ requests'[r] = [requests[r] EXCEPT !.at = "wrote"]
               /\ requests[r].at = "tool" /\ "write" \in requests[r].scope
               /\ tokens' = tokens
    BY <2>1, <2>4 DEF WriteTool, MayWrite, Become, tables
  <2>5. ASSUME requests'[r] = [requests[r] EXCEPT !.at = "wrote"], requests[r].at = "tool"
        PROVE  requests'[r].scope = requests[r].scope /\ requests'[r].token = requests[r].token
    <3>1. requests[r] \in ToolRequest
      BY <2>1, <2>5, RequestKinds
    <3> QED
      BY <2>5, <3>1 DEF ToolRequest
  <2>6. \/ requests'[r] = requests[r]
        \/ \E x \in Requests, t \in Tokens, o \in Origins : CallServer(x, t, o)
        \/ \E x \in Requests : WriteTool(x)
    <3>1. ASSUME NEW x \in Requests, NEW q, Become(x, q), q.at \notin {"tool", "wrote"}
          PROVE  requests'[r] = requests[r]
      BY <2>1, <3>1 DEF Become
    <3>2. ASSUME NEW x \in Requests, NEW k \in Codes, NEW c \in Clients,
                 NEW s \in Clients \union {None}, NEW uri \in Uris, NEW v \in Verifiers,
                 NEW o \in Origins \union {None}, AskExchange(x, k, c, s, uri, v, o)
          PROVE  requests'[r] = requests[r]
      BY <3>1, <3>2 DEF AskExchange
    <3>3. ASSUME NEW x \in Requests, NEW t \in Tokens, NEW c \in Clients,
                 NEW s \in Clients \union {None}, AskRefresh(x, t, c, s)
          PROVE  requests'[r] = requests[r]
      BY <3>1, <3>3 DEF AskRefresh
    <3>4. ASSUME NEW x \in Requests, ClaimCode(x) PROVE requests'[r] = requests[r]
      <4>1. requests[x] \in ExchangeRequest
        BY <2>1, <3>4, RequestKinds DEF ClaimCode
      <4>2. [requests[x] EXCEPT !.at = "issue"].at = "issue"
        BY <4>1 DEF ExchangeRequest
      <4> QED
        BY <3>1, <3>4, <4>2 DEF ClaimCode, Idle
    <3>5. ASSUME NEW x \in Requests, ClaimToken(x) PROVE requests'[r] = requests[r]
      <4>1. requests[x] \in RefreshRequest
        BY <2>1, <3>5, RequestKinds DEF ClaimToken
      <4>2. [requests[x] EXCEPT !.at = "reissue"].at = "reissue"
        BY <4>1 DEF RefreshRequest
      <4> QED
        BY <3>1, <3>5, <4>2 DEF ClaimToken, Idle
    <3>6. ASSUME NEW x \in Requests,
                 \/ \E t \in Tokens : CommitExchange(x, t) \/ CommitRefresh(x, t)
                 \/ RefuseExchange(x) \/ RollBack(x) \/ Answer(x)
          PROVE  requests'[r] = requests[r]
      <4>1. Become(x, Idle)
        BY <3>6 DEF CommitExchange, CommitRefresh, RefuseExchange, RollBack, Answer
      <4> QED
        BY <3>1, <4>1 DEF Idle
    <3>7. ASSUME Grant \/ (\E t \in Tokens : RevokeToken(t)) \/ Tick \/ UNCHANGED vars
          PROVE  requests' = requests
      BY <3>7 DEF Grant, Register, SignIn, SignOut, Approve, RevokeToken, Tick, vars, tables
    <3> QED
      BY <3>2, <3>3, <3>4, <3>5, <3>6, <3>7 DEF Next, Serve
  <2>7. CASE requests'[r] # requests[r]
    <3>1. CASE \E x \in Requests, t \in Tokens, o \in Origins : CallServer(x, t, o)
      <4>1. PICK x \in Requests, t \in Tokens, o \in Origins : CallServer(x, t, o)
        BY <3>1
      <4>2. /\ requests'[r] = [at |-> "tool", token |-> t, scope |-> tokens[t].scope]
            /\ tokens' = tokens
        BY <2>3, <2>7, <4>1
      <4> QED
        BY <4>2
    <3>2. CASE \E x \in Requests : WriteTool(x)
      <4>1. /\ requests[r].at = "tool" /\ "write" \in requests[r].scope /\ tokens' = tokens
            /\ requests'[r].scope = requests[r].scope /\ requests'[r].token = requests[r].token
        BY <2>4, <2>5, <2>7, <3>2
      <4> QED
        BY <4>1 DEF KeptInv, ToolsInv
    <3> QED
      BY <2>6, <2>7, <3>1, <3>2
  <2> QED
    BY <2>2, <2>7
<1> QED
  BY <1>0, <1>4, <1>5 DEF KeptInv

(* No chain of refreshes and no tool call goes beyond what was approved.   *)
THEOREM GrantsDoNotGrow == Spec => []GrantKept
<1>1. Init => KeptInv
  <2> SUFFICES ASSUME Init PROVE KeptInv
    OBVIOUS
  <2>1. ToolsInv /\ \A t \in Tokens : tokens[t] = None
    BY DEF Init, Idle, ToolsInv
  <2> QED
    BY <2>1, LockInit DEF KeptInv
<1>2. KeptInv => GrantKept
  <2> SUFFICES ASSUME KeptInv PROVE GrantKept
    OBVIOUS
  <2>1. \A t \in Tokens : tokens[t] # None => SameGrant(tokens[t], codes[tokens[t].code])
    BY DEF KeptInv
  <2>2. ASSUME NEW r \in Requests, requests[r].at = "wrote"
        PROVE  "write" \in codes[tokens[requests[r].token].code].scope
    <3>1. requests[r].token \in Tokens /\ tokens[requests[r].token] # None
      BY <2>2, RequestKinds
         DEF KeptInv, LockInv, TypeInv, TypeOK, Request, AllFound, Found, ToolRequest
    <3> QED
      BY <2>1, <2>2, <3>1 DEF KeptInv, ToolsInv, SameGrant
  <2> QED
    BY <2>1, <2>2 DEF GrantKept, SameGrant
<1> QED
  BY <1>1, <1>2, KeptStep, PTL DEF Spec
=============================================================================
