---------------------------- MODULE OAuthTokens ----------------------------
(***************************************************************************)
(* Who may use the MCP server.  A client registers, a signed-in user       *)
(* approves a request of it, the client exchanges the code it gets for an  *)
(* access and a refresh token, refreshes and revokes them, and calls tools *)
(* with the access token (apps/app/src/lib/mcp/oauth.ts, the routes under  *)
(* api/mcp/oauth, app/mcp/route.ts, packages/mcp/src/server.ts).  Requests *)
(* run at once: each exchange is a transaction of PostgreSQL, which locks  *)
(* the row it claims until it commits or rolls back.                       *)
(***************************************************************************)
EXTENDS Naturals

CONSTANTS
  Clients, Uris, Subjects,
  Verifiers,      \* PKCE verifiers; a challenge stands for its verifier
  Origins,        \* the origins the app is reached at, each with its resource
  Codes,          \* authorization codes, in no order
  Tokens,         \* rows of mcp_oauth_tokens, in no order
  Requests,       \* requests served at once
  CodeTTL, AccessTTL, RefreshTTL,
  MaxClock,       \* bound on the time
  MaxFaults,      \* bound on the transactions that fail
  None

VARIABLES
  clients,    \* mcp_oauth_clients
  codes,      \* mcp_oauth_authorization_codes, as committed
  tokens,     \* mcp_oauth_tokens, as committed
  sessions,   \* the users with a valid cookie
  requests,   \* where each request is
  clock, faults

tables == <<clients, codes, tokens>>
vars == <<tables, sessions, requests, clock, faults>>

Scopes == {{"read"}, {"read", "write"}}

Client == [uris : SUBSET Uris, secret : Clients \union {None}]

Code == [client : Clients, uri : Uris, challenge : Verifiers, subject : Subjects,
         scope : Scopes, resource : Origins, expires : Nat, used : BOOLEAN]

Token == [client : Clients, subject : Subjects, scope : Scopes, resource : Origins,
          accessUntil : Nat, refreshUntil : Nat, revoked : BOOLEAN,
          replacedBy : Tokens \union {None}, code : Codes]

ExchangeRequest == [at : {"claim", "issue"}, code : Codes, client : Clients, uri : Uris,
                    verifier : Verifiers, resource : Origins \union {None}, now : Nat]

RefreshRequest == [at : {"rotate", "reissue"}, token : Tokens, client : Clients, now : Nat]

ToolRequest == [at : {"tool", "wrote"}, token : Tokens, scope : Scopes]

Idle == [at |-> "idle"]

ASSUME OAuthAssumption ==
  /\ None \notin Clients \union Tokens \union Origins \union Client \union Code \union Token
  /\ {CodeTTL, AccessTTL, RefreshTTL} \subseteq Nat \ {0}
  /\ {MaxClock, MaxFaults} \subseteq Nat

-----------------------------------------------------------------------------
(* normalizeClientRegistration.  The secret of a client stands for itself. *)
Register(c, uris, secret) ==
  /\ clients[c] = None
  /\ uris # {}
  /\ clients' = [clients EXCEPT ![c] = [uris |-> uris, secret |-> secret]]
  /\ UNCHANGED <<codes, tokens, sessions, requests, clock, faults>>

(* api/auth/login, createAuthCookie                                        *)
SignIn(u) ==
  /\ u \notin sessions
  /\ sessions' = sessions \union {u}
  /\ UNCHANGED <<tables, requests, clock, faults>>

(* api/auth/logout, or the token of the cookie expires                     *)
SignOut(u) ==
  /\ u \in sessions
  /\ sessions' = sessions \ {u}
  /\ UNCHANGED <<tables, requests, clock, faults>>

(* parseScopes throws unless the request asks to read.                     *)
ParseScopes(asked) == asked \intersect UNION Scopes

ValidAuthorization(c, uri, asked, resource, origin) ==
  /\ "read" \in asked
  /\ resource = origin
  /\ clients[c] # None
  /\ uri \in clients[c].uris

(* getAuthenticatedUser: the cookie's token verifies.                      *)
SignedIn(u) == u \in sessions

(* createAuthorizationCode                                                 *)
NewCode(u, c, uri, scope, resource, v) ==
  [client |-> c, uri |-> uri, challenge |-> v, subject |-> u, scope |-> scope,
   resource |-> resource, expires |-> clock + CodeTTL, used |-> FALSE]

(* authorize/approve.  Clients are never changed or removed, so that the   *)
(* checks and the insert of the code may be one step.                      *)
Approve(k, u, c, uri, asked, resource, origin, v) ==
  /\ codes[k] = None
  /\ SignedIn(u)
  /\ ValidAuthorization(c, uri, asked, resource, origin)
  /\ codes' = [codes EXCEPT ![k] = NewCode(u, c, uri, ParseScopes(asked), resource, v)]
  /\ UNCHANGED <<clients, tokens, sessions, requests, clock, faults>>

-----------------------------------------------------------------------------
(* api/mcp/oauth/token.                                                    *)

(* getAuthenticatedClient                                                  *)
Authenticated(c, secret) ==
  /\ clients[c] # None
  /\ clients[c].secret \in {None, secret}

Become(r, call) == requests' = [requests EXCEPT ![r] = call]

LockedCode(k) == \E r \in Requests : requests[r].at = "issue" /\ requests[r].code = k

LockedToken(t) == \E r \in Requests : requests[r].at = "reissue" /\ requests[r].token = t

AskExchange(r, k, c, secret, uri, v, resource) ==
  /\ requests[r] = Idle
  /\ codes[k] # None
  /\ Authenticated(c, secret)
  /\ Become(r, [at |-> "claim", code |-> k, client |-> c, uri |-> uri, verifier |-> v,
                resource |-> resource, now |-> clock])
  /\ UNCHANGED <<tables, sessions, clock, faults>>

AskRefresh(r, t, c, secret) ==
  /\ requests[r] = Idle
  /\ tokens[t] # None
  /\ Authenticated(c, secret)
  /\ Become(r, [at |-> "rotate", token |-> t, client |-> c, now |-> clock])
  /\ UNCHANGED <<tables, sessions, clock, faults>>

(* A mutant: the UPDATE does not look at usedAt.                           *)
ClaimableAgain(q) ==
  LET code == codes[q.code] IN
  code.client = q.client /\ code.uri = q.uri /\ code.expires > q.now

(* The WHERE of the UPDATE, on the row as last committed.                  *)
Claimable(q) ==
  LET code == codes[q.code] IN
  /\ code.client = q.client
  /\ code.uri = q.uri
  /\ ~code.used
  /\ code.expires > q.now

Rotatable(q) ==
  LET token == tokens[q.token] IN
  /\ token.client = q.client
  /\ ~token.revoked
  /\ token.refreshUntil > q.now

ClaimCode(r) ==
  /\ requests[r].at = "claim"
  /\ ~LockedCode(requests[r].code)
  /\ Become(r, IF Claimable(requests[r]) THEN [requests[r] EXCEPT !.at = "issue"] ELSE Idle)
  /\ UNCHANGED <<tables, sessions, clock, faults>>

ClaimToken(r) ==
  /\ requests[r].at = "rotate"
  /\ ~LockedToken(requests[r].token)
  /\ Become(r, IF Rotatable(requests[r]) THEN [requests[r] EXCEPT !.at = "reissue"] ELSE Idle)
  /\ UNCHANGED <<tables, sessions, clock, faults>>

(* A mutant: new tokens get every supported scope.                         *)
IssuedInFull(c, from, k) ==
  [client |-> c, subject |-> from.subject, scope |-> UNION Scopes, resource |-> from.resource,
   accessUntil |-> clock + AccessTTL, refreshUntil |-> clock + RefreshTTL,
   revoked |-> FALSE, replacedBy |-> None, code |-> k]

(* issueTokens                                                             *)
Issued(c, from, k) ==
  [client |-> c, subject |-> from.subject, scope |-> from.scope, resource |-> from.resource,
   accessUntil |-> clock + AccessTTL, refreshUntil |-> clock + RefreshTTL,
   revoked |-> FALSE, replacedBy |-> None, code |-> k]

ExchangeAllowed(q) ==
  /\ q.resource \in {None, codes[q.code].resource}
  /\ q.verifier = codes[q.code].challenge

CommitExchange(r, t) ==
  LET q == requests[r] IN
  /\ q.at = "issue"
  /\ ExchangeAllowed(q)
  /\ tokens[t] = None
  /\ codes' = [codes EXCEPT ![q.code].used = TRUE]
  /\ tokens' = [tokens EXCEPT ![t] = Issued(q.client, codes[q.code], q.code)]
  /\ Become(r, Idle)
  /\ UNCHANGED <<clients, sessions, clock, faults>>

CommitRefresh(r, t) ==
  LET q   == requests[r]
      old == tokens[q.token]
  IN
  /\ q.at = "reissue"
  /\ tokens[t] = None
  /\ tokens' = [tokens EXCEPT ![q.token].revoked = TRUE, ![q.token].replacedBy = t,
                              ![t] = Issued(q.client, old, old.code)]
  /\ Become(r, Idle)
  /\ UNCHANGED <<clients, codes, sessions, clock, faults>>

(* A check throws inside the transaction.                                  *)
RefuseExchange(r) ==
  /\ requests[r].at = "issue"
  /\ ~ExchangeAllowed(requests[r])
  /\ Become(r, Idle)
  /\ UNCHANGED <<tables, sessions, clock, faults>>

(* A mutant: the UPDATE of the code is not part of the transaction.        *)
BurnCode(r) ==
  /\ requests[r].at = "issue"
  /\ faults < MaxFaults
  /\ faults' = faults + 1
  /\ codes' = [codes EXCEPT ![requests[r].code].used = TRUE]
  /\ Become(r, Idle)
  /\ UNCHANGED <<clients, tokens, sessions, clock>>

(* A statement fails or the process dies before the commit.                *)
RollBack(r) ==
  /\ requests[r].at \in {"issue", "reissue"}
  /\ faults < MaxFaults
  /\ faults' = faults + 1
  /\ Become(r, Idle)
  /\ UNCHANGED <<tables, sessions, clock>>

(* revokeToken: of its two updates one finds the row.                      *)
RevokeToken(t) ==
  /\ tokens[t] # None
  /\ ~LockedToken(t)
  /\ tokens' = [tokens EXCEPT ![t].revoked = TRUE]
  /\ UNCHANGED <<clients, codes, sessions, requests, clock, faults>>

-----------------------------------------------------------------------------
(* app/mcp.                                                                *)

(* verifyAccessToken, whose update of lastUsedAt changes nothing here      *)
Valid(t, resource) ==
  /\ tokens[t] # None
  /\ ~tokens[t].revoked
  /\ clock < tokens[t].accessUntil
  /\ tokens[t].resource = resource
  /\ "read" \in tokens[t].scope

CallServer(r, t, origin) ==
  /\ requests[r] = Idle
  /\ Valid(t, origin)
  /\ Become(r, [at |-> "tool", token |-> t, scope |-> tokens[t].scope])
  /\ UNCHANGED <<tables, sessions, clock, faults>>

(* The tool that was called only reads, or has written.                    *)
Answer(r) ==
  /\ requests[r].at \in {"tool", "wrote"}
  /\ Become(r, Idle)
  /\ UNCHANGED <<tables, sessions, clock, faults>>

(* requireWriteAccess                                                      *)
MayWrite(r) == "write" \in requests[r].scope

WriteTool(r) ==
  /\ requests[r].at = "tool"
  /\ MayWrite(r)
  /\ Become(r, [requests[r] EXCEPT !.at = "wrote"])
  /\ UNCHANGED <<tables, sessions, clock, faults>>

-----------------------------------------------------------------------------
Tick ==
  /\ clock < MaxClock
  /\ clock' = clock + 1
  /\ UNCHANGED <<tables, sessions, requests, faults>>

Init ==
  /\ clients = [c \in Clients |-> None]
  /\ codes = [k \in Codes |-> None]
  /\ tokens = [t \in Tokens |-> None]
  /\ sessions = {}
  /\ requests = [r \in Requests |-> Idle]
  /\ clock = 0
  /\ faults = 0

Grant ==
  \/ \E c \in Clients, uris \in SUBSET Uris : \E s \in {None, c} : Register(c, uris, s)
  \/ \E u \in Subjects : SignIn(u) \/ SignOut(u)
  \/ \E k \in Codes, u \in Subjects, c \in Clients, uri \in Uris,
        asked \in SUBSET {"read", "write"}, o1, o2 \in Origins, v \in Verifiers :
       Approve(k, u, c, uri, asked, o1, o2, v)

Serve(r) ==
  \/ \E k \in Codes, c \in Clients, s \in Clients \union {None}, uri \in Uris,
        v \in Verifiers, o \in Origins \union {None} : AskExchange(r, k, c, s, uri, v, o)
  \/ \E t \in Tokens, c \in Clients, s \in Clients \union {None} : AskRefresh(r, t, c, s)
  \/ ClaimCode(r) \/ ClaimToken(r)
  \/ \E t \in Tokens : CommitExchange(r, t) \/ CommitRefresh(r, t)
  \/ RefuseExchange(r) \/ RollBack(r)
  \/ \E t \in Tokens, o \in Origins : CallServer(r, t, o)
  \/ Answer(r) \/ WriteTool(r)

Next ==
  \/ Grant
  \/ \E r \in Requests : Serve(r)
  \/ \E t \in Tokens : RevokeToken(t)
  \/ Tick

Spec == Init /\ [][Next]_vars

-----------------------------------------------------------------------------
(* Every table, session and request is of its type.                        *)
TypeOK ==
  /\ clients \in [Clients -> Client \union {None}]
  /\ codes \in [Codes -> Code \union {None}]
  /\ tokens \in [Tokens -> Token \union {None}]
  /\ sessions \subseteq Subjects
  /\ requests \in [Requests -> {Idle} \union ExchangeRequest \union RefreshRequest \union ToolRequest]
  /\ clock \in 0..MaxClock
  /\ faults \in 0..MaxFaults

OfCode(k) == {t \in Tokens : tokens[t] # None /\ tokens[t].code = k}

(* However many requests present a code or a refresh token at once         *)
(* (exchangeAuthorizationCode, exchangeRefreshToken), what a user approved *)
(* has at most one token that is not revoked.                              *)
OneLivePerGrant ==
  \A k \in Codes : \A t, s \in OfCode(k) : ~tokens[t].revoked /\ ~tokens[s].revoked => t = s

(* No request that fails half way burns a code or a refresh token: a code  *)
(* marked used has a token, of its tokens one has not been replaced, and   *)
(* each of the others was replaced by one of the same code.                *)
SpentIsIssued ==
  /\ \A k \in Codes : codes[k] # None /\ codes[k].used =>
       \E t \in OfCode(k) : \A s \in OfCode(k) : tokens[s].replacedBy = None <=> s = t
  /\ \A k \in Codes : OfCode(k) # {} => codes[k] # None /\ codes[k].used
  /\ \A t, s \in Tokens :
       tokens[t] # None /\ tokens[t].replacedBy = s =>
         tokens[s] # None /\ tokens[s].code = tokens[t].code /\ tokens[t].revoked

(* Along a chain of refreshes, and up to the tool that runs, the client,   *)
(* the user, the scope and the resource stay those the user approved       *)
(* (issueTokens, verifyAccessToken, requireWriteAccess).                   *)
GrantKept ==
  /\ \A t \in Tokens : tokens[t] # None =>
       LET code == codes[tokens[t].code] IN
       /\ tokens[t].client = code.client
       /\ tokens[t].subject = code.subject
       /\ tokens[t].scope = code.scope
       /\ tokens[t].resource = code.resource
  /\ \A r \in Requests : requests[r].at = "wrote" =>
       "write" \in codes[tokens[requests[r].token].code].scope
=============================================================================
