------------------------------ MODULE TokenAuth ------------------------------
(***************************************************************************)
(* A client that authenticates with tokens, against a registry that        *)
(* verifies them:                                                          *)
(*   - the proxy's remoteAuthChallenger, the challenge managers and the    *)
(*     authorizer that looks the challenge up for each request;            *)
(*   - the token handler of internal/client/auth/session.go, with its      *)
(*     cached token, its lock and its fetch by OAuth or by basic           *)
(*     credentials;                                                        *)
(*   - the registry's side: the access records of handlers/app.go and the  *)
(*     access controller and token verification of registry/auth/token.    *)
(* The server that issues the tokens is not part of the repository.        *)
(*                                                                         *)
(* Time is a counter; MinLifetime and Leeway stand for the 60 seconds of   *)
(* session.go and of token.go.  A token is issued, received, attached to a *)
(* request and verified at four instants that may lie apart.               *)
(***************************************************************************)
EXTENDS Naturals, FiniteSets

CONSTANTS Callers,       \* goroutines that share one token handler
          NoToken,
          OwnScopes,     \* actions the handler was made for, on its repository
          MinLifetime,   \* minimumTokenLifetimeSeconds
          Leeway,        \* of the verification
          Lifetimes,     \* expires_in of the tokens issued, 0: not given
          MaxSkew,       \* how far the issuer's clock may be ahead
          MaxNow,        \* the last instant
          MaxRequests,   \* requests made
          MaxAuthFaults  \* pings and fetches that fail

Access == {"pull", "push", "delete", "from"}   \* "from": pull on the source of a mount

ASSUME AuthAssumption ==
    /\ NoToken \notin Callers
    /\ OwnScopes \subseteq Access
    /\ MinLifetime \in Nat /\ Leeway \in Nat /\ Lifetimes \subseteq Nat
    /\ MaxSkew \in 0..Leeway

VARIABLES now,
          skew,          \* of the issuer's clock
          user,          \* accesses the credentials are good for
          creds,         \* "none", "basic" or "refresh": what the store holds
          forceOAuth,
          realmAllowed,  \* the challenge's realm belongs to the remote
          challenges,    \* schemes the challenge manager knows for the remote
          tokenCache,    \* the handler's token
          tokenExpiration,
          tokenLock,     \* the goroutine that is in getToken
          ask,           \* the request of each goroutine
          requestsLeft, authFaults

authVars == <<now, skew, user, creds, forceOAuth, realmAllowed, challenges,
              tokenCache, tokenExpiration, tokenLock, ask, requestsLeft, authFaults>>

Kinds == {"GET", "PUT", "DELETE", "MOUNT"}

NoAsk == [at |-> "none", kind |-> "GET", token |-> NoToken, sent |-> 0,
          result |-> "none"]

NoCaller == NoToken

AuthInit ==
    /\ now = 1
    /\ skew \in 0..MaxSkew
    /\ user \in {{"pull"}, {"pull", "push", "from"}, Access}
    /\ creds \in {"none", "basic", "refresh"}
    /\ forceOAuth \in BOOLEAN
    /\ realmAllowed \in BOOLEAN
    /\ challenges = {}
    /\ tokenCache = NoToken
    /\ tokenExpiration = 0
    /\ tokenLock = NoCaller
    /\ ask = [c \in Callers |-> NoAsk]
    /\ requestsLeft = MaxRequests
    /\ authFaults = MaxAuthFaults

Environment == UNCHANGED <<skew, user, forceOAuth, realmAllowed>>

TimePasses ==
    /\ now < MaxNow
    /\ \E c \in Callers : ask[c].at # "none"
    /\ now' = now + 1
    /\ Environment
    /\ UNCHANGED <<creds, challenges, tokenCache, tokenExpiration, tokenLock, ask,
                   requestsLeft, authFaults>>

(***************************************************************************)
(* The accesses a request needs, as the registry computes them.            *)
(***************************************************************************)
appendAccessRecords(kind) ==
    CASE kind = "GET"            -> {"pull"}
      [] kind \in {"PUT", "MOUNT"} -> {"pull", "push"}
      [] kind = "DELETE"         -> {"delete"}

accessRecords(kind) ==
    appendAccessRecords(kind) \cup (IF kind = "MOUNT" THEN {"from"} ELSE {})

(***************************************************************************)
(* The client                                                              *)
(***************************************************************************)
Finish(c, result) == ask' = [ask EXCEPT ![c].at = "none", ![c].result = result]

Start(c, kind) ==
    /\ ask[c].at = "none"
    /\ requestsLeft > 0
    /\ requestsLeft' = requestsLeft - 1
    /\ ask' = [ask EXCEPT ![c] = [NoAsk EXCEPT !.at = "challenge", !.kind = kind]]
    /\ Environment
    /\ UNCHANGED <<now, creds, challenges, tokenCache, tokenExpiration, tokenLock, authFaults>>

\* tryEstablishChallenges: under a lock, ping the remote unless its
\* challenges are known; the answer's challenges replace the old.
EstablishChallenges(c) ==
    /\ ask[c].at = "challenge"
    /\ challenges' = {"bearer"}
    /\ ask' = [ask EXCEPT ![c].at = "modify"]
    /\ Environment
    /\ UNCHANGED <<now, creds, tokenCache, tokenExpiration, tokenLock, requestsLeft, authFaults>>

PingFails(c) ==
    /\ ask[c].at = "challenge"
    /\ challenges = {}
    /\ authFaults > 0
    /\ authFaults' = authFaults - 1
    /\ Finish(c, "failed")
    /\ Environment
    /\ UNCHANGED <<now, creds, challenges, tokenCache, tokenExpiration, tokenLock, requestsLeft>>

\* GetChallenges of the filtering manager: a bearer challenge whose realm is
\* not the remote's is not seen.
GetChallenges == IF realmAllowed THEN challenges ELSE challenges \ {"bearer"}

\* ModifyRequest with no challenge to answer leaves the request as it is.
Unchallenged(c) ==
    /\ ask[c].at = "modify"
    /\ GetChallenges = {}
    /\ ask' = [ask EXCEPT ![c].at = "sent", ![c].sent = now]
    /\ Environment
    /\ UNCHANGED <<now, creds, challenges, tokenCache, tokenExpiration, tokenLock,
                   requestsLeft, authFaults>>

\* getToken: the scopes asked for, and whether one was added for `from'.
scopes(kind)      == OwnScopes \cup (IF kind = "MOUNT" THEN {"from"} ELSE {})
addedScopes(kind) == scopes(kind) # OwnScopes

\* The expiration is the zero time until a token is cached.
NeedsFetch(kind) == now > tokenExpiration \/ addedScopes(kind)

UseCached(c) ==
    /\ ask[c].at = "modify"
    /\ GetChallenges # {}
    /\ tokenLock = NoCaller
    /\ ~NeedsFetch(ask[c].kind)
    /\ ask' = [ask EXCEPT ![c].at = "sent", ![c].token = tokenCache, ![c].sent = now]
    /\ Environment
    /\ UNCHANGED <<now, creds, challenges, tokenCache, tokenExpiration, tokenLock,
                   requestsLeft, authFaults>>

\* fetchToken: by OAuth when there is a refresh token or it is forced, else
\* with basic credentials or none.  OAuth with nothing to grant on refuses.
useOAuth == creds = "refresh" \/ forceOAuth

BeginFetch(c) ==
    /\ ask[c].at = "modify"
    /\ GetChallenges # {}
    /\ tokenLock = NoCaller
    /\ NeedsFetch(ask[c].kind)
    /\ IF useOAuth /\ creds = "none"
         THEN Finish(c, "failed") /\ UNCHANGED tokenLock
         ELSE ask' = [ask EXCEPT ![c].at = "fetch"] /\ tokenLock' = c
    /\ Environment
    /\ UNCHANGED <<now, creds, challenges, tokenCache, tokenExpiration, requestsLeft, authFaults>>

\* The issuer grants what was asked for and the user may do; without
\* credentials, pull.  Its clock may be ahead.
Issue(c, life) ==
    /\ ask[c].at = "fetch"
    /\ LET may == IF creds = "none" THEN {"pull"} ELSE user
           lasts == IF life = 0 THEN MinLifetime ELSE life
       IN  ask' = [ask EXCEPT ![c].at = "issued",
                     ![c].token = [asked |-> scopes(ask[c].kind),
                                   access |-> scopes(ask[c].kind) \cap may,
                                   iat |-> now + skew, exp |-> now + skew + lasts,
                                   life |-> life, issued |-> now, got |-> now]]
    /\ Environment
    /\ UNCHANGED <<now, creds, challenges, tokenCache, tokenExpiration, tokenLock,
                   requestsLeft, authFaults>>

FetchFails(c) ==
    /\ ask[c].at \in {"fetch", "issued"}
    /\ authFaults > 0
    /\ authFaults' = authFaults - 1
    /\ ask' = [ask EXCEPT ![c].at = "none", ![c].token = NoToken, ![c].result = "failed"]
    /\ tokenLock' = NoCaller
    /\ Environment
    /\ UNCHANGED <<now, creds, challenges, tokenCache, tokenExpiration, requestsLeft>>

\* The lifetime is raised to the minimum; without issued_at it counts from
\* the receipt.  A refresh token that came along is kept.
expiration(life, issuedAt) ==
    issuedAt + (IF life < MinLifetime THEN MinLifetime ELSE life)

\* A wrong receipt that keeps the token of a mount too.
Received_CachesAll(c, dated, refresh) ==
    LET token == [ask[c].token EXCEPT !.got = now]
    IN  /\ ask[c].at = "issued"
        /\ refresh => creds # "none"
        /\ ask' = [ask EXCEPT ![c].at = "sent", ![c].sent = now, ![c].token = token]
        /\ tokenLock' = NoCaller
        /\ creds' = IF refresh THEN "refresh" ELSE creds
        /\ tokenCache' = token
        /\ tokenExpiration' = expiration(token.life, IF dated THEN token.iat ELSE now)
        /\ Environment
        /\ UNCHANGED <<now, challenges, requestsLeft, authFaults>>

Received(c, dated, refresh) ==
    LET token == [ask[c].token EXCEPT !.got = now]
    IN  /\ ask[c].at = "issued"
        /\ refresh => creds # "none"
        /\ ask' = [ask EXCEPT ![c].at = "sent", ![c].sent = now, ![c].token = token]
        /\ tokenLock' = NoCaller
        /\ creds' = IF refresh THEN "refresh" ELSE creds
        /\ IF addedScopes(ask[c].kind)
             THEN UNCHANGED <<tokenCache, tokenExpiration>>
             ELSE /\ tokenCache' = token
                  /\ tokenExpiration' =
                        expiration(token.life, IF dated THEN token.iat ELSE now)
        /\ Environment
        /\ UNCHANGED <<now, challenges, requestsLeft, authFaults>>

(***************************************************************************)
(* The registry                                                            *)
(***************************************************************************)
\* A wrong verification without leeway.
Verify_Strict(token) == now <= token.exp /\ now >= token.iat

\* Token.Verify; signature, issuer and audience are taken to be right.
Verify(token) == now <= token.exp + Leeway /\ now + Leeway >= token.iat

\* accessController.Authorized: every access record must be in the token.
Authorized(kind, token) ==
    token # NoToken /\ Verify(token) /\ accessRecords(kind) \subseteq token.access

Arrive(c) ==
    /\ ask[c].at = "sent"
    /\ Finish(c, IF Authorized(ask[c].kind, ask[c].token) THEN "served" ELSE "refused")
    /\ Environment
    /\ UNCHANGED <<now, creds, challenges, tokenCache, tokenExpiration, tokenLock,
                   requestsLeft, authFaults>>

AuthNext ==
    \/ TimePasses
    \/ \E c \in Callers :
          \/ \E kind \in Kinds : Start(c, kind)
          \/ EstablishChallenges(c) \/ PingFails(c)
          \/ Unchallenged(c) \/ UseCached(c) \/ BeginFetch(c)
          \/ \E life \in Lifetimes : Issue(c, life)
          \/ FetchFails(c)
          \/ \E dated, refresh \in BOOLEAN : Received(c, dated, refresh)
          \/ Arrive(c)

AuthSpec == AuthInit /\ [][AuthNext]_authVars

(***************************************************************************)
(* Properties                                                              *)
(***************************************************************************)

\* Only the goroutine in the middle of a fetch holds the token lock, however
\* the fetch ends, and the cached token was asked for with the handler's own
\* scopes: a token with the scope of one mount is not kept for the requests
\* that follow.
CacheOwnScopes ==
    /\ \A c \in Callers : tokenLock = c <=> ask[c].at \in {"fetch", "issued"}
    /\ tokenCache # NoToken => tokenCache.asked = OwnScopes

\* A request that leaves with a token leaves with one that was asked for
\* with every scope the client knows the request needs.
CarriesScopes ==
    \A c \in Callers : ask[c].at = "sent" /\ ask[c].token # NoToken =>
        scopes(ask[c].kind) \subseteq ask[c].token.asked

\* What the registry does for a request, the user may do: a mount reads the
\* source and writes the target, an upload writes, and so on.
ServedOnlyGranted ==
    \A c \in Callers : ask[c].result = "served" =>
        CASE ask[c].kind = "GET"    -> TRUE
          [] ask[c].kind = "PUT"    -> "push" \in user
          [] ask[c].kind = "DELETE" -> "delete" \in user
          [] ask[c].kind = "MOUNT"  -> {"push", "from"} \subseteq user

\* Scopes are kept apart along the whole way of a token: from the handler's cache over the request
\* that carries it to the access it is served for.
ScopesKept == CacheOwnScopes /\ CarriesScopes /\ ServedOnlyGranted

Slack(token) ==
    IF token.life \in 1..MinLifetime THEN Leeway + token.life - MinLifetime ELSE Leeway

\* The minimum lifetime the client assumes and the leeway the registry
\* allows fit: a request that carries a token granting all it needs is
\* refused only when the token's way to the client and the request's way to
\* the registry took longer than the leeway, less what the client added to
\* a lifetime below the minimum.
RefusedOnlyLate ==
    \A c \in Callers :
        LET token == ask[c].token
        IN  ask[c].result = "refused" /\ token # NoToken
              /\ accessRecords(ask[c].kind) \subseteq token.access
            => (now - ask[c].sent) + (token.got - token.issued) > Slack(token)
=============================================================================
