----------------------------- MODULE ConnectorFront -----------------------------
(***************************************************************************)
(* What a request to the connector passes before it reaches a story or a   *)
(* grant: the throttles and the body limit of mcp_server/throttle.py in    *)
(* front of the mounted authorization server, the checks of                *)
(* tools._authorized_uid in front of every tool, those of the consent page *)
(* (oauth_routes.py), and the client records a token request renews        *)
(* (oauth_provider.get_client over oauth_store.py).                        *)
(*                                                                         *)
(* The authorization server's own handlers are the MCP SDK's, outside      *)
(* src/: they read the body, may begin to answer at any time, and call the *)
(* provider.  One client registration is followed.                         *)
(***************************************************************************)
EXTENDS AccessGate

CONSTANTS
    Everyone,               \* "*", the key of the registration total
    MaxBody,                \* MAX_OAUTH_BODY_BYTES, in chunks
    RefreshTTL,             \* mcp_refresh_token_ttl_seconds
    ConfiguredClientTTL,    \* client_ttl_seconds
    UnusedTTL,              \* unused_client_ttl_seconds
    MaxRun,                 \* longest an authorization request may take
    CollectLag,             \* how long after its expiry Firestore's TTL policy
                            \* leaves a record, at least
    Mixes                   \* model bound: sets of kinds that arrive in one
                            \* behaviour; tools and the authorization server
                            \* share neither a limiter nor a record

AllKinds == {"tool", "consent", "register", "oauth"}
NoClient == -1

ASSUME FrontAssumption ==
    /\ {"tool", "write", "consent", "register", "total", "oauth"} = Limiters
    /\ Everyone \in Subjects
    /\ {MaxBody, RefreshTTL, ConfiguredClientTTL, UnusedTTL} \subseteq Nat \ {0}
    /\ MaxRun \in Nat /\ CollectLag \in Nat
    /\ Users \subseteq Subjects
    /\ Mixes \subseteq SUBSET AllKinds

VARIABLES
    mix,                \* model bound: the kinds of this behaviour
    req,                \* each connection's request, the last one once answered:
                        \* [at, kind, who, began, delivered, starts, renewTo]
    client,             \* mcpOauthClients: when the followed client's record expires
    refreshUntil        \* when the last refresh token minted for it expires

clientVars == <<client, refreshUntil>>
vars == <<now, mix, limiterVars, gateVars, req, clientVars>>

(* delivered: chunks of the body the handler was given; starts: responses  *)
(* begun on the connection; renewTo: the expiry about to be written.       *)
NoRequest == [at |-> "idle", kind |-> "tool", who |-> Everyone, began |-> 0,
              delivered |-> 0, starts |-> 0, renewTo |-> 0]

ClientTTL == IF ConfiguredClientTTL < 2 * RefreshTTL THEN 2 * RefreshTTL
             ELSE ConfiguredClientTTL
FirstClientTTL == IF UnusedTTL < ClientTTL THEN UnusedTTL ELSE ClientTTL

Init ==
    /\ now = 0
    /\ mix \in Mixes
    /\ LimiterInit
    /\ GateInit
    /\ req = [c \in Calls |-> NoRequest]
    /\ client = NoClient
    /\ refreshUntil = 0

Goto(c, place) == req' = [req EXCEPT ![c].at = place]

(* A request that has ended is forgotten, but for the answers it got. *)
Ends(c, starts) == req' = [req EXCEPT ![c] = [NoRequest EXCEPT !.at = "end", !.starts = starts]]
Answers(c) == Ends(c, req[c].starts + 1)
AnswersAtOnce(c) == Ends(c, 1)
Finishes(c) == Ends(c, IF req[c].starts > 0 THEN req[c].starts ELSE 1)

Arrives(c, k, u, place) ==
    /\ req[c].at \in {"idle", "end"}
    /\ k \in mix
    /\ IF place = "end" THEN AnswersAtOnce(c)
       ELSE req' = [req EXCEPT ![c] = [NoRequest EXCEPT !.at = place, !.kind = k,
                                                        !.who = u, !.began = now]]

-----------------------------------------------------------------------------
(* Tools: _authorized_uid.                                                 *)

ToolCallArrives(c, u) ==
    /\ Arrives(c, "tool", u, IF Admits("tool", u) THEN "gate" ELSE "end")
    /\ Allow("tool", u)
    /\ IF Admits("tool", u) THEN GateBegins(c) ELSE UNCHANGED gateVars
    /\ UNCHANGED <<now, clientVars>>

LooksUp(c) ==
    /\ req[c].at = "gate"
    /\ Looks(c, req[c].who)
    /\ UNCHANGED <<now, limiterVars, req, clientVars>>

(* The scope is checked after the gate, and of a tool that writes the      *)
(* write bucket last; then the tool does its work (the writes: McpWrites)  *)
(* and answers.                                                            *)
ToolCallJudged(c) ==
    /\ req[c].at = "gate" /\ req[c].kind = "tool"
    /\ lookup[c].at \in {"allowed", "denied"}
    /\ GateEnds(c)
    /\ \/ UNCHANGED limiterVars
       \/ lookup[c].at = "allowed" /\ Allow("write", req[c].who)
    /\ Answers(c)
    /\ UNCHANGED <<now, clientVars>>

-----------------------------------------------------------------------------
(* The consent page: POST /oauth/complete with approve.  The limiter goes  *)
(* by the address, the gate by the user of the id token, which a thread    *)
(* verifies first; complete_authorization is OAuthGrants'.                 *)

ConsentArrives(c, u) ==
    /\ Arrives(c, "consent", u, IF Admits("consent", u) THEN "verify" ELSE "end")
    /\ Allow("consent", u)
    /\ UNCHANGED <<now, gateVars, clientVars>>

ConsentVerified(c) ==
    /\ req[c].at = "verify"
    /\ \/ /\ GateBegins(c)
          /\ \E u \in Users : req' = [req EXCEPT ![c].at = "gate", ![c].who = u]
       \/ Answers(c) /\ UNCHANGED gateVars
    /\ UNCHANGED <<now, limiterVars, clientVars>>

ConsentJudged(c) ==
    /\ req[c].at = "gate" /\ req[c].kind = "consent"
    /\ lookup[c].at \in {"allowed", "denied"}
    /\ GateEnds(c)
    /\ Answers(c)
    /\ UNCHANGED <<now, limiterVars, clientVars>>

-----------------------------------------------------------------------------
(* OAuthThrottleMiddleware.                                                *)

(* /register has a total besides its limit per address, asked second: a    *)
(* request it turns away has spent a token of its address.  A declared     *)
(* length over the limit is refused after the throttles.                   *)
OAuthArrives(c, k, u, tooLong) ==
    /\ k \in {"register", "oauth"}
    /\ Arrives(c, k, u, IF ~Admits(k, u) THEN "end"
                        ELSE IF k = "register" THEN "total"
                        ELSE IF tooLong THEN "end" ELSE "body")
    /\ Allow(k, u)
    /\ UNCHANGED <<now, gateVars, clientVars>>

RegistrationArrives(c, tooLong) ==
    /\ req[c].at = "total"
    /\ IF ~Admits("total", Everyone) \/ tooLong THEN Answers(c) ELSE Goto(c, "body")
    /\ Allow("total", Everyone)
    /\ UNCHANGED <<now, gateVars, clientVars>>

(* limited_receive hands on what stays within the limit. *)
BodyArrives(c) ==
    /\ req[c].at = "body"
    /\ req[c].delivered < MaxBody
    /\ req' = [req EXCEPT ![c].delivered = @ + 1]
    /\ UNCHANGED <<now, limiterVars, gateVars, clientVars>>

(* The handler begins to answer before it has read all. *)
HandlerStartsEarly(c) ==
    /\ req[c].at = "body"
    /\ req[c].starts = 0
    /\ req' = [req EXCEPT ![c].starts = 1]
    /\ UNCHANGED <<now, limiterVars, gateVars, clientVars>>

(* _BodyTooLarge goes through the handler, which may have answered or does *)
(* so now; the middleware answers 413 only if nothing was begun.           *)
AnswersTooLarge(c) == Answers(c)    \* mutant: whether or not an answer was begun
TooLarge(c) == Finishes(c)

BodyExceeds(c) ==
    /\ req[c].at = "body"
    /\ req[c].delivered = MaxBody
    /\ TooLarge(c)
    /\ UNCHANGED <<now, limiterVars, gateVars, clientVars>>

BodyRead(c) ==
    /\ req[c].at = "body"
    /\ Goto(c, req[c].kind)
    /\ UNCHANGED <<now, limiterVars, gateVars, clientVars>>

-----------------------------------------------------------------------------
(* The client's record.  Every other registration makes another client.    *)

(* register_client, or a registration that does not validate. *)
Registers(c) ==
    /\ req[c].at = "register"
    /\ client' \in {client} \cup (IF client = NoClient /\ refreshUntil = 0
                                    THEN {now + FirstClientTTL} ELSE {})
    /\ Finishes(c)
    /\ UNCHANGED <<now, limiterVars, gateVars, refreshUntil>>

RenewalNeverDue(left) == left <= 0      \* mutant: renewed when it has expired
RenewalDue(left) == 2 * left <= ClientTTL

ClientReads(c) ==
    /\ req[c].at = "oauth"
    /\ IF client = NoClient \/ client <= now THEN Finishes(c)
       ELSE IF RenewalDue(client - now)
         THEN req' = [req EXCEPT ![c].at = "renew", ![c].renewTo = now + ClientTTL]
         ELSE Goto(c, "grant")
    /\ UNCHANGED <<now, limiterVars, gateVars, clientVars>>

(* An update: a record that has gone meanwhile stays gone. *)
ClientRenews(c) ==
    /\ req[c].at = "renew"
    /\ client' = IF client = NoClient THEN NoClient ELSE req[c].renewTo
    /\ Goto(c, "grant")
    /\ UNCHANGED <<now, limiterVars, gateVars, refreshUntil>>

(* Of the requests that reach the provider some mint a refresh token. *)
Grants(c) ==
    /\ req[c].at = "grant"
    /\ refreshUntil' \in {refreshUntil, now + RefreshTTL}
    /\ Finishes(c)
    /\ UNCHANGED <<now, limiterVars, gateVars, client>>

(* The TTL policy of Firestore, in its own time.  With no lag a record     *)
(* could go between a request's read and its renewal, and a token be       *)
(* minted for a client that is no more: get_client passes over that.       *)
ClientCollected ==
    /\ client # NoClient /\ client + CollectLag <= now
    /\ client' = NoClient
    /\ UNCHANGED <<now, limiterVars, gateVars, req, refreshUntil>>

-----------------------------------------------------------------------------
Decides ==
    /\ Administrator
    /\ UNCHANGED <<now, limiterVars, req, clientVars>>

Underway(c) == req[c].at \in {"total", "body", "register", "oauth", "renew", "grant"}

Tick ==
    /\ now < MaxTime
    /\ \A c \in Calls : /\ LookingUp(c) => now < lookup[c].since + MaxLookup
                        /\ Underway(c) => now < req[c].began + MaxRun
    /\ now' = now + 1
    /\ UNCHANGED <<limiterVars, gateVars, req, clientVars>>

Begins(c) ==
    \E u \in Subjects \ {Everyone} : \E k \in AllKinds :
        \/ k = "tool" /\ u \in Users /\ ToolCallArrives(c, u)
        \/ k = "consent" /\ ConsentArrives(c, u)
        \/ \E tooLong \in BOOLEAN : OAuthArrives(c, k, u, tooLong)

Step(c) ==
    \/ LooksUp(c) \/ ToolCallJudged(c)
    \/ ConsentVerified(c) \/ ConsentJudged(c)
    \/ (\E tooLong \in BOOLEAN : RegistrationArrives(c, tooLong))
    \/ BodyArrives(c) \/ HandlerStartsEarly(c) \/ BodyExceeds(c) \/ BodyRead(c)
    \/ Registers(c) \/ ClientReads(c) \/ ClientRenews(c) \/ Grants(c)

Next ==
    /\ (\E c \in Calls : Begins(c) \/ Step(c)) \/ ClientCollected \/ Decides \/ Tick
    /\ UNCHANGED mix

Spec == Init /\ [][Next]_vars

-----------------------------------------------------------------------------
(* Properties; BurstsSpaced is RateLimiter's.                              *)

(* Whoever is let through is granted, or was until less than the cache's   *)
(* life and one lookup ago: "revoking someone" does "actually disconnect   *)
(* them" (tools.py), however the lookups of several calls, their caching   *)
(* and the administrator's decisions interleave.                           *)
LetIn(c) == req[c].at = "gate" /\ lookup[c].at # "allowed" /\ lookup'[c].at = "allowed"
StillFresh(u) ==
    /\ revokedAt[u] # Never
    /\ \/ now < revokedAt[u] + CacheTTL + MaxLookup
       \/ now <= revokedAt[u] + MaxLookup
RevocationLands ==
    [][\A c \in Calls :
          LetIn(c) => status[req[c].who] = "granted" \/ StillFresh(req[c].who)]_vars

(* A connection gets exactly one answer, also when the body turns out too  *)
(* large after the handler began one.                                      *)
AnsweredOnce ==
    \A c \in Calls : req[c].starts <= 1 /\ (req[c].at = "end" => req[c].starts = 1)

(* "A client record must outlive any refresh token issued to it"           *)
(* (oauth_provider.py), though it is renewed only past half its life and   *)
(* by whichever request reads it.                                          *)
ClientOutlivesTokens == refreshUntil > now => client >= refreshUntil
=============================================================================
