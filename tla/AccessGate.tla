------------------------------- MODULE AccessGate -------------------------------
(***************************************************************************)
(* mcp_server/access.py: who may use the connector, behind a bounded cache *)
(* with a time to live.  is_allowed runs in a worker thread: looking at    *)
(* the cache, reading the record and storing the verdict are three steps,  *)
(* each atomic by itself (a lock, a Firestore read, a lock).               *)
(***************************************************************************)
EXTENDS RateLimiter

CONSTANTS
    Users,              \* the user ids
    Calls,              \* requests to the connector
    CacheTTL,           \* mcp_access_cache_ttl_seconds
    DenialTTL,          \* DENIAL_CACHE_TTL_SECONDS
    MaxCached,          \* MAX_CACHED_UIDS
    MaxLookup,          \* longest a lookup may take
    AllowlistEnabled,
    MaxDecisions        \* model bound: how often the administrator decides

ASSUME GateAssumption ==
    /\ CacheTTL \in Nat /\ DenialTTL \in Nat \ {0}
    /\ MaxCached \in Nat \ {0}
    /\ MaxLookup \in Nat
    /\ AllowlistEnabled \in BOOLEAN
    /\ MaxDecisions \in Nat

VARIABLES
    status,         \* mcpAccess/{uid}.status: "none", "granted" or "revoked"
    decisions,      \* of the administrator so far
    cache,          \* [allowed, expires], by uid
    recent,         \* the cached uids, the one used longest ago first
    lookup,         \* each call's lookup: [at, record, since], the place it
                    \* has reached, what it read and when it began
    revokedAt       \* History: when each user last stopped being granted

gateVars == <<status, decisions, cache, recent, lookup, revokedAt>>
cacheVars == <<cache, recent>>

Caching == CacheTTL > 0
NoLookup == [at |-> "idle", record |-> FALSE, since |-> 0]
Never == -1

GateInit ==
    /\ status \in [Users -> {"none", "granted"}]
    /\ decisions = 0
    /\ cache = <<>> /\ recent = <<>>
    /\ lookup = [c \in Calls |-> NoLookup]
    /\ revokedAt = [u \in Users |-> Never]

Administrator ==
    /\ decisions < MaxDecisions
    /\ decisions' = decisions + 1
    /\ \E u \in Users, s \in {"granted", "revoked"} :
          /\ status[u] # s
          /\ status' = [status EXCEPT ![u] = s]
          /\ revokedAt' = IF status[u] = "granted"
                            THEN [revokedAt EXCEPT ![u] = now] ELSE revokedAt
    /\ UNCHANGED <<cacheVars, lookup>>

(* The places of a lookup: "cache", "read", "store", and its end in        *)
(* "allowed" or "denied".                                                  *)
GateBegins(c) ==
    /\ lookup' = [lookup EXCEPT ![c] =
          [NoLookup EXCEPT !.at = IF AllowlistEnabled THEN "cache" ELSE "allowed",
                           !.since = now]]
    /\ UNCHANGED <<status, decisions, cacheVars, revokedAt>>

(* The caller has the verdict. *)
GateEnds(c) ==
    /\ lookup' = [lookup EXCEPT ![c] = NoLookup]
    /\ UNCHANGED <<status, decisions, cacheVars, revokedAt>>

GoesTo(c, place) == lookup' = [lookup EXCEPT ![c].at = place]
Verdict(allowed) == IF allowed THEN "allowed" ELSE "denied"

Dropped(u) ==
    /\ cache' = [x \in DOMAIN cache \ {u} |-> cache[x]]
    /\ recent' = SelectSeq(recent, LAMBDA x : x # u)

(* _cached: a live entry is the verdict and moves to the end.              *)
CachedVerdictSlides(c, u) ==    \* mutant: a hit renews the entry
    /\ cache' = [cache EXCEPT ![u] = [@ EXCEPT !.expires = now + CacheTTL]]
    /\ recent' = Append(SelectSeq(recent, LAMBDA x : x # u), u)
Hit(c, u) ==
    /\ recent' = Append(SelectSeq(recent, LAMBDA x : x # u), u)
    /\ UNCHANGED cache

LooksInCache(c, u) ==
    /\ lookup[c].at = "cache"
    /\ IF Caching /\ u \in DOMAIN cache
         THEN IF cache[u].expires > now
                THEN /\ GoesTo(c, Verdict(cache[u].allowed))
                     /\ Hit(c, u)
                ELSE /\ GoesTo(c, "read")
                     /\ Dropped(u)
         ELSE /\ GoesTo(c, "read")
              /\ UNCHANGED cacheVars
    /\ UNCHANGED <<status, decisions, revokedAt>>

ReadsRecord(c, u) ==
    /\ lookup[c].at = "read"
    /\ lookup' = [lookup EXCEPT ![c].at = "store", ![c].record = (status[u] = "granted")]
    /\ UNCHANGED <<status, decisions, cacheVars, revokedAt>>

(* Firestore fails: denied, and nothing is cached. *)
ReadFails(c) ==
    /\ lookup[c].at = "read"
    /\ GoesTo(c, "denied")
    /\ UNCHANGED <<status, decisions, cacheVars, revokedAt>>

EntryTTL(allowed) == IF allowed \/ CacheTTL < DenialTTL THEN CacheTTL ELSE DenialTTL

(* _remember: a full table loses its oldest entry even when the uid has    *)
(* one already, and an entry that is replaced keeps its place.             *)
StoresVerdict(c, u) ==
    /\ lookup[c].at = "store"
    /\ GoesTo(c, Verdict(lookup[c].record))
    /\ IF Caching
         THEN LET surplus == Len(recent) - MaxCached + 1
                  gone == {recent[i] : i \in 1 .. surplus}
                  kept == SelectSeq(recent, LAMBDA x : x \notin gone)
              IN  /\ recent' = IF u \in DOMAIN cache \ gone THEN kept ELSE Append(kept, u)
                  /\ cache' = [x \in (DOMAIN cache \ gone) \cup {u} |->
                                 IF x = u THEN [allowed |-> lookup[c].record,
                                                expires |-> now + EntryTTL(lookup[c].record)]
                                 ELSE cache[x]]
         ELSE UNCHANGED cacheVars
    /\ UNCHANGED <<status, decisions, revokedAt>>

LookingUp(c) == lookup[c].at \in {"cache", "read", "store"}
Looks(c, u) == LooksInCache(c, u) \/ ReadsRecord(c, u) \/ ReadFails(c) \/ StoresVerdict(c, u)

=============================================================================
