-------------------------- MODULE ConnectorFrontProofs --------------------------
(***************************************************************************)
(* Proofs about ConnectorFront, for every value of its constants.          *)
(*                                                                         *)
(* Accounts: what a bucket holds and what it gave since a request it       *)
(* admitted is at most a full bucket and what has flowed back since.  An   *)
(* admission needs a token, so what the bucket held before cannot have     *)
(* been negative, and the spacing of bursts follows.                       *)
(* Exchanges: of each connection, how many answers it may have had at the  *)
(* place its request has reached.                                          *)
(* GateInv: a verdict under way or in the cache is about someone granted,  *)
(* or granted since the lookup that found it began.                        *)
(* ClientInv: a request about to renew the client's record finds it alive, *)
(* and one about to mint a token has a record that outlives it.            *)
(***************************************************************************)
EXTENDS ConnectorFront, SequenceTheorems, TLAPS

-----------------------------------------------------------------------------
(* Arithmetic the solver does not do by itself.                            *)

LEMMA Distributes ==
    ASSUME NEW m \in Int, NEW a \in Int, NEW b \in Int
    PROVE  m * (a - b) = m * a - m * b
    BY SMT

LEMMA AtLeastOnce ==
    ASSUME NEW m \in Int, NEW n \in Nat, m > 0
    PROVE  m * n \in Int /\ m * n >= n
    BY SMT

LEMMA NotNegative ==
    ASSUME NEW m \in Int, NEW n \in Nat, m > 0
    PROVE  m * n \in Int /\ m * n >= 0
    BY SMT

LEMMA Flows ==
    ASSUME NEW r \in Int, NEW b \in Int, NEW x \in Int, NEW f \in Int,
           NEW p \in Int, NEW q \in Int, r <= b + p, b + x <= f + q
    PROVE  r + x <= f + (p + q)
    BY SMT

-----------------------------------------------------------------------------
(* The buckets of one limiter.                                             *)

(* Bucket b of a key that was admitted at the times in h. *)
Account(l, b, h) ==
    /\ b.tokens \in Int /\ b.tokens >= 0 /\ b.tokens <= Full(l)
    /\ b.at \in Int
    /\ h \in Seq(Int)
    /\ \A i \in DOMAIN h :
          b.tokens + (Len(h) - i + 1) * Minute <= Full(l) + MaxPerMinute[l] * (b.at - h[i])

Spaced(l, h) ==
    \A i, j \in DOMAIN h :
        i <= j => (j - i + 1) * Minute <= Full(l) + MaxPerMinute[l] * (h[j] - h[i])

Accounts ==
    /\ now \in Int
    /\ buckets = [l \in Limiters |-> buckets[l]]
    /\ admits = [l \in Limiters |-> [k \in Subjects |-> admits[l][k]]]
    /\ \A l \in Limiters : \A k \in DOMAIN buckets[l] :
          /\ k \in Subjects
          /\ ~Disabled(l)
          /\ buckets[l][k].at <= now
          /\ Account(l, buckets[l][k], admits[l][k])
          /\ Spaced(l, admits[l][k])

(* A full bucket, less one token, has admitted one request. *)
LEMMA AccountOpens ==
    ASSUME LimiterAssumption, NEW l \in Limiters, ~Disabled(l), now \in Int
    PROVE  /\ Account(l, [tokens |-> Full(l) - Minute, at |-> now], <<now>>)
           /\ Spaced(l, <<now>>)
<1>1. MaxPerMinute[l] \in Int /\ MaxPerMinute[l] > 0 /\ Minute \in Nat
    BY DEF LimiterAssumption, Disabled
<1>2. Full(l) \in Int /\ Full(l) >= Minute
    BY <1>1, AtLeastOnce DEF Full
<1>3. MaxPerMinute[l] * (now - now) = 0
    BY <1>1, SMT
<1>4. <<now>> \in Seq(Int) /\ Len(<<now>>) = 1 /\ DOMAIN <<now>> = {1} /\ <<now>>[1] = now
    OBVIOUS
<1> QED
    BY <1>1, <1>2, <1>3, <1>4 DEF Account, Spaced

(* The refill, whether or not it fills the bucket, keeps the account. *)
LEMMA AccountRefills ==
    ASSUME LimiterAssumption, Accounts,
           NEW l \in Limiters, NEW k \in DOMAIN buckets[l]
    PROVE  /\ Account(l, [tokens |-> Refilled(l, k), at |-> now], admits[l][k])
           /\ Spaced(l, admits[l][k])
<1> DEFINE b == buckets[l][k]
           h == admits[l][k]
           m == MaxPerMinute[l]
<1>1. m \in Int /\ m > 0 /\ Minute \in Nat
    <2>1. ~Disabled(l)
        BY DEF Accounts
    <2> QED BY <2>1 DEF LimiterAssumption, Disabled
<1>2. Full(l) \in Int
    BY <1>1 DEF Full
<1>3. Account(l, b, h) /\ Spaced(l, h) /\ now \in Int
    BY DEF Accounts
<1>4. b.tokens \in Int /\ b.tokens >= 0 /\ b.tokens <= Full(l) /\ b.at \in Int /\ b.at <= now
    BY <1>3 DEF Account, Accounts
<1>5. (now - b.at) * m \in Int /\ (now - b.at) * m >= 0 /\ (now - b.at) * m = m * (now - b.at)
    BY <1>1, <1>3, <1>4, SMT
<1>6. /\ Refilled(l, k) \in Int /\ Refilled(l, k) >= 0 /\ Refilled(l, k) <= Full(l)
      /\ Refilled(l, k) <= b.tokens + (now - b.at) * m
    <2> HIDE DEF m
    <2> QED BY <1>2, <1>4, <1>5 DEF Refilled, m
<1>7. ASSUME NEW i \in DOMAIN h
      PROVE  Refilled(l, k) + (Len(h) - i + 1) * Minute <= Full(l) + m * (now - h[i])
    <2>1. h[i] \in Int /\ i \in Int /\ Len(h) \in Int
        BY <1>3, <1>7 DEF Account
    <2>2. m * (now - h[i]) = m * (now - b.at) + m * (b.at - h[i])
        <3>1. m * (now - h[i]) = m * now - m * h[i]
            BY <1>1, <1>3, <2>1, Distributes
        <3>2. m * (now - b.at) = m * now - m * b.at
            BY <1>1, <1>3, <1>4, Distributes
        <3>3. m * (b.at - h[i]) = m * b.at - m * h[i]
            BY <1>1, <1>4, <2>1, Distributes
        <3>4. m * now \in Int /\ m * b.at \in Int /\ m * h[i] \in Int
            BY <1>1, <1>3, <1>4, <2>1
        <3> HIDE DEF m, b, h
        <3> QED BY <3>1, <3>2, <3>3, <3>4
    <2>3. b.tokens + (Len(h) - i + 1) * Minute <= Full(l) + m * (b.at - h[i])
        BY <1>3, <1>7 DEF Account
    <2>4. (Len(h) - i + 1) * Minute \in Int /\ m * (b.at - h[i]) \in Int
        BY <1>1, <1>4, <2>1
    <2>5. Refilled(l, k) <= b.tokens + m * (now - b.at) /\ m * (now - b.at) \in Int
        BY <1>5, <1>6
    <2> HIDE DEF m, b, h
    <2>6. Refilled(l, k) + (Len(h) - i + 1) * Minute
            <= Full(l) + (m * (now - b.at) + m * (b.at - h[i]))
        BY <1>2, <1>4, <1>6, <2>3, <2>4, <2>5, Flows
    <2> QED BY <2>2, <2>6
<1> QED
    BY <1>3, <1>6, <1>7 DEF Account

(* A token is spent on an admission. *)
LEMMA AccountSpends ==
    ASSUME LimiterAssumption, NEW l \in Limiters, ~Disabled(l), now \in Int,
           NEW t \in Int, NEW h,
           Account(l, [tokens |-> t, at |-> now], h), Spaced(l, h), t >= Minute
    PROVE  /\ Account(l, [tokens |-> t - Minute, at |-> now], Append(h, now))
           /\ Spaced(l, Append(h, now))
<1> DEFINE g == Append(h, now)
           m == MaxPerMinute[l]
<1>1. m \in Int /\ m > 0 /\ Minute \in Nat
    BY DEF LimiterAssumption, Disabled
<1>2. Full(l) \in Int
    BY <1>1 DEF Full
<1>3. h \in Seq(Int) /\ t >= 0 /\ t <= Full(l)
    BY DEF Account
<1>4. /\ g \in Seq(Int) /\ Len(g) = Len(h) + 1 /\ Len(h) \in Nat
      /\ DOMAIN g = 1 .. Len(h) + 1 /\ DOMAIN h = 1 .. Len(h)
      /\ g[Len(h) + 1] = now /\ \A i \in DOMAIN h : g[i] = h[i]
    BY <1>3
<1>5. m * (now - now) = 0
    BY <1>1, SMT
<1>6. ASSUME NEW i \in DOMAIN g
      PROVE  (t - Minute) + (Len(g) - i + 1) * Minute <= Full(l) + m * (now - g[i])
    <2>1. CASE i = Len(h) + 1
        <3>1. (Len(g) - i + 1) * Minute = Minute
            BY <1>1, <1>4, <2>1
        <3>2. m * (now - g[i]) = 0
            BY <1>4, <1>5, <2>1
        <3> HIDE DEF g, m
        <3> QED BY <1>1, <1>2, <1>3, <3>1, <3>2
    <2>2. CASE i # Len(h) + 1
        <3>1. i \in DOMAIN h /\ g[i] = h[i] /\ h[i] \in Int /\ i \in Int
            BY <1>3, <1>4, <1>6, <2>2
        <3>2. t + (Len(h) - i + 1) * Minute <= Full(l) + m * (now - h[i])
            BY <3>1 DEF Account
        <3>3. (Len(g) - i + 1) * Minute = (Len(h) - i + 1) * Minute + Minute
            BY <1>1, <1>4, <3>1, SMT
        <3>4. (Len(h) - i + 1) * Minute \in Int /\ m * (now - h[i]) \in Int
            BY <1>1, <1>4, <3>1
        <3> HIDE DEF g, m
        <3> QED BY <1>1, <1>2, <3>1, <3>2, <3>3, <3>4
    <2> QED BY <2>1, <2>2
<1>7. ASSUME NEW i \in DOMAIN g, NEW j \in DOMAIN g, i <= j
      PROVE  (j - i + 1) * Minute <= Full(l) + m * (g[j] - g[i])
    <2>1. CASE j = Len(h) + 1
        <3>1. (t - Minute) + (j - i + 1) * Minute <= Full(l) + m * (g[j] - g[i])
            BY <1>4, <1>6, <2>1
        <3>2. i \in Int /\ j \in Int /\ g[i] \in Int /\ g[j] \in Int
            BY <1>4, <1>7
        <3>3. (j - i + 1) * Minute \in Int /\ m * (g[j] - g[i]) \in Int
            BY <1>1, <3>2
        <3> HIDE DEF g, m
        <3> QED BY <1>1, <1>2, <3>1, <3>3
    <2>2. CASE j # Len(h) + 1
        <3>1. i \in DOMAIN h /\ j \in DOMAIN h
            BY <1>4, <1>7, <2>2
        <3> QED BY <1>4, <1>7, <3>1 DEF Spaced
    <2> QED BY <2>1, <2>2
<1>8. (t - Minute) \in Int /\ t - Minute >= 0 /\ t - Minute <= Full(l)
    <2> HIDE DEF m
    <2> QED BY <1>1, <1>2, <1>3
<1> QED
    BY <1>4, <1>6, <1>7, <1>8 DEF Account, Spaced
(* allow() keeps every account: of the key, of the keys it evicts, and of  *)
(* all the others.                                                         *)
LEMMA AllowKeepsAccounts ==
    ASSUME LimiterAssumption, Accounts, UNCHANGED now,
           NEW l \in Limiters, NEW k \in Subjects, Allow(l, k)
    PROVE  Accounts'
<1>1. CASE Disabled(l)
    BY <1>1 DEF Allow, limiterVars, Accounts
<1>2. CASE ~Disabled(l) /\ Tracked(l, k)
    <2>1. Touches(l, k)
        BY <1>2 DEF Allow
    <2>2. k \in DOMAIN buckets[l]
        BY <1>2 DEF Tracked
    <2> DEFINE r == Refilled(l, k)
               spent == r - (IF r >= Minute THEN Minute ELSE 0)
    <2>3. Account(l, [tokens |-> r, at |-> now], admits[l][k]) /\ Spaced(l, admits[l][k])
        BY <2>2, AccountRefills
    <2>4. r \in Int /\ now \in Int /\ Minute \in Int
        BY <2>3 DEF Account, Accounts, LimiterAssumption
    <2>5. /\ buckets' = [buckets EXCEPT ![l][k] = [tokens |-> spent, at |-> now]]
          /\ admits' = IF r >= Minute THEN [admits EXCEPT ![l][k] = Append(@, now)] ELSE admits
        BY <2>1 DEF Touches
    <2> HIDE DEF r, spent
    <2>6. /\ buckets' = [x \in Limiters |-> buckets'[x]]
          /\ admits' = [x \in Limiters |-> [y \in Subjects |-> admits'[x][y]]]
        BY <2>5 DEF Accounts
    <2>7. /\ Account(l, buckets'[l][k], admits'[l][k])
          /\ Spaced(l, admits'[l][k])
          /\ buckets'[l][k].at <= now
        <3>1. buckets'[l][k] = [tokens |-> spent, at |-> now]
            BY <2>2, <2>5 DEF Accounts
        <3>2. CASE r >= Minute
            <4>1. admits'[l][k] = Append(admits[l][k], now) /\ spent = r - Minute
                BY <2>5, <3>2 DEF Accounts, spent
            <4> QED BY <1>2, <2>3, <2>4, <3>1, <3>2, <4>1, AccountSpends
        <3>3. CASE ~(r >= Minute)
            <4>1. admits' = admits /\ spent = r
                BY <2>4, <2>5, <3>3 DEF spent
            <4> QED BY <2>3, <2>4, <3>1, <4>1
        <3> QED BY <3>2, <3>3
    <2>8. ASSUME NEW x \in Limiters, NEW y \in DOMAIN buckets'[x]
          PROVE  /\ y \in Subjects /\ ~Disabled(x) /\ buckets'[x][y].at <= now
                 /\ Account(x, buckets'[x][y], admits'[x][y])
                 /\ Spaced(x, admits'[x][y])
        <3>1. CASE x = l /\ y = k
            BY <1>2, <2>7, <3>1
        <3>2. CASE ~(x = l /\ y = k)
            <4>1. y \in DOMAIN buckets[x] /\ buckets'[x][y] = buckets[x][y]
                BY <2>5, <2>8, <3>2 DEF Accounts
            <4>2. admits'[x][y] = admits[x][y]
                BY <2>5, <3>2, <4>1 DEF Accounts
            <4> QED BY <4>1, <4>2 DEF Accounts
        <3> QED BY <3>1, <3>2
    <2> QED BY <2>4, <2>6, <2>8 DEF Accounts
<1>3. CASE ~Disabled(l) /\ ~Tracked(l, k)
    <2>1. Inserts(l, k)
        BY <1>3 DEF Allow
    <2> DEFINE kept == DOMAIN buckets[l] \ Evicted(l)
               opened == [tokens |-> Full(l) - Minute, at |-> now]
    <2>2. /\ buckets' = [buckets EXCEPT ![l] =
                 [x \in kept \cup {k} |-> IF x = k THEN opened ELSE buckets[l][x]]]
          /\ admits' = [admits EXCEPT ![l] =
                 [x \in Subjects |-> IF x = k THEN <<now>>
                                     ELSE IF x \in Evicted(l) THEN <<>> ELSE admits[l][x]]]
        BY <2>1 DEF Inserts
    <2>3. Account(l, opened, <<now>>) /\ Spaced(l, <<now>>) /\ now \in Int
        BY <1>3, AccountOpens DEF Accounts
    <2> HIDE DEF opened
    <2>4. /\ buckets' = [x \in Limiters |-> buckets'[x]]
          /\ admits' = [x \in Limiters |-> [y \in Subjects |-> admits'[x][y]]]
        BY <2>2 DEF Accounts
    <2>5. ASSUME NEW x \in Limiters, NEW y \in DOMAIN buckets'[x]
          PROVE  /\ y \in Subjects /\ ~Disabled(x) /\ buckets'[x][y].at <= now
                 /\ Account(x, buckets'[x][y], admits'[x][y])
                 /\ Spaced(x, admits'[x][y])
        <3>1. CASE x = l /\ y = k
            <4>1. buckets'[x][y] = opened /\ admits'[x][y] = <<now>>
                BY <2>2, <3>1 DEF Accounts
            <4> QED BY <1>3, <2>3, <3>1, <4>1 DEF opened
        <3>2. CASE x = l /\ y # k
            <4>1. y \in DOMAIN buckets[l] /\ y \notin Evicted(l)
                BY <2>2, <2>5, <3>2 DEF Accounts
            <4>2. buckets'[x][y] = buckets[x][y] /\ admits'[x][y] = admits[x][y]
                BY <2>2, <3>2, <4>1 DEF Accounts
            <4> QED BY <3>2, <4>1, <4>2 DEF Accounts
        <3>3. CASE x # l
            <4>1. buckets'[x] = buckets[x] /\ admits'[x] = admits[x]
                BY <2>2, <3>3 DEF Accounts
            <4> QED BY <2>5, <4>1 DEF Accounts
        <3> QED BY <3>1, <3>2, <3>3
    <2> QED BY <2>3, <2>4, <2>5 DEF Accounts
<1> QED
    BY <1>1, <1>2, <1>3

LEMMA WaitingKeepsAccounts ==
    ASSUME Accounts, UNCHANGED limiterVars, now' \in Int, now' >= now
    PROVE  Accounts'
<1>1. buckets' = buckets /\ admits' = admits
    BY DEF limiterVars
<1>2. ASSUME NEW l \in Limiters, NEW k \in DOMAIN buckets[l]
      PROVE  buckets[l][k].at <= now'
    <2>1. now \in Int /\ buckets[l][k].at \in Int /\ buckets[l][k].at <= now
        <3>1. Account(l, buckets[l][k], admits[l][k]) /\ buckets[l][k].at <= now /\ now \in Int
            BY <1>2 DEF Accounts
        <3> QED BY <3>1 DEF Account
    <2> QED BY <2>1
<1> QED
    BY <1>1, <1>2 DEF Accounts

-----------------------------------------------------------------------------
(* The answers of a connection.                                            *)

Places == {"idle", "gate", "verify", "total", "body", "register", "oauth",
           "renew", "grant", "end"}

Requests == [at : Places, kind : AllKinds, who : Subjects, began : Int,
             delivered : Int, starts : {0, 1}, renewTo : Int]

Unanswered == {"idle", "gate", "verify", "total"}

(* Whether an answer has begun, as far as the request's place tells; and   *)
(* the middleware has only requests to the authorization server.           *)
Exchange == {r \in Requests :
    /\ r.at \in Unanswered => r.starts = 0
    /\ r.at = "end" => r.starts = 1
    /\ r.at \in {"total", "body"} => r.kind \in {"register", "oauth"}}

Exchanges == req \in [Calls -> Exchange]

LEMMA ExchangeTaken ==
    ASSUME Exchanges, NEW c \in Calls, NEW r \in Exchange,
           req' = [req EXCEPT ![c] = r]
    PROVE  Exchanges'
    BY DEF Exchanges

LEMMA GotoKeepsExchanges ==
    ASSUME Exchanges, NEW c \in Calls, NEW place \in Places \ {"end"}, Goto(c, place),
           place \in Unanswered => req[c].starts = 0,
           place \in {"total", "body"} => req[c].kind \in {"register", "oauth"}
    PROVE  Exchanges'
<1>1. [req[c] EXCEPT !.at = place] \in Exchange
    BY DEF Exchanges, Exchange, Requests
<1> QED
    BY <1>1, ExchangeTaken DEF Goto

LEMMA EndsKeepsExchanges ==
    ASSUME FrontAssumption, Exchanges, NEW c \in Calls, Ends(c, 1)
    PROVE  Exchanges'
<1> DEFINE r == [NoRequest EXCEPT !.at = "end", !.starts = 1]
<1>1. r \in [at : {"end"}, kind : {"tool"}, who : {Everyone}, began : {0},
             delivered : {0}, starts : {1}, renewTo : {0}]
    BY DEF NoRequest
<1> HIDE DEF r
<1>2. r \in Exchange
    BY <1>1 DEF Exchange, Requests, Places, AllKinds, FrontAssumption, Unanswered
<1> QED
    BY <1>2, ExchangeTaken DEF Ends, r

LEMMA AnswersKeepsExchanges ==
    ASSUME FrontAssumption, Exchanges, NEW c \in Calls, Answers(c),
           req[c].at \in Unanswered
    PROVE  Exchanges'
<1>1. req[c].starts = 0
    BY DEF Exchanges, Exchange
<1> QED
    BY <1>1, EndsKeepsExchanges DEF Answers

LEMMA FinishesKeepsExchanges ==
    ASSUME FrontAssumption, Exchanges, NEW c \in Calls, Finishes(c)
    PROVE  Exchanges'
<1>1. req[c].starts \in {0, 1}
    BY DEF Exchanges, Exchange, Requests
<1> QED
    BY <1>1, EndsKeepsExchanges DEF Finishes

LEMMA ArrivesKeepsExchanges ==
    ASSUME FrontAssumption, Exchanges, now \in Int, NEW c \in Calls, NEW k \in AllKinds,
           NEW u \in Subjects, NEW place \in {"gate", "verify", "total", "body", "end"},
           Arrives(c, k, u, place),
           place \in {"total", "body"} => k \in {"register", "oauth"}
    PROVE  Exchanges'
<1>1. CASE place = "end"
    BY <1>1, EndsKeepsExchanges DEF Arrives, AnswersAtOnce
<1>2. CASE place # "end"
    <2> DEFINE r == [NoRequest EXCEPT !.at = place, !.kind = k, !.who = u, !.began = now]
    <2>1. r \in [at : {place}, kind : {k}, who : {u}, began : {now},
                 delivered : {0}, starts : {0}, renewTo : {0}]
        BY DEF NoRequest
    <2> HIDE DEF r
    <2>2. r \in Exchange
        BY <1>2, <2>1 DEF Exchange, Requests, Places, Unanswered
    <2> QED BY <1>2, <2>2, ExchangeTaken DEF Arrives, r
<1> QED
    BY <1>1, <1>2
-----------------------------------------------------------------------------
(* The invariant, and its steps.                                           *)

FrontInv == Accounts /\ Exchanges

LEMMA FrontInvInit ==
    ASSUME FrontAssumption, Init
    PROVE  FrontInv
<1>1. Accounts
    BY DEF Init, LimiterInit, Accounts
<1>2. NoRequest \in Exchange
    BY DEF Exchange, Requests, NoRequest, Places, AllKinds, FrontAssumption
<1>3. Exchanges
    BY <1>2 DEF Init, Exchanges
<1> QED
    BY <1>1, <1>3 DEF FrontInv

LEMMA WhoAsks ==
    ASSUME Exchanges, NEW c \in Calls
    PROVE  /\ req[c].who \in Subjects /\ req[c].kind \in AllKinds
           /\ req[c].starts \in {0, 1} /\ req[c].delivered \in Int
           /\ req[c].at \in Unanswered => req[c].starts = 0
           /\ req[c].at \in {"total", "body"} => req[c].kind \in {"register", "oauth"}
    BY DEF Exchanges, Exchange, Requests

LEMMA LimitersKnown ==
    ASSUME FrontAssumption
    PROVE  /\ {"tool", "write", "consent", "register", "total", "oauth"} \subseteq Limiters
           /\ Everyone \in Subjects /\ Users \subseteq Subjects
           /\ ClientTTL \in Int /\ FirstClientTTL \in Int
    BY DEF FrontAssumption, ClientTTL, FirstClientTTL

(* Steps that go to no limiter. *)
LEMMA ElsewhereKeepsAccounts ==
    ASSUME Accounts, UNCHANGED <<now, limiterVars>>
    PROVE  Accounts'
<1>1. now \in Int
    BY DEF Accounts
<1> QED
    BY <1>1, WaitingKeepsAccounts

LEMMA BeginsKeepsInv ==
    ASSUME LimiterAssumption, FrontAssumption, FrontInv, NEW c \in Calls, Begins(c)
    PROVE  FrontInv'
<1>1. PICK u \in Subjects \ {Everyone}, k \in AllKinds :
         \/ k = "tool" /\ u \in Users /\ ToolCallArrives(c, u)
         \/ k = "consent" /\ ConsentArrives(c, u)
         \/ \E tooLong \in BOOLEAN : OAuthArrives(c, k, u, tooLong)
    BY DEF Begins
<1>2. Accounts /\ Exchanges /\ now \in Int
    BY DEF FrontInv, Accounts
<1>3. CASE k = "tool" /\ ToolCallArrives(c, u)
    <2>1. Accounts'
        BY <1>2, <1>3, LimitersKnown, AllowKeepsAccounts DEF ToolCallArrives
    <2>2. Exchanges'
        BY <1>2, <1>3, ArrivesKeepsExchanges DEF ToolCallArrives, AllKinds
    <2> QED BY <2>1, <2>2 DEF FrontInv
<1>4. CASE k = "consent" /\ ConsentArrives(c, u)
    <2>1. Accounts'
        BY <1>2, <1>4, LimitersKnown, AllowKeepsAccounts DEF ConsentArrives
    <2>2. Exchanges'
        BY <1>2, <1>4, ArrivesKeepsExchanges DEF ConsentArrives, AllKinds
    <2> QED BY <2>1, <2>2 DEF FrontInv
<1>5. ASSUME NEW tooLong \in BOOLEAN, OAuthArrives(c, k, u, tooLong)
      PROVE  FrontInv'
    <2> DEFINE place == IF ~Admits(k, u) THEN "end"
                        ELSE IF k = "register" THEN "total"
                        ELSE IF tooLong THEN "end" ELSE "body"
    <2>1. k \in {"register", "oauth"} /\ Arrives(c, k, u, place) /\ Allow(k, u) /\ UNCHANGED now
        BY <1>5 DEF OAuthArrives
    <2>2. place \in {"total", "body", "end"}
        OBVIOUS
    <2> HIDE DEF place
    <2>3. Accounts'
        BY <1>2, <2>1, LimitersKnown, AllowKeepsAccounts
    <2>4. Exchanges'
        BY <1>2, <2>1, <2>2, ArrivesKeepsExchanges
    <2> QED BY <2>3, <2>4 DEF FrontInv
<1> QED
    BY <1>1, <1>3, <1>4, <1>5

LEMMA StepKeepsInv ==
    ASSUME LimiterAssumption, FrontAssumption, FrontInv, NEW c \in Calls, Step(c)
    PROVE  FrontInv'
<1>1. Accounts /\ Exchanges /\ now \in Int
    BY DEF FrontInv, Accounts
<1>2. CASE LooksUp(c)
    <2>1. UNCHANGED <<now, limiterVars, req>>
        BY <1>2 DEF LooksUp
    <2> QED BY <1>1, <2>1, ElsewhereKeepsAccounts DEF FrontInv, Exchanges
<1>3. CASE ToolCallJudged(c)
    <2>1. Accounts'
        <3>1. CASE UNCHANGED limiterVars
            BY <1>1, <1>3, <3>1, ElsewhereKeepsAccounts DEF ToolCallJudged
        <3>2. CASE Allow("write", req[c].who)
            BY <1>1, <1>3, <3>2, WhoAsks, LimitersKnown, AllowKeepsAccounts DEF ToolCallJudged
        <3> QED BY <1>3, <3>1, <3>2 DEF ToolCallJudged
    <2>2. Exchanges'
        BY <1>1, <1>3, AnswersKeepsExchanges DEF ToolCallJudged, Unanswered
    <2> QED BY <2>1, <2>2 DEF FrontInv
<1>4. CASE ConsentVerified(c)
    <2>1. Accounts'
        BY <1>1, <1>4, ElsewhereKeepsAccounts DEF ConsentVerified
    <2>2. Exchanges'
        <3>1. ASSUME NEW u \in Users, req' = [req EXCEPT ![c].at = "gate", ![c].who = u]
              PROVE  Exchanges'
            <4> DEFINE r == [req[c] EXCEPT !.at = "gate", !.who = u]
            <4>1. req[c] \in Exchange /\ req[c].at = "verify" /\ u \in Subjects
                BY <1>1, <1>4, LimitersKnown DEF Exchanges, ConsentVerified
            <4>2. r \in Exchange
                BY <4>1 DEF Exchange, Requests, Places, Unanswered
            <4>3. req' = [req EXCEPT ![c] = r]
                BY <1>1, <3>1 DEF Exchanges
            <4> HIDE DEF r
            <4> QED BY <1>1, <4>2, <4>3, ExchangeTaken
        <3>2. CASE Answers(c)
            BY <1>1, <1>4, <3>2, AnswersKeepsExchanges DEF ConsentVerified, Unanswered
        <3> QED BY <1>4, <3>1, <3>2 DEF ConsentVerified
    <2> QED BY <2>1, <2>2 DEF FrontInv
<1>5. CASE ConsentJudged(c)
    <2>1. Accounts'
        BY <1>1, <1>5, ElsewhereKeepsAccounts DEF ConsentJudged
    <2>2. Exchanges'
        BY <1>1, <1>5, AnswersKeepsExchanges DEF ConsentJudged, Unanswered
    <2> QED BY <2>1, <2>2 DEF FrontInv
<1>6. ASSUME NEW tooLong \in BOOLEAN, RegistrationArrives(c, tooLong)
      PROVE  FrontInv'
    <2>1. Accounts'
        BY <1>1, <1>6, LimitersKnown, AllowKeepsAccounts DEF RegistrationArrives
    <2>2. Exchanges'
        <3>1. CASE Answers(c)
            BY <1>1, <1>6, <3>1, AnswersKeepsExchanges DEF RegistrationArrives, Unanswered
        <3>2. CASE Goto(c, "body")
            <4>1. req[c].at = "total"
                BY <1>6 DEF RegistrationArrives
            <4>2. "body" \in Places \ {"end"} /\ "body" \notin Unanswered
                BY DEF Places, Unanswered
            <4> QED BY <1>1, <3>2, <4>1, <4>2, WhoAsks, GotoKeepsExchanges
        <3> QED BY <1>6, <3>1, <3>2 DEF RegistrationArrives
    <2> QED BY <2>1, <2>2 DEF FrontInv
<1>7. CASE BodyArrives(c)
    <2>1. Accounts'
        BY <1>1, <1>7, ElsewhereKeepsAccounts DEF BodyArrives
    <2>2. [req[c] EXCEPT !.delivered = req[c].delivered + 1] \in Exchange
        BY <1>1 DEF Exchanges, Exchange, Requests
    <2>3. req' = [req EXCEPT ![c] = [req[c] EXCEPT !.delivered = req[c].delivered + 1]]
        BY <1>7 DEF BodyArrives
    <2>4. Exchanges'
        BY <1>1, <2>2, <2>3, ExchangeTaken
    <2> QED BY <2>1, <2>4 DEF FrontInv
<1>8. CASE HandlerStartsEarly(c)
    <2>1. Accounts'
        BY <1>1, <1>8, ElsewhereKeepsAccounts DEF HandlerStartsEarly
    <2>2. [req[c] EXCEPT !.starts = 1] \in Exchange
        BY <1>1, <1>8 DEF HandlerStartsEarly, Exchanges, Exchange, Requests, Unanswered
    <2>3. req' = [req EXCEPT ![c] = [req[c] EXCEPT !.starts = 1]]
        BY <1>8 DEF HandlerStartsEarly
    <2>4. Exchanges'
        BY <1>1, <2>2, <2>3, ExchangeTaken
    <2> QED BY <2>1, <2>4 DEF FrontInv
<1>9. CASE BodyExceeds(c)
    <2>1. Accounts'
        BY <1>1, <1>9, ElsewhereKeepsAccounts DEF BodyExceeds
    <2>2. Exchanges'
        BY <1>1, <1>9, FinishesKeepsExchanges DEF BodyExceeds, TooLarge
    <2> QED BY <2>1, <2>2 DEF FrontInv
<1>10. CASE BodyRead(c)
    <2>1. Accounts'
        BY <1>1, <1>10, ElsewhereKeepsAccounts DEF BodyRead
    <2>2. req[c].kind \in {"register", "oauth"} /\ Goto(c, req[c].kind)
        BY <1>1, <1>10, WhoAsks DEF BodyRead
    <2>3. {"register", "oauth"} \subseteq Places \ {"end"}
        BY DEF Places
    <2>4. {"register", "oauth"} \cap (Unanswered \cup {"total", "body"}) = {}
        BY DEF Unanswered
    <2>5. Exchanges'
        BY <1>1, <2>2, <2>3, <2>4, GotoKeepsExchanges
    <2> QED BY <2>1, <2>5 DEF FrontInv
<1>11. CASE Registers(c)
    <2>1. Accounts'
        BY <1>1, <1>11, ElsewhereKeepsAccounts DEF Registers
    <2>2. Exchanges'
        BY <1>1, <1>11, FinishesKeepsExchanges DEF Registers
    <2> QED BY <2>1, <2>2 DEF FrontInv
<1>12. CASE ClientReads(c)
    <2>1. Accounts'
        BY <1>1, <1>12, ElsewhereKeepsAccounts DEF ClientReads
    <2>2. CASE Finishes(c)
        BY <1>1, <2>1, <2>2, FinishesKeepsExchanges DEF FrontInv
    <2>3. CASE req' = [req EXCEPT ![c].at = "renew", ![c].renewTo = now + ClientTTL]
        <3> DEFINE until == now + ClientTTL
                   r == [req[c] EXCEPT !.at = "renew", !.renewTo = until]
        <3>1. req' = [req EXCEPT ![c] = r]
            BY <1>1, <2>3 DEF Exchanges
        <3>2. until \in Int /\ req[c] \in Requests
            BY <1>1, LimitersKnown DEF Exchanges, Exchange
        <3> HIDE DEF until
        <3>3. r \in Requests /\ r.at = "renew"
            BY <3>2 DEF Requests, Places
        <3> HIDE DEF r
        <3>4. r \in Exchange
            BY <3>3 DEF Exchange, Unanswered
        <3> QED BY <1>1, <2>1, <3>1, <3>4, ExchangeTaken DEF FrontInv
    <2>4. CASE Goto(c, "grant")
        BY <1>1, <2>1, <2>4, GotoKeepsExchanges DEF FrontInv, Places, Unanswered
    <2> QED BY <1>12, <2>2, <2>3, <2>4 DEF ClientReads
<1>13. CASE ClientRenews(c)
    <2>1. Accounts'
        BY <1>1, <1>13, ElsewhereKeepsAccounts DEF ClientRenews
    <2>2. Exchanges'
        BY <1>1, <1>13, GotoKeepsExchanges DEF ClientRenews, Places, Unanswered
    <2> QED BY <2>1, <2>2 DEF FrontInv
<1>14. CASE Grants(c)
    <2>1. Accounts'
        BY <1>1, <1>14, ElsewhereKeepsAccounts DEF Grants
    <2>2. Exchanges'
        BY <1>1, <1>14, FinishesKeepsExchanges DEF Grants
    <2> QED BY <2>1, <2>2 DEF FrontInv
<1> QED
    BY <1>2, <1>3, <1>4, <1>5, <1>6, <1>7, <1>8, <1>9, <1>10, <1>11, <1>12, <1>13, <1>14 DEF Step

LEMMA FrontInvNext ==
    ASSUME LimiterAssumption, FrontAssumption, FrontInv, [Next]_vars
    PROVE  FrontInv'
<1>1. Accounts /\ Exchanges /\ now \in Int
    BY DEF FrontInv, Accounts
<1>2. CASE \E c \in Calls : Begins(c) \/ Step(c)
    BY <1>2, BeginsKeepsInv, StepKeepsInv
<1>3. CASE ClientCollected
    <2>1. UNCHANGED <<now, limiterVars, req>>
        BY <1>3 DEF ClientCollected
    <2> QED BY <1>1, <2>1, ElsewhereKeepsAccounts DEF FrontInv, Exchanges
<1>4. CASE Decides
    <2>1. UNCHANGED <<now, limiterVars, req>>
        BY <1>4 DEF Decides
    <2> QED BY <1>1, <2>1, ElsewhereKeepsAccounts DEF FrontInv, Exchanges
<1>5. CASE Tick
    <2>1. now' = now + 1 /\ UNCHANGED <<limiterVars, req>>
        BY <1>5 DEF Tick
    <2>2. Accounts'
        BY <1>1, <2>1, WaitingKeepsAccounts
    <2> QED BY <1>1, <2>1, <2>2 DEF FrontInv, Exchanges
<1>6. CASE UNCHANGED vars
    <2>1. UNCHANGED <<now, limiterVars, req>>
        BY <1>6 DEF vars
    <2> QED BY <1>1, <2>1, ElsewhereKeepsAccounts DEF FrontInv, Exchanges
<1> QED
    BY <1>2, <1>3, <1>4, <1>5, <1>6 DEF Next

LEMMA FrontInvHolds ==
    ASSUME LimiterAssumption, FrontAssumption
    PROVE  Spec => []FrontInv
<1>1. Init => FrontInv
    BY FrontInvInit
<1>2. FrontInv /\ [Next]_vars => FrontInv'
    BY FrontInvNext
<1> QED
    BY <1>1, <1>2, PTL DEF Spec

-----------------------------------------------------------------------------
(* Theorems.                                                               *)

(* No limiter of the connector, whatever its setting and the size of its   *)
(* table, admits a key that keeps its bucket faster than the bucket        *)
(* refills after the burst it may begin with (PerUserRateLimiter.allow).   *)
THEOREM LimitersSpaceBursts ==
    ASSUME LimiterAssumption, FrontAssumption
    PROVE  Spec => []BurstsSpaced
<1>1. FrontInv => BurstsSpaced
    BY DEF FrontInv, Accounts, Spaced, BurstsSpaced
<1> QED
    BY <1>1, FrontInvHolds, PTL

(* Every connection gets one answer, however much of the body arrives and  *)
(* whenever the handler begins to answer (OAuthThrottleMiddleware).        *)
THEOREM ConnectionsAnsweredOnce ==
    ASSUME LimiterAssumption, FrontAssumption
    PROVE  Spec => []AnsweredOnce
<1>1. FrontInv => AnsweredOnce
    BY DEF FrontInv, Exchanges, Exchange, Requests, AnsweredOnce
<1> QED
    BY <1>1, FrontInvHolds, PTL

-----------------------------------------------------------------------------
(* The gate: every verdict under way or in the cache is about a user who   *)
(* is granted, or stopped being so only since the lookup began.            *)

IsLookup(l) == DOMAIN l = {"at", "record", "since"} /\ l.record \in BOOLEAN /\ l.since \in Int

GrantedSince(u, t) == status[u] = "granted" \/ (revokedAt[u] # Never /\ revokedAt[u] >= t)

(* A lookup is of its request's user, and not older than MaxLookup. *)
LookupFits(c) ==
    /\ IsLookup(lookup[c])
    /\ LookingUp(c) => /\ req[c].at = "gate" /\ req[c].who \in Users
                       /\ lookup[c].since <= now /\ now <= lookup[c].since + MaxLookup
    /\ lookup[c].at = "store" /\ lookup[c].record => GrantedSince(req[c].who, lookup[c].since)

EntryFits(u) ==
    u \in DOMAIN cache =>
       /\ cache[u].expires \in Int /\ cache[u].expires <= now + CacheTTL
       /\ cache[u].allowed \in BOOLEAN
       /\ cache[u].allowed => GrantedSince(u, cache[u].expires - CacheTTL - MaxLookup)

GateInv ==
    /\ now \in Nat
    /\ DOMAIN status = Users /\ DOMAIN revokedAt = Users /\ DOMAIN lookup = Calls
    /\ \A u \in Users : revokedAt[u] \in Int
    /\ \A c \in Calls : LookupFits(c)
    /\ \A u \in Users : EntryFits(u)

OnlyHis(c) == \A d \in Calls \ {c} : req'[d] = req[d]

LEMMA OnlyOneMoves ==
    ASSUME Exchanges, NEW c \in Calls
    PROVE  /\ \A r : req' = [req EXCEPT ![c] = r] => OnlyHis(c) /\ req'[c] = r
           /\ \A n : Ends(c, n) => OnlyHis(c)
           /\ \A place : Goto(c, place) => OnlyHis(c)
           /\ Answers(c) => OnlyHis(c)
           /\ Finishes(c) => OnlyHis(c)
    BY DEF Exchanges, OnlyHis, Ends, Goto, Answers, Finishes

(* Steps of a connection whose request is not looked up. *)
LEMMA ElsewhereKeepsGate ==
    ASSUME GateInv, NEW c \in Calls, ~LookingUp(c), OnlyHis(c), UNCHANGED <<now, gateVars>>
    PROVE  GateInv'
<1>1. UNCHANGED <<now, status, cache, lookup, revokedAt>>
    BY DEF gateVars, cacheVars
<1>2. lookup[c].at # "store"
    BY DEF LookingUp
<1> QED
    BY <1>1, <1>2 DEF GateInv, OnlyHis, LookupFits, LookingUp, EntryFits, GrantedSince

(* The lookup of one call takes a step. *)
LEMMA LookupKeepsGate ==
    ASSUME GateInv, NEW c \in Calls, OnlyHis(c), LookupFits(c)',
           UNCHANGED <<now, status, revokedAt>>, DOMAIN lookup' = Calls,
           \A d \in Calls \ {c} : lookup'[d] = lookup[d],
           \A u \in Users : EntryFits(u)'
    PROVE  GateInv'
<1>1. \A d \in Calls \ {c} : LookupFits(d)'
    BY DEF GateInv, OnlyHis, LookupFits, LookingUp, GrantedSince
<1> QED
    BY <1>1 DEF GateInv

LEMMA EntriesStay ==
    ASSUME GateInv, UNCHANGED <<now, status, revokedAt>>,
           \A u \in Users : u \in DOMAIN cache' => u \in DOMAIN cache /\ cache'[u] = cache[u]
    PROVE  \A u \in Users : EntryFits(u)'
    BY DEF GateInv, EntryFits, GrantedSince

LEMMA GateBeginsKeeps ==
    ASSUME GateAssumption, GateInv, NEW c \in Calls, GateBegins(c), OnlyHis(c), UNCHANGED now,
           req'[c].at = "gate", req'[c].who \in Users
    PROVE  GateInv'
<1> DEFINE l == [NoLookup EXCEPT !.at = IF AllowlistEnabled THEN "cache" ELSE "allowed",
                                 !.since = now]
<1>1. lookup' = [lookup EXCEPT ![c] = l] /\ UNCHANGED <<status, cache, revokedAt>>
    BY DEF GateBegins, cacheVars
<1>2. IsLookup(l) /\ l.at # "store" /\ l.since = now
    BY DEF GateInv, NoLookup, IsLookup
<1> HIDE DEF l
<1>3. /\ lookup'[c] = l /\ DOMAIN lookup' = Calls
      /\ \A d \in Calls \ {c} : lookup'[d] = lookup[d]
    BY <1>1 DEF GateInv
<1>4. LookupFits(c)'
    <2>1. now <= now + MaxLookup
        BY DEF GateInv, GateAssumption
    <2> QED BY <1>2, <1>3, <2>1 DEF GateInv, LookupFits
<1> QED
    BY <1>1, <1>3, <1>4, EntriesStay, LookupKeepsGate

LEMMA GateEndsKeeps ==
    ASSUME GateInv, NEW c \in Calls, GateEnds(c), OnlyHis(c), UNCHANGED now
    PROVE  GateInv'
<1>1. lookup' = [lookup EXCEPT ![c] = NoLookup] /\ UNCHANGED <<status, cache, revokedAt>>
    BY DEF GateEnds, cacheVars
<1>2. IsLookup(NoLookup) /\ NoLookup.at = "idle"
    BY DEF NoLookup, IsLookup
<1>3. /\ lookup'[c] = NoLookup /\ DOMAIN lookup' = Calls
      /\ \A d \in Calls \ {c} : lookup'[d] = lookup[d]
    BY <1>1 DEF GateInv
<1>4. LookupFits(c)'
    BY <1>2, <1>3 DEF LookupFits, LookingUp
<1> QED
    BY <1>1, <1>3, <1>4, EntriesStay, LookupKeepsGate

LEMMA GoesToGives ==
    ASSUME GateInv, NEW c \in Calls, NEW place, GoesTo(c, place)
    PROVE  /\ DOMAIN lookup' = Calls /\ IsLookup(lookup'[c])
           /\ lookup'[c].at = place /\ lookup'[c].record = lookup[c].record
           /\ lookup'[c].since = lookup[c].since
           /\ \A d \in Calls \ {c} : lookup'[d] = lookup[d]
    BY DEF GateInv, LookupFits, IsLookup, GoesTo

(* A lookup that goes on, or ends in a verdict. *)
LEMMA GoesToKeeps ==
    ASSUME GateInv, NEW c \in Calls, NEW place, GoesTo(c, place), LookingUp(c), place # "store",
           UNCHANGED <<now, req, status, revokedAt>>, \A u \in Users : EntryFits(u)'
    PROVE  GateInv'
<1>1. LookupFits(c)'
    BY GoesToGives DEF GateInv, LookupFits, LookingUp
<1> QED
    BY <1>1, GoesToGives, LookupKeepsGate DEF OnlyHis

LEMMA VerdictsAre ==
    ASSUME NEW allowed
    PROVE  Verdict(allowed) # "store" /\ (Verdict(allowed) = "allowed" <=> allowed)
    BY DEF Verdict

LEMMA LooksKeepsGate ==
    ASSUME GateAssumption, GateInv, NEW c \in Calls, NEW u \in Users, u = req[c].who,
           Looks(c, u), UNCHANGED <<now, req>>
    PROVE  GateInv'
<1>1. CASE LooksInCache(c, u)
    <2>1. LookingUp(c) /\ UNCHANGED <<status, revokedAt>>
        BY <1>1 DEF LooksInCache, LookingUp
    <2>2. \A x \in Users : x \in DOMAIN cache' => x \in DOMAIN cache /\ cache'[x] = cache[x]
        BY <1>1 DEF LooksInCache, Hit, Dropped, cacheVars
    <2>3. \E place : GoesTo(c, place) /\ place # "store"
        BY <1>1, VerdictsAre DEF LooksInCache
    <2> QED BY <2>1, <2>2, <2>3, EntriesStay, GoesToKeeps
<1>2. CASE ReadsRecord(c, u)
    <2> DEFINE l == [lookup[c] EXCEPT !.at = "store", !.record = (status[u] = "granted")]
    <2>1. lookup' = [lookup EXCEPT ![c] = l] /\ UNCHANGED <<status, revokedAt, cache>>
        BY <1>2 DEF ReadsRecord, cacheVars
    <2>2. /\ IsLookup(l) /\ l.at = "store" /\ l.since = lookup[c].since
          /\ l.record = (status[u] = "granted")
        BY DEF GateInv, LookupFits, IsLookup
    <2> HIDE DEF l
    <2>3. /\ DOMAIN lookup' = Calls /\ lookup'[c] = l
          /\ \A d \in Calls \ {c} : lookup'[d] = lookup[d]
        BY <2>1 DEF GateInv
    <2>4. LookingUp(c)
        BY <1>2 DEF ReadsRecord, LookingUp
    <2>5. LookupFits(c)'
        BY <2>1, <2>2, <2>3, <2>4 DEF GateInv, LookupFits, GrantedSince
    <2> QED BY <2>1, <2>3, <2>5, EntriesStay, LookupKeepsGate DEF OnlyHis
<1>3. CASE ReadFails(c)
    <2>1. GoesTo(c, "denied") /\ LookingUp(c) /\ UNCHANGED <<status, revokedAt, cache>>
        BY <1>3 DEF ReadFails, LookingUp, cacheVars
    <2> QED BY <2>1, EntriesStay, GoesToKeeps
<1>4. CASE StoresVerdict(c, u)
    <2>1. /\ LookingUp(c) /\ lookup[c].at = "store" /\ UNCHANGED <<status, revokedAt>>
          /\ GoesTo(c, Verdict(lookup[c].record))
        BY <1>4 DEF StoresVerdict, LookingUp
    <2> DEFINE e == [allowed |-> lookup[c].record, expires |-> now + EntryTTL(lookup[c].record)]
    <2>2. \A x \in Users : x \in DOMAIN cache' =>
             \/ x = u /\ cache'[x] = e
             \/ x \in DOMAIN cache /\ cache'[x] = cache[x]
        <3>1. CASE Caching
            <4> DEFINE surplus == Len(recent) - MaxCached + 1
                       gone == {recent[i] : i \in 1 .. surplus}
            <4>1. cache' = [x \in (DOMAIN cache \ gone) \cup {u} |->
                              IF x = u THEN [allowed |-> lookup[c].record,
                                             expires |-> now + EntryTTL(lookup[c].record)]
                              ELSE cache[x]]
                BY <1>4, <3>1 DEF StoresVerdict
            <4> HIDE DEF gone
            <4> QED BY <4>1
        <3>2. CASE ~Caching
            BY <1>4, <3>2 DEF StoresVerdict, cacheVars
        <3> QED BY <3>1, <3>2
    <2>3. /\ e.allowed = lookup[c].record /\ e.allowed \in BOOLEAN
          /\ e.expires \in Int /\ e.expires <= now + CacheTTL
          /\ e.allowed => e.expires = now + CacheTTL
        BY DEF GateInv, LookupFits, IsLookup, EntryTTL, GateAssumption
    <2>4. e.allowed => GrantedSince(u, e.expires - CacheTTL - MaxLookup)
        <3>1. e.allowed => GrantedSince(u, lookup[c].since)
            BY <2>1, <2>3 DEF GateInv, LookupFits
        <3>2. /\ now <= lookup[c].since + MaxLookup /\ now \in Int /\ lookup[c].since \in Int
              /\ CacheTTL \in Int /\ MaxLookup \in Int /\ revokedAt[u] \in Int
            BY <2>1 DEF GateInv, LookupFits, IsLookup, GateAssumption
        <3> HIDE DEF e
        <3> QED BY <2>3, <3>1, <3>2 DEF GrantedSince
    <2> HIDE DEF e
    <2>5. \A x \in Users : EntryFits(x)'
        BY <2>1, <2>2, <2>3, <2>4 DEF GateInv, EntryFits, GrantedSince
    <2> QED BY <2>1, <2>5, VerdictsAre, GoesToKeeps
<1> QED
    BY <1>1, <1>2, <1>3, <1>4 DEF Looks

LEMMA NotAtTheGate ==
    ASSUME GateInv, NEW c \in Calls, req[c].at # "gate" \/ lookup[c].at \in {"allowed", "denied"}
    PROVE  ~LookingUp(c)
    BY DEF GateInv, LookupFits, LookingUp

LEMMA ArrivesAlone ==
    ASSUME Exchanges, NEW c \in Calls, NEW k, NEW u, NEW place, Arrives(c, k, u, place)
    PROVE  /\ OnlyHis(c) /\ req[c].at \in {"idle", "end"}
           /\ place # "end" => req'[c].at = place /\ req'[c].who = u
<1>1. CASE place = "end"
    BY <1>1, OnlyOneMoves DEF Arrives, AnswersAtOnce
<1>2. CASE place # "end"
    <2> DEFINE r == [NoRequest EXCEPT !.at = place, !.kind = k, !.who = u, !.began = now]
    <2>1. r.at = place /\ r.who = u
        BY DEF NoRequest
    <2>2. req' = [req EXCEPT ![c] = r] /\ req[c].at \in {"idle", "end"}
        BY <1>2 DEF Arrives
    <2> HIDE DEF r
    <2> QED BY <1>2, <2>1, <2>2, OnlyOneMoves
<1> QED
    BY <1>1, <1>2

LEMMA BeginsKeepsGate ==
    ASSUME GateAssumption, FrontAssumption, GateInv, Exchanges, NEW c \in Calls, Begins(c)
    PROVE  GateInv'
<1>1. PICK u \in Subjects \ {Everyone}, k \in AllKinds :
         \/ k = "tool" /\ u \in Users /\ ToolCallArrives(c, u)
         \/ k = "consent" /\ ConsentArrives(c, u)
         \/ \E tooLong \in BOOLEAN : OAuthArrives(c, k, u, tooLong)
    BY DEF Begins
<1>2. CASE u \in Users /\ ToolCallArrives(c, u)
    <2>1. CASE Admits("tool", u)
        BY <1>2, <2>1, ArrivesAlone, GateBeginsKeeps DEF ToolCallArrives
    <2>2. CASE ~Admits("tool", u)
        BY <1>2, <2>2, ArrivesAlone, NotAtTheGate, ElsewhereKeepsGate DEF ToolCallArrives
    <2> QED BY <2>1, <2>2
<1>3. CASE ConsentArrives(c, u)
    BY <1>3, ArrivesAlone, NotAtTheGate, ElsewhereKeepsGate DEF ConsentArrives
<1>4. ASSUME NEW tooLong \in BOOLEAN, OAuthArrives(c, k, u, tooLong)
      PROVE  GateInv'
    BY <1>4, ArrivesAlone, NotAtTheGate, ElsewhereKeepsGate DEF OAuthArrives
<1> QED
    BY <1>1, <1>2, <1>3, <1>4

LEMMA StepKeepsGate ==
    ASSUME GateAssumption, GateInv, Exchanges, NEW c \in Calls, Step(c)
    PROVE  GateInv'
<1>1. ASSUME req[c].at # "gate", OnlyHis(c), UNCHANGED <<now, gateVars>>
      PROVE  GateInv'
    BY <1>1, NotAtTheGate, ElsewhereKeepsGate
<1>2. CASE LooksUp(c)
    <2>1. LookingUp(c) /\ Looks(c, req[c].who) /\ UNCHANGED <<now, req>>
        BY <1>2 DEF LooksUp, Looks, LooksInCache, ReadsRecord, ReadFails, StoresVerdict, LookingUp
    <2>2. req[c].who \in Users
        BY <2>1 DEF GateInv, LookupFits
    <2> QED BY <2>1, <2>2, LooksKeepsGate
<1>3. CASE ToolCallJudged(c)
    BY <1>3, OnlyOneMoves, GateEndsKeeps DEF ToolCallJudged
<1>4. CASE ConsentJudged(c)
    BY <1>4, OnlyOneMoves, GateEndsKeeps DEF ConsentJudged
<1>5. CASE ConsentVerified(c)
    <2>1. req[c].at = "verify" /\ UNCHANGED now
        BY <1>5 DEF ConsentVerified
    <2>2. ASSUME NEW u \in Users, GateBegins(c),
                 req' = [req EXCEPT ![c].at = "gate", ![c].who = u]
          PROVE  GateInv'
        <3>1. OnlyHis(c) /\ req'[c].at = "gate" /\ req'[c].who = u
            BY <2>2 DEF OnlyHis, Exchanges, Exchange, Requests
        <3> QED BY <2>1, <2>2, <3>1, GateBeginsKeeps
    <2>3. CASE Answers(c) /\ UNCHANGED gateVars
        BY <1>1, <2>1, <2>3, OnlyOneMoves
    <2> QED BY <1>5, <2>2, <2>3 DEF ConsentVerified
<1>6. ASSUME NEW tooLong \in BOOLEAN, RegistrationArrives(c, tooLong)
      PROVE  GateInv'
    BY <1>1, <1>6, OnlyOneMoves DEF RegistrationArrives
<1>7. CASE BodyArrives(c)
    <2>1. OnlyHis(c)
        BY <1>7 DEF BodyArrives, OnlyHis, Exchanges
    <2> QED BY <1>1, <1>7, <2>1 DEF BodyArrives
<1>8. CASE HandlerStartsEarly(c)
    <2>1. OnlyHis(c)
        BY <1>8 DEF HandlerStartsEarly, OnlyHis, Exchanges
    <2> QED BY <1>1, <1>8, <2>1 DEF HandlerStartsEarly
<1>9. CASE BodyExceeds(c) \/ BodyRead(c)
    BY <1>1, <1>9, OnlyOneMoves DEF BodyExceeds, TooLarge, BodyRead
<1>10. CASE Registers(c) \/ Grants(c) \/ ClientRenews(c)
    BY <1>1, <1>10, OnlyOneMoves DEF Registers, Grants, ClientRenews
<1>11. CASE ClientReads(c)
    <2>1. OnlyHis(c)
        <3>1. CASE req' = [req EXCEPT ![c].at = "renew", ![c].renewTo = now + ClientTTL]
            BY <3>1 DEF OnlyHis, Exchanges
        <3> QED BY <1>11, <3>1, OnlyOneMoves DEF ClientReads
    <2> QED BY <1>1, <1>11, <2>1 DEF ClientReads
<1> QED
    BY <1>2, <1>3, <1>4, <1>5, <1>6, <1>7, <1>8, <1>9, <1>10, <1>11 DEF Step

(* Whoever stops being granted does so now, which is after every lookup    *)
(* under way began and no later than what is cached says.                  *)
LEMMA DecisionsKeepGate ==
    ASSUME GateAssumption, GateInv, Decides
    PROVE  GateInv'
<1>1. PICK v \in Users, s \in {"granted", "revoked"} :
         /\ status[v] # s /\ status' = [status EXCEPT ![v] = s]
         /\ revokedAt' = IF status[v] = "granted" THEN [revokedAt EXCEPT ![v] = now] ELSE revokedAt
    BY DEF Decides, Administrator
<1>2. UNCHANGED <<now, req, cache, lookup>>
    BY DEF Decides, Administrator, cacheVars
<1>3. /\ DOMAIN status' = Users /\ DOMAIN revokedAt' = Users
      /\ \A u \in Users : revokedAt'[u] \in Int
    BY <1>1 DEF GateInv
<1>4. ASSUME NEW u \in Users, NEW t \in Int, GrantedSince(u, t), t <= now
      PROVE  GrantedSince(u, t)'
    <2>1. CASE u # v
        BY <1>1, <1>4, <2>1 DEF GateInv, GrantedSince
    <2>2. CASE u = v /\ status[u] = "granted"
        BY <1>1, <1>4, <2>2 DEF GateInv, GrantedSince, Never
    <2>3. CASE u = v /\ status[u] # "granted"
        BY <1>1, <1>4, <2>3 DEF GateInv, GrantedSince
    <2> QED BY <2>1, <2>2, <2>3
<1>5. \A c \in Calls : LookupFits(c)'
    <2> SUFFICES ASSUME NEW c \in Calls PROVE LookupFits(c)'
        OBVIOUS
    <2>1. LookupFits(c) /\ lookup[c].since \in Int
        BY DEF GateInv, LookupFits, IsLookup
    <2>2. LookingUp(c) => lookup[c].since <= now /\ req[c].who \in Users
        BY <2>1 DEF LookupFits
    <2>3. lookup[c].at = "store" => LookingUp(c)
        BY DEF LookingUp
    <2> QED BY <1>2, <1>4, <2>1, <2>2, <2>3 DEF LookupFits, LookingUp
<1>6. \A u \in Users : EntryFits(u)'
    <2> SUFFICES ASSUME NEW u \in Users, u \in DOMAIN cache PROVE EntryFits(u)'
        BY <1>2 DEF EntryFits
    <2>1. EntryFits(u) /\ cache[u].expires \in Int /\ cache[u].expires <= now + CacheTTL
        BY DEF GateInv, EntryFits
    <2>2. /\ cache[u].expires - CacheTTL - MaxLookup \in Int
          /\ cache[u].expires - CacheTTL - MaxLookup <= now
        BY <2>1 DEF GateInv, GateAssumption
    <2> QED BY <1>2, <1>4, <2>1, <2>2 DEF EntryFits
<1> QED
    BY <1>2, <1>3, <1>5, <1>6 DEF GateInv

LEMMA TickKeepsGate ==
    ASSUME GateAssumption, GateInv, Tick
    PROVE  GateInv'
<1>1. now' = now + 1 /\ UNCHANGED <<req, status, cache, lookup, revokedAt>>
    BY DEF Tick, gateVars, cacheVars
<1>2. \A c \in Calls : LookingUp(c) => now + 1 <= lookup[c].since + MaxLookup
    BY DEF Tick, GateInv, LookupFits, IsLookup, GateAssumption
<1>3. \A c \in Calls : LookupFits(c)'
    BY <1>1, <1>2 DEF GateInv, LookupFits, IsLookup, LookingUp, GrantedSince
<1>4. \A u \in Users : EntryFits(u)'
    BY <1>1 DEF GateInv, GateAssumption, EntryFits, GrantedSince
<1> QED
    BY <1>1, <1>3, <1>4 DEF GateInv

LEMMA GateInvInit ==
    ASSUME Init
    PROVE  GateInv
<1>1. /\ now = 0 /\ DOMAIN cache = {} /\ status \in [Users -> {"none", "granted"}]
      /\ lookup = [c \in Calls |-> NoLookup] /\ revokedAt = [u \in Users |-> Never]
    BY DEF Init, GateInit
<1>2. IsLookup(NoLookup) /\ NoLookup.at = "idle"
    BY DEF NoLookup, IsLookup
<1> QED
    BY <1>1, <1>2 DEF GateInv, LookupFits, LookingUp, EntryFits, Never

LEMMA GateInvNext ==
    ASSUME GateAssumption, FrontAssumption, GateInv, Exchanges, [Next]_vars
    PROVE  GateInv'
<1>1. CASE UNCHANGED <<now, req, gateVars>>
    BY <1>1 DEF gateVars, cacheVars, GateInv, LookupFits, LookingUp, EntryFits, GrantedSince
<1>2. ClientCollected \/ UNCHANGED vars => UNCHANGED <<now, req, gateVars>>
    BY DEF ClientCollected, vars
<1> QED
    BY <1>1, <1>2, BeginsKeepsGate, StepKeepsGate, DecisionsKeepGate, TickKeepsGate DEF Next

LEMMA OneLookupMoves ==
    ASSUME GateInv, NEW d \in Calls, Begins(d) \/ Step(d), NEW c \in Calls \ {d}
    PROVE  lookup'[c] = lookup[c]
<1>1. UNCHANGED gateVars => lookup'[c] = lookup[c]
    BY DEF gateVars
<1>2. GateBegins(d) \/ GateEnds(d) \/ (\E u : Looks(d, u)) => lookup'[c] = lookup[c]
    BY DEF GateInv, GateBegins, GateEnds, Looks, LooksInCache, ReadsRecord, ReadFails,
           StoresVerdict, GoesTo
<1>3. Begins(d) => UNCHANGED gateVars \/ GateBegins(d)
    BY DEF Begins, ToolCallArrives, ConsentArrives, OAuthArrives
<1>4. Step(d) => UNCHANGED gateVars \/ GateBegins(d) \/ GateEnds(d) \/ \E u : Looks(d, u)
    BY DEF Step, LooksUp, ToolCallJudged, ConsentVerified, ConsentJudged, RegistrationArrives,
           BodyArrives, HandlerStartsEarly, BodyExceeds, BodyRead, Registers, ClientReads,
           ClientRenews, Grants
<1> QED
    BY <1>1, <1>2, <1>3, <1>4

(* Whoever is let through is granted, or was until less than the cache's   *)
(* life and one lookup ago, for any users, table, lives and decisions      *)
(* (AccessControl.is_allowed).                                             *)
THEOREM RevocationsLand ==
    ASSUME LimiterAssumption, GateAssumption, FrontAssumption
    PROVE  Spec => RevocationLands
<1> DEFINE Lands == \A c \in Calls :
                      LetIn(c) => status[req[c].who] = "granted" \/ StillFresh(req[c].who)
<1>1. Init => GateInv
    BY GateInvInit
<1>2. GateInv /\ FrontInv /\ [Next]_vars => GateInv'
    BY GateInvNext DEF FrontInv
<1>3. GateInv /\ FrontInv /\ [Next]_vars => [Lands]_vars
    <2> SUFFICES ASSUME GateInv, FrontInv, Next, NEW c \in Calls, LetIn(c)
                 PROVE  status[req[c].who] = "granted" \/ StillFresh(req[c].who)
        OBVIOUS
    <2>1. lookup'[c] # lookup[c] /\ lookup'[c].at = "allowed" /\ req[c].at = "gate"
        BY DEF LetIn
    <2>2. LooksUp(c)
        <3>1. ASSUME NEW d \in Calls, Begins(d) \/ Step(d)
              PROVE  LooksUp(c)
            <4>1. d = c
                BY <2>1, <3>1, OneLookupMoves
            <4>2. ~Begins(c)
                BY <2>1, ArrivesAlone DEF Begins, ToolCallArrives, ConsentArrives, OAuthArrives,
                                          FrontInv
            <4>3. ~ToolCallJudged(c) /\ ~ConsentJudged(c)
                <5>1. GateEnds(c) => lookup'[c].at = "idle"
                    BY DEF GateEnds, NoLookup, GateInv
                <5> QED BY <2>1, <5>1 DEF ToolCallJudged, ConsentJudged
            <4> QED BY <2>1, <3>1, <4>1, <4>2, <4>3
                    DEF Step, ConsentVerified, RegistrationArrives, BodyArrives,
                        HandlerStartsEarly, BodyExceeds, BodyRead, Registers, ClientReads,
                        ClientRenews, Grants
        <3> QED BY <2>1, <3>1 DEF Next, ClientCollected, Decides, Administrator, Tick, gateVars
    <2> DEFINE u == req[c].who
    <2>3. LookingUp(c) /\ Looks(c, u)
        BY <2>2 DEF LooksUp, Looks, LooksInCache, ReadsRecord, ReadFails, StoresVerdict, LookingUp
    <2>4. /\ u \in Users /\ lookup[c].since <= now /\ now <= lookup[c].since + MaxLookup
          /\ lookup[c].since \in Int /\ now \in Int /\ revokedAt[u] \in Int
          /\ CacheTTL \in Int /\ MaxLookup \in Int
        BY <2>3 DEF GateInv, LookupFits, IsLookup, GateAssumption
    <2>5. CASE LooksInCache(c, u)
        <3>1. u \in DOMAIN cache /\ cache[u].expires > now /\ cache[u].allowed
            BY <2>1, <2>5, <2>4, GoesToGives, VerdictsAre DEF LooksInCache
        <3>2. GrantedSince(u, cache[u].expires - CacheTTL - MaxLookup) /\ cache[u].expires \in Int
            BY <2>4, <3>1 DEF GateInv, EntryFits
        <3> HIDE DEF u
        <3>3. revokedAt[u] >= cache[u].expires - CacheTTL - MaxLookup
                => now < revokedAt[u] + CacheTTL + MaxLookup
            BY <2>4, <3>1, <3>2
        <3> QED BY <3>2, <3>3 DEF GrantedSince, StillFresh, u
    <2>6. CASE StoresVerdict(c, u)
        <3>1. lookup[c].at = "store" /\ lookup[c].record
            BY <2>1, <2>6, GoesToGives, VerdictsAre DEF StoresVerdict
        <3>2. GrantedSince(u, lookup[c].since)
            BY <3>1 DEF GateInv, LookupFits
        <3> HIDE DEF u
        <3>3. revokedAt[u] >= lookup[c].since => now <= revokedAt[u] + MaxLookup
            BY <2>4
        <3> QED BY <3>2, <3>3 DEF GrantedSince, StillFresh, u
    <2>7. ~ReadsRecord(c, u) /\ ~ReadFails(c)
        <3>1. ReadsRecord(c, u) => lookup'[c].at = "store"
            BY DEF ReadsRecord, GateInv, LookupFits, IsLookup
        <3>2. ReadFails(c) => lookup'[c].at = "denied"
            BY GoesToGives DEF ReadFails
        <3> QED BY <2>1, <3>1, <3>2
    <2> QED BY <2>3, <2>5, <2>6, <2>7 DEF Looks
<1>4. Spec => []FrontInv
    BY FrontInvHolds
<1> QED
    BY <1>1, <1>2, <1>3, <1>4, PTL DEF Spec, RevocationLands

-----------------------------------------------------------------------------
(* The client's record, when a request is shorter than what is left of it  *)
(* when it must be renewed, and than Firestore's collector waits.          *)

LivesLong == ClientTTL >= 2 * (RefreshTTL + MaxRun) /\ CollectLag >= MaxRun

ClientFits(c) ==
    /\ Underway(c) => req[c].began <= now /\ now <= req[c].began + MaxRun
    /\ req[c].at = "renew" => client > req[c].began /\ req[c].renewTo >= req[c].began + ClientTTL
    /\ req[c].at = "grant" => client >= req[c].began + MaxRun + RefreshTTL

ClientInv ==
    /\ now \in Nat /\ client \in Int /\ refreshUntil \in Int
    /\ refreshUntil <= now + RefreshTTL
    /\ refreshUntil > now => client >= refreshUntil
    /\ \A c \in Calls : req[c].began \in Nat /\ req[c].renewTo \in Int
    /\ \A c \in Calls : ClientFits(c)

LEMMA LivesAre ==
    ASSUME FrontAssumption
    PROVE  /\ RefreshTTL \in Int /\ RefreshTTL > 0 /\ MaxRun \in Nat /\ CollectLag \in Nat
           /\ ClientTTL \in Int /\ FirstClientTTL \in Int /\ FirstClientTTL > 0
    BY DEF FrontAssumption, ClientTTL, FirstClientTTL

(* Steps that neither read nor write the record. *)
LEMMA ElsewhereKeepsClient ==
    ASSUME FrontAssumption, ClientInv, NEW c \in Calls, OnlyHis(c), UNCHANGED <<now, clientVars>>,
           req'[c].at \notin {"renew", "grant"},
           req'[c].began \in Nat, req'[c].renewTo \in Int,
           Underway(c)' => req'[c].began = now \/ (Underway(c) /\ req'[c].began = req[c].began)
    PROVE  ClientInv'
<1>1. UNCHANGED <<now, client, refreshUntil>>
    BY DEF clientVars
<1>2. ClientFits(c)'
    BY <1>1, LivesAre DEF ClientInv, ClientFits
<1>3. \A d \in Calls \ {c} : ClientFits(d)'
    BY <1>1 DEF ClientInv, ClientFits, Underway, OnlyHis
<1> QED
    BY <1>1, <1>2, <1>3 DEF ClientInv, OnlyHis

LEMMA PlacesTaken ==
    ASSUME Exchanges, NEW c \in Calls
    PROVE  /\ \A place : Goto(c, place) =>
                 /\ OnlyHis(c) /\ req'[c].at = place /\ req'[c].began = req[c].began
                 /\ req'[c].renewTo = req[c].renewTo
           /\ \A n : Ends(c, n) => OnlyHis(c) /\ req'[c].at = "end" /\ req'[c].began = 0
                                  /\ req'[c].renewTo = 0
<1>1. req[c] \in Requests
    BY DEF Exchanges, Exchange
<1>2. ASSUME NEW place, Goto(c, place)
      PROVE  /\ OnlyHis(c) /\ req'[c].at = place /\ req'[c].began = req[c].began
             /\ req'[c].renewTo = req[c].renewTo
    <2>1. req' = [req EXCEPT ![c] = [req[c] EXCEPT !.at = place]]
        BY <1>2 DEF Goto
    <2>2. OnlyHis(c) /\ req'[c] = [req[c] EXCEPT !.at = place]
        BY <2>1, OnlyOneMoves
    <2> QED BY <1>1, <2>2 DEF Requests
<1>3. ASSUME NEW n, Ends(c, n)
      PROVE  OnlyHis(c) /\ req'[c].at = "end" /\ req'[c].began = 0 /\ req'[c].renewTo = 0
    <2> DEFINE r == [NoRequest EXCEPT !.at = "end", !.starts = n]
    <2>1. r.at = "end" /\ r.began = 0 /\ r.renewTo = 0
        BY DEF NoRequest
    <2>2. req' = [req EXCEPT ![c] = r]
        BY <1>3 DEF Ends
    <2> HIDE DEF r
    <2> QED BY <2>1, <2>2, OnlyOneMoves
<1> QED
    BY <1>2, <1>3

LEMMA EndsKeepsClient ==
    ASSUME FrontAssumption, ClientInv, Exchanges, NEW c \in Calls,
           Answers(c) \/ Finishes(c), UNCHANGED <<now, clientVars>>
    PROVE  ClientInv'
<1>1. OnlyHis(c) /\ req'[c].at = "end" /\ req'[c].began = 0 /\ req'[c].renewTo = 0
    BY PlacesTaken DEF Answers, Finishes
<1> QED
    BY <1>1, ElsewhereKeepsClient DEF Underway

LEMMA GotoKeepsClient ==
    ASSUME FrontAssumption, ClientInv, Exchanges, NEW c \in Calls,
           NEW place \in {"body", "register", "oauth"}, Goto(c, place),
           req[c].at \in {"total", "body"}, UNCHANGED <<now, clientVars>>
    PROVE  ClientInv'
<1>1. /\ OnlyHis(c) /\ req'[c].at = place /\ req'[c].began = req[c].began
      /\ req'[c].renewTo = req[c].renewTo
    BY PlacesTaken
<1>2. Underway(c)
    BY DEF Underway
<1> QED
    BY <1>1, <1>2, ElsewhereKeepsClient DEF ClientInv

LEMMA ArrivesKeepsClient ==
    ASSUME FrontAssumption, ClientInv, Exchanges, NEW c \in Calls, NEW k, NEW u,
           NEW place \in {"gate", "verify", "total", "body", "end"},
           Arrives(c, k, u, place), UNCHANGED <<now, clientVars>>
    PROVE  ClientInv'
<1>1. CASE place = "end"
    <2>1. OnlyHis(c) /\ req'[c].at = "end" /\ req'[c].began = 0 /\ req'[c].renewTo = 0
        BY <1>1, PlacesTaken DEF Arrives, AnswersAtOnce
    <2> QED BY <2>1, ElsewhereKeepsClient DEF Underway
<1>2. CASE place # "end"
    <2> DEFINE r == [NoRequest EXCEPT !.at = place, !.kind = k, !.who = u, !.began = now]
    <2>1. r.at = place /\ r.began = now /\ r.renewTo = 0
        BY DEF NoRequest
    <2>2. req' = [req EXCEPT ![c] = r]
        BY <1>2 DEF Arrives
    <2> HIDE DEF r
    <2>3. OnlyHis(c) /\ req'[c] = r /\ now \in Nat
        BY <2>2, OnlyOneMoves DEF ClientInv
    <2> QED BY <2>1, <2>3, ElsewhereKeepsClient
<1> QED
    BY <1>1, <1>2

LEMMA BeginsKeepsClient ==
    ASSUME FrontAssumption, ClientInv, Exchanges, NEW c \in Calls, Begins(c)
    PROVE  ClientInv'
<1>1. PICK u \in Subjects \ {Everyone}, k \in AllKinds :
         \/ k = "tool" /\ u \in Users /\ ToolCallArrives(c, u)
         \/ k = "consent" /\ ConsentArrives(c, u)
         \/ \E tooLong \in BOOLEAN : OAuthArrives(c, k, u, tooLong)
    BY DEF Begins
<1>2. CASE ToolCallArrives(c, u)
    BY <1>2, ArrivesKeepsClient DEF ToolCallArrives
<1>3. CASE ConsentArrives(c, u)
    BY <1>3, ArrivesKeepsClient DEF ConsentArrives
<1>4. ASSUME NEW tooLong \in BOOLEAN, OAuthArrives(c, k, u, tooLong)
      PROVE  ClientInv'
    BY <1>4, ArrivesKeepsClient DEF OAuthArrives
<1> QED
    BY <1>1, <1>2, <1>3, <1>4

(* A renewal, also one that overtakes a later one, leaves enough for every *)
(* token minted so far and by every request under way.                     *)
LEMMA RenewalKeepsClient ==
    ASSUME FrontAssumption, LivesLong, ClientInv, Exchanges, NEW c \in Calls, ClientRenews(c)
    PROVE  ClientInv'
<1>1. /\ req[c].at = "renew" /\ Goto(c, "grant") /\ UNCHANGED <<now, refreshUntil>>
      /\ client' = IF client = NoClient THEN NoClient ELSE req[c].renewTo
    BY DEF ClientRenews
<1>2. Underway(c)
    BY <1>1 DEF Underway
<1>3. /\ now \in Nat /\ client \in Int /\ req[c].began \in Nat /\ req[c].renewTo \in Int
      /\ req[c].began <= now /\ now <= req[c].began + MaxRun
      /\ client > req[c].began /\ req[c].renewTo >= req[c].began + ClientTTL
    BY <1>1, <1>2 DEF ClientInv, ClientFits
<1>4. client # NoClient
    BY <1>3 DEF NoClient
<1>5. client' = req[c].renewTo /\ client' \in Int /\ client' >= now + MaxRun + 2 * RefreshTTL
    BY <1>1, <1>3, <1>4, LivesAre DEF LivesLong
<1>6. /\ OnlyHis(c) /\ req'[c].at = "grant" /\ req'[c].began = req[c].began
      /\ req'[c].renewTo = req[c].renewTo
    BY <1>1, PlacesTaken
<1>7. \A d \in Calls : req'[d].began = req[d].began /\ req'[d].renewTo = req[d].renewTo
    BY <1>6 DEF OnlyHis
<1>8. ASSUME NEW d \in Calls
      PROVE  ClientFits(d)'
    <2>1. Underway(d)' => Underway(d)
        BY <1>1, <1>6 DEF OnlyHis, Underway
    <2>2. req'[d].at = "renew" => req[d].at = "renew"
        BY <1>6 DEF OnlyHis
    <2>3. req'[d].at \in {"renew", "grant"} => Underway(d)'
        BY DEF Underway
    <2>4. ClientFits(d) /\ req[d].began \in Nat
        BY DEF ClientInv
    <2>5. Underway(d) => req[d].began <= now /\ now <= req[d].began + MaxRun
        BY <2>4 DEF ClientFits
    <2>6. req'[d].at = "renew" => req[d].renewTo >= req[d].began + ClientTTL
        BY <2>2, <2>4 DEF ClientFits
    <2>7. Underway(d) => client' >= req[d].began + MaxRun + RefreshTTL /\ client' > req[d].began
        BY <1>3, <1>5, <2>4, <2>5, LivesAre
    <2> QED BY <1>1, <1>7, <2>1, <2>3, <2>5, <2>6, <2>7 DEF ClientFits
<1>9. refreshUntil <= now + RefreshTTL /\ refreshUntil \in Int
    BY DEF ClientInv
<1>10. \A d \in Calls : req'[d].began \in Nat /\ req'[d].renewTo \in Int
    BY <1>7 DEF ClientInv
<1> QED
    BY <1>1, <1>3, <1>5, <1>8, <1>9, <1>10, LivesAre DEF ClientInv

LEMMA ReadKeepsClient ==
    ASSUME FrontAssumption, LivesLong, ClientInv, Exchanges, NEW c \in Calls, ClientReads(c)
    PROVE  ClientInv'
<1>1. req[c].at = "oauth" /\ UNCHANGED <<now, client, refreshUntil>>
    BY DEF ClientReads, clientVars
<1>2. CASE Finishes(c)
    BY <1>1, <1>2, EndsKeepsClient DEF clientVars
<1>3. /\ now \in Nat /\ client \in Int /\ req[c].began \in Nat
      /\ req[c].began <= now /\ now <= req[c].began + MaxRun
    BY <1>1 DEF ClientInv, ClientFits, Underway
<1>4. \A d \in Calls \ {c} : OnlyHis(c) => ClientFits(d)'
    BY <1>1 DEF ClientInv, ClientFits, Underway, OnlyHis
<1>5. CASE client > now /\ req' = [req EXCEPT ![c].at = "renew", ![c].renewTo = now + ClientTTL]
    <2> DEFINE until == now + ClientTTL
               r == [req[c] EXCEPT !.at = "renew", !.renewTo = until]
    <2>1. req' = [req EXCEPT ![c] = r]
        BY <1>5 DEF Exchanges
    <2>2. r.at = "renew" /\ r.renewTo = until /\ r.began = req[c].began
        BY DEF Exchanges, Exchange, Requests
    <2>3. until \in Int /\ until >= req[c].began + ClientTTL
        BY <1>3, LivesAre
    <2> HIDE DEF r, until
    <2>4. OnlyHis(c) /\ req'[c] = r
        BY <2>1, OnlyOneMoves
    <2>5. ClientFits(c)'
        <3>1. /\ req'[c].at = "renew" /\ req'[c].began = req[c].began
              /\ req'[c].renewTo = until /\ now' = now /\ client' = client
            BY <1>1, <2>2, <2>4
        <3>2. client > req[c].began
            BY <1>3, <1>5
        <3> QED BY <1>3, <2>3, <3>1, <3>2 DEF ClientFits
    <2> QED BY <1>1, <1>3, <1>4, <2>2, <2>3, <2>4, <2>5 DEF ClientInv, OnlyHis
<1>6. CASE client > now /\ ~RenewalDue(client - now) /\ Goto(c, "grant")
    <2>1. /\ OnlyHis(c) /\ req'[c].at = "grant" /\ req'[c].began = req[c].began
          /\ req'[c].renewTo = req[c].renewTo
        BY <1>6, PlacesTaken
    <2>2. client >= now + RefreshTTL + MaxRun
        BY <1>3, <1>6, LivesAre DEF RenewalDue, LivesLong
    <2>3. ClientFits(c)'
        BY <1>1, <1>3, <2>1, <2>2, LivesAre DEF ClientFits
    <2> QED BY <1>1, <1>3, <1>4, <2>1, <2>3 DEF ClientInv, OnlyHis
<1> QED
    BY <1>2, <1>3, <1>5, <1>6 DEF ClientReads

LEMMA GrantKeepsClient ==
    ASSUME FrontAssumption, ClientInv, Exchanges, NEW c \in Calls, Grants(c)
    PROVE  ClientInv'
<1>1. /\ req[c].at = "grant" /\ Finishes(c) /\ UNCHANGED <<now, client>>
      /\ refreshUntil' = refreshUntil \/ refreshUntil' = now + RefreshTTL
    BY DEF Grants
<1>2. /\ now \in Nat /\ client \in Int /\ req[c].began \in Nat
      /\ now <= req[c].began + MaxRun /\ client >= req[c].began + MaxRun + RefreshTTL
    BY <1>1 DEF ClientInv, ClientFits, Underway
<1>3. client >= now + RefreshTTL
    BY <1>2, LivesAre
<1>4. OnlyHis(c) /\ req'[c].at = "end" /\ req'[c].began = 0 /\ req'[c].renewTo = 0
    BY <1>1, PlacesTaken DEF Finishes
<1>5. \A d \in Calls : ClientFits(d)'
    BY <1>1, <1>4 DEF ClientInv, ClientFits, Underway, OnlyHis
<1>6. \A d \in Calls : req'[d].began \in Nat /\ req'[d].renewTo \in Int
    BY <1>4 DEF ClientInv, OnlyHis
<1>7. /\ refreshUntil' \in Int /\ refreshUntil' <= now + RefreshTTL
      /\ refreshUntil' > now => client >= refreshUntil'
    BY <1>1, <1>2, <1>3, LivesAre DEF ClientInv
<1> QED
    BY <1>1, <1>2, <1>5, <1>6, <1>7 DEF ClientInv

(* A first registration finds no request that has read the record. *)
LEMMA RegistrationKeepsClient ==
    ASSUME FrontAssumption, ClientInv, Exchanges, NEW c \in Calls, Registers(c)
    PROVE  ClientInv'
<1>1. req[c].at = "register" /\ Finishes(c) /\ UNCHANGED <<now, refreshUntil>>
    BY DEF Registers
<1>2. CASE UNCHANGED client
    BY <1>1, <1>2, EndsKeepsClient DEF clientVars
<1>3. CASE client = NoClient /\ refreshUntil = 0 /\ client' = now + FirstClientTTL
    <2>1. OnlyHis(c) /\ req'[c].at = "end" /\ req'[c].began = 0 /\ req'[c].renewTo = 0
        BY <1>1, PlacesTaken DEF Finishes
    <2>2. \A d \in Calls : req[d].at \notin {"renew", "grant"}
        BY <1>3, LivesAre DEF ClientInv, ClientFits, NoClient
    <2>3. \A d \in Calls : ClientFits(d)'
        BY <1>1, <2>1, <2>2 DEF ClientInv, ClientFits, Underway, OnlyHis
    <2>4. \A d \in Calls : req'[d].began \in Nat /\ req'[d].renewTo \in Int
        BY <2>1 DEF ClientInv, OnlyHis
    <2> QED BY <1>1, <1>3, <2>3, <2>4, LivesAre DEF ClientInv
<1> QED
    BY <1>2, <1>3 DEF Registers

LEMMA StepKeepsClient ==
    ASSUME FrontAssumption, LivesLong, ClientInv, Exchanges, NEW c \in Calls, Step(c)
    PROVE  ClientInv'
<1>1. CASE LooksUp(c)
    <2>1. UNCHANGED <<now, req, client, refreshUntil>>
        BY <1>1 DEF LooksUp, clientVars
    <2> QED BY <2>1 DEF ClientInv, ClientFits, Underway
<1>2. CASE ToolCallJudged(c) \/ ConsentJudged(c)
    BY <1>2, EndsKeepsClient DEF ToolCallJudged, ConsentJudged
<1>3. CASE ConsentVerified(c)
    <2>1. ASSUME NEW u \in Users, req' = [req EXCEPT ![c].at = "gate", ![c].who = u]
          PROVE  ClientInv'
        <3>1. /\ OnlyHis(c) /\ req'[c].at = "gate" /\ req'[c].began = req[c].began
              /\ req'[c].renewTo = req[c].renewTo
            BY <2>1 DEF OnlyHis, Exchanges, Exchange, Requests
        <3>2. ~Underway(c)'
            BY <3>1 DEF Underway
        <3> QED BY <1>3, <3>1, <3>2, ElsewhereKeepsClient DEF ConsentVerified, ClientInv
    <2> QED BY <1>3, <2>1, EndsKeepsClient DEF ConsentVerified
<1>4. ASSUME NEW tooLong \in BOOLEAN, RegistrationArrives(c, tooLong)
      PROVE  ClientInv'
    BY <1>4, EndsKeepsClient, GotoKeepsClient DEF RegistrationArrives
<1>5. ASSUME NEW r, req' = [req EXCEPT ![c] = r], UNCHANGED <<now, clientVars>>, r.at = "body",
             req[c].at = "body", r.began = req[c].began, r.renewTo = req[c].renewTo
      PROVE  ClientInv'
    <2>1. OnlyHis(c) /\ req'[c] = r /\ Underway(c)
        BY <1>5, OnlyOneMoves DEF Underway
    <2> QED BY <1>5, <2>1, ElsewhereKeepsClient DEF ClientInv
<1>6. CASE BodyArrives(c)
    <2> DEFINE r == [req[c] EXCEPT !.delivered = req[c].delivered + 1]
    <2>1. r.at = req[c].at /\ r.began = req[c].began /\ r.renewTo = req[c].renewTo
        BY DEF Exchanges, Exchange, Requests
    <2>2. req' = [req EXCEPT ![c] = r] /\ req[c].at = "body" /\ UNCHANGED <<now, clientVars>>
        BY <1>6 DEF BodyArrives
    <2> HIDE DEF r
    <2> QED BY <1>5, <2>1, <2>2
<1>7. CASE HandlerStartsEarly(c)
    <2> DEFINE r == [req[c] EXCEPT !.starts = 1]
    <2>1. r.at = req[c].at /\ r.began = req[c].began /\ r.renewTo = req[c].renewTo
        BY DEF Exchanges, Exchange, Requests
    <2>2. req' = [req EXCEPT ![c] = r] /\ req[c].at = "body" /\ UNCHANGED <<now, clientVars>>
        BY <1>7 DEF HandlerStartsEarly
    <2> HIDE DEF r
    <2> QED BY <1>5, <2>1, <2>2
<1>8. CASE BodyExceeds(c)
    BY <1>8, EndsKeepsClient DEF BodyExceeds, TooLarge
<1>9. CASE BodyRead(c)
    <2>1. req[c].at = "body" /\ Goto(c, req[c].kind) /\ UNCHANGED <<now, clientVars>>
        BY <1>9 DEF BodyRead
    <2>2. req[c].kind \in {"register", "oauth"}
        BY <2>1, WhoAsks
    <2> QED BY <2>1, <2>2, GotoKeepsClient
<1> QED
    BY <1>1, <1>2, <1>3, <1>4, <1>6, <1>7, <1>8, <1>9, RegistrationKeepsClient,
       ReadKeepsClient, RenewalKeepsClient, GrantKeepsClient DEF Step

(* What is collected is older than any request that has read it. *)
LEMMA CollectionKeepsClient ==
    ASSUME FrontAssumption, LivesLong, ClientInv, ClientCollected
    PROVE  ClientInv'
<1>1. client + CollectLag <= now /\ client' = NoClient /\ UNCHANGED <<now, req, refreshUntil>>
    BY DEF ClientCollected
<1>2. refreshUntil <= now
    BY <1>1, LivesAre DEF ClientInv
<1>3. ASSUME NEW c \in Calls
      PROVE  req[c].at \notin {"renew", "grant"}
    <2>1. /\ now \in Nat /\ client \in Int /\ req[c].began \in Nat /\ ClientFits(c)
        BY DEF ClientInv
    <2>2. req[c].at \in {"renew", "grant"} =>
             client > req[c].began /\ now <= req[c].began + MaxRun
        BY <2>1, LivesAre DEF ClientFits, Underway
    <2> QED BY <1>1, <2>1, <2>2, LivesAre DEF LivesLong
<1>4. \A c \in Calls : ClientFits(c)'
    BY <1>1, <1>3 DEF ClientInv, ClientFits, Underway
<1> QED
    BY <1>1, <1>2, <1>4 DEF ClientInv, NoClient

LEMMA TickKeepsClient ==
    ASSUME FrontAssumption, ClientInv, Tick
    PROVE  ClientInv'
<1>1. now' = now + 1 /\ UNCHANGED <<req, client, refreshUntil>>
    BY DEF Tick, clientVars
<1>2. \A c \in Calls : Underway(c) => now + 1 <= req[c].began + MaxRun
    BY LivesAre DEF Tick, ClientInv
<1>3. \A c \in Calls : ClientFits(c)'
    BY <1>1, <1>2 DEF ClientInv, ClientFits, Underway
<1> QED
    BY <1>1, <1>3, LivesAre DEF ClientInv

LEMMA ClientInvInit ==
    ASSUME FrontAssumption, Init
    PROVE  ClientInv
<1>1. /\ now = 0 /\ client = -1 /\ refreshUntil = 0
      /\ \A c \in Calls : req[c] = NoRequest
    BY DEF Init, NoClient
<1>2. NoRequest.at = "idle" /\ NoRequest.began = 0 /\ NoRequest.renewTo = 0
    BY DEF NoRequest
<1> QED
    BY <1>1, <1>2, LivesAre DEF ClientInv, ClientFits, Underway

LEMMA ClientInvNext ==
    ASSUME FrontAssumption, LivesLong, ClientInv, Exchanges, [Next]_vars
    PROVE  ClientInv'
<1>1. CASE UNCHANGED <<now, req, clientVars>>
    BY <1>1 DEF clientVars, ClientInv, ClientFits, Underway
<1>2. Decides \/ UNCHANGED vars => UNCHANGED <<now, req, clientVars>>
    BY DEF Decides, vars
<1> QED
    BY <1>1, <1>2, BeginsKeepsClient, StepKeepsClient, CollectionKeepsClient, TickKeepsClient
       DEF Next

(* A client's record outlives every refresh token issued to it, whichever  *)
(* requests renew it and in whatever order, if it is set to live twice as  *)
(* long as a token and a request together (oauth_provider.get_client).     *)
THEOREM ClientsOutliveTokens ==
    ASSUME LimiterAssumption, FrontAssumption, LivesLong
    PROVE  Spec => []ClientOutlivesTokens
<1>1. ClientInv => ClientOutlivesTokens
    BY DEF ClientInv, ClientOutlivesTokens
<1>2. Init => ClientInv
    BY ClientInvInit
<1>3. ClientInv /\ FrontInv /\ [Next]_vars => ClientInv'
    BY ClientInvNext DEF FrontInv
<1> QED
    BY <1>1, <1>2, <1>3, FrontInvHolds, PTL DEF Spec
=============================================================================
