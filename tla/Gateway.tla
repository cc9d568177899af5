------------------------------ MODULE Gateway ------------------------------
(***************************************************************************)
(* What a request passes before its handler, and two handlers that must    *)
(* not do their work twice:                                                *)
(*                                                                         *)
(*   auth.ts                       who calls, and with which status        *)
(*   middleware/rateLimit.ts       sliding windows, in memory or in Redis  *)
(*   middleware/idempotency.ts     Idempotency-Key of a points transfer    *)
(*   routes/points.ts              POST /transfer                          *)
(*   routes/verification.ts        initiate and confirm                    *)
(*   lib/twitter.ts                verifyTweet                             *)
(*   routes/agents.ts              register                                *)
(*                                                                         *)
(* Every await of a request is a step of its own; the status of the agent  *)
(* is the one that authMiddleware read.  The limiters are synchronous in   *)
(* memory and one MULTI in Redis: one step.                                *)
(***************************************************************************)
EXTENDS Naturals, Sequences, FiniteSets

CONSTANTS
    Agents,
    Keys,           \* idempotency keys that clients choose
    Slots,          \* requests in flight at a time
    Limit,          \* requests per window, of every limiter
    Window,         \* its length in ticks
    Expiry,         \* lifetime of a challenge in ticks
    AutoVerify,     \* TWITTER_API_BEARER_TOKEN is not set
    MaxRequests,    \* bound: requests
    MaxChallenges,  \* bound: challenges of one agent
    MaxTime,        \* bound: ticks
    MaxFaults       \* bound: process crashes

ASSUME BoundsAssumption ==
    /\ {Limit, Window, Expiry, MaxRequests, MaxChallenges, MaxTime, MaxFaults} \subseteq Nat
    /\ AutoVerify \in BOOLEAN
\* A registered agent, a key, and no name for both (AnAgent and AKey stand for a field
\* that is not used).
ASSUME NamesAssumption == Agents # {} /\ Keys # {} /\ Agents \cap Keys = {}

VARIABLES
    status,     \* agents.status; "none" before registration
    challenges, \* verification_challenges of each agent, oldest first
    bonus,      \* starter bonuses credited to each agent
    keyRow,     \* idempotency_keys
    executed,   \* history: transfers made under each key
    redis,      \* is the Redis store in use?
    window,     \* timestamps in each limiter's store
    admitted,   \* history: when each limiter let a request pass, in the last window
    req,        \* requests in flight
    raced,      \* history: keys and agents with two requests between check and mark
    now, requests, faults

store == <<window, admitted>>
vars == <<status, challenges, bonus, keyRow, executed, redis, window, admitted, req, raced,
          now, requests, faults>>

-----------------------------------------------------------------------------
Statuses == {"none", "unverified", "verified", "suspended"}
Challenge == [at : Nat, used : BOOLEAN]
KeyRow == [state : {"absent", "reserved", "stored"}, agent : Agents]
Routes == {"transfer", "initiate", "confirm"}

\* Limiters: transfers by agent, verification by address.  Without TRUSTED_PROXY
\* every address is 'unknown'.
Limiters == Agents \cup {"verification"}
LimiterOf(r) == IF r.route = "transfer" THEN r.agent ELSE "verification"

Pc == {"idle", "limit", "lookup", "reserve", "run", "store",
       "insert", "challenge", "verify", "use", "mark", "credit"}
Request == [pc : Pc, route : Routes, agent : Agents, key : Keys, seen : Statuses,
            challenge : Nat]

AnAgent == CHOOSE a \in Agents : TRUE
AKey == CHOOSE k \in Keys : TRUE
Idle == [pc |-> "idle", route |-> "transfer", agent |-> AnAgent, key |-> AKey,
         seen |-> "none", challenge |-> 0]

Init ==
    /\ status = [a \in Agents |-> "none"]
    /\ challenges = [a \in Agents |-> <<>>]
    /\ bonus = [a \in Agents |-> 0]
    /\ keyRow = [k \in Keys |-> [state |-> "absent", agent |-> AnAgent]]
    /\ executed = [k \in Keys |-> 0]
    /\ redis \in BOOLEAN
    /\ window = [l \in Limiters |-> <<>>]
    /\ admitted = [l \in Limiters |-> <<>>]
    /\ req = [s \in Slots |-> Idle]
    /\ raced = {}
    /\ now = 0 /\ requests = 0 /\ faults = 0

\* register; with AutoVerify it credits the bonus.  owner_twitter is unique, so
\* an owner's second registration fails.
Register(a) ==
    /\ status[a] = "none"
    /\ status' = [status EXCEPT ![a] = IF AutoVerify THEN "verified" ELSE "unverified"]
    /\ bonus' = [bonus EXCEPT ![a] = IF AutoVerify THEN 1 ELSE 0]
    /\ UNCHANGED <<challenges, keyRow, executed, redis, store, req, raced, now, requests, faults>>

\* An operator suspends an agent in the database: no endpoint does it.
Suspend(a) ==
    /\ status[a] \in {"unverified", "verified"}
    /\ status' = [status EXCEPT ![a] = "suspended"]
    /\ UNCHANGED <<challenges, bonus, keyRow, executed, redis, store, req, raced, now, requests, faults>>

(***************************************************************************)
(* auth.ts                                                                 *)
(***************************************************************************)
Goto(s, pc) == req' = [req EXCEPT ![s].pc = pc]
Answer(s) == req' = [req EXCEPT ![s] = Idle]

\* A confirmation that has read an unverified status and has not marked the agent.
Confirming(s, a) ==
    req[s].route = "confirm" /\ req[s].agent = a
        /\ req[s].pc \in {"limit", "challenge", "verify", "use", "mark"}

\* authMiddleware reads the agent; unknown and suspended ones are refused.
Arrive(s) ==
    /\ req[s].pc = "idle" /\ requests < MaxRequests
    /\ requests' = requests + 1
    /\ \E route \in Routes, a \in Agents, k \in Keys :
        /\ status[a] \in {"unverified", "verified"}
        /\ route /= "transfer" => k = AKey
        /\ req' = [req EXCEPT ![s] = [pc |-> "limit", route |-> route, agent |-> a, key |-> k,
                                      seen |-> status[a], challenge |-> 0]]
        /\ raced' = IF route = "confirm" /\ \E t \in Slots : Confirming(t, a)
                    THEN raced \cup {a} ELSE raced
    /\ UNCHANGED <<status, challenges, bonus, keyRow, executed, redis, store, now, faults>>

(***************************************************************************)
(* rateLimit.ts                                                            *)
(***************************************************************************)
\* The timestamps less than a window old at a time, from the oldest on.  It is
\* SelectSeq written as a function, which the provers can expand.
Since(ts, at) ==
    LET kept[i \in 0 .. Len(ts)] ==
            IF i = 0 THEN <<>>
            ELSE IF ts[i] + Window > at THEN Append(kept[i - 1], ts[i]) ELSE kept[i - 1]
    IN kept[Len(ts)]
Recent(ts) == Since(ts, now)

\* Mutant of MayPass: counting the request itself as allowed.
MayPassOneMore(count) == count <= Limit

MayPass(count) == count < Limit

\* memoryCheck counts only the requests it lets pass, redisCheck all of them.
Check(l) ==
    LET recent == Recent(window[l])
        allowed == MayPass(Len(recent))
    IN /\ window' = [window EXCEPT ![l] = IF allowed \/ redis THEN Append(recent, now) ELSE recent]
       /\ admitted' = [admitted EXCEPT ![l] = IF allowed THEN Append(@, now) ELSE @]

FirstStep(route) ==
    CASE route = "transfer" -> "lookup" [] route = "initiate" -> "insert" [] OTHER -> "challenge"

\* The answer is 429 if the window is full.  initiate and confirm then refuse
\* whom authMiddleware found verified.
Limited(s) ==
    /\ req[s].pc = "limit"
    /\ Check(LimiterOf(req[s]))
    /\ IF /\ MayPass(Len(Recent(window[LimiterOf(req[s])])))
          /\ req[s].route /= "transfer" => req[s].seen /= "verified"
       THEN Goto(s, FirstStep(req[s].route)) ELSE Answer(s)
    /\ UNCHANGED <<status, challenges, bonus, keyRow, executed, redis, raced, now, requests, faults>>

\* The sweep of memoryStore: entries idle for two windows.
Evict(l) ==
    /\ ~redis /\ window[l] /= <<>>
    /\ window[l][Len(window[l])] + 2 * Window < now
    /\ window' = [window EXCEPT ![l] = <<>>]
    /\ UNCHANGED <<status, challenges, bonus, keyRow, executed, redis, admitted, req, raced, now, requests, faults>>

(***************************************************************************)
(* idempotency.ts and POST /points/transfer                                *)
(***************************************************************************)
Reserving(s, k) == req[s].route = "transfer" /\ req[s].key = k /\ req[s].pc = "reserve"

\* A known key: 403, the stored result, or 409.
Lookup(s) ==
    LET k == req[s].key
    IN /\ req[s].pc = "lookup"
       /\ IF keyRow[k].state = "absent"
          THEN /\ Goto(s, "reserve")
               /\ raced' = IF \E t \in Slots : Reserving(t, k) THEN raced \cup {k} ELSE raced
          ELSE /\ Answer(s)
               /\ UNCHANGED raced
       /\ UNCHANGED <<status, challenges, bonus, keyRow, executed, redis, store, now, requests, faults>>

\* Mutant of Reserve: leaving the row to StoreResult.
ReserveNothing(s) ==
    /\ req[s].pc = "reserve"
    /\ Goto(s, "run")
    /\ UNCHANGED <<status, challenges, bonus, keyRow, executed, redis, store, raced, now, requests, faults>>

\* INSERT ... ON CONFLICT DO NOTHING, and on in either case.
Reserve(s) ==
    LET k == req[s].key
    IN /\ req[s].pc = "reserve"
       /\ keyRow' = IF keyRow[k].state = "absent"
                    THEN [keyRow EXCEPT ![k] = [state |-> "reserved", agent |-> req[s].agent]]
                    ELSE keyRow
       /\ Goto(s, "run")
       /\ UNCHANGED <<status, challenges, bonus, executed, redis, store, raced, now, requests, faults>>

\* Not verified, an unknown recipient, no balance, a deadlock: the key stays reserved.
TransferFails(s) ==
    /\ req[s].pc = "run"
    /\ Answer(s)
    /\ UNCHANGED <<keyRow, executed>>

TransferDone(s) ==
    /\ req[s].pc = "run" /\ req[s].seen = "verified"
    /\ executed' = [executed EXCEPT ![req[s].key] = @ + 1]
    /\ Goto(s, "store")
    /\ UNCHANGED keyRow

\* UPDATE ... WHERE key: the row may be another request's.
StoreResult(s) ==
    /\ req[s].pc = "store"
    /\ keyRow' = [keyRow EXCEPT ![req[s].key].state = IF @ = "absent" THEN @ ELSE "stored"]
    /\ Answer(s)
    /\ UNCHANGED executed

Transfer(s) == /\ TransferFails(s) \/ TransferDone(s) \/ StoreResult(s)
               /\ UNCHANGED <<status, challenges, bonus, redis, store, raced, now, requests, faults>>

\* cleanup-idempotency deletes keys of the day before: nobody uses them any more.
CleanUpKey(k) ==
    /\ keyRow[k].state /= "absent"
    /\ \A s \in Slots : req[s].pc = "idle"
    /\ keyRow' = [keyRow EXCEPT ![k].state = "absent"]
    /\ executed' = [executed EXCEPT ![k] = 0]
    /\ raced' = raced \ {k}
    /\ UNCHANGED <<status, challenges, bonus, redis, store, req, now, requests, faults>>

(***************************************************************************)
(* verification.ts and twitter.ts                                          *)
(***************************************************************************)
InitiateInsert(s) ==
    LET a == req[s].agent
    IN /\ req[s].pc = "insert" /\ Len(challenges[a]) < MaxChallenges
       /\ challenges' = [challenges EXCEPT ![a] = Append(@, [at |-> now, used |-> FALSE])]
       /\ Answer(s)
       /\ UNCHANGED <<status, bonus, raced>>

\* The latest challenge that is not used.
Unused(a) == {i \in DOMAIN challenges[a] : ~challenges[a][i].used}
Latest(a) == {i \in Unused(a) : \A j \in Unused(a) : j <= i}
InTime(a) == {i \in Latest(a) : now <= challenges[a][i].at + Expiry}

\* No challenge, or an expired one: 400.
ReadChallenge(s) ==
    LET a == req[s].agent
    IN /\ req[s].pc = "challenge"
       /\ \/ InTime(a) = {} /\ Answer(s)
          \/ \E i \in InTime(a) : req' = [req EXCEPT ![s].pc = "verify", ![s].challenge = i]
       /\ UNCHANGED <<status, challenges, bonus, raced>>

\* What verifyTweet finds: a tweet, its author, the code in it, its date.
Tweets == [url : BOOLEAN, found : BOOLEAN, served : BOOLEAN, byOwner : BOOLEAN,
           code : Nat, tagged : BOOLEAN, at : Nat]

verifyTweet(tweet, challenge, since) ==
    \/ AutoVerify
    \/ /\ tweet.url /\ tweet.served /\ tweet.found /\ tweet.byOwner /\ tweet.tagged
       /\ tweet.code = challenge
       /\ tweet.at >= since /\ tweet.at <= since + Expiry

\* One of the tweets the world may hold by now; most of what can be wrong with a
\* tweet has the same effect.
Candidates == [url : {TRUE}, found : {TRUE}, served : BOOLEAN, byOwner : {TRUE},
               code : 1 .. MaxChallenges, tagged : {TRUE}, at : 0 .. now]

VerifyChallenge(s) ==
    LET i == req[s].challenge
    IN /\ req[s].pc = "verify"
       /\ \E tweet \in Candidates :
            IF verifyTweet(tweet, i, challenges[req[s].agent][i].at)
            THEN Goto(s, "use") ELSE Answer(s)
       /\ UNCHANGED <<status, challenges, bonus, raced>>

UseChallenge(s) ==
    /\ req[s].pc = "use"
    /\ challenges' = [challenges EXCEPT ![req[s].agent][req[s].challenge].used = TRUE]
    /\ Goto(s, "mark")
    /\ UNCHANGED <<status, bonus, raced>>

\* Mutant of MarkVerified: not marking.
MarkNothing(s) ==
    /\ req[s].pc = "mark"
    /\ Goto(s, "credit")
    /\ UNCHANGED <<status, challenges, bonus, raced>>

\* By id, whatever the status is now.
MarkVerified(s) ==
    /\ req[s].pc = "mark"
    /\ status' = [status EXCEPT ![req[s].agent] = "verified"]
    /\ Goto(s, "credit")
    /\ UNCHANGED <<challenges, bonus, raced>>

CreditBonus(s) ==
    /\ req[s].pc = "credit"
    /\ bonus' = [bonus EXCEPT ![req[s].agent] = @ + 1]
    /\ Answer(s)
    /\ UNCHANGED <<status, challenges, raced>>

Verification(s) ==
    /\ \/ InitiateInsert(s) \/ ReadChallenge(s) \/ VerifyChallenge(s)
       \/ UseChallenge(s) \/ MarkVerified(s) \/ CreditBonus(s)
    /\ UNCHANGED <<keyRow, executed, redis, store, now, requests, faults>>

-----------------------------------------------------------------------------
Tick ==
    /\ now < MaxTime
    /\ now' = now + 1
    /\ admitted' = [l \in Limiters |-> Since(admitted[l], now + 1)]
    /\ UNCHANGED <<status, challenges, bonus, keyRow, executed, redis, window, req, raced, requests, faults>>

\* The process stops and starts: requests are cut short, memory is empty.
Crash ==
    /\ faults < MaxFaults
    /\ faults' = faults + 1
    /\ req' = [s \in Slots |-> Idle]
    /\ window' = IF redis THEN window ELSE [l \in Limiters |-> <<>>]
    /\ UNCHANGED <<status, challenges, bonus, keyRow, executed, redis, admitted, raced, now, requests>>

Next ==
    \/ \E a \in Agents : Register(a) \/ Suspend(a)
    \/ \E s \in Slots : Arrive(s) \/ Limited(s) \/ Lookup(s) \/ Reserve(s) \/ Transfer(s) \/ Verification(s)
    \/ \E l \in Limiters : Evict(l)
    \/ \E k \in Keys : CleanUpKey(k)
    \/ Tick
    \/ Crash

Spec == Init /\ [][Next]_vars

-----------------------------------------------------------------------------
RowTypes ==
    /\ status \in [Agents -> Statuses]
    /\ challenges \in [Agents -> Seq(Challenge)]
    /\ bonus \in [Agents -> Nat]
    /\ keyRow \in [Keys -> KeyRow]
    /\ executed \in [Keys -> Nat]
    /\ req \in [Slots -> Request]
    /\ raced \subseteq Agents \cup Keys
    /\ now \in 0 .. MaxTime /\ requests \in 0 .. MaxRequests /\ faults \in 0 .. MaxFaults
TypeOK ==
    /\ RowTypes
    /\ redis \in BOOLEAN
    /\ window \in [Limiters -> Seq(Nat)]
    /\ admitted \in [Limiters -> Seq(Nat)]

\* Retries are safe: whatever fails, times out or crashes, a key moves points
\* twice only if two requests looked it up before either had reserved it.  The
\* middleware's comment promises more, "concurrent requests get 409": but its
\* INSERT ignores a conflict and goes on, so two such requests both move points.
OncePerKey == \A k \in Keys : executed[k] > 1 => k \in raced

\* An agent is paid the starter bonus twice only if two confirmations overlapped
\* between authentication and the update of the agent.
BonusOnce == \A a \in Agents : bonus[a] > 1 => a \in raced

\* No window of time sees more requests pass a limiter than its limit, except
\* that a restart forgets what memory held.
RateKept == \A l \in Limiters : Len(Recent(admitted[l])) <= Limit * (1 + faults)
=============================================================================
