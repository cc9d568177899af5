------------------------------- MODULE Webhooks -------------------------------
(***************************************************************************)
(* Notices to agents:                                                      *)
(*                                                                         *)
(*   lib/webhooks.ts              deliverWebhook, runWebhookRetries        *)
(*   lib/ssrf.ts, ssrfGuard.ts    which addresses are asked, and the fetch *)
(*   routes/agents.ts             PATCH /me sets and removes webhook_url   *)
(*   services/timeoutService.ts   runDeadlineWarnings, a source of notices *)
(*   services/, routes/, lib/     the other callers of fireWebhook         *)
(*                                                                         *)
(* deliverWebhook runs on its own, after its caller has gone on.  Retries  *)
(* run every ten seconds, and a run that is slower than that overlaps with *)
(* the next one; so may runs of the warnings.  Every await is a step of    *)
(* its own, and every statement may throw.                                 *)
(***************************************************************************)
EXTENDS Naturals, FiniteSets

CONSTANTS
    Agents,
    MaxDeliveries,  \* bound: rows of webhook_deliveries
    Items,          \* orders and tasks that have a deadline
    Runs,           \* retry runs that may overlap
    WarnRuns,       \* runs of runDeadlineWarnings that may overlap
    Batch,          \* rows a run selects: 50
    MaxAttempts,    \* MAX_ATTEMPTS: 3
    MaxHeld,        \* bound: rows held by all retry runs together
    MaxPatches,     \* bound: changes of a webhook_url by its owner
    MaxFaults       \* bound: process crashes and statements that throw

ASSUME WebhooksAssumption ==
    /\ Agents # {}
    /\ {MaxDeliveries, Batch, MaxAttempts, MaxHeld, MaxPatches, MaxFaults} \subseteq Nat
    /\ IsFiniteSet(WarnRuns)
    /\ MaxDeliveries > 0 /\ Batch > 0 /\ MaxAttempts > 1

VARIABLES
    url,        \* agents with a webhook_url and a secret
    row,        \* webhook_deliveries
    first,      \* deliverWebhook of each row: where it is
    run,        \* retry runs
    failures,   \* history: requests of each row that brought no 2xx answer, up to MaxAttempts
    unrecorded, \* history: 2xx answers of each row that could not be recorded
    blocked,    \* history: rows whose address was refused
    item,       \* orders and tasks: [near, warned]
    warner,     \* runs of runDeadlineWarnings
    notices,    \* history: times each item's warning was sent out
    reselected, \* history: times a run selected an item that another had in hand
    patches, faults

vars == <<url, row, first, run, failures, unrecorded, blocked, item, warner, notices, reselected,
          patches, faults>>
warnings == <<item, warner, notices, reselected>>
answers == <<failures, unrecorded, blocked>>

-----------------------------------------------------------------------------
Deliveries == 1 .. MaxDeliveries

\* next_retry_at: null, in the future, or past.
Retries == {"none", "later", "due"}
Row == [agent : Agents, attempt : 1 .. MaxAttempts, delivered : BOOLEAN, retry : Retries]
NoRow == [attempt |-> 0]

FirstPc == {"free", "read", "ok", "failed", "blocked", "done"}
First == [pc : FirstPc, agent : Agents]

\* A retry run holds the rows it selected with the attempts they had then.
Held == [d : Deliveries, attempt : 1 .. MaxAttempts]
RunPc == {"idle", "agent", "ok", "failed", "blocked", "clear"}
Run == [pc : RunPc, held : SUBSET Held, d : Deliveries, attempt : 0 .. MaxAttempts]

AnAgent == CHOOSE a \in Agents : TRUE
IdleRun == [pc |-> "idle", held |-> {}, d |-> 1, attempt |-> 0]

\* near: the item waits for somebody, and its deadline is less than the warning
\* period ahead.
Item == [near : BOOLEAN, warned : BOOLEAN]
Warner == [selected : SUBSET Items, stamping : SUBSET Items]
NoWarner == [selected |-> {}, stamping |-> {}]

Init ==
    /\ url = Agents
    /\ row = [d \in Deliveries |-> NoRow]
    /\ first = [d \in Deliveries |-> [pc |-> "free", agent |-> AnAgent]]
    /\ run = [r \in Runs |-> IdleRun]
    /\ failures = [d \in Deliveries |-> 0]
    /\ blocked = {}
    /\ item = [i \in Items |-> [near |-> FALSE, warned |-> FALSE]]
    /\ unrecorded = [d \in Deliveries |-> 0]
    /\ warner = [w \in WarnRuns |-> NoWarner]
    /\ reselected = [i \in Items |-> 0]
    /\ notices = [i \in Items |-> 0]
    /\ patches = 0 /\ faults = 0

Exists(d) == row[d] /= NoRow

(***************************************************************************)
(* webhook_url                                                             *)
(***************************************************************************)
\* An address is refused for its scheme, or if one of the addresses it resolves to
\* is private, or if it does not resolve.
validateWebhookUrl == {"accepted", "refused"}

\* PATCH /me: another URL, or none.
Patch(a) ==
    /\ patches < MaxPatches
    /\ patches' = patches + 1
    /\ \/ \E verdict \in validateWebhookUrl :
            url' = IF verdict = "accepted" THEN url \cup {a} ELSE url
       \/ url' = url \ {a}
    /\ UNCHANGED <<row, first, run, answers, warnings, faults>>

(***************************************************************************)
(* ssrfSafeFetch: what a request comes to.  A name that does not resolve,  *)
(* a refused address and a scheme other than http are one error; a non-2xx *)
(* answer, a network error, a timeout after 15 s and an answer that is     *)
(* lost on its way are another.                                            *)
(***************************************************************************)
Refused == {"blocked"}
Asked == {"ok", "failed"}

ssrfSafeFetch == Asked \cup Refused

Posted(d, outcome) ==
    /\ failures' = [failures EXCEPT ![d] = IF outcome = "failed" /\ @ < MaxAttempts THEN @ + 1 ELSE @]
    /\ blocked' = IF outcome = "blocked" THEN blocked \cup {d} ELSE blocked

(***************************************************************************)
(* deliverWebhook                                                          *)
(***************************************************************************)
\* fireWebhook(agent) for each of S, in rows not used yet: their caller does not
\* wait.
Free == {d \in Deliveries : first[d].pc = "free"}

Fired(S) ==
    \E f \in [S -> Free] :
        /\ \A a \in S, b \in S : f[a] = f[b] => a = b
        /\ \A d \in Free, a \in S : d < f[a] => \E b \in S : f[b] = d
        /\ first' = [d \in Deliveries |->
                        IF \E a \in S : f[a] = d
                        THEN [pc |-> "read", agent |-> CHOOSE a \in S : f[a] = d]
                        ELSE first[d]]

\* Any of the other callers; most of them tell both parties of an order.
Fire ==
    /\ \E S \in SUBSET Agents : S /= {} /\ Fired(S)
    /\ UNCHANGED <<url, row, run, answers, warnings, patches, faults>>

At(d, pc) == first[d].pc = pc
Step(d, pc) == first' = [first EXCEPT ![d].pc = pc]

\* The agent, the row, the request.  What others do in between, and what is seen
\* of it here, does not depend on their order, so they are one step.
FirstSend(d) ==
    LET a == first[d].agent
    IN /\ At(d, "read")
       /\ IF a \in url
          THEN /\ row' = [row EXCEPT ![d] = [agent |-> a, attempt |-> 1,
                                            delivered |-> FALSE, retry |-> "none"]]
               /\ \E outcome \in ssrfSafeFetch : Step(d, outcome) /\ Posted(d, outcome)
          ELSE /\ Step(d, "done")
               /\ UNCHANGED <<row, failures, blocked>>

\* delivered; no retry for a refused address; or the first retry.
FirstRecord(d) ==
    /\ first[d].pc \in {"ok", "failed", "blocked"}
    /\ row' = [row EXCEPT ![d].delivered = At(d, "ok"),
                          ![d].retry = IF At(d, "failed") THEN "later" ELSE "none"]
    /\ Step(d, "done")
    /\ UNCHANGED <<failures, blocked>>

Deliver(d) ==
    /\ FirstSend(d) \/ FirstRecord(d)
    /\ UNCHANGED <<url, run, unrecorded, warnings, patches, faults>>

\* A statement throws.
Throws == faults < MaxFaults /\ faults' = faults + 1

\* The UPDATE that records a 2xx answer is inside the try: when it throws, the
\* delivery goes on as one that failed.
Lost(d) == Throws /\ unrecorded' = [unrecorded EXCEPT ![d] = @ + 1]

FirstLost(d) ==
    /\ At(d, "ok") /\ Lost(d)
    /\ Step(d, "failed")
    /\ UNCHANGED <<url, row, run, failures, blocked, warnings, patches>>

\* The others end deliverWebhook.
FirstThrows(d) ==
    /\ first[d].pc \in {"read", "failed", "blocked"} /\ Throws
    /\ Step(d, "done")
    /\ UNCHANGED <<url, row, run, answers, warnings, patches>>

(***************************************************************************)
(* runWebhookRetries                                                       *)
(***************************************************************************)
\* The delay of 5 s, 30 s or 5 min is over.
Due(d) ==
    /\ Exists(d) /\ row[d].retry = "later"
    /\ row' = [row EXCEPT ![d].retry = "due"]
    /\ UNCHANGED <<url, first, run, answers, warnings, patches, faults>>

\* Mutant of Pending: one attempt short.
PendingEarly == {d \in Deliveries : Exists(d) /\ ~row[d].delivered
                                    /\ row[d].attempt + 1 < MaxAttempts /\ row[d].retry = "due"}

Pending == {d \in Deliveries : Exists(d) /\ ~row[d].delivered
                               /\ row[d].attempt < MaxAttempts /\ row[d].retry = "due"}

\* SELECT ... LIMIT 50, in no order.
Select(r) ==
    /\ run[r].pc = "idle" /\ Pending /= {}
    /\ \E S \in SUBSET Pending :
        /\ Cardinality(UNION {{<<q, h.d>> : h \in run[q].held} : q \in Runs}) + Cardinality(S) <= MaxHeld
        /\ Cardinality(S) = Batch \/ (S = Pending /\ Cardinality(S) < Batch)
        /\ run' = [run EXCEPT ![r].pc = "agent",
                              ![r].held = {[d |-> d, attempt |-> row[d].attempt] : d \in S}]
    /\ UNCHANGED <<url, row, failures, blocked>>

NextOf(r) == IF run[r].held = {} THEN "idle" ELSE "agent"
Move(r, pc) == run' = [run EXCEPT ![r].pc = pc]
NextRow(r) == run' = [run EXCEPT ![r] = [IdleRun EXCEPT !.pc = NextOf(r), !.held = run[r].held]]

\* The next row, and its request; an agent without a URL is passed over, and its
\* row stays due.
Retry(r) ==
    /\ run[r].pc = "agent"
    /\ \E h \in run[r].held :
        LET rest == run[r].held \ {h}
        IN IF row[h.d].agent \in url
           THEN \E outcome \in ssrfSafeFetch :
                    /\ run' = [run EXCEPT ![r] = [pc |-> outcome, held |-> rest,
                                                 d |-> h.d, attempt |-> h.attempt]]
                    /\ Posted(h.d, outcome)
           ELSE /\ run' = [run EXCEPT ![r].held = rest,
                                      ![r].pc = IF rest = {} THEN "idle" ELSE "agent"]
                /\ UNCHANGED <<failures, blocked>>
    /\ UNCHANGED <<url, row>>

RecordOk(r) ==
    /\ run[r].pc = "ok"
    /\ row' = [row EXCEPT ![run[r].d].delivered = TRUE]
    /\ NextRow(r)
    /\ UNCHANGED <<url, failures, blocked>>

\* Mutant of NextAttempt: counting a retry twice.
NextAttemptTwice(n) == n + 2

\* From the row as it was selected, not as it is.
NextAttempt(n) == n + 1

RecordFailure(r) ==
    LET n == NextAttempt(run[r].attempt)
    IN /\ run[r].pc = "failed"
       /\ row' = [row EXCEPT ![run[r].d].attempt = n,
                             ![run[r].d].retry = IF n < MaxAttempts THEN "later" ELSE "none"]
       /\ IF n >= MaxAttempts THEN Move(r, "clear") ELSE NextRow(r)
       /\ UNCHANGED <<url, failures, blocked>>

\* By the agent's id: whatever URL it has now.
ClearUrl(r) ==
    /\ run[r].pc \in {"clear", "blocked"}
    /\ url' = url \ {row[run[r].d].agent}
    /\ NextRow(r)
    /\ UNCHANGED <<row, failures, blocked>>

RetryRun(r) ==
    /\ \/ Select(r) \/ Retry(r)
       \/ RecordOk(r) \/ RecordFailure(r) \/ ClearUrl(r)
    /\ UNCHANGED <<first, unrecorded, warnings, patches, faults>>

\* A 2xx answer that cannot be recorded, as in FirstLost; and a throw that ends the
\* run, with the rows it still holds.
RecordLost(r) ==
    /\ run[r].pc = "ok" /\ Lost(run[r].d)
    /\ Move(r, "failed")
    /\ UNCHANGED <<url, row, first, failures, blocked, warnings, patches>>

RunThrows(r) ==
    /\ run[r].pc \in {"agent", "failed", "blocked", "clear"} /\ Throws
    /\ run' = [run EXCEPT ![r] = IdleRun]
    /\ UNCHANGED <<url, row, first, answers, warnings, patches>>

(***************************************************************************)
(* runDeadlineWarnings: pending, accepted, delivered and revised orders,   *)
(* then tasks.  The stamp is one per order or task, not one per deadline.  *)
(***************************************************************************)
\* Time passes, the item gets another deadline, or it ends.  Nobody looks at an
\* item with a stamp again.
Age(i) ==
    /\ ~item[i].warned
    /\ item' = [item EXCEPT ![i].near = ~@]
    /\ UNCHANGED <<url, row, first, run, answers, warner, notices, reselected, patches, faults>>

\* Unstamped items that are still in a status with a deadline, the same 15 minutes;
\* another run may have them too.
InHand(w, i) == i \in warner[w].selected \cup warner[w].stamping

WarnSelect(w) ==
    LET unwarned == {i \in Items : item[i].near /\ ~item[i].warned}
    IN /\ warner[w] = NoWarner /\ unwarned /= {}
       /\ warner' = [warner EXCEPT ![w] = [selected |-> unwarned, stamping |-> {}]]
       /\ reselected' = [i \in Items |-> IF i \in unwarned /\ \E v \in WarnRuns : InHand(v, i)
                                         THEN reselected[i] + 1 ELSE reselected[i]]
       /\ UNCHANGED <<first, item, notices>>

\* Both parties are told; what becomes of it is not followed once the rows of the
\* model are used up.
WarnFire(w, i) ==
    /\ i \in warner[w].selected /\ warner[w].stamping = {}
    /\ IF Cardinality(Free) >= Cardinality(Agents) THEN Fired(Agents) ELSE UNCHANGED first
    /\ warner' = [warner EXCEPT ![w] = [selected |-> @.selected \ {i}, stamping |-> {i}]]
    /\ notices' = [notices EXCEPT ![i] = @ + 1]
    /\ UNCHANGED <<item, reselected>>

Stamped(w, i, warned) ==
    /\ i \in warner[w].stamping
    /\ item' = [item EXCEPT ![i].warned = warned]
    /\ warner' = [warner EXCEPT ![w].stamping = {}]
    /\ UNCHANGED <<first, notices, reselected>>

\* Mutant of WarnStamp: for items whose deadline is still to come.
WarnStampNear(w, i) == Stamped(w, i, item[i].warned \/ item[i].near)

WarnStamp(w, i) == Stamped(w, i, TRUE)

Warn(w) ==
    /\ WarnSelect(w) \/ \E i \in Items : WarnFire(w, i) \/ WarnStamp(w, i)
    /\ UNCHANGED <<url, row, run, answers, patches, faults>>

\* The stamp or the next SELECT throws, after the notices: the error ends the run,
\* with every item it still has, and is logged.
WarnThrows(w) ==
    /\ warner[w] /= NoWarner /\ Throws
    /\ warner' = [warner EXCEPT ![w] = NoWarner]
    /\ UNCHANGED <<url, row, first, run, answers, item, notices, reselected, patches>>

-----------------------------------------------------------------------------
\* The process stops and starts: what runs is gone, rows stay.
Crash ==
    /\ faults < MaxFaults /\ faults' = faults + 1
    /\ first' = [d \in Deliveries |-> IF At(d, "free") THEN first[d] ELSE [first[d] EXCEPT !.pc = "done"]]
    /\ run' = [r \in Runs |-> IdleRun]
    /\ warner' = [w \in WarnRuns |-> NoWarner]
    /\ UNCHANGED <<url, row, answers, item, notices, reselected, patches>>

GoesWrong ==
    \/ \E d \in Deliveries : FirstLost(d) \/ FirstThrows(d)
    \/ \E r \in Runs : RecordLost(r) \/ RunThrows(r)
    \/ \E w \in WarnRuns : WarnThrows(w)
    \/ Crash

Next ==
    \/ \E a \in Agents : Patch(a)
    \/ Fire
    \/ \E d \in Deliveries : Deliver(d) \/ Due(d)
    \/ \E r \in Runs : RetryRun(r)
    \/ \E i \in Items : Age(i)
    \/ \E w \in WarnRuns : Warn(w)
    \/ GoesWrong

\* Timers expire, runs are started every ten seconds, and requests end.
Fairness ==
    /\ \A d \in Deliveries : WF_vars(Due(d))
    /\ \A r \in Runs : WF_vars(RetryRun(r))

Spec == Init /\ [][Next]_vars
FairSpec == Spec /\ Fairness

-----------------------------------------------------------------------------
TypeOK ==
    /\ url \subseteq Agents
    /\ row \in [Deliveries -> Row \cup {NoRow}]
    /\ first \in [Deliveries -> First]
    /\ run \in [Runs -> Run]
    /\ failures \in [Deliveries -> 0 .. MaxAttempts]
    /\ unrecorded \in [Deliveries -> Nat]
    /\ blocked \subseteq Deliveries
    /\ item \in [Items -> Item]
    /\ warner \in [WarnRuns -> Warner]
    /\ notices \in [Items -> Nat]
    /\ reselected \in [Items -> Nat]
    /\ patches \in 0 .. MaxPatches /\ faults \in 0 .. MaxFaults

\* However retry runs overlap, an agent's URL is taken away only by its owner, or
\* once some delivery to it was refused, or was asked three times and each time
\* either failed or was answered without the answer being recorded.
ThreeStrikes ==
    [][\A a \in url \ url' :
          \/ patches' > patches
          \/ \E d \in Deliveries : /\ Exists(d) /\ row[d].agent = a
                                   /\ failures[d] + unrecorded[d] >= MaxAttempts \/ d \in blocked]_vars

\* Rows whose retry is due; and those of agents without a URL, which every run
\* selects and none changes.
Waiting == {d \in Deliveries : Exists(d) /\ ~row[d].delivered /\ row[d].retry = "due"}
Stuck == {d \in Waiting : row[d].agent \notin url}

\* A delivery whose retry is due is delivered, given up or put off, unless its
\* agent has no URL, or so many rows are stuck that they fill the batch.
RetriedUnlessStarved ==
    \A d \in Deliveries :
        (d \in Waiting) ~> (d \notin Waiting \/ d \in Stuck \/ Cardinality(Stuck) >= Batch)

\* An item's warning goes out once, and again only if a crash or a statement that
\* threw kept its stamp from being written, or if a run selected it that overlapped
\* with one that had it in hand, whatever happens to the item meanwhile.
WarnedOnce == \A i \in Items : notices[i] <= 1 + faults + reselected[i]
=============================================================================
