-------------------------------- MODULE Tasks --------------------------------
(***************************************************************************)
(* The task board: tasks, the bids on them, the submissions, the escrow.   *)
(*                                                                         *)
(*   routes/tasks.ts       create, cancel, bid, accept, submit, rate       *)
(*   routes/internal.ts    system tasks                                    *)
(*   a2a/handler.ts        message/send and tasks/cancel                   *)
(*   services/recurringScheduler.ts  postInstance                          *)
(*   services/timeoutService.ts      the sweep over tasks in progress      *)
(*   lib/validation.ts     what applyApproval and applyRejection do to the *)
(*                         task (how the votes decide: module Validation)  *)
(*                                                                         *)
(* A handler first reads rows and checks them; then it runs a fixed plan   *)
(* of SQL statements, separated by awaits.  A job record holds what was    *)
(* read and the rest of the plan, and one action runs one statement.  The  *)
(* statements do not look at what was checked unless they say so.          *)
(*                                                                         *)
(* A task's price never changes, so the ledger counts whole prices.        *)
(***************************************************************************)
EXTENDS Integers, Sequences, FiniteSets

CONSTANTS
    Tasks,          \* task ids
    Workers,        \* verified agents other than the creators of the tasks
    Subs,           \* submission ids
    NoTask, NoWorker, NoSub,
    Kinds,          \* ways tasks are created: "rest", "system", "a2a", "recurring"
    Reviewed,       \* values of validation_required
    Http,           \* slots of HTTP requests in flight
    Cron,           \* slots of timer runs in flight
    Concurrent,     \* may a handler start while another is suspended?
    MaxFaults       \* bound: statements that throw, and process crashes

ASSUME NullsAssumption == /\ NoTask \notin Tasks /\ NoWorker \notin Workers
                          /\ NoSub \notin Subs
ASSUME KindsAssumption == /\ Kinds \subseteq {"rest", "system", "a2a", "recurring"}
                          /\ Reviewed \subseteq BOOLEAN
ASSUME BoundsAssumption == /\ Concurrent \in BOOLEAN /\ MaxFaults \in Nat
                           /\ IsFiniteSet(Http \cup Cron) /\ IsFiniteSet(Subs)

VARIABLES
    task,       \* the tasks rows; status "none" is an id not inserted
    ctx,        \* the tasks with a row in a2a_task_contexts
    bid,        \* status of the bid of each worker on each task
    submission, \* the submissions rows
    ledger,     \* per task, its rows in transactions, by type
    credit,     \* what the task brought: tasks_completed, tasks_created, and how
                \* often it raised (rewarded), lowered (punished) or rated reputation
    rated,      \* the tasks with a row in task_ratings
    job,        \* handlers in flight
    faults      \* history: faults so far

vars == <<task, ctx, bid, submission, ledger, credit, rated, job, faults>>

-----------------------------------------------------------------------------
TaskStatus == {"none", "open", "in_progress", "validating", "completed", "cancelled",
               "deleted"}
BidStatus  == {"none", "pending", "accepted", "rejected"}
SubStatus  == {"none", "validating", "approved", "rejected"}

\* What completes a task, in submit and in applyApproval.
CompletionUnpaid == <<"complete", "countCompleted", "countCreated", "reward">>  \* mutant
Completion == <<"complete", "release", "countCompleted", "countCreated", "reward">>

\* What a handler does once its reads and checks are done, in order.
Plan ==
    [rest      |-> <<"escrow">>,                        \* POST /v1/tasks
     system    |-> <<"escrow">>,                        \* POST /internal/system/tasks
     a2a       |-> <<"escrow", "context">>,             \* message/send
     delete    |-> <<"refund", "cancel">>,              \* DELETE /v1/tasks/:id
     a2aCancel |-> <<"cancel", "refund">>,              \* tasks/cancel
     bid       |-> <<"insertBid">>,
     bidFirst  |-> <<"insertBid", "claim", "acceptBid", "rejectOthers">>,
     accept    |-> <<"readBid", "acceptBid", "rejectOthers", "start">>,
     submit    |-> <<"insertApproved">> \o Completion,
     review    |-> <<"insertValidating", "validate">>,
     approve   |-> <<"approve">> \o Completion,
     reject    |-> <<"reject", "reopen", "punish", "refund">>,
     timeout   |-> <<"reopenIfInProgress", "rejectBids", "punish">>,
     rate      |-> <<"insertRating", "rate">>]

Statement == (UNION {{Plan[op][i] : i \in 1..Len(Plan[op])} : op \in DOMAIN Plan})
                 \cup {"undo"}

Procs == Http \cup Cron

Job == [task: Tasks \cup {NoTask}, worker: Workers \cup {NoWorker},
        sub: Subs \cup {NoSub}, plan: Seq(Statement)]

Idle == [task |-> NoTask, worker |-> NoWorker, sub |-> NoSub, plan |-> <<>>]

Absent == [status |-> "none", kind |-> "rest", reviewed |-> TRUE, executor |-> NoWorker]

TaskRow == [status: TaskStatus, kind: {"rest", "system", "a2a", "recurring"},
            reviewed: BOOLEAN, executor: Workers \cup {NoWorker}]
SubRow  == [status: SubStatus, task: Tasks \cup {NoTask}, worker: Workers \cup {NoWorker}]

Credit == {"completed", "created", "rewarded", "punished", "rated"}

TypeOK ==
    /\ task \in [Tasks -> TaskRow]
    /\ ctx \subseteq Tasks
    /\ bid \in [Tasks -> [Workers -> BidStatus]]
    /\ submission \in [Subs -> SubRow]
    /\ ledger \in [Tasks -> [escrow: Nat, paid: Nat, refunded: Nat]]
    /\ credit \in [Tasks -> [Credit -> Nat]]
    /\ rated \subseteq Tasks
    /\ job \in [Procs -> Job]
    /\ faults \in Nat

Init ==
    /\ task = [t \in Tasks |-> Absent]
    /\ ctx = {}
    /\ bid = [t \in Tasks |-> [w \in Workers |-> "none"]]
    /\ submission = [s \in Subs |-> [status |-> "none", task |-> NoTask, worker |-> NoWorker]]
    /\ ledger = [t \in Tasks |-> [escrow |-> 0, paid |-> 0, refunded |-> 0]]
    /\ credit = [t \in Tasks |-> [c \in Credit |-> 0]]
    /\ rated = {}
    /\ job = [p \in Procs |-> Idle]
    /\ faults = 0

-----------------------------------------------------------------------------
(* The reads and checks at the head of each handler.                       *)

\* A handler starts.  Without Concurrent, only when no other is suspended.
Start(p, op, t, w, s) ==
    /\ job[p] = Idle
    /\ Concurrent \/ \A q \in Procs : job[q] = Idle
    /\ job' = [job EXCEPT ![p] = [task |-> t, worker |-> w, sub |-> s, plan |-> Plan[op]]]

Is(t, status) == task[t].status = status

\* Every create handler begins with the INSERT, under an id nothing uses.
Insert(t, kind, reviewed) ==
    /\ task[t] = Absent
    /\ task' = [task EXCEPT ![t] = [status |-> "open", kind |-> kind,
                                   reviewed |-> reviewed, executor |-> NoWorker]]
    /\ UNCHANGED <<ctx, bid, submission, ledger, credit, rated, faults>>

\* POST /v1/tasks and POST /internal/system/tasks, where the caller says whether
\* the result is reviewed, and message/send, where it always is.
Create(p, t, reviewed) ==
    Insert(t, "rest", reviewed) /\ Start(p, "rest", t, NoWorker, NoSub)
CreateSystem(p, t, reviewed) ==
    Insert(t, "system", reviewed) /\ Start(p, "system", t, NoWorker, NoSub)
MessageSend(p, t) ==
    Insert(t, "a2a", TRUE) /\ Start(p, "a2a", t, NoWorker, NoSub)

\* postInstance: one transaction, and no escrow.
PostInstance(t, reviewed) == Insert(t, "recurring", reviewed) /\ UNCHANGED job

\* Nothing but the job table changes in a handler's reads.
Reads == UNCHANGED <<task, ctx, bid, submission, ledger, credit, rated, faults>>

\* The creator's requests.  agt_system cannot authenticate.
Cancel(p, t)    == /\ Is(t, "open") /\ task[t].kind # "system"
                   /\ Start(p, "delete", t, NoWorker, NoSub)
                   /\ Reads
A2ACancel(p, t) == /\ t \in ctx /\ Is(t, "open")
                   /\ Start(p, "a2aCancel", t, NoWorker, NoSub)
                   /\ Reads
Accept(p, t, w) == /\ Is(t, "open") /\ task[t].kind # "system"
                   /\ Start(p, "accept", t, w, NoSub)
                   /\ Reads
Rate(p, t)      == /\ Is(t, "completed") /\ task[t].kind # "system"
                   /\ task[t].executor # NoWorker
                   /\ Start(p, "rate", t, task[t].executor, NoSub)
                   /\ Reads

\* auto_accept_first is set for system tasks only.
Bid(p, t, w) == /\ Is(t, "open")
                /\ Start(p, IF task[t].kind = "system" THEN "bidFirst" ELSE "bid",
                         t, w, NoSub)
                /\ Reads

SubmitUnchecked(t, w) == task[t].executor = w       \* mutant: not "in progress" too
SubmitAllowed(t, w) == task[t].executor = w /\ Is(t, "in_progress")

\* shouldAutoApprove may let a trusted executor skip the review.
Submit(p, t, w, s, op) ==
    /\ SubmitAllowed(t, w)
    /\ op = "review" => task[t].reviewed
    /\ submission[s].status = "none" /\ \A q \in Procs : job[q].sub # s
    /\ Start(p, op, t, w, s)
    /\ Reads

DecidedEver(s) == submission[s].status # "none"     \* mutant: decided again and again
Decided(s) == submission[s].status = "validating"

\* The votes decided: applyApproval or applyRejection.
Decide(p, s, op) ==
    /\ Decided(s)
    /\ Start(p, op, submission[s].task, submission[s].worker, s)
    /\ Reads

\* A task in progress is past its deadline.
Timeout(p, t) == /\ Is(t, "in_progress") /\ task[t].executor # NoWorker
                 /\ Start(p, "timeout", t, task[t].executor, NoSub)
                 /\ Reads

Request(p) ==
    \/ \E t \in Tasks, reviewed \in Reviewed :
            \/ "rest" \in Kinds /\ Create(p, t, reviewed)
            \/ "system" \in Kinds /\ CreateSystem(p, t, reviewed)
    \/ \E t \in Tasks : \/ "a2a" \in Kinds /\ MessageSend(p, t)
                        \/ Cancel(p, t) \/ A2ACancel(p, t) \/ Rate(p, t)
    \/ \E t \in Tasks, w \in Workers : Accept(p, t, w) \/ Bid(p, t, w)
    \/ \E t \in Tasks, w \in Workers, s \in Subs, op \in {"submit", "review"} :
            Submit(p, t, w, s, op)
    \/ \E s \in Subs, op \in {"approve", "reject"} : Decide(p, s, op)

Tick(p) ==
    \/ \E t \in Tasks, reviewed \in Reviewed :
            "recurring" \in Kinds /\ PostInstance(t, reviewed)
    \/ \E t \in Tasks : Timeout(p, t)
    \/ \E s \in Subs, op \in {"approve", "reject"} : Decide(p, s, op)

-----------------------------------------------------------------------------
(* The statements.                                                         *)

Todo(p, s) == job[p].plan # <<>> /\ Head(job[p].plan) = s

Abort(p) == job' = [job EXCEPT ![p] = Idle]
Done(p)  == job' = [job EXCEPT ![p] = IF Len(job[p].plan) = 1 THEN Idle
                                      ELSE [job[p] EXCEPT !.plan = Tail(@)]]

\* escrowDeduct; when it fails, POST /v1/tasks and /internal/system/tasks
\* delete the row, message/send answers with an error.
EscrowStmt(p) ==
    LET t == job[p].task
    IN /\ Todo(p, "escrow")
       /\ \/ /\ ledger' = [ledger EXCEPT ![t].escrow = @ + 1]
             /\ Done(p)
          \/ /\ ledger' = ledger
             /\ job' = [job EXCEPT ![p] = IF task[t].kind = "a2a" THEN Idle
                                          ELSE [job[p] EXCEPT !.plan = <<"undo">>]]
       /\ UNCHANGED <<task, ctx, bid, submission, credit, rated, faults>>

\* DELETE FROM tasks; a bid on the task makes it fail (foreign key).
UndoStmt(p) ==
    LET t == job[p].task
    IN /\ Todo(p, "undo")
       /\ task' = IF \A w \in Workers : bid[t][w] = "none"
                  THEN [task EXCEPT ![t].status = "deleted"] ELSE task
       /\ Done(p)
       /\ UNCHANGED <<ctx, bid, submission, ledger, credit, rated, faults>>

ContextStmt(p) ==
    /\ Todo(p, "context")
    /\ ctx' = ctx \cup {job[p].task}
    /\ Done(p)
    /\ UNCHANGED <<task, bid, submission, ledger, credit, rated, faults>>

\* releaseEscrowToExecutor and refundEscrow look at neither task nor escrow.
MoneyStmt(p) ==
    LET t == job[p].task
    IN /\ \/ /\ Todo(p, "release")
             /\ ledger' = [ledger EXCEPT ![t].paid = @ + 1]
          \/ /\ Todo(p, "refund")
             /\ ledger' = [ledger EXCEPT ![t].refunded = @ + 1]
       /\ Done(p)
       /\ UNCHANGED <<task, ctx, bid, submission, credit, rated, faults>>

\* mutant: a status the other handlers do not know
TaskWritesDone == [cancel   |-> "cancelled", start |-> "in_progress", validate |-> "validating",
                   complete |-> "done", reopen |-> "open"]
\* UPDATE tasks SET status = ... WHERE id = t, nothing else.
TaskWrites == [cancel   |-> "cancelled", start |-> "in_progress", validate |-> "validating",
               complete |-> "completed", reopen |-> "open"]

TaskStmt(p) ==
    LET t == job[p].task
    IN \E s \in DOMAIN TaskWrites :
          /\ Todo(p, s)
          /\ task' = [task EXCEPT
                ![t].status = TaskWrites[s],
                ![t].executor = CASE s = "start"  -> job[p].worker
                                  [] s = "reopen" -> NoWorker
                                  [] OTHER        -> task[t].executor]
          /\ Done(p)
          /\ UNCHANGED <<ctx, bid, submission, ledger, credit, rated, faults>>

\* UPDATE tasks ... WHERE id = t AND status = 'in_progress'.
ReopenStmt(p) ==
    LET t == job[p].task
    IN /\ Todo(p, "reopenIfInProgress")
       /\ task' = IF Is(t, "in_progress")
                  THEN [task EXCEPT ![t].status = "open", ![t].executor = NoWorker]
                  ELSE task
       /\ Done(p)
       /\ UNCHANGED <<ctx, bid, submission, ledger, credit, rated, faults>>

\* One bid per worker and task (unique key), on a row that exists.
InsertBidStmt(p) ==
    LET t == job[p].task
        w == job[p].worker
    IN /\ Todo(p, "insertBid")
       /\ IF bid[t][w] = "none" /\ ~Is(t, "deleted")
          THEN /\ bid' = [bid EXCEPT ![t][w] = "pending"]
               /\ Done(p)
          ELSE UNCHANGED bid /\ Abort(p)
       /\ UNCHANGED <<task, ctx, submission, ledger, credit, rated, faults>>

ClaimableAlways(t) == TRUE                          \* mutant: UPDATE by id alone
Claimable(t) == Is(t, "open")

\* UPDATE tasks ... WHERE id = t AND status = 'open'; no row, no acceptance.
ClaimStmt(p) ==
    LET t == job[p].task
    IN /\ Todo(p, "claim")
       /\ IF Claimable(t)
          THEN /\ task' = [task EXCEPT ![t].status = "in_progress",
                                       ![t].executor = job[p].worker]
               /\ Done(p)
          ELSE UNCHANGED task /\ Abort(p)
       /\ UNCHANGED <<ctx, bid, submission, ledger, credit, rated, faults>>

\* The accept handler's second read.
ReadBidStmt(p) ==
    /\ Todo(p, "readBid")
    /\ IF bid[job[p].task][job[p].worker] = "pending" THEN Done(p) ELSE Abort(p)
    /\ Reads

OthersNobody(w) == {}                               \* mutant: other bids stay as they are
Others(w) == Workers \ {w}

BidStmt(p) ==
    LET t == job[p].task
        w == job[p].worker
    IN /\ \/ /\ Todo(p, "acceptBid")
             /\ bid' = [bid EXCEPT ![t][w] = "accepted"]
          \/ /\ Todo(p, "rejectOthers")
             /\ bid' = [bid EXCEPT ![t] = [v \in Workers |->
                            IF v \in Others(w) /\ bid[t][v] # "none" THEN "rejected"
                            ELSE bid[t][v]]]
          \/ /\ Todo(p, "rejectBids")
             /\ bid' = [bid EXCEPT ![t][w] = IF @ \in {"pending", "accepted"}
                                             THEN "rejected" ELSE @]
       /\ Done(p)
       /\ UNCHANGED <<task, ctx, submission, ledger, credit, rated, faults>>

SubWrites == [insertApproved |-> "approved", insertValidating |-> "validating",
              approve |-> "approved", reject |-> "rejected"]

SubStmt(p) ==
    \E s \in DOMAIN SubWrites :
        /\ Todo(p, s)
        /\ submission' = [submission EXCEPT ![job[p].sub] =
                [status |-> SubWrites[s], task |-> job[p].task, worker |-> job[p].worker]]
        /\ Done(p)
        /\ UNCHANGED <<task, ctx, bid, ledger, credit, rated, faults>>

\* UPDATE agents SET tasks_completed (or tasks_created) = ... + 1, and
\* updateReputation; by how much reputation moves is left out.
CreditWrites == [countCompleted |-> "completed", countCreated |-> "created",
                 reward |-> "rewarded", punish |-> "punished", rate |-> "rated"]

CreditStmt(p) ==
    \E s \in DOMAIN CreditWrites :
        /\ Todo(p, s)
        /\ credit' = [credit EXCEPT ![job[p].task][CreditWrites[s]] = @ + 1]
        /\ Done(p)
        /\ UNCHANGED <<task, ctx, bid, submission, ledger, rated, faults>>

\* One rating per task (unique key).
RatingStmt(p) ==
    LET t == job[p].task
    IN /\ Todo(p, "insertRating")
       /\ IF t \in rated THEN Abort(p) ELSE Done(p)
       /\ rated' = rated \cup {t}
       /\ UNCHANGED <<task, ctx, bid, submission, ledger, credit, faults>>

Step(p) ==
    \/ EscrowStmt(p) \/ UndoStmt(p) \/ ContextStmt(p) \/ MoneyStmt(p)
    \/ TaskStmt(p) \/ ReopenStmt(p) \/ ClaimStmt(p)
    \/ InsertBidStmt(p) \/ ReadBidStmt(p) \/ BidStmt(p)
    \/ SubStmt(p) \/ CreditStmt(p) \/ RatingStmt(p)

\* The statement a handler awaits throws, and the handler ends; or the
\* process stops and every handler in flight is gone.
Fault ==
    /\ faults < MaxFaults
    /\ \/ \E p \in Procs : job[p] # Idle /\ Abort(p)
       \/ /\ \E p \in Procs : job[p] # Idle
          /\ job' = [p \in Procs |-> Idle]
    /\ faults' = faults + 1
    /\ UNCHANGED <<task, ctx, bid, submission, ledger, credit, rated>>

Next ==
    \/ \E p \in Http : Request(p)
    \/ \E p \in Cron : Tick(p)
    \/ \E p \in Procs : Step(p)
    \/ Fault

Spec == Init /\ [][Next]_vars

-----------------------------------------------------------------------------
(* Correctness                                                             *)

\* No handler in flight is working on task t.
Quiet(t) == \A p \in Procs : job[p].task # t

SubsOf(t, status) == {s \in Subs : submission[s].task = t /\ submission[s].status = status}
Rejections(t) == Cardinality(SubsOf(t, "rejected"))
Settled(t) == ledger[t].paid + ledger[t].refunded

\* When handlers do not overlap and nothing fails: completion pays once (and
\* credits both parties once), every rejection lowers reputation, and the
\* creator gets the price back once for the cancellation and once for every
\* rejected submission.
SettledExactly ==
    \A t \in Tasks : (Quiet(t) /\ faults = 0) =>
        LET one(status) == IF Is(t, status) THEN 1 ELSE 0
        IN /\ ledger[t].paid = one("completed")
           /\ ledger[t].refunded = one("cancelled") + Rejections(t)
           /\ \A c \in {"completed", "created", "rewarded"} :
                  credit[t][c] = one("completed")
           /\ credit[t].punished >= Rejections(t)

\* And bids, executor and submissions tell one story: the executor is the only
\* worker with an accepted bid; a task under review has one submission in
\* review, a completed one has one approved, and it is the executor's.
ExecutorConsistent ==
    \A t \in Tasks : (Quiet(t) /\ faults = 0) =>
        LET accepted == {w \in Workers : bid[t][w] = "accepted"}
            workers(status) == {submission[s].worker : s \in SubsOf(t, status)}
        IN /\ task[t].status \in {"in_progress", "validating", "completed"}
                => accepted = {task[t].executor}
           /\ task[t].status \in {"open", "cancelled", "deleted"}
                => task[t].executor = NoWorker
           /\ workers("validating") = IF Is(t, "validating") THEN {task[t].executor} ELSE {}
           /\ workers("approved") = IF Is(t, "completed") THEN {task[t].executor} ELSE {}
           /\ Cardinality(SubsOf(t, "validating") \cup SubsOf(t, "approved")) <= 1

\* The two together: money, counters, bids, executor and submissions of a task
\* agree, whichever way it was created and its submissions were decided.
TasksConsistent == SettledExactly /\ ExecutorConsistent

\* However handlers interleave, as long as nothing fails, every approved
\* submission was paid and every rejected one refunded; a completed task has
\* paid and a cancelled one has refunded; and the creator's rating of a task
\* counted once.
NothingLost ==
    \A t \in Tasks : (Quiet(t) /\ faults = 0) =>
        /\ ledger[t].paid >= Cardinality(SubsOf(t, "approved"))
        /\ ledger[t].refunded >= Rejections(t)
        /\ Is(t, "completed") => ledger[t].paid >= 1
        /\ Is(t, "cancelled") => ledger[t].refunded >= 1
        /\ credit[t].rated = IF t \in rated THEN 1 ELSE 0

\* A worker who has a task is not displaced by another one: its executor
\* changes through "none" only.
Keeps(t) == task[t].executor # NoWorker
                => task'[t].executor \in {task[t].executor, NoWorker}

\* The guard of auto_accept_first keeps this under concurrent bids, timeouts
\* and reviews.
SystemExecutorKept == [][\A t \in Tasks : task[t].kind = "system" => Keeps(t)]_vars

\* Without overlap, each failure costs at most one payment and one refund too
\* many: a submission left in review when its task was not updated is decided
\* later all the same, and a DELETE that stopped after the refund is retried.
FaultsBoundDamage ==
    \A t \in Tasks : /\ ledger[t].paid <= 1 + faults
                     /\ ledger[t].refunded <= 1 + Rejections(t) + faults

\* The escrow of a task, read off the ledger.
EscrowOf(t) == IF Settled(t) > ledger[t].escrow THEN "overdrawn"
               ELSE IF ledger[t].paid > 0 THEN "released"
               ELSE IF ledger[t].refunded > 0 THEN "refunded"
               ELSE IF ledger[t].escrow > 0 THEN "held" ELSE "none"

EscrowOfTasks == INSTANCE Escrow WITH
    Items  <- Tasks,
    escrow <- [t \in Tasks |-> EscrowOf(t)],
    void   <- {t \in Tasks : \/ faults > 0
                             \/ task[t].kind \in {"a2a", "recurring"}
                             \/ Rejections(t) > 0}

\* Until something fails, non-overlapping handlers implement the escrow promise
\* for REST and system tasks without a rejected submission: held once, then
\* released once or refunded once, never both.
ImplementsEscrow == EscrowOfTasks!Spec

=============================================================================
