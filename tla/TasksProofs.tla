----------------------------- MODULE TasksProofs -----------------------------
(***************************************************************************)
(* Theorems about Tasks, for any number of tasks, workers, submissions and *)
(* handlers in flight, and whether handlers overlap or not.                *)
(***************************************************************************)
EXTENDS Tasks, FiniteSetTheorems, SequenceTheorems, TLAPS

USE NullsAssumption, KindsAssumption, BoundsAssumption DEF Procs

(***************************************************************************)
(* Plans                                                                   *)
(***************************************************************************)
\* What a plan has left.
Left(plan) == {plan[i] : i \in 1..Len(plan)}

Names == {"escrow", "context", "refund", "cancel", "insertBid", "claim", "acceptBid",
          "rejectOthers", "readBid", "start", "insertApproved", "complete", "release",
          "countCompleted", "countCreated", "reward", "insertValidating", "validate", "approve",
          "reject", "reopen", "punish", "reopenIfInProgress", "rejectBids", "insertRating", "rate"}

\* In a plan, a payment follows an approval, a refund a rejection, and what may end a
\* handler early is not planned together with money.
Before(x, y, plan) ==
    \A i \in 1..Len(plan) : plan[i] = x => \E j \in 1..Len(plan) : i < j /\ plan[j] = y
Once(S, plan) == \A i, j \in 1..Len(plan) : plan[i] \in S /\ plan[j] \in S => i = j
Apart(X, Y, plan) == \A i, j \in 1..Len(plan) : plan[i] \in X => plan[j] \notin Y

Orders(plan) ==
    /\ Before("insertApproved", "release", plan) /\ Before("approve", "release", plan)
    /\ Before("complete", "release", plan) /\ Before("reject", "refund", plan)
    /\ Before("insertRating", "rate", plan)
    /\ Once({"insertApproved", "approve"}, plan) /\ Once({"reject"}, plan)
    /\ Once({"insertRating"}, plan)
    /\ Once({"release"}, plan) /\ Once({"refund"}, plan) /\ Once({"rate"}, plan)
    /\ Apart({"escrow", "insertBid", "claim", "readBid"}, {"release", "refund", "rate"}, plan)
    /\ Apart({"insertRating"}, {"release", "refund"}, plan)

\* What a fresh plan has besides.
Begun(plan) ==
    /\ plan \in Seq(Names) /\ plan # <<>> /\ Orders(plan)
    /\ "cancel" \in Left(plan) => "refund" \in Left(plan)
    /\ "rate" \in Left(plan) => "insertRating" \in Left(plan)

LEMMA BegunSeq ==
    ASSUME NEW plan, Begun(plan)
    PROVE  plan \in Seq(Names) /\ plan # <<>>
  BY DEF Begun

LEMMA OneAndFive ==
    ASSUME NEW y \in Seq(Names), NEW c \in Seq(Names), Len(y) = 1, Len(c) = 5
    PROVE  /\ y \o c \in Seq(Names) /\ Len(y \o c) = 6
           /\ \A i \in 1..6 : (y \o c)[i] = IF i <= 1 THEN y[i] ELSE c[i - 1]
  <1>1. /\ y \o c \in Seq(Names) /\ Len(y \o c) = Len(y) + Len(c)
        /\ \A i \in 1..Len(y) + Len(c) :
              (y \o c)[i] = IF i <= Len(y) THEN y[i] ELSE c[i - Len(y)]
    BY ConcatProperties
  <1> QED
    BY <1>1

LEMMA CompletesAfter ==
    ASSUME NEW s \in Names
    PROVE  <<s>> \o Completion
              = <<s, "complete", "release", "countCompleted", "countCreated", "reward">>
  <1> DEFINE c == Completion
             w == <<s, "complete", "release", "countCompleted", "countCreated", "reward">>
             y == <<s>>
             z == y \o c
  <1>1. /\ c \in Seq(Names) /\ Len(c) = 5
        /\ c[1] = "complete" /\ c[2] = "release" /\ c[3] = "countCompleted"
        /\ c[4] = "countCreated" /\ c[5] = "reward"
    <2>1. c \in Seq(Names)
      BY DEF Completion, Names
    <2>2. /\ Len(c) = 5
          /\ c[1] = "complete" /\ c[2] = "release" /\ c[3] = "countCompleted"
          /\ c[4] = "countCreated" /\ c[5] = "reward"
      BY DEF Completion
    <2> QED
      BY <2>1, <2>2
  <1>2. y \in Seq(Names) /\ Len(y) = 1 /\ y[1] = s
    OBVIOUS
  <1>3. w \in Seq(Names)
    BY DEF Names
  <1>4. /\ Len(w) = 6 /\ w[1] = s /\ w[2] = "complete" /\ w[3] = "release"
        /\ w[4] = "countCompleted" /\ w[5] = "countCreated" /\ w[6] = "reward"
    OBVIOUS
  <1> HIDE DEF c, w, y
  <1>5. /\ z \in Seq(Names) /\ Len(z) = 6
        /\ \A i \in 1..6 : z[i] = IF i <= 1 THEN y[i] ELSE c[i - 1]
    BY <1>1, <1>2, OneAndFive
  <1> HIDE DEF z
  <1>6. \A i \in 1..6 : z[i] = w[i]
    BY <1>1, <1>2, <1>4, <1>5
  <1>7. z = w
    BY <1>3, <1>4, <1>5, <1>6, SeqEqual
  <1> QED
    BY <1>7 DEF z, y, w, c

Ops == {"rest", "system", "a2a", "delete", "a2aCancel", "bid", "bidFirst", "accept", "submit",
        "review", "approve", "reject", "timeout", "rate"}

\* Only accept starts a task.
LEMMA PlanSeq ==
    ASSUME NEW op \in Ops
    PROVE  /\ Plan[op] \in Seq(Names) /\ Plan[op] # <<>> /\ Begun(Plan[op])
           /\ op # "accept" => "start" \notin Left(Plan[op])
  <1>1. Begun(Plan["rest"]) /\ "start" \notin Left(Plan["rest"])
    <2>1. Plan["rest"] \in Seq(Names)
      BY DEF Plan, Names
    <2>2. Plan["rest"] # <<>>
      BY DEF Plan, Names
    <2>3. Orders(Plan["rest"])
      BY DEF Plan, Orders, Before, Once, Apart
    <2>4. /\ "cancel" \in Left(Plan["rest"]) => "refund" \in Left(Plan["rest"])
          /\ "rate" \in Left(Plan["rest"]) => "insertRating" \in Left(Plan["rest"])
          /\ "start" \notin Left(Plan["rest"])
      BY DEF Plan, Left
    <2> QED
      BY <2>1, <2>2, <2>3, <2>4 DEF Begun
  <1>2. Begun(Plan["system"]) /\ "start" \notin Left(Plan["system"])
    <2>1. Plan["system"] \in Seq(Names)
      BY DEF Plan, Names
    <2>2. Plan["system"] # <<>>
      BY DEF Plan, Names
    <2>3. Orders(Plan["system"])
      BY DEF Plan, Orders, Before, Once, Apart
    <2>4. /\ "cancel" \in Left(Plan["system"]) => "refund" \in Left(Plan["system"])
          /\ "rate" \in Left(Plan["system"]) => "insertRating" \in Left(Plan["system"])
          /\ "start" \notin Left(Plan["system"])
      BY DEF Plan, Left
    <2> QED
      BY <2>1, <2>2, <2>3, <2>4 DEF Begun
  <1>3. Begun(Plan["a2a"]) /\ "start" \notin Left(Plan["a2a"])
    <2>1. Plan["a2a"] \in Seq(Names)
      BY DEF Plan, Names
    <2>2. Plan["a2a"] # <<>>
      BY DEF Plan, Names
    <2>3. Orders(Plan["a2a"])
      BY DEF Plan, Orders, Before, Once, Apart
    <2>4. /\ "cancel" \in Left(Plan["a2a"]) => "refund" \in Left(Plan["a2a"])
          /\ "rate" \in Left(Plan["a2a"]) => "insertRating" \in Left(Plan["a2a"])
          /\ "start" \notin Left(Plan["a2a"])
      BY DEF Plan, Left
    <2> QED
      BY <2>1, <2>2, <2>3, <2>4 DEF Begun
  <1>4. Begun(Plan["delete"]) /\ "start" \notin Left(Plan["delete"])
    <2>1. Plan["delete"] \in Seq(Names)
      BY DEF Plan, Names
    <2>2. Plan["delete"] # <<>>
      BY DEF Plan, Names
    <2>3. Orders(Plan["delete"])
      BY DEF Plan, Orders, Before, Once, Apart
    <2>4. /\ "cancel" \in Left(Plan["delete"]) => "refund" \in Left(Plan["delete"])
          /\ "rate" \in Left(Plan["delete"]) => "insertRating" \in Left(Plan["delete"])
          /\ "start" \notin Left(Plan["delete"])
      BY DEF Plan, Left
    <2> QED
      BY <2>1, <2>2, <2>3, <2>4 DEF Begun
  <1>5. Begun(Plan["a2aCancel"]) /\ "start" \notin Left(Plan["a2aCancel"])
    <2>1. Plan["a2aCancel"] \in Seq(Names)
      BY DEF Plan, Names
    <2>2. Plan["a2aCancel"] # <<>>
      BY DEF Plan, Names
    <2>3. Orders(Plan["a2aCancel"])
      BY DEF Plan, Orders, Before, Once, Apart
    <2>4. /\ "cancel" \in Left(Plan["a2aCancel"]) => "refund" \in Left(Plan["a2aCancel"])
          /\ "rate" \in Left(Plan["a2aCancel"]) => "insertRating" \in Left(Plan["a2aCancel"])
          /\ "start" \notin Left(Plan["a2aCancel"])
      BY DEF Plan, Left
    <2> QED
      BY <2>1, <2>2, <2>3, <2>4 DEF Begun
  <1>6. Begun(Plan["bid"]) /\ "start" \notin Left(Plan["bid"])
    <2>1. Plan["bid"] \in Seq(Names)
      BY DEF Plan, Names
    <2>2. Plan["bid"] # <<>>
      BY DEF Plan, Names
    <2>3. Orders(Plan["bid"])
      BY DEF Plan, Orders, Before, Once, Apart
    <2>4. /\ "cancel" \in Left(Plan["bid"]) => "refund" \in Left(Plan["bid"])
          /\ "rate" \in Left(Plan["bid"]) => "insertRating" \in Left(Plan["bid"])
          /\ "start" \notin Left(Plan["bid"])
      BY DEF Plan, Left
    <2> QED
      BY <2>1, <2>2, <2>3, <2>4 DEF Begun
  <1>7. Begun(Plan["bidFirst"]) /\ "start" \notin Left(Plan["bidFirst"])
    <2>1. Plan["bidFirst"] \in Seq(Names)
      BY DEF Plan, Names
    <2>2. Plan["bidFirst"] # <<>>
      BY DEF Plan, Names
    <2>3. Orders(Plan["bidFirst"])
      BY DEF Plan, Orders, Before, Once, Apart
    <2>4. /\ "cancel" \in Left(Plan["bidFirst"]) => "refund" \in Left(Plan["bidFirst"])
          /\ "rate" \in Left(Plan["bidFirst"]) => "insertRating" \in Left(Plan["bidFirst"])
          /\ "start" \notin Left(Plan["bidFirst"])
      BY DEF Plan, Left
    <2> QED
      BY <2>1, <2>2, <2>3, <2>4 DEF Begun
  <1>8. Begun(Plan["accept"])
    <2>1. Plan["accept"] \in Seq(Names)
      BY DEF Plan, Names
    <2>2. Plan["accept"] # <<>>
      BY DEF Plan, Names
    <2>3. Orders(Plan["accept"])
      BY DEF Plan, Orders, Before, Once, Apart
    <2>4. /\ "cancel" \in Left(Plan["accept"]) => "refund" \in Left(Plan["accept"])
          /\ "rate" \in Left(Plan["accept"]) => "insertRating" \in Left(Plan["accept"])
      BY DEF Plan, Left
    <2> QED
      BY <2>1, <2>2, <2>3, <2>4 DEF Begun
  <1>9. Begun(Plan["submit"]) /\ "start" \notin Left(Plan["submit"])
    <2>1. Plan["submit"] = <<"insertApproved", "complete", "release", "countCompleted",
                              "countCreated", "reward">>
      BY CompletesAfter DEF Plan, Names
    <2>2. Plan["submit"] \in Seq(Names)
      BY <2>1 DEF Names
    <2>3. Plan["submit"] # <<>>
      BY <2>1 DEF Names
    <2>4. Orders(Plan["submit"])
      BY <2>1 DEF Orders, Before, Once, Apart
    <2>5. /\ "cancel" \in Left(Plan["submit"]) => "refund" \in Left(Plan["submit"])
          /\ "rate" \in Left(Plan["submit"]) => "insertRating" \in Left(Plan["submit"])
          /\ "start" \notin Left(Plan["submit"])
      BY <2>1 DEF Left
    <2> QED
      BY <2>2, <2>3, <2>4, <2>5 DEF Begun
  <1>10. Begun(Plan["review"]) /\ "start" \notin Left(Plan["review"])
    <2>1. Plan["review"] \in Seq(Names)
      BY DEF Plan, Names
    <2>2. Plan["review"] # <<>>
      BY DEF Plan, Names
    <2>3. Orders(Plan["review"])
      BY DEF Plan, Orders, Before, Once, Apart
    <2>4. /\ "cancel" \in Left(Plan["review"]) => "refund" \in Left(Plan["review"])
          /\ "rate" \in Left(Plan["review"]) => "insertRating" \in Left(Plan["review"])
          /\ "start" \notin Left(Plan["review"])
      BY DEF Plan, Left
    <2> QED
      BY <2>1, <2>2, <2>3, <2>4 DEF Begun
  <1>11. Begun(Plan["approve"]) /\ "start" \notin Left(Plan["approve"])
    <2>1. Plan["approve"] = <<"approve", "complete", "release", "countCompleted",
                              "countCreated", "reward">>
      BY CompletesAfter DEF Plan, Names
    <2>2. Plan["approve"] \in Seq(Names)
      BY <2>1 DEF Names
    <2>3. Plan["approve"] # <<>>
      BY <2>1 DEF Names
    <2>4. Orders(Plan["approve"])
      BY <2>1 DEF Orders, Before, Once, Apart
    <2>5. /\ "cancel" \in Left(Plan["approve"]) => "refund" \in Left(Plan["approve"])
          /\ "rate" \in Left(Plan["approve"]) => "insertRating" \in Left(Plan["approve"])
          /\ "start" \notin Left(Plan["approve"])
      BY <2>1 DEF Left
    <2> QED
      BY <2>2, <2>3, <2>4, <2>5 DEF Begun
  <1>12. Begun(Plan["reject"]) /\ "start" \notin Left(Plan["reject"])
    <2>1. Plan["reject"] \in Seq(Names)
      BY DEF Plan, Names
    <2>2. Plan["reject"] # <<>>
      BY DEF Plan, Names
    <2>3. Orders(Plan["reject"])
      BY DEF Plan, Orders, Before, Once, Apart
    <2>4. /\ "cancel" \in Left(Plan["reject"]) => "refund" \in Left(Plan["reject"])
          /\ "rate" \in Left(Plan["reject"]) => "insertRating" \in Left(Plan["reject"])
          /\ "start" \notin Left(Plan["reject"])
      BY DEF Plan, Left
    <2> QED
      BY <2>1, <2>2, <2>3, <2>4 DEF Begun
  <1>13. Begun(Plan["timeout"]) /\ "start" \notin Left(Plan["timeout"])
    <2>1. Plan["timeout"] \in Seq(Names)
      BY DEF Plan, Names
    <2>2. Plan["timeout"] # <<>>
      BY DEF Plan, Names
    <2>3. Orders(Plan["timeout"])
      BY DEF Plan, Orders, Before, Once, Apart
    <2>4. /\ "cancel" \in Left(Plan["timeout"]) => "refund" \in Left(Plan["timeout"])
          /\ "rate" \in Left(Plan["timeout"]) => "insertRating" \in Left(Plan["timeout"])
          /\ "start" \notin Left(Plan["timeout"])
      BY DEF Plan, Left
    <2> QED
      BY <2>1, <2>2, <2>3, <2>4 DEF Begun
  <1>14. Begun(Plan["rate"]) /\ "start" \notin Left(Plan["rate"])
    <2>1. Plan["rate"] \in Seq(Names)
      BY DEF Plan, Names
    <2>2. Plan["rate"] # <<>>
      BY DEF Plan, Names
    <2>3. Orders(Plan["rate"])
      BY DEF Plan, Orders, Before, Once, Apart
    <2>4. /\ "cancel" \in Left(Plan["rate"]) => "refund" \in Left(Plan["rate"])
          /\ "rate" \in Left(Plan["rate"]) => "insertRating" \in Left(Plan["rate"])
          /\ "start" \notin Left(Plan["rate"])
      BY DEF Plan, Left
    <2> QED
      BY <2>1, <2>2, <2>3, <2>4 DEF Begun
  <1> QED
    BY <1>1, <1>2, <1>3, <1>4, <1>5, <1>6, <1>7, <1>8, <1>9, <1>10, <1>11, <1>12, <1>13, <1>14, BegunSeq DEF Ops

LEMMA PlanType ==
    ASSUME NEW op \in Ops
    PROVE  Plan[op] \in Seq(Statement)
  <1>1. op \in DOMAIN Plan
    BY DEF Ops, Plan
  <1>2. Left(Plan[op]) \subseteq Statement
    <2> DEFINE All == {{Plan[o][i] : i \in 1..Len(Plan[o])} : o \in DOMAIN Plan}
    <2>1. {Plan[op][i] : i \in 1..Len(Plan[op])} \in All
      BY <1>1
    <2> HIDE DEF All
    <2>2. UNION All \subseteq Statement
      BY DEF All, Statement
    <2> QED
      BY <2>1, <2>2 DEF Left
  <1> QED
    BY <1>2, PlanSeq DEF Left

(***************************************************************************)
(* What each step does to the job that takes it                            *)
(***************************************************************************)
LEMMA IdleJob == Idle \in Job /\ Idle.plan = <<>> /\ Left(<<>>) = {}
  BY DEF Idle, Job, Left

LEMMA JobType ==
    ASSUME TypeOK, NEW p \in Procs
    PROVE  /\ job[p] \in Job /\ job[p].plan \in Seq(Statement)
           /\ job[p].task \in Tasks \cup {NoTask} /\ job[p].worker \in Workers \cup {NoWorker}
           /\ job[p].sub \in Subs \cup {NoSub}
  BY DEF TypeOK, Job

Others1(p) == job' \in [Procs -> Job] /\ \A q \in Procs \ {p} : job'[q] = job[q]

\* p goes on with the task it works on, or is done.
Advances(p) ==
    /\ Others1(p)
    /\ job'[p].plan # <<>> => /\ job'[p].task = job[p].task
                              /\ Left(job'[p].plan) \subseteq Left(job[p].plan) \cup {"undo"}

LEMMA StartStep ==
    ASSUME TypeOK, NEW p \in Procs, NEW op \in Ops, NEW t \in Tasks,
           NEW w \in Workers \cup {NoWorker}, NEW s \in Subs \cup {NoSub}, Start(p, op, t, w, s)
    PROVE  /\ Others1(p) /\ job[p] = Idle /\ job'[p].task = t /\ Begun(job'[p].plan)
           /\ op # "accept" => "start" \notin Left(job'[p].plan)
  <1> DEFINE x == [task |-> t, worker |-> w, sub |-> s, plan |-> Plan[op]]
  <1>1. x \in Job /\ x.task = t /\ x.plan = Plan[op]
    BY PlanType DEF Job
  <1>2. job' = [job EXCEPT ![p] = x] /\ job[p] = Idle
    BY DEF Start
  <1> HIDE DEF x
  <1>3. Others1(p) /\ job'[p] = x
    BY <1>1, <1>2 DEF TypeOK, Others1
  <1> QED
    BY <1>1, <1>2, <1>3, PlanSeq

LEMMA AbortStep ==
    ASSUME TypeOK, NEW p \in Procs, Abort(p)
    PROVE  Advances(p)
  BY IdleJob DEF Abort, TypeOK, Advances, Others1

LEMMA DoneStep ==
    ASSUME TypeOK, NEW p \in Procs, job[p].plan # <<>>, Done(p)
    PROVE  Advances(p)
  <1> DEFINE x == [job[p] EXCEPT !.plan = Tail(@)]
  <1>1. PICK plan \in Seq(Statement) : plan = job[p].plan /\ plan # <<>>
    BY JobType
  <1>2. Tail(plan) \in Seq(Statement) /\ Left(Tail(plan)) \subseteq Left(plan)
    <2>1. /\ Tail(plan) \in Seq(Statement) /\ Len(Tail(plan)) = Len(plan) - 1
          /\ \A i \in 1..Len(Tail(plan)) : Tail(plan)[i] = plan[i + 1]
      BY <1>1, HeadTailProperties
    <2>2. \A i \in 1..Len(Tail(plan)) : i + 1 \in 1..Len(plan)
      BY <1>1, <2>1, LenProperties
    <2> QED
      BY <2>1, <2>2 DEF Left
  <1>3. x \in Job /\ x.task = job[p].task /\ x.plan = Tail(plan)
    BY <1>1, <1>2, JobType DEF Job
  <1>4. job' = [job EXCEPT ![p] = IF Len(job[p].plan) = 1 THEN Idle ELSE x]
    BY DEF Done
  <1> HIDE DEF x
  <1>5. Others1(p) /\ (job'[p] = Idle \/ job'[p] = x)
    BY <1>3, <1>4, IdleJob DEF TypeOK, Others1
  <1> QED
    BY <1>1, <1>2, <1>3, <1>5, IdleJob DEF Advances

LEMMA TodoStep ==
    ASSUME TypeOK, NEW p \in Procs, NEW s, Todo(p, s)
    PROVE  job[p].plan # <<>> /\ s \in Left(job[p].plan)
  <1>1. PICK plan \in Seq(Statement) : plan = job[p].plan /\ plan # <<>> /\ Head(plan) = s
    BY JobType DEF Todo
  <1>2. 1 \in 1..Len(plan) /\ plan[1] = s
    BY <1>1, LenProperties, EmptySeq
  <1> QED
    BY <1>1, <1>2 DEF Left

(***************************************************************************)
(* The invariants                                                          *)
(***************************************************************************)
\* A handler works on a row that exists; and it starts no system task.
JobsOK ==
    \A p \in Procs : job[p].plan # <<>> =>
        /\ job[p].task \in Tasks /\ ~Is(job[p].task, "none")
        /\ "start" \in Left(job[p].plan) => task[job[p].task].kind # "system"

\* A submission is for a task that exists.
SubsOK ==
    \A s \in Subs : submission[s].status # "none" =>
        submission[s].task \in Tasks /\ ~Is(submission[s].task, "none")

\* An open task has no executor.
OpenFree == \A t \in Tasks : task[t].status \in {"none", "open"} => task[t].executor = NoWorker

Inv == TypeOK /\ JobsOK /\ SubsOK /\ OpenFree

\* Rows are not taken back, and stay of their kind.
RowsStay ==
    \A t \in Tasks : ~Is(t, "none") => task'[t].status # "none" /\ task'[t].kind = task[t].kind

\* What every step promises of the tasks.
TasksGo ==
    /\ task' \in [Tasks -> TaskRow]
    /\ RowsStay /\ OpenFree'
    /\ \A t \in Tasks : task[t].kind = "system" => Keeps(t)

LEMMA TasksSame == ASSUME Inv, task' = task PROVE TasksGo
  BY DEF Inv, TypeOK, TasksGo, RowsStay, OpenFree, Keeps, Is, TaskRow

\* Statements that write the task of the handler.
LEMMA StepTasks ==
    ASSUME Inv, NEW p \in Procs, Step(p)
    PROVE  TasksGo
  <1>1. TypeOK /\ JobsOK /\ OpenFree
    BY DEF Inv
  <1> DEFINE t == job[p].task
  <1>2. ASSUME job[p].plan # <<>> PROVE t \in Tasks /\ ~Is(t, "none")
    BY <1>1, <1>2 DEF JobsOK
  <1>3. job[p].worker \in Workers \cup {NoWorker}
    BY <1>1, JobType
  <1>4. \A u \in Tasks : task[u] \in TaskRow
    BY <1>1 DEF TypeOK
  <1>5. ASSUME t \in Tasks, ~Is(t, "none"), NEW row \in TaskRow, task' = [task EXCEPT ![t] = row],
               row.kind = task[t].kind, row.status # "none",
               row.status = "open" => row.executor = NoWorker,
               task[t].kind = "system" /\ task[t].executor # NoWorker
                   => row.executor \in {task[t].executor, NoWorker}
        PROVE  TasksGo
    <2>1. task' \in [Tasks -> TaskRow] /\ task'[t] = row /\ \A u \in Tasks \ {t} : task'[u] = task[u]
      BY <1>1, <1>5 DEF TypeOK
    <2>2. RowsStay
      BY <1>5, <2>1 DEF RowsStay, Is
    <2>3. OpenFree'
      BY <1>1, <1>5, <2>1 DEF OpenFree
    <2>4. ASSUME NEW u \in Tasks, task[u].kind = "system" PROVE Keeps(u)
      BY <1>5, <2>1, <2>4 DEF Keeps
    <2> QED
      BY <2>1, <2>2, <2>3, <2>4 DEF TasksGo
  <1>6. CASE UndoStmt(p)
    <2>1. job[p].plan # <<>>
      BY <1>6 DEF UndoStmt, Todo
    <2>2. CASE task' = task
      BY <2>2, TasksSame
    <2>3. CASE task' = [task EXCEPT ![t].status = "deleted"]
      <3> DEFINE row == [task[t] EXCEPT !.status = "deleted"]
      <3>1. row \in TaskRow /\ row.kind = task[t].kind /\ row.status = "deleted"
            /\ row.executor = task[t].executor
        BY <1>2, <1>4, <2>1 DEF TaskRow, TaskStatus
      <3>2. task' = [task EXCEPT ![t] = row]
        BY <2>3
      <3> HIDE DEF row
      <3> QED
        BY <1>2, <1>5, <2>1, <3>1, <3>2
    <2> QED
      BY <1>6, <2>2, <2>3 DEF UndoStmt
  <1>7. CASE TaskStmt(p)
    <2>1. PICK s \in DOMAIN TaskWrites :
              /\ Todo(p, s)
              /\ task' = [task EXCEPT
                    ![t].status = TaskWrites[s],
                    ![t].executor = CASE s = "start"  -> job[p].worker
                                      [] s = "reopen" -> NoWorker
                                      [] OTHER        -> task[t].executor]
      BY <1>7 DEF TaskStmt
    <2>2. /\ s \in {"cancel", "start", "validate", "complete", "reopen"}
          /\ TaskWrites[s] \in {"cancelled", "in_progress", "validating", "completed", "open"}
          /\ TaskWrites[s] = "open" => s = "reopen"
      BY <2>1 DEF TaskWrites
    <2>3. job[p].plan # <<>> /\ s \in Left(job[p].plan)
      BY <1>1, <2>1, TodoStep
    <2>4. t \in Tasks /\ ~Is(t, "none") /\ task[t] \in TaskRow
          /\ (s = "start" => task[t].kind # "system")
      BY <1>1, <1>4, <2>3 DEF JobsOK
    <2> DEFINE executor == CASE s = "start"  -> job[p].worker
                             [] s = "reopen" -> NoWorker
                             [] OTHER        -> task[t].executor
               row == [task[t] EXCEPT !.status = TaskWrites[s], !.executor = executor]
    <2>5. /\ executor \in Workers \cup {NoWorker}
          /\ s = "reopen" => executor = NoWorker
          /\ s \notin {"start", "reopen"} => executor = task[t].executor
      BY <1>3, <2>4 DEF TaskRow
    <2>6. task' = [task EXCEPT ![t] = row]
      BY <2>1
    <2> HIDE DEF executor
    <2>7. /\ row \in TaskRow /\ row.kind = task[t].kind /\ row.status = TaskWrites[s]
          /\ row.executor = executor
      BY <2>2, <2>4, <2>5 DEF TaskRow, TaskStatus
    <2> HIDE DEF row
    <2> QED
      BY <1>5, <2>2, <2>4, <2>5, <2>6, <2>7
  <1>8. ASSUME job[p].plan # <<>>, NEW w \in Workers \cup {NoWorker},
               \/ task' = task
               \/ /\ task' = [task EXCEPT ![t].status = "open", ![t].executor = NoWorker]
                  /\ w = NoWorker
               \/ /\ task' = [task EXCEPT ![t].status = "in_progress", ![t].executor = w]
                  /\ Is(t, "open")
        PROVE  TasksGo
    <2>1. CASE task' = task
      BY <2>1, TasksSame
    <2>2. ASSUME NEW status \in {"open", "in_progress"},
                 task' = [task EXCEPT ![t].status = status, ![t].executor = w],
                 status = "open" => w = NoWorker, status = "in_progress" => Is(t, "open")
          PROVE  TasksGo
      <3> DEFINE row == [task[t] EXCEPT !.status = status, !.executor = w]
      <3>1. t \in Tasks /\ ~Is(t, "none") /\ task[t] \in TaskRow
        BY <1>2, <1>4, <1>8
      <3>2. row \in TaskRow /\ row.kind = task[t].kind /\ row.status = status /\ row.executor = w
        BY <3>1 DEF TaskRow, TaskStatus
      <3>3. task' = [task EXCEPT ![t] = row]
        BY <2>2
      <3>4. status = "in_progress" => task[t].executor = NoWorker
        BY <1>1, <2>2, <3>1 DEF OpenFree, Is
      <3> HIDE DEF row
      <3> QED
        BY <1>5, <2>2, <3>1, <3>2, <3>3, <3>4
    <2> QED
      BY <1>8, <2>1, <2>2
  <1>9. CASE ReopenStmt(p)
    BY <1>8, <1>9 DEF ReopenStmt, Todo
  <1>10. CASE ClaimStmt(p)
    BY <1>3, <1>8, <1>10 DEF ClaimStmt, Todo, Claimable
  <1>11. CASE EscrowStmt(p) \/ ContextStmt(p) \/ MoneyStmt(p) \/ InsertBidStmt(p) \/ ReadBidStmt(p)
               \/ BidStmt(p) \/ SubStmt(p) \/ CreditStmt(p) \/ RatingStmt(p)
    BY <1>11, TasksSame DEF EscrowStmt, ContextStmt, MoneyStmt, InsertBidStmt, ReadBidStmt, BidStmt,
       SubStmt, CreditStmt, RatingStmt, Reads
  <1> QED
    BY <1>6, <1>7, <1>9, <1>10, <1>11 DEF Step

LEMMA StepAdvances ==
    ASSUME TypeOK, NEW p \in Procs, Step(p)
    PROVE  Advances(p) /\ job[p].plan # <<>>
  <1>1. job[p].plan # <<>>
    BY DEF Step, EscrowStmt, UndoStmt, ContextStmt, MoneyStmt, TaskStmt, ReopenStmt, ClaimStmt,
       InsertBidStmt, ReadBidStmt, BidStmt, SubStmt, CreditStmt, RatingStmt, Todo
  <1>2. Done(p) \/ Abort(p) => Advances(p)
    BY <1>1, DoneStep, AbortStep
  <1>3. ASSUME job' = [job EXCEPT ![p] = [job[p] EXCEPT !.plan = <<"undo">>]]
        PROVE  Advances(p)
    <2> DEFINE x == [job[p] EXCEPT !.plan = <<"undo">>]
    <2>1. "undo" \in Statement
      BY DEF Statement
    <2>2. <<"undo">> \in Seq(Statement) /\ Left(<<"undo">>) = {"undo"}
      BY <2>1 DEF Left
    <2>3. x \in Job /\ x.task = job[p].task /\ x.plan = <<"undo">>
      BY <2>2, JobType DEF Job
    <2>4. job' = [job EXCEPT ![p] = x]
      BY <1>3
    <2> HIDE DEF x
    <2> QED
      BY <2>2, <2>3, <2>4 DEF TypeOK, Advances, Others1
  <1>4. CASE EscrowStmt(p)
    <2>1. \/ Done(p) \/ Abort(p)
          \/ job' = [job EXCEPT ![p] = [job[p] EXCEPT !.plan = <<"undo">>]]
      BY <1>4 DEF EscrowStmt, Abort
    <2> QED
      BY <1>1, <1>2, <1>3, <2>1
  <1>5. Step(p) => EscrowStmt(p) \/ Done(p) \/ Abort(p)
    BY DEF Step, UndoStmt, ContextStmt, MoneyStmt, TaskStmt, ReopenStmt, ClaimStmt, InsertBidStmt,
       ReadBidStmt, BidStmt, SubStmt, CreditStmt, RatingStmt
  <1> QED
    BY <1>1, <1>2, <1>4, <1>5

LEMMA StepTypes ==
    ASSUME Inv, NEW p \in Procs, Step(p)
    PROVE  TypeOK'
  <1>1. TypeOK /\ JobsOK
    BY DEF Inv
  <1>2. job' \in [Procs -> Job] /\ task' \in [Tasks -> TaskRow]
    BY <1>1, StepAdvances, StepTasks DEF Advances, Others1, TasksGo
  <1>3. job[p].task \in Tasks /\ job[p].worker \in Workers \cup {NoWorker}
    BY <1>1, JobType, StepAdvances DEF JobsOK
  <1>4. CASE UNCHANGED <<ctx, bid, submission, ledger, credit, rated, faults>>
    BY <1>1, <1>2, <1>4 DEF TypeOK
  <1>5. CASE EscrowStmt(p) \/ MoneyStmt(p)
    <2>1. ledger' \in [Tasks -> [escrow: Nat, paid: Nat, refunded: Nat]]
      <3> DEFINE t == job[p].task
      <3>1. /\ ledger \in [Tasks -> [escrow: Nat, paid: Nat, refunded: Nat]] /\ t \in Tasks
            /\ ledger[t] \in [escrow: Nat, paid: Nat, refunded: Nat]
        BY <1>1, <1>3 DEF TypeOK
      <3>2. \/ ledger' = ledger
            \/ ledger' = [ledger EXCEPT ![t].escrow = @ + 1]
            \/ ledger' = [ledger EXCEPT ![t].paid = @ + 1]
            \/ ledger' = [ledger EXCEPT ![t].refunded = @ + 1]
        BY <1>5 DEF EscrowStmt, MoneyStmt
      <3> HIDE DEF t
      <3>3. /\ [ledger[t] EXCEPT !.escrow = @ + 1] \in [escrow: Nat, paid: Nat, refunded: Nat]
            /\ [ledger[t] EXCEPT !.paid = @ + 1] \in [escrow: Nat, paid: Nat, refunded: Nat]
            /\ [ledger[t] EXCEPT !.refunded = @ + 1] \in [escrow: Nat, paid: Nat, refunded: Nat]
        BY <3>1
      <3> QED
        BY <3>1, <3>2, <3>3
    <2> QED
      BY <1>1, <1>2, <1>5, <2>1 DEF EscrowStmt, MoneyStmt, TypeOK
  <1>6. CASE ContextStmt(p)
    BY <1>1, <1>2, <1>3, <1>6 DEF ContextStmt, TypeOK
  <1>7. CASE InsertBidStmt(p) \/ BidStmt(p)
    <2>1. bid' \in [Tasks -> [Workers -> BidStatus]]
      <3>1. bid \in [Tasks -> [Workers -> BidStatus]] /\ bid[job[p].task] \in [Workers -> BidStatus]
        BY <1>1, <1>3 DEF TypeOK
      <3>2. ASSUME NEW row \in [Workers -> BidStatus], bid' = [bid EXCEPT ![job[p].task] = row]
            PROVE  bid' \in [Tasks -> [Workers -> BidStatus]]
        BY <3>1, <3>2
      <3>3. ASSUME NEW status \in BidStatus, bid' = [bid EXCEPT ![job[p].task][job[p].worker] = status]
            PROVE  bid' \in [Tasks -> [Workers -> BidStatus]]
        <4>1. [bid[job[p].task] EXCEPT ![job[p].worker] = status] \in [Workers -> BidStatus]
          BY <3>1
        <4> QED
          BY <3>1, <3>3, <4>1
      <3>4. CASE InsertBidStmt(p)
        BY <3>1, <3>3, <3>4 DEF InsertBidStmt, BidStatus
      <3>5. CASE bid' = [bid EXCEPT ![job[p].task][job[p].worker] = "accepted"]
        BY <3>3, <3>5 DEF BidStatus
      <3>6. CASE bid' = [bid EXCEPT ![job[p].task][job[p].worker] =
                            IF @ \in {"pending", "accepted"} THEN "rejected" ELSE @]
        <4> DEFINE new == IF bid[job[p].task][job[p].worker] \in {"pending", "accepted"} THEN "rejected"
                          ELSE bid[job[p].task][job[p].worker]
        <4>1. [bid[job[p].task] EXCEPT ![job[p].worker] = new] \in [Workers -> BidStatus]
          BY <3>1 DEF BidStatus
        <4> QED
          BY <3>1, <3>6, <4>1
      <3>7. CASE bid' = [bid EXCEPT ![job[p].task] =
                            [v \in Workers |-> IF v \in Others(job[p].worker) /\ bid[job[p].task][v] # "none"
                                               THEN "rejected" ELSE bid[job[p].task][v]]]
        <4>1. [v \in Workers |-> IF v \in Others(job[p].worker) /\ bid[job[p].task][v] # "none"
                                 THEN "rejected" ELSE bid[job[p].task][v]] \in [Workers -> BidStatus]
          BY <3>1 DEF BidStatus
        <4> QED
          BY <3>2, <3>7, <4>1
      <3> QED
        BY <1>7, <3>4, <3>5, <3>6, <3>7 DEF BidStmt
    <2> QED
      BY <1>1, <1>2, <1>7, <2>1 DEF InsertBidStmt, BidStmt, TypeOK
  <1>8. CASE SubStmt(p)
    <2>1. PICK s \in DOMAIN SubWrites :
              submission' = [submission EXCEPT ![job[p].sub] =
                  [status |-> SubWrites[s], task |-> job[p].task, worker |-> job[p].worker]]
      BY <1>8 DEF SubStmt
    <2>2. [status |-> SubWrites[s], task |-> job[p].task, worker |-> job[p].worker] \in SubRow
      BY <1>3 DEF SubWrites, SubRow, SubStatus
    <2>3. submission' \in [Subs -> SubRow]
      BY <1>1, <2>1, <2>2 DEF TypeOK
    <2> QED
      BY <1>1, <1>2, <1>8, <2>3 DEF SubStmt, TypeOK
  <1>9. CASE CreditStmt(p)
    <2>1. PICK s \in DOMAIN CreditWrites :
              credit' = [credit EXCEPT ![job[p].task][CreditWrites[s]] = @ + 1]
      BY <1>9 DEF CreditStmt
    <2>2. CreditWrites[s] \in Credit
      BY DEF CreditWrites, Credit
    <2>3. credit' \in [Tasks -> [Credit -> Nat]]
      BY <1>1, <1>3, <2>1, <2>2 DEF TypeOK
    <2> QED
      BY <1>1, <1>2, <1>9, <2>3 DEF CreditStmt, TypeOK
  <1>10. CASE RatingStmt(p)
    BY <1>1, <1>2, <1>3, <1>10 DEF RatingStmt, TypeOK
  <1>11. CASE UndoStmt(p) \/ TaskStmt(p) \/ ReopenStmt(p) \/ ClaimStmt(p) \/ ReadBidStmt(p)
    BY <1>4, <1>11 DEF UndoStmt, TaskStmt, ReopenStmt, ClaimStmt, ReadBidStmt, Reads
  <1> QED
    BY <1>5, <1>6, <1>7, <1>8, <1>9, <1>10, <1>11 DEF Step

(***************************************************************************)
(* Requests and timers                                                     *)
(***************************************************************************)
\* No task ends.
NoneEnds ==
    \A t \in Tasks : task'[t].status \in {"completed", "cancelled"} => Is(t, task'[t].status)

\* p starts on a task that exists, and starts it for a worker only if no system task.
Begins(p) ==
    /\ Others1(p) /\ job[p] = Idle /\ Begun(job'[p].plan)
    /\ job'[p].task \in Tasks /\ task'[job'[p].task].status # "none"
    /\ "start" \in Left(job'[p].plan) => task'[job'[p].task].kind # "system"
    /\ NoneEnds /\ UNCHANGED <<ctx, bid, submission, ledger, credit, rated, faults>>

LEMMA ReadsBegin ==
    ASSUME Inv, NEW p \in Procs, NEW op \in Ops, NEW t \in Tasks, NEW w \in Workers \cup {NoWorker},
           NEW s \in Subs \cup {NoSub}, Start(p, op, t, w, s), Reads, ~Is(t, "none"),
           op = "accept" => task[t].kind # "system"
    PROVE  TasksGo /\ Begins(p)
  <1>1. task' = task /\ UNCHANGED <<ctx, bid, submission, ledger, credit, rated, faults>>
    BY DEF Reads
  <1>2. /\ Others1(p) /\ job[p] = Idle /\ job'[p].task = t /\ Begun(job'[p].plan)
        /\ op # "accept" => "start" \notin Left(job'[p].plan)
    BY StartStep DEF Inv
  <1> QED
    BY <1>1, <1>2, TasksSame DEF Begins, Is, NoneEnds

LEMMA InsertGoes ==
    ASSUME Inv, NEW t \in Tasks, NEW kind \in {"rest", "system", "a2a", "recurring"},
           NEW reviewed \in BOOLEAN, Insert(t, kind, reviewed)
    PROVE  TasksGo /\ NoneEnds /\ task'[t].status = "open"
  <1> DEFINE row == [status |-> "open", kind |-> kind, reviewed |-> reviewed, executor |-> NoWorker]
  <1>1. row \in TaskRow /\ row.status = "open" /\ row.executor = NoWorker
    BY DEF TaskRow, TaskStatus
  <1>2. /\ task' = [task EXCEPT ![t] = row] /\ task[t] = Absent /\ task \in [Tasks -> TaskRow]
        /\ OpenFree
    BY DEF Insert, Inv, TypeOK
  <1> HIDE DEF row
  <1>3. /\ task' \in [Tasks -> TaskRow] /\ task'[t] = row
        /\ \A u \in Tasks \ {t} : task'[u] = task[u]
    BY <1>1, <1>2
  <1>4. RowsStay
    BY <1>2, <1>3 DEF RowsStay, Is, Absent
  <1>5. OpenFree'
    BY <1>1, <1>2, <1>3 DEF OpenFree
  <1>6. \A u \in Tasks : task[u].kind = "system" => Keeps(u)
    BY <1>2, <1>3 DEF Keeps, Absent
  <1>7. NoneEnds
    BY <1>1, <1>3 DEF NoneEnds, Is
  <1> QED
    BY <1>1, <1>3, <1>4, <1>5, <1>6, <1>7 DEF TasksGo

LEMMA CreateBegins ==
    ASSUME Inv, NEW p \in Procs, NEW t \in Tasks, NEW kind \in {"rest", "system", "a2a"},
           NEW reviewed \in BOOLEAN, Insert(t, kind, reviewed), Start(p, kind, t, NoWorker, NoSub)
    PROVE  TasksGo /\ Begins(p)
  <1>1. UNCHANGED <<ctx, bid, submission, ledger, credit, rated, faults>>
    BY DEF Insert
  <1>2. kind \in Ops /\ kind # "accept"
    BY DEF Ops
  <1>3. /\ Others1(p) /\ job[p] = Idle /\ job'[p].task = t /\ Begun(job'[p].plan)
        /\ "start" \notin Left(job'[p].plan)
    BY <1>2, StartStep DEF Inv
  <1> QED
    BY <1>1, <1>3, InsertGoes DEF Begins

LEMMA RequestBegins ==
    ASSUME Inv, NEW p \in Procs, Request(p) \/ Tick(p)
    PROVE  /\ TasksGo
           /\ \/ Begins(p)
              \/ /\ job' = job /\ NoneEnds
                 /\ UNCHANGED <<ctx, bid, submission, ledger, credit, rated, faults>>
  <1> USE DEF Ops
  <1>1. \A t \in Tasks : task[t] \in TaskRow /\ task[t].executor \in Workers \cup {NoWorker}
    BY DEF Inv, TypeOK, TaskRow
  <1>2. \A reviewed \in Reviewed : reviewed \in BOOLEAN
    OBVIOUS
  <1>3. ASSUME NEW t \in Tasks, NEW reviewed \in Reviewed,
               Create(p, t, reviewed) \/ CreateSystem(p, t, reviewed)
        PROVE  TasksGo /\ Begins(p)
    BY <1>2, <1>3, CreateBegins DEF Create, CreateSystem
  <1>4. ASSUME NEW t \in Tasks, MessageSend(p, t) PROVE TasksGo /\ Begins(p)
    BY <1>4, CreateBegins DEF MessageSend
  <1>5. ASSUME NEW t \in Tasks, Cancel(p, t) PROVE TasksGo /\ Begins(p)
    BY <1>5, ReadsBegin DEF Cancel, Is
  <1>6. ASSUME NEW t \in Tasks, A2ACancel(p, t) PROVE TasksGo /\ Begins(p)
    BY <1>6, ReadsBegin DEF A2ACancel, Is
  <1>7. ASSUME NEW t \in Tasks, Rate(p, t) PROVE TasksGo /\ Begins(p)
    BY <1>1, <1>7, ReadsBegin DEF Rate, Is
  <1>8. ASSUME NEW t \in Tasks, NEW w \in Workers, Accept(p, t, w) PROVE TasksGo /\ Begins(p)
    BY <1>8, ReadsBegin DEF Accept, Is
  <1>9. ASSUME NEW t \in Tasks, NEW w \in Workers, Bid(p, t, w) PROVE TasksGo /\ Begins(p)
    BY <1>9, ReadsBegin DEF Bid, Is
  <1>10. ASSUME NEW t \in Tasks, NEW w \in Workers, NEW s \in Subs, NEW op \in {"submit", "review"},
                Submit(p, t, w, s, op)
         PROVE  TasksGo /\ Begins(p)
    BY <1>10, ReadsBegin DEF Submit, SubmitAllowed, Is
  <1>11. ASSUME NEW s \in Subs, NEW op \in {"approve", "reject"}, Decide(p, s, op)
         PROVE  TasksGo /\ Begins(p)
    <2>1. submission[s].status # "none" /\ submission[s] \in SubRow
      BY <1>11 DEF Decide, Decided, Inv, TypeOK
    <2>2. submission[s].task \in Tasks /\ ~Is(submission[s].task, "none")
      BY <2>1 DEF Inv, SubsOK
    <2>3. submission[s].worker \in Workers \cup {NoWorker}
      BY <2>1 DEF SubRow
    <2> QED
      BY <1>11, <2>2, <2>3, ReadsBegin DEF Decide
  <1>12. ASSUME NEW t \in Tasks, Timeout(p, t) PROVE TasksGo /\ Begins(p)
    BY <1>1, <1>12, ReadsBegin DEF Timeout, Is
  <1>13. ASSUME NEW t \in Tasks, NEW reviewed \in Reviewed, PostInstance(t, reviewed)
         PROVE  /\ TasksGo
                /\ job' = job /\ NoneEnds
                /\ UNCHANGED <<ctx, bid, submission, ledger, credit, rated, faults>>
    BY <1>2, <1>13, InsertGoes DEF PostInstance, Insert
  <1>14. CASE Request(p)
    BY <1>3, <1>4, <1>5, <1>6, <1>7, <1>8, <1>9, <1>10, <1>11, <1>14 DEF Request
  <1>15. CASE Tick(p)
    BY <1>11, <1>12, <1>13, <1>15 DEF Tick
  <1> QED
    BY <1>14, <1>15

(***************************************************************************)
(* The invariants are kept                                                 *)
(***************************************************************************)
\* What a handler knows of its task stays true while others run.
LEMMA JobStays ==
    ASSUME Inv, RowsStay, NEW q \in Procs, job'[q] = job[q], job[q].plan # <<>>
    PROVE  /\ job'[q].task \in Tasks /\ task'[job'[q].task].status # "none"
           /\ "start" \in Left(job'[q].plan) => task'[job'[q].task].kind # "system"
  BY DEF Inv, JobsOK, RowsStay, Is

LEMMA SubsStay ==
    ASSUME Inv, RowsStay, submission' = submission
    PROVE  SubsOK'
  BY DEF Inv, SubsOK, RowsStay, Is

LEMMA StepInvariance ==
    ASSUME Inv, NEW p \in Procs, Step(p)
    PROVE  Inv' /\ TasksGo
  <1>1. TypeOK' /\ TasksGo
    BY StepTypes, StepTasks
  <1>2. RowsStay /\ OpenFree'
    BY <1>1 DEF TasksGo
  <1>3. Advances(p) /\ job[p].plan # <<>>
    BY StepAdvances DEF Inv
  <1>4. /\ job[p].task \in Tasks /\ task'[job[p].task].status # "none"
        /\ "start" \in Left(job[p].plan) => task'[job[p].task].kind # "system"
    BY <1>2, <1>3 DEF Inv, JobsOK, RowsStay
  <1>5. JobsOK'
    <2>1. \A q \in Procs \ {p} : job'[q] = job[q]
      BY <1>3 DEF Advances, Others1
    <2>2. job'[p].plan # <<>> =>
             /\ job'[p].task \in Tasks /\ task'[job'[p].task].status # "none"
             /\ "start" \in Left(job'[p].plan) => task'[job'[p].task].kind # "system"
      BY <1>3, <1>4 DEF Advances
    <2> QED
      BY <1>2, <2>1, <2>2, JobStays DEF JobsOK, Is
  <1>6. SubsOK'
    <2>1. CASE submission' = submission
      BY <1>2, <2>1, SubsStay
    <2>2. CASE SubStmt(p)
      <3>1. PICK s \in DOMAIN SubWrites :
                submission' = [submission EXCEPT ![job[p].sub] =
                    [status |-> SubWrites[s], task |-> job[p].task, worker |-> job[p].worker]]
        BY <2>2 DEF SubStmt
      <3>2. ASSUME NEW u \in Subs
            PROVE  submission'[u] = submission[u] \/ submission'[u].task = job[p].task
        BY <3>1 DEF Inv, TypeOK
      <3> QED
        BY <1>2, <1>4, <3>2 DEF Inv, SubsOK, RowsStay, Is
    <2> QED
      BY <2>1, <2>2 DEF Step, EscrowStmt, UndoStmt, ContextStmt, MoneyStmt, TaskStmt, ReopenStmt,
         ClaimStmt, InsertBidStmt, ReadBidStmt, BidStmt, CreditStmt, RatingStmt, Reads
  <1> QED
    BY <1>1, <1>2, <1>5, <1>6 DEF Inv

LEMMA Invariance ==
    ASSUME Inv, [Next]_vars
    PROVE  Inv' /\ TasksGo
  <1>1. ASSUME NEW p \in Procs, Request(p) \/ Tick(p) PROVE Inv' /\ TasksGo
    <2>1. TasksGo /\ task' \in [Tasks -> TaskRow] /\ RowsStay /\ OpenFree'
      BY <1>1, RequestBegins DEF TasksGo
    <2>2. UNCHANGED <<ctx, bid, submission, ledger, credit, rated, faults>>
      BY <1>1, RequestBegins DEF Begins
    <2>3. job' \in [Procs -> Job]
      BY <1>1, RequestBegins DEF Begins, Others1, Inv, TypeOK
    <2>4. TypeOK'
      BY <2>1, <2>2, <2>3 DEF Inv, TypeOK
    <2>5. JobsOK'
      <3>1. CASE job' = job
        BY <2>1, <3>1, JobStays DEF JobsOK, Is
      <3>2. CASE Begins(p)
        BY <2>1, <3>2, JobStays DEF JobsOK, Is, Begins, Others1
      <3> QED
        BY <1>1, <3>1, <3>2, RequestBegins
    <2> QED
      BY <2>1, <2>2, <2>4, <2>5, SubsStay DEF Inv
  <1>2. CASE Fault
    <2>1. /\ UNCHANGED <<task, ctx, bid, submission, ledger, credit, rated>> /\ faults' = faults + 1
          /\ job' \in [Procs -> Job] /\ \A q \in Procs : job'[q] = job[q] \/ job'[q] = Idle
      <3>1. ASSUME NEW p \in Procs, Abort(p)
            PROVE  job' \in [Procs -> Job] /\ \A q \in Procs : job'[q] = job[q] \/ job'[q] = Idle
        BY <3>1, IdleJob DEF Abort, Inv, TypeOK
      <3>2. ASSUME job' = [p \in Procs |-> Idle]
            PROVE  job' \in [Procs -> Job] /\ \A q \in Procs : job'[q] = Idle
        BY <3>2, IdleJob
      <3> QED
        BY <1>2, <3>1, <3>2 DEF Fault
    <2>2. TypeOK'
      BY <2>1 DEF Inv, TypeOK
    <2>3. TasksGo /\ RowsStay /\ OpenFree'
      BY <2>1, TasksSame DEF TasksGo
    <2>4. JobsOK'
      BY <2>1, <2>3, JobStays, IdleJob DEF JobsOK, Is
    <2> QED
      BY <2>1, <2>2, <2>3, <2>4, SubsStay DEF Inv
  <1>3. CASE UNCHANGED vars
    <2>1. UNCHANGED <<task, ctx, bid, submission, ledger, credit, rated, job, faults>>
      BY <1>3 DEF vars
    <2>2. TasksGo /\ RowsStay /\ OpenFree'
      BY <2>1, TasksSame DEF TasksGo
    <2>3. TypeOK' /\ JobsOK' /\ SubsOK'
      BY <2>1 DEF Inv, TypeOK, JobsOK, SubsOK, Is
    <2> QED
      BY <2>2, <2>3 DEF Inv
  <1> QED
    BY <1>1, <1>2, <1>3, StepInvariance DEF Next

LEMMA InitInv == Init => Inv
  <1> SUFFICES ASSUME Init PROVE Inv
    OBVIOUS
  <1>1. task \in [Tasks -> TaskRow]
    BY DEF Init, Absent, TaskRow, TaskStatus
  <1>2. bid \in [Tasks -> [Workers -> BidStatus]]
    BY DEF Init, BidStatus
  <1>3. submission \in [Subs -> SubRow]
    BY DEF Init, SubRow, SubStatus
  <1>4. job \in [Procs -> Job] /\ \A p \in Procs : job[p].plan = <<>>
    BY IdleJob DEF Init
  <1>5. ledger \in [Tasks -> [escrow: Nat, paid: Nat, refunded: Nat]]
    BY DEF Init
  <1>6. credit \in [Tasks -> [Credit -> Nat]]
    BY DEF Init
  <1>7. TypeOK
    BY <1>1, <1>2, <1>3, <1>4, <1>5, <1>6 DEF Init, TypeOK
  <1>8. JobsOK /\ SubsOK /\ OpenFree
    BY <1>4 DEF Init, JobsOK, SubsOK, OpenFree, Absent
  <1> QED
    BY <1>7, <1>8 DEF Inv

\* Every variable has its type: a row has one of its statuses, and a handler in flight
\* has a rest of its plan left.
THEOREM TypeCorrect == Spec => []TypeOK
  <1>1. Inv => TypeOK
    BY DEF Inv
  <1>2. Inv /\ [Next]_vars => Inv'
    BY Invariance
  <1> QED
    BY InitInv, <1>1, <1>2, PTL DEF Spec

\* However bids, timeouts, reviews and faults interleave, the executor of a system task
\* is not displaced by another worker.
THEOREM SystemExecutorStays == Spec => SystemExecutorKept
  <1> DEFINE Kept == \A t \in Tasks : task[t].kind = "system" => Keeps(t)
  <1>1. Inv /\ [Next]_vars => Inv'
    BY Invariance
  <1>2. Inv /\ [Next]_vars => [Kept]_vars
    BY Invariance DEF TasksGo
  <1>3. Spec => [][Kept]_vars
    BY InitInv, <1>1, <1>2, PTL DEF Spec
  <1> QED
    BY <1>3 DEF SystemExecutorKept

(***************************************************************************)
(* Nothing is lost                                                         *)
(***************************************************************************)
LEMMA OrdersTail ==
    ASSUME NEW plan \in Seq(Statement), plan # <<>>, Orders(plan)
    PROVE  Orders(Tail(plan))
  <1> DEFINE tail == Tail(plan)
  <1>1. /\ Len(plan) \in Nat /\ Len(tail) = Len(plan) - 1
        /\ \A i \in 1..Len(tail) : tail[i] = plan[i + 1]
    BY HeadTailProperties, LenProperties
  <1>2. \A i \in 1..Len(tail) : i \in Int /\ i + 1 \in 1..Len(plan)
    BY <1>1
  <1> HIDE DEF tail
  <1>3. ASSUME NEW x, NEW y, Before(x, y, plan) PROVE Before(x, y, tail)
    <2> SUFFICES ASSUME NEW i \in 1..Len(tail), tail[i] = x
                 PROVE  \E j \in 1..Len(tail) : i < j /\ tail[j] = y
      BY DEF Before
    <2>1. PICK j \in 1..Len(plan) : i + 1 < j /\ plan[j] = y
      BY <1>1, <1>2, <1>3 DEF Before
    <2>2. j - 1 \in 1..Len(tail) /\ i < j - 1
      BY <1>1, <1>2, <2>1
    <2>3. tail[j - 1] = plan[(j - 1) + 1] /\ (j - 1) + 1 = j
      BY <1>1, <2>1, <2>2
    <2> QED
      BY <2>1, <2>2, <2>3
  <1>4. ASSUME NEW S, Once(S, plan) PROVE Once(S, tail)
    <2> SUFFICES ASSUME NEW i \in 1..Len(tail), NEW j \in 1..Len(tail), tail[i] \in S, tail[j] \in S
                 PROVE  i = j
      BY DEF Once
    <2>1. i + 1 = j + 1
      BY <1>1, <1>2, <1>4 DEF Once
    <2> QED
      BY <1>2, <2>1
  <1>5. ASSUME NEW X, NEW Y, Apart(X, Y, plan) PROVE Apart(X, Y, tail)
    BY <1>1, <1>2, <1>5 DEF Apart
  <1> QED
    BY <1>3, <1>4, <1>5 DEF Orders, tail

\* A handler works on task t and has statement x to run.
In(p, t, x) == job[p].task = t /\ x \in Left(job[p].plan)

OrdersOK == \A p \in Procs : Orders(job[p].plan)

\* The money statement a handler owes for a decision it has written.
Paying(t) ==
    {p \in Procs : In(p, t, "release") /\ ~In(p, t, "insertApproved") /\ ~In(p, t, "approve")}
Refunding(t) == {p \in Procs : In(p, t, "refund") /\ ~In(p, t, "reject")}
Rating(t) == {p \in Procs : In(p, t, "rate") /\ ~In(p, t, "insertRating")}

\* What is not yet paid, refunded or counted is owed by a handler in flight.
ApprovedPaid(t) == Cardinality(SubsOf(t, "approved")) <= ledger[t].paid + Cardinality(Paying(t))
RejectedRefunded(t) ==
    Cardinality(SubsOf(t, "rejected")) <= ledger[t].refunded + Cardinality(Refunding(t))
CompletedPaid(t) == Is(t, "completed") => ledger[t].paid >= 1 \/ \E p \in Procs : In(p, t, "release")
CancelledRefunded(t) ==
    /\ Is(t, "cancelled") => ledger[t].refunded >= 1 \/ \E p \in Procs : In(p, t, "refund")
    /\ \A p \in Procs : In(p, t, "cancel") => ledger[t].refunded >= 1 \/ In(p, t, "refund")
RatedOnce(t) == credit[t]["rated"] + Cardinality(Rating(t)) = IF t \in rated THEN 1 ELSE 0

Owed(t) ==
    /\ ApprovedPaid(t) /\ RejectedRefunded(t) /\ CompletedPaid(t) /\ CancelledRefunded(t)
    /\ RatedOnce(t)

OwedOK == faults = 0 => \A t \in Tasks : Owed(t)

\* Plan by plan, what Done leaves to do.
Special == {"release", "refund", "rate", "insertRating", "reject", "insertApproved", "approve"}
LEMMA DoneIn ==
    ASSUME Inv, OrdersOK, NEW p \in Procs, NEW h, Todo(p, h), Done(p)
    PROVE  /\ \A u \in Tasks : \A x : In(p, u, x)' => In(p, u, x)
           /\ \A u \in Tasks : \A x : In(p, u, x) /\ x # h => In(p, u, x)'
           /\ \A u \in Tasks : h \in Special => ~In(p, u, h)'
           /\ \A u \in Tasks : h \in {"insertApproved", "approve"}
                  => ~In(p, u, "insertApproved")' /\ ~In(p, u, "approve")'
           /\ Orders(job'[p].plan) /\ Others1(p)
  <1> DEFINE x == [job[p] EXCEPT !.plan = Tail(@)]
  <1>1. PICK plan \in Seq(Statement) : plan = job[p].plan /\ plan # <<>> /\ Head(plan) = h
    BY JobType DEF Todo, Inv
  <1>2. /\ Len(plan) \in Nat /\ Tail(plan) \in Seq(Statement) /\ Len(Tail(plan)) = Len(plan) - 1
        /\ \A i \in 1..Len(Tail(plan)) : Tail(plan)[i] = plan[i + 1]
        /\ 1 \in 1..Len(plan) /\ plan[1] = h
    <2>1. Len(plan) \in Nat \ {0} /\ plan[1] = h
      BY <1>1, EmptySeq
    <2> QED
      BY <1>1, <2>1, HeadTailProperties
  <1>3. Orders(plan) /\ Orders(Tail(plan))
    BY <1>1, OrdersTail DEF OrdersOK
  <1>4. Left(Tail(plan)) \subseteq Left(plan)
    BY <1>2 DEF Left
  <1>5. ASSUME NEW y \in Left(plan), y # h PROVE y \in Left(Tail(plan))
    <2>1. PICK i \in 1..Len(plan) : plan[i] = y
      BY <1>5 DEF Left
    <2>2. i - 1 \in 1..Len(Tail(plan)) /\ (i - 1) + 1 = i
      BY <1>2, <1>5, <2>1
    <2> QED
      BY <1>2, <2>1, <2>2 DEF Left
  <1>6. ASSUME NEW S, h \in S, Once(S, plan), NEW y \in S PROVE y \notin Left(Tail(plan))
    <2>1. ASSUME NEW i \in 1..Len(Tail(plan)), Tail(plan)[i] = y PROVE FALSE
      <3>1. i + 1 \in 1..Len(plan) /\ plan[i + 1] = y /\ i + 1 # 1
        BY <1>2, <2>1
      <3> QED
        BY <1>2, <1>6, <3>1 DEF Once
    <2> QED
      BY <2>1 DEF Left
  <1>7. h \in Special => h \notin Left(Tail(plan))
    BY <1>3, <1>6 DEF Special, Orders
  <1>8. h \in {"insertApproved", "approve"}
            => "insertApproved" \notin Left(Tail(plan)) /\ "approve" \notin Left(Tail(plan))
    BY <1>3, <1>6 DEF Orders
  <1>9. x.task = job[p].task /\ x.plan = Tail(plan)
    BY <1>1, <1>2, JobType DEF Inv, Job
  <1>10. job'[p] = (IF Len(plan) = 1 THEN Idle ELSE x) /\ Others1(p)
    BY <1>1, DoneStep DEF Done, Inv, TypeOK, Advances
  <1> HIDE DEF x
  <1>11. CASE Len(plan) = 1
    <2>1. job'[p].plan = <<>> /\ job'[p].task = NoTask
      BY <1>10, <1>11 DEF Idle
    <2>2. Left(Tail(plan)) = {}
      BY <1>2, <1>11 DEF Left
    <2>3. Left(<<>>) = {} /\ Orders(<<>>)
      BY DEF Left, Orders, Before, Once, Apart
    <2> QED
      BY <1>1, <1>5, <1>10, <2>1, <2>2, <2>3 DEF In
  <1>12. CASE Len(plan) # 1
    <2>1. job'[p].plan = Tail(plan) /\ job'[p].task = job[p].task
      BY <1>9, <1>10, <1>12
    <2> QED
      BY <1>1, <1>3, <1>4, <1>5, <1>7, <1>8, <1>10, <2>1 DEF In
  <1> QED
    BY <1>11, <1>12

\* What the order of a plan says of the statement at its head.
LEMMA HeadIn ==
    ASSUME Inv, OrdersOK, NEW p \in Procs, NEW h, Todo(p, h), NEW t \in Tasks, job[p].task = t
    PROVE  /\ In(p, t, h)
           /\ h \in {"insertApproved", "approve", "complete"} => In(p, t, "release")
           /\ h = "reject" => In(p, t, "refund")
           /\ h = "insertRating" => In(p, t, "rate")
           /\ h = "rate" => ~In(p, t, "insertRating")
           /\ h \in {"escrow", "insertBid", "claim", "readBid", "insertRating"}
                  => ~In(p, t, "release") /\ ~In(p, t, "refund")
           /\ h \in {"escrow", "insertBid", "claim", "readBid"} => ~In(p, t, "rate")
  <1>1. PICK plan \in Seq(Statement) : plan = job[p].plan /\ plan # <<>> /\ Head(plan) = h
    BY JobType DEF Todo, Inv
  <1>2. Len(plan) \in Nat /\ 1 \in 1..Len(plan) /\ plan[1] = h
    BY <1>1, EmptySeq
  <1>3. Orders(plan)
    BY <1>1 DEF OrdersOK
  <1>4. \A y : Before(h, y, plan) => y \in Left(plan)
    BY <1>2 DEF Before, Left
  <1>5. \A X, Y : Apart(X, Y, plan) /\ h \in X => \A y \in Y : y \notin Left(plan)
    BY <1>2 DEF Apart, Left
  <1>6. ASSUME h = "rate", "insertRating" \in Left(plan) PROVE FALSE
    <2>1. PICK i \in 1..Len(plan) : plan[i] = "insertRating"
      BY <1>6 DEF Left
    <2>2. PICK j \in 1..Len(plan) : i < j /\ plan[j] = "rate"
      BY <1>3, <2>1 DEF Orders, Before
    <2>3. j = 1
      BY <1>2, <1>3, <1>6, <2>2 DEF Orders, Once
    <2> QED
      BY <1>2, <2>1, <2>2, <2>3
  <1>7. h \in Left(plan)
    BY <1>2 DEF Left
  <1>8. h \in {"insertApproved", "approve", "complete"} => "release" \in Left(plan)
    BY <1>3, <1>4 DEF Orders
  <1>9. h = "reject" => "refund" \in Left(plan)
    BY <1>3, <1>4 DEF Orders
  <1>10. h = "insertRating" => "rate" \in Left(plan)
    BY <1>3, <1>4 DEF Orders
  <1>11. h \in {"escrow", "insertBid", "claim", "readBid"}
             => \A y \in {"release", "refund", "rate"} : y \notin Left(plan)
    BY <1>3, <1>5 DEF Orders
  <1>12. h \in {"insertRating"} => \A y \in {"release", "refund"} : y \notin Left(plan)
    BY <1>3, <1>5 DEF Orders
  <1> QED
    BY <1>1, <1>6, <1>7, <1>8, <1>9, <1>10, <1>11, <1>12 DEF In

\* What happens to those who owe, when p has run h.
Owers(S, p, gone, came) == IF gone THEN S \ {p} ELSE IF came THEN S \cup {p} ELSE S

LEMMA DoneSets ==
    ASSUME Inv, OrdersOK, NEW p \in Procs, NEW h, Todo(p, h), Done(p), NEW u \in Tasks
    PROVE  /\ Paying(u)' = Owers(Paying(u), p, h = "release",
                                 job[p].task = u /\ h \in {"insertApproved", "approve"})
           /\ Refunding(u)' = Owers(Refunding(u), p, h = "refund",
                                    job[p].task = u /\ h = "reject")
           /\ Rating(u)' = Owers(Rating(u), p, h = "rate",
                                 job[p].task = u /\ h = "insertRating")
  <1>1. /\ \A x : In(p, u, x)' => In(p, u, x)
        /\ \A x : In(p, u, x) /\ x # h => In(p, u, x)'
        /\ h \in Special => ~In(p, u, h)'
        /\ h \in {"insertApproved", "approve"}
              => ~In(p, u, "insertApproved")' /\ ~In(p, u, "approve")'
        /\ Others1(p)
    BY DoneIn
  <1>2. \A q \in Procs \ {p} : \A x : In(q, u, x)' <=> In(q, u, x)
    BY <1>1 DEF Others1, In
  <1>3. job[p].task # u => \A x : ~In(p, u, x)
    BY DEF In
  <1>4. job[p].task = u => /\ In(p, u, h)
                           /\ h \in {"insertApproved", "approve"} => In(p, u, "release")
                           /\ h = "reject" => In(p, u, "refund")
                           /\ h = "insertRating" => In(p, u, "rate")
    BY HeadIn
  <1>5. Paying(u)' = Owers(Paying(u), p, h = "release",
                           job[p].task = u /\ h \in {"insertApproved", "approve"})
    <2>1. p \in Paying(u)' <=> /\ h # "release"
                               /\ \/ p \in Paying(u)
                                  \/ job[p].task = u /\ h \in {"insertApproved", "approve"}
      BY <1>1, <1>3, <1>4 DEF Paying, Special
    <2>2. \A q \in Procs \ {p} : q \in Paying(u)' <=> q \in Paying(u)
      BY <1>2 DEF Paying
    <2>3. Paying(u) \subseteq Procs /\ Paying(u)' \subseteq Procs
      BY DEF Paying
    <2> QED
      BY <2>1, <2>2, <2>3 DEF Owers
  <1>6. Refunding(u)' = Owers(Refunding(u), p, h = "refund", job[p].task = u /\ h = "reject")
    <2>1. p \in Refunding(u)' <=> /\ h # "refund"
                                  /\ p \in Refunding(u) \/ (job[p].task = u /\ h = "reject")
      BY <1>1, <1>3, <1>4 DEF Refunding, Special
    <2>2. \A q \in Procs \ {p} : q \in Refunding(u)' <=> q \in Refunding(u)
      BY <1>2 DEF Refunding
    <2>3. Refunding(u) \subseteq Procs /\ Refunding(u)' \subseteq Procs
      BY DEF Refunding
    <2> QED
      BY <2>1, <2>2, <2>3 DEF Owers
  <1>7. Rating(u)' = Owers(Rating(u), p, h = "rate", job[p].task = u /\ h = "insertRating")
    <2>1. p \in Rating(u)' <=> /\ h # "rate"
                               /\ p \in Rating(u) \/ (job[p].task = u /\ h = "insertRating")
      BY <1>1, <1>3, <1>4 DEF Rating, Special
    <2>2. \A q \in Procs \ {p} : q \in Rating(u)' <=> q \in Rating(u)
      BY <1>2 DEF Rating
    <2>3. Rating(u) \subseteq Procs /\ Rating(u)' \subseteq Procs
      BY DEF Rating
    <2> QED
      BY <2>1, <2>2, <2>3 DEF Owers
  <1> QED
    BY <1>5, <1>6, <1>7

\* A handler that ends early owes nothing, and did not before.
Loses == {"escrow", "insertBid", "claim", "readBid", "insertRating"}
Drops(p) == Others1(p) /\ Left(job'[p].plan) \subseteq {"undo"}

LEMMA DropSets ==
    ASSUME Inv, OrdersOK, NEW p \in Procs, NEW h \in Loses, Todo(p, h), Drops(p), NEW u \in Tasks
    PROVE  /\ Paying(u)' = Paying(u) /\ Refunding(u)' = Refunding(u) /\ Rating(u)' = Rating(u)
           /\ \A q \in Procs : \A x \in {"release", "refund"} : In(q, u, x)' <=> In(q, u, x)
           /\ \A q \in Procs : In(q, u, "cancel")' => In(q, u, "cancel")
  <1>1. \A q \in Procs \ {p} : \A x : In(q, u, x)' <=> In(q, u, x)
    BY DEF Drops, Others1, In
  <1>2. /\ ~In(p, u, "release") /\ ~In(p, u, "refund")
        /\ In(p, u, "insertRating") \/ ~In(p, u, "rate")
    <2>1. CASE job[p].task = u
      BY <2>1, HeadIn DEF Loses
    <2>2. CASE job[p].task # u
      BY <2>2 DEF In
    <2> QED
      BY <2>1, <2>2
  <1>3. /\ ~In(p, u, "release")' /\ ~In(p, u, "refund")' /\ ~In(p, u, "rate")'
        /\ ~In(p, u, "cancel")'
    BY DEF Drops, In
  <1>4. Paying(u)' = Paying(u)
    <2>1. \A q \in Procs : q \in Paying(u)' <=> q \in Paying(u)
      BY <1>1, <1>2, <1>3 DEF Paying
    <2> QED
      BY <2>1 DEF Paying
  <1>5. Refunding(u)' = Refunding(u)
    <2>1. \A q \in Procs : q \in Refunding(u)' <=> q \in Refunding(u)
      BY <1>1, <1>2, <1>3 DEF Refunding
    <2> QED
      BY <2>1 DEF Refunding
  <1>6. Rating(u)' = Rating(u)
    <2>1. \A q \in Procs : q \in Rating(u)' <=> q \in Rating(u)
      BY <1>1, <1>2, <1>3 DEF Rating
    <2> QED
      BY <2>1 DEF Rating
  <1> QED
    BY <1>1, <1>2, <1>3, <1>4, <1>5, <1>6

\* What running statement h changes of what is owed.
Ledgers(p, h) ==
    \A u \in Tasks :
        /\ ledger'[u].paid = ledger[u].paid + IF h = "release" /\ job[p].task = u THEN 1 ELSE 0
        /\ ledger'[u].refunded
              = ledger[u].refunded + IF h = "refund" /\ job[p].task = u THEN 1 ELSE 0
        /\ credit'[u]["rated"] = credit[u]["rated"] + IF h = "rate" /\ job[p].task = u THEN 1 ELSE 0
Submissions(p, h) ==
    submission' = IF h \in DOMAIN SubWrites
                  THEN [submission EXCEPT ![job[p].sub] =
                        [status |-> SubWrites[h], task |-> job[p].task, worker |-> job[p].worker]]
                  ELSE submission
Ends(p, h) ==
    \A u \in Tasks :
        /\ task'[u].status = "completed" => Is(u, "completed") \/ (h = "complete" /\ job[p].task = u)
        /\ task'[u].status = "cancelled" => Is(u, "cancelled") \/ (h = "cancel" /\ job[p].task = u)
Ratings(p, h) == rated' = IF h = "insertRating" THEN rated \cup {job[p].task} ELSE rated

Effect(p, h) == Ledgers(p, h) /\ Submissions(p, h) /\ Ends(p, h) /\ Ratings(p, h)

\* p runs h and goes on; or h does nothing and p ends.
Runs(p, h) ==
    /\ Todo(p, h) /\ Effect(p, h)
    /\ \/ Done(p) /\ (h = "insertRating" => job[p].task \notin rated)
       \/ Drops(p) /\ h \in Loses /\ (h = "insertRating" => job[p].task \in rated)

LEMMA AbortDrops ==
    ASSUME TypeOK, NEW p \in Procs, Abort(p)
    PROVE  Drops(p)
  BY IdleJob DEF Abort, TypeOK, Drops, Others1

LEMMA LedgerPlus ==
    ASSUME TypeOK, NEW t \in Tasks, NEW u \in Tasks
    PROVE  /\ LET l == [ledger EXCEPT ![t].escrow = @ + 1]
              IN l[u].paid = ledger[u].paid /\ l[u].refunded = ledger[u].refunded
           /\ LET l == [ledger EXCEPT ![t].paid = @ + 1]
              IN /\ l[u].paid = ledger[u].paid + IF t = u THEN 1 ELSE 0
                 /\ l[u].refunded = ledger[u].refunded
           /\ LET l == [ledger EXCEPT ![t].refunded = @ + 1]
              IN /\ l[u].refunded = ledger[u].refunded + IF t = u THEN 1 ELSE 0
                 /\ l[u].paid = ledger[u].paid
  <1>1. /\ ledger \in [Tasks -> [escrow: Nat, paid: Nat, refunded: Nat]]
        /\ ledger[t] \in [escrow: Nat, paid: Nat, refunded: Nat]
        /\ ledger[u] \in [escrow: Nat, paid: Nat, refunded: Nat]
    BY DEF TypeOK
  <1>2. ASSUME NEW row PROVE [ledger EXCEPT ![t] = row][u] = IF t = u THEN row ELSE ledger[u]
    BY <1>1
  <1> DEFINE e == [ledger[t] EXCEPT !.escrow = @ + 1]
             d == [ledger[t] EXCEPT !.paid = @ + 1]
             r == [ledger[t] EXCEPT !.refunded = @ + 1]
  <1>3. /\ e.paid = ledger[t].paid /\ e.refunded = ledger[t].refunded
        /\ d.paid = ledger[t].paid + 1 /\ d.refunded = ledger[t].refunded
        /\ r.paid = ledger[t].paid /\ r.refunded = ledger[t].refunded + 1
        /\ ledger[u].paid + 0 = ledger[u].paid /\ ledger[u].refunded + 0 = ledger[u].refunded
    BY <1>1
  <1> DEFINE le == [ledger EXCEPT ![t] = e]
             ld == [ledger EXCEPT ![t] = d]
             lr == [ledger EXCEPT ![t] = r]
  <1>4. /\ le[u] = IF t = u THEN e ELSE ledger[u]
        /\ ld[u] = IF t = u THEN d ELSE ledger[u]
        /\ lr[u] = IF t = u THEN r ELSE ledger[u]
    BY <1>2
  <1>5. /\ le[u].paid = ledger[u].paid /\ le[u].refunded = ledger[u].refunded
        /\ ld[u].paid = ledger[u].paid + IF t = u THEN 1 ELSE 0
        /\ ld[u].refunded = ledger[u].refunded
        /\ lr[u].refunded = ledger[u].refunded + IF t = u THEN 1 ELSE 0
        /\ lr[u].paid = ledger[u].paid
    <2> HIDE DEF e, d, r, le, ld, lr
    <2> QED
      BY <1>3, <1>4
  <1> QED
    BY <1>5

LEMMA StepEffect ==
    ASSUME Inv, NEW p \in Procs, Step(p)
    PROVE  \E h : Runs(p, h)
  <1> DEFINE t == job[p].task
  <1>1. /\ TypeOK /\ t \in Tasks
        /\ \A u \in Tasks : ledger[u] \in [escrow: Nat, paid: Nat, refunded: Nat]
        /\ \A u \in Tasks : credit[u] \in [Credit -> Nat] /\ credit[u]["rated"] \in Nat
        /\ \A u \in Tasks : task[u] \in TaskRow
    <2>1. TypeOK /\ t \in Tasks
      BY StepAdvances DEF Inv, JobsOK
    <2> HIDE DEF t
    <2> QED
      BY <2>1 DEF TypeOK, Credit
  <1>2. Abort(p) => Drops(p)
    BY <1>1, AbortDrops
  <1>3. ASSUME NEW h, h \notin {"release", "refund", "rate"}, ledger' = ledger, credit' = credit
        PROVE  Ledgers(p, h)
    BY <1>1, <1>3 DEF Ledgers
  <1>4. ASSUME NEW h, task' = task PROVE Ends(p, h)
    BY <1>4 DEF Ends, Is
  <1>5. ASSUME NEW h, h \notin DOMAIN SubWrites, h # "insertRating", submission' = submission,
               rated' = rated
        PROVE  Submissions(p, h) /\ Ratings(p, h)
    BY <1>5 DEF Submissions, Ratings
  <1>6. DOMAIN SubWrites = {"insertApproved", "insertValidating", "approve", "reject"}
    BY DEF SubWrites
  <1> HIDE DEF t
  <1>7. ASSUME NEW h, NEW status \in {"open", "in_progress", "deleted"}, NEW executor,
                \/ task' = task
                \/ task' = [task EXCEPT ![t].status = status]
                \/ task' = [task EXCEPT ![t].status = status, ![t].executor = executor]
         PROVE  Ends(p, h)
    <2>1. CASE task' = task
      BY <1>4, <2>1
    <2>2. CASE task' # task
      <3>1. \/ task' = [task EXCEPT ![t].status = status]
            \/ task' = [task EXCEPT ![t].status = status, ![t].executor = executor]
        BY <1>7, <2>2
      <3> DEFINE a == [task[t] EXCEPT !.status = status]
                 b == [task[t] EXCEPT !.status = status, !.executor = executor]
      <3>2. /\ a.status = status /\ b.status = status
            /\ task' = [task EXCEPT ![t] = a] \/ task' = [task EXCEPT ![t] = b]
        BY <1>1, <3>1 DEF TaskRow
      <3> HIDE DEF a, b
      <3>3. \A u \in Tasks : task'[u].status = IF t = u THEN status ELSE task[u].status
        BY <1>1, <3>2 DEF TypeOK
      <3> QED
        BY <1>7, <3>3 DEF Ends, Is
    <2> QED
      BY <2>1, <2>2
  <1> USE DEF t
  <1>8. CASE EscrowStmt(p)
    <2>1. Todo(p, "escrow") /\ UNCHANGED <<task, submission, credit, rated>>
      BY <1>8 DEF EscrowStmt
    <2>2. Ledgers(p, "escrow")
      <3>1. ledger' = ledger \/ ledger' = [ledger EXCEPT ![t].escrow = @ + 1]
        BY <1>8 DEF EscrowStmt
      <3>2. \A u \in Tasks : ledger'[u].paid = ledger[u].paid
                             /\ ledger'[u].refunded = ledger[u].refunded
        BY <1>1, <3>1, LedgerPlus
      <3> QED
        BY <1>1, <2>1, <3>2 DEF Ledgers
    <2>3. Done(p) \/ Drops(p)
      <3>1. CASE job' = [job EXCEPT ![p] = [job[p] EXCEPT !.plan = <<"undo">>]]
        <4> DEFINE x == [job[p] EXCEPT !.plan = <<"undo">>]
        <4>1. <<"undo">> \in Seq(Statement) /\ Left(<<"undo">>) = {"undo"}
          BY DEF Statement, Left
        <4>2. x \in Job /\ x.plan = <<"undo">>
          BY <1>1, <4>1, JobType DEF Job
        <4>3. job' = [job EXCEPT ![p] = x]
          BY <3>1
        <4> HIDE DEF x
        <4> QED
          BY <1>1, <4>1, <4>2, <4>3 DEF TypeOK, Drops, Others1
      <3> QED
        BY <1>2, <1>8, <3>1 DEF EscrowStmt, Abort
    <2> QED
      BY <1>4, <1>5, <1>6, <2>1, <2>2, <2>3 DEF Effect, Loses, Runs
  <1>9. CASE UndoStmt(p)
    <2>1. /\ Todo(p, "undo") /\ Done(p) /\ UNCHANGED <<submission, ledger, credit, rated>>
          /\ task' = task \/ task' = [task EXCEPT ![t].status = "deleted"]
      BY <1>9 DEF UndoStmt
    <2>2. Ends(p, "undo")
      BY <1>7, <2>1
    <2> QED
      BY <1>3, <1>5, <1>6, <2>1, <2>2 DEF Effect, Runs
  <1>10. CASE ContextStmt(p)
    BY <1>3, <1>4, <1>5, <1>6, <1>10 DEF ContextStmt, Effect, Runs
  <1>11. CASE MoneyStmt(p)
    <2>1. PICK h \in {"release", "refund"} :
              /\ Todo(p, h) /\ Done(p) /\ UNCHANGED <<task, submission, credit, rated>>
              /\ h = "release" => ledger' = [ledger EXCEPT ![t].paid = @ + 1]
              /\ h = "refund" => ledger' = [ledger EXCEPT ![t].refunded = @ + 1]
      BY <1>11 DEF MoneyStmt
    <2>2. \A u \in Tasks :
              /\ ledger'[u].paid = ledger[u].paid + IF h = "release" /\ t = u THEN 1 ELSE 0
              /\ ledger'[u].refunded = ledger[u].refunded + IF h = "refund" /\ t = u THEN 1 ELSE 0
      BY <1>1, <2>1, LedgerPlus
    <2>3. Ledgers(p, h)
      BY <1>1, <2>1, <2>2 DEF Ledgers
    <2> QED
      BY <1>4, <1>5, <1>6, <2>1, <2>3 DEF Effect, Runs
  <1>12. CASE TaskStmt(p)
    <2>1. PICK h \in DOMAIN TaskWrites :
              /\ Todo(p, h) /\ Done(p) /\ UNCHANGED <<submission, ledger, credit, rated>>
              /\ task' = [task EXCEPT
                    ![t].status = TaskWrites[h],
                    ![t].executor = CASE h = "start"  -> job[p].worker
                                      [] h = "reopen" -> NoWorker
                                      [] OTHER        -> task[t].executor]
      BY <1>12 DEF TaskStmt
    <2>2. /\ h \in {"cancel", "start", "validate", "complete", "reopen"}
          /\ TaskWrites[h] = "completed" => h = "complete"
          /\ TaskWrites[h] = "cancelled" => h = "cancel"
      BY <2>1 DEF TaskWrites
    <2>3. task'[t].status = TaskWrites[h] /\ \A u \in Tasks \ {t} : task'[u] = task[u]
      BY <1>1, <2>1 DEF TypeOK
    <2>4. Ends(p, h)
      BY <2>2, <2>3 DEF Ends, Is
    <2> QED
      BY <1>3, <1>5, <1>6, <2>1, <2>2, <2>4 DEF Effect, Runs
  <1>13. CASE ReopenStmt(p)
    <2>1. /\ Todo(p, "reopenIfInProgress") /\ Done(p)
          /\ UNCHANGED <<submission, ledger, credit, rated>>
          /\ \/ task' = task
             \/ task' = [task EXCEPT ![t].status = "open", ![t].executor = NoWorker]
      BY <1>13 DEF ReopenStmt
    <2>2. Ends(p, "reopenIfInProgress")
      BY <1>7, <2>1
    <2> QED
      BY <1>3, <1>5, <1>6, <2>1, <2>2 DEF Effect, Runs
  <1>14. CASE ClaimStmt(p)
    <2>1. /\ Todo(p, "claim") /\ (Done(p) \/ Abort(p))
          /\ UNCHANGED <<submission, ledger, credit, rated>>
          /\ \/ task' = task
             \/ task' = [task EXCEPT ![t].status = "in_progress", ![t].executor = job[p].worker]
      BY <1>14 DEF ClaimStmt
    <2>2. Ends(p, "claim")
      BY <1>7, <2>1
    <2> QED
      BY <1>2, <1>3, <1>5, <1>6, <2>1, <2>2 DEF Effect, Loses, Runs
  <1>15. CASE InsertBidStmt(p)
    BY <1>2, <1>3, <1>4, <1>5, <1>6, <1>15 DEF InsertBidStmt, Effect, Loses, Runs
  <1>16. CASE ReadBidStmt(p)
    BY <1>2, <1>3, <1>4, <1>5, <1>6, <1>16 DEF ReadBidStmt, Reads, Effect, Loses, Runs
  <1>17. CASE BidStmt(p)
    <2>1. PICK h \in {"acceptBid", "rejectOthers", "rejectBids"} :
              Todo(p, h) /\ Done(p) /\ UNCHANGED <<task, submission, ledger, credit, rated>>
      BY <1>17 DEF BidStmt
    <2> QED
      BY <1>3, <1>4, <1>5, <1>6, <2>1 DEF Effect, Runs
  <1>18. CASE SubStmt(p)
    <2>1. PICK h \in DOMAIN SubWrites :
              /\ Todo(p, h) /\ Done(p) /\ UNCHANGED <<task, ledger, credit, rated>>
              /\ submission' = [submission EXCEPT ![job[p].sub] =
                    [status |-> SubWrites[h], task |-> job[p].task, worker |-> job[p].worker]]
      BY <1>18 DEF SubStmt
    <2>2. Submissions(p, h) /\ Ratings(p, h)
      BY <1>6, <2>1 DEF Submissions, Ratings
    <2> QED
      BY <1>3, <1>4, <1>6, <2>1, <2>2 DEF Effect, Runs
  <1>19. CASE CreditStmt(p)
    <2>1. PICK h \in DOMAIN CreditWrites :
              /\ Todo(p, h) /\ Done(p) /\ UNCHANGED <<task, submission, ledger, rated>>
              /\ credit' = [credit EXCEPT ![t][CreditWrites[h]] = @ + 1]
      BY <1>19 DEF CreditStmt
    <2>2. /\ h \in {"countCompleted", "countCreated", "reward", "punish", "rate"}
          /\ CreditWrites[h] \in Credit /\ (CreditWrites[h] = "rated" <=> h = "rate")
      BY <2>1 DEF CreditWrites, Credit
    <2> DEFINE c == CreditWrites[h]
    <2>3. \A u \in Tasks : credit'[u]["rated"]
              = credit[u]["rated"] + IF c = "rated" /\ t = u THEN 1 ELSE 0
      <3> HIDE DEF c, t
      <3>1. /\ credit' = [credit EXCEPT ![t] = [credit[t] EXCEPT ![c] = credit[t][c] + 1]]
            /\ credit \in [Tasks -> [Credit -> Nat]] /\ c \in Credit /\ "rated" \in Credit
        BY <1>1, <2>1, <2>2 DEF TypeOK, Credit, c, t
      <3>2. \A u \in Tasks \ {t} : credit'[u] = credit[u]
        BY <3>1
      <3>3. credit'[t] = [credit[t] EXCEPT ![c] = credit[t][c] + 1]
        BY <1>1, <3>1
      <3> QED
        BY <1>1, <3>1, <3>2, <3>3
    <2>4. Ledgers(p, h)
      BY <1>1, <2>1, <2>2, <2>3 DEF Ledgers
    <2> QED
      BY <1>4, <1>5, <1>6, <2>1, <2>2, <2>4 DEF Effect, Runs
  <1>20. CASE RatingStmt(p)
    <2>1. /\ Todo(p, "insertRating") /\ rated' = rated \cup {t}
          /\ IF t \in rated THEN Abort(p) ELSE Done(p)
          /\ UNCHANGED <<task, submission, ledger, credit>>
      BY <1>20 DEF RatingStmt
    <2>2. Submissions(p, "insertRating") /\ Ratings(p, "insertRating")
      BY <1>6, <2>1 DEF Submissions, Ratings
    <2> QED
      BY <1>2, <1>3, <1>4, <2>1, <2>2 DEF Effect, Loses, Runs
  <1> QED
    BY <1>8, <1>9, <1>10, <1>11, <1>12, <1>13, <1>14, <1>15, <1>16, <1>17, <1>18, <1>19, <1>20 DEF Step

(***************************************************************************)
(* What is owed stays accounted for, part by part                          *)
(***************************************************************************)

\* Either nothing owed changed, or p settled, or p decided and owes.
Settles(A, A2, P, P2, n, n2, p, x) ==
    \/ A2 \subseteq A /\ n2 = n /\ P \subseteq P2 /\ P2 \subseteq Procs
    \/ A2 \subseteq A /\ n2 = n + 1 /\ P2 = P \ {p}
    \/ A2 \subseteq A \cup {x} /\ n2 = n /\ P2 = P \cup {p} /\ p \notin P

LEMMA StillCovered ==
    ASSUME NEW A \in SUBSET Subs, NEW A2 \in SUBSET Subs, NEW P \in SUBSET Procs,
           NEW n \in Nat, NEW n2 \in Nat, NEW P2, NEW p \in Procs, NEW x,
           Cardinality(A) <= n + Cardinality(P),
           Settles(A, A2, P, P2, n, n2, p, x)
    PROVE  Cardinality(A2) <= n2 + Cardinality(P2)
  <1>1. /\ IsFiniteSet(A) /\ IsFiniteSet(P) /\ Cardinality(A) \in Nat /\ Cardinality(P) \in Nat
        /\ IsFiniteSet(Procs)
    BY FS_Subset, FS_CardinalityType
  <1>2. CASE A2 \subseteq A /\ n2 = n /\ P \subseteq P2 /\ P2 \subseteq Procs
    <2>1. IsFiniteSet(P2)
      BY <1>1, <1>2, FS_Subset
    <2>2. /\ Cardinality(A2) \in Nat /\ Cardinality(A2) <= Cardinality(A)
          /\ Cardinality(P2) \in Nat /\ Cardinality(P) <= Cardinality(P2)
      BY <1>1, <1>2, <2>1, FS_Subset, FS_CardinalityType
    <2> QED
      BY <1>1, <1>2, <2>2
  <1>3. CASE A2 \subseteq A /\ n2 = n + 1 /\ P2 = P \ {p}
    <2>1. Cardinality(A2) \in Nat /\ Cardinality(A2) <= Cardinality(A)
      BY <1>1, <1>3, FS_Subset, FS_CardinalityType
    <2>2. Cardinality(P2) = IF p \in P THEN Cardinality(P) - 1 ELSE Cardinality(P)
      BY <1>1, <1>3, FS_RemoveElement
    <2> QED
      BY <1>1, <1>3, <2>1, <2>2
  <1>4. CASE A2 \subseteq A \cup {x} /\ n2 = n /\ P2 = P \cup {p} /\ p \notin P
    <2>1. IsFiniteSet(A \cup {x}) /\ Cardinality(A \cup {x}) <= Cardinality(A) + 1
      <3>1. /\ IsFiniteSet(A \cup {x})
            /\ Cardinality(A \cup {x}) = IF x \in A THEN Cardinality(A) ELSE Cardinality(A) + 1
        BY <1>1, FS_AddElement, Zenon
      <3> QED
        BY <1>1, <3>1
    <2>2. /\ Cardinality(A2) \in Nat /\ Cardinality(A \cup {x}) \in Nat
          /\ Cardinality(A2) <= Cardinality(A \cup {x})
      BY <1>4, <2>1, FS_Subset, FS_CardinalityType
    <2>3. Cardinality(P2) = Cardinality(P) + 1
      BY <1>1, <1>4, FS_AddElement
    <2> QED
      BY <1>1, <1>4, <2>1, <2>2, <2>3
  <1> QED
    BY <1>2, <1>3, <1>4 DEF Settles

LEMMA SubsOfGo ==
    ASSUME Inv, NEW p \in Procs, NEW h, Submissions(p, h), NEW u \in Tasks
    PROVE  /\ SubsOf(u, "approved")' \subseteq
                  IF h \in {"insertApproved", "approve"} /\ job[p].task = u
                  THEN SubsOf(u, "approved") \cup {job[p].sub} ELSE SubsOf(u, "approved")
           /\ SubsOf(u, "rejected")' \subseteq
                  IF h = "reject" /\ job[p].task = u
                  THEN SubsOf(u, "rejected") \cup {job[p].sub} ELSE SubsOf(u, "rejected")
  <1>1. CASE h \notin DOMAIN SubWrites
    BY <1>1 DEF Submissions, SubsOf
  <1>2. CASE h \in DOMAIN SubWrites
    <2>1. h \in {"insertApproved", "insertValidating", "approve", "reject"}
      BY <1>2 DEF SubWrites
    <2>2. /\ SubWrites[h] = "approved" <=> h \in {"insertApproved", "approve"}
          /\ SubWrites[h] = "rejected" <=> h = "reject"
      BY <2>1 DEF SubWrites
    <2> DEFINE row == [status |-> SubWrites[h], task |-> job[p].task, worker |-> job[p].worker]
    <2>3. /\ submission' = [submission EXCEPT ![job[p].sub] = row]
          /\ row.status = SubWrites[h] /\ row.task = job[p].task
      BY <1>2 DEF Submissions
    <2> HIDE DEF row
    <2>4. \A s \in Subs : submission'[s] = IF s = job[p].sub THEN row ELSE submission[s]
      BY <2>3 DEF Inv, TypeOK
    <2> QED
      BY <2>2, <2>3, <2>4 DEF SubsOf
  <1> QED
    BY <1>1, <1>2

LEMMA LedgerTypes ==
    ASSUME TypeOK, NEW u \in Tasks
    PROVE  ledger[u].paid \in Nat /\ ledger[u].refunded \in Nat /\ credit[u]["rated"] \in Nat
  BY DEF TypeOK, Credit

LEMMA DoneKeepsApproved ==
    ASSUME Inv, Inv', OrdersOK, NEW p \in Procs, NEW h, Todo(p, h), Effect(p, h), Done(p),
           NEW u \in Tasks, Owed(u)
    PROVE  ApprovedPaid(u)' /\ RejectedRefunded(u)'
  <1>1. /\ ledger[u].paid \in Nat /\ ledger[u].refunded \in Nat
        /\ ledger'[u].paid \in Nat /\ ledger'[u].refunded \in Nat
    BY LedgerTypes DEF Inv, TypeOK
  <1>2. /\ SubsOf(u, "approved") \in SUBSET Subs /\ SubsOf(u, "approved")' \in SUBSET Subs
        /\ SubsOf(u, "rejected") \in SUBSET Subs /\ SubsOf(u, "rejected")' \in SUBSET Subs
        /\ Paying(u) \in SUBSET Procs /\ Refunding(u) \in SUBSET Procs
    BY DEF SubsOf, Paying, Refunding
  <1>3. job[p].task = u => In(p, u, h)
    BY HeadIn
  <1>4. job[p].task # u => p \notin Paying(u) /\ p \notin Refunding(u)
    BY DEF Paying, Refunding, In
  <1>5. ApprovedPaid(u)'
    <2>1. /\ SubsOf(u, "approved")' \subseteq
                  IF h \in {"insertApproved", "approve"} /\ job[p].task = u
                  THEN SubsOf(u, "approved") \cup {job[p].sub} ELSE SubsOf(u, "approved")
          /\ Paying(u)' = Owers(Paying(u), p, h = "release",
                                job[p].task = u /\ h \in {"insertApproved", "approve"})
          /\ ledger'[u].paid = ledger[u].paid + IF h = "release" /\ job[p].task = u THEN 1 ELSE 0
      BY SubsOfGo, DoneSets DEF Effect, Ledgers
    <2>2. job[p].task = u /\ h \in {"insertApproved", "approve"} => p \notin Paying(u)
      BY <1>3 DEF Paying
    <2> DEFINE A == SubsOf(u, "approved")
               A2 == SubsOf(u, "approved")'
               P == Paying(u)
               P2 == Paying(u)'
               n == ledger[u].paid
               n2 == ledger'[u].paid
               x == job[p].sub
    <2>3. Settles(A, A2, P, P2, n, n2, p, x)
      BY <1>1, <1>2, <1>4, <2>1, <2>2 DEF Owers, Settles
    <2>4. /\ A \in SUBSET Subs /\ A2 \in SUBSET Subs /\ P \in SUBSET Procs
          /\ n \in Nat /\ n2 \in Nat /\ Cardinality(A) <= n + Cardinality(P)
      BY <1>1, <1>2 DEF Owed, ApprovedPaid, RejectedRefunded
    <2> HIDE DEF A, A2, P, P2, n, n2, x
    <2>5. Cardinality(A2) <= n2 + Cardinality(P2)
      BY <2>3, <2>4, StillCovered
    <2> QED
      BY <2>5 DEF ApprovedPaid, A2, P2, n2
  <1>6. RejectedRefunded(u)'
    <2>1. /\ SubsOf(u, "rejected")' \subseteq
                  IF h = "reject" /\ job[p].task = u
                  THEN SubsOf(u, "rejected") \cup {job[p].sub} ELSE SubsOf(u, "rejected")
          /\ Refunding(u)' = Owers(Refunding(u), p, h = "refund",
                                   job[p].task = u /\ h = "reject")
          /\ ledger'[u].refunded
                = ledger[u].refunded + IF h = "refund" /\ job[p].task = u THEN 1 ELSE 0
      BY SubsOfGo, DoneSets DEF Effect, Ledgers
    <2>2. job[p].task = u /\ h = "reject" => p \notin Refunding(u)
      BY <1>3 DEF Refunding
    <2> DEFINE A == SubsOf(u, "rejected")
               A2 == SubsOf(u, "rejected")'
               P == Refunding(u)
               P2 == Refunding(u)'
               n == ledger[u].refunded
               n2 == ledger'[u].refunded
               x == job[p].sub
    <2>3. Settles(A, A2, P, P2, n, n2, p, x)
      BY <1>1, <1>2, <1>4, <2>1, <2>2 DEF Owers, Settles
    <2>4. /\ A \in SUBSET Subs /\ A2 \in SUBSET Subs /\ P \in SUBSET Procs
          /\ n \in Nat /\ n2 \in Nat /\ Cardinality(A) <= n + Cardinality(P)
      BY <1>1, <1>2 DEF Owed, ApprovedPaid, RejectedRefunded
    <2> HIDE DEF A, A2, P, P2, n, n2, x
    <2>5. Cardinality(A2) <= n2 + Cardinality(P2)
      BY <2>3, <2>4, StillCovered
    <2> QED
      BY <2>5 DEF RejectedRefunded, A2, P2, n2
  <1> QED
    BY <1>5, <1>6

LEMMA DoneKeepsEnded ==
    ASSUME Inv, Inv', OrdersOK, NEW p \in Procs, NEW h, Todo(p, h), Effect(p, h), Done(p),
           NEW u \in Tasks, Owed(u)
    PROVE  CompletedPaid(u)' /\ CancelledRefunded(u)'
  <1>1. /\ ledger[u].paid \in Nat /\ ledger[u].refunded \in Nat
        /\ ledger'[u].paid = ledger[u].paid + IF h = "release" /\ job[p].task = u THEN 1 ELSE 0
        /\ ledger'[u].refunded
              = ledger[u].refunded + IF h = "refund" /\ job[p].task = u THEN 1 ELSE 0
    BY LedgerTypes DEF Inv, Effect, Ledgers
  <1>2. /\ ledger[u].paid >= 1 => ledger'[u].paid >= 1
        /\ ledger[u].refunded >= 1 => ledger'[u].refunded >= 1
        /\ h = "release" /\ job[p].task = u => ledger'[u].paid >= 1
        /\ h = "refund" /\ job[p].task = u => ledger'[u].refunded >= 1
    BY <1>1
  <1>3. /\ \A x : In(p, u, x)' => In(p, u, x)
        /\ \A x : In(p, u, x) /\ x # h => In(p, u, x)'
        /\ \A q \in Procs \ {p} : \A x : In(q, u, x)' <=> In(q, u, x)
    BY DoneIn DEF Others1, In
  <1>4. /\ \A x : In(p, u, x) => job[p].task = u
        /\ job[p].task = u => In(p, u, h) /\ (h = "complete" => In(p, u, "release"))
    BY HeadIn DEF In
  <1>5. /\ CompletedPaid(u) /\ CancelledRefunded(u)
        /\ task'[u].status = "completed" => Is(u, "completed") \/ (h = "complete" /\ job[p].task = u)
        /\ task'[u].status = "cancelled" => Is(u, "cancelled") \/ (h = "cancel" /\ job[p].task = u)
    BY DEF Owed, Effect, Ends
  <1>6. ASSUME NEW q \in Procs, In(q, u, "release")
        PROVE  ledger'[u].paid >= 1 \/ In(q, u, "release")'
    BY <1>2, <1>3, <1>4, <1>6
  <1>7. ASSUME NEW q \in Procs, In(q, u, "refund")
        PROVE  ledger'[u].refunded >= 1 \/ In(q, u, "refund")'
    BY <1>2, <1>3, <1>4, <1>7
  <1>8. ASSUME task'[u].status = "completed"
        PROVE  ledger'[u].paid >= 1 \/ \E q \in Procs : In(q, u, "release")'
    <2>1. ledger[u].paid >= 1 \/ \E q \in Procs : In(q, u, "release")
      BY <1>4, <1>5, <1>8 DEF CompletedPaid
    <2> QED
      BY <1>2, <1>6, <2>1
  <1>9. ASSUME task'[u].status = "cancelled"
        PROVE  ledger'[u].refunded >= 1 \/ \E q \in Procs : In(q, u, "refund")'
    <2>1. ledger[u].refunded >= 1 \/ \E q \in Procs : In(q, u, "refund")
      BY <1>4, <1>5, <1>9 DEF CancelledRefunded
    <2> QED
      BY <1>2, <1>7, <2>1
  <1>10. ASSUME NEW q \in Procs, In(q, u, "cancel")'
         PROVE  ledger'[u].refunded >= 1 \/ In(q, u, "refund")'
    <2>1. ledger[u].refunded >= 1 \/ In(q, u, "refund")
      BY <1>3, <1>5, <1>10 DEF CancelledRefunded
    <2> QED
      BY <1>2, <1>7, <2>1
  <1> QED
    BY <1>8, <1>9, <1>10 DEF CompletedPaid, CancelledRefunded, Is

LEMMA DoneKeepsRated ==
    ASSUME Inv, Inv', OrdersOK, NEW p \in Procs, NEW h, Todo(p, h), Effect(p, h), Done(p),
           h = "insertRating" => job[p].task \notin rated, NEW u \in Tasks, Owed(u)
    PROVE  RatedOnce(u)'
  <1> DEFINE R == Rating(u)
             R2 == Rating(u)'
             c == credit[u]["rated"]
             c2 == credit'[u]["rated"]
             n == IF u \in rated THEN 1 ELSE 0
             n2 == IF u \in rated' THEN 1 ELSE 0
             counts == h = "rate" /\ job[p].task = u
             rates == h = "insertRating" /\ job[p].task = u
  <1>1. c \in Nat /\ c2 = (c + IF counts THEN 1 ELSE 0) /\ c + Cardinality(R) = n
    BY LedgerTypes DEF Inv, Effect, Ledgers, Owed, RatedOnce
  <1>2. R2 = Owers(R, p, h = "rate", rates)
    BY DoneSets
  <1>3. IsFiniteSet(R) /\ Cardinality(R) \in Nat
    <2>1. R \in SUBSET Procs
      BY DEF Rating
    <2> QED
      BY <2>1, FS_Subset, FS_CardinalityType
  <1>4. /\ counts => p \in R
        /\ rates => p \notin R
        /\ ~counts /\ h = "rate" => p \notin R
    BY HeadIn DEF Rating, In
  <1>5. /\ rates => n = 0 /\ n2 = 1
        /\ ~rates => n2 = n
    BY DEF Effect, Ratings
  <1>6. ~(counts /\ rates)
    OBVIOUS
  <1>7. /\ Cardinality(R \ {p}) = IF p \in R THEN Cardinality(R) - 1 ELSE Cardinality(R)
        /\ Cardinality(R \cup {p}) = IF p \in R THEN Cardinality(R) ELSE Cardinality(R) + 1
    BY <1>3, FS_AddElement, FS_RemoveElement
  <1>8. /\ counts => R2 = R \ {p}
        /\ rates => R2 = R \cup {p}
        /\ ~counts /\ ~rates => R2 = R
    BY <1>2, <1>4 DEF Owers
  <1> HIDE DEF R, R2, c, c2, n, n2, counts, rates
  <1>9. c2 + Cardinality(R2) = n2
    <2>1. CASE counts
      <3>1. c2 = c + 1 /\ n2 = n /\ Cardinality(R2) = Cardinality(R) - 1
        BY <1>1, <1>4, <1>5, <1>6, <1>7, <1>8, <2>1
      <3> QED
        BY <1>1, <1>3, <3>1
    <2>2. CASE rates
      <3>1. c2 = c + 0 /\ n = 0 /\ n2 = 1 /\ Cardinality(R2) = Cardinality(R) + 1
        BY <1>1, <1>4, <1>5, <1>6, <1>7, <1>8, <2>2
      <3> QED
        BY <1>1, <1>3, <3>1
    <2>3. CASE ~counts /\ ~rates
      <3>1. c2 = c + 0 /\ n2 = n /\ R2 = R
        BY <1>1, <1>5, <1>8, <2>3
      <3> QED
        BY <1>1, <1>3, <3>1
    <2> QED
      BY <2>1, <2>2, <2>3
  <1> QED
    BY <1>9 DEF RatedOnce, R2, c2, n2

LEMMA DropKeeps ==
    ASSUME Inv, Inv', OrdersOK, NEW p \in Procs, NEW h \in Loses, Todo(p, h), Effect(p, h), Drops(p),
           h = "insertRating" => job[p].task \in rated, NEW u \in Tasks, Owed(u)
    PROVE  Owed(u)'
  <1>1. /\ Paying(u)' = Paying(u) /\ Refunding(u)' = Refunding(u) /\ Rating(u)' = Rating(u)
        /\ \A q \in Procs : \A x \in {"release", "refund"} : In(q, u, x)' <=> In(q, u, x)
        /\ \A q \in Procs : In(q, u, "cancel")' => In(q, u, "cancel")
    BY DropSets
  <1>2. /\ ledger'[u].paid = ledger[u].paid /\ ledger'[u].refunded = ledger[u].refunded
        /\ credit'[u]["rated"] = credit[u]["rated"]
    BY LedgerTypes DEF Inv, Effect, Ledgers, Loses
  <1>3. submission' = submission
    BY DEF Effect, Submissions, Loses, SubWrites
  <1>4. SubsOf(u, "approved")' = SubsOf(u, "approved") /\ SubsOf(u, "rejected")' = SubsOf(u, "rejected")
    BY <1>3 DEF SubsOf
  <1>5. rated' = rated
    BY DEF Effect, Ratings
  <1>6. /\ task'[u].status = "completed" => Is(u, "completed")
        /\ task'[u].status = "cancelled" => Is(u, "cancelled")
    BY DEF Effect, Ends, Loses
  <1>7. ApprovedPaid(u)' /\ RejectedRefunded(u)'
    BY <1>1, <1>2, <1>4 DEF Owed, ApprovedPaid, RejectedRefunded
  <1>8. CompletedPaid(u)' /\ CancelledRefunded(u)'
    BY <1>1, <1>2, <1>6 DEF Owed, CompletedPaid, CancelledRefunded, Is
  <1>9. RatedOnce(u)'
    BY <1>1, <1>2, <1>5 DEF Owed, RatedOnce
  <1> QED
    BY <1>7, <1>8, <1>9 DEF Owed

\* A handler that starts owes no decision of its own; it may bring a refund.
LEMMA BeginKeeps ==
    ASSUME Inv, Inv', NEW p \in Procs,
           \/ Begins(p)
           \/ /\ job' = job /\ NoneEnds
              /\ UNCHANGED <<ctx, bid, submission, ledger, credit, rated, faults>>,
           NEW u \in Tasks, Owed(u)
    PROVE  Owed(u)'
  <1>1. NoneEnds /\ UNCHANGED <<submission, ledger, credit, rated>>
    BY DEF Begins
  <1>2. \A q \in Procs \ {p} : \A x : In(q, u, x)' <=> In(q, u, x)
    BY DEF Begins, Others1, In
  <1>3. /\ \A x : In(p, u, x) => In(p, u, x)'
        /\ \/ \A x : In(p, u, x)' <=> In(p, u, x)
           \/ /\ \A x : ~In(p, u, x)
              /\ In(p, u, "cancel")' => In(p, u, "refund")'
              /\ In(p, u, "rate")' => In(p, u, "insertRating")'
    <2>1. CASE job' = job
      BY <2>1 DEF In
    <2>2. CASE Begins(p)
      <3>1. \A x : ~In(p, u, x)
        BY <2>2, IdleJob DEF Begins, In
      <3> QED
        BY <2>2, <3>1 DEF Begins, Begun, In
    <2> QED
      BY <2>1, <2>2
  <1>4. Paying(u) \subseteq Paying(u)' /\ Refunding(u) \subseteq Refunding(u)'
    BY <1>2, <1>3 DEF Paying, Refunding
  <1>5. Rating(u)' = Rating(u)
    <2>1. \A q \in Procs : q \in Rating(u)' <=> q \in Rating(u)
      BY <1>2, <1>3 DEF Rating
    <2> QED
      BY <2>1 DEF Rating
  <1>6. /\ Cardinality(Paying(u)) \in Nat /\ Cardinality(Paying(u)') \in Nat
        /\ Cardinality(Refunding(u)) \in Nat /\ Cardinality(Refunding(u)') \in Nat
        /\ Cardinality(Paying(u)) <= Cardinality(Paying(u)')
        /\ Cardinality(Refunding(u)) <= Cardinality(Refunding(u)')
    <2>1. Paying(u)' \in SUBSET Procs /\ Refunding(u)' \in SUBSET Procs
      BY DEF Paying, Refunding
    <2>2. ASSUME NEW S, NEW T \in SUBSET Procs, S \subseteq T
          PROVE  Cardinality(S) \in Nat /\ Cardinality(T) \in Nat /\ Cardinality(S) <= Cardinality(T)
      BY <2>2, FS_Subset, FS_CardinalityType
    <2> QED
      BY <1>4, <2>1, <2>2
  <1>7. /\ SubsOf(u, "approved")' = SubsOf(u, "approved") /\ SubsOf(u, "rejected")' = SubsOf(u, "rejected")
        /\ Cardinality(SubsOf(u, "approved")) \in Nat /\ Cardinality(SubsOf(u, "rejected")) \in Nat
    BY <1>1, FS_Subset, FS_CardinalityType DEF SubsOf
  <1>8. ledger[u].paid \in Nat /\ ledger[u].refunded \in Nat
    BY LedgerTypes DEF Inv
  <1>9. ApprovedPaid(u)' /\ RejectedRefunded(u)'
    <2>1. /\ Cardinality(SubsOf(u, "approved")) <= ledger[u].paid + Cardinality(Paying(u)')
          /\ Cardinality(SubsOf(u, "rejected")) <= ledger[u].refunded + Cardinality(Refunding(u)')
      BY <1>6, <1>7, <1>8 DEF Owed, ApprovedPaid, RejectedRefunded
    <2> QED
      BY <1>1, <1>7, <2>1 DEF ApprovedPaid, RejectedRefunded
  <1>10. CompletedPaid(u)' /\ CancelledRefunded(u)'
    BY <1>1, <1>2, <1>3 DEF Owed, CompletedPaid, CancelledRefunded, NoneEnds, Is
  <1>11. RatedOnce(u)'
    BY <1>1, <1>5 DEF Owed, RatedOnce
  <1> QED
    BY <1>9, <1>10, <1>11 DEF Owed

LEMMA NothingOrdered ==
    ASSUME NEW plan, Left(plan) \subseteq {"undo"}
    PROVE  Orders(plan)
  BY DEF Left, Orders, Before, Once, Apart

LEMMA OrdersKept ==
    ASSUME Inv, OrdersOK, [Next]_vars
    PROVE  OrdersOK'
  <1>1. ASSUME NEW p \in Procs, Others1(p), Orders(job'[p].plan) PROVE OrdersOK'
    BY <1>1 DEF Others1, OrdersOK
  <1>2. ASSUME NEW p \in Procs, Step(p) PROVE OrdersOK'
    <2>1. PICK h : Runs(p, h)
      BY <1>2, StepEffect
    <2>2. CASE Done(p)
      BY <1>1, <2>1, <2>2, DoneIn DEF Runs
    <2>3. CASE Drops(p)
      BY <1>1, <2>3, NothingOrdered DEF Drops
    <2> QED
      BY <2>1, <2>2, <2>3 DEF Runs
  <1>3. ASSUME NEW p \in Procs, Request(p) \/ Tick(p) PROVE OrdersOK'
    <2>1. CASE job' = job
      BY <2>1 DEF OrdersOK
    <2>2. CASE Begins(p)
      BY <1>1, <2>2 DEF Begins, Begun
    <2> QED
      BY <1>3, <2>1, <2>2, RequestBegins
  <1>4. CASE Fault
    <2>1. \A q \in Procs : job'[q] = job[q] \/ job'[q] = Idle
      BY <1>4 DEF Fault, Abort, Inv, TypeOK
    <2>2. Orders(Idle.plan)
      BY IdleJob, NothingOrdered
    <2> QED
      BY <2>1, <2>2 DEF OrdersOK
  <1>5. CASE UNCHANGED vars
    BY <1>5 DEF vars, OrdersOK
  <1> QED
    BY <1>2, <1>3, <1>4, <1>5 DEF Next

LEMMA OwedKept ==
    ASSUME Inv, Inv', OrdersOK, OwedOK, [Next]_vars
    PROVE  OwedOK'
  <1> SUFFICES ASSUME faults' = 0, NEW u \in Tasks PROVE Owed(u)'
    BY DEF OwedOK
  <1>1. ASSUME faults' = faults PROVE Owed(u)
    BY <1>1 DEF OwedOK
  <1>2. ASSUME NEW p \in Procs, Step(p) PROVE Owed(u)'
    <2>1. faults' = faults
      BY <1>2 DEF Step, EscrowStmt, UndoStmt, ContextStmt, MoneyStmt, TaskStmt, ReopenStmt,
         ClaimStmt, InsertBidStmt, ReadBidStmt, BidStmt, SubStmt, CreditStmt, RatingStmt, Reads
    <2>2. PICK h : Runs(p, h)
      BY <1>2, StepEffect
    <2>3. CASE Done(p) /\ (h = "insertRating" => job[p].task \notin rated)
      BY <1>1, <2>1, <2>2, <2>3, DoneKeepsApproved, DoneKeepsEnded, DoneKeepsRated DEF Runs, Owed
    <2>4. CASE Drops(p) /\ h \in Loses /\ (h = "insertRating" => job[p].task \in rated)
      BY <1>1, <2>1, <2>2, <2>4, DropKeeps DEF Runs
    <2> QED
      BY <2>2, <2>3, <2>4 DEF Runs
  <1>3. ASSUME NEW p \in Procs, Request(p) \/ Tick(p) PROVE Owed(u)'
    <2>1. \/ Begins(p)
          \/ /\ job' = job /\ NoneEnds
             /\ UNCHANGED <<ctx, bid, submission, ledger, credit, rated, faults>>
      BY <1>3, RequestBegins
    <2>2. faults' = faults
      BY <2>1 DEF Begins
    <2> QED
      BY <1>1, <2>1, <2>2, BeginKeeps
  <1>4. ~Fault
    BY DEF Fault, Inv, TypeOK
  <1>5. CASE UNCHANGED vars
    <2>1. UNCHANGED <<task, ctx, bid, submission, ledger, credit, rated, job, faults>>
      BY <1>5 DEF vars
    <2>2. Owed(u)
      BY <1>1, <2>1
    <2> QED
      BY <2>1, <2>2 DEF Owed, ApprovedPaid, RejectedRefunded, CompletedPaid, CancelledRefunded,
         RatedOnce, Paying, Refunding, Rating, In, SubsOf, Is
  <1> QED
    BY <1>2, <1>3, <1>4, <1>5 DEF Next

LEMMA InitOwed == Init => OrdersOK /\ OwedOK
  <1> SUFFICES ASSUME Init PROVE OrdersOK /\ OwedOK
    OBVIOUS
  <1>1. OrdersOK
    BY IdleJob, NothingOrdered DEF Init, OrdersOK
  <1>2. \A u \in Tasks : \A q \in Procs : \A x : ~In(q, u, x)
    BY IdleJob DEF Init, In
  <1>3. ASSUME NEW u \in Tasks PROVE Owed(u)
    <2>1. Paying(u) = {} /\ Refunding(u) = {} /\ Rating(u) = {}
      BY <1>2 DEF Paying, Refunding, Rating
    <2>2. SubsOf(u, "approved") = {} /\ SubsOf(u, "rejected") = {}
      BY DEF Init, SubsOf
    <2>3. /\ ledger[u].paid = 0 /\ ledger[u].refunded = 0 /\ credit[u]["rated"] = 0
          /\ u \notin rated /\ task[u].status = "none"
      BY DEF Init, Credit, Absent
    <2>4. ApprovedPaid(u) /\ RejectedRefunded(u) /\ RatedOnce(u)
      BY <2>1, <2>2, <2>3, FS_EmptySet DEF ApprovedPaid, RejectedRefunded, RatedOnce
    <2> QED
      BY <1>2, <2>3, <2>4 DEF Owed, CompletedPaid, CancelledRefunded, Is
  <1> QED
    BY <1>1, <1>3 DEF OwedOK

\* However handlers interleave, as long as nothing fails: every approval pays, every
\* rejection and cancellation refunds, and a rating counts once.  What has been
\* decided and not yet paid is left to do in the plan of a handler in flight.
THEOREM NothingIsLost == Spec => []NothingLost
  <1>1. Inv /\ OwedOK => NothingLost
    <2> SUFFICES ASSUME Inv, OwedOK, NEW t \in Tasks, Quiet(t), faults = 0
                 PROVE  /\ ledger[t].paid >= Cardinality(SubsOf(t, "approved"))
                        /\ ledger[t].refunded >= Rejections(t)
                        /\ Is(t, "completed") => ledger[t].paid >= 1
                        /\ Is(t, "cancelled") => ledger[t].refunded >= 1
                        /\ credit[t].rated = IF t \in rated THEN 1 ELSE 0
      BY DEF NothingLost
    <2>1. \A q \in Procs : \A x : ~In(q, t, x)
      BY DEF Quiet, In
    <2>2. Paying(t) = {} /\ Refunding(t) = {} /\ Rating(t) = {}
      BY <2>1 DEF Paying, Refunding, Rating
    <2>3. Cardinality({}) = 0
      BY FS_EmptySet
    <2>4. /\ ledger[t].paid \in Nat /\ ledger[t].refunded \in Nat /\ credit[t]["rated"] \in Nat
          /\ Cardinality(SubsOf(t, "approved")) \in Nat /\ Cardinality(SubsOf(t, "rejected")) \in Nat
      BY LedgerTypes, FS_Subset, FS_CardinalityType DEF Inv, SubsOf
    <2>5. Owed(t)
      BY DEF OwedOK
    <2>6. /\ ledger[t].paid >= Cardinality(SubsOf(t, "approved"))
          /\ ledger[t].refunded >= Rejections(t)
      BY <2>2, <2>3, <2>4, <2>5 DEF Owed, ApprovedPaid, RejectedRefunded, Rejections
    <2>7. /\ Is(t, "completed") => ledger[t].paid >= 1
          /\ Is(t, "cancelled") => ledger[t].refunded >= 1
      BY <2>1, <2>5 DEF Owed, CompletedPaid, CancelledRefunded
    <2>8. credit[t].rated = IF t \in rated THEN 1 ELSE 0
      BY <2>2, <2>3, <2>4, <2>5 DEF Owed, RatedOnce
    <2> QED
      BY <2>6, <2>7, <2>8
  <1>2. Inv /\ OrdersOK /\ OwedOK /\ [Next]_vars => Inv' /\ OrdersOK' /\ OwedOK'
    BY Invariance, OrdersKept, OwedKept
  <1> QED
    BY InitInv, InitOwed, <1>1, <1>2, PTL DEF Spec

-----------------------------------------------------------------------------
(***************************************************************************)
(* Handlers that do not overlap.  Where a handler is: at the k-th          *)
(* statement of its plan.                                                  *)
(***************************************************************************)
AllOps == Ops \cup {"undo"}
Script(op) == IF op = "undo" THEN <<"undo">> ELSE Plan[op]

\* The statement that is the k-th of a plan.
Nth(op, k, h) ==
    \/ op \in {"rest", "system", "a2a"} /\ k = 1 /\ h = "escrow"
    \/ op = "a2a" /\ k = 2 /\ h = "context"
    \/ op = "undo" /\ k = 1 /\ h = "undo"
    \/ op = "delete" /\ k = 1 /\ h = "refund"
    \/ op = "delete" /\ k = 2 /\ h = "cancel"
    \/ op = "a2aCancel" /\ k = 1 /\ h = "cancel"
    \/ op = "a2aCancel" /\ k = 2 /\ h = "refund"
    \/ op \in {"bid", "bidFirst"} /\ k = 1 /\ h = "insertBid"
    \/ op = "bidFirst" /\ k = 2 /\ h = "claim"
    \/ op = "bidFirst" /\ k = 3 /\ h = "acceptBid"
    \/ op = "bidFirst" /\ k = 4 /\ h = "rejectOthers"
    \/ op = "accept" /\ k = 1 /\ h = "readBid"
    \/ op = "accept" /\ k = 2 /\ h = "acceptBid"
    \/ op = "accept" /\ k = 3 /\ h = "rejectOthers"
    \/ op = "accept" /\ k = 4 /\ h = "start"
    \/ op = "submit" /\ k = 1 /\ h = "insertApproved"
    \/ op = "approve" /\ k = 1 /\ h = "approve"
    \/ op \in {"submit", "approve"} /\ k = 2 /\ h = "complete"
    \/ op \in {"submit", "approve"} /\ k = 3 /\ h = "release"
    \/ op \in {"submit", "approve"} /\ k = 4 /\ h = "countCompleted"
    \/ op \in {"submit", "approve"} /\ k = 5 /\ h = "countCreated"
    \/ op \in {"submit", "approve"} /\ k = 6 /\ h = "reward"
    \/ op = "review" /\ k = 1 /\ h = "insertValidating"
    \/ op = "review" /\ k = 2 /\ h = "validate"
    \/ op = "reject" /\ k = 1 /\ h = "reject"
    \/ op = "reject" /\ k = 2 /\ h = "reopen"
    \/ op = "reject" /\ k = 3 /\ h = "punish"
    \/ op = "reject" /\ k = 4 /\ h = "refund"
    \/ op = "timeout" /\ k = 1 /\ h = "reopenIfInProgress"
    \/ op = "timeout" /\ k = 2 /\ h = "rejectBids"
    \/ op = "timeout" /\ k = 3 /\ h = "punish"
    \/ op = "rate" /\ k = 1 /\ h = "insertRating"
    \/ op = "rate" /\ k = 2 /\ h = "rate"

\* The last statement of a plan.
Ends1(op, k) ==
    \/ op \in {"rest", "system", "undo", "bid"} /\ k = 1
    \/ op \in {"a2a", "delete", "a2aCancel", "review", "rate"} /\ k = 2
    \/ op = "timeout" /\ k = 3
    \/ op \in {"bidFirst", "accept", "reject"} /\ k = 4
    \/ op \in {"submit", "approve"} /\ k = 6

LEMMA ScriptTable ==
    ASSUME NEW op \in AllOps
    PROVE  /\ Len(Script(op)) \in Nat \ {0} /\ Len(Script(op)) <= 6
           /\ \A k \in 1..Len(Script(op)) : Nth(op, k, Script(op)[k])
           /\ \A k \in 1..Len(Script(op)) : k = Len(Script(op)) <=> Ends1(op, k)
  <1> DEFINE s == Script(op)
  <1>1. CASE op \in {"rest", "system", "undo", "bid"}
    <2>1. /\ op \in {"rest", "system"} => s = <<"escrow">>
          /\ op = "undo" => s = <<"undo">>
          /\ op = "bid" => s = <<"insertBid">>
      BY <1>1 DEF Script, Plan
    <2>2. Len(s) = 1
      BY <1>1, <2>1
    <2>3. /\ op \in {"rest", "system"} => s[1] = "escrow"
          /\ op = "undo" => s[1] = "undo"
          /\ op = "bid" => s[1] = "insertBid"
      BY <1>1, <2>1
    <2> HIDE DEF s
    <2> QED
      BY <1>1, <2>2, <2>3 DEF Nth, Ends1, s
  <1>2. CASE op \in {"a2a", "delete", "a2aCancel", "review", "rate"}
    <2>1. /\ op = "a2a" => s = <<"escrow", "context">>
          /\ op = "delete" => s = <<"refund", "cancel">>
          /\ op = "a2aCancel" => s = <<"cancel", "refund">>
          /\ op = "review" => s = <<"insertValidating", "validate">>
          /\ op = "rate" => s = <<"insertRating", "rate">>
      BY <1>2 DEF Script, Plan
    <2>2. Len(s) = 2
      BY <1>2, <2>1
    <2>3. /\ op = "a2a" => s[1] = "escrow" /\ s[2] = "context"
          /\ op = "delete" => s[1] = "refund" /\ s[2] = "cancel"
          /\ op = "a2aCancel" => s[1] = "cancel" /\ s[2] = "refund"
          /\ op = "review" => s[1] = "insertValidating" /\ s[2] = "validate"
          /\ op = "rate" => s[1] = "insertRating" /\ s[2] = "rate"
      BY <1>2, <2>1
    <2> HIDE DEF s
    <2>4. \A k \in 1..Len(s) : k = 1 \/ k = 2
      BY <2>2
    <2> QED
      BY <1>2, <2>2, <2>3, <2>4 DEF Nth, Ends1, s
  <1>3. CASE op = "timeout"
    <2>1. s = <<"reopenIfInProgress", "rejectBids", "punish">>
      BY <1>3 DEF Script, Plan
    <2>2. Len(s) = 3 /\ s[1] = "reopenIfInProgress" /\ s[2] = "rejectBids" /\ s[3] = "punish"
      BY <2>1
    <2> HIDE DEF s
    <2>4. \A k \in 1..Len(s) : k = 1 \/ k = 2 \/ k = 3
      BY <2>2
    <2> QED
      BY <1>3, <2>2, <2>4 DEF Nth, Ends1, s
  <1>4. CASE op \in {"bidFirst", "accept", "reject"}
    <2>1. /\ op = "bidFirst" => s = <<"insertBid", "claim", "acceptBid", "rejectOthers">>
          /\ op = "accept" => s = <<"readBid", "acceptBid", "rejectOthers", "start">>
          /\ op = "reject" => s = <<"reject", "reopen", "punish", "refund">>
      BY <1>4 DEF Script, Plan
    <2>2. Len(s) = 4
      BY <1>4, <2>1
    <2>3. /\ op = "bidFirst" => s[1] = "insertBid" /\ s[2] = "claim" /\ s[3] = "acceptBid"
                                /\ s[4] = "rejectOthers"
          /\ op = "accept" => s[1] = "readBid" /\ s[2] = "acceptBid" /\ s[3] = "rejectOthers"
                              /\ s[4] = "start"
          /\ op = "reject" => s[1] = "reject" /\ s[2] = "reopen" /\ s[3] = "punish"
                              /\ s[4] = "refund"
      BY <1>4, <2>1
    <2> HIDE DEF s
    <2>4. \A k \in 1..Len(s) : k = 1 \/ k = 2 \/ k = 3 \/ k = 4
      BY <2>2
    <2> QED
      BY <1>4, <2>2, <2>3, <2>4 DEF Nth, Ends1, s
  <1>5. CASE op \in {"submit", "approve"}
    <2>1. PICK x \in {"insertApproved", "approve"} :
                /\ s = <<x>> \o Completion
                /\ x = IF op = "submit" THEN "insertApproved" ELSE "approve"
      <3>1. CASE op = "submit"
        BY <3>1 DEF Script, Plan
      <3>2. CASE op = "approve"
        BY <3>2 DEF Script, Plan
      <3> QED
        BY <1>5, <3>1, <3>2
    <2>2. s = <<x, "complete", "release", "countCompleted", "countCreated", "reward">>
      BY <2>1, CompletesAfter DEF Names
    <2>5. Len(s) = 6
      BY <2>2
    <2> HIDE DEF s
    <2>6. /\ s[1] = x /\ s[2] = "complete" /\ s[3] = "release" /\ s[4] = "countCompleted"
          /\ s[5] = "countCreated" /\ s[6] = "reward"
      BY <2>2
    <2>3. /\ op = "submit" => s[1] = "insertApproved"
          /\ op = "approve" => s[1] = "approve"
      BY <1>5, <2>1, <2>6
    <2>4. \A k \in 1..Len(s) : k = 1 \/ k = 2 \/ k = 3 \/ k = 4 \/ k = 5 \/ k = 6
      BY <2>5
    <2> QED
      BY <1>5, <2>5, <2>3, <2>4, <2>6 DEF Nth, Ends1, s
  <1> QED
    BY <1>1, <1>2, <1>3, <1>4, <1>5 DEF AllOps, Ops

\* Handler p is at the k-th statement of op, which is h.
At(p, op, k) ==
    /\ op \in AllOps /\ k \in 1..Len(Script(op))
    /\ Len(job[p].plan) = Len(Script(op)) - k + 1
    /\ \A i \in 1..Len(job[p].plan) : job[p].plan[i] = Script(op)[i + k - 1]

LEMMA AtHead ==
    ASSUME TypeOK, NEW p \in Procs, NEW op, NEW k, At(p, op, k), NEW h, Todo(p, h)
    PROVE  op \in AllOps /\ k \in Nat /\ Nth(op, k, h) /\ job[p].plan # <<>>
  <1>1. PICK plan \in Seq(Statement) : plan = job[p].plan /\ plan # <<>> /\ Head(plan) = h
    BY JobType DEF Todo
  <1>2. Len(plan) \in Nat /\ 1 \in 1..Len(plan) /\ plan[1] = h
    BY <1>1, EmptySeq
  <1>3. op \in AllOps /\ k \in 1..Len(Script(op)) /\ Len(Script(op)) \in Nat
    BY ScriptTable DEF At
  <1>4. plan[1] = Script(op)[1 + k - 1] /\ 1 + k - 1 = k
    BY <1>1, <1>2, <1>3 DEF At
  <1> QED
    BY <1>1, <1>2, <1>3, <1>4, ScriptTable

\* What a handler holds besides its plan.
Holds(p, t, w, s) == job[p].task = t /\ job[p].worker = w /\ job[p].sub = s

LEMMA AtDone ==
    ASSUME TypeOK, NEW p \in Procs, NEW op, NEW k, At(p, op, k), job[p].plan # <<>>, Done(p)
    PROVE  /\ Others1(p)
           /\ Ends1(op, k) => job'[p] = Idle
           /\ ~Ends1(op, k) => /\ At(p, op, k + 1)'
                               /\ job'[p].task = job[p].task /\ job'[p].worker = job[p].worker
                               /\ job'[p].sub = job[p].sub
  <1> DEFINE x == [job[p] EXCEPT !.plan = Tail(@)]
  <1>1. PICK plan \in Seq(Statement) : plan = job[p].plan /\ plan # <<>>
    BY JobType
  <1>2. /\ Len(plan) \in Nat /\ Len(Tail(plan)) = Len(plan) - 1
        /\ \A i \in 1..Len(Tail(plan)) : Tail(plan)[i] = plan[i + 1]
    BY <1>1, HeadTailProperties, LenProperties
  <1>3. /\ x.task = job[p].task /\ x.plan = Tail(plan) /\ x.worker = job[p].worker
        /\ x.sub = job[p].sub
    BY <1>1, JobType DEF Job
  <1>4. Others1(p) /\ job'[p] = IF Len(plan) = 1 THEN Idle ELSE x
    BY <1>1, DoneStep DEF Done, TypeOK, Advances
  <1>5. /\ op \in AllOps /\ k \in 1..Len(Script(op)) /\ Len(Script(op)) \in Nat
        /\ Len(plan) = Len(Script(op)) - k + 1
        /\ \A i \in 1..Len(plan) : plan[i] = Script(op)[i + k - 1]
    BY <1>1, ScriptTable DEF At
  <1>6. Len(plan) = 1 <=> Ends1(op, k)
    BY <1>5, ScriptTable
  <1> HIDE DEF x
  <1>7. ASSUME ~Ends1(op, k) PROVE At(p, op, k + 1)' /\ job'[p] = x
    <2>1. job'[p] = x /\ job'[p].plan = Tail(plan)
      BY <1>3, <1>4, <1>6, <1>7
    <2>2. k + 1 \in 1..Len(Script(op)) /\ Len(Tail(plan)) = Len(Script(op)) - (k + 1) + 1
      BY <1>2, <1>5, <1>6, <1>7
    <2>3. ASSUME NEW i \in 1..Len(Tail(plan)) PROVE Tail(plan)[i] = Script(op)[i + (k + 1) - 1]
      <3>1. i + 1 \in 1..Len(plan) /\ (i + 1) + k - 1 = i + (k + 1) - 1
        BY <1>2, <1>5
      <3> QED
        BY <1>2, <1>5, <3>1
    <2> QED
      BY <1>5, <2>1, <2>2, <2>3 DEF At, Script
  <1> QED
    BY <1>3, <1>4, <1>6, <1>7

LEMMA AtStart ==
    ASSUME TypeOK, NEW p \in Procs, NEW op \in Ops, NEW t \in Tasks,
           NEW w \in Workers \cup {NoWorker}, NEW s \in Subs \cup {NoSub}, Start(p, op, t, w, s)
    PROVE  /\ Others1(p) /\ At(p, op, 1)' /\ Holds(p, t, w, s)' /\ job'[p].plan # <<>>
           /\ job[p] = Idle
           /\ Concurrent \/ \A q \in Procs : job[q] = Idle
  <1> DEFINE x == [task |-> t, worker |-> w, sub |-> s, plan |-> Plan[op]]
  <1>1. /\ x \in Job /\ x.task = t /\ x.plan = Plan[op] /\ x.worker = w /\ x.sub = s
    BY PlanType DEF Job
  <1>2. /\ job' = [job EXCEPT ![p] = x] /\ job[p] = Idle
        /\ Concurrent \/ \A q \in Procs : job[q] = Idle
    BY DEF Start
  <1> HIDE DEF x
  <1>3. Others1(p) /\ job'[p] = x
    BY <1>1, <1>2 DEF TypeOK, Others1
  <1>4. op # "undo" /\ op \in AllOps /\ Script(op) = Plan[op]
    BY DEF Ops, AllOps, Script
  <1>5. At(p, op, 1)'
    <2>1. Len(Script(op)) \in Nat \ {0} /\ 1 \in 1..Len(Script(op))
      BY <1>4, ScriptTable
    <2>2. /\ Len(job'[p].plan) = Len(Script(op)) - 1 + 1
          /\ \A i \in 1..Len(job'[p].plan) : i + 1 - 1 = i
      BY <1>1, <1>3, <1>4, <2>1
    <2> QED
      BY <1>1, <1>3, <1>4, <2>1, <2>2 DEF At
  <1>6. job'[p].plan # <<>>
    BY <1>1, <1>3, PlanSeq
  <1> QED
    BY <1>1, <1>2, <1>3, <1>5, <1>6 DEF Holds

-----------------------------------------------------------------------------
(***************************************************************************)
(* Handlers that do not overlap: what is true of a task while a handler is *)
(* at the k-th statement of its plan, and while none works on it.          *)
(***************************************************************************)

(* Whatever fails.  What a task may still cost: a payment for each         *)
(* submission in review, and one as long as it is open or in progress.     *)
InReview(u) == Cardinality(SubsOf(u, "validating"))
Live(u) == IF task[u].status \in {"none", "open", "in_progress"} THEN 1 ELSE 0

Balance(u, a, b) ==
    /\ ledger[u].paid + InReview(u) + Live(u) <= 1 + faults + a
    /\ Settled(u) + InReview(u) + Live(u) <= 1 + Rejections(u) + faults + b

\* By how much a handler at its k-th statement exceeds the balance.
PaidAhead(op, k) ==
    IF op = "review" /\ k = 2 THEN 1
    ELSE IF \/ op = "submit" /\ k = 3
            \/ op = "approve" /\ k \in {2, 3}
            \/ op \in {"a2aCancel", "reject"} /\ k = 2 THEN 0 - 1
    ELSE 0
SettledAhead(op, k) ==
    IF op \in {"review", "delete"} /\ k = 2 THEN 1
    ELSE IF op = "reject" /\ k = 2 THEN 0 - 2
    ELSE IF \/ op = "submit" /\ k = 3
            \/ op = "approve" /\ k \in {2, 3}
            \/ op = "a2aCancel" /\ k = 2
            \/ op = "reject" /\ k \in {3, 4} THEN 0 - 1
    ELSE 0

\* What a handler read of its task or its submission is still so.
Seen(op, k, t, w, s) ==
    /\ op \in {"delete", "accept"} \/ (op = "a2aCancel" /\ k = 1) => Is(t, "open")
    /\ op \in {"submit", "review"} /\ k \in {1, 2} =>
           Is(t, "in_progress") /\ s \in Subs /\ w \in Workers /\ task[t].executor = w
    /\ op \in {"submit", "review"} /\ k = 1 => submission[s].status = "none"
    /\ op = "review" /\ k = 2 => s \in SubsOf(t, "validating")
    /\ op \in {"approve", "reject"} /\ k = 1 =>
           s \in Subs /\ submission[s] = [status |-> "validating", task |-> t, worker |-> w]

Note1(op, k, t, w, s) ==
    Seen(op, k, t, w, s) /\ Balance(t, PaidAhead(op, k), SettledAhead(op, k))

(* As long as nothing failed.                                              *)
AsMany(b) == IF b THEN 1 ELSE 0
Books(u, op, k) ==
    LET late(n) == AsMany(op \in {"submit", "approve"} /\ k \in 3..n)
        done == AsMany(Is(u, "completed"))
        gone == AsMany(Is(u, "cancelled"))
    IN /\ ledger[u].paid = done - late(3)
       /\ credit[u]["completed"] = done - late(4)
       /\ credit[u]["created"] = done - late(5)
       /\ credit[u]["rewarded"] = done - late(6)
       /\ ledger[u].refunded = gone + Rejections(u) + AsMany(op = "delete" /\ k = 2)
              - AsMany((op = "a2aCancel" /\ k = 2) \/ (op = "reject" /\ k \in 2..4))
       /\ credit[u]["punished"] >= Rejections(u) - AsMany(op = "reject" /\ k \in {2, 3})

Held(u) == SubsOf(u, "validating") \cup SubsOf(u, "approved")

Papers(u, op, k) ==
    /\ SubsOf(u, "validating") # {} <=>
           \/ Is(u, "validating") /\ ~(op \in {"approve", "reject"} /\ k = 2)
           \/ op = "review" /\ k = 2
    /\ SubsOf(u, "approved") # {} <=>
           Is(u, "completed") \/ (op \in {"submit", "approve"} /\ k = 2)
    /\ \A x, y \in Held(u) : x = y
    /\ \A x \in Held(u) : submission[x].worker = task[u].executor

Accepted(u) == {w \in Workers : bid[u][w] = "accepted"}
Taken(u) == task[u].status \in {"in_progress", "validating", "completed"}
NoBids(u) == \A w \in Workers : bid[u][w] = "none"

Bids(u, op, k) ==
    /\ Taken(u) <=> task[u].executor # NoWorker
    /\ Is(u, "none") => NoBids(u)
    /\ Taken(u) /\ ~(op = "bidFirst" /\ k \in {3, 4}) => Accepted(u) = {task[u].executor}

\* The price of a REST or a system task is in escrow once.
Creating(op) == op \in {"rest", "system", "undo"}
Escrowed(u, op, k) ==
    task[u].kind \in {"rest", "system"} =>
        ledger[u].escrow = AsMany(~Is(u, "none") /\ ~Is(u, "deleted")
                                     /\ ~(Creating(op) /\ k = 1))

\* What the handler did so far.
Did(op, k, t, w, s) ==
    /\ Creating(op) /\ k = 1 => Is(t, "open") /\ NoBids(t)
    /\ op \in {"rest", "system", "a2a"} => task[t].kind = op
    /\ op = "a2aCancel" /\ k = 2 => Is(t, "cancelled")
    /\ op \in {"submit", "approve"} /\ k \in 3..6 => Is(t, "completed")
    /\ op = "reject" /\ k \in {3, 4} => Is(t, "open")
    /\ op \in {"approve", "reject"} /\ k = 2 => Is(t, "validating")
    /\ op = "timeout" /\ k = 1 => Is(t, "in_progress") /\ task[t].executor = w
    /\ op = "timeout" /\ k = 2 => Is(t, "open")
    /\ op \in {"bid", "bidFirst", "accept"} => w \in Workers
    /\ op = "bidFirst" /\ k \in {3, 4} => Is(t, "in_progress") /\ task[t].executor = w
    /\ (op = "bidFirst" /\ k = 4) \/ (op = "accept" /\ k = 3) => w \in Accepted(t)
    /\ op = "accept" /\ k = 4 => Accepted(t) = {w}

Sound(u, op, k) == Books(u, op, k) /\ Papers(u, op, k) /\ Bids(u, op, k) /\ Escrowed(u, op, k)
Note2(op, k, t, w, s) == Did(op, k, t, w, s) /\ Sound(t, op, k)

\* Where a handler is, and what is true there.
Place(p) ==
    \E op \in AllOps, k \in 1..6 :
        /\ At(p, op, k)
        /\ Note1(op, k, job[p].task, job[p].worker, job[p].sub)
        /\ faults = 0 => Note2(op, k, job[p].task, job[p].worker, job[p].sub)

\* A task nobody works on: as after the last statement of a plan.
Calm(u) == Balance(u, 0, 0) /\ (faults = 0 => Sound(u, "none", 1))

Alone == \A p, q \in Procs : job[p] # Idle /\ job[q] # Idle => p = q
SerialInv ==
    /\ Alone
    /\ \A p \in Procs : job[p] # Idle => Place(p)
    /\ \A u \in Tasks : Quiet(u) => Calm(u)

(***************************************************************************)
(* What a statement h, run for worker w and submission s, does to the rows *)
(* of task t.                                                              *)
(***************************************************************************)
Elsewhere(t) == \A u \in Tasks \ {t} : /\ task'[u] = task[u] /\ bid'[u] = bid[u]
                                       /\ ledger'[u] = ledger[u] /\ credit'[u] = credit[u]

SetTo(t, status, executor) == task'[t].status = status /\ task'[t].executor = executor

TaskWritten(h, t, w) ==
    /\ task'[t].kind = task[t].kind
    /\ h = "cancel" => SetTo(t, "cancelled", task[t].executor)
    /\ h = "start" => SetTo(t, "in_progress", w)
    /\ h = "validate" => SetTo(t, "validating", task[t].executor)
    /\ h = "complete" => SetTo(t, "completed", task[t].executor)
    /\ h = "reopen" => SetTo(t, "open", NoWorker)
    /\ h = "claim" => Is(t, "open") /\ SetTo(t, "in_progress", w)
    /\ h = "undo" => SetTo(t, IF NoBids(t) THEN "deleted" ELSE task[t].status, task[t].executor)
    /\ h = "reopenIfInProgress" /\ Is(t, "in_progress") => SetTo(t, "open", NoWorker)
    /\ h = "reopenIfInProgress" /\ ~Is(t, "in_progress") => task'[t] = task[t]
    /\ h \notin {"cancel", "start", "validate", "complete", "reopen", "claim", "undo",
                 "reopenIfInProgress"} => task'[t] = task[t]

LedgerWritten(h, t) ==
    /\ ledger'[t].escrow = ledger[t].escrow + AsMany(h = "escrow")
    /\ ledger'[t].paid = ledger[t].paid + AsMany(h = "release")
    /\ ledger'[t].refunded = ledger[t].refunded + AsMany(h = "refund")

CreditWritten(h, t) ==
    /\ credit'[t]["completed"] = credit[t]["completed"] + AsMany(h = "countCompleted")
    /\ credit'[t]["created"] = credit[t]["created"] + AsMany(h = "countCreated")
    /\ credit'[t]["rewarded"] = credit[t]["rewarded"] + AsMany(h = "reward")
    /\ credit'[t]["punished"] = credit[t]["punished"] + AsMany(h = "punish")

BidsWritten(h, t, w) ==
    /\ h = "insertBid" => Accepted(t)' = Accepted(t)
    /\ h = "acceptBid" /\ w \in Workers => Accepted(t)' = Accepted(t) \cup {w}
    /\ h = "rejectOthers" => Accepted(t)' = Accepted(t) \cap {w}
    /\ h \notin {"insertBid", "acceptBid", "rejectOthers", "rejectBids"} => bid'[t] = bid[t]

SubsWritten(h, t, w, s) ==
    submission' = IF h \in DOMAIN SubWrites
                  THEN [submission EXCEPT ![s] =
                            [status |-> SubWrites[h], task |-> t, worker |-> w]]
                  ELSE submission

Writes(h, t, w, s) ==
    /\ Elsewhere(t) /\ TaskWritten(h, t, w) /\ LedgerWritten(h, t) /\ CreditWritten(h, t)
    /\ BidsWritten(h, t, w) /\ SubsWritten(h, t, w, s) /\ faults' = faults

RowsSame == UNCHANGED <<task, bid, submission, ledger, credit, faults>>

\* p runs h and goes on, or h does nothing and p ends, or p goes on to delete its row.
Moves(p, h) ==
    /\ Todo(p, h)
    /\ \/ Done(p) /\ Writes(h, job[p].task, job[p].worker, job[p].sub)
       \/ /\ Others1(p) /\ job'[p] = Idle /\ RowsSame /\ h \in Loses
          /\ h = "escrow" => task[job[p].task].kind = "a2a"
       \/ /\ h = "escrow" /\ task[job[p].task].kind # "a2a" /\ RowsSame
          /\ job' = [job EXCEPT ![p] = [job[p] EXCEPT !.plan = <<"undo">>]]

LEMMA RowTypes ==
    ASSUME TypeOK, NEW t \in Tasks
    PROVE  /\ task[t] \in TaskRow /\ bid[t] \in [Workers -> BidStatus]
           /\ ledger[t] \in [escrow: Nat, paid: Nat, refunded: Nat]
           /\ credit[t] \in [Credit -> Nat]
           /\ ledger[t].escrow \in Nat /\ ledger[t].paid \in Nat /\ ledger[t].refunded \in Nat
           /\ credit[t]["completed"] \in Nat /\ credit[t]["created"] \in Nat
           /\ credit[t]["rewarded"] \in Nat /\ credit[t]["punished"] \in Nat
  BY DEF TypeOK, Credit

\* The conjuncts of Writes about what h does not write.
LEMMA Unwritten ==
    ASSUME TypeOK, NEW t \in Tasks, NEW w, NEW s, NEW h
    PROVE  /\ /\ task' = task
              /\ h \notin {"cancel", "start", "validate", "complete", "reopen", "claim", "undo",
                           "reopenIfInProgress"}
              => TaskWritten(h, t, w)
           /\ ledger' = ledger /\ h \notin {"escrow", "release", "refund"} => LedgerWritten(h, t)
           /\ credit' = credit /\ h \notin {"countCompleted", "countCreated", "reward", "punish"}
              => CreditWritten(h, t)
           /\ bid' = bid /\ h \notin {"acceptBid", "rejectOthers"} => BidsWritten(h, t, w)
           /\ /\ submission' = submission
              /\ h \notin {"insertApproved", "insertValidating", "approve", "reject"}
              => SubsWritten(h, t, w, s)
  <1>1. DOMAIN SubWrites = {"insertApproved", "insertValidating", "approve", "reject"}
    BY DEF SubWrites
  <1>2. bid' = bid => Accepted(t)' = Accepted(t)
    BY DEF Accepted
  <1> QED
    BY <1>1, <1>2, RowTypes DEF TaskWritten, LedgerWritten, CreditWritten, BidsWritten, SubsWritten,
       AsMany

LEMMA TaskWrite ==
    ASSUME Inv, NEW t \in Tasks, NEW status \in TaskStatus, NEW executor \in Workers \cup {NoWorker},
           \/ task' = [task EXCEPT ![t].status = status, ![t].executor = executor]
           \/ task' = [task EXCEPT ![t].status = status] /\ executor = task[t].executor
    PROVE  /\ SetTo(t, status, executor) /\ task'[t].kind = task[t].kind
           /\ \A u \in Tasks \ {t} : task'[u] = task[u]
  <1> DEFINE row == [task[t] EXCEPT !.status = status, !.executor = executor]
  <1>1. task \in [Tasks -> TaskRow] /\ task[t] \in TaskRow
    BY DEF Inv, TypeOK
  <1>2. row.status = status /\ row.executor = executor /\ row.kind = task[t].kind
    BY <1>1 DEF TaskRow
  <1>3. executor = task[t].executor => [task[t] EXCEPT !.status = status] = row
    BY <1>1 DEF TaskRow
  <1>4. task' = [task EXCEPT ![t] = row]
    <2>1. CASE task' = [task EXCEPT ![t].status = status, ![t].executor = executor]
      BY <1>1, <2>1
    <2>2. CASE task' = [task EXCEPT ![t].status = status] /\ executor = task[t].executor
      BY <1>3, <2>2
    <2> QED
      BY <2>1, <2>2
  <1> HIDE DEF row
  <1> QED
    BY <1>1, <1>2, <1>4 DEF SetTo

LEMMA LedgerWrite ==
    ASSUME TypeOK, NEW t \in Tasks, NEW h,
           \/ h = "escrow" /\ ledger' = [ledger EXCEPT ![t].escrow = @ + 1]
           \/ h = "release" /\ ledger' = [ledger EXCEPT ![t].paid = @ + 1]
           \/ h = "refund" /\ ledger' = [ledger EXCEPT ![t].refunded = @ + 1]
    PROVE  LedgerWritten(h, t) /\ \A u \in Tasks \ {t} : ledger'[u] = ledger[u]
  <1>1. /\ ledger \in [Tasks -> [escrow: Nat, paid: Nat, refunded: Nat]]
        /\ ledger[t] \in [escrow: Nat, paid: Nat, refunded: Nat]
    BY DEF TypeOK
  <1> DEFINE e == [ledger[t] EXCEPT !.escrow = @ + 1]
             d == [ledger[t] EXCEPT !.paid = @ + 1]
             r == [ledger[t] EXCEPT !.refunded = @ + 1]
  <1>2. /\ e.escrow = ledger[t].escrow + 1 /\ e.paid = ledger[t].paid
        /\ e.refunded = ledger[t].refunded
        /\ d.escrow = ledger[t].escrow /\ d.paid = ledger[t].paid + 1
        /\ d.refunded = ledger[t].refunded
        /\ r.escrow = ledger[t].escrow /\ r.paid = ledger[t].paid
        /\ r.refunded = ledger[t].refunded + 1
        /\ ledger[t].escrow \in Nat /\ ledger[t].paid \in Nat /\ ledger[t].refunded \in Nat
    BY <1>1
  <1>3. PICK row \in {e, d, r} :
            /\ ledger' = [ledger EXCEPT ![t] = row]
            /\ row = IF h = "escrow" THEN e ELSE IF h = "release" THEN d ELSE r
    BY <1>1
  <1>4. h \in {"escrow", "release", "refund"}
    OBVIOUS
  <1> HIDE DEF e, d, r
  <1>5. ledger'[t] = row /\ \A u \in Tasks \ {t} : ledger'[u] = ledger[u]
    BY <1>1, <1>3
  <1> QED
    BY <1>2, <1>3, <1>4, <1>5 DEF LedgerWritten, AsMany

LEMMA CreditWrite ==
    ASSUME TypeOK, NEW t \in Tasks, NEW h \in DOMAIN CreditWrites,
           credit' = [credit EXCEPT ![t][CreditWrites[h]] = @ + 1]
    PROVE  CreditWritten(h, t) /\ \A u \in Tasks \ {t} : credit'[u] = credit[u]
  <1> DEFINE c == CreditWrites[h]
             row == [credit[t] EXCEPT ![c] = @ + 1]
  <1>1. credit \in [Tasks -> [Credit -> Nat]] /\ credit[t] \in [Credit -> Nat]
    BY DEF TypeOK
  <1>2. h \in {"countCompleted", "countCreated", "reward", "punish", "rate"}
    BY DEF CreditWrites
  <1>3. /\ c \in Credit
        /\ c = "completed" <=> h = "countCompleted"
        /\ c = "created" <=> h = "countCreated"
        /\ c = "rewarded" <=> h = "reward"
        /\ c = "punished" <=> h = "punish"
    BY <1>2 DEF CreditWrites, Credit
  <1>4. credit' = [credit EXCEPT ![t] = row]
    BY <1>1
  <1> HIDE DEF c
  <1>5. \A x \in Credit : row[x] = credit[t][x] + AsMany(x = c)
    <2> SUFFICES ASSUME NEW x \in Credit PROVE row[x] = credit[t][x] + AsMany(x = c)
      OBVIOUS
    <2>1. credit[t][x] \in Nat /\ row[x] = IF x = c THEN credit[t][x] + 1 ELSE credit[t][x]
      BY <1>1, <1>3
    <2> HIDE DEF row
    <2> QED
      BY <2>1 DEF AsMany
  <1> HIDE DEF row
  <1>6. credit'[t] = row /\ \A u \in Tasks \ {t} : credit'[u] = credit[u]
    BY <1>1, <1>4
  <1>7. \A x \in {"completed", "created", "rewarded", "punished"} :
            credit'[t][x] = credit[t][x] + AsMany(x = c)
    BY <1>5, <1>6 DEF Credit
  <1> QED
    BY <1>3, <1>6, <1>7 DEF CreditWritten

LEMMA BidWrite ==
    ASSUME TypeOK, NEW t \in Tasks, NEW w, NEW h,
           \/ h = "insertBid" /\ bid' = [bid EXCEPT ![t][w] = "pending"] /\ bid[t][w] = "none"
           \/ h = "acceptBid" /\ bid' = [bid EXCEPT ![t][w] = "accepted"]
           \/ /\ h = "rejectOthers"
              /\ bid' = [bid EXCEPT ![t] = [v \in Workers |->
                            IF v \in Others(w) /\ bid[t][v] # "none" THEN "rejected"
                            ELSE bid[t][v]]]
           \/ /\ h = "rejectBids"
              /\ bid' = [bid EXCEPT ![t][w] = IF @ \in {"pending", "accepted"}
                                              THEN "rejected" ELSE @]
    PROVE  BidsWritten(h, t, w) /\ \A u \in Tasks \ {t} : bid'[u] = bid[u]
  <1>1. /\ bid \in [Tasks -> [Workers -> BidStatus]] /\ bid[t] \in [Workers -> BidStatus]
    BY DEF TypeOK
  <1>2. \A u \in Tasks \ {t} : bid'[u] = bid[u]
    BY <1>1
  <1>3. CASE h = "insertBid"
    <2>1. \A v \in Workers : bid'[t][v] = "accepted" <=> bid[t][v] = "accepted"
      BY <1>1, <1>3
    <2> QED
      BY <1>2, <1>3, <2>1 DEF BidsWritten, Accepted
  <1>4. CASE h = "acceptBid"
    <2>1. ASSUME w \in Workers
          PROVE  \A v \in Workers : bid'[t][v] = "accepted" <=> v = w \/ bid[t][v] = "accepted"
      BY <1>1, <1>4, <2>1
    <2> QED
      BY <1>2, <1>4, <2>1 DEF BidsWritten, Accepted
  <1>5. CASE h = "rejectOthers"
    <2>1. \A v \in Workers : bid'[t][v] = IF v \in Others(w) /\ bid[t][v] # "none" THEN "rejected"
                                          ELSE bid[t][v]
      BY <1>1, <1>5
    <2>2. \A v \in Workers : bid'[t][v] = "accepted" <=> v = w /\ bid[t][v] = "accepted"
      BY <2>1 DEF Others
    <2> QED
      BY <1>2, <1>5, <2>2 DEF BidsWritten, Accepted
  <1>6. CASE h = "rejectBids"
    BY <1>2, <1>6 DEF BidsWritten
  <1> QED
    BY <1>2, <1>3, <1>4, <1>5, <1>6

LEMMA StepMoves ==
    ASSUME Inv, NEW p \in Procs, Step(p)
    PROVE  \E h : Moves(p, h)
  <1> DEFINE t == job[p].task
             w == job[p].worker
             s == job[p].sub
  <1>1. /\ TypeOK /\ t \in Tasks /\ w \in Workers \cup {NoWorker} /\ task[t] \in TaskRow
        /\ task[t].executor \in Workers \cup {NoWorker} /\ task[t].status \in TaskStatus
    <2>1. TypeOK /\ t \in Tasks /\ w \in Workers \cup {NoWorker}
      BY StepAdvances, JobType DEF Inv, JobsOK
    <2> HIDE DEF t, w
    <2> QED
      BY <2>1, RowTypes DEF TaskRow
  <1>2. Abort(p) => Others1(p) /\ job'[p] = Idle
    BY <1>1, IdleJob DEF Abort, TypeOK, Others1
  <1>3. /\ task' = task => \A u \in Tasks \ {t} : task'[u] = task[u]
        /\ bid' = bid => \A u \in Tasks \ {t} : bid'[u] = bid[u]
        /\ ledger' = ledger => \A u \in Tasks \ {t} : ledger'[u] = ledger[u]
        /\ credit' = credit => \A u \in Tasks \ {t} : credit'[u] = credit[u]
    OBVIOUS
  <1>4. \A h \in Loses : Todo(p, h) /\ Abort(p) /\ RowsSame /\ h # "escrow" => Moves(p, h)
    BY <1>2 DEF Moves
  <1>5. \A h : Todo(p, h) /\ Done(p) /\ Writes(h, t, w, s) => Moves(p, h)
    BY DEF Moves
  <1> HIDE DEF t, w, s
  <1>6. CASE EscrowStmt(p)
    <2>1. Todo(p, "escrow") /\ UNCHANGED <<task, bid, submission, credit, faults>>
      BY <1>6 DEF EscrowStmt
    <2>2. ASSUME ledger' = [ledger EXCEPT ![t].escrow = @ + 1], Done(p)
          PROVE  Moves(p, "escrow")
      <3>1. LedgerWritten("escrow", t) /\ \A u \in Tasks \ {t} : ledger'[u] = ledger[u]
        BY <1>1, <2>2, LedgerWrite
      <3>2. Writes("escrow", t, w, s)
        BY <1>1, <1>3, <2>1, <3>1, Unwritten DEF Writes, Elsewhere
      <3> QED
        BY <1>5, <2>1, <2>2, <3>2
    <2>3. ASSUME ledger' = ledger,
                 job' = [job EXCEPT ![p] = IF task[t].kind = "a2a" THEN Idle
                                           ELSE [job[p] EXCEPT !.plan = <<"undo">>]]
          PROVE  Moves(p, "escrow")
      <3>1. RowsSame
        BY <2>1, <2>3 DEF RowsSame
      <3>2. CASE task[t].kind = "a2a"
        <4>1. Abort(p)
          BY <2>3, <3>2 DEF Abort
        <4> QED
          BY <1>2, <2>1, <3>1, <3>2, <4>1 DEF Moves, Loses, t
      <3>3. CASE task[t].kind # "a2a"
        BY <2>1, <2>3, <3>1, <3>3 DEF Moves, t
      <3> QED
        BY <3>2, <3>3
    <2> QED
      BY <1>6, <2>2, <2>3 DEF EscrowStmt, t
  <1>7. CASE UndoStmt(p)
    <2>1. /\ Todo(p, "undo") /\ Done(p) /\ UNCHANGED <<bid, submission, ledger, credit, faults>>
          /\ task' = IF NoBids(t) THEN [task EXCEPT ![t].status = "deleted"] ELSE task
      BY <1>7 DEF UndoStmt, NoBids, t
    <2>2. CASE NoBids(t)
      <3>1. /\ SetTo(t, "deleted", task[t].executor) /\ task'[t].kind = task[t].kind
            /\ \A u \in Tasks \ {t} : task'[u] = task[u]
        BY <1>1, <2>1, <2>2, TaskWrite DEF TaskStatus
      <3>2. TaskWritten("undo", t, w)
        BY <2>2, <3>1 DEF TaskWritten
      <3>3. Writes("undo", t, w, s)
        BY <1>1, <1>3, <2>1, <3>1, <3>2, Unwritten DEF Writes, Elsewhere
      <3> QED
        BY <1>5, <2>1, <3>3
    <2>3. CASE ~NoBids(t)
      <3>1. TaskWritten("undo", t, w) /\ task' = task
        BY <2>1, <2>3 DEF TaskWritten, SetTo
      <3>2. Writes("undo", t, w, s)
        BY <1>1, <1>3, <2>1, <3>1, Unwritten DEF Writes, Elsewhere
      <3> QED
        BY <1>5, <2>1, <3>2
    <2> QED
      BY <2>2, <2>3
  <1>8. CASE ContextStmt(p)
    <2>1. Todo(p, "context") /\ Done(p) /\ RowsSame
      BY <1>8 DEF ContextStmt, RowsSame
    <2>2. Writes("context", t, w, s)
      BY <1>1, <1>3, <2>1, Unwritten DEF Writes, Elsewhere, RowsSame
    <2> QED
      BY <1>5, <2>1, <2>2
  <1>9. CASE MoneyStmt(p)
    <2>1. PICK h \in {"release", "refund"} :
             /\ Todo(p, h)
             /\ \/ h = "release" /\ ledger' = [ledger EXCEPT ![t].paid = @ + 1]
                \/ h = "refund" /\ ledger' = [ledger EXCEPT ![t].refunded = @ + 1]
      BY <1>9 DEF MoneyStmt, t
    <2>2. Done(p) /\ UNCHANGED <<task, bid, submission, credit, faults>>
      BY <1>9 DEF MoneyStmt
    <2>3. LedgerWritten(h, t) /\ \A u \in Tasks \ {t} : ledger'[u] = ledger[u]
      BY <1>1, <2>1, LedgerWrite
    <2>4. Writes(h, t, w, s)
      BY <1>1, <1>3, <2>2, <2>3, Unwritten DEF Writes, Elsewhere
    <2> QED
      BY <1>5, <2>1, <2>2, <2>4
  <1>10. CASE TaskStmt(p)
    <2>1. PICK h \in DOMAIN TaskWrites :
             /\ Todo(p, h)
             /\ task' = [task EXCEPT
                   ![t].status = TaskWrites[h],
                   ![t].executor = CASE h = "start"  -> w
                                     [] h = "reopen" -> NoWorker
                                     [] OTHER        -> task[t].executor]
             /\ Done(p) /\ UNCHANGED <<bid, submission, ledger, credit, faults>>
      BY <1>10 DEF TaskStmt, t, w
    <2>2. h \in {"cancel", "start", "validate", "complete", "reopen"}
      BY <2>1 DEF TaskWrites
    <2> DEFINE status == TaskWrites[h]
               executor == CASE h = "start"  -> w
                             [] h = "reopen" -> NoWorker
                             [] OTHER        -> task[t].executor
    <2>3. /\ status \in TaskStatus
          /\ status = IF h = "cancel" THEN "cancelled" ELSE IF h = "start" THEN "in_progress"
                      ELSE IF h = "validate" THEN "validating" ELSE IF h = "complete" THEN "completed"
                      ELSE "open"
      BY <2>2 DEF TaskWrites, TaskStatus
    <2>4. /\ executor = IF h = "start" THEN w ELSE IF h = "reopen" THEN NoWorker
                        ELSE task[t].executor
          /\ executor \in Workers \cup {NoWorker}
      BY <1>1, <2>2
    <2>5. task' = [task EXCEPT ![t].status = status, ![t].executor = executor]
      BY <2>1
    <2> HIDE DEF status, executor
    <2>6. /\ SetTo(t, status, executor) /\ task'[t].kind = task[t].kind
          /\ \A u \in Tasks \ {t} : task'[u] = task[u]
      BY <1>1, <2>3, <2>4, <2>5, TaskWrite
    <2>7. TaskWritten(h, t, w)
      BY <2>2, <2>3, <2>4, <2>6 DEF TaskWritten
    <2>8. Writes(h, t, w, s)
      BY <1>1, <1>3, <2>1, <2>2, <2>6, <2>7, Unwritten DEF Writes, Elsewhere
    <2> QED
      BY <1>5, <2>1, <2>8
  <1>11. CASE ReopenStmt(p)
    <2> DEFINE h == "reopenIfInProgress"
    <2>1. /\ Todo(p, h) /\ Done(p) /\ UNCHANGED <<bid, submission, ledger, credit, faults>>
          /\ Is(t, "in_progress") => task' = [task EXCEPT ![t].status = "open",
                                                          ![t].executor = NoWorker]
          /\ ~Is(t, "in_progress") => task' = task
      BY <1>11 DEF ReopenStmt, t
    <2>2. CASE Is(t, "in_progress")
      <3>1. /\ SetTo(t, "open", NoWorker) /\ task'[t].kind = task[t].kind
            /\ \A u \in Tasks \ {t} : task'[u] = task[u]
        BY <1>1, <2>1, <2>2, TaskWrite DEF TaskStatus
      <3>2. TaskWritten(h, t, w)
        BY <2>2, <3>1 DEF TaskWritten
      <3>3. Writes(h, t, w, s)
        BY <1>1, <1>3, <2>1, <3>1, <3>2, Unwritten DEF Writes, Elsewhere
      <3> QED
        BY <1>5, <2>1, <3>3
    <2>3. CASE ~Is(t, "in_progress")
      <3>1. TaskWritten(h, t, w) /\ task' = task
        BY <2>1, <2>3 DEF TaskWritten
      <3>2. Writes(h, t, w, s)
        BY <1>1, <1>3, <2>1, <3>1, Unwritten DEF Writes, Elsewhere
      <3> QED
        BY <1>5, <2>1, <3>2
    <2> QED
      BY <2>2, <2>3
  <1>12. CASE ClaimStmt(p)
    <2>1. /\ Todo(p, "claim") /\ UNCHANGED <<bid, submission, ledger, credit, faults>>
          /\ Is(t, "open") => /\ task' = [task EXCEPT ![t].status = "in_progress",
                                                      ![t].executor = w]
                              /\ Done(p)
          /\ ~Is(t, "open") => task' = task /\ Abort(p)
      BY <1>12 DEF ClaimStmt, Claimable, t, w
    <2>2. CASE Is(t, "open")
      <3>1. /\ SetTo(t, "in_progress", w) /\ task'[t].kind = task[t].kind
            /\ \A u \in Tasks \ {t} : task'[u] = task[u]
        BY <1>1, <2>1, <2>2, TaskWrite DEF TaskStatus
      <3>2. TaskWritten("claim", t, w)
        BY <2>2, <3>1 DEF TaskWritten
      <3>3. Writes("claim", t, w, s)
        BY <1>1, <1>3, <2>1, <3>1, <3>2, Unwritten DEF Writes, Elsewhere
      <3> QED
        BY <1>5, <2>1, <2>2, <3>3
    <2>3. CASE ~Is(t, "open")
      BY <1>4, <2>1, <2>3 DEF Loses, RowsSame
    <2> QED
      BY <2>2, <2>3
  <1>13. CASE InsertBidStmt(p)
    <2>1. Todo(p, "insertBid") /\ UNCHANGED <<task, submission, ledger, credit, faults>>
      BY <1>13 DEF InsertBidStmt
    <2>2. ASSUME bid' = [bid EXCEPT ![t][w] = "pending"], bid[t][w] = "none", Done(p)
          PROVE  Moves(p, "insertBid")
      <3>1. BidsWritten("insertBid", t, w) /\ \A u \in Tasks \ {t} : bid'[u] = bid[u]
        BY <1>1, <2>2, BidWrite
      <3>2. Writes("insertBid", t, w, s)
        BY <1>1, <1>3, <2>1, <3>1, Unwritten DEF Writes, Elsewhere
      <3> QED
        BY <1>5, <2>1, <2>2, <3>2
    <2>3. ASSUME bid' = bid, Abort(p) PROVE Moves(p, "insertBid")
      BY <1>4, <2>1, <2>3 DEF Loses, RowsSame
    <2> QED
      BY <1>13, <2>2, <2>3 DEF InsertBidStmt, t, w
  <1>14. CASE ReadBidStmt(p)
    <2>1. Todo(p, "readBid") /\ RowsSame /\ (Done(p) \/ Abort(p))
      BY <1>14 DEF ReadBidStmt, Reads, RowsSame
    <2>2. Writes("readBid", t, w, s)
      BY <1>1, <1>3, <2>1, Unwritten DEF Writes, Elsewhere, RowsSame
    <2> QED
      BY <1>4, <1>5, <2>1, <2>2 DEF Loses
  <1>15. CASE BidStmt(p)
    <2>1. PICK h \in {"acceptBid", "rejectOthers", "rejectBids"} :
             /\ Todo(p, h)
             /\ \/ h = "acceptBid" /\ bid' = [bid EXCEPT ![t][w] = "accepted"]
                \/ /\ h = "rejectOthers"
                   /\ bid' = [bid EXCEPT ![t] = [v \in Workers |->
                                IF v \in Others(w) /\ bid[t][v] # "none" THEN "rejected"
                                ELSE bid[t][v]]]
                \/ /\ h = "rejectBids"
                   /\ bid' = [bid EXCEPT ![t][w] = IF @ \in {"pending", "accepted"}
                                                   THEN "rejected" ELSE @]
      <3>1. CASE Todo(p, "acceptBid") /\ bid' = [bid EXCEPT ![t][w] = "accepted"]
        BY <3>1
      <3>2. CASE /\ Todo(p, "rejectOthers")
                 /\ bid' = [bid EXCEPT ![t] = [v \in Workers |->
                                IF v \in Others(w) /\ bid[t][v] # "none" THEN "rejected"
                                ELSE bid[t][v]]]
        BY <3>2
      <3>3. CASE /\ Todo(p, "rejectBids")
                 /\ bid' = [bid EXCEPT ![t][w] = IF @ \in {"pending", "accepted"}
                                                 THEN "rejected" ELSE @]
        BY <3>3
      <3> QED
        BY <1>15, <3>1, <3>2, <3>3 DEF BidStmt, t, w
    <2>2. Done(p) /\ UNCHANGED <<task, submission, ledger, credit, faults>>
      BY <1>15 DEF BidStmt
    <2>3. BidsWritten(h, t, w) /\ \A u \in Tasks \ {t} : bid'[u] = bid[u]
      BY <1>1, <2>1, BidWrite
    <2>4. Writes(h, t, w, s)
      BY <1>1, <1>3, <2>1, <2>2, <2>3, Unwritten DEF Writes, Elsewhere
    <2> QED
      BY <1>5, <2>1, <2>2, <2>4
  <1>16. CASE SubStmt(p)
    <2>1. PICK h \in DOMAIN SubWrites :
             /\ Todo(p, h) /\ Done(p)
             /\ submission' = [submission EXCEPT ![s] =
                    [status |-> SubWrites[h], task |-> t, worker |-> w]]
             /\ UNCHANGED <<task, bid, ledger, credit, faults>>
      BY <1>16 DEF SubStmt, t, w, s
    <2>2. h \in {"insertApproved", "insertValidating", "approve", "reject"}
      BY <2>1 DEF SubWrites
    <2>3. SubsWritten(h, t, w, s)
      BY <2>1 DEF SubsWritten
    <2>4. Writes(h, t, w, s)
      BY <1>1, <1>3, <2>1, <2>2, <2>3, Unwritten DEF Writes, Elsewhere
    <2> QED
      BY <1>5, <2>1, <2>4
  <1>17. CASE CreditStmt(p)
    <2>1. PICK h \in DOMAIN CreditWrites :
             /\ Todo(p, h) /\ Done(p)
             /\ credit' = [credit EXCEPT ![t][CreditWrites[h]] = @ + 1]
             /\ UNCHANGED <<task, bid, submission, ledger, faults>>
      BY <1>17 DEF CreditStmt, t
    <2>2. h \in {"countCompleted", "countCreated", "reward", "punish", "rate"}
      BY <2>1 DEF CreditWrites
    <2>3. CreditWritten(h, t) /\ \A u \in Tasks \ {t} : credit'[u] = credit[u]
      BY <1>1, <2>1, CreditWrite
    <2>4. Writes(h, t, w, s)
      BY <1>1, <1>3, <2>1, <2>2, <2>3, Unwritten DEF Writes, Elsewhere
    <2> QED
      BY <1>5, <2>1, <2>4
  <1>18. CASE RatingStmt(p)
    <2>1. Todo(p, "insertRating") /\ RowsSame /\ (Done(p) \/ Abort(p))
      BY <1>18 DEF RatingStmt, RowsSame
    <2>2. Writes("insertRating", t, w, s)
      BY <1>1, <1>3, <2>1, Unwritten DEF Writes, Elsewhere, RowsSame
    <2> QED
      BY <1>4, <1>5, <2>1, <2>2 DEF Loses
  <1> QED
    BY <1>6, <1>7, <1>8, <1>9, <1>10, <1>11, <1>12, <1>13, <1>14, <1>15, <1>16, <1>17, <1>18 DEF Step

(***************************************************************************)
(* How a write of a submission moves it between the sets of its task.      *)
(***************************************************************************)
SubsMoved(h, t, w, s) ==
    /\ \A x \in {"validating", "approved", "rejected"} :
          /\ SubsOf(t, x)' = IF SubWrites[h] = x THEN SubsOf(t, x) \cup {s}
                             ELSE SubsOf(t, x) \ {s}
          /\ \A u \in Tasks \ {t} : SubsOf(u, x)' = SubsOf(u, x) \ {s}
    /\ submission'[s] = [status |-> SubWrites[h], task |-> t, worker |-> w]
    /\ \A y \in Subs \ {s} : submission'[y] = submission[y]

LEMMA SubsMove ==
    ASSUME TypeOK, NEW t \in Tasks, NEW w, NEW s \in Subs, NEW h \in DOMAIN SubWrites,
           SubsWritten(h, t, w, s)
    PROVE  SubsMoved(h, t, w, s)
  <1> DEFINE row == [status |-> SubWrites[h], task |-> t, worker |-> w]
  <1>1. /\ submission' = [submission EXCEPT ![s] = row] /\ row.status = SubWrites[h]
        /\ row.task = t
    BY DEF SubsWritten
  <1>2. row = [status |-> SubWrites[h], task |-> t, worker |-> w]
    OBVIOUS
  <1> HIDE DEF row
  <1>3. submission'[s] = row /\ \A y \in Subs \ {s} : submission'[y] = submission[y]
    BY <1>1 DEF TypeOK
  <1>4. ASSUME NEW x, NEW u \in Tasks
        PROVE  SubsOf(u, x)' = IF u = t /\ SubWrites[h] = x THEN SubsOf(u, x) \cup {s}
                               ELSE SubsOf(u, x) \ {s}
    <2>1. \A y \in Subs \ {s} : y \in SubsOf(u, x)' <=> y \in SubsOf(u, x)
      BY <1>3 DEF SubsOf
    <2>2. s \in SubsOf(u, x)' <=> u = t /\ SubWrites[h] = x
      BY <1>1, <1>3 DEF SubsOf
    <2>3. SubsOf(u, x) \subseteq Subs /\ SubsOf(u, x)' \subseteq Subs
      BY DEF SubsOf
    <2> QED
      BY <2>1, <2>2, <2>3
  <1> QED
    BY <1>2, <1>3, <1>4 DEF SubsMoved

LEMMA Counts ==
    ASSUME NEW A \in SUBSET Subs
    PROVE  /\ Cardinality(A) \in Nat /\ (A = {} <=> Cardinality(A) = 0)
           /\ \A s : s \in A => Cardinality(A \ {s}) = Cardinality(A) - 1 /\ Cardinality(A) >= 1
           /\ \A s : s \notin A => A \ {s} = A /\ Cardinality(A \cup {s}) = Cardinality(A) + 1
  <1>1. IsFiniteSet(A) /\ Cardinality(A) \in Nat
    BY FS_Subset, FS_CardinalityType
  <1>2. A = {} <=> Cardinality(A) = 0
    BY <1>1, FS_EmptySet
  <1>3. ASSUME NEW s, s \in A PROVE Cardinality(A \ {s}) = Cardinality(A) - 1
    <2>1. Cardinality(A \ {s}) = IF s \in A THEN Cardinality(A) - 1 ELSE Cardinality(A)
      BY <1>1, FS_RemoveElement, Zenon
    <2> QED
      BY <1>3, <2>1
  <1>4. ASSUME NEW s, s \notin A PROVE A \ {s} = A /\ Cardinality(A \cup {s}) = Cardinality(A) + 1
    <2>1. Cardinality(A \cup {s}) = IF s \in A THEN Cardinality(A) ELSE Cardinality(A) + 1
      BY <1>1, FS_AddElement, Zenon
    <2> QED
      BY <1>4, <2>1
  <1>5. ASSUME NEW s, s \in A PROVE Cardinality(A) >= 1
    BY <1>1, <1>2, <1>5
  <1> QED
    BY <1>1, <1>2, <1>3, <1>4, <1>5

\* A submission handler finds its submission as it read it.
Fresh(h, t, s) ==
    /\ h \in {"insertApproved", "insertValidating"} => submission[s].status = "none"
    /\ h \in {"approve", "reject"} => s \in SubsOf(t, "validating")

LEMMA SubsCounted ==
    ASSUME TypeOK, NEW t \in Tasks, NEW w, NEW s \in Subs, NEW h \in DOMAIN SubWrites,
           SubsWritten(h, t, w, s), Fresh(h, t, s)
    PROVE  /\ InReview(t)' = InReview(t) + AsMany(h = "insertValidating")
                                - AsMany(h \in {"approve", "reject"})
           /\ Rejections(t)' = Rejections(t) + AsMany(h = "reject")
           /\ \A u \in Tasks \ {t}, x \in {"validating", "approved", "rejected"} :
                  SubsOf(u, x)' = SubsOf(u, x)
  <1>1. SubsMoved(h, t, w, s)
    BY SubsMove
  <1>2. h \in {"insertApproved", "insertValidating", "approve", "reject"}
    BY DEF SubWrites
  <1>3. /\ SubWrites[h] = "validating" <=> h = "insertValidating"
        /\ SubWrites[h] = "rejected" <=> h = "reject"
    BY <1>2 DEF SubWrites
  <1> DEFINE V == SubsOf(t, "validating")
             R == SubsOf(t, "rejected")
  <1>4. /\ V \in SUBSET Subs /\ R \in SUBSET Subs /\ s \notin R
        /\ s \in V <=> h \in {"approve", "reject"}
        /\ \A u \in Tasks \ {t}, x \in {"validating", "approved", "rejected"} : s \notin SubsOf(u, x)
    BY <1>2 DEF SubsOf, Fresh
  <1>5. /\ V' = IF h = "insertValidating" THEN V \cup {s} ELSE V \ {s}
        /\ R' = IF h = "reject" THEN R \cup {s} ELSE R \ {s}
    BY <1>1, <1>3 DEF SubsMoved
  <1>6. InReview(t) = Cardinality(V) /\ InReview(t)' = Cardinality(V')
        /\ Rejections(t) = Cardinality(R) /\ Rejections(t)' = Cardinality(R')
    BY DEF InReview, Rejections
  <1>7. ASSUME NEW u \in Tasks \ {t}, NEW x \in {"validating", "approved", "rejected"}
        PROVE  SubsOf(u, x)' = SubsOf(u, x)
    <2>1. s \notin SubsOf(u, x) /\ SubsOf(u, x)' = SubsOf(u, x) \ {s}
      BY <1>1, <1>4 DEF SubsMoved
    <2>2. SubsOf(u, x) \ {s} = SubsOf(u, x)
      BY <2>1
    <2> QED
      BY <2>1, <2>2
  <1> HIDE DEF V, R
  <1>8. Cardinality(V) \in Nat /\ Cardinality(R) \in Nat
    BY <1>4, Counts
  <1>11. /\ h \notin {"approve", "reject"} => V \ {s} = V
         /\ R \ {s} = R
    BY <1>4
  <1>9. Cardinality(V') = Cardinality(V) + AsMany(h = "insertValidating")
                            - AsMany(h \in {"approve", "reject"})
    <2>1. CASE h = "insertValidating"
      BY <1>4, <1>5, <1>8, <2>1, Counts DEF AsMany
    <2>2. CASE h \in {"approve", "reject"}
      BY <1>4, <1>5, <1>8, <2>2, Counts DEF AsMany
    <2>3. CASE h = "insertApproved"
      <3>1. h # "insertValidating" /\ h \notin {"approve", "reject"}
        BY <2>3
      <3>2. V' = V
        BY <1>5, <1>11, <3>1
      <3> QED
        BY <1>8, <3>1, <3>2 DEF AsMany
    <2> QED
      BY <1>2, <2>1, <2>2, <2>3
  <1>10. Cardinality(R') = Cardinality(R) + AsMany(h = "reject")
    <2>1. CASE h = "reject"
      BY <1>4, <1>5, <1>8, <2>1, Counts DEF AsMany
    <2>2. CASE h # "reject"
      BY <1>5, <1>8, <1>11, <2>2 DEF AsMany
    <2> QED
      BY <2>1, <2>2
  <1> QED
    BY <1>6, <1>7, <1>9, <1>10

(***************************************************************************)
(* Every statement keeps the balance.                                      *)
(***************************************************************************)
LEMMA CountTypes ==
    ASSUME TypeOK, NEW u \in Tasks
    PROVE  /\ InReview(u) \in Nat /\ Rejections(u) \in Nat /\ Live(u) \in {0, 1} /\ faults \in Nat
           /\ ledger[u].paid \in Nat /\ ledger[u].refunded \in Nat
           /\ Settled(u) = ledger[u].paid + ledger[u].refunded
  <1>1. SubsOf(u, "validating") \in SUBSET Subs /\ SubsOf(u, "rejected") \in SUBSET Subs
    BY DEF SubsOf
  <1>2. InReview(u) \in Nat /\ Rejections(u) \in Nat
    BY <1>1, Counts DEF InReview, Rejections
  <1> QED
    BY <1>2, RowTypes DEF Live, Settled, TypeOK

LEMMA Rebalance ==
    ASSUME TypeOK, TypeOK', NEW t \in Tasks, faults' = faults,
           NEW a \in Int, NEW b \in Int, NEW c \in Int, NEW d \in Int, Balance(t, a, b),
           NEW paid \in Int, NEW refunded \in Int, NEW review \in Int, NEW rejected \in Int,
           NEW live \in Int,
           ledger'[t].paid = ledger[t].paid + paid,
           ledger'[t].refunded = ledger[t].refunded + refunded,
           InReview(t)' = InReview(t) + review, Rejections(t)' = Rejections(t) + rejected,
           Live(t)' <= Live(t) + live,
           a + paid + review + live <= c,
           b + paid + refunded + review + live - rejected <= d
    PROVE  Balance(t, c, d)'
  <1>1. /\ InReview(t) \in Nat /\ Rejections(t) \in Nat /\ Live(t) \in {0, 1} /\ faults \in Nat
        /\ ledger[t].paid \in Nat /\ ledger[t].refunded \in Nat
        /\ Settled(t) = ledger[t].paid + ledger[t].refunded
    BY CountTypes
  <1>2. /\ Live(t)' \in {0, 1} /\ Settled(t)' = ledger'[t].paid + ledger'[t].refunded
    BY DEF Live, Settled
  <1> QED
    BY <1>1, <1>2 DEF Balance

LEMMA AheadEnds ==
    ASSUME NEW op \in AllOps, NEW k \in 1..6, Ends1(op, k)
    PROVE  PaidAhead(op, k + 1) = 0 /\ SettledAhead(op, k + 1) = 0
  BY DEF Ends1, PaidAhead, SettledAhead

LEMMA AheadTypes ==
    ASSUME NEW op, NEW k
    PROVE  PaidAhead(op, k) \in Int /\ SettledAhead(op, k) \in Int
  BY DEF PaidAhead, SettledAhead

\* A statement that writes no submission leaves what is counted of them.
LEMMA SubsUnwritten ==
    ASSUME NEW t, NEW w, NEW s, NEW h, h \notin DOMAIN SubWrites, SubsWritten(h, t, w, s)
    PROVE  /\ submission' = submission
           /\ \A u \in Tasks : /\ InReview(u)' = InReview(u) + 0
                               /\ Rejections(u)' = Rejections(u) + 0
                               /\ \A x : SubsOf(u, x)' = SubsOf(u, x)
  <1>1. submission' = submission
    BY DEF SubsWritten
  <1>2. ASSUME NEW u \in Tasks, NEW x PROVE SubsOf(u, x)' = SubsOf(u, x)
    BY <1>1 DEF SubsOf
  <1>3. ASSUME NEW u \in Tasks
        PROVE  InReview(u)' = InReview(u) + 0 /\ Rejections(u)' = Rejections(u) + 0
    <2>1. SubsOf(u, "validating") \in SUBSET Subs /\ SubsOf(u, "rejected") \in SUBSET Subs
      BY DEF SubsOf
    <2> QED
      BY <1>2, <2>1, Counts DEF InReview, Rejections
  <1> QED
    BY <1>1, <1>2, <1>3

LEMMA KeepsBalance ==
    ASSUME TypeOK, TypeOK', NEW op \in AllOps, NEW k \in 1..6, NEW h, Nth(op, k, h),
           NEW t \in Tasks, NEW w, NEW s, Writes(h, t, w, s), Note1(op, k, t, w, s)
    PROVE  Balance(t, PaidAhead(op, k + 1), SettledAhead(op, k + 1))'
  <1> DEFINE a == PaidAhead(op, k)
             b == SettledAhead(op, k)
             c == PaidAhead(op, k + 1)
             d == SettledAhead(op, k + 1)
  <1>1. a \in Int /\ b \in Int /\ c \in Int /\ d \in Int
    BY AheadTypes
  <1>2. /\ Balance(t, a, b) /\ Seen(op, k, t, w, s) /\ faults' = faults
        /\ TaskWritten(h, t, w) /\ LedgerWritten(h, t) /\ SubsWritten(h, t, w, s)
    BY DEF Note1, Writes
  <1>3. DOMAIN SubWrites = {"insertApproved", "insertValidating", "approve", "reject"}
    BY DEF SubWrites
  <1>4. Live(t) \in {0, 1} /\ Live(t)' \in {0, 1}
    BY DEF Live
  <1>5. ledger[t].paid \in Nat /\ ledger[t].refunded \in Nat
    BY CountTypes
  <1>6. h \in {"release", "refund"} \/ (/\ ledger'[t].paid = ledger[t].paid + 0
                                       /\ ledger'[t].refunded = ledger[t].refunded + 0)
    BY <1>2 DEF LedgerWritten, AsMany
  <1>7. h \notin DOMAIN SubWrites =>
            InReview(t)' = InReview(t) + 0 /\ Rejections(t)' = Rejections(t) + 0
    BY <1>2, SubsUnwritten
  <1>8. h \notin {"cancel", "start", "validate", "complete", "reopen", "claim", "undo",
                  "reopenIfInProgress"} => Live(t)' <= Live(t) + 0
    BY <1>2, <1>4 DEF TaskWritten, Live
  <1>9. Is(t, "open") \/ Is(t, "in_progress") => Live(t) = 1
    BY DEF Is, Live
  <1>10. CASE h = "release"
    <2>1. a = 0 - 1 /\ b = 0 - 1 /\ c = 0 /\ d = 0
      BY <1>10 DEF Nth, PaidAhead, SettledAhead
    <2>2. ledger'[t].paid = ledger[t].paid + 1 /\ ledger'[t].refunded = ledger[t].refunded + 0
      BY <1>2, <1>5, <1>10 DEF LedgerWritten, AsMany
    <2> HIDE DEF a, b, c, d
    <2> QED
      BY <1>1, <1>2, <1>3, <1>7, <1>8, <1>10, <2>1, <2>2, Rebalance DEF c, d
  <1>11. CASE h = "refund"
    <2>1. /\ a = IF op = "a2aCancel" THEN 0 - 1 ELSE 0
          /\ b = IF op = "delete" THEN 0 ELSE 0 - 1
          /\ c = 0
          /\ d = IF op = "delete" THEN 1 ELSE 0
      BY <1>11 DEF Nth, PaidAhead, SettledAhead
    <2>2. ledger'[t].paid = ledger[t].paid + 0 /\ ledger'[t].refunded = ledger[t].refunded + 1
      BY <1>2, <1>5, <1>11 DEF LedgerWritten, AsMany
    <2> HIDE DEF a, b, c, d
    <2>3. a + 0 + 0 + 0 <= c /\ b + 0 + 1 + 0 + 0 - 0 <= d
      BY <2>1
    <2> QED
      BY <1>1, <1>2, <1>3, <1>7, <1>8, <1>11, <2>2, <2>3, Rebalance DEF c, d
  <1>12. CASE h \in DOMAIN SubWrites
    <2>1. s \in Subs /\ Fresh(h, t, s)
      BY <1>2, <1>3, <1>12 DEF Nth, Seen, Fresh, SubsOf
    <2>2. /\ InReview(t)' = InReview(t) + (AsMany(h = "insertValidating")
                                - AsMany(h \in {"approve", "reject"}))
          /\ Rejections(t)' = Rejections(t) + AsMany(h = "reject")
      BY <1>12, <2>1, SubsCounted, CountTypes, <1>2 DEF AsMany
    <2>3. /\ c = a + (AsMany(h = "insertValidating") - AsMany(h \in {"approve", "reject"}))
          /\ d = b + (AsMany(h = "insertValidating") - AsMany(h \in {"approve", "reject"}))
                   - AsMany(h = "reject")
      BY <1>3, <1>12 DEF Nth, PaidAhead, SettledAhead, AsMany
    <2>4. Live(t)' <= Live(t) + 0
      BY <1>3, <1>8, <1>12
    <2>5. h \notin {"release", "refund"}
      BY <1>3, <1>12
    <2> DEFINE x == AsMany(h = "insertValidating") - AsMany(h \in {"approve", "reject"})
               y == AsMany(h = "reject")
    <2>6. x \in Int /\ y \in Int
      BY DEF AsMany
    <2> HIDE DEF a, b, c, d, x, y
    <2>7. /\ c = a + x /\ d = b + x - y
          /\ InReview(t)' = InReview(t) + x /\ Rejections(t)' = Rejections(t) + y
      BY <2>2, <2>3 DEF x, y
    <2>8. a + 0 + x + 0 <= c /\ b + 0 + 0 + x + 0 - y <= d
      BY <1>1, <2>6, <2>7
    <2>9. /\ ledger'[t].paid = ledger[t].paid + 0 /\ ledger'[t].refunded = ledger[t].refunded + 0
          /\ InReview(t)' = InReview(t) + x /\ Rejections(t)' = Rejections(t) + y
          /\ Balance(t, a, b) /\ faults' = faults
      BY <1>2, <1>6, <2>5, <2>7
    <2>10. Balance(t, c, d)'
      BY <1>1, <2>4, <2>6, <2>8, <2>9, Rebalance
    <2> QED
      BY <2>10 DEF c, d
  <1>13. CASE h \in {"cancel", "complete", "validate", "reopen", "start", "claim", "undo",
                     "reopenIfInProgress"}
    <2> DEFINE l == IF h = "cancel" \/ h = "validate" \/ (h = "complete" /\ op = "submit") THEN 0 - 1
                    ELSE IF h = "reopen" THEN 1 ELSE 0
    <2>1. a + l <= c /\ b + l <= d /\ l \in Int
      BY <1>13 DEF Nth, PaidAhead, SettledAhead
    <2>2. h \notin DOMAIN SubWrites /\ h \notin {"release", "refund"}
      BY <1>3, <1>13
    <2>3. Live(t)' <= Live(t) + l
      <3>1. CASE h \in {"cancel", "validate", "start"}
        <4>1. Is(t, "open") \/ Is(t, "in_progress")
          BY <1>2, <3>1 DEF Nth, Seen
        <4>2. h # "start" => Live(t)' = 0
          BY <1>2, <3>1 DEF TaskWritten, SetTo, Live
        <4>3. l = IF h = "start" THEN 0 ELSE 0 - 1
          BY <3>1
        <4> QED
          BY <1>4, <1>9, <3>1, <4>1, <4>2, <4>3
      <3>2. CASE h = "complete"
        <4>1. op = "submit" => Live(t) = 1
          BY <1>2, <1>9, <3>2 DEF Nth, Seen
        <4>2. Live(t)' = 0
          BY <1>2, <3>2 DEF TaskWritten, SetTo, Live
        <4>3. l = IF op = "submit" THEN 0 - 1 ELSE 0
          BY <3>2
        <4> QED
          BY <1>4, <4>1, <4>2, <4>3
      <3>3. CASE h = "reopen"
        BY <1>4, <3>3
      <3>4. CASE h = "claim"
        BY <1>2, <1>4, <1>9, <3>4 DEF TaskWritten
      <3>5. CASE h \in {"undo", "reopenIfInProgress"}
        <4>1. Live(t)' <= Live(t)
          BY <1>2, <1>4, <3>5 DEF TaskWritten, SetTo, Live, Is
        <4> QED
          BY <1>4, <3>5, <4>1
      <3> QED
        BY <1>13, <3>1, <3>2, <3>3, <3>4, <3>5
    <2> HIDE DEF a, b, c, d, l
    <2>4. a + 0 + 0 + l <= c /\ b + 0 + 0 + 0 + l - 0 <= d
      BY <1>1, <2>1
    <2> QED
      BY <1>1, <1>2, <1>6, <1>7, <2>1, <2>2, <2>3, <2>4, Rebalance DEF c, d
  <1>14. CASE h \notin DOMAIN SubWrites \cup {"release", "refund", "cancel", "complete", "validate",
                     "reopen", "start", "claim", "undo", "reopenIfInProgress"}
    <2>1. a <= c /\ b <= d
      BY <1>3, <1>14 DEF Nth, PaidAhead, SettledAhead
    <2>2. Live(t)' <= Live(t) + 0
      BY <1>8, <1>14
    <2> HIDE DEF a, b, c, d
    <2>3. a + 0 + 0 + 0 <= c /\ b + 0 + 0 + 0 + 0 - 0 <= d
      BY <1>1, <2>1
    <2> QED
      BY <1>1, <1>2, <1>6, <1>7, <1>14, <2>2, <2>3, Rebalance DEF c, d
  <1> QED
    BY <1>3, <1>10, <1>11, <1>12, <1>13, <1>14

LEMMA KeepsSeen ==
    ASSUME TypeOK, NEW op \in AllOps, NEW k \in 1..6, NEW h, Nth(op, k, h), ~Ends1(op, k),
           NEW t \in Tasks, NEW w, NEW s, Writes(h, t, w, s), Seen(op, k, t, w, s)
    PROVE  Seen(op, k + 1, t, w, s)'
  <1>1. TaskWritten(h, t, w) /\ SubsWritten(h, t, w, s)
    BY DEF Writes
  <1>2. CASE op \in {"delete", "accept"}
    <2>1. task'[t] = task[t] /\ Is(t, "open")
      BY <1>1, <1>2 DEF Nth, Ends1, TaskWritten, Seen
    <2> QED
      BY <1>2, <2>1 DEF Seen, Is
  <1>3. CASE op \in {"submit", "review"} /\ k = 1
    <2>1. /\ h = IF op = "submit" THEN "insertApproved" ELSE "insertValidating"
          /\ h \in DOMAIN SubWrites
      BY <1>3 DEF Nth, SubWrites
    <2>2. Is(t, "in_progress") /\ s \in Subs /\ w \in Workers /\ task[t].executor = w
      BY <1>3 DEF Seen
    <2>3. task'[t] = task[t]
      BY <1>1, <2>1 DEF TaskWritten
    <2>4. op = "review" => s \in SubsOf(t, "validating")'
      <3> SUFFICES ASSUME op = "review" PROVE s \in SubsOf(t, "validating")'
        OBVIOUS
      <3>1. SubWrites[h] = "validating"
        BY <2>1 DEF SubWrites
      <3>2. SubsMoved(h, t, w, s)
        BY <1>1, <2>1, <2>2, SubsMove
      <3> QED
        BY <3>1, <3>2 DEF SubsMoved
    <2> QED
      BY <1>3, <2>2, <2>3, <2>4 DEF Seen, Is
  <1>4. CASE op \notin {"delete", "accept"} /\ ~(op \in {"submit", "review"} /\ k = 1)
    BY <1>4 DEF Seen
  <1> QED
    BY <1>2, <1>3, <1>4

(***************************************************************************)
(* And, as long as nothing failed, what it finds it leaves sound.          *)
(***************************************************************************)
\* From which status to which a statement brings its task.
Turn(t, from, to) == Is(t, from) /\ task'[t].status = to

LEMMA Turns ==
    ASSUME NEW op \in AllOps, NEW k \in 1..6, NEW h, Nth(op, k, h), NEW t \in Tasks, NEW w, NEW s,
           TaskWritten(h, t, w), Seen(op, k, t, w, s), Did(op, k, t, w, s)
    PROVE  /\ h = "cancel" => Turn(t, "open", "cancelled")
           /\ h \in {"start", "claim"} => Turn(t, "open", "in_progress")
           /\ h = "validate" => Turn(t, "in_progress", "validating")
           /\ h = "complete" /\ op = "submit" => Turn(t, "in_progress", "completed")
           /\ h = "complete" /\ op # "submit" => Turn(t, "validating", "completed")
           /\ h = "reopen" => Turn(t, "validating", "open")
           /\ h = "undo" => Turn(t, "open", "deleted")
           /\ h = "reopenIfInProgress" => Turn(t, "in_progress", "open")
           /\ h \notin {"cancel", "start", "claim", "validate", "complete", "reopen", "undo",
                        "reopenIfInProgress"} => task'[t] = task[t]
  <1>1. CASE h = "cancel"
    BY <1>1 DEF Nth, Seen, TaskWritten, SetTo, Turn
  <1>2. CASE h \in {"start", "claim"}
    BY <1>2 DEF Nth, Seen, TaskWritten, SetTo, Turn
  <1>3. CASE h = "validate"
    BY <1>3 DEF Nth, Seen, TaskWritten, SetTo, Turn
  <1>4. CASE h = "complete"
    BY <1>4 DEF Nth, Seen, Did, TaskWritten, SetTo, Turn
  <1>5. CASE h = "reopen"
    BY <1>5 DEF Nth, Did, TaskWritten, SetTo, Turn
  <1>6. CASE h = "undo"
    BY <1>6 DEF Nth, Did, Creating, TaskWritten, SetTo, Turn
  <1>7. CASE h = "reopenIfInProgress"
    BY <1>7 DEF Nth, Did, TaskWritten, SetTo, Turn
  <1>8. CASE h \notin {"cancel", "start", "claim", "validate", "complete", "reopen", "undo",
                      "reopenIfInProgress"}
    BY <1>8 DEF TaskWritten
  <1> QED
    BY <1>1, <1>2, <1>3, <1>4, <1>5, <1>6, <1>7, <1>8

\* What a completion at its k-th statement has not written yet of its first n, and what is
\* refunded early and late.
Late(op, k, n) == AsMany(op \in {"submit", "approve"} /\ k \in 3..n)
Early(op, k) == AsMany(op = "delete" /\ k = 2)
Owing(op, k) == AsMany((op = "a2aCancel" /\ k = 2) \/ (op = "reject" /\ k \in 2..4))
Mild(op, k) == AsMany(op = "reject" /\ k \in {2, 3})

LEMMA Dues ==
    ASSUME NEW op \in AllOps, NEW k \in 1..6, NEW h, Nth(op, k, h)
    PROVE  /\ AsMany(h = "complete") - Late(op, k + 1, 3) = AsMany(h = "release") - Late(op, k, 3)
           /\ AsMany(h = "complete") - Late(op, k + 1, 4)
                 = AsMany(h = "countCompleted") - Late(op, k, 4)
           /\ AsMany(h = "complete") - Late(op, k + 1, 5)
                 = AsMany(h = "countCreated") - Late(op, k, 5)
           /\ AsMany(h = "complete") - Late(op, k + 1, 6) = AsMany(h = "reward") - Late(op, k, 6)
           /\ AsMany(h = "cancel") + AsMany(h = "reject") + Early(op, k + 1) - Owing(op, k + 1)
                 = AsMany(h = "refund") + Early(op, k) - Owing(op, k)
           /\ AsMany(h = "reject") - Mild(op, k + 1) <= AsMany(h = "punish") - Mild(op, k)
  <1>1. CASE op \in {"submit", "approve"}
    <2>1. CASE k = 1
      BY <1>1, <2>1 DEF Nth, Late, Early, Owing, Mild, AsMany
    <2>2. CASE k = 2
      BY <1>1, <2>2 DEF Nth, Late, Early, Owing, Mild, AsMany
    <2>3. CASE k = 3
      BY <1>1, <2>3 DEF Nth, Late, Early, Owing, Mild, AsMany
    <2>4. CASE k = 4
      BY <1>1, <2>4 DEF Nth, Late, Early, Owing, Mild, AsMany
    <2>5. CASE k = 5
      BY <1>1, <2>5 DEF Nth, Late, Early, Owing, Mild, AsMany
    <2>6. CASE k = 6
      BY <1>1, <2>6 DEF Nth, Late, Early, Owing, Mild, AsMany
    <2> QED
      BY <2>1, <2>2, <2>3, <2>4, <2>5, <2>6
  <1>2. CASE op = "reject"
    BY <1>2 DEF Nth, Late, Early, Owing, Mild, AsMany
  <1>3. CASE op \in {"delete", "a2aCancel"}
    BY <1>3 DEF Nth, Late, Early, Owing, Mild, AsMany
  <1>4. CASE op \notin {"submit", "approve", "reject", "delete", "a2aCancel"}
    BY <1>4 DEF Nth, Late, Early, Owing, Mild, AsMany
  <1> QED
    BY <1>1, <1>2, <1>3, <1>4

LEMMA KeepsBooks ==
    ASSUME TypeOK, TypeOK', NEW op \in AllOps, NEW k \in 1..6, NEW h, Nth(op, k, h),
           NEW t \in Tasks, NEW w, NEW s, Writes(h, t, w, s), Seen(op, k, t, w, s),
           Did(op, k, t, w, s), Books(t, op, k)
    PROVE  Books(t, op, k + 1)'
  <1> DEFINE R == Rejections(t)
             done == AsMany(Is(t, "completed"))
             gone == AsMany(Is(t, "cancelled"))
  <1>1. /\ TaskWritten(h, t, w) /\ LedgerWritten(h, t) /\ CreditWritten(h, t)
        /\ SubsWritten(h, t, w, s)
    BY DEF Writes
  <1>2. DOMAIN SubWrites = {"insertApproved", "insertValidating", "approve", "reject"}
    BY DEF SubWrites
  <1>3. R \in Nat /\ R' = R + AsMany(h = "reject")
    <2>1. R \in Nat
      BY CountTypes
    <2>2. CASE h \in DOMAIN SubWrites
      <3>1. s \in Subs /\ Fresh(h, t, s)
        BY <1>2, <2>2 DEF Nth, Seen, Fresh, SubsOf
      <3> QED
        BY <1>1, <2>1, <2>2, <3>1, SubsCounted
    <2>3. CASE h \notin DOMAIN SubWrites
      <3>1. h # "reject" /\ R' = R + 0
        BY <1>1, <1>2, <2>3, SubsUnwritten
      <3> QED
        BY <2>1, <3>1 DEF AsMany
    <2> QED
      BY <2>1, <2>2, <2>3
  <1>4. done' = IF h = "complete" THEN 1 ELSE done
    BY <1>1, Turns DEF Turn, Is, AsMany
  <1>5. gone' = IF h = "cancel" THEN 1 ELSE gone
    BY <1>1, Turns DEF Turn, Is, AsMany
  <1>6. /\ h = "complete" => done = 0
        /\ h = "cancel" => gone = 0
        /\ done \in {0, 1} /\ gone \in {0, 1}
    BY <1>1, Turns DEF Turn, Is, AsMany
  <1>7. /\ ledger[t].paid = done - Late(op, k, 3)
        /\ credit[t]["completed"] = done - Late(op, k, 4)
        /\ credit[t]["created"] = done - Late(op, k, 5)
        /\ credit[t]["rewarded"] = done - Late(op, k, 6)
        /\ ledger[t].refunded = gone + R + Early(op, k) - Owing(op, k)
        /\ credit[t]["punished"] >= R - Mild(op, k)
    BY DEF Books, Late, Early, Owing, Mild
  <1>8. \A i \in {k, k + 1} : /\ \A n \in {3, 4, 5, 6} : Late(op, i, n) \in Int
                              /\ Early(op, i) \in Int /\ Owing(op, i) \in Int /\ Mild(op, i) \in Int
    BY DEF Late, Early, Owing, Mild, AsMany
  <1>9. done' = done + AsMany(h = "complete") /\ gone' = gone + AsMany(h = "cancel")
    BY <1>4, <1>5, <1>6 DEF AsMany
  <1>10. \A b : AsMany(b) \in Int
    BY DEF AsMany
  <1>11. credit[t]["punished"] \in Nat
    BY RowTypes
  <1> DEFINE Books2 ==
         /\ ledger'[t].paid = done' - Late(op, k + 1, 3)
         /\ credit'[t]["completed"] = done' - Late(op, k + 1, 4)
         /\ credit'[t]["created"] = done' - Late(op, k + 1, 5)
         /\ credit'[t]["rewarded"] = done' - Late(op, k + 1, 6)
         /\ ledger'[t].refunded = gone' + R' + Early(op, k + 1) - Owing(op, k + 1)
         /\ credit'[t]["punished"] >= R' - Mild(op, k + 1)
  <1>12. Books2
    <2> HIDE DEF R, done, gone
    <2> DEFINE co == AsMany(h = "complete")
               ca == AsMany(h = "cancel")
               rj == AsMany(h = "reject")
    <2>1. /\ ledger'[t].paid = ledger[t].paid + AsMany(h = "release")
          /\ ledger'[t].refunded = ledger[t].refunded + AsMany(h = "refund")
          /\ credit'[t]["completed"] = credit[t]["completed"] + AsMany(h = "countCompleted")
          /\ credit'[t]["created"] = credit[t]["created"] + AsMany(h = "countCreated")
          /\ credit'[t]["rewarded"] = credit[t]["rewarded"] + AsMany(h = "reward")
          /\ credit'[t]["punished"] = credit[t]["punished"] + AsMany(h = "punish")
      BY <1>1 DEF LedgerWritten, CreditWritten
    <2>2. /\ co - Late(op, k + 1, 3) = AsMany(h = "release") - Late(op, k, 3)
          /\ co - Late(op, k + 1, 4) = AsMany(h = "countCompleted") - Late(op, k, 4)
          /\ co - Late(op, k + 1, 5) = AsMany(h = "countCreated") - Late(op, k, 5)
          /\ co - Late(op, k + 1, 6) = AsMany(h = "reward") - Late(op, k, 6)
          /\ ca + rj + Early(op, k + 1) - Owing(op, k + 1)
                = AsMany(h = "refund") + Early(op, k) - Owing(op, k)
          /\ rj - Mild(op, k + 1) <= AsMany(h = "punish") - Mild(op, k)
      BY Dues
    <2>3. co \in Int /\ ca \in Int /\ rj \in Int
      BY <1>10
    <2>4. done' = done + co /\ gone' = gone + ca /\ R' = R + rj /\ R \in Nat
      BY <1>3, <1>9
    <2>5. done \in {0, 1} /\ gone \in {0, 1}
      BY <1>6
    <2> HIDE DEF co, ca, rj
    <2>6. /\ ledger'[t].paid = done' - Late(op, k + 1, 3)
          /\ credit'[t]["completed"] = done' - Late(op, k + 1, 4)
          /\ credit'[t]["created"] = done' - Late(op, k + 1, 5)
          /\ credit'[t]["rewarded"] = done' - Late(op, k + 1, 6)
      BY <1>7, <1>8, <1>10, <2>1, <2>2, <2>3, <2>4, <2>5
    <2>7. ledger'[t].refunded = gone' + R' + Early(op, k + 1) - Owing(op, k + 1)
      BY <1>7, <1>8, <1>10, <2>1, <2>2, <2>3, <2>4, <2>5
    <2>8. credit'[t]["punished"] >= R' - Mild(op, k + 1)
      BY <1>7, <1>8, <1>10, <1>11, <2>1, <2>2, <2>3, <2>4
    <2> QED
      BY <2>6, <2>7, <2>8
  <1> QED
    BY <1>12 DEF Books, Late, Early, Owing, Mild

LEMMA TurnsHeld ==
    ASSUME NEW op \in AllOps, NEW k \in 1..6, NEW h, Nth(op, k, h), NEW t \in Tasks, NEW w, NEW s,
           TaskWritten(h, t, w), Seen(op, k, t, w, s), Did(op, k, t, w, s),
           Papers(t, op, k), Bids(t, op, k), ~Is(t, "none")
    PROVE  /\ Taken(t)' <=> task'[t].executor # NoWorker
           /\ task'[t].status # "none"
           /\ Taken(t) /\ Taken(t)' => task'[t].executor = task[t].executor
           /\ ~Taken(t) /\ Taken(t)' => /\ task'[t].executor = w
                                        /\ (op = "accept" /\ k = 4) \/ (op = "bidFirst" /\ k = 2)
  <1>1. CASE h \in {"cancel", "undo"}
    BY <1>1, Turns DEF Turn, Is, Bids, Taken, TaskWritten, SetTo
  <1>2. CASE h \in {"start", "claim"}
    <2>1. Turn(t, "open", "in_progress") /\ task'[t].executor = w
      BY <1>2, Turns DEF TaskWritten, SetTo
    <2>2. w \in Workers /\ ((op = "accept" /\ k = 4) \/ (op = "bidFirst" /\ k = 2))
      BY <1>2 DEF Nth, Did
    <2> QED
      BY <2>1, <2>2 DEF Turn, Is, Taken
  <1>3. CASE h \in {"validate", "complete"}
    <2>1. Taken(t) /\ task'[t].status \in {"validating", "completed"}
      BY <1>3, Turns DEF Turn, Is, Taken
    <2>2. task'[t].executor = task[t].executor
      BY <1>3 DEF TaskWritten, SetTo
    <2> QED
      BY <2>1, <2>2 DEF Taken, Bids
  <1>4. CASE h \in {"reopen", "reopenIfInProgress"}
    BY <1>4, Turns DEF Turn, Is, Taken, TaskWritten, SetTo
  <1>5. CASE h \notin {"cancel", "start", "claim", "validate", "complete", "reopen", "undo",
                      "reopenIfInProgress"}
    BY <1>5, Turns DEF Is, Taken, Bids
  <1> QED
    BY <1>1, <1>2, <1>3, <1>4, <1>5

LEMMA KeepsPapers ==
    ASSUME TypeOK, NEW op \in AllOps, NEW k \in 1..6, NEW h, Nth(op, k, h), NEW t \in Tasks,
           NEW w, NEW s, Writes(h, t, w, s), Seen(op, k, t, w, s), Did(op, k, t, w, s),
           Papers(t, op, k)
    PROVE  Papers(t, op, k + 1)'
  <1> DEFINE V == SubsOf(t, "validating")
             A == SubsOf(t, "approved")
             e == task[t].executor
  <1>1. /\ TaskWritten(h, t, w) /\ SubsWritten(h, t, w, s)
    BY DEF Writes
  <1>2. DOMAIN SubWrites = {"insertApproved", "insertValidating", "approve", "reject"}
    BY DEF SubWrites
  <1>3. CASE h \in DOMAIN SubWrites
    <2>1. k = 1 /\ op = (IF h = "insertApproved" THEN "submit" ELSE
                         IF h = "insertValidating" THEN "review" ELSE h)
      BY <1>2, <1>3 DEF Nth
    <2>2. s \in Subs /\ task'[t] = task[t]
      BY <1>1, <1>2, <1>3, <2>1 DEF Seen, TaskWritten
    <2>3. SubsMoved(h, t, w, s)
      BY <1>1, <1>3, <2>2, SubsMove
    <2>4. \A x \in V \cup A : x = s
      <3>1. CASE h \in {"insertApproved", "insertValidating"}
        <4>1. Is(t, "in_progress")
          BY <2>1, <3>1 DEF Seen
        <4> QED
          BY <2>1, <3>1, <4>1 DEF Papers, Is
      <3>2. CASE h \in {"approve", "reject"}
        <4>1. s \in V
          BY <2>1, <3>2 DEF Seen, SubsOf
        <4> QED
          BY <4>1 DEF Papers, Held
      <3> QED
        BY <1>2, <1>3, <3>1, <3>2
    <2>5. w = e
      <3>1. CASE h \in {"insertApproved", "insertValidating"}
        BY <2>1, <3>1 DEF Seen
      <3>2. CASE h \in {"approve", "reject"}
        <4>1. s \in V /\ submission[s].worker = w
          BY <2>1, <3>2 DEF Seen, SubsOf
        <4> QED
          BY <4>1 DEF Papers, Held
      <3> QED
        BY <1>2, <1>3, <3>1, <3>2
    <2>6. /\ h \in {"insertApproved", "insertValidating"} => Is(t, "in_progress")
          /\ h \in {"approve", "reject"} => Is(t, "validating")
      <3>1. CASE h \in {"insertApproved", "insertValidating"}
        BY <2>1, <3>1 DEF Seen
      <3>2. CASE h \in {"approve", "reject"}
        <4>1. s \in V
          BY <2>1, <3>2 DEF Seen, SubsOf
        <4> QED
          BY <2>1, <3>2, <4>1 DEF Papers
      <3> QED
        BY <3>1, <3>2
    <2>7. /\ V' = IF h = "insertValidating" THEN {s} ELSE {}
          /\ A' = IF h \in {"insertApproved", "approve"} THEN {s} ELSE {}
      <3>1. /\ V' = IF SubWrites[h] = "validating" THEN V \cup {s} ELSE V \ {s}
            /\ A' = IF SubWrites[h] = "approved" THEN A \cup {s} ELSE A \ {s}
        BY <2>3 DEF SubsMoved
      <3>2. /\ SubWrites[h] = "validating" <=> h = "insertValidating"
            /\ SubWrites[h] = "approved" <=> h \in {"insertApproved", "approve"}
        BY <1>2, <1>3 DEF SubWrites
      <3> HIDE DEF V, A
      <3> QED
        BY <2>4, <3>1, <3>2
    <2>8. submission'[s].worker = e' /\ Held(t)' \subseteq {s}
      <3>1. submission'[s].worker = w
        BY <2>3 DEF SubsMoved
      <3> QED
        BY <2>2, <2>5, <2>7, <3>1 DEF Held
    <2>9. /\ V' # {} <=> h = "insertValidating"
          /\ A' # {} <=> h \in {"insertApproved", "approve"}
      BY <1>2, <1>3, <2>7
    <2>10. /\ task'[t].status = "in_progress" <=> h \in {"insertApproved", "insertValidating"}
           /\ task'[t].status = "validating" <=> h \in {"approve", "reject"}
           /\ task'[t].status # "completed"
      BY <1>2, <1>3, <2>2, <2>6 DEF Is
    <2>11. /\ V' # {} <=>
               \/ task'[t].status = "validating" /\ ~(op \in {"approve", "reject"} /\ k + 1 = 2)
               \/ op = "review" /\ k + 1 = 2
           /\ A' # {} <=>
               \/ task'[t].status = "completed"
               \/ op \in {"submit", "approve"} /\ k + 1 = 2
      BY <1>2, <1>3, <2>1, <2>9, <2>10
    <2> QED
      BY <2>8, <2>11 DEF Papers, Is
  <1>4. CASE h \notin DOMAIN SubWrites
    <2>1. submission' = submission /\ V' = V /\ A' = A /\ Held(t)' = Held(t)
      BY <1>1, <1>4, SubsUnwritten DEF Held
    <2>2. CASE h \in {"cancel", "undo", "start", "claim", "reopen", "reopenIfInProgress"}
      <3>1. V = {} /\ A = {}
        BY <1>1, <2>2, Turns DEF Papers, Turn, Is, Nth
      <3>2. task'[t].status \notin {"validating", "completed"}
        BY <1>1, <2>2, Turns DEF Turn
      <3>3. k + 1 # 2 \/ op \notin {"review", "submit", "approve"}
        BY <2>2 DEF Nth
      <3> QED
        BY <2>1, <3>1, <3>2, <3>3 DEF Papers, Is, Held
    <2>3. CASE h \in {"validate", "complete"}
      <3>1. /\ k = 2
            /\ \/ op = "review" /\ h = "validate"
               \/ op \in {"submit", "approve"} /\ h = "complete"
        BY <2>3 DEF Nth
      <3>2. e' = e
        BY <1>1, <2>3 DEF TaskWritten, SetTo
      <3>3. /\ V # {} <=> h = "validate"
            /\ A # {} <=> h = "complete"
        BY <1>1, <3>1, Turns DEF Papers, Turn, Is
      <3>4. task'[t].status = IF h = "validate" THEN "validating" ELSE "completed"
        BY <1>1, <3>1, Turns DEF Turn
      <3> QED
        BY <2>1, <3>1, <3>2, <3>3, <3>4 DEF Papers, Is
    <2>4. CASE h \notin {"cancel", "undo", "start", "claim", "reopen", "reopenIfInProgress",
                         "validate", "complete"}
      <3>1. task'[t] = task[t]
        BY <1>1, <2>4 DEF TaskWritten
      <3>2. ~(k \in {1, 2} /\ op \in {"review", "submit", "approve", "reject"})
        BY <1>2, <1>4, <2>4 DEF Nth
      <3> QED
        BY <2>1, <3>1, <3>2 DEF Papers, Is
    <2> QED
      BY <2>2, <2>3, <2>4
  <1> QED
    BY <1>3, <1>4

LEMMA KeepsBids ==
    ASSUME NEW op \in AllOps, NEW k \in 1..6, NEW h, Nth(op, k, h), NEW t \in Tasks,
           NEW w, NEW s, Writes(h, t, w, s), Seen(op, k, t, w, s), Did(op, k, t, w, s),
           Papers(t, op, k), Bids(t, op, k), ~Is(t, "none")
    PROVE  Bids(t, op, k + 1)'
  <1>1. TaskWritten(h, t, w) /\ BidsWritten(h, t, w)
    BY DEF Writes
  <1>2. /\ Taken(t)' <=> task'[t].executor # NoWorker
        /\ task'[t].status # "none"
        /\ Taken(t) /\ Taken(t)' => task'[t].executor = task[t].executor
        /\ ~Taken(t) /\ Taken(t)' => /\ task'[t].executor = w
                                     /\ (op = "accept" /\ k = 4) \/ (op = "bidFirst" /\ k = 2)
    BY <1>1, TurnsHeld
  <1>3. ASSUME Taken(t)', ~(op = "bidFirst" /\ k + 1 \in {3, 4})
        PROVE  Accepted(t)' = {task'[t].executor}
    <2>1. CASE ~Taken(t)
      <3>1. op = "accept" /\ k = 4 /\ task'[t].executor = w
        BY <1>2, <1>3, <2>1
      <3>2. Accepted(t) = {w} /\ h = "start"
        BY <3>1 DEF Did, Nth
      <3>3. bid'[t] = bid[t]
        BY <1>1, <3>2 DEF BidsWritten
      <3> QED
        BY <3>1, <3>2, <3>3 DEF Accepted
    <2>2. CASE Taken(t) /\ op = "bidFirst" /\ k \in {3, 4}
      <3>1. k = 4 /\ h = "rejectOthers"
        BY <1>3, <2>2 DEF Nth
      <3>2. w \in Accepted(t) /\ task[t].executor = w
        BY <2>2, <3>1 DEF Did
      <3>3. Accepted(t)' = Accepted(t) \cap {w}
        BY <1>1, <3>1 DEF BidsWritten
      <3> QED
        BY <1>2, <1>3, <2>2, <3>2, <3>3
    <2>3. CASE Taken(t) /\ ~(op = "bidFirst" /\ k \in {3, 4})
      <3>1. Accepted(t) = {task[t].executor} /\ task'[t].executor = task[t].executor
        BY <1>2, <1>3, <2>3 DEF Bids
      <3>2. h \notin {"acceptBid", "rejectOthers", "rejectBids"}
        BY <2>3 DEF Nth, Seen, Did, Taken, Is
      <3>3. Accepted(t)' = Accepted(t)
        BY <1>1, <3>2 DEF BidsWritten, Accepted
      <3> QED
        BY <3>1, <3>3
    <2> QED
      BY <2>1, <2>2, <2>3
  <1> QED
    BY <1>2, <1>3 DEF Bids, Is

LEMMA KeepsEscrowed ==
    ASSUME TypeOK, NEW op \in AllOps, NEW k \in 1..6, NEW h, Nth(op, k, h), NEW t \in Tasks,
           NEW w, NEW s, Writes(h, t, w, s), Seen(op, k, t, w, s), Did(op, k, t, w, s),
           Escrowed(t, op, k), ~Is(t, "none")
    PROVE  Escrowed(t, op, k + 1)'
  <1>1. TaskWritten(h, t, w) /\ LedgerWritten(h, t) /\ ledger[t].escrow \in Nat
    BY RowTypes DEF Writes
  <1>2. task'[t].kind = task[t].kind
    BY <1>1 DEF TaskWritten
  <1>3. task'[t].status = "deleted" <=> Is(t, "deleted") \/ h = "undo"
    BY <1>1, Turns DEF Turn, Is
  <1>4. task'[t].status # "none"
    BY <1>1, Turns DEF Turn, Is
  <1>5. ASSUME task[t].kind \in {"rest", "system"}
        PROVE  ledger'[t].escrow = AsMany(task'[t].status # "none" /\ task'[t].status # "deleted"
                                          /\ ~(Creating(op) /\ k + 1 = 1))
    <2>1. ledger[t].escrow = AsMany(~Is(t, "deleted") /\ ~(Creating(op) /\ k = 1))
      BY <1>5 DEF Escrowed, AsMany
    <2>2. CASE h = "escrow"
      <3>1. k = 1 /\ op \in {"rest", "system"} /\ Is(t, "open")
        BY <1>5, <2>2 DEF Nth, Did, Creating
      <3>2. ledger[t].escrow = 0
        BY <2>1, <3>1 DEF AsMany, Creating
      <3>3. ledger'[t].escrow = 1
        BY <1>1, <2>2, <3>2 DEF LedgerWritten, AsMany
      <3> QED
        BY <1>3, <1>4, <2>2, <3>1, <3>3 DEF AsMany, Is
    <2>3. CASE h = "undo"
      <3>1. k = 1 /\ op = "undo"
        BY <2>3 DEF Nth
      <3>2. ledger[t].escrow = 0
        BY <2>1, <3>1 DEF AsMany, Creating
      <3>3. ledger'[t].escrow = 0
        BY <1>1, <2>3, <3>2 DEF LedgerWritten, AsMany
      <3> QED
        BY <1>3, <2>3, <3>3 DEF AsMany
    <2>4. CASE h \notin {"escrow", "undo"}
      <3>1. ledger'[t].escrow = ledger[t].escrow
        BY <1>1, <2>4 DEF LedgerWritten, AsMany
      <3>2. ~Creating(op)
        BY <2>4 DEF Nth, Creating
      <3> QED
        BY <1>3, <1>4, <2>1, <2>4, <3>1, <3>2 DEF AsMany
    <2> QED
      BY <2>2, <2>3, <2>4
  <1> QED
    BY <1>2, <1>5 DEF Escrowed, Is

LEMMA KeepsDid ==
    ASSUME NEW op \in AllOps, NEW k \in 1..6, NEW h, Nth(op, k, h), ~Ends1(op, k),
           NEW t \in Tasks, NEW w, NEW s, Writes(h, t, w, s), Seen(op, k, t, w, s),
           Did(op, k, t, w, s), Papers(t, op, k)
    PROVE  Did(op, k + 1, t, w, s)'
  <1>1. TaskWritten(h, t, w) /\ BidsWritten(h, t, w)
    BY DEF Writes
  <1>2. CASE op = "a2a"
    <2>1. task'[t].kind = task[t].kind
      BY <1>1 DEF TaskWritten
    <2> QED
      BY <1>2, <2>1 DEF Did, Creating
  <1>3. CASE op = "a2aCancel"
    <2>1. k = 1 /\ h = "cancel"
      BY <1>3 DEF Nth, Ends1
    <2> QED
      BY <1>1, <1>3, <2>1 DEF Did, TaskWritten, SetTo, Is, Creating
  <1>4. CASE op \in {"submit", "approve"}
    <2>1. CASE k = 1
      <3>1. task'[t] = task[t]
        BY <1>1, <1>4, <2>1 DEF Nth, TaskWritten
      <3>2. op = "approve" => Is(t, "validating")
        BY <2>1 DEF Papers, Seen, SubsOf
      <3> QED
        BY <1>4, <2>1, <3>1, <3>2 DEF Did, Is, Creating
    <2>2. CASE k = 2
      <3>1. task'[t].status = "completed"
        BY <1>1, <1>4, <2>2 DEF Nth, TaskWritten, SetTo
      <3> QED
        BY <1>4, <2>2, <3>1 DEF Did, Is, Creating
    <2>3. CASE k \in 3..6
      <3>1. h \in {"release", "countCompleted", "countCreated", "reward"}
        BY <1>4, <2>3 DEF Nth
      <3>2. task'[t] = task[t] /\ Is(t, "completed")
        BY <1>1, <1>4, <2>3, <3>1 DEF TaskWritten, Did
      <3> QED
        BY <1>4, <2>3, <3>2 DEF Did, Is, Creating
    <2> QED
      BY <2>1, <2>2, <2>3
  <1>5. CASE op = "reject"
    <2>1. CASE k = 1
      <3>1. task'[t] = task[t]
        BY <1>1, <1>5, <2>1 DEF Nth, TaskWritten
      <3>2. Is(t, "validating")
        BY <1>5, <2>1 DEF Papers, Seen, SubsOf
      <3> QED
        BY <1>5, <2>1, <3>1, <3>2 DEF Did, Is, Creating
    <2>2. CASE k = 2
      <3>1. task'[t].status = "open"
        BY <1>1, <1>5, <2>2 DEF Nth, TaskWritten, SetTo
      <3> QED
        BY <1>5, <2>2, <3>1 DEF Did, Is, Creating
    <2>3. CASE k = 3
      <3>1. task'[t] = task[t] /\ Is(t, "open")
        BY <1>1, <1>5, <2>3 DEF Nth, TaskWritten, Did
      <3> QED
        BY <1>5, <2>3, <3>1 DEF Did, Is, Creating
    <2> QED
      BY <1>5, <2>1, <2>2, <2>3 DEF Ends1, Nth
  <1>6. CASE op = "timeout"
    <2>1. CASE k = 1
      <3>1. task'[t].status = "open"
        BY <1>1, <1>6, <2>1 DEF Nth, TaskWritten, SetTo, Did
      <3> QED
        BY <1>6, <2>1, <3>1 DEF Did, Is, Creating
    <2>2. CASE k = 2
      BY <1>6, <2>2 DEF Did, Creating
    <2> QED
      BY <1>6, <2>1, <2>2 DEF Nth, Ends1
  <1>7. CASE op = "bidFirst"
    <2>1. CASE k = 1
      BY <1>7, <2>1 DEF Did, Creating
    <2>2. CASE k = 2
      <3>1. task'[t].status = "in_progress" /\ task'[t].executor = w
        BY <1>1, <1>7, <2>2 DEF Nth, TaskWritten, SetTo
      <3> QED
        BY <1>7, <2>2, <3>1 DEF Did, Is, Creating
    <2>3. CASE k = 3
      <3>1. h = "acceptBid" /\ w \in Workers
        BY <1>7, <2>3 DEF Nth, Did
      <3>2. task'[t] = task[t] /\ w \in Accepted(t)'
        BY <1>1, <3>1 DEF TaskWritten, BidsWritten
      <3> QED
        BY <1>7, <2>3, <3>2 DEF Did, Is, Creating
    <2> QED
      BY <1>7, <2>1, <2>2, <2>3 DEF Nth, Ends1
  <1>8. CASE op = "accept"
    <2>1. CASE k = 1
      BY <1>8, <2>1 DEF Did, Creating
    <2>2. CASE k = 2
      <3>1. h = "acceptBid" /\ w \in Workers
        BY <1>8, <2>2 DEF Nth, Did
      <3>2. w \in Accepted(t)'
        BY <1>1, <3>1 DEF BidsWritten
      <3> QED
        BY <1>8, <2>2, <3>1, <3>2 DEF Did, Creating
    <2>3. CASE k = 3
      <3>1. h = "rejectOthers" /\ w \in Accepted(t) /\ w \in Workers
        BY <1>8, <2>3 DEF Nth, Did
      <3>2. Accepted(t)' = {w}
        BY <1>1, <3>1 DEF BidsWritten
      <3> QED
        BY <1>8, <2>3, <3>1, <3>2 DEF Did, Creating
    <2> QED
      BY <1>8, <2>1, <2>2, <2>3 DEF Nth, Ends1
  <1>9. CASE op \in {"delete", "review", "rate"}
    BY <1>9 DEF Did, Creating
  <1> QED
    BY <1>2, <1>3, <1>4, <1>5, <1>6, <1>7, <1>8, <1>9 DEF Nth, Ends1

(***************************************************************************)
(* Tasks a step does not touch.                                            *)
(***************************************************************************)
Untouched(u) ==
    /\ task'[u] = task[u] /\ bid'[u] = bid[u] /\ ledger'[u] = ledger[u] /\ credit'[u] = credit[u]
    /\ \A x \in {"validating", "approved", "rejected"} : SubsOf(u, x)' = SubsOf(u, x)
    /\ \A y \in Held(u) : submission'[y] = submission[y]

LEMMA ElsewhereUntouched ==
    ASSUME TypeOK, NEW op \in AllOps, NEW k \in 1..6, NEW h, Nth(op, k, h), NEW t \in Tasks,
           NEW w, NEW s, Writes(h, t, w, s), Seen(op, k, t, w, s), NEW u \in Tasks \ {t}
    PROVE  Untouched(u)
  <1>1. /\ SubsWritten(h, t, w, s)
        /\ task'[u] = task[u] /\ bid'[u] = bid[u] /\ ledger'[u] = ledger[u] /\ credit'[u] = credit[u]
    BY DEF Writes, Elsewhere
  <1>2. DOMAIN SubWrites = {"insertApproved", "insertValidating", "approve", "reject"}
    BY DEF SubWrites
  <1>3. CASE h \in DOMAIN SubWrites
    <2>1. s \in Subs /\ Fresh(h, t, s)
      BY <1>2, <1>3 DEF Nth, Seen, Fresh, SubsOf
    <2>2. \A x \in {"validating", "approved", "rejected"} : SubsOf(u, x)' = SubsOf(u, x)
      BY <1>1, <1>3, <2>1, SubsCounted
    <2>3. SubsMoved(h, t, w, s)
      BY <1>1, <1>3, <2>1, SubsMove
    <2>4. s \notin Held(u)
      <3>1. /\ SubsOf(u, "validating")' = SubsOf(u, "validating") \ {s}
            /\ SubsOf(u, "approved")' = SubsOf(u, "approved") \ {s}
        BY <2>3 DEF SubsMoved
      <3> QED
        BY <2>2, <3>1 DEF Held
    <2>5. \A y \in Held(u) : submission'[y] = submission[y]
      BY <2>3, <2>4 DEF SubsMoved, Held, SubsOf
    <2> QED
      BY <1>1, <2>2, <2>5 DEF Untouched
  <1>4. CASE h \notin DOMAIN SubWrites
    BY <1>1, <1>4, SubsUnwritten DEF Untouched
  <1> QED
    BY <1>3, <1>4

LEMMA SameUntouched ==
    ASSUME UNCHANGED <<task, bid, submission, ledger, credit>>, NEW u \in Tasks
    PROVE  Untouched(u)
  BY DEF Untouched, SubsOf

LEMMA UntouchedStays ==
    ASSUME NEW u \in Tasks, Untouched(u), NEW op, NEW k, NEW a, NEW b
    PROVE  /\ faults' = faults /\ Balance(u, a, b) => Balance(u, a, b)'
           /\ Sound(u, op, k) => Sound(u, op, k)'
  <1>1. /\ InReview(u)' = InReview(u) /\ Rejections(u)' = Rejections(u) /\ Held(u)' = Held(u)
        /\ SubsOf(u, "validating")' = SubsOf(u, "validating")
        /\ SubsOf(u, "approved")' = SubsOf(u, "approved")
    BY DEF Untouched, InReview, Rejections, Held
  <1>2. /\ Live(u)' = Live(u) /\ Settled(u)' = Settled(u) /\ Accepted(u)' = Accepted(u)
        /\ NoBids(u)' = NoBids(u) /\ Taken(u)' = Taken(u)
        /\ \A x : Is(u, x)' = Is(u, x)
    BY DEF Untouched, Live, Settled, Accepted, NoBids, Taken, Is
  <1>3. faults' = faults /\ Balance(u, a, b) => Balance(u, a, b)'
    BY <1>1, <1>2 DEF Untouched, Balance
  <1>4. Books(u, op, k) => Books(u, op, k)'
    BY <1>1, <1>2 DEF Untouched, Books
  <1>5. Papers(u, op, k) => Papers(u, op, k)'
    BY <1>1, <1>2 DEF Untouched, Papers
  <1>6. Bids(u, op, k) => Bids(u, op, k)'
    BY <1>2 DEF Untouched, Bids
  <1>7. Escrowed(u, op, k) => Escrowed(u, op, k)'
    BY <1>2 DEF Untouched, Escrowed
  <1> QED
    BY <1>3, <1>4, <1>5, <1>6, <1>7 DEF Sound

\* Before the first statement and after the last, and when a statement found nothing to do,
\* nothing is late or early.
Even(op, k) ==
    \/ op = "none"
    \/ op \in AllOps /\ k = 1
    \/ op \in AllOps /\ Ends1(op, k - 1)
    \/ op = "bidFirst" /\ k = 2

LEMMA EvenTerms ==
    ASSUME NEW op, NEW k \in 1..7, Even(op, k)
    PROVE  /\ \A n \in {3, 4, 5, 6} : Late(op, k, n) = 0
           /\ Early(op, k) = 0 /\ Owing(op, k) = 0 /\ Mild(op, k) = 0
           /\ PaidAhead(op, k) = 0 /\ SettledAhead(op, k) = 0
           /\ ~(op \in {"approve", "reject", "submit", "review"} /\ k = 2)
           /\ ~(op = "bidFirst" /\ k \in {3, 4})
  <1>1. CASE op = "none"
    BY <1>1 DEF Late, Early, Owing, Mild, PaidAhead, SettledAhead, AsMany
  <1>2. CASE op # "none" /\ k = 1
    BY <1>2 DEF Late, Early, Owing, Mild, PaidAhead, SettledAhead, AsMany
  <1>3. CASE Ends1(op, k - 1)
    BY <1>3 DEF Ends1, Late, Early, Owing, Mild, PaidAhead, SettledAhead, AsMany
  <1>4. CASE op = "bidFirst" /\ k = 2
    BY <1>4 DEF Late, Early, Owing, Mild, PaidAhead, SettledAhead, AsMany
  <1> QED
    BY <1>1, <1>2, <1>3, <1>4 DEF Even

LEMMA EvenSound ==
    ASSUME NEW op, NEW k \in 1..7, Even(op, k), NEW op2, NEW k2 \in 1..7, Even(op2, k2),
           NEW u \in Tasks, Sound(u, op, k),
           \/ task[u].kind = "a2a"
           \/ (Creating(op) /\ k = 1) <=> (Creating(op2) /\ k2 = 1)
    PROVE  Sound(u, op2, k2)
  <1>1. \A o, j : Books(u, o, j) <=>
            /\ ledger[u].paid = AsMany(Is(u, "completed")) - Late(o, j, 3)
            /\ credit[u]["completed"] = AsMany(Is(u, "completed")) - Late(o, j, 4)
            /\ credit[u]["created"] = AsMany(Is(u, "completed")) - Late(o, j, 5)
            /\ credit[u]["rewarded"] = AsMany(Is(u, "completed")) - Late(o, j, 6)
            /\ ledger[u].refunded = AsMany(Is(u, "cancelled")) + Rejections(u) + Early(o, j)
                                       - Owing(o, j)
            /\ credit[u]["punished"] >= Rejections(u) - Mild(o, j)
    BY DEF Books, Late, Early, Owing, Mild
  <1>2. Books(u, op2, k2)
    <2>1. Books(u, op, k)
      BY DEF Sound
    <2> QED
      BY <1>1, <2>1, EvenTerms
  <1>3. Papers(u, op2, k2)
    BY EvenTerms DEF Sound, Papers
  <1>4. Bids(u, op2, k2)
    BY EvenTerms DEF Sound, Bids
  <1>5. Escrowed(u, op2, k2)
    <2>1. CASE task[u].kind = "a2a"
      BY <2>1 DEF Escrowed
    <2>2. CASE (Creating(op) /\ k = 1) <=> (Creating(op2) /\ k2 = 1)
      BY <2>2 DEF Sound, Escrowed
    <2> QED
      BY <2>1, <2>2
  <1> QED
    BY <1>2, <1>3, <1>4, <1>5 DEF Sound

EvenlySound ==
    \A u \in Tasks, k, k2 \in 1..7 : \A op, op2 :
        /\ Even(op, k) /\ Even(op2, k2) /\ Sound(u, op, k)
        /\ task[u].kind = "a2a" \/ ((Creating(op) /\ k = 1) <=> (Creating(op2) /\ k2 = 1))
        => Sound(u, op2, k2)

LEMMA EvenAlways == EvenlySound
  BY EvenSound DEF EvenlySound

LEMMA EndsCalm ==
    ASSUME NEW u \in Tasks, NEW op \in AllOps, NEW k \in 1..6, Ends1(op, k),
           Balance(u, PaidAhead(op, k + 1), SettledAhead(op, k + 1))',
           (faults = 0 => Sound(u, op, k + 1))'
    PROVE  Calm(u)'
  <1>1. EvenlySound'
    BY EvenAlways, PTL
  <1>2. Even(op, k + 1) /\ Even("none", 1) /\ k + 1 \in 1..7 /\ k + 1 # 1
    BY DEF Even
  <1>3. ~Creating("none")
    BY DEF Creating
  <1>4. (faults = 0 => Sound(u, "none", 1))'
    BY <1>1, <1>2, <1>3 DEF EvenlySound
  <1> QED
    BY <1>4, AheadEnds DEF Calm

\* With p alone in flight, every task p does not work on is calm, and stays so.
OnlyBusy(p) == \A q \in Procs \ {p} : job[q] = Idle

LEMMA OthersCalm ==
    ASSUME SerialInv, NEW p \in Procs, OnlyBusy(p), NEW u \in Tasks, job[p].task # u
    PROVE  Calm(u)
  <1>1. \A q \in Procs \ {p} : job[q].task = NoTask
    BY DEF OnlyBusy, Idle
  <1> QED
    BY <1>1 DEF SerialInv, Quiet

LEMMA SerialAgain ==
    ASSUME NEW p \in Procs, OnlyBusy(p), Others1(p),
           \A u \in Tasks : Calm(u)' \/ job'[p].task = u,
           \/ job'[p] = Idle
           \/ Place(p)'
    PROVE  SerialInv'
  <1>1. \A q \in Procs \ {p} : job'[q] = Idle
    BY DEF OnlyBusy, Others1
  <1>2. Alone'
    BY <1>1 DEF Alone
  <1>3. \A q \in Procs : job'[q] # Idle => Place(q)'
    BY <1>1
  <1>4. ASSUME NEW u \in Tasks, Quiet(u)' PROVE Calm(u)'
    BY <1>4 DEF Quiet
  <1> QED
    BY <1>2, <1>3, <1>4 DEF SerialInv

LEMMA DoneSerial ==
    ASSUME Inv, Inv', SerialInv, NEW p \in Procs, OnlyBusy(p), NEW op \in AllOps, NEW k \in 1..6,
           At(p, op, k), NEW h, Todo(p, h), Nth(op, k, h), Done(p),
           NEW t \in Tasks, NEW w, NEW s, Holds(p, t, w, s), Writes(h, t, w, s),
           Note1(op, k, t, w, s), faults = 0 => Note2(op, k, t, w, s)
    PROVE  SerialInv'
  <1>1. /\ TypeOK /\ TypeOK' /\ job[p].plan # <<>> /\ ~Is(t, "none")
        /\ faults' = faults
    BY DEF Inv, JobsOK, Todo, Writes, Holds
  <1>2. /\ Others1(p)
        /\ Ends1(op, k) => job'[p] = Idle
        /\ ~Ends1(op, k) => /\ At(p, op, k + 1)'
                            /\ job'[p].task = t /\ job'[p].worker = w /\ job'[p].sub = s
    BY <1>1, AtDone DEF Holds
  <1>3. ASSUME NEW u \in Tasks \ {t} PROVE Calm(u)'
    <2>1. Untouched(u)
      BY <1>1, ElsewhereUntouched DEF Note1
    <2>2. Calm(u)
      BY OthersCalm DEF Holds
    <2> QED
      BY <1>1, <2>1, <2>2, UntouchedStays DEF Calm
  <1>4. Balance(t, PaidAhead(op, k + 1), SettledAhead(op, k + 1))'
    BY <1>1, KeepsBalance
  <1>5. ASSUME faults = 0 PROVE Sound(t, op, k + 1)'
    <2>1. /\ Writes(h, t, w, s) /\ Seen(op, k, t, w, s) /\ Did(op, k, t, w, s)
          /\ Books(t, op, k) /\ Papers(t, op, k) /\ Bids(t, op, k) /\ Escrowed(t, op, k)
      BY <1>5 DEF Note1, Note2, Sound
    <2> QED
      BY <1>1, <2>1, KeepsBooks, KeepsPapers, KeepsBids, KeepsEscrowed DEF Sound
  <1>6. CASE Ends1(op, k)
    <2>1. (faults = 0 => Sound(t, op, k + 1))'
      BY <1>1, <1>5
    <2>2. Calm(t)'
      BY <1>1, <1>4, <1>6, <2>1, EndsCalm
    <2> QED
      BY <1>2, <1>3, <1>6, <2>2, SerialAgain
  <1>7. CASE ~Ends1(op, k)
    <2>1. Seen(op, k + 1, t, w, s)'
      BY <1>1, <1>7, KeepsSeen DEF Note1
    <2>2. faults = 0 => Did(op, k + 1, t, w, s)'
      BY <1>1, <1>7, KeepsDid DEF Note1, Note2, Sound
    <2>3. k + 1 \in 1..6
      BY <1>7, ScriptTable DEF At, Ends1
    <2>4. Place(p)'
      BY <1>1, <1>2, <1>4, <1>5, <1>7, <2>1, <2>2, <2>3 DEF Place, Note1, Note2
    <2> QED
      BY <1>2, <1>3, <1>7, <2>4, SerialAgain
  <1> QED
    BY <1>6, <1>7

LEMMA DropSerial ==
    ASSUME Inv, SerialInv, NEW p \in Procs, OnlyBusy(p), NEW op \in AllOps, NEW k \in 1..6,
           NEW h \in Loses, Nth(op, k, h), Others1(p), job'[p] = Idle, RowsSame,
           NEW t \in Tasks, NEW w, NEW s, Holds(p, t, w, s),
           h = "escrow" => task[t].kind = "a2a",
           Note1(op, k, t, w, s), faults = 0 => Note2(op, k, t, w, s)
    PROVE  SerialInv'
  <1>1. \A u \in Tasks : Untouched(u)
    BY SameUntouched DEF RowsSame
  <1>2. Even(op, k) /\ (h = "escrow" \/ ~Creating(op))
    BY DEF Even, Loses, Nth, Creating
  <1>3. Calm(t)
    <2>1. PaidAhead(op, k) = 0 /\ SettledAhead(op, k) = 0
      BY <1>2, EvenTerms
    <2>2. faults = 0 => Sound(t, "none", 1)
      BY <1>2, EvenSound DEF Note2, Even, Creating
    <2> QED
      BY <2>1, <2>2 DEF Calm, Note1
  <1>4. \A u \in Tasks : Calm(u)
    BY <1>3, OthersCalm DEF Holds
  <1>5. \A u \in Tasks : Calm(u)'
    BY <1>1, <1>4, UntouchedStays DEF Calm, RowsSame
  <1> QED
    BY <1>5, SerialAgain

LEMMA UndoSerial ==
    ASSUME Inv, SerialInv, NEW p \in Procs, OnlyBusy(p), NEW op \in AllOps, NEW k \in 1..6,
           Nth(op, k, "escrow"), RowsSame,
           NEW t \in Tasks, NEW w, NEW s, Holds(p, t, w, s), task[t].kind # "a2a",
           job' = [job EXCEPT ![p] = [job[p] EXCEPT !.plan = <<"undo">>]],
           Note1(op, k, t, w, s), faults = 0 => Note2(op, k, t, w, s)
    PROVE  SerialInv'
  <1> DEFINE x == [job[p] EXCEPT !.plan = <<"undo">>]
  <1>1. \A u \in Tasks : Untouched(u)
    BY SameUntouched DEF RowsSame
  <1>2. /\ x \in Job /\ x.task = t /\ x.plan = <<"undo">>
        /\ x.worker = w /\ x.sub = s
    <2>1. "undo" \in Statement
      BY DEF Statement
    <2>2. <<"undo">> \in Seq(Statement)
      BY <2>1
    <2> QED
      BY <2>2, JobType DEF Job, Inv, Holds
  <1> HIDE DEF x
  <1>3. Others1(p) /\ job'[p] = x
    BY <1>2 DEF Inv, TypeOK, Others1, x
  <1>4. At(p, "undo", 1)'
    BY <1>2, <1>3 DEF At, Script, AllOps
  <1>5. k = 1 /\ op \in {"rest", "system", "a2a"}
    BY DEF Nth
  <1>6. Balance(t, PaidAhead("undo", 1), SettledAhead("undo", 1))'
    <2>1. /\ PaidAhead(op, k) = PaidAhead("undo", 1)
          /\ SettledAhead(op, k) = SettledAhead("undo", 1)
      BY <1>5 DEF PaidAhead, SettledAhead
    <2> QED
      BY <1>1, <2>1, UntouchedStays DEF Note1, RowsSame
  <1>7. Note1("undo", 1, t, w, s)'
    BY <1>6 DEF Note1, Seen
  <1>8. ASSUME faults = 0
        PROVE  Note2("undo", 1, t, w, s)'
    <2>1. Did(op, k, t, w, s) /\ Sound(t, op, k)
      BY <1>8 DEF Note2
    <2>2. op \in {"rest", "system"} /\ Is(t, "open") /\ NoBids(t)
      BY <1>5, <2>1 DEF Did, Creating
    <2>3. Sound(t, "undo", 1)
      BY <1>5, <2>1, <2>2, EvenSound DEF Even, AllOps, Creating
    <2>4. Sound(t, "undo", 1)'
      BY <1>1, <2>3, UntouchedStays
    <2>5. Is(t, "open")' /\ NoBids(t)'
      BY <2>2 DEF RowsSame, Is, NoBids
    <2> QED
      BY <2>4, <2>5 DEF Note2, Did, Creating
  <1>9. Place(p)'
    <2>1. job'[p].task = t /\ job'[p].worker = w /\ job'[p].sub = s
      BY <1>2, <1>3
    <2>2. (faults = 0 => Note2("undo", 1, t, w, s))'
      BY <1>8 DEF RowsSame
    <2>3. "undo" \in AllOps /\ 1 \in 1..6
      BY DEF AllOps
    <2> QED
      BY <1>4, <1>7, <2>1, <2>2, <2>3 DEF Place
  <1>10. \A u \in Tasks : Calm(u)' \/ job'[p].task = u
    BY <1>1, <1>2, <1>3, OthersCalm, UntouchedStays DEF Calm, RowsSame, Holds
  <1> QED
    BY <1>3, <1>9, <1>10, SerialAgain

LEMMA StepSerial ==
    ASSUME Inv, Inv', SerialInv, NEW p \in Procs, Step(p)
    PROVE  SerialInv'
  <1>1. PICK h : Moves(p, h)
    BY StepMoves
  <1>2. Todo(p, h) /\ job[p].plan # <<>> /\ job[p] # Idle /\ TypeOK
    BY <1>1, IdleJob DEF Moves, Todo, Inv
  <1>9. PICK t \in Tasks, w \in Workers \cup {NoWorker}, s \in Subs \cup {NoSub} : Holds(p, t, w, s)
    BY <1>2, JobType DEF Inv, JobsOK, Holds
  <1>3. PICK op \in AllOps, k \in 1..6 :
            /\ At(p, op, k)
            /\ Note1(op, k, t, w, s)
            /\ faults = 0 => Note2(op, k, t, w, s)
    BY <1>2, <1>9 DEF SerialInv, Place, Holds
  <1>4. Nth(op, k, h)
    BY <1>2, <1>3, AtHead
  <1>5. OnlyBusy(p)
    BY <1>2 DEF SerialInv, Alone, OnlyBusy
  <1>6. CASE Done(p) /\ Writes(h, t, w, s)
    BY <1>2, <1>3, <1>4, <1>5, <1>6, <1>9, DoneSerial
  <1>7. CASE /\ Others1(p) /\ job'[p] = Idle /\ RowsSame /\ h \in Loses
             /\ h = "escrow" => task[t].kind = "a2a"
    BY <1>2, <1>3, <1>4, <1>5, <1>7, <1>9, DropSerial
  <1>8. CASE /\ h = "escrow" /\ task[t].kind # "a2a" /\ RowsSame
             /\ job' = [job EXCEPT ![p] = [job[p] EXCEPT !.plan = <<"undo">>]]
    BY <1>2, <1>3, <1>4, <1>5, <1>8, <1>9, UndoSerial
  <1> QED
    BY <1>1, <1>6, <1>7, <1>8, <1>9 DEF Moves, Holds

(***************************************************************************)
(* Handlers begin on calm tasks.                                           *)
(***************************************************************************)
LEMMA IdleCalm ==
    ASSUME SerialInv, \A q \in Procs : job[q] = Idle
    PROVE  \A u \in Tasks : Calm(u)
  BY DEF SerialInv, Quiet, Idle

LEMMA StartSerial ==
    ASSUME Inv, SerialInv, ~Concurrent, NEW p \in Procs, NEW op \in Ops, ~Creating(op),
           NEW t \in Tasks, NEW w \in Workers \cup {NoWorker}, NEW s \in Subs \cup {NoSub},
           Start(p, op, t, w, s), Reads, Seen(op, 1, t, w, s), faults = 0 => Did(op, 1, t, w, s)
    PROVE  SerialInv'
  <1>1. /\ Others1(p) /\ At(p, op, 1)' /\ Holds(p, t, w, s)'
        /\ \A q \in Procs : job[q] = Idle
    BY AtStart DEF Inv
  <1>2. /\ OnlyBusy(p) /\ \A u \in Tasks : Calm(u)
        /\ op \in AllOps /\ Even(op, 1) /\ Even("none", 1) /\ ~Creating("none")
    BY <1>1, IdleCalm DEF OnlyBusy, AllOps, Even, Creating
  <1>3. UNCHANGED <<task, bid, submission, ledger, credit, faults>>
    BY DEF Reads
  <1>4. \A u \in Tasks : Untouched(u)
    BY <1>3, SameUntouched
  <1>5. \A u \in Tasks : Calm(u)'
    BY <1>2, <1>3, <1>4, UntouchedStays DEF Calm
  <1>6. Note1(op, 1, t, w, s)'
    <2>1. PaidAhead(op, 1) = 0 /\ SettledAhead(op, 1) = 0
      BY <1>2, EvenTerms
    <2>2. Seen(op, 1, t, w, s)'
      BY <1>3 DEF Seen, Is, SubsOf
    <2> QED
      BY <1>5, <2>1, <2>2 DEF Note1, Calm
  <1>7. (faults = 0 => Note2(op, 1, t, w, s))'
    <2> SUFFICES ASSUME faults = 0 PROVE Note2(op, 1, t, w, s)'
      BY <1>3
    <2>1. Sound(t, op, 1)
      BY <1>2, EvenSound DEF Calm
    <2>2. Sound(t, op, 1)'
      BY <1>4, <2>1, UntouchedStays
    <2>3. Did(op, 1, t, w, s)'
      BY <1>3 DEF Did, Is, NoBids, Accepted
    <2> QED
      BY <2>2, <2>3 DEF Note2
  <1>8. Place(p)'
    <2>1. job'[p].task = t /\ job'[p].worker = w /\ job'[p].sub = s
      BY <1>1 DEF Holds
    <2> QED
      BY <1>1, <1>2, <1>6, <1>7, <2>1 DEF Place
  <1> QED
    BY <1>1, <1>2, <1>5, <1>8, SerialAgain

LEMMA InsertSound ==
    ASSUME Inv, NEW t \in Tasks, NEW kind \in {"rest", "system", "a2a", "recurring"},
           NEW reviewed \in BOOLEAN, Insert(t, kind, reviewed), Calm(t),
           NEW op \in {"rest", "system", "a2a", "none"},
           op = "none" => kind = "recurring", op # "none" => op = kind
    PROVE  /\ Balance(t, 0, 0)' /\ Is(t, "open")' /\ task'[t].kind = kind
           /\ faults = 0 => Sound(t, op, 1)' /\ NoBids(t)'
           /\ \A u \in Tasks \ {t} : Untouched(u)
  <1> DEFINE row == [status |-> "open", kind |-> kind, reviewed |-> reviewed, executor |-> NoWorker]
  <1>1. /\ row.status = "open" /\ row.executor = NoWorker /\ row.kind = kind
        /\ task' = [task EXCEPT ![t] = row] /\ task \in [Tasks -> TaskRow]
        /\ task[t].status = "none" /\ task[t].executor = NoWorker /\ task[t].kind = "rest"
        /\ UNCHANGED <<bid, submission, ledger, credit, faults>>
    BY DEF Insert, Inv, TypeOK, Absent
  <1> HIDE DEF row
  <1>2. task'[t] = row /\ \A u \in Tasks \ {t} : task'[u] = task[u]
    BY <1>1
  <1>3. /\ InReview(t)' = InReview(t) /\ Rejections(t)' = Rejections(t) /\ Held(t)' = Held(t)
        /\ SubsOf(t, "validating")' = SubsOf(t, "validating")
        /\ SubsOf(t, "approved")' = SubsOf(t, "approved")
        /\ Settled(t)' = Settled(t) /\ Accepted(t)' = Accepted(t) /\ NoBids(t)' = NoBids(t)
    BY <1>1 DEF InReview, Rejections, SubsOf, Held, Settled, Accepted, NoBids
  <1>4. Balance(t, 0, 0)'
    <2>1. Live(t) = 1 /\ Live(t)' = 1
      BY <1>1, <1>2 DEF Live
    <2> QED
      BY <1>1, <1>3, <2>1 DEF Calm, Balance
  <1>5. ASSUME faults = 0 PROVE Sound(t, op, 1)' /\ NoBids(t)'
    <2>1. /\ Books(t, "none", 1) /\ Papers(t, "none", 1) /\ Bids(t, "none", 1)
          /\ Escrowed(t, "none", 1)
      BY <1>5 DEF Calm, Sound
    <2>2. Books(t, op, 1)'
      BY <1>1, <1>2, <1>3, <2>1 DEF Books, Is, AsMany
    <2>3. Papers(t, op, 1)'
      <3>1. SubsOf(t, "validating") = {} /\ SubsOf(t, "approved") = {}
        BY <1>1, <2>1 DEF Papers, Is
      <3> QED
        BY <1>1, <1>2, <1>3, <3>1 DEF Papers, Is, Held
    <2>4. NoBids(t)' /\ Bids(t, op, 1)'
      BY <1>1, <1>2, <1>3, <2>1 DEF Bids, Is, Taken
    <2>5. Escrowed(t, op, 1)'
      BY <1>1, <1>2, <2>1 DEF Escrowed, Is, AsMany, Creating
    <2> QED
      BY <2>2, <2>3, <2>4, <2>5 DEF Sound
  <1>6. \A u \in Tasks \ {t} : Untouched(u)
    BY <1>1, <1>2 DEF Untouched, SubsOf
  <1> QED
    BY <1>1, <1>2, <1>4, <1>5, <1>6 DEF Is

LEMMA CreateSerial ==
    ASSUME Inv, SerialInv, ~Concurrent, NEW p \in Procs, NEW t \in Tasks,
           NEW kind \in {"rest", "system", "a2a"}, NEW reviewed \in BOOLEAN,
           Insert(t, kind, reviewed), Start(p, kind, t, NoWorker, NoSub)
    PROVE  SerialInv'
  <1>1. kind \in Ops /\ kind \in AllOps
    BY DEF Ops, AllOps
  <1>2. /\ Others1(p) /\ At(p, kind, 1)' /\ Holds(p, t, NoWorker, NoSub)'
        /\ \A q \in Procs : job[q] = Idle
    BY <1>1, AtStart DEF Inv
  <1>3. OnlyBusy(p) /\ \A u \in Tasks : Calm(u)
    BY <1>2, IdleCalm DEF OnlyBusy
  <1>4. /\ Balance(t, 0, 0)' /\ Is(t, "open")' /\ task'[t].kind = kind
        /\ faults = 0 => Sound(t, kind, 1)' /\ NoBids(t)'
        /\ \A u \in Tasks \ {t} : Untouched(u)
    BY <1>3, InsertSound
  <1>5. faults' = faults
    BY DEF Insert
  <1>6. \A u \in Tasks : Calm(u)' \/ u = t
    BY <1>3, <1>4, <1>5, UntouchedStays DEF Calm
  <1>7. Note1(kind, 1, t, NoWorker, NoSub)'
    BY <1>4 DEF Note1, Seen, PaidAhead, SettledAhead
  <1>8. (faults = 0 => Note2(kind, 1, t, NoWorker, NoSub))'
    BY <1>4, <1>5 DEF Note2, Did
  <1>9. job'[p].task = t /\ job'[p].worker = NoWorker /\ job'[p].sub = NoSub
    BY <1>2 DEF Holds
  <1>10. Place(p)'
    BY <1>1, <1>2, <1>7, <1>8, <1>9 DEF Place
  <1> QED
    BY <1>2, <1>3, <1>6, <1>9, <1>10, SerialAgain

LEMMA PlacePlanned ==
    ASSUME TypeOK, NEW p \in Procs, Place(p)
    PROVE  job[p].plan # <<>>
  <1>1. PICK op \in AllOps, k \in 1..6 : At(p, op, k)
    BY DEF Place
  <1>2. Len(Script(op)) \in Nat /\ Len(job[p].plan) = Len(Script(op)) - k + 1 /\ k <= Len(Script(op))
    BY <1>1, ScriptTable DEF At
  <1>3. Len(job[p].plan) # 0
    BY <1>2
  <1> QED
    BY <1>3

\* A handler stays where it is as long as its task and the submissions do.
LEMMA PlaceStays ==
    ASSUME Inv, NEW p \in Procs, Place(p), job' = job, faults' = faults, UNCHANGED <<bid, submission>>,
           Untouched(job[p].task)
    PROVE  Place(p)'
  <1>1. job[p].plan # <<>>
    BY PlacePlanned DEF Inv
  <1>2. PICK t \in Tasks, w \in Workers \cup {NoWorker}, s \in Subs \cup {NoSub} : Holds(p, t, w, s)
    BY <1>1, JobType DEF Inv, JobsOK, Holds
  <1>3. PICK op \in AllOps, k \in 1..6 :
            /\ At(p, op, k)
            /\ Note1(op, k, t, w, s)
            /\ faults = 0 => Note2(op, k, t, w, s)
    BY <1>2 DEF Place, Holds
  <1>4. Untouched(t) /\ task'[t] = task[t]
    BY <1>2 DEF Holds, Untouched
  <1>5. Note1(op, k, t, w, s)'
    <2>1. Seen(op, k, t, w, s)'
      BY <1>3, <1>4 DEF Note1, Seen, Is, SubsOf
    <2>2. Balance(t, PaidAhead(op, k), SettledAhead(op, k))'
      BY <1>3, <1>4, UntouchedStays DEF Note1
    <2> QED
      BY <2>1, <2>2 DEF Note1
  <1>6. ASSUME faults = 0 PROVE Note2(op, k, t, w, s)'
    <2>1. Did(op, k, t, w, s)'
      BY <1>3, <1>4, <1>6 DEF Note2, Did, Is, NoBids, Accepted
    <2>2. Sound(t, op, k)'
      BY <1>3, <1>4, <1>6, UntouchedStays DEF Note2
    <2> QED
      BY <2>1, <2>2 DEF Note2
  <1>7. At(p, op, k)' /\ job'[p].task = t /\ job'[p].worker = w /\ job'[p].sub = s
    BY <1>2, <1>3 DEF At, Holds
  <1> QED
    BY <1>5, <1>6, <1>7 DEF Place

\* A scheduled instance is inserted in one transaction, whoever else is in flight.
LEMMA PostSerial ==
    ASSUME Inv, SerialInv, NEW t \in Tasks, NEW reviewed \in BOOLEAN, PostInstance(t, reviewed)
    PROVE  SerialInv'
  <1>1. /\ job' = job /\ faults' = faults /\ UNCHANGED <<bid, submission>>
        /\ Insert(t, "recurring", reviewed) /\ Is(t, "none")
    BY DEF PostInstance, Insert, Is, Absent
  <1>2. ASSUME NEW p \in Procs, job[p] # Idle
        PROVE  job[p].plan # <<>> /\ job[p].task \in Tasks \ {t} /\ Place(p)
    <2>1. Place(p) /\ job[p].plan # <<>>
      BY <1>2, PlacePlanned DEF SerialInv, Inv
    <2> QED
      BY <1>1, <2>1 DEF Inv, JobsOK
  <1>3. Quiet(t)
    BY <1>2, NullsAssumption DEF Quiet, Idle
  <1>4. /\ Balance(t, 0, 0)'
        /\ faults = 0 => Sound(t, "none", 1)'
        /\ \A u \in Tasks \ {t} : Untouched(u)
    BY <1>1, <1>3, InsertSound DEF SerialInv
  <1>5. Alone'
    BY <1>1 DEF SerialInv, Alone
  <1>6. \A p \in Procs : job'[p] # Idle => Place(p)'
    BY <1>1, <1>2, <1>4, PlaceStays
  <1>7. ASSUME NEW u \in Tasks, Quiet(u)' PROVE Calm(u)'
    <2>1. Quiet(u)
      BY <1>1, <1>7 DEF Quiet
    <2>2. CASE u = t
      BY <1>1, <1>4, <2>2 DEF Calm
    <2>3. CASE u # t
      BY <1>1, <1>4, <2>1, <2>3, UntouchedStays DEF SerialInv, Calm
    <2> QED
      BY <2>2, <2>3
  <1> QED
    BY <1>5, <1>6, <1>7 DEF SerialInv

LEMMA RequestSerial ==
    ASSUME Inv, SerialInv, ~Concurrent, NEW p \in Procs, Request(p) \/ Tick(p)
    PROVE  SerialInv'
  <1>1. ASSUME NEW t \in Tasks, NEW reviewed \in Reviewed,
               Create(p, t, reviewed) \/ CreateSystem(p, t, reviewed)
        PROVE  SerialInv'
    <2>1. reviewed \in BOOLEAN
      OBVIOUS
    <2> QED
      BY <1>1, <2>1, CreateSerial DEF Create, CreateSystem
  <1>2. ASSUME NEW t \in Tasks, MessageSend(p, t) PROVE SerialInv'
    BY <1>2, CreateSerial DEF MessageSend
  <1>3. ASSUME NEW t \in Tasks, NEW reviewed \in Reviewed, PostInstance(t, reviewed)
        PROVE  SerialInv'
    <2>1. reviewed \in BOOLEAN
      OBVIOUS
    <2> QED
      BY <1>3, <2>1, PostSerial
  <1>4. \A t \in Tasks : task[t].executor \in Workers \cup {NoWorker}
    BY DEF Inv, TypeOK, TaskRow
  <1>5. ASSUME NEW t \in Tasks, Cancel(p, t) PROVE SerialInv'
    <2>1. Is(t, "open") /\ Start(p, "delete", t, NoWorker, NoSub) /\ Reads
      BY <1>5 DEF Cancel
    <2>2. Seen("delete", 1, t, NoWorker, NoSub) /\ Did("delete", 1, t, NoWorker, NoSub)
      BY <2>1 DEF Seen, Did, Creating
    <2>3. "delete" \in Ops /\ ~Creating("delete")
      BY DEF Ops, Creating
    <2> QED
      BY <2>1, <2>2, <2>3, StartSerial
  <1>6. ASSUME NEW t \in Tasks, A2ACancel(p, t) PROVE SerialInv'
    <2>1. Is(t, "open") /\ Start(p, "a2aCancel", t, NoWorker, NoSub) /\ Reads
      BY <1>6 DEF A2ACancel
    <2>2. Seen("a2aCancel", 1, t, NoWorker, NoSub) /\ Did("a2aCancel", 1, t, NoWorker, NoSub)
      BY <2>1 DEF Seen, Did, Creating
    <2>3. "a2aCancel" \in Ops /\ ~Creating("a2aCancel")
      BY DEF Ops, Creating
    <2> QED
      BY <2>1, <2>2, <2>3, StartSerial
  <1>7. ASSUME NEW t \in Tasks, Rate(p, t) PROVE SerialInv'
    <2>1. Start(p, "rate", t, task[t].executor, NoSub) /\ Reads
      BY <1>7 DEF Rate
    <2>2. PICK w \in Workers \cup {NoWorker} : w = task[t].executor
      BY <1>4
    <2>3. Seen("rate", 1, t, w, NoSub) /\ Did("rate", 1, t, w, NoSub)
      BY DEF Seen, Did, Creating
    <2>4. "rate" \in Ops /\ ~Creating("rate")
      BY DEF Ops, Creating
    <2> QED
      BY <2>1, <2>2, <2>3, <2>4, StartSerial
  <1>8. ASSUME NEW t \in Tasks, NEW w \in Workers, Accept(p, t, w) PROVE SerialInv'
    <2>1. Is(t, "open") /\ Start(p, "accept", t, w, NoSub) /\ Reads
      BY <1>8 DEF Accept
    <2>2. Seen("accept", 1, t, w, NoSub) /\ Did("accept", 1, t, w, NoSub)
      BY <2>1 DEF Seen, Did, Creating
    <2>3. "accept" \in Ops /\ ~Creating("accept")
      BY DEF Ops, Creating
    <2> QED
      BY <2>1, <2>2, <2>3, StartSerial
  <1>9. ASSUME NEW t \in Tasks, NEW w \in Workers, Bid(p, t, w) PROVE SerialInv'
    <2>1. PICK op \in {"bid", "bidFirst"} : Start(p, op, t, w, NoSub) /\ Reads
      BY <1>9 DEF Bid
    <2>2. Seen(op, 1, t, w, NoSub) /\ Did(op, 1, t, w, NoSub)
      BY DEF Seen, Did, Creating
    <2>3. op \in Ops /\ ~Creating(op)
      BY DEF Ops, Creating
    <2> QED
      BY <2>1, <2>2, <2>3, StartSerial
  <1>10. ASSUME NEW t \in Tasks, NEW w \in Workers, NEW s \in Subs, NEW op \in {"submit", "review"},
                Submit(p, t, w, s, op)
         PROVE  SerialInv'
    <2>1. /\ Is(t, "in_progress") /\ task[t].executor = w /\ submission[s].status = "none"
          /\ Start(p, op, t, w, s) /\ Reads
      BY <1>10 DEF Submit, SubmitAllowed
    <2>2. Seen(op, 1, t, w, s) /\ Did(op, 1, t, w, s)
      BY <2>1 DEF Seen, Did, Creating
    <2>3. op \in Ops /\ ~Creating(op)
      BY DEF Ops, Creating
    <2> QED
      BY <2>1, <2>2, <2>3, StartSerial
  <1>11. ASSUME NEW s \in Subs, NEW op \in {"approve", "reject"}, Decide(p, s, op)
         PROVE  SerialInv'
    <2>1. /\ submission[s].status = "validating" /\ submission[s] \in SubRow
          /\ Start(p, op, submission[s].task, submission[s].worker, s) /\ Reads
      BY <1>11 DEF Decide, Decided, Inv, TypeOK
    <2>2. PICK t \in Tasks, w \in Workers \cup {NoWorker} :
              t = submission[s].task /\ w = submission[s].worker
      BY <2>1 DEF Inv, SubsOK, SubRow
    <2>3. submission[s] = [status |-> "validating", task |-> t, worker |-> w]
      BY <2>1, <2>2 DEF SubRow
    <2>4. Seen(op, 1, t, w, s) /\ Did(op, 1, t, w, s)
      BY <2>3 DEF Seen, Did, Creating
    <2>5. op \in Ops /\ ~Creating(op)
      BY DEF Ops, Creating
    <2> QED
      BY <2>1, <2>2, <2>4, <2>5, StartSerial
  <1>12. ASSUME NEW t \in Tasks, Timeout(p, t) PROVE SerialInv'
    <2>1. Is(t, "in_progress") /\ Start(p, "timeout", t, task[t].executor, NoSub) /\ Reads
      BY <1>12 DEF Timeout
    <2>2. PICK w \in Workers \cup {NoWorker} : w = task[t].executor
      BY <1>4
    <2>3. Seen("timeout", 1, t, w, NoSub) /\ Did("timeout", 1, t, w, NoSub)
      BY <2>1, <2>2 DEF Seen, Did, Creating
    <2>4. "timeout" \in Ops /\ ~Creating("timeout")
      BY DEF Ops, Creating
    <2> QED
      BY <2>1, <2>2, <2>3, <2>4, StartSerial
  <1>13. CASE Request(p)
    BY <1>1, <1>2, <1>5, <1>6, <1>7, <1>8, <1>9, <1>10, <1>11, <1>13 DEF Request
  <1>14. CASE Tick(p)
    BY <1>3, <1>11, <1>12, <1>14 DEF Tick
  <1> QED
    BY <1>13, <1>14

\* A fault ends the only handler in flight; what it exceeded the balance by is the fault's.
LEMMA FaultSerial ==
    ASSUME Inv, SerialInv, Fault
    PROVE  SerialInv'
  <1>1. /\ UNCHANGED <<task, bid, submission, ledger, credit>> /\ faults' = faults + 1
        /\ faults \in Nat /\ faults' # 0
    BY DEF Fault, Inv, TypeOK
  <1>2. \A q \in Procs : job'[q] = Idle
    <2>1. ASSUME NEW p \in Procs, job[p] # Idle, Abort(p)
          PROVE  \A q \in Procs : job'[q] = Idle
      BY <2>1 DEF Abort, SerialInv, Alone, Inv, TypeOK
    <2> QED
      BY <2>1 DEF Fault
  <1>3. ASSUME NEW u \in Tasks PROVE Calm(u)'
    <2>1. PICK a \in {0 - 2, 0 - 1, 0, 1}, b \in {0 - 2, 0 - 1, 0, 1} : Balance(u, a, b)
      <3>1. CASE Quiet(u)
        BY <3>1 DEF SerialInv, Calm
      <3>2. CASE ~Quiet(u)
        <4>1. PICK p \in Procs : job[p].task = u
          BY <3>2 DEF Quiet
        <4>2. Place(p)
          BY <4>1 DEF SerialInv, Idle
        <4>3. PICK op \in AllOps, k \in 1..6 : Balance(u, PaidAhead(op, k), SettledAhead(op, k))
          BY <4>1, <4>2 DEF Place, Note1
        <4> QED
          BY <4>3 DEF PaidAhead, SettledAhead
      <3> QED
        BY <3>1, <3>2
    <2>2. /\ InReview(u)' = InReview(u) /\ Rejections(u)' = Rejections(u)
          /\ Live(u)' = Live(u) /\ Settled(u)' = Settled(u) /\ ledger'[u] = ledger[u]
      BY <1>1 DEF InReview, Rejections, Live, Settled, SubsOf
    <2>3. /\ InReview(u) \in Nat /\ Rejections(u) \in Nat /\ Live(u) \in Nat
          /\ ledger[u].paid \in Nat /\ Settled(u) \in Nat
      BY CountTypes, RowTypes DEF Inv, Live, Settled
    <2>4. Balance(u, 0, 0)'
      BY <1>1, <2>1, <2>2, <2>3 DEF Balance
    <2> QED
      BY <1>1, <2>4 DEF Calm
  <1> QED
    BY <1>2, <1>3 DEF SerialInv, Alone

LEMMA InitSerial == Init => SerialInv
  <1> SUFFICES ASSUME Init PROVE SerialInv
    OBVIOUS
  <1>1. \A p \in Procs : job[p] = Idle
    BY DEF Init
  <1>2. ASSUME NEW u \in Tasks PROVE Calm(u)
    <2>1. /\ task[u] = Absent /\ faults = 0
          /\ ledger[u].escrow = 0 /\ ledger[u].paid = 0 /\ ledger[u].refunded = 0
          /\ \A c \in Credit : credit[u][c] = 0
          /\ \A w \in Workers : bid[u][w] = "none"
          /\ \A s \in Subs : submission[s].status = "none"
      BY <1>1 DEF Init
    <2>2. \A x \in {"validating", "approved", "rejected"} : SubsOf(u, x) = {}
      BY <2>1 DEF SubsOf
    <2>3. InReview(u) = 0 /\ Rejections(u) = 0 /\ Held(u) = {} /\ Settled(u) = 0 /\ Live(u) = 1
      <3>1. Settled(u) = 0 /\ Live(u) = 1
        BY <2>1 DEF Settled, Live, Absent
      <3>2. Cardinality({}) = 0
        BY FS_EmptySet
      <3> QED
        BY <2>2, <3>1, <3>2 DEF InReview, Rejections, Held
    <2>4. \A x : Is(u, x) <=> x = "none"
      BY <2>1 DEF Is, Absent
    <2>5. Balance(u, 0, 0)
      BY <2>1, <2>3 DEF Balance
    <2>6. Books(u, "none", 1)
      BY <2>1, <2>3, <2>4 DEF Books, AsMany, Credit
    <2>7. Papers(u, "none", 1)
      BY <2>2, <2>3, <2>4 DEF Papers
    <2>8. Bids(u, "none", 1)
      BY <2>1 DEF Bids, NoBids, Taken, Absent
    <2>9. Escrowed(u, "none", 1)
      BY <2>1, <2>4 DEF Escrowed, AsMany
    <2> QED
      BY <2>5, <2>6, <2>7, <2>8, <2>9 DEF Calm, Sound
  <1> QED
    BY <1>1, <1>2 DEF SerialInv, Alone

LEMMA NextSerial ==
    ASSUME ~Concurrent
    PROVE  Inv /\ SerialInv /\ [Next]_vars => SerialInv'
  <1> SUFFICES ASSUME Inv, SerialInv, [Next]_vars PROVE SerialInv'
    OBVIOUS
  <1>1. CASE Next
    BY <1>1, Invariance, RequestSerial, StepSerial, FaultSerial DEF Next
  <1>2. CASE UNCHANGED vars
    <2>1. UNCHANGED <<task, bid, submission, ledger, credit, job, faults>>
      BY <1>2 DEF vars
    <2>2. \A u \in Tasks : Untouched(u)
      BY <2>1, SameUntouched
    <2>3. \A u \in Tasks : Calm(u) => Calm(u)'
      BY <2>1, <2>2, UntouchedStays DEF Calm
    <2>4. \A p \in Procs : job'[p] # Idle => Place(p)'
      <3>1. ASSUME NEW p \in Procs, Place(p) PROVE job[p].task \in Tasks
        BY <3>1, PlacePlanned DEF Inv, JobsOK
      <3> QED
        BY <2>1, <2>2, <3>1, PlaceStays DEF SerialInv
    <2> QED
      BY <2>1, <2>3, <2>4 DEF SerialInv, Alone, Quiet
  <1> QED
    BY <1>1, <1>2

\* Without overlap, each failure costs at most one payment and one refund too many, for
\* every task (the submission left in review by tasks.ts submit is decided all the same,
\* and tasks.ts DELETE refunds before it writes the status).
THEOREM FaultsAreBounded == ~Concurrent => (Spec => []FaultsBoundDamage)
  <1> SUFFICES ASSUME ~Concurrent PROVE Spec => []FaultsBoundDamage
    OBVIOUS
  <1>1. ASSUME Inv, SerialInv, NEW u \in Tasks
        PROVE  /\ ledger[u].paid <= 1 + faults
               /\ ledger[u].refunded <= 1 + Rejections(u) + faults
    <2>1. /\ InReview(u) \in Nat /\ Rejections(u) \in Nat /\ Live(u) \in {0, 1} /\ faults \in Nat
          /\ ledger[u].paid \in Nat /\ ledger[u].refunded \in Nat
          /\ Settled(u) = ledger[u].paid + ledger[u].refunded
      BY <1>1, CountTypes DEF Inv
    <2>2. PICK a \in {0 - 2, 0 - 1, 0, 1}, b \in {0 - 2, 0 - 1, 0, 1} :
              Balance(u, a, b) /\ (a = 1 \/ b = 1 => Live(u) = 1)
      <3>1. CASE Quiet(u)
        BY <1>1, <3>1 DEF SerialInv, Calm
      <3>2. CASE ~Quiet(u)
        <4>1. PICK p \in Procs : job[p].task = u
          BY <3>2 DEF Quiet
        <4>2. Place(p)
          BY <1>1, <4>1 DEF SerialInv, Idle
        <4>3. PICK op \in AllOps, k \in 1..6 :
                  Note1(op, k, u, job[p].worker, job[p].sub)
          BY <4>1, <4>2 DEF Place
        <4>4. PaidAhead(op, k) = 1 \/ SettledAhead(op, k) = 1 =>
                  op \in {"review", "delete"} /\ k = 2
          BY DEF PaidAhead, SettledAhead
        <4>5. op \in {"review", "delete"} /\ k = 2 => Live(u) = 1
          BY <4>3 DEF Note1, Seen, Is, Live
        <4>6. /\ PaidAhead(op, k) \in {0 - 2, 0 - 1, 0, 1}
              /\ SettledAhead(op, k) \in {0 - 2, 0 - 1, 0, 1}
          BY DEF PaidAhead, SettledAhead
        <4> QED
          BY <4>3, <4>4, <4>5, <4>6 DEF Note1
      <3> QED
        BY <3>1, <3>2
    <2> QED
      BY <2>1, <2>2 DEF Balance
  <1>2. Inv /\ SerialInv => FaultsBoundDamage
    BY <1>1 DEF FaultsBoundDamage
  <1>3. Inv /\ [Next]_vars => Inv'
    BY Invariance
  <1> QED
    BY <1>2, <1>3, InitInv, InitSerial, NextSerial, PTL DEF Spec

\* Without overlap and as long as nothing failed, of every task no handler works on:
\* completion paid once and credited both parties once, the price went back once for the
\* cancellation and once for every rejection, and bids, executor and submissions tell one
\* story (tasks.ts submit, lib/validation.ts applyApproval and applyRejection).
THEOREM TasksAreConsistent == ~Concurrent => (Spec => []TasksConsistent)
  <1> SUFFICES ASSUME ~Concurrent PROVE Spec => []TasksConsistent
    OBVIOUS
  <1>1. ASSUME Inv, SerialInv, NEW t \in Tasks, Quiet(t), faults = 0
        PROVE  Books(t, "none", 1) /\ Papers(t, "none", 1) /\ Bids(t, "none", 1)
    BY <1>1 DEF SerialInv, Calm, Sound
  <1>2. Inv /\ SerialInv => SettledExactly
    <2> SUFFICES ASSUME Inv, SerialInv, NEW t \in Tasks, Quiet(t), faults = 0
                 PROVE  /\ ledger[t].paid = AsMany(Is(t, "completed"))
                        /\ ledger[t].refunded = AsMany(Is(t, "cancelled")) + Rejections(t)
                        /\ \A c \in {"completed", "created", "rewarded"} :
                              credit[t][c] = AsMany(Is(t, "completed"))
                        /\ credit[t].punished >= Rejections(t)
      BY DEF SettledExactly, AsMany
    <2>1. PICK done \in {0, 1}, gone \in {0, 1} :
              done = AsMany(Is(t, "completed")) /\ gone = AsMany(Is(t, "cancelled"))
      BY DEF AsMany
    <2>2. Rejections(t) \in Nat /\ credit[t]["punished"] \in Nat
      BY CountTypes, RowTypes DEF Inv
    <2>3. /\ ledger[t].paid = done - 0
          /\ credit[t]["completed"] = done - 0
          /\ credit[t]["created"] = done - 0
          /\ credit[t]["rewarded"] = done - 0
          /\ ledger[t].refunded = gone + Rejections(t) + 0 - 0
          /\ credit[t]["punished"] >= Rejections(t) - 0
      BY <1>1, <2>1 DEF Books, AsMany
    <2>4. /\ ledger[t].paid = done
          /\ credit[t]["completed"] = done
          /\ credit[t]["created"] = done
          /\ credit[t]["rewarded"] = done
          /\ ledger[t].refunded = gone + Rejections(t)
          /\ credit[t]["punished"] >= Rejections(t)
      BY <2>2, <2>3
    <2> QED
      BY <2>1, <2>4
  <1>3. Inv /\ SerialInv => ExecutorConsistent
    <2> SUFFICES ASSUME Inv, SerialInv, NEW t \in Tasks, Quiet(t), faults = 0
                 PROVE  LET accepted == {w \in Workers : bid[t][w] = "accepted"}
                            workers(status) == {submission[s].worker : s \in SubsOf(t, status)}
                        IN /\ task[t].status \in {"in_progress", "validating", "completed"}
                                => accepted = {task[t].executor}
                           /\ task[t].status \in {"open", "cancelled", "deleted"}
                                => task[t].executor = NoWorker
                           /\ workers("validating") =
                                 IF Is(t, "validating") THEN {task[t].executor} ELSE {}
                           /\ workers("approved") =
                                 IF Is(t, "completed") THEN {task[t].executor} ELSE {}
                           /\ Cardinality(SubsOf(t, "validating") \cup SubsOf(t, "approved")) <= 1
      BY DEF ExecutorConsistent
    <2> DEFINE workers(status) == {submission[s].worker : s \in SubsOf(t, status)}
    <2>1. /\ Taken(t) <=> task[t].executor # NoWorker
          /\ Taken(t) => Accepted(t) = {task[t].executor}
      BY <1>1 DEF Bids
    <2>2. /\ SubsOf(t, "validating") # {} <=> Is(t, "validating")
          /\ SubsOf(t, "approved") # {} <=> Is(t, "completed")
          /\ \A x, y \in Held(t) : x = y
          /\ \A x \in Held(t) : submission[x].worker = task[t].executor
      BY <1>1 DEF Papers
    <2>3. /\ workers("validating") = IF Is(t, "validating") THEN {task[t].executor} ELSE {}
          /\ workers("approved") = IF Is(t, "completed") THEN {task[t].executor} ELSE {}
      BY <2>2 DEF Held
    <2>4. Cardinality(Held(t)) <= 1
      <3>1. CASE Held(t) = {}
        BY <3>1, FS_EmptySet
      <3>2. CASE Held(t) # {}
        <4>1. PICK x : Held(t) = {x}
          BY <2>2, <3>2
        <4> QED
          BY <4>1, FS_Singleton
      <3> QED
        BY <3>1, <3>2
    <2> QED
      BY <2>1, <2>3, <2>4 DEF Taken, Accepted, Held
  <1>4. Inv /\ SerialInv => TasksConsistent
    BY <1>2, <1>3 DEF TasksConsistent
  <1>5. Inv /\ [Next]_vars => Inv'
    BY Invariance
  <1> QED
    BY <1>4, <1>5, InitInv, InitSerial, NextSerial, PTL DEF Spec

(***************************************************************************)
(* Tasks implement Escrow.                                                 *)
(***************************************************************************)
\* The promise is off for task u.
Off(u) == faults > 0 \/ task[u].kind \in {"a2a", "recurring"} \/ Rejections(u) > 0

\* A kind, once chosen, stays; ids not inserted are of kind "rest".
KindsStay == \A u \in Tasks : task[u].kind = "rest" \/ task'[u].kind = task[u].kind

LEMMA BeginKinds ==
    ASSUME NEW p \in Procs, Request(p) \/ Tick(p), Inv
    PROVE  KindsStay
  <1>1. ASSUME NEW t \in Tasks, NEW kind, NEW reviewed, Insert(t, kind, reviewed) PROVE KindsStay
    <2> DEFINE row == [status |-> "open", kind |-> kind, reviewed |-> reviewed,
                       executor |-> NoWorker]
    <2>1. /\ task' = [task EXCEPT ![t] = row] /\ task[t].kind = "rest"
          /\ task \in [Tasks -> TaskRow]
      BY <1>1 DEF Insert, Absent, Inv, TypeOK
    <2> HIDE DEF row
    <2> QED
      BY <2>1 DEF KindsStay
  <1>2. Reads => KindsStay
    BY DEF Reads, KindsStay
  <1> QED
    BY <1>1, <1>2 DEF Request, Tick, Create, CreateSystem, MessageSend, PostInstance, Cancel, A2ACancel,
       Rate, Accept, Bid, Submit, Decide, Timeout

SameLedger(u) ==
    /\ ledger'[u].escrow = ledger[u].escrow
    /\ ledger'[u].paid = ledger[u].paid
    /\ ledger'[u].refunded = ledger[u].refunded

\* A step that moves no money of a task the promise is on for.
LEMMA VoidStep ==
    ASSUME \A u \in Tasks : Off(u) => Off(u)',
           \A u \in Tasks : ~Off(u)' => SameLedger(u)
    PROVE  EscrowOfTasks!Next
  <1>1. {u \in Tasks : Off(u)} \subseteq {u \in Tasks : Off(u)}'
    OBVIOUS
  <1>2. \A u \in Tasks : SameLedger(u) => EscrowOf(u)' = EscrowOf(u)
    BY DEF EscrowOf, Settled, SameLedger
  <1> QED
    BY <1>1, <1>2 DEF EscrowOfTasks!Next, EscrowOfTasks!Void, Off

LEMMA MoneyMoves ==
    ASSUME NEW t \in Tasks, NEW from, NEW to, EscrowOf(t) = from, EscrowOf(t)' = to,
           \A u \in Tasks \ {t} : ledger'[u] = ledger[u],
           \A u \in Tasks : Off(u)' <=> Off(u)
    PROVE  EscrowOfTasks!Move(t, from, to)
  <1>1. \A u \in Tasks : EscrowOf(u)' = IF u = t THEN to ELSE EscrowOf(u)
    BY DEF EscrowOf, Settled
  <1>2. {u \in Tasks : Off(u)}' = {u \in Tasks : Off(u)}
    OBVIOUS
  <1> QED
    BY <1>1, <1>2 DEF EscrowOfTasks!Move, Off

\* The statement h of a handler, which leaves the table of rejected submissions no shorter.
LEMMA WritesOff ==
    ASSUME TypeOK, NEW t \in Tasks, NEW w, NEW s, NEW op \in AllOps, NEW k \in 1..6, NEW h,
           Nth(op, k, h), Writes(h, t, w, s), Seen(op, k, t, w, s), NEW u \in Tasks
    PROVE  /\ Off(u) => Off(u)'
           /\ h \in {"escrow", "release", "refund"} => (Off(u)' <=> Off(u))
  <1>1. /\ faults' = faults /\ SubsWritten(h, t, w, s) /\ TaskWritten(h, t, w)
        /\ u # t => task'[u] = task[u]
    BY DEF Writes, Elsewhere
  <1>2. task'[u].kind = task[u].kind
    BY <1>1 DEF TaskWritten
  <1>3. DOMAIN SubWrites = {"insertApproved", "insertValidating", "approve", "reject"}
    BY DEF SubWrites
  <1>4. Rejections(u) \in Nat /\ Rejections(t) \in Nat
    BY CountTypes
  <1>5. CASE h \in DOMAIN SubWrites
    <2>1. s \in Subs /\ Fresh(h, t, s)
      BY <1>3, <1>5 DEF Nth, Seen, Fresh, SubsOf
    <2>2. /\ Rejections(t)' = Rejections(t) + AsMany(h = "reject")
          /\ u # t => SubsOf(u, "rejected")' = SubsOf(u, "rejected")
      BY <1>1, <1>5, <2>1, SubsCounted
    <2>3. PICK n \in {0, 1} : Rejections(u)' = Rejections(u) + n
      <3>1. CASE u = t
        BY <2>2, <3>1 DEF AsMany
      <3>2. CASE u # t
        BY <1>4, <2>2, <3>2 DEF Rejections
      <3> QED
        BY <3>1, <3>2
    <2>4. Rejections(u) > 0 => Rejections(u)' > 0
      BY <1>4, <2>3
    <2> QED
      BY <1>1, <1>2, <1>3, <1>5, <2>4 DEF Off
  <1>6. CASE h \notin DOMAIN SubWrites
    <2>1. submission' = submission
      BY <1>1, <1>6, SubsUnwritten
    <2>2. Rejections(u)' = Rejections(u)
      BY <2>1 DEF Rejections, SubsOf
    <2> QED
      BY <1>1, <1>2, <2>2 DEF Off
  <1> QED
    BY <1>5, <1>6

\* Where the price is before and after a statement that moves it.
LEMMA MoneyTable ==
    ASSUME Inv, NEW t \in Tasks, NEW w, NEW s, NEW op \in AllOps, NEW k \in 1..6, NEW h,
           Nth(op, k, h), Writes(h, t, w, s), Seen(op, k, t, w, s), Note2(op, k, t, w, s), ~Off(t)
    PROVE  /\ h = "escrow" => EscrowOf(t) = "none" /\ EscrowOf(t)' = "held"
           /\ h = "release" => EscrowOf(t) = "held" /\ EscrowOf(t)' = "released"
           /\ h = "refund" => EscrowOf(t) = "held" /\ EscrowOf(t)' = "refunded"
  <1>1. /\ Did(op, k, t, w, s) /\ Books(t, op, k) /\ Escrowed(t, op, k) /\ LedgerWritten(h, t)
    BY DEF Note2, Sound, Writes
  <1>2. /\ task[t].kind \in {"rest", "system"} /\ Rejections(t) = 0 /\ faults = 0
        /\ ledger[t].escrow \in Nat /\ ledger[t].paid \in Nat /\ ledger[t].refunded \in Nat
    <2>1. task[t].kind \in {"rest", "system", "a2a", "recurring"}
      BY DEF Inv, TypeOK, TaskRow
    <2>2. Rejections(t) \in Nat /\ faults \in Nat
      BY CountTypes DEF Inv
    <2> QED
      BY <2>1, <2>2, RowTypes DEF Off, Inv
  <1>3. PICK done \in {0, 1}, gone \in {0, 1}, late \in {0, 1}, early \in {0, 1}, owing \in {0, 1} :
            /\ ledger[t].paid = done - late
            /\ ledger[t].refunded = gone + Rejections(t) + early - owing
            /\ done = 1 <=> Is(t, "completed")
            /\ gone = 1 <=> Is(t, "cancelled")
            /\ late = 1 <=> op \in {"submit", "approve"} /\ k \in 3..3
            /\ early = 1 <=> op = "delete" /\ k = 2
            /\ owing = 1 <=> (op = "a2aCancel" /\ k = 2) \/ (op = "reject" /\ k \in 2..4)
    <2>1. /\ ledger[t].paid = AsMany(Is(t, "completed")) - Late(op, k, 3)
          /\ ledger[t].refunded = AsMany(Is(t, "cancelled")) + Rejections(t) + Early(op, k)
                                     - Owing(op, k)
      BY <1>1 DEF Books, Late, Early, Owing
    <2>2. /\ AsMany(Is(t, "completed")) \in {0, 1} /\ AsMany(Is(t, "cancelled")) \in {0, 1}
          /\ Late(op, k, 3) \in {0, 1} /\ Early(op, k) \in {0, 1} /\ Owing(op, k) \in {0, 1}
          /\ AsMany(Is(t, "completed")) = 1 <=> Is(t, "completed")
          /\ AsMany(Is(t, "cancelled")) = 1 <=> Is(t, "cancelled")
          /\ Late(op, k, 3) = 1 <=> op \in {"submit", "approve"} /\ k \in 3..3
          /\ Early(op, k) = 1 <=> op = "delete" /\ k = 2
          /\ Owing(op, k) = 1 <=> (op = "a2aCancel" /\ k = 2) \/ (op = "reject" /\ k \in 2..4)
      BY DEF Late, Early, Owing, AsMany
    <2> QED
      BY <2>1, <2>2
  <1>4. CASE h = "escrow"
    <2>1. op \in {"rest", "system"} /\ k = 1
      BY <1>1, <1>2, <1>4 DEF Nth, Did
    <2>2. Is(t, "open") /\ Creating(op)
      BY <1>1, <2>1 DEF Did, Creating
    <2>3. ledger[t].escrow = 0
      BY <1>1, <1>2, <2>1, <2>2 DEF Escrowed, AsMany
    <2>4. done = 0 /\ gone = 0 /\ late = 0 /\ early = 0 /\ owing = 0
      BY <1>3, <2>1, <2>2 DEF Is
    <2>5. ledger[t].paid = 0 /\ ledger[t].refunded = 0
      BY <1>2, <1>3, <2>4
    <2>6. ledger'[t].escrow = 1 /\ ledger'[t].paid = 0 /\ ledger'[t].refunded = 0
      BY <1>1, <1>4, <2>3, <2>5 DEF LedgerWritten, AsMany
    <2> QED
      BY <1>4, <2>3, <2>5, <2>6 DEF EscrowOf, Settled
  <1>5. CASE h = "release"
    <2>1. op \in {"submit", "approve"} /\ k = 3
      BY <1>5 DEF Nth
    <2>2. Is(t, "completed") /\ ~Creating(op)
      BY <1>1, <2>1 DEF Did, Creating
    <2>3. ledger[t].escrow = 1
      BY <1>1, <1>2, <2>1, <2>2 DEF Escrowed, AsMany, Is
    <2>4. done = 1 /\ gone = 0 /\ late = 1 /\ early = 0 /\ owing = 0
      BY <1>3, <2>1, <2>2 DEF Is
    <2>5. ledger[t].paid = 0 /\ ledger[t].refunded = 0
      BY <1>2, <1>3, <2>4
    <2>6. ledger'[t].escrow = 1 /\ ledger'[t].paid = 1 /\ ledger'[t].refunded = 0
      BY <1>1, <1>5, <2>3, <2>5 DEF LedgerWritten, AsMany
    <2> QED
      BY <1>5, <2>3, <2>5, <2>6 DEF EscrowOf, Settled
  <1>6. CASE h = "refund"
    <2>1. \/ op = "delete" /\ k = 1 /\ Is(t, "open")
          \/ op = "a2aCancel" /\ k = 2 /\ Is(t, "cancelled")
          \/ op = "reject" /\ k = 4 /\ Is(t, "open")
      BY <1>1, <1>6 DEF Nth, Seen, Did
    <2>2. ~Creating(op)
      BY <2>1 DEF Creating
    <2>3. ledger[t].escrow = 1
      BY <1>1, <1>2, <2>1, <2>2 DEF Escrowed, AsMany, Is
    <2>4. done = 0 /\ late = 0 /\ early = 0 /\ (owing = gone \/ (gone = 0 /\ owing = 1))
      BY <1>3, <2>1 DEF Is
    <2>5. ledger[t].paid = 0 /\ ledger[t].refunded = 0
      BY <1>2, <1>3, <2>4
    <2>6. ledger'[t].escrow = 1 /\ ledger'[t].paid = 0 /\ ledger'[t].refunded = 1
      BY <1>1, <1>6, <2>3, <2>5 DEF LedgerWritten, AsMany
    <2> QED
      BY <1>6, <2>3, <2>5, <2>6 DEF EscrowOf, Settled
  <1> QED
    BY <1>4, <1>5, <1>6

LEMMA StepEscrow ==
    ASSUME Inv, SerialInv, NEW p \in Procs, Step(p), faults = 0
    PROVE  [EscrowOfTasks!Next]_EscrowOfTasks!vars
  <1>1. PICK h : Moves(p, h)
    BY StepMoves
  <1>2. Todo(p, h) /\ job[p].plan # <<>> /\ job[p] # Idle /\ TypeOK
    BY <1>1, IdleJob DEF Moves, Todo, Inv
  <1>3. PICK t \in Tasks, w \in Workers \cup {NoWorker}, s \in Subs \cup {NoSub} : Holds(p, t, w, s)
    BY <1>2, JobType DEF Inv, JobsOK, Holds
  <1>4. PICK op \in AllOps, k \in 1..6 :
            /\ At(p, op, k)
            /\ Note1(op, k, t, w, s)
            /\ Note2(op, k, t, w, s)
    BY <1>2, <1>3 DEF SerialInv, Place, Holds
  <1>5. Nth(op, k, h) /\ Seen(op, k, t, w, s)
    BY <1>2, <1>4, AtHead DEF Note1
  <1>6. CASE RowsSame
    <2>1. /\ \A u \in Tasks : EscrowOf(u)' = EscrowOf(u)
          /\ {u \in Tasks : Off(u)}' = {u \in Tasks : Off(u)}
      BY <1>6 DEF RowsSame, EscrowOf, Settled, Off, Rejections, SubsOf
    <2> QED
      BY <2>1 DEF EscrowOfTasks!vars, Off
  <1>7. CASE Writes(h, t, w, s)
    <2>1. \A u \in Tasks : /\ Off(u) => Off(u)'
                           /\ h \in {"escrow", "release", "refund"} => (Off(u)' <=> Off(u))
      BY <1>2, <1>4, <1>5, <1>7, WritesOff
    <2>2. \A u \in Tasks \ {t} : ledger'[u] = ledger[u]
      BY <1>7 DEF Writes, Elsewhere
    <2>3. CASE Off(t)
      BY <2>1, <2>2, <2>3, VoidStep DEF SameLedger
    <2>4. CASE ~Off(t) /\ h \in {"escrow", "release", "refund"}
      <3>1. PICK from, to : /\ EscrowOf(t) = from /\ EscrowOf(t)' = to
                            /\ h = "escrow" => from = "none" /\ to = "held"
                            /\ h = "release" => from = "held" /\ to = "released"
                            /\ h = "refund" => from = "held" /\ to = "refunded"
        BY <1>4, <1>5, <1>7, <2>4, MoneyTable
      <3>2. EscrowOfTasks!Move(t, from, to)
        BY <2>1, <2>2, <2>4, <3>1, MoneyMoves
      <3> QED
        BY <2>4, <3>1, <3>2 DEF EscrowOfTasks!Next, EscrowOfTasks!Hold, EscrowOfTasks!Release,
           EscrowOfTasks!Refund
    <2>5. CASE h \notin {"escrow", "release", "refund"}
      <3>1. SameLedger(t)
        BY <1>2, <1>7, <2>5, RowTypes DEF Writes, LedgerWritten, AsMany, SameLedger
      <3> QED
        BY <2>1, <2>2, <3>1, VoidStep DEF SameLedger
    <2> QED
      BY <2>3, <2>4, <2>5
  <1> QED
    BY <1>1, <1>3, <1>6, <1>7 DEF Moves, Holds

LEMMA NextEscrow ==
    ASSUME Inv, Inv', SerialInv, [Next]_vars
    PROVE  [EscrowOfTasks!Next]_EscrowOfTasks!vars
  <1>1. faults \in Nat /\ faults' \in Nat
    BY DEF Inv, TypeOK
  <1>2. ASSUME faults' # 0 PROVE EscrowOfTasks!Next
    <2>1. \A u \in Tasks : Off(u)'
      BY <1>1, <1>2 DEF Off
    <2> QED
      BY <2>1, VoidStep
  <1>3. CASE \E p \in Procs : Request(p) \/ Tick(p)
    <2>1. KindsStay /\ UNCHANGED <<submission, ledger, faults>>
      BY <1>3, RequestBegins, BeginKinds DEF Begins
    <2>2. \A u \in Tasks : Off(u) => Off(u)'
      BY <2>1 DEF Off, KindsStay, Rejections, SubsOf
    <2> QED
      BY <2>1, <2>2, VoidStep DEF SameLedger
  <1>4. CASE \E p \in Procs : Step(p)
    <2>1. CASE faults = 0
      BY <1>4, <2>1, StepEscrow
    <2>2. CASE faults # 0
      <3>1. faults' = faults
        BY <1>4, StepMoves DEF Moves, Writes, RowsSame
      <3> QED
        BY <1>2, <2>2, <3>1
    <2> QED
      BY <2>1, <2>2
  <1>5. CASE Fault
    BY <1>1, <1>2, <1>5 DEF Fault
  <1>6. CASE UNCHANGED vars
    <2>1. /\ \A u \in Tasks : EscrowOf(u)' = EscrowOf(u)
          /\ {u \in Tasks : Off(u)}' = {u \in Tasks : Off(u)}
      BY <1>6 DEF vars, EscrowOf, Settled, Off, Rejections, SubsOf
    <2> QED
      BY <2>1 DEF EscrowOfTasks!vars, Off
  <1> QED
    BY <1>3, <1>4, <1>5, <1>6 DEF Next

LEMMA InitEscrow == Init => EscrowOfTasks!Init
  <1> SUFFICES ASSUME Init PROVE EscrowOfTasks!Init
    OBVIOUS
  <1>1. ASSUME NEW u \in Tasks PROVE EscrowOf(u) = "none" /\ ~Off(u)
    <2>1. /\ task[u] = Absent /\ faults = 0
          /\ ledger[u].escrow = 0 /\ ledger[u].paid = 0 /\ ledger[u].refunded = 0
          /\ \A s \in Subs : submission[s].status = "none"
      BY <1>1 DEF Init
    <2>2. SubsOf(u, "rejected") = {}
      BY <2>1 DEF SubsOf
    <2>3. Rejections(u) = 0
      BY <2>2, FS_EmptySet DEF Rejections
    <2> QED
      BY <2>1, <2>3 DEF EscrowOf, Settled, Off, Absent
  <1> QED
    BY <1>1 DEF EscrowOfTasks!Init, Off

\* Without overlap, tasks implement Escrow: until something fails, the price of a REST or
\* system task without a rejected submission is held once, then released once or refunded
\* once (transfer.ts checks none of this, its callers have to call it in turn).
THEOREM EscrowImplemented == ~Concurrent => (Spec => ImplementsEscrow)
  <1> SUFFICES ASSUME ~Concurrent PROVE Spec => EscrowOfTasks!Spec
    BY DEF ImplementsEscrow
  <1>1. Inv /\ [Next]_vars => Inv'
    BY Invariance
  <1>2. Inv /\ Inv' /\ SerialInv /\ [Next]_vars => [EscrowOfTasks!Next]_EscrowOfTasks!vars
    BY NextEscrow
  <1> QED
    BY <1>1, <1>2, InitEscrow, InitInv, InitSerial, NextSerial, PTL DEF Spec, EscrowOfTasks!Spec
=============================================================================
