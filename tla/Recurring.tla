------------------------------ MODULE Recurring ------------------------------
(***************************************************************************)
(* Recurring tasks:                                                        *)
(*                                                                         *)
(*   services/recurringScheduler.ts   cron jobs that keep slots filled     *)
(*   routes/recurringTasks.ts         the admin's templates                *)
(*   db/schema/recurringTasks.ts      templates and instances              *)
(*                                                                         *)
(* A job closes over the template as it was when the process started.  A   *)
(* fill counts the open instances and then posts, one transaction each, as *)
(* many as were missing; ticks do not wait for one another.                *)
(***************************************************************************)
EXTENDS Integers

CONSTANTS
    Templates,
    Fills,      \* executions of fillSlots in flight
    MaxSlots,   \* bound: max_concurrent
    MaxPosts,   \* bound: instances of one template
    MaxEdits,   \* bound: requests of the admin
    MaxFaults   \* bound: restarts and failed inserts

\* There is a template (a field that is not used holds one).
ASSUME RecurringAssumption ==
    Templates # {} /\ {MaxSlots, MaxPosts, MaxEdits, MaxFaults} \subseteq Nat

VARIABLES
    template,   \* recurring_task_templates
    job,        \* activeTasks: the template a cron job closes over, or None
    fill,       \* executions of fillSlots
    open,       \* instances of each template whose task is not finished
    posted,     \* instances of each template
    excused,    \* history: templates with a fill beside another fill or a trigger
    edits, faults

vars == <<template, job, fill, open, posted, excused, edits, faults>>
posts == <<open, posted>>

-----------------------------------------------------------------------------
Modes == {"infinite", "periodic", "capped"}
NoTotal == -1

\* exists; paused: pause_until is in the future; cron: cron_expr is a valid
\* expression; poster: poster_agent_id is set; completed_count is never written.
Template == [exists : BOOLEAN, mode : Modes, enabled : BOOLEAN, paused : BOOLEAN, cron : BOOLEAN,
             poster : BOOLEAN, slots : 0 .. MaxSlots, total : {NoTotal} \cup 0 .. MaxSlots]
Unborn == [exists |-> FALSE, mode |-> "periodic", enabled |-> FALSE, paused |-> FALSE, cron |-> FALSE,
           poster |-> FALSE, slots |-> 0, total |-> NoTotal]
completedCount == 0
None == [exists |-> FALSE]

ATemplate == CHOOSE t \in Templates : TRUE
Idle == [pc |-> "idle", t |-> ATemplate, left |-> 0]
Fill == [pc : {"idle", "check", "count", "post"}, t : Templates, left : 0 .. MaxSlots]

\* initRecurringScheduler: a job for every enabled template with a schedule.
Registered(t) ==
    IF template[t].enabled /\ (template[t].cron \/ template[t].mode = "infinite")
    THEN template[t] ELSE None

\* A process started on a database with any templates.
Init ==
    /\ template \in [Templates -> {Unborn} \cup {x \in Template : x.exists}]
    /\ job = [t \in Templates |-> Registered(t)]
    /\ fill = [f \in Fills |-> Idle]
    /\ open = [t \in Templates |-> 0]
    /\ posted = [t \in Templates |-> 0]
    /\ excused = {}
    /\ edits = 0 /\ faults = 0

(***************************************************************************)
(* The admin                                                               *)
(***************************************************************************)
Edit(t, x) ==
    /\ edits < MaxEdits
    /\ edits' = edits + 1
    /\ template' = [template EXCEPT ![t] = x]
    /\ UNCHANGED <<job, fill, posts, excused, faults>>

\* POST: no job is registered for the new template.
Create(t) ==
    /\ ~template[t].exists
    /\ \E x \in Template : x.exists /\ ~x.paused /\ Edit(t, x)

\* PATCH, one field at a time; what is sent as null is left as it was.
Update(t) ==
    /\ template[t].exists
    /\ \/ \E m \in Modes : Edit(t, [template[t] EXCEPT !.mode = m])
       \/ \E b \in BOOLEAN : Edit(t, [template[t] EXCEPT !.enabled = b])
       \/ \E n \in 0 .. MaxSlots : Edit(t, [template[t] EXCEPT !.slots = n])
       \/ \E n \in 0 .. MaxSlots : Edit(t, [template[t] EXCEPT !.total = n])
       \/ \E b \in BOOLEAN : Edit(t, [template[t] EXCEPT !.paused = b])
       \/ Edit(t, [template[t] EXCEPT !.cron = TRUE])
       \/ Edit(t, [template[t] EXCEPT !.poster = TRUE])

\* DELETE disables.
Delete(t) == template[t].exists /\ Edit(t, [template[t] EXCEPT !.enabled = FALSE])

(***************************************************************************)
(* Posting                                                                 *)
(***************************************************************************)
\* getUTCDay of the template's own date: 0 is Sunday.
DayOfWeek(d) == d % 7

\* Mutant of mondayOffset: for weeks that start on Sunday.
SundayOffset(dayOfWeek) == 1 - dayOfWeek

mondayOffset(dayOfWeek) == IF dayOfWeek = 0 THEN -6 ELSE 1 - dayOfWeek

Monday(d) == d + mondayOffset(DayOfWeek(d))

\* The task and its instance in one transaction.  The task holds no escrow.
Posted(t) ==
    /\ posted[t] < MaxPosts
    /\ posted' = [posted EXCEPT ![t] = @ + 1]
    /\ open' = [open EXCEPT ![t] = @ + 1]

Filling(t) == \E f \in Fills : fill[f].pc /= "idle" /\ fill[f].t = t

\* triggerTemplateNow: whatever enabled, pause_until and max_concurrent say.
Trigger(t) ==
    /\ edits < MaxEdits
    /\ edits' = edits + 1
    /\ template[t].exists /\ template[t].poster
    /\ Posted(t)
    /\ excused' = IF Filling(t) THEN excused \cup {t} ELSE excused
    /\ UNCHANGED <<template, job, fill, faults>>

\* The task of an instance is completed or cancelled.
Finish(t) ==
    /\ open[t] > 0
    /\ open' = [open EXCEPT ![t] = @ - 1]
    /\ UNCHANGED <<template, job, fill, posted, excused, edits, faults>>

(***************************************************************************)
(* fillSlots                                                               *)
(***************************************************************************)
\* A cron tick, or at start-up the first fill of a template in infinite mode; a fill
\* that starts while another one runs is excused.
Tick(f, t) ==
    /\ fill[f].pc = "idle" /\ job[t] /= None
    /\ fill' = [fill EXCEPT ![f] = [pc |-> "check", t |-> t, left |-> 0]]
    /\ excused' = IF Filling(t) THEN excused \cup {t} ELSE excused \ {t}
    /\ UNCHANGED <<template, job, posts, edits, faults>>

Stop(f) == fill' = [fill EXCEPT ![f] = Idle]

\* The paused flag of a job is a date of its own: it passes.
Unpause(t) ==
    /\ job[t] /= None /\ job[t].paused
    /\ job' = [job EXCEPT ![t].paused = FALSE]
    /\ UNCHANGED <<template, fill, posts, excused, edits, faults>>

\* Mutant of Capped: without looking at the mode.
CappedAll(tpl) == tpl.total /= NoTotal

Capped(tpl) == tpl.mode = "capped" /\ tpl.total /= NoTotal /\ completedCount >= tpl.total

\* enabled and pause_until as the job knows them; a template at its cap is
\* disabled.
Check(f) ==
    LET tpl == job[fill[f].t]
    IN /\ fill[f].pc = "check"
       /\ IF ~tpl.enabled \/ tpl.paused \/ Capped(tpl) THEN Stop(f)
          ELSE fill' = [fill EXCEPT ![f].pc = "count"]
       /\ template' = IF tpl.enabled /\ ~tpl.paused /\ Capped(tpl)
                      THEN [template EXCEPT ![fill[f].t].enabled = FALSE] ELSE template
       /\ UNCHANGED <<job, posts, excused, edits, faults>>

\* Mutant of Missing: not counting what is open.
MissingAll(tpl, n) == tpl.slots

Missing(tpl, n) == tpl.slots - n

Count(f) ==
    LET slots == Missing(job[fill[f].t], open[fill[f].t])
    IN /\ fill[f].pc = "count"
       /\ IF slots <= 0 THEN Stop(f)
          ELSE fill' = [fill EXCEPT ![f].pc = "post", ![f].left = slots]
       /\ UNCHANGED <<template, job, posts, excused, edits, faults>>

PostDone(f) ==
    IF fill[f].left = 1 THEN Stop(f) ELSE fill' = [fill EXCEPT ![f].left = @ - 1]

Post(f) ==
    /\ fill[f].pc = "post" /\ job[fill[f].t].poster
    /\ Posted(fill[f].t)
    /\ PostDone(f)
    /\ UNCHANGED <<template, job, excused, edits, faults>>

\* Without a poster nothing is posted; an error is logged, and the loop goes on.
PostNothing(f) ==
    /\ fill[f].pc = "post"
    /\ \/ ~job[fill[f].t].poster /\ UNCHANGED faults
       \/ faults < MaxFaults /\ faults' = faults + 1
    /\ PostDone(f)
    /\ UNCHANGED <<template, job, posts, excused, edits>>

fillSlots(f) == Check(f) \/ Count(f) \/ Post(f) \/ PostNothing(f)

(***************************************************************************)
(* A restart                                                               *)
(***************************************************************************)
\* The process stops and starts; fills in flight are cut short.
Restart ==
    /\ faults < MaxFaults
    /\ faults' = faults + 1
    /\ job' = [t \in Templates |-> Registered(t)]
    /\ fill' = [f \in Fills |-> Idle]
    /\ excused' = {}
    /\ UNCHANGED <<template, posts, edits>>

Next ==
    \/ \E t \in Templates : Create(t) \/ Update(t) \/ Delete(t) \/ Trigger(t) \/ Finish(t) \/ Unpause(t)
    \/ \E f \in Fills : fillSlots(f) \/ \E t \in Templates : Tick(f, t)
    \/ Restart

\* Cron ticks and the statements of a fill; nobody has to finish a task.
Fairness ==
    /\ \A f \in Fills : WF_vars(fillSlots(f))
    /\ \A t \in Templates : WF_vars(Unpause(t))
    /\ \A f \in Fills, t \in Templates : SF_vars(Tick(f, t))

Spec == Init /\ [][Next]_vars
FairSpec == Spec /\ Fairness

-----------------------------------------------------------------------------
TypeOK ==
    /\ template \in [Templates -> Template]
    /\ job \in [Templates -> Template \cup {None}]
    /\ fill \in [Fills -> Fill]
    /\ open \in [Templates -> 0 .. MaxPosts]
    /\ posted \in [Templates -> 0 .. MaxPosts]
    /\ excused \subseteq Templates
    /\ edits \in 0 .. MaxEdits /\ faults \in 0 .. MaxFaults

\* The scheduler never takes a template above the slots its job knows, unless two
\* fills of it overlapped or the admin triggered it during one.
SlotsKept ==
    [][\A t \in Templates :
          posted'[t] > posted[t] /\ edits' = edits
              => job[t] /= None /\ (open'[t] <= job[t].slots \/ t \in excused)]_vars

\* A template whose job has a poster and fewer open instances than slots.
Short(t) ==
    /\ job[t] /= None /\ job[t].poster
    /\ job[t].mode = "capped" => job[t].total /= 0
    /\ open[t] < job[t].slots
    /\ posted[t] < MaxPosts

\* The slots of a template with a job are refilled, however its row was edited
\* since and whatever insert failed.
SlotsRefilled ==
    \A t \in Templates : \A n \in 0 .. MaxPosts :
        (Short(t) /\ posted[t] = n) ~> (~Short(t) \/ posted[t] > n)

\* Whatever day it is (of four weeks) when an instance is posted, its week_start is the
\* last Monday that is not after that day.
WeekStart ==
    [][posted' /= posted =>
          \A d \in 0 .. 27 :
              /\ Monday(d) \in {x \in -6 .. d : DayOfWeek(x) = 1}
              /\ \A x \in Monday(d) + 1 .. d : DayOfWeek(x) /= 1]_vars
=============================================================================
