--------------------------- MODULE RecurringProofs ---------------------------
(***************************************************************************)
(* Theorems about Recurring, for any number of templates, fills in flight  *)
(* and every bound; and about the tab that shows the templates (Console),  *)
(* for every set of browsers and every bound.                              *)
(***************************************************************************)
EXTENDS Recurring, Console, TLAPS

USE RecurringAssumption

\* The parts of TypeOK, and: open instances were posted, a fill in flight has a job,
\* and one that posts has something left to post.
Types ==
    /\ TypeOK
    /\ \A t \in Templates : open[t] <= posted[t]
    /\ \A f \in Fills : /\ fill[f].pc # "idle" => job[fill[f].t] # None
                        /\ fill[f].pc = "post" => fill[f].left > 0

\* Unless it is excused, a template has one fill, whose posts fit in its slots.
FillFits ==
    /\ \A f, g \in Fills : /\ fill[f].pc # "idle" /\ fill[g].pc # "idle" /\ fill[f].t = fill[g].t
                           /\ fill[f].t \notin excused
                           => f = g
    /\ \A f \in Fills : fill[f].pc = "post" /\ fill[f].t \notin excused
                            => open[fill[f].t] + fill[f].left <= job[fill[f].t].slots

IInv == Types /\ FillFits

(***************************************************************************)
(* What the fields of a row hold                                           *)
(***************************************************************************)
LEMMA JobType ==
    ASSUME TypeOK, NEW f \in Fills, job[fill[f].t] # None
    PROVE  /\ fill[f].t \in Templates /\ job[fill[f].t] \in Template
           /\ job[fill[f].t].slots \in 0 .. MaxSlots
  <1>1. fill[f].t \in Templates
    BY DEF TypeOK, Fill
  <1> QED
    BY <1>1 DEF TypeOK, Template

LEMMA FillType ==
    ASSUME TypeOK, NEW f \in Fills
    PROVE  /\ fill[f] \in Fill /\ fill[f].pc \in {"idle", "check", "count", "post"}
           /\ fill[f].t \in Templates /\ fill[f].left \in 0 .. MaxSlots
  BY DEF TypeOK, Fill

LEMMA IdleType == Idle \in Fill
  BY DEF Idle, Fill, ATemplate

LEMMA IdlePc == Idle.pc = "idle"
  BY DEF Idle

LEMMA RegisteredType ==
    ASSUME TypeOK, NEW t \in Templates
    PROVE  Registered(t) \in Template \cup {None}
  BY DEF TypeOK, Registered

(***************************************************************************)
(* Init                                                                    *)
(***************************************************************************)
LEMMA InitInvariant == Init => IInv
  <1> SUFFICES ASSUME Init PROVE IInv
    OBVIOUS
  <1>1. Unborn \in Template
    BY DEF Unborn, Template, Modes, NoTotal
  <1>2. template \in [Templates -> Template]
    BY <1>1 DEF Init
  <1>3. job \in [Templates -> Template \cup {None}]
    BY <1>2 DEF Init, Registered
  <1>4. fill \in [Fills -> Fill] /\ \A f \in Fills : fill[f].pc = "idle"
    BY IdleType, IdlePc DEF Init
  <1>5. /\ open \in [Templates -> 0 .. MaxPosts] /\ posted \in [Templates -> 0 .. MaxPosts]
        /\ \A t \in Templates : open[t] <= posted[t]
    BY DEF Init
  <1>6. excused \subseteq Templates /\ edits \in 0 .. MaxEdits /\ faults \in 0 .. MaxFaults
    BY DEF Init
  <1> QED
    BY <1>2, <1>3, <1>4, <1>5, <1>6 DEF IInv, Types, TypeOK, FillFits

(***************************************************************************)
(* The admin, tasks that finish, dates that pass                           *)
(***************************************************************************)
LEMMA EditStep ==
    ASSUME IInv, NEW t \in Templates, NEW x \in Template, Edit(t, x)
    PROVE  IInv'
  <1>1. template' \in [Templates -> Template] /\ edits' \in 0 .. MaxEdits
    BY DEF IInv, Types, TypeOK, Edit
  <1>2. UNCHANGED <<job, fill, open, posted, excused, faults>>
    BY DEF Edit, posts
  <1> QED
    BY <1>1, <1>2 DEF IInv, Types, TypeOK, FillFits

LEMMA AdminSteps ==
    ASSUME IInv, NEW t \in Templates, Create(t) \/ Update(t) \/ Delete(t)
    PROVE  IInv'
  <1>1. template[t] \in Template
    BY DEF IInv, Types, TypeOK
  <1>2. CASE Create(t)
    BY <1>2, EditStep DEF Create
  <1>3. CASE Update(t) \/ Delete(t)
    <2>1. ASSUME NEW m \in Modes PROVE [template[t] EXCEPT !.mode = m] \in Template
      BY <1>1 DEF Template
    <2>2. ASSUME NEW b \in BOOLEAN
          PROVE  /\ [template[t] EXCEPT !.enabled = b] \in Template
                 /\ [template[t] EXCEPT !.paused = b] \in Template
                 /\ [template[t] EXCEPT !.cron = b] \in Template
                 /\ [template[t] EXCEPT !.poster = b] \in Template
      BY <1>1 DEF Template
    <2>3. ASSUME NEW n \in 0 .. MaxSlots
          PROVE  /\ [template[t] EXCEPT !.slots = n] \in Template
                 /\ [template[t] EXCEPT !.total = n] \in Template
      BY <1>1 DEF Template
    <2> QED
      BY <1>3, <2>1, <2>2, <2>3, EditStep DEF Update, Delete
  <1> QED
    BY <1>2, <1>3

LEMMA PostedType ==
    ASSUME IInv, NEW t \in Templates, Posted(t)
    PROVE  /\ open' \in [Templates -> 0 .. MaxPosts] /\ posted' \in [Templates -> 0 .. MaxPosts]
           /\ \A u \in Templates : open'[u] <= posted'[u]
           /\ open'[t] = open[t] + 1 /\ posted'[t] = posted[t] + 1
           /\ \A u \in Templates \ {t} : open'[u] = open[u] /\ posted'[u] = posted[u]
  BY DEF Posted, IInv, Types, TypeOK

LEMMA TriggerStep ==
    ASSUME IInv, NEW t \in Templates, Trigger(t)
    PROVE  IInv'
  <1>1. edits' \in 0 .. MaxEdits /\ excused' \subseteq Templates /\ excused \subseteq excused'
    BY DEF Trigger, IInv, Types, TypeOK
  <1>2. UNCHANGED <<template, job, fill, faults>> /\ Posted(t)
    BY DEF Trigger
  <1>3. \A f \in Fills : fill[f].pc # "idle" /\ fill[f].t = t => t \in excused'
    BY DEF Trigger, Filling
  <1>4. Types'
    BY <1>1, <1>2, PostedType DEF IInv, Types, TypeOK
  <1>5. FillFits'
    <2>1. ASSUME NEW f \in Fills, fill[f].pc = "post", fill[f].t \notin excused'
          PROVE  open'[fill[f].t] + fill[f].left <= job[fill[f].t].slots
      <3>1. fill[f].t # t /\ fill[f].t \in Templates /\ fill[f].t \notin excused
        BY <1>1, <1>3, <2>1, FillType DEF IInv, Types
      <3> QED
        BY <1>2, <2>1, <3>1, PostedType DEF IInv, FillFits
    <2> QED
      BY <1>1, <1>2, <2>1 DEF IInv, FillFits
  <1> QED
    BY <1>4, <1>5 DEF IInv

LEMMA FinishStep ==
    ASSUME IInv, NEW t \in Templates, Finish(t)
    PROVE  IInv'
  <1>1. /\ open' \in [Templates -> 0 .. MaxPosts]
        /\ \A u \in Templates : open'[u] <= open[u] /\ open'[u] <= posted[u]
    BY DEF Finish, IInv, Types, TypeOK
  <1>2. UNCHANGED <<template, job, fill, posted, excused, edits, faults>>
    BY DEF Finish
  <1>3. Types'
    BY <1>1, <1>2 DEF IInv, Types, TypeOK
  <1>4. ASSUME NEW f \in Fills, fill[f].pc = "post", fill[f].t \notin excused
        PROVE  open'[fill[f].t] + fill[f].left <= job[fill[f].t].slots
    <2>1. open[fill[f].t] + fill[f].left <= job[fill[f].t].slots
      BY <1>4 DEF IInv, FillFits
    <2>2. /\ fill[f].t \in Templates /\ fill[f].left \in 0 .. MaxSlots
          /\ job[fill[f].t].slots \in 0 .. MaxSlots
      BY <1>4, FillType, JobType DEF IInv, Types
    <2>3. open[fill[f].t] \in Int /\ open'[fill[f].t] \in Int
      BY <1>1, <2>2 DEF IInv, Types, TypeOK
    <2> QED
      BY <1>1, <2>1, <2>2, <2>3
  <1> QED
    BY <1>2, <1>3, <1>4 DEF IInv, FillFits

LEMMA UnpauseStep ==
    ASSUME IInv, NEW t \in Templates, Unpause(t)
    PROVE  IInv'
  <1>1. job[t] \in Template
    BY DEF Unpause, IInv, Types, TypeOK
  <1>2. [job[t] EXCEPT !.paused = FALSE] \in Template
    BY <1>1 DEF Template
  <1>3. /\ job' = [job EXCEPT ![t] = [job[t] EXCEPT !.paused = FALSE]]
        /\ UNCHANGED <<template, fill, open, posted, excused, edits, faults>>
    BY DEF Unpause, posts
  <1>4. /\ job' \in [Templates -> Template \cup {None}]
        /\ \A u \in Templates \ {t} : job'[u] = job[u]
        /\ job'[t] \in Template /\ job'[t].slots = job[t].slots
    BY <1>1, <1>2, <1>3 DEF IInv, Types, TypeOK, Template
  <1>5. job'[t] # None
    <2>1. DOMAIN job'[t] # DOMAIN None
      BY <1>4 DEF Template, None
    <2> QED
      BY <2>1
  <1>6. \A f \in Fills : fill[f].t \in Templates
    BY FillType DEF IInv, Types
  <1>7. Types'
    BY <1>3, <1>4, <1>5, <1>6 DEF IInv, Types, TypeOK
  <1>8. FillFits'
    BY <1>3, <1>4, <1>6 DEF IInv, FillFits
  <1> QED
    BY <1>7, <1>8 DEF IInv

(***************************************************************************)
(* fillSlots                                                               *)
(***************************************************************************)
\* One fill is written and goes on with its template.
LEMMA FillWritten ==
    ASSUME IInv, NEW f \in Fills, NEW x \in Fill, fill' = [fill EXCEPT ![f] = x]
    PROVE  /\ fill' \in [Fills -> Fill] /\ fill'[f] = x
           /\ \A g \in Fills \ {f} : fill'[g] = fill[g]
  BY DEF IInv, Types, TypeOK

\* A fill that goes on with its template, or stops.
LEMMA GoesOn ==
    ASSUME FillFits, NEW f \in Fills, UNCHANGED <<job, open, excused>>,
           \A g \in Fills \ {f} : fill'[g] = fill[g],
           fill'[f].pc # "idle" => fill[f].pc # "idle" /\ fill'[f].t = fill[f].t,
           fill'[f].pc = "post" /\ fill[f].t \notin excused
                => open[fill[f].t] + fill'[f].left <= job[fill[f].t].slots
    PROVE  FillFits'
  <1>1. ASSUME NEW g \in Fills, NEW h \in Fills, fill'[g].pc # "idle", fill'[h].pc # "idle",
               fill'[g].t = fill'[h].t, fill'[g].t \notin excused'
        PROVE  g = h
    <2>1. \A i \in Fills : fill'[i].pc # "idle" => fill[i].pc # "idle" /\ fill'[i].t = fill[i].t
      OBVIOUS
    <2> QED
      BY <1>1, <2>1 DEF FillFits
  <1>2. ASSUME NEW g \in Fills, fill'[g].pc = "post", fill'[g].t \notin excused'
        PROVE  open'[fill'[g].t] + fill'[g].left <= job'[fill'[g].t].slots
    <2>1. CASE g = f
      <3>1. fill'[f].t = fill[f].t
        BY <1>2, <2>1
      <3> QED
        BY <1>2, <2>1, <3>1
    <2>2. CASE g # f
      <3>1. fill'[g] = fill[g]
        BY <2>2
      <3> QED
        BY <1>2, <3>1 DEF FillFits
    <2> QED
      BY <2>1, <2>2
  <1> QED
    BY <1>1, <1>2 DEF FillFits

\* A fill that stops.
LEMMA StopStep ==
    ASSUME IInv, NEW f \in Fills, Stop(f), UNCHANGED <<job, open, posted, excused>>,
           template' \in [Templates -> Template], edits' \in 0 .. MaxEdits, faults' \in 0 .. MaxFaults
    PROVE  IInv'
  <1>1. /\ fill' \in [Fills -> Fill] /\ fill'[f].pc = "idle"
        /\ \A g \in Fills \ {f} : fill'[g] = fill[g]
    BY FillWritten, IdleType, IdlePc DEF Stop
  <1>2. Types'
    BY <1>1 DEF IInv, Types, TypeOK
  <1>3. FillFits'
    BY <1>1 DEF IInv, FillFits
  <1> QED
    BY <1>2, <1>3 DEF IInv

LEMMA TickStep ==
    ASSUME IInv, NEW f \in Fills, NEW t \in Templates, Tick(f, t)
    PROVE  IInv'
  <1>1. [pc |-> "check", t |-> t, left |-> 0] \in Fill
    BY DEF Fill
  <1>2. /\ fill' \in [Fills -> Fill] /\ fill'[f] = [pc |-> "check", t |-> t, left |-> 0]
        /\ \A g \in Fills \ {f} : fill'[g] = fill[g]
    BY <1>1, FillWritten DEF Tick
  <1>3. /\ fill[f].pc = "idle" /\ job[t] # None
        /\ excused' = IF Filling(t) THEN excused \cup {t} ELSE excused \ {t}
        /\ UNCHANGED <<template, job, open, posted, edits, faults>>
    BY DEF Tick, posts
  <1>4. Types'
    BY <1>2, <1>3 DEF IInv, Types, TypeOK
  <1>5. \A g \in Fills : fill[g].pc # "idle" /\ fill[g].t \notin excused' => fill[g].t \notin excused
    BY <1>3 DEF Filling
  <1>6. ASSUME NEW g \in Fills \ {f}, fill[g].pc # "idle", fill[g].t = t
        PROVE  t \in excused'
    BY <1>3, <1>6 DEF Filling
  <1>7. FillFits'
    BY <1>2, <1>3, <1>5, <1>6 DEF IInv, FillFits
  <1> QED
    BY <1>4, <1>7 DEF IInv

LEMMA CheckStep ==
    ASSUME IInv, NEW f \in Fills, Check(f)
    PROVE  IInv'
  <1> DEFINE t == fill[f].t
  <1>1. UNCHANGED <<job, open, posted, excused, edits, faults>> /\ fill[f].pc = "check"
    BY DEF Check, posts
  <1>2. fill[f] \in Fill /\ t \in Templates /\ job[t] # None
    BY <1>1, FillType DEF IInv, Types
  <1>3. template' \in [Templates -> Template]
    <2>1. [template[t] EXCEPT !.enabled = FALSE] \in Template
      BY <1>2 DEF IInv, Types, TypeOK, Template
    <2> QED
      BY <1>2, <2>1 DEF Check, IInv, Types, TypeOK
  <1>4. edits \in 0 .. MaxEdits /\ faults \in 0 .. MaxFaults
    BY DEF IInv, Types, TypeOK
  <1>5. CASE Stop(f)
    BY <1>1, <1>3, <1>4, <1>5, StopStep
  <1>6. CASE fill' = [fill EXCEPT ![f] = [fill[f] EXCEPT !.pc = "count"]]
    <2>1. [fill[f] EXCEPT !.pc = "count"] \in Fill
      BY <1>2 DEF Fill
    <2>2. /\ fill' \in [Fills -> Fill] /\ fill'[f] = [fill[f] EXCEPT !.pc = "count"]
          /\ \A g \in Fills \ {f} : fill'[g] = fill[g]
      BY <1>6, <2>1, FillWritten
    <2>3. fill'[f].pc = "count" /\ fill'[f].t = fill[f].t
      BY <1>2, <2>2 DEF Fill
    <2>4. Types'
      BY <1>1, <1>2, <1>3, <2>2, <2>3 DEF IInv, Types, TypeOK
    <2>5. FillFits'
      BY <1>1, <2>2, <2>3, GoesOn DEF IInv
    <2> QED
      BY <2>4, <2>5 DEF IInv
  <1> QED
    BY <1>5, <1>6 DEF Check

LEMMA CountStep ==
    ASSUME IInv, NEW f \in Fills, Count(f)
    PROVE  IInv'
  <1>0. PICK t \in Templates : t = fill[f].t
    BY FillType DEF IInv, Types
  <1>1. /\ UNCHANGED <<template, job, open, posted, excused, edits, faults>>
        /\ fill[f].pc = "count"
    BY DEF Count, posts
  <1>2. fill[f] \in Fill /\ job[t] # None /\ job[t].slots \in 0 .. MaxSlots /\ open[t] \in Nat
    BY <1>0, <1>1, FillType, JobType DEF IInv, Types, TypeOK
  <1>3. /\ template \in [Templates -> Template] /\ edits \in 0 .. MaxEdits
        /\ faults \in 0 .. MaxFaults
    BY DEF IInv, Types, TypeOK
  <1>4. CASE Stop(f)
    BY <1>1, <1>3, <1>4, StopStep
  <1>5. CASE ~Stop(f)
    <2> DEFINE n == job[t].slots - open[t]
    <2>0. n > 0 /\ fill' = [fill EXCEPT ![f].pc = "post", ![f].left = n]
      BY <1>0, <1>2, <1>5 DEF Count, Missing
    <2>1. n > 0 /\ fill' = [fill EXCEPT ![f] = [fill[f] EXCEPT !.pc = "post", !.left = n]]
      BY <2>0 DEF IInv, Types, TypeOK
    <2>2. n \in 0 .. MaxSlots /\ n > 0 /\ open[t] + n = job[t].slots
      BY <1>2, <2>1
    <2>3. PICK m \in 0 .. MaxSlots : m > 0 /\ open[t] + m = job[t].slots /\ m = n
      BY <2>2
    <2>4. [fill[f] EXCEPT !.pc = "post", !.left = m] \in Fill
      BY <1>2 DEF Fill
    <2>5. /\ fill' \in [Fills -> Fill] /\ fill'[f] = [fill[f] EXCEPT !.pc = "post", !.left = m]
          /\ \A g \in Fills \ {f} : fill'[g] = fill[g]
      BY <2>1, <2>3, <2>4, FillWritten
    <2>6. fill'[f].pc = "post" /\ fill'[f].t = t /\ fill'[f].left = m
      BY <1>0, <1>2, <2>5 DEF Fill
    <2> HIDE DEF n
    <2>7. fill' \in [Fills -> Fill] /\ \A g \in Fills \ {f} : fill'[g] = fill[g]
      BY <2>5
    <2>8. open[t] + fill'[f].left <= job[t].slots /\ fill'[f].left > 0
      <3>1. open[t] + m <= job[t].slots /\ m > 0
        BY <1>2, <2>3
      <3> QED
        BY <2>6, <3>1
    <2>9. Types'
      BY <1>0, <1>1, <1>2, <2>6, <2>7, <2>8 DEF IInv, Types, TypeOK
    <2>10. FillFits'
      BY <1>0, <1>1, <2>6, <2>7, <2>8, GoesOn DEF IInv
    <2> QED
      BY <2>9, <2>10 DEF IInv
  <1> QED
    BY <1>4, <1>5

\* What is left to post becomes one less.
LEMMA PostDoneStep ==
    ASSUME IInv, NEW f \in Fills, fill[f].pc = "post", PostDone(f)
    PROVE  /\ fill' \in [Fills -> Fill]
           /\ \A g \in Fills \ {f} : fill'[g] = fill[g]
           /\ \/ fill'[f].pc = "idle"
              \/ /\ fill'[f].pc = "post" /\ fill'[f].t = fill[f].t
                 /\ fill'[f].left = fill[f].left - 1 /\ fill'[f].left > 0
  <1>1. fill[f] \in Fill /\ fill[f].left \in 0 .. MaxSlots /\ fill[f].left > 0
    BY FillType DEF IInv, Types
  <1>2. CASE fill[f].left = 1
    BY <1>2, FillWritten, IdleType, IdlePc DEF PostDone, Stop
  <1>3. CASE fill[f].left # 1
    <2>1. fill[f].left - 1 \in 0 .. MaxSlots /\ fill[f].left - 1 > 0
      BY <1>1, <1>3
    <2>2. [fill[f] EXCEPT !.left = fill[f].left - 1] \in Fill
      BY <1>1, <2>1 DEF Fill
    <2>3. /\ fill' \in [Fills -> Fill]
          /\ fill'[f] = [fill[f] EXCEPT !.left = fill[f].left - 1]
          /\ \A g \in Fills \ {f} : fill'[g] = fill[g]
      BY <1>3, <2>2, FillWritten DEF PostDone
    <2> QED
      BY <1>1, <2>1, <2>3 DEF Fill
  <1> QED
    BY <1>2, <1>3

LEMMA PostStep ==
    ASSUME IInv, NEW f \in Fills, Post(f)
    PROVE  /\ IInv'
           /\ job[fill[f].t] # None
           /\ fill[f].t \notin excused => open'[fill[f].t] <= job[fill[f].t].slots
  <1>0. PICK t \in Templates : t = fill[f].t
    BY FillType DEF IInv, Types
  <1>1. /\ fill[f].pc = "post" /\ Posted(t) /\ PostDone(f)
        /\ UNCHANGED <<template, job, excused, edits, faults>>
    BY <1>0 DEF Post
  <1>2. /\ fill[f].left \in 0 .. MaxSlots /\ fill[f].left > 0 /\ job[t] # None
        /\ job[t].slots \in 0 .. MaxSlots /\ open[t] \in Nat
    BY <1>0, <1>1, FillType, JobType DEF IInv, Types, TypeOK
  <1>3. t \notin excused => open[t] + fill[f].left <= job[t].slots
    BY <1>0, <1>1 DEF IInv, FillFits
  <1>4. t \notin excused => open'[t] <= job[t].slots
    BY <1>1, <1>2, <1>3, PostedType
  <1>5. Types'
    BY <1>0, <1>1, <1>2, PostedType, PostDoneStep DEF IInv, Types, TypeOK
  <1>6. FillFits'
    <2>1. ASSUME NEW g \in Fills, NEW h \in Fills, fill'[g].pc # "idle", fill'[h].pc # "idle",
                 fill'[g].t = fill'[h].t, fill'[g].t \notin excused'
          PROVE  g = h
      BY <1>1, <2>1, PostDoneStep DEF IInv, FillFits
    <2>2. ASSUME NEW g \in Fills, fill'[g].pc = "post", fill'[g].t \notin excused'
          PROVE  open'[fill'[g].t] + fill'[g].left <= job'[fill'[g].t].slots
      <3>1. CASE g = f
        BY <1>0, <1>1, <1>2, <1>3, <2>2, <3>1, PostedType, PostDoneStep
      <3>2. CASE g # f
        <4>1. fill'[g] = fill[g] /\ fill[g].t # t /\ fill[g].t \in Templates
          BY <1>0, <1>1, <2>2, <3>2, PostDoneStep, FillType DEF IInv, Types, FillFits
        <4> QED
          BY <1>1, <2>2, <4>1, PostedType DEF IInv, FillFits
      <3> QED
        BY <3>1, <3>2
    <2> QED
      BY <2>1, <2>2 DEF FillFits
  <1> QED
    BY <1>0, <1>2, <1>4, <1>5, <1>6 DEF IInv

LEMMA PostNothingStep ==
    ASSUME IInv, NEW f \in Fills, PostNothing(f)
    PROVE  IInv'
  <1>1. /\ fill[f].pc = "post" /\ PostDone(f) /\ UNCHANGED <<template, job, open, posted, excused, edits>>
        /\ faults' \in 0 .. MaxFaults
    BY DEF PostNothing, posts, IInv, Types, TypeOK
  <1>2. /\ fill[f].left \in 0 .. MaxSlots /\ fill[f].t \in Templates /\ job[fill[f].t] # None
        /\ job[fill[f].t].slots \in 0 .. MaxSlots /\ open[fill[f].t] \in Nat
    BY <1>1, FillType, JobType DEF IInv, Types, TypeOK
  <1>3. Types'
    BY <1>1, <1>2, PostDoneStep DEF IInv, Types, TypeOK
  <1>4. FillFits'
    <2>1. fill'[f].pc = "post" /\ fill[f].t \notin excused
              => open[fill[f].t] + fill'[f].left <= job[fill[f].t].slots
      <3>1. fill[f].t \notin excused
                => open[fill[f].t] + fill[f].left <= job[fill[f].t].slots
        BY <1>1 DEF IInv, FillFits
      <3> QED
        BY <1>1, <1>2, <3>1, PostDoneStep
    <2> QED
      BY <1>1, <2>1, PostDoneStep, GoesOn DEF IInv
  <1> QED
    BY <1>3, <1>4 DEF IInv

LEMMA RestartStep == IInv /\ Restart => IInv'
  <1> SUFFICES ASSUME IInv, Restart PROVE IInv'
    OBVIOUS
  <1>1. /\ job' \in [Templates -> Template \cup {None}] /\ faults' \in 0 .. MaxFaults
        /\ UNCHANGED <<template, open, posted, edits>> /\ excused' = {}
    BY RegisteredType DEF Restart, posts, IInv, Types, TypeOK
  <1>2. fill' \in [Fills -> Fill] /\ \A f \in Fills : fill'[f].pc = "idle"
    BY IdleType, IdlePc DEF Restart
  <1> QED
    BY <1>1, <1>2 DEF IInv, Types, TypeOK, FillFits

(***************************************************************************)
(* The theorems                                                            *)
(***************************************************************************)
LEMMA Invariance == IInv /\ [Next]_vars => IInv'
  <1> SUFFICES ASSUME IInv, [Next]_vars PROVE IInv'
    OBVIOUS
  <1>1. CASE UNCHANGED vars
    BY <1>1 DEF vars, posts, IInv, Types, TypeOK, FillFits
  <1>2. ASSUME NEW f \in Fills, fillSlots(f) PROVE IInv'
    BY <1>2, CheckStep, CountStep, PostStep, PostNothingStep DEF fillSlots
  <1> QED
    BY <1>1, <1>2, AdminSteps, TriggerStep, FinishStep, UnpauseStep, TickStep, RestartStep DEF Next

LEMMA InvariantHolds == Spec => []IInv
  BY InitInvariant, Invariance, PTL DEF Spec

\* Every variable keeps its type, and no more instances are open than were posted.
THEOREM TypeCorrect == Spec => []TypeOK
  BY InvariantHolds, PTL DEF IInv, Types

\* Unless two fills of a template overlap or the admin triggers it during one, the
\* scheduler posts no instance above the slots its job knows.
THEOREM SlotsAreKept == Spec => SlotsKept
  <1> DEFINE Kept(t) == posted'[t] > posted[t] /\ edits' = edits
                            => job[t] # None /\ (open'[t] <= job[t].slots \/ t \in excused)
  <1>1. ASSUME IInv, [Next]_vars, NEW t \in Templates
        PROVE  Kept(t)
    <2> SUFFICES ASSUME posted'[t] > posted[t], edits' = edits
                 PROVE  job[t] # None /\ (open'[t] <= job[t].slots \/ t \in excused)
      OBVIOUS
    <2>1. posted[t] \in Nat /\ edits \in Nat
      BY <1>1 DEF IInv, Types, TypeOK
    <2>2. posted' # posted
      BY <2>1
    <2>3. \A u \in Templates : ~Trigger(u)
      BY <2>1 DEF Trigger
    <2>4. PICK f \in Fills : Post(f)
      BY <1>1, <2>2, <2>3 DEF Next, vars, posts, Create, Update, Delete, Edit, Finish, Unpause, Tick,
                        fillSlots, Check, Count, PostNothing, Restart
    <2>5. t = fill[f].t
      <3>1. Posted(fill[f].t) /\ fill[f].t \in Templates
        BY <1>1, <2>4, FillType DEF Post, IInv, Types
      <3> QED
        BY <1>1, <2>1, <3>1, PostedType
    <2> QED
      BY <1>1, <2>4, <2>5, PostStep
  <1>2. IInv /\ [Next]_vars => [\A t \in Templates : Kept(t)]_vars
    BY <1>1
  <1> QED
    BY <1>2, InvariantHolds, PTL DEF Spec, SlotsKept

\* Every posted instance gets the Monday of its week, for the days the runs check.
THEOREM WeeksStart == Spec => WeekStart
  <1>1. \A d \in 0 .. 27 :
            /\ Monday(d) \in {x \in -6 .. d : DayOfWeek(x) = 1}
            /\ \A x \in Monday(d) + 1 .. d : DayOfWeek(x) /= 1
    BY DEF Monday, mondayOffset, DayOfWeek
  <1> QED
    BY <1>1, PTL DEF WeekStart

-----------------------------------------------------------------------------
(***************************************************************************)
(* The admin's tab of templates: Console                                   *)
(***************************************************************************)
USE ConsoleAssumption

\* What an admin was told is not ahead of the row, and an answered fetch is not
\* behind what the admin was told.
Confirmed ==
    /\ \A a \in Admins : own[a] <= row.version
    /\ \A a \in Admins, b \in Buttons :
            call[a][b].pc = "answered" => call[a][b].version <= row.version
    /\ \A a \in Admins : fetch[a].pc = "answered" => fetch[a].data.version >= own[a]
    /\ \A a \in Admins : list[a] = NoList => own[a] = 0

\* A toggle says which way.
Sent == \A a \in Admins : call[a]["toggle"].pc = "sent" => call[a]["toggle"].enabled \in BOOLEAN

TabInv == ConsoleTypeOK /\ Confirmed /\ Sent /\ OwnChangesShown

LEMMA TabInit == ASSUME ConsoleInit PROVE TabInv
  <1> USE DEF ConsoleInit
  <1>1. NoRequest \in Fetch /\ NoRequest \in Call /\ [pc |-> "asked", awaited |-> FALSE] \in Fetch
    BY DEF NoRequest, Fetch, Call
  <1>2. ConsoleTypeOK
    BY <1>1 DEF ConsoleTypeOK
  <1>3. \A a \in Admins, b \in Buttons : call[a][b].pc = "idle"
    BY DEF NoRequest
  <1>4. Confirmed
    BY <1>3 DEF Confirmed, Row
  <1>5. OwnChangesShown
    BY DEF OwnChangesShown, NoList
  <1>6. Sent
    BY <1>3 DEF Sent, Buttons
  <1> QED
    BY <1>2, <1>4, <1>5, <1>6 DEF TabInv

\* One call that becomes another keeps the type of all.
LEMMA CallStep ==
    ASSUME ConsoleTypeOK, NEW a \in Admins, NEW b \in Buttons, NEW x \in Call,
           call' = [call EXCEPT ![a][b] = x]
    PROVE  /\ call' \in [Admins -> [Buttons -> Call]]
           /\ call'[a][b] = x
           /\ \A c \in Admins, d \in Buttons : c # a \/ d # b => call'[c][d] = call[c][d]
  BY DEF ConsoleTypeOK

LEMMA FetchStep ==
    ASSUME ConsoleTypeOK, NEW a \in Admins, NEW awaited \in BOOLEAN, StartFetch(a, awaited)
    PROVE  /\ fetch' \in [Admins -> Fetch]
           /\ fetch'[a] # NoRequest
           /\ fetch'[a].pc = "asked" \/ (list[a] = NoList /\ fetch'[a] = fetch[a])
           /\ \A c \in Admins : c # a => fetch'[c] = fetch[c]
  <1>1. [pc |-> "asked", awaited |-> awaited] \in Fetch \ {NoRequest}
    BY DEF Fetch, NoRequest
  <1> QED
    BY <1>1 DEF ConsoleTypeOK, StartFetch

LEMMA SendInv ==
    ASSUME TabInv, NEW a \in Admins, NEW b \in Buttons, NEW x \in Call, x.pc = "sent", Send(a, b, x),
           b = "toggle" => x.enabled \in BOOLEAN
    PROVE  TabInv'
  <1>1. ConsoleTypeOK /\ call' = [call EXCEPT ![a][b] = x]
    BY DEF TabInv, Send
  <1>2. ConsoleTypeOK'
    BY <1>1, CallStep DEF Send, ConsoleTypeOK
  <1>3. Confirmed'
    BY <1>1, CallStep DEF Send, TabInv, Confirmed
  <1>4. Sent'
    BY <1>1, CallStep DEF TabInv, Sent, Buttons
  <1> QED
    BY <1>2, <1>3, <1>4 DEF Send, TabInv, OwnChangesShown

LEMMA ButtonInv ==
    ASSUME TabInv, NEW a \in Admins, Toggle(a) \/ Save(a) \/ TriggerNow(a) \/ CreateTemplate(a)
    PROVE  TabInv'
  <1>1. [pc |-> "sent"] \in Call
    BY DEF Call
  <1>2. CASE Toggle(a)
    <2>1. list[a] \in Row
      BY <1>2 DEF Toggle, Shown, TabInv, ConsoleTypeOK
    <2>2. (~list[a].enabled) \in BOOLEAN
      OBVIOUS
    <2>3. [pc |-> "sent", enabled |-> ~list[a].enabled] \in Call
      BY <2>2 DEF Call
    <2> QED
      BY <1>2, <2>3, SendInv DEF Toggle, Buttons
  <1> QED
    BY <1>1, <1>2, SendInv DEF Save, TriggerNow, CreateTemplate, Buttons

LEMMA CacheInv ==
    ASSUME TabInv, NEW a \in Admins,
           Refresh(a) \/ ServeList(a) \/ ShowList(a) \/ FetchFails(a)
    PROVE  TabInv'
  <1> USE DEF TabInv
  <1>0. Sent'
    BY DEF Refresh, ServeList, ShowList, FetchFails, Sent
  <1>1. CASE Refresh(a)
    <2>1. ConsoleTypeOK'
      BY <1>1, FetchStep DEF Refresh, ConsoleTypeOK
    <2>2. Confirmed' /\ OwnChangesShown'
      BY <1>1, FetchStep DEF Refresh, Confirmed, OwnChangesShown
    <2> QED
      BY <1>0, <2>1, <2>2
  <1>2. CASE ServeList(a)
    <2> DEFINE f == [pc |-> "answered", awaited |-> fetch[a].awaited, data |-> row]
    <2>1. fetch[a] \in Fetch /\ fetch[a].pc = "asked"
      BY <1>2 DEF ServeList, ConsoleTypeOK
    <2>2. fetch[a].awaited \in BOOLEAN
      BY <2>1 DEF Fetch, NoRequest
    <2>3. f \in Fetch /\ f # NoRequest
      BY <2>2 DEF ConsoleTypeOK, Fetch, NoRequest
    <2>4. fetch' = [fetch EXCEPT ![a] = f]
      BY <1>2 DEF ServeList
    <2>5. ConsoleTypeOK'
      BY <1>2, <2>3, <2>4 DEF ServeList, ConsoleTypeOK
    <2>6. Confirmed'
      BY <1>2, <2>4 DEF ServeList, ConsoleTypeOK, Confirmed
    <2>7. OwnChangesShown'
      BY <1>2, <2>3, <2>4 DEF ServeList, ConsoleTypeOK, OwnChangesShown
    <2> QED
      BY <1>0, <2>5, <2>6, <2>7
  <1>3. CASE ShowList(a)
    <2>1. fetch[a] \in Fetch /\ fetch[a].pc = "answered"
      BY <1>3 DEF ShowList, ConsoleTypeOK
    <2>2. fetch[a].data \in Row
      BY <2>1 DEF Fetch, NoRequest
    <2>3. NoRequest \in Fetch /\ NoRequest.pc = "idle"
      BY DEF Fetch, NoRequest
    <2>4. ConsoleTypeOK'
      BY <1>3, <2>2, <2>3 DEF ShowList, ConsoleTypeOK
    <2>5. list'[a].version >= own[a]
      BY <1>3, <2>1 DEF ShowList, ConsoleTypeOK, Confirmed
    <2>6. list'[a] = NoList => own[a] = 0
      BY <2>5 DEF NoList, ConsoleTypeOK
    <2>7. Confirmed'
      BY <1>3, <2>3, <2>6 DEF ShowList, ConsoleTypeOK, Confirmed
    <2>8. OwnChangesShown'
      BY <1>3, <2>5 DEF ShowList, ConsoleTypeOK, OwnChangesShown
    <2> QED
      BY <1>0, <2>4, <2>7, <2>8
  <1>4. CASE FetchFails(a)
    <2>1. NoRequest \in Fetch /\ NoRequest.pc = "idle" /\ 0 \in 0 .. MaxChanges
      BY DEF Fetch, NoRequest
    <2>2. failures' \in 0 .. MaxFailures
      BY <1>4 DEF FetchFails, Fault, ConsoleTypeOK
    <2>3. ConsoleTypeOK'
      BY <1>4, <2>1, <2>2 DEF FetchFails, ConsoleTypeOK
    <2>4. row.version \in Nat /\ list[a].version \in Nat
      BY DEF ConsoleTypeOK, Row, NoList
    <2>5. Confirmed'
      BY <1>4, <2>1, <2>4 DEF FetchFails, ConsoleTypeOK, Confirmed
    <2>6. OwnChangesShown'
      BY <1>4, <2>4 DEF FetchFails, ConsoleTypeOK, OwnChangesShown
    <2> QED
      BY <1>0, <2>3, <2>5, <2>6
  <1> QED
    BY <1>1, <1>2, <1>3, <1>4

\* The row's version only grows.
LEMMA ChangedRow ==
    ASSUME TabInv, NEW to \in Row, Changed(to)
    PROVE  row' \in Row /\ row'.version = row.version + 1
  BY DEF TabInv, Changed, ConsoleTypeOK, Row

LEMMA ServeRow ==
    ASSUME TabInv, NEW a \in Admins, NEW b \in Buttons, Serve(a, b)
    PROVE  row' \in Row /\ row'.version = row.version + 1
  <1>1. row \in Row /\ ConsoleTypeOK
    BY DEF TabInv, ConsoleTypeOK
  <1>2. CASE b = "toggle"
    <2>1. Changed([row EXCEPT !.enabled = call[a][b].enabled])
      BY <1>2 DEF Serve, Handle, Patch
    <2>2. call[a][b].enabled \in BOOLEAN
      BY <1>2 DEF TabInv, Sent, Serve
    <2>3. [row EXCEPT !.enabled = call[a][b].enabled] \in Row
      BY <1>1, <2>2 DEF Row
    <2> QED
      BY <1>1, <2>1, <2>3, ChangedRow
  <1>3. CASE b # "toggle"
    BY <1>1, <1>3, ChangedRow DEF Serve, Handle, Patch
  <1> QED
    BY <1>2, <1>3

LEMMA ServeInv ==
    ASSUME TabInv, NEW a \in Admins, NEW b \in Buttons, Serve(a, b)
    PROVE  TabInv'
  <1> DEFINE x == [pc |-> "answered", version |-> row'.version]
  <1>1. row' \in Row /\ row'.version = row.version + 1
    BY ServeRow
  <1>2. ConsoleTypeOK /\ row.version \in Nat
    BY DEF TabInv, ConsoleTypeOK, Row
  <1>3. x \in Call
    BY <1>1 DEF Call, Row
  <1>4. call' = [call EXCEPT ![a][b] = x] /\ UNCHANGED <<list, fetch, own, failures>>
    BY DEF Serve, browser
  <1>5. /\ call' \in [Admins -> [Buttons -> Call]]
        /\ call'[a][b] = x
        /\ \A c \in Admins, d \in Buttons : c # a \/ d # b => call'[c][d] = call[c][d]
    <2> HIDE DEF x
    <2> QED
      BY <1>2, <1>3, <1>4, CallStep
  <1>6. ConsoleTypeOK'
    BY <1>1, <1>2, <1>4, <1>5 DEF ConsoleTypeOK
  <1>7. \A c \in Admins, d \in Buttons :
            call'[c][d].pc = "answered" => call'[c][d].version <= row'.version
    <2> TAKE c \in Admins, d \in Buttons
    <2>1. CASE c = a /\ d = b
      BY <1>1, <1>5, <2>1 DEF Row
    <2>2. CASE ~(c = a /\ d = b)
      <3>1. call'[c][d] = call[c][d] /\ call[c][d] \in Call
        BY <1>2, <1>5, <2>2 DEF ConsoleTypeOK
      <3> QED
        BY <1>1, <1>2, <3>1 DEF TabInv, Confirmed, Call, NoRequest
    <2> QED
      BY <2>1, <2>2
  <1>8. Confirmed'
    BY <1>1, <1>2, <1>4, <1>7 DEF TabInv, Confirmed, ConsoleTypeOK
  <1>9. Sent' /\ OwnChangesShown'
    BY <1>4, <1>5 DEF TabInv, Sent, OwnChangesShown, Buttons
  <1> QED
    BY <1>6, <1>8, <1>9 DEF TabInv

LEMMA CappedInv == ASSUME TabInv, DisableCapped PROVE TabInv'
  <1>1. ConsoleTypeOK /\ row.version \in Nat
    BY DEF TabInv, ConsoleTypeOK, Row
  <1>2. [row EXCEPT !.enabled = FALSE] \in Row
    BY <1>1 DEF ConsoleTypeOK, Row
  <1>3. row' \in Row /\ row'.version = row.version + 1
    BY <1>1, <1>2, ChangedRow DEF DisableCapped
  <1>4. ConsoleTypeOK'
    BY <1>1, <1>3 DEF DisableCapped, browser, ConsoleTypeOK
  <1>5. \A c \in Admins, d \in Buttons :
            call[c][d].pc = "answered" => call[c][d].version <= row.version + 1
    BY <1>1 DEF TabInv, Confirmed, ConsoleTypeOK, Call, NoRequest
  <1>6. Confirmed'
    BY <1>1, <1>3, <1>5 DEF DisableCapped, browser, TabInv, Confirmed, ConsoleTypeOK
  <1> QED
    BY <1>4, <1>6 DEF DisableCapped, browser, TabInv, Sent, OwnChangesShown

\* The call is over or waits, and a fetch is under way.
LEMMA EndedInv ==
    ASSUME TabInv, NEW a \in Admins, NEW b \in Buttons, NEW x \in {NoRequest, [pc |-> "waiting"]},
           call' = [call EXCEPT ![a][b] = x]
    PROVE  /\ call' \in [Admins -> [Buttons -> Call]]
           /\ Sent'
           /\ \A c \in Admins, d \in Buttons : call'[c][d].pc = "answered" => call'[c][d] = call[c][d]
  <1>1. x \in Call /\ x.pc \in {"idle", "waiting"}
    BY DEF Call, NoRequest
  <1>2. /\ call' \in [Admins -> [Buttons -> Call]]
        /\ call'[a][b] = x
        /\ \A c \in Admins, d \in Buttons : c # a \/ d # b => call'[c][d] = call[c][d]
    <2>1. ConsoleTypeOK
      BY DEF TabInv
    <2> QED
      BY <1>1, <2>1 DEF ConsoleTypeOK
  <1>3. "toggle" \in Buttons
    BY DEF Buttons
  <1>4. \A c \in Admins, d \in Buttons : call'[c][d] = call[c][d] \/ call'[c][d] = x
    BY <1>2
  <1>5. Sent'
    BY <1>1, <1>3, <1>4 DEF TabInv, Sent
  <1> QED
    BY <1>1, <1>2, <1>4, <1>5

LEMMA AnswerInv ==
    ASSUME TabInv, NEW a \in Admins, NEW b \in Buttons, Answer(a, b)
    PROVE  TabInv'
  <1> DEFINE x == IF b = "toggle" THEN [pc |-> "waiting"] ELSE NoRequest
  <1>1. ConsoleTypeOK /\ call' = [call EXCEPT ![a][b] = x] /\ StartFetch(a, b = "toggle")
    BY DEF Answer, TabInv
  <1>2. /\ call' \in [Admins -> [Buttons -> Call]]
        /\ Sent'
        /\ \A c \in Admins, d \in Buttons : call'[c][d].pc = "answered" => call'[c][d] = call[c][d]
    <2>1. x \in {NoRequest, [pc |-> "waiting"]}
      OBVIOUS
    <2> QED
      BY <1>1, <2>1, EndedInv
  <1>3. /\ fetch' \in [Admins -> Fetch]
        /\ fetch'[a] # NoRequest
        /\ fetch'[a].pc = "asked" \/ (list[a] = NoList /\ fetch'[a] = fetch[a])
        /\ \A c \in Admins : c # a => fetch'[c] = fetch[c]
    <2>1. (b = "toggle") \in BOOLEAN
      OBVIOUS
    <2> QED
      BY <1>1, <2>1, FetchStep
  <1>4. call[a][b] \in Call /\ call[a][b].pc = "answered" /\ call[a][b].version <= row.version
    BY <1>1 DEF Answer, TabInv, Confirmed, ConsoleTypeOK
  <1>5. call[a][b].version \in 0 .. MaxChanges
    BY <1>4 DEF Call, NoRequest
  <1>6. own' \in [Admins -> 0 .. MaxChanges] /\ \A c \in Admins : c # a => own'[c] = own[c]
    BY <1>1, <1>5 DEF Answer, ConsoleTypeOK
  <1>7. own'[a] <= row.version /\ (list[a] = NoList => own'[a] = own[a])
    BY <1>1, <1>4 DEF Answer, ConsoleTypeOK, TabInv, Confirmed
  <1>8. ConsoleTypeOK'
    BY <1>1, <1>2, <1>3, <1>6 DEF Answer, ConsoleTypeOK
  <1>9. Confirmed'
    <2>1. \A c \in Admins : own'[c] <= row.version /\ (list[c] = NoList => own'[c] = 0)
      BY <1>6, <1>7 DEF TabInv, Confirmed
    <2>2. \A c \in Admins : fetch'[c].pc = "answered" => fetch'[c].data.version >= own'[c]
      BY <1>3, <1>6, <1>7 DEF TabInv, Confirmed
    <2>3. \A c \in Admins, d \in Buttons :
            call'[c][d].pc = "answered" => call'[c][d].version <= row.version
      BY <1>2 DEF TabInv, Confirmed
    <2> QED
      BY <2>1, <2>2, <2>3 DEF Answer, Confirmed
  <1>10. OwnChangesShown'
    BY <1>3, <1>6 DEF Answer, TabInv, OwnChangesShown
  <1> QED
    BY <1>2, <1>8, <1>9, <1>10 DEF TabInv

LEMMA WaitedInv == ASSUME TabInv, NEW a \in Admins, Waited(a) PROVE TabInv'
  <1>1. ConsoleTypeOK /\ call' = [call EXCEPT ![a]["toggle"] = NoRequest] /\ StartFetch(a, FALSE)
    BY DEF Waited, TabInv
  <1>2. /\ call' \in [Admins -> [Buttons -> Call]]
        /\ Sent'
        /\ \A c \in Admins, d \in Buttons : call'[c][d].pc = "answered" => call'[c][d] = call[c][d]
    BY <1>1, EndedInv DEF Buttons
  <1>3. /\ fetch' \in [Admins -> Fetch]
        /\ fetch'[a] # NoRequest
        /\ fetch'[a].pc = "asked" \/ (list[a] = NoList /\ fetch'[a] = fetch[a])
        /\ \A c \in Admins : c # a => fetch'[c] = fetch[c]
    BY <1>1, FetchStep
  <1>4. ConsoleTypeOK'
    BY <1>1, <1>2, <1>3 DEF Waited, ConsoleTypeOK
  <1>5. Confirmed'
    BY <1>2, <1>3 DEF Waited, TabInv, Confirmed
  <1>6. OwnChangesShown'
    BY <1>3 DEF Waited, TabInv, OwnChangesShown
  <1> QED
    BY <1>2, <1>4, <1>5, <1>6 DEF TabInv

LEMMA CallFailsInv ==
    ASSUME TabInv, NEW a \in Admins, NEW b \in Buttons, CallFails(a, b)
    PROVE  TabInv'
  <1>1. ConsoleTypeOK /\ call' = [call EXCEPT ![a][b] = NoRequest]
    BY DEF CallFails, TabInv
  <1>2. /\ call' \in [Admins -> [Buttons -> Call]]
        /\ Sent'
        /\ \A c \in Admins, d \in Buttons : call'[c][d].pc = "answered" => call'[c][d] = call[c][d]
    BY <1>1, EndedInv
  <1>3. failures' \in 0 .. MaxFailures
    BY <1>1 DEF CallFails, Fault, ConsoleTypeOK
  <1>4. ConsoleTypeOK'
    BY <1>1, <1>2, <1>3 DEF CallFails, browser, ConsoleTypeOK
  <1>5. Confirmed' /\ OwnChangesShown'
    BY <1>2 DEF CallFails, browser, TabInv, Confirmed, OwnChangesShown
  <1> QED
    BY <1>2, <1>4, <1>5 DEF TabInv

LEMMA TabStep == TabInv /\ [ConsoleNext]_consoleVars => TabInv'
  <1> SUFFICES ASSUME TabInv, [ConsoleNext]_consoleVars PROVE TabInv'
    OBVIOUS
  <1>1. CASE \E a \in Admins :
               Refresh(a) \/ ServeList(a) \/ ShowList(a) \/ FetchFails(a)
    BY <1>1, CacheInv
  <1>2. CASE \E a \in Admins : Toggle(a) \/ Save(a) \/ TriggerNow(a) \/ CreateTemplate(a)
    BY <1>2, ButtonInv
  <1>3. CASE \E a \in Admins, b \in Buttons : Serve(a, b)
    BY <1>3, ServeInv
  <1>4. CASE \E a \in Admins, b \in Buttons : Answer(a, b)
    BY <1>4, AnswerInv
  <1>5. CASE \E a \in Admins, b \in Buttons : CallFails(a, b)
    BY <1>5, CallFailsInv
  <1>6. CASE \E a \in Admins : Waited(a)
    BY <1>6, WaitedInv
  <1>7. CASE DisableCapped
    BY <1>7, CappedInv
  <1>8. CASE UNCHANGED consoleVars
    BY <1>8 DEF consoleVars, browser, TabInv, ConsoleTypeOK, Confirmed, Sent, OwnChangesShown
  <1> QED
    BY <1>1, <1>2, <1>3, <1>4, <1>5, <1>6, <1>7, <1>8 DEF ConsoleNext, Progress

LEMMA TabInvariance == ConsoleSpec => []TabInv
  <1>1. ConsoleInit => TabInv
    BY TabInit
  <1> QED
    BY <1>1, TabStep, PTL DEF ConsoleSpec

\* Every browser, fetch and call keeps its type.
THEOREM TabTypeCorrect == ConsoleSpec => []ConsoleTypeOK
  BY TabInvariance, PTL DEF TabInv

\* However many browsers act at once, and whatever fails, a browser without a
\* fetch under way shows every change of its own that was confirmed to it: the
\* fetches of adminQueries.ts are dropped for newer ones by handleUpdated and
\* handleToggle.
THEOREM OwnShown == ConsoleSpec => []OwnChangesShown
  BY TabInvariance, PTL DEF TabInv

\* One step switches a template on only as the answer to a click on its switch:
\* neither PATCH /:id of a form, nor fillSlots, a trigger or a new template.
LEMMA EnabledStep ==
    TabInv /\ [ConsoleNext]_consoleVars =>
      (~row.enabled /\ row'.enabled
          => \E a \in Admins : call[a]["toggle"].pc = "sent" /\ call'[a]["toggle"] # call[a]["toggle"])
  <1> SUFFICES ASSUME TabInv, [ConsoleNext]_consoleVars, ~row.enabled, row'.enabled
               PROVE  \E a \in Admins :
                          call[a]["toggle"].pc = "sent" /\ call'[a]["toggle"] # call[a]["toggle"]
    OBVIOUS
  <1>0. row \in Row /\ ConsoleTypeOK
    BY DEF TabInv, ConsoleTypeOK
  <1>1. row' # row
    OBVIOUS
  <1>2. ~DisableCapped
    BY DEF DisableCapped
  <1>3. PICK a \in Admins, b \in Buttons : Serve(a, b)
    BY <1>1, <1>2 DEF ConsoleNext, Progress, consoleVars, Refresh, ServeList, ShowList, FetchFails, Toggle, Save,
       TriggerNow, CreateTemplate, Send, Answer, Waited, CallFails
  <1>4. b = "toggle"
    <2> SUFFICES ASSUME b # "toggle" PROVE FALSE
      OBVIOUS
    <2>1. Changed(row)
      BY <1>3 DEF Serve, Handle, Patch
    <2> QED
      BY <1>0, <2>1 DEF Changed, Row
  <1>5. call'[a]["toggle"].pc = "answered" /\ call[a]["toggle"].pc = "sent"
    BY <1>0, <1>3, <1>4 DEF Serve, ConsoleTypeOK
  <1> QED
    BY <1>5

\* A disabled template is enabled by a click on its switch and by nothing else.
THEOREM SwitchEnables == ConsoleSpec => EnabledBySwitch
  BY TabInvariance, EnabledStep, PTL DEF ConsoleSpec, EnabledBySwitch
=============================================================================
