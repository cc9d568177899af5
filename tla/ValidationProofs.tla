--------------------------- MODULE ValidationProofs ---------------------------
(***************************************************************************)
(* Theorems about Validation, for any finite numbers of validators and of  *)
(* handlers in flight and every bound.                                     *)
(***************************************************************************)
EXTENDS Validation, FiniteSetTheorems, TLAPS

USE ValidationAssumption DEF Procs

(***************************************************************************)
(* Types                                                                   *)
(***************************************************************************)
LEMMA IdleJob ==
    /\ Idle \in Job /\ Idle.pc = "idle" /\ Idle.todo = {} /\ Idle.verdict = "none"
    /\ Idle.choice = "none"
  BY DEF Idle, Job, Pc

LEMMA JobType ==
    ASSUME TypeOK, NEW p \in Procs
    PROVE  /\ job[p] \in Job /\ job[p].pc \in Pc /\ job[p].todo \subseteq Validators
           /\ job[p].choice \in {"none", "approve", "reject"}
           /\ job[p].verdict \in {"none", "approved", "rejected"}
  BY DEF TypeOK, Job

LEMMA GotoStep ==
    ASSUME TypeOK, NEW p \in Procs, NEW pc \in Pc, NEW todo \in SUBSET Validators, Goto(p, pc, todo)
    PROVE  /\ job' \in [Procs -> Job]
           /\ job'[p].pc = pc /\ job'[p].todo = todo
           /\ job'[p].choice = job[p].choice /\ job'[p].verdict = job[p].verdict
           /\ \A q \in Procs \ {p} : job'[q] = job[q]
  <1> DEFINE x == [job[p] EXCEPT !.pc = pc, !.todo = todo]
  <1>1. x \in Job /\ x.pc = pc /\ x.todo = todo /\ x.choice = job[p].choice /\ x.verdict = job[p].verdict
    BY JobType DEF Job
  <1>2. job' = [job EXCEPT ![p] = x]
    BY DEF Goto, TypeOK
  <1> HIDE DEF x
  <1> QED
    BY <1>1, <1>2 DEF TypeOK

LEMMA FinishStep ==
    ASSUME TypeOK, NEW p \in Procs, Finish(p)
    PROVE  /\ job' \in [Procs -> Job] /\ job'[p] = Idle
           /\ \A q \in Procs \ {p} : job'[q] = job[q]
  BY IdleJob DEF Finish, TypeOK

LEMMA StartStep ==
    ASSUME TypeOK, NEW p \in Procs, NEW pc \in Pc, NEW todo \in SUBSET Validators,
           NEW choice \in {"none", "approve", "reject"}, Start(p, pc, todo, choice)
    PROVE  /\ job' \in [Procs -> Job] /\ job[p] = Idle
           /\ job'[p].pc = pc /\ job'[p].todo = todo /\ job'[p].choice = choice
           /\ job'[p].verdict = "none"
           /\ \A q \in Procs \ {p} : job'[q] = job[q]
           /\ overlapped' \in BOOLEAN
           /\ ~overlapped' => ~overlapped /\ \A q \in Procs : job[q] = Idle
  <1> DEFINE x == [Idle EXCEPT !.pc = pc, !.todo = todo, !.choice = choice]
  <1>1. x \in Job /\ x.pc = pc /\ x.todo = todo /\ x.choice = choice /\ x.verdict = "none"
    BY DEF Job, Idle
  <1>2. job' = [job EXCEPT ![p] = x] /\ job[p] = Idle
    BY DEF Start
  <1>3. overlapped' = (overlapped \/ \E q \in Procs : job[q] # Idle)
    BY DEF Start
  <1> HIDE DEF x
  <1> QED
    BY <1>1, <1>2, <1>3 DEF TypeOK

\* What AfterPenalties leaves of a job.
LEMMA AfterPenaltiesStep ==
    ASSUME TypeOK, NEW p \in Procs, AfterPenalties(p)
    PROVE  /\ job' \in [Procs -> Job]
           /\ \A q \in Procs \ {p} : job'[q] = job[q]
           /\ \/ job'[p] = Idle /\ job[p].verdict # "rejected"
              \/ /\ job'[p].pc = "refund" /\ job[p].verdict = "rejected"
                 /\ job'[p].verdict = "rejected"
  <1>1. CASE job[p].verdict = "rejected"
    <2>1. Goto(p, "refund", {}) /\ "refund" \in Pc /\ {} \in SUBSET Validators
      BY <1>1 DEF AfterPenalties, Pc
    <2> QED
      BY <1>1, <2>1, GotoStep
  <1>2. CASE job[p].verdict # "rejected"
    BY <1>2, FinishStep DEF AfterPenalties
  <1> QED
    BY <1>1, <1>2

(***************************************************************************)
(* What each step of a handler does to it                                  *)
(***************************************************************************)
Others(p) == job' \in [Procs -> Job] /\ \A q \in Procs \ {p} : job'[q] = job[q]

LEMMA ReadPoolJob ==
    ASSUME TypeOK, NEW p \in Procs, ReadPool(p)
    PROVE  /\ Others(p) /\ job[p].pc = "pool"
           /\ \/ job'[p] = Idle
              \/ job'[p].pc = "insert" /\ Cardinality(job'[p].todo) <= 3
  <1>1. PICK selected \in SUBSET Validators :
            /\ Cardinality(selected) <= 3
            /\ IF selected = {} THEN Finish(p) ELSE Goto(p, "insert", selected)
    BY DEF ReadPool
  <1>2. "insert" \in Pc
    BY DEF Pc
  <1> QED
    BY <1>1, <1>2, FinishStep, GotoStep DEF ReadPool, At, Others

LEMMA InsertJob ==
    ASSUME TypeOK, NEW p \in Procs, InsertValidation(p)
    PROVE  /\ Others(p) /\ job[p].pc = "insert"
           /\ \E v \in job[p].todo :
                /\ vote' = [vote EXCEPT ![v] = "pending"]
                /\ \/ job'[p] = Idle
                   \/ job'[p].pc = "insert" /\ job'[p].todo = job[p].todo \ {v}
  <1>1. PICK v \in job[p].todo :
            /\ vote' = [vote EXCEPT ![v] = "pending"]
            /\ IF job[p].todo = {v} THEN Finish(p) ELSE Goto(p, "insert", job[p].todo \ {v})
    BY DEF InsertValidation
  <1>2. "insert" \in Pc /\ job[p].todo \ {v} \in SUBSET Validators
    BY JobType DEF Pc
  <1>3. Finish(p) => Others(p) /\ job'[p] = Idle
    BY FinishStep DEF Others
  <1>4. ASSUME Goto(p, "insert", job[p].todo \ {v})
        PROVE  Others(p) /\ job'[p].pc = "insert" /\ job'[p].todo = job[p].todo \ {v}
    <2>1. PICK todo \in SUBSET Validators : todo = job[p].todo \ {v}
      BY <1>2
    <2>2. Goto(p, "insert", todo) /\ "insert" \in Pc
      BY <1>2, <1>4, <2>1
    <2>3. /\ job' \in [Procs -> Job] /\ job'[p].pc = "insert" /\ job'[p].todo = todo
          /\ job'[p].verdict = job[p].verdict
          /\ \A q \in Procs \ {p} : job'[q] = job[q]
      BY <2>2, GotoStep
    <2> QED
      BY <2>1, <2>3 DEF Others
  <1> QED
    BY <1>1, <1>3, <1>4 DEF InsertValidation, At

LEMMA WriteVoteJob ==
    ASSUME TypeOK, NEW p \in Procs, WriteVote(p)
    PROVE  /\ Others(p) /\ job[p].pc = "vote" /\ job'[p].pc = "count"
  <1>1. "count" \in Pc /\ {} \in SUBSET Validators
    BY DEF Pc
  <1> QED
    BY <1>1, GotoStep DEF WriteVote, At, Others

LEMMA CountJob ==
    ASSUME TypeOK, NEW p \in Procs, CountVotes(p)
    PROVE  LET n(kind) == Cardinality(Votes(kind))
               verdict == Verdict(n("approve"), n("reject"), n("timeout"))
           IN  /\ Others(p) /\ job[p].pc = "count"
               /\ \/ job'[p] = Idle
                  \/ /\ job'[p].pc = "apply" /\ job'[p].verdict = verdict
                     /\ verdict \in {"approved", "rejected"}
  <1> DEFINE n(kind) == Cardinality(Votes(kind))
             verdict == Verdict(n("approve"), n("reject"), n("timeout"))
             x == [job[p] EXCEPT !.pc = "apply", !.verdict = verdict]
  <1>1. verdict \in {"none", "approved", "rejected"}
    BY DEF Verdict
  <1>2. /\ job[p].pc = "count"
        /\ IF verdict = "none" THEN Finish(p)
           ELSE job' = [job EXCEPT ![p].pc = "apply", ![p].verdict = verdict]
    BY DEF CountVotes, At
  <1> HIDE DEF verdict
  <1>3. CASE verdict = "none"
    BY <1>2, <1>3, FinishStep DEF Others, verdict
  <1>4. CASE verdict # "none"
    <2>1. x \in Job /\ x.pc = "apply" /\ x.verdict = verdict
      BY <1>1, JobType DEF Job, Pc
    <2>2. job' = [job EXCEPT ![p] = x]
      BY <1>2, <1>4 DEF TypeOK
    <2> HIDE DEF x
    <2>3. Others(p) /\ job'[p] = x
      BY <2>1, <2>2 DEF TypeOK, Others
    <2>4. job'[p].pc = "apply" /\ job'[p].verdict = verdict /\ verdict \in {"approved", "rejected"}
      BY <1>1, <1>4, <2>1, <2>3
    <2> QED
      BY <1>2, <2>3, <2>4 DEF verdict
  <1> QED
    BY <1>3, <1>4

LEMMA ApplyJob ==
    ASSUME TypeOK, NEW p \in Procs, Apply(p), job[p].verdict \in {"approved", "rejected"}
    PROVE  /\ Others(p) /\ job[p].pc = "apply"
           /\ \/ job'[p] = Idle
              \/ /\ job'[p].pc = job[p].verdict /\ job'[p].verdict = job[p].verdict
                 /\ submission = "validating"
  <1>1. job[p].verdict \in Pc /\ {} \in SUBSET Validators
    BY DEF Pc
  <1> QED
    BY <1>1, FinishStep, GotoStep DEF Apply, At, StillValidating, Others

LEMMA VerdictJob ==
    ASSUME TypeOK, NEW p \in Procs, WriteVerdict(p)
    PROVE  /\ Others(p) /\ job[p].pc \in {"approved", "rejected"}
           /\ submission' = job[p].pc /\ settled' = settled + 1
           /\ job'[p].pc = IF job[p].pc = "approved" THEN "pay" ELSE "late"
           /\ job'[p].verdict = job[p].verdict
  <1>1. "pay" \in Pc /\ "late" \in Pc /\ {} \in SUBSET Validators
    BY DEF Pc
  <1> QED
    BY <1>1, GotoStep DEF WriteVerdict, At, Others

LEMMA PayJob ==
    ASSUME TypeOK, NEW p \in Procs, Pay(p)
    PROVE  /\ Others(p) /\ job[p].pc = "pay" /\ job'[p].verdict = job[p].verdict
           /\ \/ usdc /\ job'[p].pc = "send" /\ UNCHANGED <<paid, held>>
              \/ usdc /\ job'[p].pc = "voters" /\ held' = held + 1 /\ UNCHANGED paid
              \/ ~usdc /\ job'[p].pc = "voters" /\ paid' = paid + 1 /\ UNCHANGED held
  <1>1. "send" \in Pc /\ "voters" \in Pc /\ {} \in SUBSET Validators
    BY DEF Pc
  <1> QED
    BY <1>1, GotoStep DEF Pay, At, Others

LEMMA SendJob ==
    ASSUME TypeOK, NEW p \in Procs, SendUsdc(p)
    PROVE  /\ Others(p) /\ job[p].pc = "send" /\ job'[p].verdict = job[p].verdict
           /\ \/ job'[p].pc = "record" /\ sent' = sent + 1 /\ UNCHANGED failed
              \/ job'[p].pc = "voters" /\ sent' \in {sent, sent + 1} /\ failed' = failed + 1
  <1>1. "record" \in Pc /\ "voters" \in Pc /\ {} \in SUBSET Validators
    BY DEF Pc
  <1> QED
    BY <1>1, GotoStep DEF SendUsdc, Caught, At, Others

LEMMA RecordJob ==
    ASSUME TypeOK, NEW p \in Procs, RecordUsdc(p)
    PROVE  /\ Others(p) /\ job[p].pc = "record" /\ job'[p].verdict = job[p].verdict
           /\ job'[p].pc = "voters"
           /\ \/ recorded' = recorded + 1 /\ UNCHANGED failed
              \/ failed' = failed + 1 /\ UNCHANGED recorded
  <1>1. "voters" \in Pc /\ {} \in SUBSET Validators
    BY DEF Pc
  <1> QED
    BY <1>1, GotoStep DEF RecordUsdc, Caught, At, Others

LEMMA ReadVotersJob ==
    ASSUME TypeOK, NEW p \in Procs, ReadVoters(p)
    PROVE  /\ Others(p) /\ job[p].pc = "voters" /\ job'[p].verdict = job[p].verdict
           /\ \/ job'[p].pc = "late"
              \/ job'[p].pc = "reward" /\ job'[p].todo = Voters
  <1>1. "late" \in Pc /\ "reward" \in Pc /\ {} \in SUBSET Validators /\ Voters \in SUBSET Validators
    BY DEF Pc, Voters, Votes
  <1> QED
    BY <1>1, GotoStep DEF ReadVoters, At, Others

LEMMA RewardJob ==
    ASSUME TypeOK, NEW p \in Procs, Reward(p)
    PROVE  /\ Others(p) /\ job[p].pc = "reward" /\ job'[p].verdict = job[p].verdict
           /\ \E v \in job[p].todo :
                /\ v \in Validators /\ reward' = [reward EXCEPT ![v] = reward[v] + 1]
                /\ \/ job'[p].pc = "late"
                   \/ job'[p].pc = "reward" /\ job'[p].todo = job[p].todo \ {v}
  <1>1. PICK v \in job[p].todo :
            /\ reward' = [reward EXCEPT ![v] = reward[v] + 1]
            /\ IF job[p].todo = {v} THEN Goto(p, "late", {}) ELSE Goto(p, "reward", job[p].todo \ {v})
    BY DEF Reward
  <1>2. /\ "late" \in Pc /\ "reward" \in Pc /\ {} \in SUBSET Validators
        /\ job[p].todo \ {v} \in SUBSET Validators /\ v \in Validators
    BY JobType DEF Pc
  <1>3. Goto(p, "late", {}) =>
            Others(p) /\ job'[p].pc = "late" /\ job'[p].verdict = job[p].verdict
    BY <1>2, GotoStep DEF Others
  <1>4. ASSUME Goto(p, "reward", job[p].todo \ {v})
        PROVE  /\ Others(p) /\ job'[p].pc = "reward" /\ job'[p].todo = job[p].todo \ {v}
               /\ job'[p].verdict = job[p].verdict
    <2>1. PICK todo \in SUBSET Validators : todo = job[p].todo \ {v}
      BY <1>2
    <2>2. Goto(p, "reward", todo) /\ "reward" \in Pc
      BY <1>2, <1>4, <2>1
    <2>3. /\ job' \in [Procs -> Job] /\ job'[p].pc = "reward" /\ job'[p].todo = todo
          /\ job'[p].verdict = job[p].verdict
          /\ \A q \in Procs \ {p} : job'[q] = job[q]
      BY <2>2, GotoStep
    <2> QED
      BY <2>1, <2>3 DEF Others
  <1> QED
    BY <1>1, <1>2, <1>3, <1>4 DEF Reward, At

LEMMA ReadMissedJob ==
    ASSUME TypeOK, NEW p \in Procs, ReadMissed(p)
    PROVE  /\ Others(p) /\ job[p].pc = "late"
           /\ \/ job'[p] = Idle /\ job[p].verdict # "rejected"
              \/ job'[p].pc = "refund" /\ job[p].verdict = "rejected" /\ job'[p].verdict = "rejected"
              \/ job'[p].pc = "penalise" /\ job'[p].todo = Missed /\ job'[p].verdict = job[p].verdict
  <1>1. "penalise" \in Pc /\ Missed \in SUBSET Validators
    BY DEF Pc, Missed, Votes
  <1> QED
    BY <1>1, GotoStep, AfterPenaltiesStep DEF ReadMissed, At, Others

LEMMA PenaliseJob ==
    ASSUME TypeOK, NEW p \in Procs, Penalise(p)
    PROVE  /\ Others(p) /\ job[p].pc = "penalise"
           /\ \E v \in job[p].todo :
                /\ v \in Validators /\ penalty' = [penalty EXCEPT ![v] = penalty[v] + 1]
                /\ \/ job'[p] = Idle /\ job[p].verdict # "rejected"
                   \/ /\ job'[p].pc = "refund" /\ job[p].verdict = "rejected"
                      /\ job'[p].verdict = "rejected"
                   \/ /\ job'[p].pc = "penalise" /\ job'[p].todo = job[p].todo \ {v}
                      /\ job'[p].verdict = job[p].verdict
  <1>1. PICK v \in job[p].todo :
            /\ penalty' = [penalty EXCEPT ![v] = penalty[v] + 1]
            /\ IF job[p].todo = {v} THEN AfterPenalties(p) ELSE Goto(p, "penalise", job[p].todo \ {v})
    BY DEF Penalise
  <1>2. "penalise" \in Pc /\ job[p].todo \ {v} \in SUBSET Validators /\ v \in Validators
    BY JobType DEF Pc
  <1>3. AfterPenalties(p) =>
            /\ Others(p)
            /\ \/ job'[p] = Idle /\ job[p].verdict # "rejected"
               \/ job'[p].pc = "refund" /\ job[p].verdict = "rejected" /\ job'[p].verdict = "rejected"
    BY AfterPenaltiesStep DEF Others
  <1>4. ASSUME Goto(p, "penalise", job[p].todo \ {v})
        PROVE  /\ Others(p) /\ job'[p].pc = "penalise" /\ job'[p].todo = job[p].todo \ {v}
               /\ job'[p].verdict = job[p].verdict
    <2>1. PICK todo \in SUBSET Validators : todo = job[p].todo \ {v}
      BY <1>2
    <2>2. Goto(p, "penalise", todo) /\ "penalise" \in Pc
      BY <1>2, <1>4, <2>1
    <2>3. /\ job' \in [Procs -> Job] /\ job'[p].pc = "penalise" /\ job'[p].todo = todo
          /\ job'[p].verdict = job[p].verdict
          /\ \A q \in Procs \ {p} : job'[q] = job[q]
      BY <2>2, GotoStep
    <2> QED
      BY <2>1, <2>3 DEF Others
  <1> QED
    BY <1>1, <1>2, <1>3, <1>4 DEF Penalise, At

LEMMA RefundJob ==
    ASSUME TypeOK, NEW p \in Procs, Refund(p)
    PROVE  /\ Others(p) /\ job[p].pc = "refund" /\ job'[p] = Idle
           /\ refunded' = IF usdc THEN refunded ELSE refunded + 1
  BY FinishStep DEF Refund, At, Others

(***************************************************************************)
(* The invariants                                                          *)
(***************************************************************************)
Assigned == {v \in Validators : vote[v] # "none"}

\* What a handler knows at each of its awaits.
Knows(p) ==
    /\ job[p].pc = "apply" => job[p].verdict \in {"approved", "rejected"}
    /\ job[p].pc \in {"approved", "rejected"} => job[p].verdict = job[p].pc
    /\ job[p].pc \in {"pay", "send", "record", "voters", "reward"} => job[p].verdict = "approved"
    /\ job[p].pc = "refund" => job[p].verdict = "rejected"
    /\ job[p].pc = "reward" => job[p].todo \subseteq Voters

Verdicts == \A p \in Procs : Knows(p)

\* One handler assigns at most three validators, none of whom has a row yet, and only
\* who has a row may vote.
InsertOK ==
    /\ submission = "none" => Assigned = {} /\ \A p \in Procs : job[p].pc \notin {"pool", "insert"}
    /\ \A p, q \in Procs : job[p].pc \in {"pool", "insert"} /\ job[q].pc \in {"pool", "insert"} => p = q
    /\ \A p \in Procs :
        /\ job[p].pc = "pool" => Assigned = {}
        /\ job[p].pc = "insert" => /\ job[p].todo \cap Assigned = {}
                                   /\ Cardinality(job[p].todo) + Cardinality(Assigned) <= 3
        /\ job[p].pc = "vote" => /\ job[p].choice \in {"approve", "reject"}
                                 /\ job[p].todo \subseteq Assigned
    /\ Cardinality(Assigned) <= 3

LEMMA SetsFinite ==
    /\ IsFiniteSet(Procs)
    /\ \A S \in SUBSET Validators : IsFiniteSet(S) /\ Cardinality(S) \in Nat
    /\ \A S \in SUBSET Procs : IsFiniteSet(S) /\ Cardinality(S) \in Nat
  <1>1. \A S : IsFiniteSet(S) => Cardinality(S) \in Nat
    BY FS_CardinalityType
  <1>2. \A S \in SUBSET Validators : IsFiniteSet(S)
    BY FS_Subset
  <1>3. \A S \in SUBSET Procs : IsFiniteSet(S)
    BY FS_Subset
  <1> QED
    BY <1>1, <1>2, <1>3

\* Counting handlers before and after a step.
LEMMA Counting ==
    ASSUME NEW S \in SUBSET Procs, NEW T \in SUBSET Procs
    PROVE  /\ Cardinality(S) \in Nat /\ Cardinality(T) \in Nat
           /\ T \subseteq S => Cardinality(T) <= Cardinality(S)
           /\ \A p : T \subseteq S \cup {p} => Cardinality(T) <= Cardinality(S) + 1
           /\ \A p : p \in S /\ T \subseteq S \ {p} => Cardinality(T) + 1 <= Cardinality(S)
           /\ S = T \/ Cardinality(S) <= Cardinality(Procs)
  <1>1. IsFiniteSet(S) /\ IsFiniteSet(T) /\ IsFiniteSet(Procs)
    BY SetsFinite
  <1>2. Cardinality(S) \in Nat /\ Cardinality(T) \in Nat
    BY SetsFinite
  <1>3. T \subseteq S => Cardinality(T) <= Cardinality(S)
    BY <1>1, FS_Subset
  <1>4. Cardinality(S) <= Cardinality(Procs)
    BY <1>1, FS_Subset
  <1>5. ASSUME NEW p, T \subseteq S \cup {p} PROVE Cardinality(T) <= Cardinality(S) + 1
    <2>1. /\ IsFiniteSet(S \cup {p})
          /\ Cardinality(S \cup {p}) = IF p \in S THEN Cardinality(S) ELSE Cardinality(S) + 1
      BY <1>1, FS_AddElement
    <2>2. Cardinality(T) <= Cardinality(S \cup {p})
      BY <1>5, <2>1, FS_Subset
    <2> QED
      BY <1>2, <2>1, <2>2
  <1>6. ASSUME NEW p, p \in S, T \subseteq S \ {p} PROVE Cardinality(T) + 1 <= Cardinality(S)
    <2>1. IsFiniteSet(S \ {p}) /\ Cardinality(S \ {p}) = Cardinality(S) - 1
      BY <1>1, <1>6, FS_RemoveElement
    <2>2. Cardinality(T) <= Cardinality(S \ {p})
      BY <1>6, <2>1, FS_Subset
    <2> QED
      BY <1>2, <2>1, <2>2
  <1> QED
    BY <1>2, <1>3, <1>4, <1>5, <1>6

(***************************************************************************)
(* Types                                                                   *)
(***************************************************************************)
LEMMA InitTypes == Init => TypeOK
  <1> SUFFICES ASSUME Init PROVE TypeOK
    OBVIOUS
  <1>1. job \in [Procs -> Job]
    BY IdleJob DEF Init
  <1>2. vote \in [Validators -> Vote]
    BY DEF Init, Vote
  <1>3. reward \in [Validators -> Nat] /\ penalty \in [Validators -> Nat]
    BY DEF Init
  <1> QED
    BY <1>1, <1>2, <1>3 DEF Init, TypeOK

LEMMA StepTypes ==
    ASSUME TypeOK, Verdicts, InsertOK, NEW p \in Procs, Step(p)
    PROVE  TypeOK'
  <1>1. CASE ReadPool(p)
    BY <1>1, ReadPoolJob DEF ReadPool, Others, TypeOK, votes, money, points, payout, judged, history
  <1>2. CASE InsertValidation(p)
    <2>1. vote' \in [Validators -> Vote]
      BY <1>2, InsertJob DEF TypeOK, Vote
    <2> QED
      BY <1>2, <2>1, InsertJob
         DEF InsertValidation, Others, TypeOK, money, points, payout, judged, history
  <1>3. CASE WriteVote(p)
    <2>1. job[p].choice \in Vote
      BY <1>3, WriteVoteJob DEF InsertOK, Vote
    <2>2. vote' \in [Validators -> Vote]
      BY <1>3, <2>1 DEF WriteVote, TypeOK
    <2> QED
      BY <1>3, <2>2, WriteVoteJob DEF WriteVote, Others, TypeOK, money, points, payout, judged, history
  <1>4. CASE CountVotes(p)
    BY <1>4, CountJob DEF CountVotes, Others, TypeOK, votes, money, points, payout, judged, history
  <1>5. CASE Apply(p)
    <2>1. job[p].verdict \in {"approved", "rejected"}
      BY <1>5 DEF Apply, At, Verdicts, Knows
    <2> QED
      BY <1>5, <2>1, ApplyJob DEF Apply, Others, TypeOK, votes, money, points, payout, judged, history
  <1>6. CASE WriteVerdict(p)
    BY <1>6, VerdictJob DEF WriteVerdict, Others, TypeOK, votes, money, points, payout, judged
  <1>7. CASE Pay(p)
    BY <1>7, PayJob DEF Pay, Others, TypeOK, votes, judged, history
  <1>8. CASE SendUsdc(p)
    BY <1>8, SendJob DEF SendUsdc, Others, TypeOK, votes, points, judged, history
  <1>9. CASE RecordUsdc(p)
    BY <1>9, RecordJob DEF RecordUsdc, Others, TypeOK, votes, points, judged, history
  <1>10. CASE ReadVoters(p)
    BY <1>10, ReadVotersJob DEF ReadVoters, Others, TypeOK, votes, money, points, payout, judged, history
  <1>11. CASE Reward(p)
    <2>1. reward' \in [Validators -> Nat]
      BY <1>11, RewardJob DEF TypeOK
    <2> QED
      BY <1>11, <2>1, RewardJob DEF Reward, Others, TypeOK, votes, money, points, payout, history
  <1>12. CASE ReadMissed(p)
    BY <1>12, ReadMissedJob DEF ReadMissed, Others, TypeOK, votes, money, points, payout, judged, history
  <1>13. CASE Penalise(p)
    <2>1. penalty' \in [Validators -> Nat]
      BY <1>13, PenaliseJob DEF TypeOK
    <2> QED
      BY <1>13, <2>1, PenaliseJob DEF Penalise, Others, TypeOK, votes, money, points, payout, history
  <1>14. CASE Refund(p)
    BY <1>14, RefundJob DEF Refund, Others, TypeOK, votes, payout, judged, history
  <1> QED
    BY <1>1, <1>2, <1>3, <1>4, <1>5, <1>6, <1>7, <1>8, <1>9, <1>10, <1>11, <1>12, <1>13, <1>14
       DEF Step

\* A handler that starts.
Starts(p) ==
    \/ Submit(p) \/ Sweep(p)
    \/ \E v \in Validators, choice \in {"approve", "reject"} : CastVote(p, v, choice)

LEMMA StartsJob ==
    ASSUME TypeOK, NEW p \in Procs, Starts(p)
    PROVE  /\ Others(p) /\ job[p] = Idle /\ job'[p].verdict = "none"
           /\ overlapped' \in BOOLEAN
           /\ ~overlapped' => ~overlapped /\ \A q \in Procs : job[q] = Idle
           /\ UNCHANGED <<vote, expired, paid, refunded, reward, penalty, usdc, sent, recorded, held,
                          failed, settled, faults>>
           /\ \/ /\ job'[p].pc = "pool" /\ submission = "none" /\ submission' = "validating"
              \/ job'[p].pc = "count" /\ UNCHANGED submission
              \/ /\ job'[p].pc = "vote" /\ UNCHANGED submission
                 /\ job'[p].choice \in {"approve", "reject"} /\ job'[p].todo \subseteq Assigned
  <1> USE DEF votes, money, points, payout, judged
  <1>1. "pool" \in Pc /\ "count" \in Pc /\ "vote" \in Pc /\ {} \in SUBSET Validators
    BY DEF Pc
  <1>2. CASE Submit(p)
    BY <1>1, <1>2, StartStep DEF Submit, Others
  <1>3. CASE Sweep(p)
    BY <1>1, <1>3, StartStep DEF Sweep, Others
  <1>4. ASSUME NEW v \in Validators, NEW choice \in {"approve", "reject"}, CastVote(p, v, choice)
        PROVE  /\ Others(p) /\ job[p] = Idle /\ job'[p].verdict = "none"
               /\ overlapped' \in BOOLEAN
               /\ ~overlapped' => ~overlapped /\ \A q \in Procs : job[q] = Idle
               /\ job'[p].pc = "vote" /\ job'[p].choice = choice /\ job'[p].todo = {v}
               /\ v \in Assigned
               /\ UNCHANGED <<submission, vote, expired, paid, refunded, reward, penalty, usdc, sent,
                              recorded, held, failed, settled, faults>>
    <2>1. PICK todo \in SUBSET Validators : todo = {v}
      OBVIOUS
    <2>2. Start(p, "vote", todo, choice) /\ choice \in {"none", "approve", "reject"}
      BY <1>4, <2>1 DEF CastVote
    <2>3. v \in Assigned
      BY <1>4 DEF CastVote, NotVoted, Assigned
    <2>4. /\ job' \in [Procs -> Job] /\ job[p] = Idle
          /\ job'[p].pc = "vote" /\ job'[p].todo = todo /\ job'[p].choice = choice
          /\ job'[p].verdict = "none"
          /\ \A q \in Procs \ {p} : job'[q] = job[q]
          /\ overlapped' \in BOOLEAN
          /\ ~overlapped' => ~overlapped /\ \A q \in Procs : job[q] = Idle
      BY <1>1, <2>2, StartStep
    <2>5. UNCHANGED <<submission, vote, expired, paid, refunded, reward, penalty, usdc, sent,
                      recorded, held, failed, settled, faults>>
      BY <1>4 DEF CastVote
    <2> QED
      BY <2>1, <2>3, <2>4, <2>5 DEF Others
  <1> QED
    BY <1>2, <1>3, <1>4 DEF Starts

\* A fault ends some handlers.
LEMMA FaultJob ==
    ASSUME TypeOK, Fault
    PROVE  /\ job' \in [Procs -> Job]
           /\ \A p \in Procs : job'[p] = job[p] \/ job'[p] = Idle
           /\ faults' = faults + 1
           /\ UNCHANGED <<submission, vote, expired, paid, refunded, reward, penalty, usdc, sent,
                          recorded, held, failed, settled, overlapped>>
  <1>1. UNCHANGED <<submission, vote, expired, paid, refunded, reward, penalty, usdc, sent,
                    recorded, held, failed, settled, overlapped>> /\ faults' = faults + 1
    BY DEF Fault, votes, money, points, payout, judged
  <1>2. ASSUME NEW p \in Procs, Finish(p)
        PROVE  /\ job' \in [Procs -> Job]
               /\ \A q \in Procs : job'[q] = job[q] \/ job'[q] = Idle
    BY <1>2, FinishStep
  <1>3. ASSUME job' = [p \in Procs |-> Idle]
        PROVE  job' \in [Procs -> Job] /\ \A p \in Procs : job'[p] = Idle
    BY <1>3, IdleJob
  <1> QED
    BY <1>1, <1>2, <1>3, IdleJob DEF Fault

LEMMA TypeInvariance ==
    ASSUME TypeOK, Verdicts, InsertOK, [Next]_vars
    PROVE  TypeOK'
  <1>1. CASE UNCHANGED vars
    BY <1>1 DEF vars, votes, points, payout, judged, history, TypeOK
  <1>2. ASSUME NEW p \in Procs, Starts(p) PROVE TypeOK'
    BY <1>2, StartsJob DEF Others, TypeOK
  <1>3. CASE Expire
    BY <1>3 DEF Expire, TypeOK, money, points, payout, judged, history
  <1>4. CASE MarkTimeouts
    <2>1. vote' \in [Validators -> Vote]
      BY <1>4 DEF MarkTimeouts, TypeOK, Vote
    <2> QED
      BY <1>4, <2>1 DEF MarkTimeouts, TypeOK, money, points, payout, judged, history
  <1>5. CASE Fault
    BY <1>5, FaultJob DEF TypeOK
  <1> QED
    BY <1>1, <1>2, <1>3, <1>4, <1>5, StepTypes DEF Next, Starts

(***************************************************************************)
(* What handlers know stays true while others run                          *)
(***************************************************************************)
LEMMA VotesChange ==
    ASSUME NEW p \in Procs, Step(p)
    PROVE  vote' = vote \/ InsertValidation(p) \/ WriteVote(p)
  BY DEF Step, ReadPool, CountVotes, Apply, WriteVerdict, Pay, SendUsdc, RecordUsdc, ReadVoters,
         Reward, ReadMissed, Penalise, Refund, votes

\* An assigned validator stays assigned, and one who voted has voted.
LEMMA VotesStay ==
    ASSUME TypeOK, InsertOK, [Next]_vars
    PROVE  Voters \subseteq Voters' /\ Assigned \subseteq Assigned'
  <1> USE DEF Voters, Votes, Assigned
  <1>1. CASE vote' = vote
    BY <1>1
  <1>2. ASSUME NEW p \in Procs, InsertValidation(p)
        PROVE  Voters \subseteq Voters' /\ Assigned \subseteq Assigned'
    <2>1. PICK v \in job[p].todo : vote' = [vote EXCEPT ![v] = "pending"]
      BY <1>2, InsertJob
    <2>2. v \in Validators /\ vote[v] = "none"
      BY <1>2, <2>1, InsertJob, JobType DEF InsertOK
    <2> QED
      BY <2>1, <2>2 DEF TypeOK
  <1>3. ASSUME NEW p \in Procs, WriteVote(p)
        PROVE  Voters \subseteq Voters' /\ Assigned \subseteq Assigned'
    <2>1. job[p].choice \in {"approve", "reject"}
      BY <1>3, WriteVoteJob DEF InsertOK
    <2> QED
      BY <1>3, <2>1 DEF WriteVote
  <1>4. CASE MarkTimeouts
    BY <1>4 DEF MarkTimeouts
  <1>5. vote' = vote \/ MarkTimeouts \/ \E p \in Procs : Step(p)
    BY DEF Next, vars, votes, Submit, CastVote, Sweep, Expire, Fault
  <1> QED
    BY <1>1, <1>2, <1>3, <1>4, <1>5, VotesChange

LEMMA VerdictsInvariance ==
    ASSUME TypeOK, Verdicts, InsertOK, [Next]_vars
    PROVE  Verdicts'
  <1> USE IdleJob DEF Others
  <1>1. ASSUME NEW q \in Procs, job'[q] = job[q] PROVE Knows(q)'
    BY <1>1, VotesStay DEF Verdicts, Knows
  <1>2. ASSUME NEW q \in Procs, job'[q].pc \in {"idle", "pool", "insert", "vote", "count", "late", "penalise"}
        PROVE Knows(q)'
    BY <1>2 DEF Knows
  <1>3. ASSUME NEW p \in Procs, Step(p) PROVE Knows(p)' /\ \A q \in Procs \ {p} : job'[q] = job[q]
    <2>1. CASE ReadPool(p)
      BY <1>2, <2>1, ReadPoolJob
    <2>2. CASE InsertValidation(p)
      BY <1>2, <2>2, InsertJob
    <2>3. CASE WriteVote(p)
      BY <1>2, <2>3, WriteVoteJob
    <2>4. CASE CountVotes(p)
      BY <1>2, <2>4, CountJob DEF Knows
    <2>5. CASE Apply(p)
      <3>1. job[p].verdict \in {"approved", "rejected"}
        BY <2>5 DEF Apply, At, Verdicts, Knows
      <3> QED
        BY <1>2, <2>5, <3>1, ApplyJob DEF Knows
    <2>6. CASE WriteVerdict(p)
      BY <1>2, <2>6, VerdictJob DEF Verdicts, Knows
    <2>7. CASE Pay(p)
      BY <2>7, PayJob DEF Verdicts, Knows
    <2>8. CASE SendUsdc(p)
      BY <2>8, SendJob DEF Verdicts, Knows
    <2>9. CASE RecordUsdc(p)
      BY <2>9, RecordJob DEF Verdicts, Knows
    <2>10. CASE ReadVoters(p)
      <3>1. Voters' = Voters
        BY <2>10 DEF ReadVoters, votes, Voters, Votes
      <3> QED
        BY <1>2, <2>10, <3>1, ReadVotersJob DEF Verdicts, Knows
    <2>11. CASE Reward(p)
      <3>1. Voters' = Voters
        BY <2>11 DEF Reward, votes, Voters, Votes
      <3> QED
        BY <1>2, <2>11, <3>1, RewardJob DEF Verdicts, Knows
    <2>12. CASE ReadMissed(p)
      BY <1>2, <2>12, ReadMissedJob DEF Knows
    <2>13. CASE Penalise(p)
      BY <1>2, <2>13, PenaliseJob DEF Knows
    <2>14. CASE Refund(p)
      BY <1>2, <2>14, RefundJob
    <2> QED
      BY <1>3, <2>1, <2>2, <2>3, <2>4, <2>5, <2>6, <2>7, <2>8, <2>9, <2>10, <2>11, <2>12, <2>13, <2>14
         DEF Step
  <1>4. ASSUME NEW p \in Procs, Starts(p) PROVE Verdicts'
    BY <1>1, <1>2, <1>4, StartsJob DEF Verdicts
  <1>5. CASE job' = job
    BY <1>1, <1>5 DEF Verdicts
  <1>6. CASE Fault
    BY <1>1, <1>2, <1>6, FaultJob DEF Verdicts
  <1>7. job' = job \/ Fault \/ \E p \in Procs : Step(p) \/ Starts(p)
    BY DEF Next, Starts, vars, Expire, MarkTimeouts
  <1> QED
    BY <1>1, <1>3, <1>4, <1>5, <1>6, <1>7 DEF Verdicts

\* A step that leaves the rows alone, and starts no assignment and no vote.
LEMMA InsertFrame ==
    ASSUME InsertOK, vote' = vote, submission' = "none" => submission = "none",
           \A q \in Procs : \/ job'[q] = job[q]
                            \/ job'[q].pc \notin {"pool", "insert", "vote"}
    PROVE  InsertOK'
  BY DEF InsertOK, Assigned

LEMMA InsertInvariance ==
    ASSUME TypeOK, Verdicts, InsertOK, [Next]_vars
    PROVE  InsertOK'
  <1> USE IdleJob DEF Others
  <1>1. ASSUME NEW p \in Procs, ReadPool(p) PROVE InsertOK'
    <2>1. Assigned = {} /\ submission # "none"
      BY <1>1, ReadPoolJob DEF InsertOK
    <2>2. Assigned' = {} /\ UNCHANGED submission
      BY <1>1, <2>1 DEF ReadPool, votes, Assigned
    <2>3. Cardinality({}) = 0
      BY FS_EmptySet
    <2>4. \/ job'[p] = Idle
          \/ job'[p].pc = "insert" /\ Cardinality(job'[p].todo) <= 3
      BY <1>1, ReadPoolJob
    <2>5. Cardinality(job'[p].todo) \in Nat
      <3>1. job'[p] \in Job
        BY <1>1, ReadPoolJob
      <3>2. PICK todo \in SUBSET Validators : job'[p].todo = todo
        BY <3>1 DEF Job
      <3> QED
        BY <3>2, SetsFinite
    <2>6. \A q \in Procs \ {p} : job'[q] = job[q] /\ job[q].pc \notin {"pool", "insert"}
      BY <1>1, ReadPoolJob DEF InsertOK
    <2>7. \A q \in Procs \ {p} : job[q].pc = "vote" =>
              job[q].choice \in {"approve", "reject"} /\ job[q].todo \subseteq Assigned
      BY DEF InsertOK
    <2> QED
      BY <2>1, <2>2, <2>3, <2>4, <2>5, <2>6, <2>7 DEF InsertOK
  <1>2. ASSUME NEW p \in Procs, InsertValidation(p) PROVE InsertOK'
    <2>1. PICK v \in job[p].todo :
              /\ vote' = [vote EXCEPT ![v] = "pending"]
              /\ \/ job'[p] = Idle
                 \/ job'[p].pc = "insert" /\ job'[p].todo = job[p].todo \ {v}
      BY <1>2, InsertJob
    <2>2. v \in Validators /\ v \notin Assigned /\ job[p].pc = "insert"
      BY <1>2, <2>1, InsertJob, JobType DEF InsertOK
    <2>3. Assigned' = Assigned \cup {v}
      BY <2>1, <2>2 DEF Assigned, TypeOK
    <2>4. IsFiniteSet(Assigned) /\ Cardinality(Assigned) \in Nat
      BY SetsFinite DEF Assigned
    <2>5. Cardinality(Assigned') = Cardinality(Assigned) + 1
      BY <2>2, <2>3, <2>4, FS_AddElement
    <2>6. IsFiniteSet(job[p].todo) /\ Cardinality(job[p].todo) \in Nat
      BY JobType, SetsFinite
    <2>7. Cardinality(job[p].todo \ {v}) = Cardinality(job[p].todo) - 1
      BY <2>1, <2>6, FS_RemoveElement
    <2>8. /\ job[p].todo \cap Assigned = {}
          /\ Cardinality(job[p].todo) + Cardinality(Assigned) <= 3
          /\ submission # "none"
      BY <2>2 DEF InsertOK
    <2>9. job'[p].pc = "insert" =>
              /\ job'[p].todo \cap Assigned' = {}
              /\ Cardinality(job'[p].todo) + Cardinality(Assigned') <= 3
      <3> SUFFICES ASSUME job'[p].pc = "insert"
                   PROVE  /\ job'[p].todo \cap Assigned' = {}
                          /\ Cardinality(job'[p].todo) + Cardinality(Assigned') <= 3
        OBVIOUS
      <3>1. job'[p].todo = job[p].todo \ {v}
        BY <2>1
      <3>2. job'[p].todo \cap Assigned' = {}
        BY <2>3, <2>8, <3>1
      <3>3. Cardinality(job'[p].todo) = Cardinality(job[p].todo) - 1
        BY <2>7, <3>1, Zenon
      <3> QED
        BY <2>4, <2>5, <2>6, <2>8, <3>2, <3>3
    <2>10. Cardinality(job[p].todo) >= 1
      <3>1. PICK S \in SUBSET Validators : S = job[p].todo \ {v}
        BY JobType
      <3>2. Cardinality(S) \in Nat
        BY SetsFinite
      <3> QED
        BY <2>6, <2>7, <3>1, <3>2
    <2>11. Cardinality(Assigned') <= 3
      BY <2>4, <2>5, <2>6, <2>8, <2>10
    <2>12. \A q \in Procs \ {p} : job'[q] = job[q] /\ job[q].pc \notin {"pool", "insert"}
      BY <1>2, <2>2, InsertJob DEF InsertOK
    <2>13. \A q \in Procs \ {p} : job[q].pc = "vote" =>
               job[q].choice \in {"approve", "reject"} /\ job[q].todo \subseteq Assigned'
      BY <2>3 DEF InsertOK
    <2>14. submission' # "none"
      BY <1>2, <2>8 DEF InsertValidation
    <2>15. job'[p].pc \in {"idle", "insert"}
      BY <2>1
    <2> QED
      BY <2>9, <2>11, <2>12, <2>13, <2>14, <2>15 DEF InsertOK
  <1>3. ASSUME NEW p \in Procs, WriteVote(p) PROVE InsertOK'
    <2>1. /\ job[p].choice \in {"approve", "reject"} /\ job[p].todo \subseteq Assigned
          /\ job'[p].pc = "count" /\ \A q \in Procs \ {p} : job'[q] = job[q]
      BY <1>3, WriteVoteJob DEF InsertOK
    <2>2. Assigned' = Assigned
      BY <1>3, <2>1 DEF WriteVote, Assigned
    <2>3. submission' = submission
      BY <1>3 DEF WriteVote
    <2> QED
      BY <2>1, <2>2, <2>3 DEF InsertOK
  <1>4. ASSUME NEW p \in Procs, Step(p), vote' = vote,
               job'[p].pc \notin {"pool", "insert", "vote"}, submission' = "none" => submission = "none",
               \A q \in Procs \ {p} : job'[q] = job[q]
        PROVE  InsertOK'
    BY <1>4, InsertFrame
  <1>5. ASSUME NEW p \in Procs, Step(p) PROVE InsertOK'
    <2>1. CASE CountVotes(p)
      BY <1>4, <1>5, <2>1, CountJob DEF CountVotes, votes
    <2>2. CASE Apply(p)
      <3>1. job[p].verdict \in {"approved", "rejected"}
        BY <2>2 DEF Apply, At, Verdicts, Knows
      <3> QED
        BY <1>4, <1>5, <2>2, <3>1, ApplyJob DEF Apply, votes
    <2>3. CASE WriteVerdict(p)
      BY <1>4, <1>5, <2>3, VerdictJob DEF WriteVerdict, votes
    <2>4. CASE Pay(p)
      BY <1>4, <1>5, <2>4, PayJob DEF Pay, votes
    <2>5. CASE SendUsdc(p)
      BY <1>4, <1>5, <2>5, SendJob DEF SendUsdc, votes
    <2>6. CASE RecordUsdc(p)
      BY <1>4, <1>5, <2>6, RecordJob DEF RecordUsdc, votes
    <2>7. CASE ReadVoters(p)
      BY <1>4, <1>5, <2>7, ReadVotersJob DEF ReadVoters, votes
    <2>8. CASE Reward(p)
      BY <1>4, <1>5, <2>8, RewardJob DEF Reward, votes
    <2>9. CASE ReadMissed(p)
      BY <1>4, <1>5, <2>9, ReadMissedJob DEF ReadMissed, votes
    <2>10. CASE Penalise(p)
      BY <1>4, <1>5, <2>10, PenaliseJob DEF Penalise, votes
    <2>11. CASE Refund(p)
      BY <1>4, <1>5, <2>11, RefundJob DEF Refund, votes
    <2> QED
      BY <1>1, <1>2, <1>3, <1>5, <2>1, <2>2, <2>3, <2>4, <2>5, <2>6, <2>7, <2>8, <2>9, <2>10, <2>11
         DEF Step
  <1>6. ASSUME NEW p \in Procs, Starts(p) PROVE InsertOK'
    <2>1. /\ vote' = vote /\ Assigned' = Assigned
          /\ \A q \in Procs \ {p} : job'[q] = job[q]
      BY <1>6, StartsJob DEF Assigned
    <2>2. CASE job'[p].pc = "pool" /\ submission = "none" /\ submission' = "validating"
      BY <2>1, <2>2 DEF InsertOK
    <2>3. CASE job'[p].pc = "count" /\ UNCHANGED submission
      BY <2>1, <2>3 DEF InsertOK
    <2>4. CASE /\ job'[p].pc = "vote" /\ UNCHANGED submission
               /\ job'[p].choice \in {"approve", "reject"} /\ job'[p].todo \subseteq Assigned
      BY <2>1, <2>4 DEF InsertOK
    <2> QED
      BY <1>6, <2>2, <2>3, <2>4, StartsJob
  <1>7. CASE MarkTimeouts
    <2>1. Assigned' = Assigned /\ UNCHANGED <<submission, job>>
      BY <1>7 DEF MarkTimeouts, Assigned
    <2> QED
      BY <2>1 DEF InsertOK
  <1>8. CASE Fault
    BY <1>8, FaultJob, InsertFrame
  <1>9. CASE UNCHANGED <<submission, vote, job>>
    BY <1>9, InsertFrame
  <1> QED
    BY <1>5, <1>6, <1>7, <1>8, <1>9 DEF Next, Starts, vars, votes, Expire

(***************************************************************************)
(* Types, and what is known at each await                                  *)
(***************************************************************************)
Base == TypeOK /\ Verdicts /\ InsertOK

LEMMA BaseInit == Init => Base
  <1> SUFFICES ASSUME Init PROVE Base
    OBVIOUS
  <1>1. TypeOK
    BY InitTypes
  <1>2. \A p \in Procs : job[p] = Idle
    BY DEF Init
  <1>3. Verdicts
    BY <1>2, IdleJob DEF Verdicts, Knows
  <1>4. Assigned = {} /\ Cardinality({}) = 0
    BY FS_EmptySet DEF Init, Assigned
  <1>5. InsertOK
    BY <1>2, <1>4, IdleJob DEF InsertOK
  <1> QED
    BY <1>1, <1>3, <1>5 DEF Base

LEMMA BaseInvariance == Base /\ [Next]_vars => Base'
  BY TypeInvariance, VerdictsInvariance, InsertInvariance DEF Base

\* Every variable has its type: no validator holds two votes, and a handler is at an
\* await of its own code.
THEOREM TypeCorrect == Spec => []TypeOK
  <1>1. Base => TypeOK
    BY DEF Base
  <1> QED
    BY BaseInit, BaseInvariance, <1>1, PTL DEF Spec

(***************************************************************************)
(* A verdict judges a validator at most once                               *)
(***************************************************************************)
\* p has yet to reward or to penalise v.
Owes(p, v) ==
    \/ job[p].pc \in {"pay", "send", "record", "voters"}
    \/ job[p].pc = "reward" /\ (v \in job[p].todo \/ v \notin Voters)
    \/ job[p].pc = "late" /\ v \notin Voters
    \/ job[p].pc = "penalise" /\ v \in job[p].todo

Owing(v) == {p \in Procs : Owes(p, v)}

JudgedOK ==
    \A v \in Validators : reward[v] + penalty[v] + Cardinality(Owing(v)) <= settled

\* No handler owes more than it did.
LEMMA JudgedFrame ==
    ASSUME TypeOK, JudgedOK, NEW v \in Validators,
           reward'[v] = reward[v], penalty'[v] = penalty[v], settled' = settled,
           \A q \in Procs : Owes(q, v)' => Owes(q, v)
    PROVE  reward'[v] + penalty'[v] + Cardinality(Owing(v)') <= settled'
  <1>1. PICK S \in SUBSET Procs : S = Owing(v)
    BY DEF Owing
  <1>2. PICK T \in SUBSET Procs : T = Owing(v)'
    BY DEF Owing
  <1>3. T \subseteq S
    BY <1>1, <1>2 DEF Owing
  <1>4. Cardinality(T) <= Cardinality(S) /\ Cardinality(T) \in Nat /\ Cardinality(S) \in Nat
    BY <1>3, Counting
  <1>5. reward[v] \in Nat /\ penalty[v] \in Nat /\ settled \in Nat
    BY DEF TypeOK
  <1>6. reward[v] + penalty[v] + Cardinality(S) <= settled
    BY <1>1 DEF JudgedOK
  <1>7. reward'[v] + penalty'[v] + Cardinality(T) <= settled'
    BY <1>4, <1>5, <1>6
  <1> QED
    BY <1>2, <1>7

LEMMA JudgedStep ==
    ASSUME Base, JudgedOK, [Next]_vars, NEW p \in Procs, Step(p), NEW v \in Validators
    PROVE  reward'[v] + penalty'[v] + Cardinality(Owing(v)') <= settled'
  <1> USE IdleJob DEF Others
  <1>1. TypeOK /\ Verdicts /\ InsertOK
    BY DEF Base
  <1>2. Voters \subseteq Voters'
    BY <1>1, VotesStay
  <1>3. ASSUME NEW q \in Procs, job'[q] = job[q] PROVE Owes(q, v)' => Owes(q, v)
    BY <1>2, <1>3 DEF Owes
  <1>4. ASSUME Others(p), Owes(p, v)' => Owes(p, v), UNCHANGED <<reward, penalty, settled>>
        PROVE  reward'[v] + penalty'[v] + Cardinality(Owing(v)') <= settled'
    BY <1>1, <1>3, <1>4, JudgedFrame
  <1>5. CASE ReadPool(p)
    BY <1>1, <1>4, <1>5, ReadPoolJob DEF ReadPool, Owes, judged, history
  <1>6. CASE InsertValidation(p)
    BY <1>1, <1>4, <1>6, InsertJob DEF InsertValidation, Owes, judged, history
  <1>7. CASE WriteVote(p)
    BY <1>1, <1>4, <1>7, WriteVoteJob DEF WriteVote, Owes, judged, history
  <1>8. CASE CountVotes(p)
    BY <1>1, <1>4, <1>8, CountJob DEF CountVotes, Owes, judged, history
  <1>9. CASE Apply(p)
    <2>1. job[p].verdict \in {"approved", "rejected"}
      BY <1>1, <1>9 DEF Apply, At, Verdicts, Knows
    <2> QED
      BY <1>1, <1>4, <1>9, <2>1, ApplyJob DEF Apply, Owes, judged, history
  <1>10. CASE WriteVerdict(p)
    <2>1. PICK S \in SUBSET Procs : S = Owing(v)
      BY DEF Owing
    <2>2. PICK T \in SUBSET Procs : T = Owing(v)'
      BY DEF Owing
    <2>3. Others(p) /\ settled' = settled + 1
      BY <1>1, <1>10, VerdictJob
    <2>4. T \subseteq S \cup {p}
      BY <1>3, <2>1, <2>2, <2>3 DEF Owing
    <2>5. Cardinality(T) <= Cardinality(S) + 1 /\ Cardinality(T) \in Nat /\ Cardinality(S) \in Nat
      BY <2>4, Counting
    <2>6. reward[v] \in Nat /\ penalty[v] \in Nat /\ settled \in Nat
      BY <1>1 DEF TypeOK
    <2>7. reward' = reward /\ penalty' = penalty
      BY <1>10 DEF WriteVerdict, judged
    <2>8. reward[v] + penalty[v] + Cardinality(S) <= settled
      BY <2>1 DEF JudgedOK
    <2>9. reward'[v] + penalty'[v] + Cardinality(T) <= settled'
      BY <2>3, <2>5, <2>6, <2>7, <2>8
    <2> QED
      BY <2>2, <2>9
  <1>11. CASE Pay(p)
    BY <1>1, <1>4, <1>11, PayJob DEF Pay, Owes, judged, history
  <1>12. CASE SendUsdc(p)
    BY <1>1, <1>4, <1>12, SendJob DEF SendUsdc, Owes, judged, history
  <1>13. CASE RecordUsdc(p)
    BY <1>1, <1>4, <1>13, RecordJob DEF RecordUsdc, Owes, judged, history
  <1>14. CASE ReadVoters(p)
    BY <1>1, <1>4, <1>14, ReadVotersJob DEF ReadVoters, Owes, judged, history
  <1>15. ASSUME NEW u \in job[p].todo, u \in Validators, Others(p),
                \/ reward' = [reward EXCEPT ![u] = reward[u] + 1] /\ penalty' = penalty
                \/ penalty' = [penalty EXCEPT ![u] = penalty[u] + 1] /\ reward' = reward,
                settled' = settled, Owes(p, u), ~Owes(p, u)',
                Owes(p, v)' => Owes(p, v)
         PROVE  reward'[v] + penalty'[v] + Cardinality(Owing(v)') <= settled'
    <2>1. CASE u # v
      <3>1. reward'[v] = reward[v] /\ penalty'[v] = penalty[v]
        BY <1>1, <1>15, <2>1 DEF TypeOK
      <3> QED
        BY <1>1, <1>3, <1>15, <3>1, JudgedFrame
    <2>2. CASE u = v
      <3>1. PICK S \in SUBSET Procs : S = Owing(v)
        BY DEF Owing
      <3>2. PICK T \in SUBSET Procs : T = Owing(v)'
        BY DEF Owing
      <3>3. p \in S /\ T \subseteq S \ {p}
        BY <1>3, <1>15, <2>2, <3>1, <3>2 DEF Owing
      <3>4. Cardinality(T) + 1 <= Cardinality(S) /\ Cardinality(T) \in Nat /\ Cardinality(S) \in Nat
        BY <3>3, Counting
      <3>5. reward[v] \in Nat /\ penalty[v] \in Nat /\ settled \in Nat
        BY <1>1 DEF TypeOK
      <3>6. \/ reward'[v] = reward[v] + 1 /\ penalty'[v] = penalty[v]
            \/ penalty'[v] = penalty[v] + 1 /\ reward'[v] = reward[v]
        BY <1>1, <1>15, <2>2 DEF TypeOK
      <3>7. reward[v] + penalty[v] + Cardinality(S) <= settled
        BY <3>1 DEF JudgedOK
      <3>8. reward'[v] + penalty'[v] + Cardinality(T) <= settled'
        BY <1>15, <3>4, <3>5, <3>6, <3>7
      <3> QED
        BY <3>2, <3>8
    <2> QED
      BY <2>1, <2>2
  <1>16. CASE Reward(p)
    <2>1. PICK u \in job[p].todo :
              /\ u \in Validators /\ reward' = [reward EXCEPT ![u] = reward[u] + 1]
              /\ \/ job'[p].pc = "late"
                 \/ job'[p].pc = "reward" /\ job'[p].todo = job[p].todo \ {u}
      BY <1>1, <1>16, RewardJob
    <2>2. Others(p) /\ job[p].pc = "reward" /\ penalty' = penalty /\ settled' = settled
      BY <1>1, <1>16, RewardJob DEF Reward, history
    <2>3. u \in Voters'
      BY <1>1, <1>2, <2>2 DEF Verdicts, Knows
    <2>4. Owes(p, u) /\ ~Owes(p, u)'
      BY <2>1, <2>2, <2>3 DEF Owes
    <2>5. Owes(p, v)' => Owes(p, v)
      BY <1>2, <2>1, <2>2 DEF Owes
    <2> QED
      BY <1>15, <2>1, <2>2, <2>4, <2>5
  <1>17. CASE ReadMissed(p)
    <2>1. Missed \cap Voters = {} /\ Voters' = Voters
      BY <1>17 DEF ReadMissed, votes, Missed, Voters, Votes
    <2> QED
      BY <1>1, <1>4, <1>17, <2>1, ReadMissedJob DEF ReadMissed, Owes, judged, history
  <1>18. CASE Penalise(p)
    <2>1. PICK u \in job[p].todo :
              /\ u \in Validators /\ penalty' = [penalty EXCEPT ![u] = penalty[u] + 1]
              /\ \/ job'[p].pc \in {"idle", "refund"}
                 \/ job'[p].pc = "penalise" /\ job'[p].todo = job[p].todo \ {u}
      BY <1>1, <1>18, PenaliseJob
    <2>2. Others(p) /\ job[p].pc = "penalise" /\ reward' = reward /\ settled' = settled
      BY <1>1, <1>18, PenaliseJob DEF Penalise, history
    <2>3. Owes(p, u) /\ ~Owes(p, u)'
      BY <2>1, <2>2 DEF Owes
    <2>4. Owes(p, v)' => Owes(p, v)
      BY <2>1, <2>2 DEF Owes
    <2> QED
      BY <1>15, <2>1, <2>2, <2>3, <2>4
  <1>19. CASE Refund(p)
    BY <1>1, <1>4, <1>19, RefundJob DEF Refund, Owes, judged, history
  <1> QED
    BY <1>5, <1>6, <1>7, <1>8, <1>9, <1>10, <1>11, <1>12, <1>13, <1>14, <1>16, <1>17, <1>18, <1>19
       DEF Step

LEMMA JudgedInvariance ==
    ASSUME Base, JudgedOK, [Next]_vars
    PROVE  JudgedOK'
  <1> USE IdleJob DEF Others
  <1>1. TypeOK /\ Verdicts /\ InsertOK
    BY DEF Base
  <1>2. Voters \subseteq Voters'
    BY <1>1, VotesStay
  <1>3. ASSUME NEW v \in Validators, UNCHANGED <<reward, penalty, settled>>,
               \A q \in Procs : \/ job'[q] = job[q]
                                \/ job'[q].pc \in {"idle", "pool", "count", "vote"}
        PROVE  reward'[v] + penalty'[v] + Cardinality(Owing(v)') <= settled'
    <2>1. \A q \in Procs : Owes(q, v)' => Owes(q, v)
      BY <1>2, <1>3 DEF Owes
    <2> QED
      BY <1>1, <1>3, <2>1, JudgedFrame
  <1>4. ASSUME NEW p \in Procs, Starts(p), NEW v \in Validators
        PROVE  reward'[v] + penalty'[v] + Cardinality(Owing(v)') <= settled'
    BY <1>1, <1>3, <1>4, StartsJob
  <1>5. ASSUME Fault, NEW v \in Validators
        PROVE  reward'[v] + penalty'[v] + Cardinality(Owing(v)') <= settled'
    BY <1>1, <1>3, <1>5, FaultJob
  <1>6. ASSUME UNCHANGED <<reward, penalty, settled, job>>, NEW v \in Validators
        PROVE  reward'[v] + penalty'[v] + Cardinality(Owing(v)') <= settled'
    BY <1>3, <1>6
  <1>7. ASSUME NEW v \in Validators
        PROVE  reward'[v] + penalty'[v] + Cardinality(Owing(v)') <= settled'
    BY <1>4, <1>5, <1>6, <1>7, JudgedStep
       DEF Next, Starts, vars, judged, history, Expire, MarkTimeouts
  <1> QED
    BY <1>7 DEF JudgedOK

LEMMA JudgedInit == Init => JudgedOK
  <1> SUFFICES ASSUME Init, NEW v \in Validators
               PROVE  reward[v] + penalty[v] + Cardinality(Owing(v)) <= settled
    BY DEF JudgedOK
  <1>1. Owing(v) = {}
    BY IdleJob DEF Init, Owing, Owes
  <1> QED
    BY <1>1, FS_EmptySet DEF Init

\* However handlers interleave and whatever cuts them short, a validator is judged at
\* most as often as a verdict was written: no run of applyApproval both rewards and
\* penalises one, although it reads the votes twice.
THEOREM JudgedPerVerdict == Spec => []NotRewardedAndPenalised
  <1>1. Init => JudgedOK
    BY JudgedInit
  <1>2. Base /\ JudgedOK /\ [Next]_vars => JudgedOK'
    BY JudgedInvariance
  <1>3. Base /\ JudgedOK => NotRewardedAndPenalised
    <2> SUFFICES ASSUME Base, JudgedOK, NEW v \in Validators
                 PROVE  reward[v] + penalty[v] <= settled
      BY DEF NotRewardedAndPenalised
    <2>1. PICK S \in SUBSET Procs : S = Owing(v)
      BY DEF Owing
    <2>2. Cardinality(S) \in Nat
      BY SetsFinite
    <2>3. reward[v] + penalty[v] + Cardinality(S) <= settled
      BY <2>1 DEF JudgedOK
    <2> QED
      BY <2>2, <2>3 DEF Base, TypeOK
  <1> QED
    BY BaseInit, BaseInvariance, <1>1, <1>2, <1>3, PTL DEF Spec

(***************************************************************************)
(* A verdict moves the price at most once                                  *)
(***************************************************************************)
\* p has yet to release the price, or to give it back.
Moves(p) ==
    \/ job[p].pc \in {"pay", "send"}
    \/ job[p].pc \in {"late", "penalise", "refund"} /\ job[p].verdict = "rejected"

Moving == {p \in Procs : Moves(p)}

PriceOK ==
    /\ paid + refunded + sent + Cardinality(Moving) <= settled
    /\ submission \in {"none", "validating"} => settled = 0

\* What each step does to the price.
LEMMA PriceStep ==
    ASSUME Base, PriceOK, NEW p \in Procs, Step(p)
    PROVE  /\ Others(p)
           /\ \/ /\ UNCHANGED <<paid, refunded, sent, settled, submission>>
                 /\ Moves(p)' => Moves(p)
              \/ /\ UNCHANGED <<paid, refunded, sent>> /\ settled' = settled + 1
                 /\ submission' \in {"approved", "rejected"} /\ ~Moves(p)
              \/ /\ UNCHANGED <<settled, submission>> /\ Moves(p) /\ ~Moves(p)'
                 /\ \/ paid' = paid + 1 /\ UNCHANGED <<refunded, sent>>
                    \/ sent' = sent + 1 /\ UNCHANGED <<paid, refunded>>
                    \/ refunded' = refunded + 1 /\ UNCHANGED <<paid, sent>>
  <1> USE IdleJob DEF Others, Moves
  <1>1. TypeOK /\ Verdicts
    BY DEF Base
  <1>2. CASE ReadPool(p)
    BY <1>1, <1>2, ReadPoolJob DEF ReadPool, money, points, payout, history
  <1>3. CASE InsertValidation(p)
    BY <1>1, <1>3, InsertJob DEF InsertValidation, money, points, payout, history
  <1>4. CASE WriteVote(p)
    BY <1>1, <1>4, WriteVoteJob DEF WriteVote, money, points, payout, history
  <1>5. CASE CountVotes(p)
    BY <1>1, <1>5, CountJob DEF CountVotes, money, points, payout, history
  <1>6. CASE Apply(p)
    <2>1. job[p].verdict \in {"approved", "rejected"}
      BY <1>1, <1>6 DEF Apply, At, Verdicts, Knows
    <2> QED
      BY <1>1, <1>6, <2>1, ApplyJob DEF Apply, money, points, payout, history
  <1>7. CASE WriteVerdict(p)
    BY <1>1, <1>7, VerdictJob DEF WriteVerdict, money, points, payout
  <1>8. CASE Pay(p)
    BY <1>1, <1>8, PayJob DEF Pay, history, Verdicts, Knows
  <1>9. CASE SendUsdc(p)
    BY <1>1, <1>9, SendJob DEF SendUsdc, points, history, TypeOK
  <1>10. CASE RecordUsdc(p)
    BY <1>1, <1>10, RecordJob DEF RecordUsdc, points, history
  <1>11. CASE ReadVoters(p)
    BY <1>1, <1>11, ReadVotersJob DEF ReadVoters, money, points, payout, history, Verdicts, Knows
  <1>12. CASE Reward(p)
    BY <1>1, <1>12, RewardJob DEF Reward, money, points, payout, history, Verdicts, Knows
  <1>13. CASE ReadMissed(p)
    BY <1>1, <1>13, ReadMissedJob DEF ReadMissed, money, points, payout, history
  <1>14. CASE Penalise(p)
    BY <1>1, <1>14, PenaliseJob DEF Penalise, money, points, payout, history
  <1>15. CASE Refund(p)
    BY <1>1, <1>15, RefundJob DEF Refund, payout, history, Verdicts, Knows
  <1> QED
    BY <1>2, <1>3, <1>4, <1>5, <1>6, <1>7, <1>8, <1>9, <1>10, <1>11, <1>12, <1>13, <1>14, <1>15 DEF Step

LEMMA PriceInit == Init => PriceOK
  <1> SUFFICES ASSUME Init PROVE PriceOK
    OBVIOUS
  <1>1. Moving = {}
    BY IdleJob DEF Init, Moving, Moves
  <1> QED
    BY <1>1, FS_EmptySet DEF Init, PriceOK

LEMMA PriceInvariance ==
    ASSUME Base, PriceOK, [Next]_vars
    PROVE  PriceOK'
  <1> USE IdleJob DEF Others
  <1>1. PICK S \in SUBSET Procs : S = Moving
    BY DEF Moving
  <1>2. PICK T \in SUBSET Procs : T = Moving'
    BY DEF Moving
  <1>3. /\ paid \in Nat /\ refunded \in Nat /\ sent \in Nat /\ settled \in Nat
        /\ Cardinality(S) \in Nat /\ Cardinality(T) \in Nat
    BY Counting DEF Base, TypeOK
  <1>4. paid + refunded + sent + Cardinality(S) <= settled
    BY <1>1 DEF PriceOK
  <1>5. ASSUME paid' + refunded' + sent' + Cardinality(T) <= settled',
               submission' \in {"none", "validating"} => settled' = 0
        PROVE  PriceOK'
    BY <1>2, <1>5 DEF PriceOK
  <1>6. ASSUME UNCHANGED <<paid, refunded, sent, settled>>,
               submission' \in {"none", "validating"} => submission \in {"none", "validating"},
               \A q \in Procs : Moves(q)' => Moves(q)
        PROVE  PriceOK'
    <2>1. T \subseteq S
      BY <1>1, <1>2, <1>6 DEF Moving
    <2>2. Cardinality(T) <= Cardinality(S)
      BY <2>1, Counting
    <2> QED
      BY <1>3, <1>4, <1>5, <1>6, <2>2 DEF PriceOK
  <1>7. ASSUME NEW q \in Procs, job'[q] = job[q] PROVE Moves(q)' => Moves(q)
    BY <1>7 DEF Moves
  <1>8. ASSUME NEW p \in Procs, Step(p) PROVE PriceOK'
    <2>1. Others(p)
      BY <1>8, PriceStep
    <2>2. CASE UNCHANGED <<paid, refunded, sent, settled, submission>> /\ (Moves(p)' => Moves(p))
      BY <1>6, <1>7, <2>1, <2>2
    <2>3. CASE /\ UNCHANGED <<paid, refunded, sent>> /\ settled' = settled + 1
               /\ submission' \in {"approved", "rejected"} /\ ~Moves(p)
      <3>1. T \subseteq S \cup {p}
        BY <1>1, <1>2, <1>7, <2>1 DEF Moving
      <3>2. Cardinality(T) <= Cardinality(S) + 1
        BY <3>1, Counting
      <3> QED
        BY <1>3, <1>4, <1>5, <2>3, <3>2
    <2>4. CASE /\ UNCHANGED <<settled, submission>> /\ Moves(p) /\ ~Moves(p)'
               /\ \/ paid' = paid + 1 /\ UNCHANGED <<refunded, sent>>
                  \/ sent' = sent + 1 /\ UNCHANGED <<paid, refunded>>
                  \/ refunded' = refunded + 1 /\ UNCHANGED <<paid, sent>>
      <3>1. p \in S /\ T \subseteq S \ {p}
        BY <1>1, <1>2, <1>7, <2>1, <2>4 DEF Moving
      <3>2. Cardinality(T) + 1 <= Cardinality(S)
        BY <3>1, Counting
      <3> QED
        BY <1>3, <1>4, <1>5, <2>4, <3>2 DEF PriceOK
    <2> QED
      BY <1>8, <2>2, <2>3, <2>4, PriceStep
  <1>9. ASSUME NEW p \in Procs, Starts(p) PROVE PriceOK'
    <2>1. ~Moves(p)'
      BY <1>9, StartsJob DEF Base, Moves
    <2> QED
      BY <1>6, <1>7, <1>9, <2>1, StartsJob DEF Base
  <1>10. CASE Fault
    <2>1. ASSUME NEW q \in Procs PROVE Moves(q)' => Moves(q)
      BY <1>10, <2>1, FaultJob DEF Base, Moves
    <2> QED
      BY <1>6, <1>10, <2>1, FaultJob DEF Base
  <1>11. CASE UNCHANGED <<paid, refunded, sent, settled, submission, job>>
    BY <1>6, <1>11 DEF Moves
  <1> QED
    BY <1>8, <1>9, <1>10, <1>11
       DEF Next, Starts, vars, money, points, payout, history, Expire, MarkTimeouts

(***************************************************************************)
(* Without overlap there is one verdict                                    *)
(***************************************************************************)
SingleOK ==
    ~overlapped =>
        /\ settled <= 1
        /\ \A p, q \in Procs : job[p] # Idle /\ job[q] # Idle => p = q
        /\ \A p \in Procs : job[p].pc \in {"approved", "rejected"} => submission = "validating"

LEMMA SingleInvariance ==
    ASSUME Base, PriceOK, SingleOK, [Next]_vars
    PROVE  SingleOK'
  <1> USE IdleJob DEF Others
  <1>1. TypeOK /\ Verdicts
    BY DEF Base
  <1>2. ASSUME NEW p \in Procs, Step(p), ~overlapped'
        PROVE  /\ settled' <= 1
               /\ \A q, r \in Procs : job'[q] # Idle /\ job'[r] # Idle => q = r
               /\ \A q \in Procs : job'[q].pc \in {"approved", "rejected"} => submission' = "validating"
    <2>1. Others(p) /\ overlapped' = overlapped
      BY <1>2, PriceStep DEF Step, ReadPool, InsertValidation, WriteVote, CountVotes, Apply, WriteVerdict, Pay,
         SendUsdc, RecordUsdc, ReadVoters, Reward, ReadMissed, Penalise, Refund, history
    <2>2. job[p] # Idle
      BY <1>2 DEF Step, ReadPool, InsertValidation, WriteVote, CountVotes, Apply, WriteVerdict, Pay,
         SendUsdc, RecordUsdc, ReadVoters, Reward, ReadMissed, Penalise, Refund, At
    <2>3. \A q \in Procs \ {p} : job'[q] = Idle
      BY <1>2, <2>1, <2>2 DEF SingleOK
    <2>4. settled' <= 1 /\ (job'[p].pc \in {"approved", "rejected"} => submission' = "validating")
      <3>1. CASE Apply(p)
        <4>1. job[p].verdict \in {"approved", "rejected"}
          BY <1>1, <3>1 DEF Apply, At, Verdicts, Knows
        <4> QED
          BY <1>1, <1>2, <2>1, <3>1, <4>1, ApplyJob DEF Apply, history, SingleOK
      <3>2. CASE WriteVerdict(p)
        <4>1. submission = "validating" /\ settled = 0
          BY <1>1, <1>2, <2>1, <3>2, VerdictJob DEF SingleOK, PriceOK
        <4> QED
          BY <1>1, <3>2, <4>1, VerdictJob
      <3>3. ASSUME settled' = settled, job'[p].pc \notin {"approved", "rejected"}
            PROVE  settled' <= 1 /\ (job'[p].pc \in {"approved", "rejected"} => submission' = "validating")
        BY <1>2, <2>1, <3>3 DEF SingleOK
      <3>4. CASE ReadPool(p)
        BY <1>1, <3>3, <3>4, ReadPoolJob DEF ReadPool, history
      <3>5. CASE InsertValidation(p)
        BY <1>1, <3>3, <3>5, InsertJob DEF InsertValidation, history
      <3>6. CASE WriteVote(p)
        BY <1>1, <3>3, <3>6, WriteVoteJob DEF WriteVote, history
      <3>7. CASE CountVotes(p)
        BY <1>1, <3>3, <3>7, CountJob DEF CountVotes, history
      <3>8. CASE Pay(p)
        BY <1>1, <3>3, <3>8, PayJob DEF Pay, history
      <3>9. CASE SendUsdc(p)
        BY <1>1, <3>3, <3>9, SendJob DEF SendUsdc, history
      <3>10. CASE RecordUsdc(p)
        BY <1>1, <3>3, <3>10, RecordJob DEF RecordUsdc, history
      <3>11. CASE ReadVoters(p)
        BY <1>1, <3>3, <3>11, ReadVotersJob DEF ReadVoters, history
      <3>12. CASE Reward(p)
        BY <1>1, <3>3, <3>12, RewardJob DEF Reward, history
      <3>13. CASE ReadMissed(p)
        BY <1>1, <3>3, <3>13, ReadMissedJob DEF ReadMissed, history
      <3>14. CASE Penalise(p)
        BY <1>1, <3>3, <3>14, PenaliseJob DEF Penalise, history
      <3>15. CASE Refund(p)
        BY <1>1, <3>3, <3>15, RefundJob DEF Refund, history
      <3> QED
        BY <1>2, <3>1, <3>2, <3>4, <3>5, <3>6, <3>7, <3>8, <3>9, <3>10, <3>11, <3>12, <3>13, <3>14, <3>15
           DEF Step
    <2> QED
      BY <2>3, <2>4
  <1>3. ASSUME NEW p \in Procs, Starts(p) PROVE SingleOK'
    <2>1. ~overlapped' => ~overlapped /\ \A q \in Procs \ {p} : job'[q] = Idle
      BY <1>1, <1>3, StartsJob
    <2>2. settled' = settled /\ job'[p].pc \notin {"approved", "rejected"}
      BY <1>1, <1>3, StartsJob
    <2> QED
      BY <2>1, <2>2 DEF SingleOK
  <1>4. CASE Fault
    BY <1>1, <1>4, FaultJob DEF SingleOK
  <1>5. CASE UNCHANGED <<overlapped, settled, submission, job>>
    BY <1>5 DEF SingleOK
  <1>6. ASSUME NEW p \in Procs, Step(p) PROVE SingleOK'
    BY <1>2, <1>6 DEF SingleOK
  <1> QED
    BY <1>3, <1>4, <1>5, <1>6 DEF Next, Starts, vars, history, Expire, MarkTimeouts

\* While handlers did not overlap, a validator is judged once and the price moves once,
\* whatever cuts handlers short and however late a vote arrives.
THEOREM JudgedOnlyOnce == Spec => []JudgedOnce
  <1> DEFINE I == JudgedOK /\ PriceOK /\ SingleOK
  <1>1. Init => I
    <2> SUFFICES ASSUME Init PROVE I
      OBVIOUS
    <2>1. JudgedOK
      BY JudgedInit
    <2>2. PriceOK
      BY PriceInit
    <2>3. SingleOK
      BY IdleJob DEF Init, SingleOK
    <2> QED
      BY <2>1, <2>2, <2>3
  <1>2. Base /\ I /\ [Next]_vars => I'
    BY JudgedInvariance, PriceInvariance, SingleInvariance
  <1>3. Base /\ I => JudgedOnce
    <2> SUFFICES ASSUME Base, I, ~overlapped
                 PROVE  /\ paid + refunded + sent <= 1
                        /\ \A v \in Validators : reward[v] + penalty[v] <= 1
      BY DEF JudgedOnce
    <2>1. settled <= 1 /\ settled \in Nat
      BY DEF SingleOK, Base, TypeOK
    <2>2. PICK S \in SUBSET Procs : S = Moving
      BY DEF Moving
    <2>3. paid + refunded + sent <= 1
      BY <2>1, <2>2, SetsFinite DEF PriceOK, Base, TypeOK
    <2>4. ASSUME NEW v \in Validators PROVE reward[v] + penalty[v] <= 1
      <3>1. PICK R \in SUBSET Procs : R = Owing(v)
        BY DEF Owing
      <3>2. Cardinality(R) \in Nat
        BY SetsFinite
      <3>3. reward[v] + penalty[v] + Cardinality(R) <= settled
        BY <3>1 DEF JudgedOK
      <3> QED
        BY <2>1, <3>2, <3>3 DEF Base, TypeOK
    <2> QED
      BY <2>3, <2>4
  <1> QED
    BY BaseInit, BaseInvariance, <1>1, <1>2, <1>3, PTL DEF Spec

(***************************************************************************)
(* The executor is paid or told, or the creator has the price back         *)
(***************************************************************************)
TellsOK ==
    faults = 0 =>
        /\ submission = "approved" =>
              \/ paid + sent + held + failed > 0
              \/ \E p \in Procs : job[p].pc \in {"pay", "send"}
        /\ submission = "rejected" /\ ~usdc =>
              \/ refunded > 0
              \/ \E p \in Procs : /\ job[p].pc \in {"late", "penalise", "refund"}
                                  /\ job[p].verdict = "rejected"

\* A handler that is about to move the price goes on, moves it, or tells.
LEMMA TellsStep ==
    ASSUME Base, NEW p \in Procs, Step(p)
    PROVE  /\ paid' >= paid /\ sent' >= sent /\ held' >= held /\ failed' >= failed
           /\ refunded' >= refunded /\ usdc' = usdc /\ faults' = faults
           /\ job[p].pc \in {"pay", "send"} =>
                 \/ job'[p].pc \in {"pay", "send"}
                 \/ paid' + sent' + held' + failed' > 0
           /\ job[p].pc \in {"late", "penalise", "refund"} /\ job[p].verdict = "rejected" /\ ~usdc =>
                 \/ job'[p].pc \in {"late", "penalise", "refund"} /\ job'[p].verdict = "rejected"
                 \/ refunded' > 0
           /\ \/ submission' = submission
              \/ submission' = "approved" /\ job'[p].pc = "pay"
              \/ submission' = "rejected" /\ job'[p].pc = "late" /\ job'[p].verdict = "rejected"
  <1>1. /\ TypeOK /\ Verdicts
        /\ paid \in Nat /\ sent \in Nat /\ held \in Nat /\ failed \in Nat /\ refunded \in Nat
    BY DEF Base, TypeOK
  <1>2. CASE ReadPool(p)
    BY <1>1, <1>2, ReadPoolJob DEF ReadPool, money, points, payout, history
  <1>3. CASE InsertValidation(p)
    BY <1>1, <1>3 DEF InsertValidation, At, money, points, payout, history
  <1>4. CASE WriteVote(p)
    BY <1>1, <1>4, WriteVoteJob DEF WriteVote, money, points, payout, history
  <1>5. CASE CountVotes(p)
    BY <1>1, <1>5, CountJob DEF CountVotes, money, points, payout, history
  <1>6. CASE Apply(p)
    BY <1>1, <1>6 DEF Apply, At, money, points, payout, history
  <1>7. CASE WriteVerdict(p)
    BY <1>1, <1>7, VerdictJob DEF WriteVerdict, money, points, payout, Verdicts, Knows
  <1>8. CASE Pay(p)
    BY <1>1, <1>8, PayJob DEF Pay, history
  <1>9. CASE SendUsdc(p)
    BY <1>1, <1>9, SendJob DEF SendUsdc, points, history
  <1>10. CASE RecordUsdc(p)
    BY <1>1, <1>10, RecordJob DEF RecordUsdc, points, history
  <1>11. CASE ReadVoters(p)
    BY <1>1, <1>11, ReadVotersJob DEF ReadVoters, money, points, payout, history
  <1>12. CASE Reward(p)
    BY <1>1, <1>12 DEF Reward, At, money, points, payout, history
  <1>13. CASE ReadMissed(p)
    <2>1. UNCHANGED <<paid, refunded, usdc, sent, held, failed, submission, faults>>
      BY <1>13 DEF ReadMissed, money, points, payout, history
    <2>2. /\ job[p].pc = "late"
          /\ job[p].verdict = "rejected" =>
                job'[p].pc \in {"penalise", "refund"} /\ job'[p].verdict = "rejected"
      BY <1>1, <1>13, ReadMissedJob
    <2> QED
      BY <1>1, <2>1, <2>2
  <1>14. CASE Penalise(p)
    <2>1. UNCHANGED <<paid, refunded, usdc, sent, held, failed, submission, faults>>
      BY <1>14 DEF Penalise, money, points, payout, history
    <2>2. /\ job[p].pc = "penalise"
          /\ job[p].verdict = "rejected" =>
                job'[p].pc \in {"penalise", "refund"} /\ job'[p].verdict = "rejected"
      BY <1>1, <1>14, PenaliseJob
    <2> QED
      BY <1>1, <2>1, <2>2
  <1>15. CASE Refund(p)
    BY <1>1, <1>15, RefundJob DEF Refund, payout, history
  <1> QED
    BY <1>2, <1>3, <1>4, <1>5, <1>6, <1>7, <1>8, <1>9, <1>10, <1>11, <1>12, <1>13, <1>14, <1>15 DEF Step

LEMMA SumGrows ==
    ASSUME NEW a \in Nat, NEW b \in Nat, NEW c \in Nat, NEW d \in Nat, a + b + c + d > 0,
           NEW a2 \in Nat, NEW b2 \in Nat, NEW c2 \in Nat, NEW d2 \in Nat,
           a2 >= a, b2 >= b, c2 >= c, d2 >= d
    PROVE  a2 + b2 + c2 + d2 > 0
  OBVIOUS

LEMMA TellsInvariance ==
    ASSUME Base, PriceOK, TellsOK, [Next]_vars
    PROVE  TellsOK'
  <1> USE IdleJob DEF Others
  <1>1. TypeOK /\ paid \in Nat /\ sent \in Nat /\ held \in Nat /\ failed \in Nat /\ refunded \in Nat
    BY DEF Base, TypeOK
  <1>2. ASSUME NEW p \in Procs, Step(p) PROVE TellsOK'
    <2> SUFFICES ASSUME faults' = 0
                 PROVE  /\ submission' = "approved" =>
                              \/ paid' + sent' + held' + failed' > 0
                              \/ \E q \in Procs : job'[q].pc \in {"pay", "send"}
                        /\ submission' = "rejected" /\ ~usdc' =>
                              \/ refunded' > 0
                              \/ \E q \in Procs : /\ job'[q].pc \in {"late", "penalise", "refund"}
                                                  /\ job'[q].verdict = "rejected"
      BY DEF TellsOK
    <2>1. /\ paid' >= paid /\ sent' >= sent /\ held' >= held /\ failed' >= failed
          /\ refunded' >= refunded /\ usdc' = usdc /\ faults = 0
      BY <1>2, TellsStep
    <2>2. \A q \in Procs \ {p} : job'[q] = job[q]
      BY <1>2, PriceStep
    <2>3. paid' \in Nat /\ sent' \in Nat /\ held' \in Nat /\ failed' \in Nat /\ refunded' \in Nat
      BY BaseInvariance DEF Base, TypeOK
    <2>4. ASSUME submission' = "approved"
          PROVE  \/ paid' + sent' + held' + failed' > 0
                 \/ \E q \in Procs : job'[q].pc \in {"pay", "send"}
      <3>1. CASE submission' # submission
        BY <1>2, <2>4, <3>1, TellsStep
      <3>2. ASSUME paid + sent + held + failed > 0 PROVE paid' + sent' + held' + failed' > 0
        BY <1>1, <2>1, <2>3, <3>2, SumGrows
      <3>3. ASSUME NEW q \in Procs, job[q].pc \in {"pay", "send"}
            PROVE  \/ paid' + sent' + held' + failed' > 0
                   \/ job'[q].pc \in {"pay", "send"}
        BY <1>2, <2>2, <3>3, TellsStep
      <3> QED
        BY <2>1, <2>4, <3>1, <3>2, <3>3 DEF TellsOK
    <2>5. ASSUME submission' = "rejected", ~usdc'
          PROVE  \/ refunded' > 0
                 \/ \E q \in Procs : /\ job'[q].pc \in {"late", "penalise", "refund"}
                                     /\ job'[q].verdict = "rejected"
      <3>1. CASE submission' # submission
        BY <1>2, <2>5, <3>1, TellsStep
      <3>2. CASE refunded > 0
        BY <1>1, <2>1, <2>3, <3>2
      <3>3. ASSUME NEW q \in Procs, job[q].pc \in {"late", "penalise", "refund"},
                   job[q].verdict = "rejected"
            PROVE  \/ refunded' > 0
                   \/ job'[q].pc \in {"late", "penalise", "refund"} /\ job'[q].verdict = "rejected"
        BY <1>2, <2>1, <2>2, <2>5, <3>3, TellsStep
      <3> QED
        BY <2>1, <2>5, <3>1, <3>2, <3>3 DEF TellsOK
    <2> QED
      BY <2>4, <2>5
  <1>3. ASSUME NEW p \in Procs, Starts(p) PROVE TellsOK'
    <2>1. /\ Others(p) /\ job[p] = Idle /\ submission' \in {submission, "validating"}
          /\ UNCHANGED <<paid, sent, held, failed, refunded, usdc, faults>>
      BY <1>1, <1>3, StartsJob
    <2>2. \A q \in Procs : job[q] # Idle => job'[q] = job[q]
      BY <2>1
    <2>3. \A q \in Procs : job[q].pc # "idle" => job'[q] = job[q]
      BY <2>2
    <2> QED
      BY <2>1, <2>3 DEF TellsOK
  <1>4. CASE Fault
    <2>1. faults' # 0
      BY <1>1, <1>4, FaultJob DEF TypeOK
    <2> QED
      BY <2>1 DEF TellsOK
  <1>5. CASE UNCHANGED <<paid, sent, held, failed, refunded, usdc, faults, submission, job>>
    BY <1>5 DEF TellsOK
  <1> QED
    BY <1>2, <1>3, <1>4, <1>5 DEF Next, Starts, vars, money, points, payout, history, Expire, MarkTimeouts

\* However handlers interleave, a verdict moves the price of a points task, leaves the
\* executor of a USDC task paid or told, and without a verdict nothing is paid.
THEOREM PriceFollowsVerdict == Spec => []VerdictMovesPrice
  <1> DEFINE I == PriceOK /\ TellsOK
  <1>1. Init => I
    BY PriceInit DEF Init, TellsOK
  <1>2. Base /\ I /\ [Next]_vars => I'
    BY PriceInvariance, TellsInvariance
  <1>3. Base /\ I => VerdictMovesPrice
    <2> SUFFICES ASSUME Base, I, Quiet, faults = 0
                 PROVE  /\ submission = "approved" => paid + sent + held + failed > 0
                        /\ submission = "rejected" /\ ~usdc => refunded > 0
                        /\ submission \in {"none", "validating"} => paid + refunded + sent = 0
      BY DEF VerdictMovesPrice
    <2>1. \A p \in Procs : job[p].pc = "idle"
      BY IdleJob DEF Quiet
    <2>2. /\ submission = "approved" => paid + sent + held + failed > 0
          /\ submission = "rejected" /\ ~usdc => refunded > 0
      BY <2>1 DEF TellsOK
    <2>3. PICK S \in SUBSET Procs : S = Moving
      BY DEF Moving
    <2>4. submission \in {"none", "validating"} => paid + refunded + sent = 0
      BY <2>3, SetsFinite DEF PriceOK, Base, TypeOK
    <2> QED
      BY <2>2, <2>4
  <1> QED
    BY BaseInit, BaseInvariance, <1>1, <1>2, <1>3, PTL DEF Spec

(***************************************************************************)
(* Every transfer is recorded or reported                                  *)
(***************************************************************************)
Recording == {p \in Procs : At(p, "record")}

RecordOK ==
    /\ recorded + Cardinality(Recording) <= sent
    /\ sent <= recorded + failed + Cardinality(Recording) + faults * Cardinality(Procs)

\* What each step does to the transfers.
LEMMA RecordStep ==
    ASSUME Base, PriceOK, NEW p \in Procs, Step(p)
    PROVE  /\ faults' = faults /\ \A q \in Procs \ {p} : job'[q] = job[q]
           /\ \/ /\ UNCHANGED <<sent, recorded, failed>> /\ ~At(p, "record") /\ ~At(p, "record")'
              \/ /\ sent' = sent + 1 /\ UNCHANGED <<recorded, failed>>
                 /\ ~At(p, "record") /\ At(p, "record")'
              \/ /\ sent' \in {sent, sent + 1} /\ failed' = failed + 1 /\ recorded' = recorded
                 /\ ~At(p, "record") /\ ~At(p, "record")'
              \/ /\ recorded' = recorded + 1 /\ UNCHANGED <<sent, failed>>
                 /\ At(p, "record") /\ ~At(p, "record")'
              \/ /\ failed' = failed + 1 /\ UNCHANGED <<sent, recorded>>
                 /\ At(p, "record") /\ ~At(p, "record")'
  <1> USE IdleJob DEF At
  <1>1. TypeOK /\ Verdicts
    BY DEF Base
  <1>2. \A q \in Procs \ {p} : job'[q] = job[q]
    BY PriceStep DEF Others
  <1> HIDE DEF Others
  <1>3. CASE ReadPool(p)
    BY <1>1, <1>2, <1>3, ReadPoolJob DEF ReadPool, money, points, payout, history
  <1>4. CASE InsertValidation(p)
    <2>1. job'[p].pc \in {"idle", "insert"} /\ job[p].pc = "insert"
      BY <1>1, <1>4, InsertJob
    <2> QED
      BY <1>2, <1>4, <2>1 DEF InsertValidation, money, points, payout, history
  <1>5. CASE WriteVote(p)
    BY <1>1, <1>2, <1>5, WriteVoteJob DEF WriteVote, money, points, payout, history
  <1>6. CASE CountVotes(p)
    BY <1>1, <1>2, <1>6, CountJob DEF CountVotes, money, points, payout, history
  <1>7. CASE Apply(p)
    <2>1. job[p].verdict \in {"approved", "rejected"}
      BY <1>1, <1>7 DEF Apply, Verdicts, Knows
    <2> QED
      BY <1>1, <1>2, <1>7, <2>1, ApplyJob DEF Apply, money, points, payout, history
  <1>8. CASE WriteVerdict(p)
    BY <1>1, <1>2, <1>8, VerdictJob DEF WriteVerdict, money, points, payout
  <1>9. CASE Pay(p)
    BY <1>1, <1>2, <1>9, PayJob DEF Pay, history
  <1>10. CASE SendUsdc(p)
    BY <1>1, <1>2, <1>10, SendJob DEF SendUsdc, points, history
  <1>11. CASE RecordUsdc(p)
    BY <1>1, <1>2, <1>11, RecordJob DEF RecordUsdc, points, history
  <1>12. CASE ReadVoters(p)
    BY <1>1, <1>2, <1>12, ReadVotersJob DEF ReadVoters, money, points, payout, history
  <1>13. CASE Reward(p)
    <2>1. job'[p].pc \in {"late", "reward"} /\ job[p].pc = "reward"
      BY <1>1, <1>13, RewardJob
    <2> QED
      BY <1>2, <1>13, <2>1 DEF Reward, money, points, payout, history
  <1>14. CASE ReadMissed(p)
    <2>1. job'[p].pc \in {"idle", "refund", "penalise"} /\ job[p].pc = "late"
      BY <1>1, <1>14, ReadMissedJob
    <2> QED
      BY <1>2, <1>14, <2>1 DEF ReadMissed, money, points, payout, history
  <1>15. CASE Penalise(p)
    <2>1. job'[p].pc \in {"idle", "refund", "penalise"} /\ job[p].pc = "penalise"
      BY <1>1, <1>15, PenaliseJob
    <2> QED
      BY <1>2, <1>15, <2>1 DEF Penalise, money, points, payout, history
  <1>16. CASE Refund(p)
    BY <1>1, <1>2, <1>16, RefundJob DEF Refund, payout, history
  <1> QED
    BY <1>3, <1>4, <1>5, <1>6, <1>7, <1>8, <1>9, <1>10, <1>11, <1>12, <1>13, <1>14, <1>15, <1>16
       DEF Step

LEMMA RecordInvariance ==
    ASSUME Base, PriceOK, RecordOK, [Next]_vars
    PROVE  RecordOK'
  <1>1. PICK S \in SUBSET Procs : S = Recording
    BY DEF Recording
  <1>2. PICK T \in SUBSET Procs : T = Recording'
    BY DEF Recording
  <1>3. PICK N \in Nat : N = Cardinality(Procs)
    BY SetsFinite
  <1>4. PICK s \in Nat : s = Cardinality(S)
    BY SetsFinite
  <1>5. PICK t \in Nat : t = Cardinality(T)
    BY SetsFinite
  <1>6. PICK k \in Nat : k = faults * N
    BY <1>3 DEF Base, TypeOK
  <1>7. sent \in Nat /\ recorded \in Nat /\ failed \in Nat /\ faults \in Nat
    BY DEF Base, TypeOK
  <1>8. recorded + s <= sent /\ sent <= recorded + failed + s + k
    BY <1>1, <1>3, <1>4, <1>6 DEF RecordOK
  <1>9. ASSUME faults' = faults, recorded' + t <= sent', sent' <= recorded' + failed' + t + k
        PROVE  RecordOK'
    BY <1>2, <1>3, <1>5, <1>6, <1>9 DEF RecordOK
  <1>10. ASSUME NEW q \in Procs, job'[q] = job[q] PROVE At(q, "record")' <=> At(q, "record")
    BY <1>10 DEF At
  <1>11. ASSUME UNCHANGED <<sent, recorded, failed, faults>>,
                \A q \in Procs : At(q, "record")' <=> At(q, "record")
         PROVE  RecordOK'
    <2>1. T = S
      BY <1>1, <1>2, <1>11 DEF Recording
    <2>2. t = s
      BY <1>4, <1>5, <2>1
    <2> QED
      BY <1>8, <1>9, <1>11, <2>2
  <1>12. ASSUME NEW p \in Procs, Step(p) PROVE RecordOK'
    <2>1. faults' = faults /\ \A q \in Procs \ {p} : At(q, "record")' <=> At(q, "record")
      BY <1>10, <1>12, RecordStep
    <2>2. CASE UNCHANGED <<sent, recorded, failed>> /\ ~At(p, "record") /\ ~At(p, "record")'
      BY <1>11, <2>1, <2>2
    <2>3. CASE /\ sent' = sent + 1 /\ UNCHANGED <<recorded, failed>>
               /\ ~At(p, "record") /\ At(p, "record")'
      <3>1. T \subseteq S \cup {p} /\ p \in T /\ S \subseteq T \ {p}
        BY <1>1, <1>2, <2>1, <2>3 DEF Recording
      <3>2. t <= s + 1 /\ s + 1 <= t
        BY <1>4, <1>5, <3>1, Counting
      <3>3. recorded' + t <= sent' /\ sent' <= recorded' + failed' + t + k
        BY <1>4, <1>5, <1>6, <1>7, <1>8, <2>3, <3>2
      <3> QED
        BY <1>9, <2>1, <3>3
    <2>4. CASE /\ sent' \in {sent, sent + 1} /\ failed' = failed + 1 /\ recorded' = recorded
               /\ ~At(p, "record") /\ ~At(p, "record")'
      <3>1. T = S
        BY <1>1, <1>2, <2>1, <2>4 DEF Recording
      <3>2. t = s
        BY <1>4, <1>5, <3>1
      <3>3. recorded' + t <= sent' /\ sent' <= recorded' + failed' + t + k
        BY <1>4, <1>5, <1>6, <1>7, <1>8, <2>4, <3>2
      <3> QED
        BY <1>9, <2>1, <3>3
    <2>5. CASE /\ \/ recorded' = recorded + 1 /\ UNCHANGED <<sent, failed>>
                  \/ failed' = failed + 1 /\ UNCHANGED <<sent, recorded>>
               /\ At(p, "record") /\ ~At(p, "record")'
      <3>1. S \subseteq T \cup {p} /\ p \in S /\ T \subseteq S \ {p}
        BY <1>1, <1>2, <2>1, <2>5 DEF Recording
      <3>2. s <= t + 1 /\ t + 1 <= s
        BY <1>4, <1>5, <3>1, Counting
      <3>3. recorded' + t <= sent' /\ sent' <= recorded' + failed' + t + k
        BY <1>4, <1>5, <1>6, <1>7, <1>8, <2>5, <3>2
      <3> QED
        BY <1>9, <2>1, <3>3
    <2> QED
      BY <1>12, <2>2, <2>3, <2>4, <2>5, RecordStep
  <1>13. ASSUME NEW p \in Procs, Starts(p) PROVE RecordOK'
    <2>1. /\ Others(p) /\ job[p] = Idle /\ job'[p].pc \in {"pool", "count", "vote"}
          /\ UNCHANGED <<sent, recorded, failed, faults>>
      BY <1>13, StartsJob DEF Base
    <2>2. ~At(p, "record") /\ ~At(p, "record")'
      BY <2>1, IdleJob DEF At
    <2> QED
      BY <1>10, <1>11, <2>1, <2>2 DEF Others
  <1>14. CASE Fault
    <2>1. /\ UNCHANGED <<sent, recorded, failed>> /\ faults' = faults + 1
          /\ \A q \in Procs : At(q, "record")' => At(q, "record")
      BY <1>14, FaultJob, IdleJob DEF Base, At
    <2>2. T \subseteq S
      BY <1>1, <1>2, <2>1 DEF Recording
    <2>3. t <= s
      BY <1>4, <1>5, <2>2, Counting
    <2>4. s <= N
      BY <1>3, <1>4, SetsFinite, FS_Subset
    <2>5. faults' * N = k + N
      BY <1>3, <1>6, <1>7, <2>1
    <2>6. recorded' + t <= sent'
      BY <1>4, <1>5, <1>7, <1>8, <2>1, <2>3
    <2>7. sent' <= recorded' + failed' + t + (k + N)
      BY <1>3, <1>4, <1>5, <1>6, <1>7, <1>8, <2>1, <2>4
    <2>8. sent' <= recorded' + failed' + t + faults' * N
      BY <2>5, <2>7
    <2> QED
      BY <1>2, <1>3, <1>5, <2>6, <2>8 DEF RecordOK
  <1>15. CASE UNCHANGED <<sent, recorded, failed, faults, job>>
    BY <1>11, <1>15 DEF At
  <1> QED
    BY <1>12, <1>13, <1>14, <1>15 DEF Next, Starts, vars, money, points, payout, history, Expire, MarkTimeouts

\* A USDC transfer is recorded, about to be, or reported as failed, unless a fault cut
\* its handler short; and nothing is recorded that was not sent.
THEOREM TransfersAccounted == Spec => []PayoutsAccounted
  <1> DEFINE I == PriceOK /\ RecordOK
  <1>1. Init => I
    <2> SUFFICES ASSUME Init PROVE RecordOK
      BY PriceInit
    <2>1. Recording = {}
      BY IdleJob DEF Init, Recording, At
    <2> QED
      BY <2>1, FS_EmptySet, SetsFinite DEF Init, RecordOK
  <1>2. Base /\ I /\ [Next]_vars => I'
    BY PriceInvariance, RecordInvariance
  <1>3. Base /\ I => PayoutsAccounted
    <2> SUFFICES ASSUME Base, I PROVE PayoutsAccounted
      OBVIOUS
    <2>1. PICK S \in SUBSET Procs : S = Recording
      BY DEF Recording
    <2>2. recorded <= sent
      BY <2>1, SetsFinite DEF RecordOK, Base, TypeOK
    <2> QED
      BY <2>2 DEF PayoutsAccounted, RecordOK, Recording
  <1> QED
    BY BaseInit, BaseInvariance, <1>1, <1>2, <1>3, PTL DEF Spec

(***************************************************************************)
(* The verdict follows the votes                                           *)
(***************************************************************************)
\* Three validators at most: their counts decide as resolveValidation does.
LEMMA VerdictOfThree ==
    ASSUME NEW a \in Nat, NEW r \in Nat, NEW t \in Nat, a + r + t <= 3, Verdict(a, r, t) # "none"
    PROVE  Verdict(a, r, t) = "approved" <=> a > r
  BY DEF Verdict

LEMMA ThreeVotes ==
    ASSUME InsertOK
    PROVE  /\ Cardinality(Votes("approve")) \in Nat /\ Cardinality(Votes("reject")) \in Nat
           /\ Cardinality(Votes("timeout")) \in Nat
           /\ Cardinality(Votes("approve")) + Cardinality(Votes("reject"))
                 + Cardinality(Votes("timeout")) <= 3
  <1>1. PICK A \in SUBSET Validators : A = Votes("approve")
    BY DEF Votes
  <1>2. PICK R \in SUBSET Validators : R = Votes("reject")
    BY DEF Votes
  <1>3. PICK T \in SUBSET Validators : T = Votes("timeout")
    BY DEF Votes
  <1>4. PICK S \in SUBSET Validators : S = Assigned
    BY DEF Assigned
  <1>5. A \cap R = {} /\ (A \cup R) \cap T = {} /\ (A \cup R) \cup T \subseteq S
    BY <1>1, <1>2, <1>3, <1>4 DEF Votes, Assigned
  <1>6. /\ IsFiniteSet(A) /\ IsFiniteSet(R) /\ IsFiniteSet(T) /\ IsFiniteSet(S)
        /\ Cardinality(A) \in Nat /\ Cardinality(R) \in Nat /\ Cardinality(T) \in Nat
        /\ Cardinality(S) \in Nat
    BY SetsFinite
  <1>7. IsFiniteSet(A \cup R) /\ Cardinality(A \cup R) = Cardinality(A) + Cardinality(R)
    BY <1>5, <1>6, FS_Union, FS_EmptySet
  <1> DEFINE D == A \cup R
  <1> HIDE DEF D
  <1>8. D \cap T = {} /\ D \cup T \subseteq S /\ IsFiniteSet(D)
        /\ Cardinality(D) = Cardinality(A) + Cardinality(R)
    BY <1>5, <1>7 DEF D
  <1>9. Cardinality(D \cup T) = Cardinality(D) + Cardinality(T)
    <2>1. Cardinality(D) \in Nat /\ Cardinality(T) \in Nat /\ IsFiniteSet(T)
      BY <1>6, <1>8
    <2>2. Cardinality(D \cup T) = Cardinality(D) + Cardinality(T) - Cardinality(D \cap T)
      BY <1>8, <2>1, FS_Union
    <2>3. Cardinality(D \cap T) = 0
      BY <1>8, FS_EmptySet
    <2> QED
      BY <2>1, <2>2, <2>3
  <1>10. Cardinality(D \cup T) <= Cardinality(S)
    BY <1>6, <1>8, FS_Subset
  <1>11. Cardinality(S) <= 3
    BY <1>4 DEF InsertOK
  <1>12. Cardinality(A) + Cardinality(R) + Cardinality(T) <= 3
    BY <1>6, <1>8, <1>9, <1>10, <1>11
  <1> QED
    BY <1>1, <1>2, <1>3, <1>6, <1>12

FollowsOK ==
    ~overlapped =>
        \A p \in Procs :
            job[p].pc \in {"apply", "approved", "rejected"} =>
                (job[p].verdict = "approved"
                    <=> Cardinality(Votes("approve")) > Cardinality(Votes("reject")))

LEMMA FollowsInvariance ==
    ASSUME Base, PriceOK, SingleOK, FollowsOK, [Next]_vars
    PROVE  FollowsOK'
  <1> USE IdleJob
  <1>1. TypeOK /\ Verdicts /\ InsertOK
    BY DEF Base
  <1> DEFINE more == Cardinality(Votes("approve")) > Cardinality(Votes("reject"))
  <1>2. ASSUME more' <=> more,
               ~overlapped' => ~overlapped /\ \A q \in Procs : job'[q] = job[q] \/ job'[q] = Idle
        PROVE  FollowsOK'
    BY <1>2 DEF FollowsOK
  <1>3. ASSUME vote' = vote PROVE more' <=> more
    BY <1>3 DEF Votes
  <1>4. ASSUME NEW p \in Procs, Step(p) PROVE FollowsOK'
    <2> SUFFICES ASSUME ~overlapped', NEW q \in Procs,
                        job'[q].pc \in {"apply", "approved", "rejected"}
                 PROVE  job'[q].verdict = "approved" <=> more'
      BY DEF FollowsOK
    <2>1. /\ job[p] # Idle /\ overlapped' = overlapped
          /\ \A r \in Procs \ {p} : job'[r] = job[r]
      BY <1>4, PriceStep DEF Step, ReadPool, InsertValidation, WriteVote, CountVotes, Apply, WriteVerdict, Pay,
         SendUsdc, RecordUsdc, ReadVoters, Reward, ReadMissed, Penalise, Refund, history, At, Others
    <2>2. q = p
      BY <2>1 DEF SingleOK
    <2>3. CASE CountVotes(p)
      <3>1. PICK a \in Nat : a = Cardinality(Votes("approve"))
        BY <1>1, ThreeVotes
      <3>2. PICK r \in Nat : r = Cardinality(Votes("reject"))
        BY <1>1, ThreeVotes
      <3>3. PICK t \in Nat : t = Cardinality(Votes("timeout"))
        BY <1>1, ThreeVotes
      <3>4. a + r + t <= 3
        BY <1>1, <3>1, <3>2, <3>3, ThreeVotes
      <3>5. job'[p].verdict = Verdict(a, r, t) /\ Verdict(a, r, t) # "none"
        BY <1>1, <2>2, <2>3, <3>1, <3>2, <3>3, CountJob
      <3>6. job'[q].verdict = "approved" <=> more
        BY <2>2, <3>1, <3>2, <3>3, <3>4, <3>5, VerdictOfThree
      <3>7. vote' = vote
        BY <2>3 DEF CountVotes, votes
      <3> QED
        BY <1>3, <3>6, <3>7
    <2>4. CASE Apply(p)
      <3>1. job[p].verdict \in {"approved", "rejected"} /\ job[p].pc = "apply"
        BY <1>1, <2>4 DEF Apply, At, Verdicts, Knows
      <3>2. job'[q].verdict = job[q].verdict
        BY <1>1, <2>2, <2>4, <3>1, ApplyJob
      <3>3. vote' = vote
        BY <2>4 DEF Apply, votes
      <3> QED
        BY <1>3, <2>1, <2>2, <3>1, <3>2, <3>3 DEF FollowsOK
    <2>5. CASE ReadPool(p)
      BY <1>1, <2>2, <2>5, ReadPoolJob
    <2>6. CASE InsertValidation(p)
      BY <1>1, <2>2, <2>6, InsertJob
    <2>7. CASE WriteVote(p)
      BY <1>1, <2>2, <2>7, WriteVoteJob
    <2>8. CASE WriteVerdict(p)
      BY <1>1, <2>2, <2>8, VerdictJob
    <2>9. CASE Pay(p)
      BY <1>1, <2>2, <2>9, PayJob
    <2>10. CASE SendUsdc(p)
      BY <1>1, <2>2, <2>10, SendJob
    <2>11. CASE RecordUsdc(p)
      BY <1>1, <2>2, <2>11, RecordJob
    <2>12. CASE ReadVoters(p)
      BY <1>1, <2>2, <2>12, ReadVotersJob
    <2>13. CASE Reward(p)
      BY <1>1, <2>2, <2>13, RewardJob
    <2>14. CASE ReadMissed(p)
      BY <1>1, <2>2, <2>14, ReadMissedJob
    <2>15. CASE Penalise(p)
      BY <1>1, <2>2, <2>15, PenaliseJob
    <2>16. CASE Refund(p)
      BY <1>1, <2>2, <2>16, RefundJob
    <2> QED
      BY <1>4, <2>3, <2>4, <2>5, <2>6, <2>7, <2>8, <2>9, <2>10, <2>11, <2>12, <2>13, <2>14, <2>15, <2>16
         DEF Step
  <1>5. ASSUME NEW p \in Procs, Starts(p) PROVE FollowsOK'
    <2>1. ~overlapped' => \A q \in Procs \ {p} : job'[q] = Idle
      BY <1>1, <1>5, StartsJob DEF Others
    <2>2. job'[p].pc \in {"pool", "count", "vote"}
      BY <1>1, <1>5, StartsJob
    <2> QED
      BY <2>1, <2>2 DEF FollowsOK
  <1>6. CASE MarkTimeouts
    <2>1. more' <=> more
      <3>1. Votes("approve")' = Votes("approve") /\ Votes("reject")' = Votes("reject")
        BY <1>6 DEF MarkTimeouts, Votes
      <3> QED
        BY <3>1
    <2>2. UNCHANGED <<job, overlapped>>
      BY <1>6 DEF MarkTimeouts, history
    <2> QED
      BY <1>2, <2>1, <2>2
  <1>7. CASE Fault
    BY <1>1, <1>2, <1>3, <1>7, FaultJob
  <1>8. CASE UNCHANGED <<job, vote, overlapped>>
    BY <1>2, <1>3, <1>8
  <1> QED
    BY <1>4, <1>5, <1>6, <1>7, <1>8 DEF Next, Starts, vars, votes, history, Expire

\* The step that decides a submission, while handlers did not overlap, approves it if
\* and only if approvals outnumber rejections, missing votes notwithstanding.
THEOREM VerdictFollowsVotes == Spec => MajorityDecides
  <1> DEFINE I == PriceOK /\ SingleOK /\ FollowsOK
             Step1 == ~overlapped /\ submission = "validating" /\ submission' # "validating" =>
                          (submission' = "approved"
                              <=> Cardinality(Votes("approve")) > Cardinality(Votes("reject")))
  <1>1. Init => I
    BY PriceInit, IdleJob DEF Init, SingleOK, FollowsOK
  <1>2. Base /\ I /\ [Next]_vars => I'
    BY PriceInvariance, SingleInvariance, FollowsInvariance
  <1>3. Base /\ I /\ [Next]_vars => [Step1]_vars
    <2> SUFFICES ASSUME Base, I, [Next]_vars, ~overlapped, submission = "validating",
                        submission' # "validating"
                 PROVE  submission' = "approved"
                           <=> Cardinality(Votes("approve")) > Cardinality(Votes("reject"))
      OBVIOUS
    <2>1. PICK p \in Procs : WriteVerdict(p)
      BY DEF Next, vars, Submit, CastVote, Sweep, Expire, MarkTimeouts, Fault, Step, ReadPool,
         InsertValidation, WriteVote, CountVotes, Apply, Pay, SendUsdc, RecordUsdc, ReadVoters, Reward,
         ReadMissed, Penalise, Refund
    <2>2. submission' = job[p].pc /\ job[p].pc \in {"approved", "rejected"}
      BY <2>1 DEF WriteVerdict
    <2>3. job[p].verdict = job[p].pc
      BY <2>2 DEF Base, Verdicts, Knows
    <2> QED
      BY <2>2, <2>3 DEF FollowsOK
  <1>4. Spec => [](Base /\ I)
    BY BaseInit, BaseInvariance, <1>1, <1>2, PTL DEF Spec
  <1>5. Spec => [][Step1]_vars
    BY <1>3, <1>4, PTL DEF Spec
  <1> QED
    BY <1>5 DEF MajorityDecides
=============================================================================
