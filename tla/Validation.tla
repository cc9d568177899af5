----------------------------- MODULE Validation -----------------------------
(***************************************************************************)
(* Peer review of one submission: the choice of at most three validators,  *)
(* their votes, the deadline, the verdict and what it sets off.            *)
(*                                                                         *)
(*   lib/validation.ts      assignValidators, resolveValidation,           *)
(*                          applyApproval, applyRejection, and the sweep   *)
(*   routes/validations.ts  the vote                                       *)
(*   supabase/03_pg_cron_jobs.sql, job 4: votes that missed the deadline   *)
(*                                                                         *)
(*   lib/usdc-transfer.ts   the payout of a task priced in USDC            *)
(*                                                                         *)
(* What the verdict does to the task is in module Tasks; here it is the    *)
(* one payment or the one refund.  A handler is a job that runs from one   *)
(* await to the next.  The blockchain is external: a transfer is sent or   *)
(* not, and the call may throw in either case.                             *)
(***************************************************************************)
EXTENDS Integers, FiniteSets

CONSTANTS
    Validators,     \* verified agents other than creator and executor
    Http,           \* slots of HTTP requests in flight
    Cron,           \* slots of timer runs in flight
    MaxFaults,      \* bound: statements that throw, and process crashes
    FaultsBesideOverlap     \* bound: if FALSE, faults only where handlers do not overlap

ASSUME ValidationAssumption ==
    /\ IsFiniteSet(Validators) /\ IsFiniteSet(Http \cup Cron)
    /\ MaxFaults \in Nat
    /\ FaultsBesideOverlap \in BOOLEAN

VARIABLES
    submission,     \* its status; "none" before the executor submits
    vote,           \* per validator; "none" without a row in validations
    expired,        \* the 48 hours are over
    paid, refunded, \* times the price was released, or given back
    reward,         \* per validator, validation rewards received
    penalty,        \* per validator, reputation losses for a missed vote
    usdc,           \* payment_mode of the task is 'usdc'
    sent,           \* USDC transfers to the executor, on the chain
    recorded,       \* rows of x402_payments for them
    held, failed,   \* webhooks payment.held and payment.failed
    job,            \* handlers in flight
    settled,        \* history: verdicts written
    overlapped,     \* history: a handler started while another was suspended
    faults          \* history: faults so far

votes == <<vote, expired>>
points == <<paid, refunded>>
payout == <<sent, recorded, held, failed>>
money == <<points, usdc, payout>>
judged == <<reward, penalty>>
history == <<settled, overlapped, faults>>
vars == <<submission, votes, points, judged, usdc, payout, job, history>>

-----------------------------------------------------------------------------
Procs == Http \cup Cron

Vote == {"none", "pending", "approve", "reject", "timeout"}

\* Where a handler is suspended.
Pc == {"idle", "pool", "insert", "vote", "count", "apply", "approved", "pay", "send", "record", "voters",
       "reward", "late", "penalise", "rejected", "refund"}

\* todo: validators still to insert, reward or penalise, or the one who votes
Job == [pc: Pc, todo: SUBSET Validators, choice: {"none", "approve", "reject"},
        verdict: {"none", "approved", "rejected"}]

Idle == [pc |-> "idle", todo |-> {}, choice |-> "none", verdict |-> "none"]

TypeOK ==
    /\ submission \in {"none", "validating", "approved", "rejected"}
    /\ vote \in [Validators -> Vote]
    /\ expired \in BOOLEAN
    /\ paid \in Nat /\ refunded \in Nat
    /\ reward \in [Validators -> Nat] /\ penalty \in [Validators -> Nat]
    /\ usdc \in BOOLEAN
    /\ sent \in Nat /\ recorded \in Nat /\ held \in Nat /\ failed \in Nat
    /\ job \in [Procs -> Job]
    /\ settled \in Nat /\ overlapped \in BOOLEAN /\ faults \in Nat

Init ==
    /\ submission = "none"
    /\ vote = [v \in Validators |-> "none"]
    /\ expired = FALSE
    /\ paid = 0 /\ refunded = 0
    /\ reward = [v \in Validators |-> 0] /\ penalty = [v \in Validators |-> 0]
    /\ usdc \in BOOLEAN
    /\ sent = 0 /\ recorded = 0 /\ held = 0 /\ failed = 0
    /\ job = [p \in Procs |-> Idle]
    /\ settled = 0 /\ overlapped = FALSE /\ faults = 0

\* A handler starts at pc.
Start(p, pc, todo, choice) ==
    /\ job[p] = Idle
    /\ overlapped' = (overlapped \/ \E q \in Procs : job[q] # Idle)
    /\ overlapped' => FaultsBesideOverlap \/ faults = 0
    /\ job' = [job EXCEPT ![p] = [Idle EXCEPT !.pc = pc, !.todo = todo, !.choice = choice]]

At(p, pc) == job[p].pc = pc
Goto(p, pc, todo) == job' = [job EXCEPT ![p].pc = pc, ![p].todo = todo]
Finish(p) == job' = [job EXCEPT ![p] = Idle]

-----------------------------------------------------------------------------
(* Assignment                                                              *)

\* POST /:taskId/submit under review: INSERT INTO submissions.
Submit(p) ==
    /\ submission = "none"
    /\ Start(p, "pool", {}, "none")
    /\ submission' = "validating"
    /\ UNCHANGED <<votes, money, judged, settled, faults>>

\* assignValidators shuffles the pool and takes three, or all there are.
ReadPool(p) ==
    /\ At(p, "pool")
    /\ \E selected \in SUBSET Validators :
          /\ Cardinality(selected) <= 3
          /\ Cardinality(selected) = 3 \/ selected = Validators
          /\ IF selected = {} THEN Finish(p) ELSE Goto(p, "insert", selected)
    /\ UNCHANGED <<submission, votes, money, judged, history>>

\* One INSERT per validator; who is inserted may vote while the rest waits.
InsertValidation(p) ==
    /\ At(p, "insert")
    /\ \E v \in job[p].todo :
          /\ vote' = [vote EXCEPT ![v] = "pending"]
          /\ IF job[p].todo = {v} THEN Finish(p) ELSE Goto(p, "insert", job[p].todo \ {v})
    /\ UNCHANGED <<submission, expired, money, judged, history>>

-----------------------------------------------------------------------------
(* Votes and the deadline                                                  *)

NotVoted(v) == vote[v] \in {"pending", "timeout"}   \* a row, and approved IS NULL

CastVote(p, v, choice) ==
    /\ NotVoted(v)
    /\ Start(p, "vote", {v}, choice)
    /\ UNCHANGED <<submission, votes, money, judged, settled, faults>>

\* UPDATE validations WHERE id = ..., whatever the row holds by now.
WriteVote(p) ==
    /\ At(p, "vote")
    /\ vote' = [v \in Validators |-> IF v \in job[p].todo THEN job[p].choice ELSE vote[v]]
    /\ Goto(p, "count", {})
    /\ UNCHANGED <<submission, expired, money, judged, history>>

\* The deadline passes.
Expire ==
    /\ submission # "none" /\ ~expired
    /\ expired' = TRUE
    /\ UNCHANGED <<submission, vote, money, judged, job, history>>

\* The database's own timer: one UPDATE.
MarkTimeouts ==
    /\ expired
    /\ \E v \in Validators : vote[v] = "pending"
    /\ vote' = [v \in Validators |-> IF vote[v] = "pending" THEN "timeout" ELSE vote[v]]
    /\ UNCHANGED <<submission, expired, money, judged, job, history>>

\* runValidationDeadlineResolution, for a submission with validations.
Sweep(p) ==
    /\ submission = "validating" /\ expired
    /\ \E v \in Validators : vote[v] # "none"
    /\ Start(p, "count", {}, "none")
    /\ UNCHANGED <<submission, votes, money, judged, settled, faults>>

-----------------------------------------------------------------------------
(* The verdict                                                             *)

Votes(kind) == {v \in Validators : vote[v] = kind}

\* mutants: a split vote is an approval; a missing vote counts for nothing
VerdictSplitApproves(a, r, t) ==
    IF a >= 2 \/ (a = 1 /\ t + r >= 2) THEN "approved"
    ELSE IF r + t >= 2 THEN "rejected" ELSE "none"
VerdictOfVotes(a, r, t) ==
    IF a >= 2 THEN "approved" ELSE IF r >= 2 THEN "rejected" ELSE "none"

\* resolveValidation, on the counts of approvals, rejections and timeouts.
Verdict(a, r, t) ==
    IF a >= 2 THEN "approved"
    ELSE IF r >= 2 THEN "rejected"
    ELSE IF a = 1 /\ t >= 2 THEN "approved"
    ELSE IF r + t >= 2 THEN "rejected"
    ELSE "none"

CountVotes(p) ==
    LET n(kind) == Cardinality(Votes(kind))
        verdict == Verdict(n("approve"), n("reject"), n("timeout"))
    IN /\ At(p, "count")
       /\ IF verdict = "none" THEN Finish(p)
          ELSE job' = [job EXCEPT ![p].pc = "apply", ![p].verdict = verdict]
       /\ UNCHANGED <<submission, votes, money, judged, history>>

SettledToo == TRUE                              \* mutant: no check of the status
StillValidating == submission = "validating"

\* applyApproval and applyRejection read the submission first.
Apply(p) ==
    /\ At(p, "apply")
    /\ IF StillValidating THEN Goto(p, job[p].verdict, {}) ELSE Finish(p)
    /\ UNCHANGED <<submission, votes, money, judged, history>>

WriteVerdict(p) ==
    /\ job[p].pc \in {"approved", "rejected"}
    /\ submission' = job[p].pc
    /\ settled' = settled + 1
    /\ Goto(p, IF At(p, "approved") THEN "pay" ELSE "late", {})
    /\ UNCHANGED <<votes, money, judged, overlapped, faults>>

\* The price: points are released, USDC is sent to the executor's evm_address.  A
\* bid needs one, but it may have been cleared since: then payment.held is all
\* that happens, once.
Pay(p) ==
    /\ At(p, "pay")
    /\ IF usdc
       THEN /\ \/ Goto(p, "send", {}) /\ UNCHANGED held
               \/ Goto(p, "voters", {}) /\ held' = held + 1
            /\ UNCHANGED paid
       ELSE Goto(p, "voters", {}) /\ paid' = paid + 1 /\ UNCHANGED held
    /\ UNCHANGED <<submission, votes, refunded, usdc, sent, recorded, failed, judged, history>>

CaughtLogged(p) == Goto(p, "voters", {}) /\ UNCHANGED failed   \* mutant: no webhook
\* What the call of transferUsdc throws is told to the executor as payment.failed.
Caught(p) == Goto(p, "voters", {}) /\ failed' = failed + 1

\* transferUsdc: the wallet sends; the answer of the node may be lost ...
SendUsdc(p) ==
    /\ At(p, "send")
    /\ \/ sent' = sent + 1 /\ Goto(p, "record", {}) /\ UNCHANGED failed
       \/ sent' \in {sent, sent + 1} /\ Caught(p)
    /\ UNCHANGED <<submission, votes, points, usdc, recorded, held, judged, history>>

\* ... and then the row is inserted, or that throws.
RecordUsdc(p) ==
    /\ At(p, "record")
    /\ \/ recorded' = recorded + 1 /\ Goto(p, "voters", {}) /\ UNCHANGED failed
       \/ UNCHANGED recorded /\ Caught(p)
    /\ UNCHANGED <<submission, votes, points, usdc, sent, held, judged, history>>

VotersAll == {v \in Validators : vote[v] # "none"}      \* mutant: all who were assigned
Voters == Votes("approve") \cup Votes("reject")

\* applyApproval: who has voted by now ...
ReadVoters(p) ==
    /\ At(p, "voters")
    /\ IF Voters = {} THEN Goto(p, "late", {}) ELSE Goto(p, "reward", Voters)
    /\ UNCHANGED <<submission, votes, money, judged, history>>

\* ... is credited with 5 points, one by one, and gains reputation.
Reward(p) ==
    /\ At(p, "reward")
    /\ \E v \in job[p].todo :
          /\ reward' = [reward EXCEPT ![v] = @ + 1]
          /\ IF job[p].todo = {v} THEN Goto(p, "late", {})
             ELSE Goto(p, "reward", job[p].todo \ {v})
    /\ UNCHANGED <<submission, votes, money, penalty, history>>

AfterPenaltiesNothing(p) == Finish(p)                   \* mutant: no refund
AfterPenalties(p) ==
    IF job[p].verdict = "rejected" THEN Goto(p, "refund", {}) ELSE Finish(p)

Missed == Votes("timeout")

\* applyTimeoutPenalties: who has missed the deadline by now ...
ReadMissed(p) ==
    /\ At(p, "late")
    /\ IF Missed = {} THEN AfterPenalties(p) ELSE Goto(p, "penalise", Missed)
    /\ UNCHANGED <<submission, votes, money, judged, history>>

\* ... loses reputation, one by one.
Penalise(p) ==
    /\ At(p, "penalise")
    /\ \E v \in job[p].todo :
          /\ penalty' = [penalty EXCEPT ![v] = @ + 1]
          /\ IF job[p].todo = {v} THEN AfterPenalties(p)
             ELSE Goto(p, "penalise", job[p].todo \ {v})
    /\ UNCHANGED <<submission, votes, money, reward, history>>

\* The refund is of price_points, which a USDC task has not.
Refund(p) ==
    /\ At(p, "refund")
    /\ refunded' = IF usdc THEN refunded ELSE refunded + 1
    /\ Finish(p)
    /\ UNCHANGED <<submission, votes, paid, usdc, payout, judged, history>>

-----------------------------------------------------------------------------
Step(p) ==
    \/ ReadPool(p) \/ InsertValidation(p) \/ WriteVote(p) \/ CountVotes(p) \/ Apply(p)
    \/ WriteVerdict(p) \/ Pay(p) \/ SendUsdc(p) \/ RecordUsdc(p) \/ ReadVoters(p) \/ Reward(p) \/ ReadMissed(p)
    \/ Penalise(p) \/ Refund(p)

\* The statement a handler awaits throws, and the handler ends; or the
\* process stops and every handler in flight is gone.
Fault ==
    /\ faults < MaxFaults
    /\ overlapped => FaultsBesideOverlap
    /\ \/ \E p \in Procs : job[p] # Idle /\ Finish(p)
       \/ /\ \E p \in Procs : job[p] # Idle
          /\ job' = [p \in Procs |-> Idle]
    /\ faults' = faults + 1
    /\ UNCHANGED <<submission, votes, money, judged, settled, overlapped>>

Next ==
    \/ \E p \in Http : Submit(p)
    \/ \E p \in Http, v \in Validators, choice \in {"approve", "reject"} :
            CastVote(p, v, choice)
    \/ \E p \in Cron : Sweep(p)
    \/ \E p \in Procs : Step(p)
    \/ Expire \/ MarkTimeouts \/ Fault

Spec == Init /\ [][Next]_vars

\* Time passes, both timers keep firing, and an await is answered.  Nobody
\* has to vote.
Fairness ==
    /\ WF_vars(Expire) /\ WF_vars(MarkTimeouts)
    /\ WF_vars(\E p \in Cron : Sweep(p))
    /\ \A p \in Procs : WF_vars(Step(p))

FairSpec == Spec /\ Fairness

-----------------------------------------------------------------------------
(* Correctness                                                             *)

Quiet == \A p \in Procs : job[p] = Idle

\* While handlers did not overlap, the verdict follows the votes cast: an
\* approved submission has more approvals than rejections, and a rejected one
\* does not, missing votes notwithstanding.
MajorityDecides ==
    [][~overlapped /\ submission = "validating" /\ submission' # "validating" =>
        (submission' = "approved"
            <=> Cardinality(Votes("approve")) > Cardinality(Votes("reject")))]_vars

\* While handlers did not overlap, a validator is judged once, even if failures
\* cut handlers short and votes arrive after the verdict: one reward or one
\* penalty, and the price moves once.
JudgedOnce ==
    ~overlapped =>
        /\ paid + refunded + sent <= 1
        /\ \A v \in Validators : reward[v] + penalty[v] <= 1

\* However handlers interleave, and whatever cuts them short: one run of
\* applyApproval or applyRejection never both rewards and penalises a validator,
\* although it reads the votes twice and a vote may arrive in between.
NotRewardedAndPenalised ==
    \A v \in Validators : reward[v] + penalty[v] <= settled

\* However handlers interleave, a verdict moves the price of a points task, and
\* leaves the executor of a USDC task paid or told; nothing else does.
VerdictMovesPrice ==
    Quiet /\ faults = 0 =>
        /\ submission = "approved" => paid + sent + held + failed > 0
        /\ submission = "rejected" /\ ~usdc => refunded > 0
        /\ submission \in {"none", "validating"} => paid + refunded + sent = 0

\* A USDC transfer on the chain is in x402_payments, or about to be, or reported
\* as failed to the one who was paid, unless a fault cut its handler short (a crash
\* cuts all of them); and what is in x402_payments was sent.
PayoutsAccounted ==
    /\ recorded <= sent
    /\ sent <= recorded + failed + Cardinality({p \in Procs : At(p, "record")})
                 + faults * Cardinality(Procs)

\* "Resolve submissions that are still 'validating' and whose validation deadline
\* has passed" (validation.ts): every submission is decided, whether validators
\* vote or not.  With three of them it is; with two it may not be, and so after
\* a fault left fewer than three.
Decided == submission = "validating" /\ faults = 0
              ~> submission \in {"approved", "rejected"} \/ faults > 0
=============================================================================
