------------------------------- MODULE Ledger -------------------------------
(***************************************************************************)
(* The points ledger as Postgres runs it: the transactions of              *)
(* lib/transfer.ts statement by statement with their row locks, on the     *)
(* few connections of db/pool.ts; systemCredit, which is two statements    *)
(* and no transaction; and both daily emissions, the service's             *)
(* (services/emissionService.ts) and the database's own                    *)
(* (supabase/03_pg_cron_jobs.sql).                                         *)
(*                                                                         *)
(* A transaction is a fixed sequence of row locks (SELECT FOR UPDATE, the  *)
(* key-share locks an INSERT takes on the agents it refers to, the locks   *)
(* of UPDATE); it holds the locks of the steps it has done, and its writes *)
(* appear when it commits.                                                 *)
(*                                                                         *)
(* Points are counted in thousandths: a column numeric(12,2) holds         *)
(* multiples of ten, or NaN, and what is written to it is rounded; amounts *)
(* that a request gives may be finer, or NaN.                              *)
(***************************************************************************)
EXTENDS Integers, Sequences, FiniteSets, FiniteSetsExt

CONSTANTS
    Agents,         \* verified and active agents
    System,         \* agt_system, the escrow account
    Conns,          \* the connections of directPool
    Starting,       \* balance of each agent at the start
    NaN,            \* what parseFloat makes of a word, and numeric stores
    Amounts,        \* amounts that requests give
    GigPrices,      \* prices of gigs: PATCH stores negative ones too
    CallCounts,     \* values of api_calls_7d
    OtherVerified,  \* verified agents that are not in Agents
    MaxOps,         \* bound: transactions and credits started
    MaxEmissions,   \* bound: emission runs
    MaxStarts,      \* bound: all of these
    MaxFaults       \* bound: statements that fail, and process crashes

Rows == Agents \cup {System}

ASSUME SystemAssumption == System \notin Agents
\* An amount as JavaScript has it, and a value of a column numeric(12,2).
Number == Int \cup {NaN}
Cents == {n \in Int : n % 10 = 0}
Column == Cents \cup {NaN}

ASSUME NaNAssumption == NaN \notin Int
ASSUME StartingAssumption == Starting \in [Rows -> Nat \cap Cents]
ASSUME AmountsAssumption == /\ Amounts \subseteq (Nat \ {0}) \cup {NaN}
                            /\ GigPrices \subseteq Cents \ {0}
                            /\ CallCounts \subseteq Nat
ASSUME BoundsAssumption == {OtherVerified, MaxOps, MaxEmissions, MaxStarts, MaxFaults} \subseteq Nat

VARIABLES
    bal,        \* agents.balance_points
    log,        \* what transactions says each agent received minus what it paid
    paid,       \* rows of type task_payment to each agent
    conn,       \* the transaction each connection runs
    pending,    \* credits logged and not yet added to the balance
    run,        \* the service's emission run
    cron,       \* the database's emission transaction
    leaks,      \* history: agents whose balance and log parted in a known way
    uneven,     \* history: commits of each agent that rounding may part by a hundredth
    owed,       \* history: what settling orders of a negative price took from each agent
    ops, emissions, faults

jobs == <<run, cron, emissions>>
drift == <<leaks, uneven, owed>>
vars == <<bal, log, paid, conn, pending, run, cron, drift, ops, emissions, faults>>

-----------------------------------------------------------------------------
(***************************************************************************)
(* Amounts                                                                 *)
(***************************************************************************)
MAX_BALANCE_CAP == 5000000
VERIFIED_STARTER_BONUS == 100000
POINTS_PER_AGENT == 20000

\* The integer nearest to x / d; a half is rounded away from zero.
Nearest(x, d) == IF x >= 0 THEN (x + d \div 2) \div d ELSE -((d \div 2 - x) \div d)

\* What a column numeric(12,2) makes of a value.
Rounded(x) == IF x = NaN THEN NaN ELSE 10 * Nearest(x, 10)

Plus(x, y) == IF x = NaN \/ y = NaN THEN NaN ELSE x + y
Minus(x, y) == IF x = NaN \/ y = NaN THEN NaN ELSE x - y

\* x < y in JavaScript: nothing is less than NaN, nor NaN less than anything.
Less(x, y) == x # NaN /\ y # NaN /\ x < y

\* LEAST of Postgres, for which NaN is above every number.
AtMostCap(x) == IF x = NaN \/ x > MAX_BALANCE_CAP THEN MAX_BALANCE_CAP ELSE x

\* 95% and 5%, each rounded to a hundredth.  A half goes away from zero
\* here; toFixed may take either way, by how the product is represented.
NetAmount(amount) == IF amount = NaN THEN NaN ELSE 10 * Nearest(amount * 95, 1000)
FeeAmount(amount) == IF amount = NaN THEN NaN ELSE 10 * Nearest(amount * 5, 1000)

getBaseEmission(n) ==
    CASE n <= 100 -> 20000
      [] n > 100 /\ n <= 250 -> 15000
      [] n > 250 /\ n <= 500 -> 10000
      [] n > 500 /\ n <= 1000 -> 7000
      [] OTHER -> 5000

\* The multiplier, in quarters.
getActivityMultiplier(calls, gigs) ==
    CASE calls = 0 -> 0
      [] calls \in 1 .. 5 -> 2
      [] calls \in 21 .. 50 /\ gigs >= 1 -> 5
      [] calls > 50 /\ gigs >= 2 -> 6
      [] OTHER -> 4

SmallerOf(x, y) == IF x < y THEN x ELSE y

(***************************************************************************)
(* Transactions                                                            *)
(***************************************************************************)
Kinds == {"escrow", "payTask", "payOrder", "refund", "p2p", "transfer", "emission"}
Op == [kind : Kinds, from : Rows, to : Rows, amount : Number]
Modes == {"share", "noKey", "full"}

Spends(op) == op.kind \in {"escrow", "p2p", "transfer"}

\* The locks of an INSERT into transactions, in the order of its two foreign keys.
Logs(from, to) == <<<<from, "share">>, <<to, "share">>>>

\* SELECT ... FOR UPDATE on the payer; and a SELECT that leaves it to others to read.
PayerLockShared(op) == <<<<op.from, "share">>>>
PayerLock(op) == <<<<op.from, "full">>>>

\* releaseEscrowForOrder: the debit of the system account first.  As LogsFirst, a mutant.
DebitsFirst(op) == <<<<System, "noKey">>>> \o Logs(System, op.to) \o <<<<op.to, "noKey">>>>

\* releaseEscrowToExecutor, refundEscrow, refundEscrowForOrder.
LogsFirst(op) == Logs(System, op.to) \o <<<<System, "noKey">>, <<op.to, "noKey">>>>

\* transferShells logs a fee to the system account that it does not credit.
Fee(op) == IF op.kind = "transfer" THEN Logs(op.from, System) ELSE <<>>

\* escrowDeduct, p2pTransfer, transferShells.
PayerFirst(op) ==
    PayerLock(op) \o Logs(op.from, op.to) \o Fee(op) \o <<<<op.from, "noKey">>, <<op.to, "noKey">>>>

Plan(op) ==
    CASE Spends(op) -> PayerFirst(op)
      [] op.kind \in {"payTask", "refund"} -> LogsFirst(op)
      [] op.kind = "payOrder" -> DebitsFirst(op)       \* releaseEscrowForOrder
      [] OTHER -> <<<<op.to, "share">>, <<op.to, "noKey">>>>    \* emission

\* What reaches the recipient, and what a row of the log says.
Received(op) == IF op.kind \in {"payTask", "payOrder", "transfer"} THEN NetAmount(op.amount)
                ELSE op.amount

\* Each UPDATE rounds what it stores.
Add(b, r, x) == [b EXCEPT ![r] = Rounded(Plus(@, x))]
Subtract(b, r, x) == [b EXCEPT ![r] = Rounded(Minus(@, x))]

\* Mutant of Credited: debiting what the recipient gets.
CreditedNet(b, op) ==
    IF op.kind = "emission" THEN Add(b, op.to, op.amount)
    ELSE Add(Subtract(b, op.from, Received(op)), op.to, Received(op))

\* The balances after a transaction that found them as b.
Credited(b, op) ==
    IF op.kind = "emission"
    THEN [b EXCEPT ![op.to] = Rounded(AtMostCap(Plus(@, op.amount)))]
    ELSE Add(Subtract(b, op.from, op.amount), op.to, Received(op))

\* The log after it: a row of the log holds a rounded amount too.
Logged(l, op) ==
    LET amount == Rounded(Received(op))
        fee == FeeAmount(op.amount)
        In == [l EXCEPT ![op.to] = Plus(@, amount)]
        Out == [In EXCEPT ![op.from] = Minus(@, amount)]
    IN CASE op.kind = "emission" -> In
         [] op.kind = "transfer" -> [[Out EXCEPT ![op.from] = Minus(@, fee)]
                                          EXCEPT ![System] = Plus(@, fee)]
         [] OTHER -> Out

\* LEAST cuts what an emission adds.
Parted(b, op) ==
    IF op.kind = "emission" /\ (b[op.to] = NaN \/ b[op.to] + op.amount > MAX_BALANCE_CAP)
    THEN {op.to} ELSE {}

\* The amount is finer than a hundredth, or the net amount and the fee of a
\* transfer do not add up to what its sender pays.
Uneven(op) ==
    IF op.kind = "transfer" THEN Plus(NetAmount(op.amount), FeeAmount(op.amount)) # op.amount
    ELSE Rounded(op.amount) # op.amount

\* What the settlement of an order takes from its recipient.
Owed(op) == IF op.kind \in {"payOrder", "refund"} /\ Less(Received(op), 0) THEN -Received(op) ELSE 0

NoOp == [kind |-> "emission", from |-> System, to |-> System, amount |-> 0]
IdleConn == [pc |-> 0, op |-> NoOp]      \* pc: the next step of the plan

\* The locks that a connection holds, and those that the database's job holds.
Held(c) == {Plan(conn[c].op)[i] : i \in 1 .. (conn[c].pc - 1)}
CronHeld == {<<a, "share">> : a \in cron.logged}

Conflict(m, n) == \/ m = "full" \/ n = "full"
                  \/ m = "noKey" /\ n = "noKey"

Blocks(held, lock) == \E h \in held : h[1] = lock[1] /\ Conflict(h[2], lock[2])

Busy(c) == conn[c].pc > 0
Wanted(c) == Plan(conn[c].op)[conn[c].pc]
WantsLock(c) == Busy(c) /\ conn[c].pc <= Len(Plan(conn[c].op))

\* May somebody who holds none of the locks of connections cs take the lock?
Free(lock, cs) == \A c \in cs : ~Blocks(Held(c), lock)

NoEmission == [pc |-> "idle", base |-> 0, todo |-> {}, conn |-> {}]
NoCron == [pc |-> "idle", logged |-> {}]

Init ==
    /\ bal = Starting
    /\ log = [r \in Rows |-> 0]
    /\ paid = [a \in Agents |-> 0]
    /\ conn = [c \in Conns |-> IdleConn]
    /\ pending = [a \in Agents |-> 0]
    /\ run = NoEmission
    /\ cron = NoCron
    /\ leaks = {}
    /\ uneven = [a \in Agents |-> 0]
    /\ owed = [a \in Agents |-> 0]
    /\ ops = 0 /\ emissions = 0 /\ faults = 0

MayStart == ops + emissions < MaxStarts

\* A free connection begins a transaction.
Opens(c, op) == ~Busy(c) /\ conn' = [conn EXCEPT ![c] = [pc |-> 1, op |-> op]]

\* Prices of tasks, as their column holds them.
TaskPrices == {Rounded(x) : x \in Amounts}

\* The requests that move points.  An escrow, a p2p transfer and transferShells
\* (which nothing calls) get an amount as the request gave it, or the price of a
\* gig; the others a stored price.  Only p2pTransfer lets an agent pay itself.
Requests ==
    {op \in [kind : Kinds, from : Rows, to : Rows, amount : Amounts \cup TaskPrices \cup GigPrices] :
           CASE op.kind = "escrow" -> /\ op.to = System
                                     /\ \/ op.amount \in Amounts
                                        \/ op.from \in Agents /\ op.amount \in GigPrices
             [] op.kind = "payTask" -> op.from = System /\ op.to \in Agents /\ op.amount \in TaskPrices
             [] op.kind = "payOrder" -> op.from = System /\ op.to \in Agents /\ op.amount \in GigPrices
             [] op.kind = "refund" -> op.from = System /\ op.to \in Agents
                                      /\ op.amount \in TaskPrices \cup GigPrices
             [] op.kind = "p2p" -> op.from \in Agents /\ op.to \in Agents /\ op.amount \in Amounts
             [] op.kind = "transfer" -> op.from \in Agents /\ op.to \in Agents \ {op.from}
                                        /\ op.amount \in Amounts
             [] OTHER -> FALSE}

Begin(c) ==
    /\ ops < MaxOps /\ MayStart
    /\ ops' = ops + 1
    /\ \E op \in Requests : Opens(c, op)
    /\ UNCHANGED <<bal, log, paid, pending, jobs, drift, faults>>

\* The emission run goes on, or throws, when its transaction ends.
RunAfter(c, pc) == IF c \in run.conn THEN [run EXCEPT !.pc = pc, !.conn = {}] ELSE run

\* A transaction ends without a trace, and its locks are released.
Rollback(c) ==
    /\ conn' = [conn EXCEPT ![c] = IdleConn]
    /\ run' = RunAfter(c, "failed")
    /\ UNCHANGED <<bal, log, paid, pending, cron, drift, ops, emissions>>

\* SELECT ... FOR UPDATE reads the latest committed balance, and the check refuses
\* a balance that is less than the amount.
CanPay(op) == ~Less(bal[op.from], op.amount)

\* The next statement, or foreign-key check, of a transaction.
Statement(c) ==
    /\ WantsLock(c)
    /\ Free(Wanted(c), Conns \ {c})
    /\ ~Blocks(CronHeld, Wanted(c))
    /\ IF conn[c].pc = 1 /\ Spends(conn[c].op) /\ ~CanPay(conn[c].op)
       THEN Rollback(c)          \* Insufficient balance
       ELSE /\ conn' = [conn EXCEPT ![c].pc = @ + 1]
            /\ UNCHANGED <<bal, log, paid, pending, jobs, drift, ops>>
    /\ UNCHANGED faults

Commit(c) ==
    /\ Busy(c) /\ ~WantsLock(c)
    /\ LET op == conn[c].op
       IN /\ bal' = Credited(bal, op)
          /\ log' = Logged(log, op)
          /\ paid' = IF op.kind \in {"payTask", "payOrder"} THEN [paid EXCEPT ![op.to] = @ + 1] ELSE paid
          /\ leaks' = leaks \cup Parted(bal, op)
          /\ uneven' = [a \in Agents |->
                           uneven[a] + IF Uneven(op) /\ a \in {op.from, op.to} THEN 1 ELSE 0]
          /\ owed' = [a \in Agents |-> owed[a] + IF a = op.to THEN Owed(op) ELSE 0]
    /\ conn' = [conn EXCEPT ![c] = IdleConn]
    /\ run' = RunAfter(c, "next")
    /\ UNCHANGED <<pending, cron, ops, emissions, faults>>

(***************************************************************************)
(* Deadlocks                                                               *)
(***************************************************************************)
WaitsFor(c, d) == WantsLock(c) /\ c /= d /\ Blocks(Held(d), Wanted(c))

\* Connections that wait for each other in a circle.
Deadlocked(cs) == cs /= {} /\ \A c \in cs : \E d \in cs : WaitsFor(c, d)

\* The database ends one of them.
ResolveDeadlock(c) ==
    /\ \E cs \in SUBSET Conns : /\ c \in cs /\ Deadlocked(cs)
                                /\ \A ds \in SUBSET cs : Deadlocked(ds) => ds = cs
    /\ Rollback(c)
    /\ UNCHANGED faults

(***************************************************************************)
(* systemCredit: two statements, each its own transaction                  *)
(***************************************************************************)
CreditInsert(a) ==
    /\ ops < MaxOps /\ MayStart
    /\ ops' = ops + 1
    /\ Free(<<a, "share">>, Conns)
    /\ log' = [log EXCEPT ![a] = Plus(@, VERIFIED_STARTER_BONUS)]
    /\ pending' = [pending EXCEPT ![a] = @ + 1]
    /\ UNCHANGED <<bal, paid, conn, jobs, drift, faults>>

CreditUpdate(a) ==
    /\ pending[a] > 0
    /\ Free(<<a, "noKey">>, Conns)
    /\ bal' = [bal EXCEPT ![a] = Plus(@, VERIFIED_STARTER_BONUS)]
    /\ pending' = [pending EXCEPT ![a] = @ - 1]
    /\ UNCHANGED <<log, paid, conn, jobs, drift, ops, faults>>

(***************************************************************************)
(* The service's daily emission                                            *)
(***************************************************************************)
\* Count and select: the balances are those of this moment.
EmissionSelect ==
    /\ run.pc = "idle" /\ emissions < MaxEmissions /\ MayStart
    /\ emissions' = emissions + 1
    /\ \E calls \in [Agents -> CallCounts] :
          run' = [pc |-> "next", conn |-> {},
                  base |-> getBaseEmission(OtherVerified + Cardinality(Agents)),
                  todo |-> {[agent |-> a, balance |-> bal[a], calls |-> calls[a]] :
                                a \in {a \in Agents : Less(bal[a], MAX_BALANCE_CAP)}}]
    /\ UNCHANGED <<bal, log, paid, conn, pending, cron, drift, ops, faults>>

\* The amount for one agent, by the balance that was selected.
Emitted(e) ==
    SmallerOf((run.base * getActivityMultiplier(e.calls, paid[e.agent])) \div 4,
              MAX_BALANCE_CAP - e.balance)

EmissionNext ==
    /\ run.pc = "next" /\ run.todo /= {}
    /\ \E e \in run.todo :
        IF Emitted(e) <= 0
        THEN /\ run' = [run EXCEPT !.todo = @ \ {e}]
             /\ UNCHANGED conn
        ELSE \E c \in Conns :
                /\ Opens(c, [kind |-> "emission", from |-> System, to |-> e.agent, amount |-> Emitted(e)])
                /\ run' = [run EXCEPT !.pc = "txn", !.conn = {c}, !.todo = @ \ {e}]
    /\ UNCHANGED <<bal, log, paid, pending, cron, drift, ops, emissions, faults>>

\* The counters are reset unless the run threw (CallCounts stands for them).
EmissionEnd ==
    /\ (run.pc = "next" /\ run.todo = {}) \/ run.pc = "failed"
    /\ run' = NoEmission
    /\ UNCHANGED <<bal, log, paid, conn, pending, cron, drift, ops, emissions, faults>>

(***************************************************************************)
(* The database's daily emission: one transaction, two statements that     *)
(* each select the eligible agents                                         *)
(***************************************************************************)
SqlEligible == {a \in Agents : Less(bal[a], MAX_BALANCE_CAP)}

SqlInsert ==
    /\ cron.pc = "idle" /\ emissions < MaxEmissions /\ MayStart
    /\ emissions' = emissions + 1
    /\ \A a \in SqlEligible : Free(<<a, "share">>, Conns)
    /\ cron' = [pc |-> "update", logged |-> SqlEligible]
    /\ UNCHANGED <<bal, log, paid, conn, pending, run, drift, ops, faults>>

SqlUpdate ==
    /\ cron.pc = "update"
    /\ \A a \in SqlEligible : Free(<<a, "noKey">>, Conns)
    /\ bal' = [r \in Rows |-> IF r \in SqlEligible THEN AtMostCap(bal[r] + POINTS_PER_AGENT)
                              ELSE bal[r]]
    /\ log' = [r \in Rows |-> IF r \in cron.logged THEN Plus(log[r], POINTS_PER_AGENT) ELSE log[r]]
    /\ leaks' = leaks \cup (SqlEligible \ cron.logged) \cup (cron.logged \ SqlEligible)
                      \cup {a \in SqlEligible : bal[a] + POINTS_PER_AGENT > MAX_BALANCE_CAP}
    /\ cron' = NoCron
    /\ UNCHANGED <<paid, conn, pending, run, uneven, owed, ops, emissions, faults>>

(***************************************************************************)
(* What may fail                                                           *)
(***************************************************************************)
Fault == faults < MaxFaults /\ faults' = faults + 1

StatementFails(c) == Fault /\ Busy(c) /\ Rollback(c)

\* The update of systemCredit fails, and nothing tries it again.
CreditFails(a) ==
    /\ Fault
    /\ pending[a] > 0
    /\ pending' = [pending EXCEPT ![a] = @ - 1]
    /\ leaks' = leaks \cup {a}
    /\ UNCHANGED <<bal, log, paid, conn, jobs, uneven, owed, ops>>

Crash ==
    /\ Fault
    /\ conn' = [c \in Conns |-> IdleConn]
    /\ run' = NoEmission
    /\ leaks' = leaks \cup {a \in Agents : pending[a] > 0}
    /\ pending' = [a \in Agents |-> 0]
    /\ UNCHANGED <<bal, log, paid, cron, uneven, owed, ops, emissions>>

-----------------------------------------------------------------------------
Next ==
    \/ \E c \in Conns : \/ Begin(c) \/ Statement(c) \/ Commit(c)
                        \/ ResolveDeadlock(c) \/ StatementFails(c)
    \/ \E a \in Agents : CreditInsert(a) \/ CreditUpdate(a) \/ CreditFails(a)
    \/ EmissionSelect \/ EmissionNext \/ EmissionEnd
    \/ SqlInsert \/ SqlUpdate
    \/ Crash

Spec == Init /\ [][Next]_vars

-----------------------------------------------------------------------------
RunRow == [agent : Agents, balance : Cents, calls : CallCounts]
Run == [pc : {"idle", "next", "txn", "failed"}, base : Nat, todo : SUBSET RunRow, conn : SUBSET Conns]

TypeOK ==
    /\ bal \in [Rows -> Column]
    /\ log \in [Rows -> Column]
    /\ paid \in [Agents -> Nat]
    /\ conn \in [Conns -> [pc : Nat, op : Op]]
    /\ pending \in [Agents -> Nat]
    /\ run \in Run
    /\ cron \in [pc : {"idle", "update"}, logged : SUBSET Agents]
    /\ leaks \subseteq Rows
    /\ uneven \in [Agents -> Nat] /\ owed \in [Agents -> Nat]
    /\ ops \in 0 .. MaxOps /\ emissions \in 0 .. MaxEmissions /\ faults \in 0 .. MaxFaults

\* Nobody spends points twice: however transactions overlap, no agent's balance
\* goes below zero, because the row is locked from the check to the debit.  Two
\* things are not checked: NaN, which is neither below an amount nor above it, and
\* the settlement of an order with a negative price, which takes from the seller
\* or the buyer whatever they have; below zero a balance owes no more than that.
NoOverdraft == \A a \in Agents : bal[a] = NaN \/ bal[a] + owed[a] >= 0

\* An agent's balance is what it started with plus what the log says, to a
\* hundredth for each commit that was rounded unevenly: but for credits that are
\* half done, for an agent whose log says NaN, and for the known leaks (a credit
\* cut at the cap, the two statements of the database's emission selecting
\* different agents, a systemCredit that failed).  The nightly reconciliation
\* compares the two to a hundredth and without the starting balance, which no
\* row of the log states: it counts every agent that was created with one.
Reconciles ==
    \A a \in Agents \ leaks :
        log[a] # NaN =>
            LET gap == bal[a] + VERIFIED_STARTER_BONUS * pending[a] - (Starting[a] + log[a])
            IN -10 * uneven[a] <= gap /\ gap <= 10 * uneven[a]

\* Escrows, task payments, refunds and emissions lock rows in orders that never
\* deadlock; a circle needs a p2p transfer, or a payment of a gig order, which
\* debits the system account before it refers to the seller.
OrderedLocks ==
    \A cs \in SUBSET Conns :
        Deadlocked(cs) => \E c \in cs : conn[c].op.kind \in {"p2p", "transfer", "payOrder"}
=============================================================================
