----------------------------- MODULE GigOrders -----------------------------
(***************************************************************************)
(* The gig marketplace: one gig, the orders placed on it, their escrow.    *)
(*                                                                         *)
(*   routes/gigs.ts            the seller's and the buyer's endpoints      *)
(*   routes/admin.ts           resolve-dispute                             *)
(*   services/timeoutService.ts  the sweeps of the */15 cron job           *)
(*   lib/transfer.ts           escrowDeductForOrder, releaseEscrowForOrder,*)
(*                             refundEscrowForOrder                        *)
(*                                                                         *)
(* A request handler is a sequence of SQL statements (or transactions)     *)
(* separated by awaits; other handlers run at every await.  One action is  *)
(* one statement, or one transaction.  What a handler read before an await *)
(* and uses after it is kept in its job record.                            *)
(***************************************************************************)
EXTENDS Integers, Functions

CONSTANTS
    Orders,         \* order ids
    Buyers,         \* verified agents other than the gig's creator
    Seller,         \* the gig's creator
    System,         \* agt_system, the account that holds the escrow
    NoOrder,        \* "no order" in a job record
    Prices,         \* prices of the gig, in hundredths of a point; 0: no price in points
    InitialBalance, \* what every agent starts with
    Http,           \* slots of handlers in flight that may be HTTP requests
    Cron,           \* slots of handlers in flight that may be timer runs
    Concurrent,     \* may a handler start while another is suspended?
    MaxRevisions,   \* bound: revision requests granted per order
    MaxFaults       \* bound: statements that throw, and process crashes

ASSUME OrdersAssumption == NoOrder \notin Orders
ASSUME AgentsAssumption == Seller \notin Buyers /\ System \notin Buyers \cup {Seller}
ASSUME BoundsAssumption ==
    /\ Prices \subseteq Int
    /\ InitialBalance \in Nat
    /\ Concurrent \in BOOLEAN
    /\ MaxRevisions \in Nat
    /\ MaxFaults \in Nat

VARIABLES
    gig,        \* the gig's row: open, price
    order,      \* the gig_orders rows; status "none" is an id not inserted
    ledger,     \* per order, the sums of its rows in transactions, by type
    balance,    \* balance_points of the agents
    credit,     \* what the seller's row got for the order: tasks_completed, reputation
    dispute,    \* history: disputes raised on the order, and resolved by an admin
    job,        \* handlers in flight
    faults      \* history: faults so far

vars == <<gig, order, ledger, balance, credit, dispute, job, faults>>

-----------------------------------------------------------------------------
Terminal == {"completed", "cancelled"}
Status   == {"pending", "accepted", "delivered", "revision_requested", "disputed"}
                \cup Terminal
Active   == Status \ Terminal

\* Gig order states an endpoint may move an order to, by the order's state.
GIG_ORDER_TRANSITIONS ==
    [s \in Status |->
        CASE s = "pending"            -> {"accepted", "cancelled"}
          [] s = "accepted"           -> {"delivered", "cancelled"}
          [] s = "delivered"          -> {"completed", "revision_requested", "disputed"}
          [] s = "revision_requested" -> {"delivered"}
          [] s = "disputed"           -> {"completed", "cancelled"}
          [] OTHER                    -> {}]

Agents == Buyers \cup {Seller, System}
Procs  == Http \cup Cron

Op == {"idle", "place", "move", "complete", "cancel", "resolve", "sweep",
       "upload", "editGig", "closeGig"}
Pc == {"idle", "escrow", "insert", "status", "settle", "stats", "rep", "tx",
       "next", "file", "count", "write"}

Job == [op: Op, pc: Pc,
        ord: Orders \cup {NoOrder},     \* the order being worked on
        to: Status,                     \* the state it is being moved to
        from: Status,                   \* sweep: the state it selects
        by: Agents,                     \* place: the buyer
        price: Int,                     \* place: gig.pricePoints as read
        revisions: Nat,                 \* move: order.revisionCount as read
        rows: SUBSET Orders]            \* sweep: rows selected, not yet handled

Idle == [op |-> "idle", pc |-> "idle", ord |-> NoOrder, to |-> "pending",
         from |-> "pending", by |-> System, price |-> 0, revisions |-> 0, rows |-> {}]

Absent == [status |-> "none", buyer |-> System, price |-> 0, revisions |-> 0]

OrderRow   == [status: Status \cup {"none"}, buyer: Agents, price: Int, revisions: Nat]
LedgerRow  == [escrow: Int, paid: Int, refunded: Int]
CreditRow  == [tasks: Nat, rep: Int]
DisputeRow == [raised: Nat, resolved: Nat]

TypeOK ==
    /\ gig \in [open: BOOLEAN, price: Prices]
    /\ order \in [Orders -> OrderRow]
    /\ ledger \in [Orders -> LedgerRow]
    /\ balance \in [Agents -> Int]
    /\ credit \in [Orders -> CreditRow]
    /\ dispute \in [Orders -> DisputeRow]
    /\ job \in [Procs -> Job]
    /\ faults \in Nat

\* POST /v1/gigs takes a price from MIN_GIG_PRICE_POINTS up, or none in points.
Init ==
    /\ gig \in [open: {TRUE}, price: {price \in Prices : price >= 0}]
    /\ order = [o \in Orders |-> Absent]
    /\ ledger = [o \in Orders |-> [escrow |-> 0, paid |-> 0, refunded |-> 0]]
    /\ balance = [a \in Agents |-> InitialBalance]
    /\ credit = [o \in Orders |-> [tasks |-> 0, rep |-> 0]]
    /\ dispute = [o \in Orders |-> [raised |-> 0, resolved |-> 0]]
    /\ job = [p \in Procs |-> Idle]
    /\ faults = 0

-----------------------------------------------------------------------------
\* A handler starts.  Without Concurrent, only when no other is suspended.
Start(p, j) ==
    /\ job[p] = Idle
    /\ Concurrent \/ \A q \in Procs : job[q] = Idle
    /\ job' = [job EXCEPT ![p] = j]

At(p, pc) == job[p].pc = pc

Goto(p, pc) == job' = [job EXCEPT ![p].pc = pc]

\* The work on the current order is over: a sweep takes its next row, any
\* other handler returns.
Finished(p) == IF job[p].rows = {} THEN Idle
               ELSE [job[p] EXCEPT !.pc = "next", !.ord = NoOrder]

Finish(p) == job' = [job EXCEPT ![p] = Finished(p)]

\* 95% of the total, rounded to hundredths (toFixed: halves away from zero);
\* the 5% fee leaves the economy.
Net(total) == IF total >= 0 THEN (total * 95 + 50) \div 100
                            ELSE -((50 - total * 95) \div 100)

\* Both settlements use the price stored with the order, and debit all of it
\* from the system account.
SettleAmountNet(o) == Net(order[o].price)               \* mutant: refund less the fee
SettleAmount(o) == order[o].price

SystemDebitNet(total) == Net(total)                     \* mutant: the fee stays
SystemDebit(total) == total

Credit(o, tasks, rep) ==
    credit' = [credit EXCEPT ![o].tasks = @ + tasks, ![o].rep = @ + rep]

-----------------------------------------------------------------------------
(* POST /v1/gigs/:gigId/orders                                             *)

\* generateGigOrderId: an id nothing uses.
Fresh(o) == /\ order[o].status = "none"
            /\ ledger[o].escrow = 0
            /\ \A q \in Procs : job[q].ord # o

\* Any price but 0 and null is taken: 409 and 422 are for those two only.
PlaceRead(p, b, o) ==
    /\ gig.open
    /\ gig.price # 0
    /\ Fresh(o)
    /\ Start(p, [Idle EXCEPT !.op = "place", !.pc = "escrow", !.ord = o,
                             !.by = b, !.price = gig.price])
    /\ UNCHANGED <<gig, order, ledger, balance, credit, dispute, faults>>

\* escrowDeductForOrder: the balance is checked under the row lock.
PlaceEscrow(p) ==
    LET o == job[p].ord
        b == job[p].by
        price == job[p].price
    IN /\ At(p, "escrow")
       /\ \/ /\ balance[b] < price          \* 402 insufficient_balance
             /\ Finish(p)
             /\ UNCHANGED <<ledger, balance>>
          \/ /\ balance[b] >= price
             /\ ledger' = [ledger EXCEPT ![o].escrow = @ + price]
             /\ balance' = [balance EXCEPT ![b] = @ - price, ![System] = @ + price]
             /\ Goto(p, "insert")
       /\ UNCHANGED <<gig, order, credit, dispute, faults>>

PriceReadAgain(p) == gig.price                          \* mutant: not the snapshot
PriceToStore(p) == job[p].price

PlaceInsert(p) ==
    /\ At(p, "insert")
    /\ order' = [order EXCEPT ![job[p].ord] =
                    [status |-> "pending", buyer |-> job[p].by,
                     price |-> PriceToStore(p), revisions |-> 0]]
    /\ Finish(p)
    /\ UNCHANGED <<gig, ledger, balance, credit, dispute, faults>>

-----------------------------------------------------------------------------
(* accept, deliver, request-revision, dispute: read the order, check the   *)
(* transition, then update the row by its id alone.                        *)

validateTransition(o, to) ==
    /\ order[o].status \in Status
    /\ to \in GIG_ORDER_TRANSITIONS[order[o].status]

MoveRead(p, o, to) ==
    /\ to \in {"accepted", "delivered", "revision_requested", "disputed"}
    /\ validateTransition(o, to)
    /\ to = "revision_requested" => order[o].revisions < MaxRevisions
    /\ Start(p, [Idle EXCEPT !.op = "move", !.pc = "status", !.ord = o, !.to = to,
                             !.revisions = order[o].revisions])
    /\ UNCHANGED <<gig, order, ledger, balance, credit, dispute, faults>>

MoveWrite(p) ==
    LET o == job[p].ord
        to == job[p].to
    IN /\ At(p, "status")
       /\ job[p].op = "move"
       /\ order' = [order EXCEPT
                        ![o].status = to,
                        ![o].revisions = IF to = "revision_requested"
                                         THEN job[p].revisions + 1 ELSE @]
       /\ dispute' = IF to = "disputed"
                     THEN [dispute EXCEPT ![o].raised = @ + 1] ELSE dispute
       /\ Finish(p)
       /\ UNCHANGED <<gig, ledger, balance, credit, faults>>

-----------------------------------------------------------------------------
(* complete and cancel: the money moves first, then the row is updated.    *)

CompleteRead(p, o) ==
    /\ validateTransition(o, "completed")
    /\ Start(p, [Idle EXCEPT !.op = "complete", !.pc = "settle", !.ord = o,
                             !.to = "completed"])
    /\ UNCHANGED <<gig, order, ledger, balance, credit, dispute, faults>>

\* The buyer may cancel a pending order only; the seller is held to
\* validateTransition alone.
CancelRead(p, o, who) ==
    /\ who \in {order[o].buyer, Seller}
    /\ who # Seller => order[o].status = "pending"
    /\ validateTransition(o, "cancelled")
    /\ Start(p, [Idle EXCEPT !.op = "cancel", !.pc = "settle", !.ord = o,
                             !.to = "cancelled"])
    /\ UNCHANGED <<gig, order, ledger, balance, credit, dispute, faults>>

AfterSettleNoUpdate(j) ==                               \* mutant: status not updated
    IF j.op = "complete" THEN "stats" ELSE IF j.op = "cancel" THEN "status" ELSE "idle"

\* What a handler does once the money has moved.
AfterSettle(j) ==
    CASE j.op \in {"complete", "cancel"}                   -> "status"
      [] j.op = "sweep" /\ j.to = "completed"              -> "stats"
      [] j.op = "sweep" /\ j.from = "accepted"             -> "rep"
      [] j.op = "resolve" /\ j.to = "completed"            -> "rep"
      [] OTHER                                             -> "idle"

\* The sweeps move the money of a positive price only (if amount > 0); the
\* other callers do not ask.
Moves(p) == job[p].op = "sweep" => order[job[p].ord].price > 0

\* releaseEscrowForOrder if the order goes to completed, refundEscrowForOrder
\* if it goes to cancelled.  Neither looks at the order or at its escrow.
Settle(p) ==
    LET o == job[p].ord
        amount == SettleAmount(o)
    IN /\ At(p, "settle")
       /\ \/ /\ ~Moves(p)
             /\ UNCHANGED <<ledger, balance>>
          \/ /\ Moves(p)
             /\ job[p].to = "completed"
             /\ ledger' = [ledger EXCEPT ![o].paid = @ + amount]
             /\ balance' = [balance EXCEPT ![System] = @ - SystemDebit(amount),
                                           ![Seller] = @ + Net(amount)]
          \/ /\ Moves(p)
             /\ job[p].to = "cancelled"
             /\ ledger' = [ledger EXCEPT ![o].refunded = @ + amount]
             /\ balance' = [balance EXCEPT ![System] = @ - SystemDebit(amount),
                                           ![order[o].buyer] = @ + amount]
       /\ IF AfterSettle(job[p]) = "idle" THEN Finish(p)
                                          ELSE Goto(p, AfterSettle(job[p]))
       /\ UNCHANGED <<gig, order, credit, dispute, faults>>

TerminalWrite(p) ==
    /\ At(p, "status")
    /\ job[p].op \in {"complete", "cancel"}
    /\ order' = [order EXCEPT ![job[p].ord].status = job[p].to]
    /\ IF job[p].to = "completed" THEN Goto(p, "stats") ELSE Finish(p)
    /\ UNCHANGED <<gig, ledger, balance, credit, dispute, faults>>

Stats(p) ==
    /\ At(p, "stats")
    /\ Credit(job[p].ord, 1, 0)
    /\ Goto(p, "rep")
    /\ UNCHANGED <<gig, order, ledger, balance, dispute, faults>>

\* updateReputation, in hundredths: +0.05 for a completed order, -0.1 for an
\* accepted one that timed out.
Reputation(p) ==
    /\ At(p, "rep")
    /\ Credit(job[p].ord, 0, IF job[p].to = "completed" THEN 5 ELSE -10)
    /\ Finish(p)
    /\ UNCHANGED <<gig, order, ledger, balance, dispute, faults>>

-----------------------------------------------------------------------------
(* POST /v1/admin/gig-orders/:orderId/resolve-dispute                      *)

\* The first read does not check the status.
ResolveRead(p, o, outcome) ==
    /\ order[o].status \in Status
    /\ outcome \in Terminal                 \* seller_wins, buyer_wins
    /\ Start(p, [Idle EXCEPT !.op = "resolve", !.pc = "tx", !.ord = o, !.to = outcome])
    /\ UNCHANGED <<gig, order, ledger, balance, credit, dispute, faults>>

AnyStatus(o) == TRUE                                    \* mutant: UPDATE by id alone
StillDisputed(o) == order[o].status = "disputed"

\* One transaction: UPDATE ... WHERE status = 'disputed' RETURNING, and the
\* seller's statistics if the seller wins.  No row: 409.
ResolveTx(p) ==
    LET o == job[p].ord
    IN /\ At(p, "tx")
       /\ \/ /\ ~StillDisputed(o)
             /\ Finish(p)
             /\ UNCHANGED <<order, credit, dispute>>
          \/ /\ StillDisputed(o)
             /\ order' = [order EXCEPT ![o].status = job[p].to]
             /\ Credit(o, IF job[p].to = "completed" THEN 1 ELSE 0, 0)
             /\ dispute' = [dispute EXCEPT ![o].resolved = @ + 1]
             /\ Goto(p, "settle")
       /\ UNCHANGED <<gig, ledger, balance, faults>>

-----------------------------------------------------------------------------
(* POST /v1/gigs/orders/:orderId/upload: the seller's file.  The object and *)
(* the column that names it are modelled in Attachments; here the update   *)
(* matters for updated_at, which the sweep of revision_requested looks at. *)

UploadRead(p, o) ==
    /\ order[o].status \in {"accepted", "revision_requested"}
    /\ Start(p, [Idle EXCEPT !.op = "upload", !.pc = "file", !.ord = o])
    /\ UNCHANGED <<gig, order, ledger, balance, credit, dispute, faults>>

UploadWrite(p) ==
    /\ At(p, "file")
    /\ Finish(p)
    /\ UNCHANGED <<gig, order, ledger, balance, credit, dispute, faults>>

Uploading(o) == \E p \in Procs : job[p].op = "upload" /\ job[p].ord = o

-----------------------------------------------------------------------------
(* runOrderTimeouts: four sweeps of the same shape.                        *)

SweepOutcomeNoRevision ==                               \* mutant: revisions never swept
    [pending |-> "cancelled", accepted |-> "cancelled", delivered |-> "completed"]
SweepOutcome == [pending |-> "cancelled", accepted |-> "cancelled",
                 delivered |-> "completed", revision_requested |-> "cancelled"]

\* SELECT the orders in a state that are past its cutoff: created_at if pending,
\* accepted_at and the gig's delivery days if accepted, delivered_at, and for
\* revision_requested updated_at.  Clocks are not modelled: any order may be
\* past it.  Fairness tells which orders must be, some day.
SweepSelect(p, from, rows) ==
    /\ rows # {}
    /\ \A o \in rows : order[o].status = from
    /\ Start(p, [Idle EXCEPT !.op = "sweep", !.pc = "next", !.from = from,
                             !.to = SweepOutcome[from], !.rows = rows])
    /\ UNCHANGED <<gig, order, ledger, balance, credit, dispute, faults>>

\* UPDATE ... WHERE id = o AND status = from.  The number of rows updated is
\* not looked at: the money moves in either case.
SweepUpdate(p, o) ==
    /\ At(p, "next")
    /\ o \in job[p].rows
    /\ order' = IF order[o].status = job[p].from
                THEN [order EXCEPT ![o].status = job[p].to] ELSE order
    /\ job' = [job EXCEPT ![p].ord = o, ![p].rows = @ \ {o}, ![p].pc = "settle"]
    /\ UNCHANGED <<gig, ledger, balance, credit, dispute, faults>>

-----------------------------------------------------------------------------
(* PATCH and DELETE /v1/gigs/:id: read the gig, count its active orders,   *)
(* update the gig.                                                         *)

GigRead(p, op) ==
    /\ op \in {"editGig", "closeGig"}
    /\ gig.open
    /\ Start(p, [Idle EXCEPT !.op = op, !.pc = "count"])
    /\ UNCHANGED <<gig, order, ledger, balance, credit, dispute, faults>>

HasActiveOrders == \E o \in Orders : order[o].status \in Active

GigCount(p) ==
    /\ At(p, "count")
    /\ IF HasActiveOrders
       THEN Finish(p)                       \* 409: Gig has active orders
       ELSE Goto(p, "write")
    /\ UNCHANGED <<gig, order, ledger, balance, credit, dispute, faults>>

GigWrite(p) ==
    /\ At(p, "write")
    /\ \/ /\ job[p].op = "editGig"
          /\ \E price \in Prices : gig' = [gig EXCEPT !.price = price]
       \/ /\ job[p].op = "closeGig"
          /\ gig' = [gig EXCEPT !.open = FALSE]
    /\ Finish(p)
    /\ UNCHANGED <<order, ledger, balance, credit, dispute, faults>>

-----------------------------------------------------------------------------
(* Faults: the statement a handler awaits throws (an HTTP handler answers  *)
(* 500; a sweep catches it and goes on with its next row), or the process  *)
(* stops and every handler in flight is gone.                              *)

Fail(p) ==
    /\ faults < MaxFaults
    /\ job[p] # Idle
    /\ \/ /\ ~At(p, "next")
          /\ Finish(p)
       \/ /\ At(p, "next")
          /\ \E o \in job[p].rows :
                job' = [job EXCEPT ![p] = IF job[p].rows = {o} THEN Idle
                                          ELSE [job[p] EXCEPT !.rows = @ \ {o}]]
    /\ faults' = faults + 1
    /\ UNCHANGED <<gig, order, ledger, balance, credit, dispute>>

Crash ==
    /\ faults < MaxFaults
    /\ \E p \in Procs : job[p] # Idle
    /\ job' = [p \in Procs |-> Idle]
    /\ faults' = faults + 1
    /\ UNCHANGED <<gig, order, ledger, balance, credit, dispute>>

-----------------------------------------------------------------------------
Request(p) ==
    \/ \E b \in Buyers, o \in Orders : PlaceRead(p, b, o)
    \/ \E o \in Orders, to \in Status : MoveRead(p, o, to)
    \/ \E o \in Orders : CompleteRead(p, o)
    \/ \E o \in Orders, who \in Buyers \cup {Seller} : CancelRead(p, o, who)
    \/ \E o \in Orders, outcome \in Terminal : ResolveRead(p, o, outcome)
    \/ \E o \in Orders : UploadRead(p, o)
    \/ \E op \in {"editGig", "closeGig"} : GigRead(p, op)

Tick(p) == \E from \in DOMAIN SweepOutcome, rows \in SUBSET Orders :
              SweepSelect(p, from, rows)

Step(p) ==
    \/ PlaceEscrow(p) \/ PlaceInsert(p)
    \/ MoveWrite(p)
    \/ Settle(p) \/ TerminalWrite(p) \/ Stats(p) \/ Reputation(p)
    \/ ResolveTx(p)
    \/ UploadWrite(p)
    \/ \E o \in Orders : SweepUpdate(p, o)
    \/ GigCount(p) \/ GigWrite(p)

Next ==
    \/ \E p \in Http : Request(p)
    \/ \E p \in Cron : Tick(p)
    \/ \E p \in Procs : Step(p) \/ Fail(p)
    \/ Crash

Spec == Init /\ [][Next]_vars

\* The tick that selects o in one of the given states.
Swept(o, states) == \E p \in Cron, from \in DOMAIN SweepOutcome \cap states,
                       rows \in SUBSET Orders :
                       o \in rows /\ SweepSelect(p, from, rows)

\* A suspended handler is resumed.  The columns that date the pending, accepted
\* and delivered states are written once per visit, so an order that stays in
\* one is at some tick past its cutoff.  In revision_requested every upload by
\* the seller writes updated_at: the sweep is sure to come only once they stop.
Fairness ==
    /\ \A p \in Procs : WF_vars(Step(p))
    /\ \A o \in Orders :
        /\ SF_vars(Swept(o, {"pending", "accepted", "delivered"}))
        /\ SF_vars(Swept(o, {"revision_requested"})) \/ []<>Uploading(o)

FairSpec == Spec /\ Fairness

-----------------------------------------------------------------------------
(* Correctness                                                             *)

\* No handler in flight is about to touch order o.
Quiet(o) == \A p \in Procs : job[p].ord # o /\ o \notin job[p].rows

Settled(o) == ledger[o].paid + ledger[o].refunded

\* Not modelled as an error because the code does not see one: PATCH stores any
\* number as the gig's price.  An order at a negative price pays the buyer when
\* it is placed, takes from whoever it is settled with, and a sweep ends it
\* without moving anything.
LeftBySweep(o) == order[o].price < 0 /\ order[o].status \in Terminal /\ Settled(o) = 0

\* When handlers do not overlap and nothing fails, an order and its escrow
\* agree: an active order holds its whole price, a completed one paid it out
\* once, a cancelled one gave it back once (gigs.ts complete and cancel, the
\* sweeps and resolve-dispute each settle and update in their own order).
SettledExactly ==
    \A o \in Orders : (Quiet(o) /\ faults = 0) =>
        LET s == order[o].status
            l == ledger[o]
        IN /\ l.escrow = order[o].price
           /\ ~LeftBySweep(o) =>
                /\ l.paid = IF s = "completed" THEN l.escrow ELSE 0
                /\ l.refunded = IF s = "cancelled" THEN l.escrow ELSE 0

\* And the three paths to "completed" (the buyer, the sweep, the admin) each
\* count the order once for the seller and raise the reputation; no other does.
CreditMatchesOutcome ==
    \A o \in Orders : (Quiet(o) /\ faults = 0) =>
        LET done == order[o].status = "completed"
        IN /\ credit[o].tasks = IF done THEN 1 ELSE 0
           /\ (credit[o].rep > 0) <=> done

\* When handlers do not overlap, whatever fails: a closed gig has no active
\* order (DELETE /v1/gigs/:id counts them first).
ClosedGigIsIdle == ~gig.open => \A o \in Orders : order[o].status \notin Active

\* When handlers do not overlap and nothing fails, agt_system holds exactly the
\* prices of the active orders on top of its own funds: settlements debit it in
\* full, the fee included.  What negative orders a sweep ended had taken from it
\* stays missing.
EscrowAccountBacksOrders ==
    ((\A o \in Orders : Quiet(o)) /\ faults = 0) =>
        balance[System] = InitialBalance
            + SumFunctionOnSet([o \in Orders |-> order[o].price],
                               {o \in Orders : order[o].status \in Active \/ LeftBySweep(o)})

\* Money, counters and statuses of a gig and its orders agree, whichever of its
\* endpoints, sweeps and admins brought them there.
OrdersConsistent ==
    SettledExactly /\ CreditMatchesOutcome /\ ClosedGigIsIdle /\ EscrowAccountBacksOrders

\* However handlers interleave, as long as nothing fails, no order of a positive
\* price ends with its escrow still held, and nothing is taken or given for an
\* order that was not inserted, whatever the price.
NothingLost ==
    \A o \in Orders : (Quiet(o) /\ faults = 0) =>
        /\ order[o].status = "none" => ledger[o].escrow = 0
        /\ order[o].status \in Terminal /\ order[o].price > 0
              => Settled(o) >= ledger[o].escrow

\* Two admins cannot both resolve one dispute (the transaction's status guard,
\* admin.ts): every resolution consumes a dispute that was raised.
ResolvedOncePerDispute ==
    \A o \in Orders :
        /\ dispute[o].resolved <= dispute[o].raised
        /\ order[o].status = "disputed" => dispute[o].resolved < dispute[o].raised

\* The price stored with the order is the price that was escrowed, though the
\* gig's price may be edited between the two statements.
EscrowMatchesPrice ==
    \A o \in Orders : order[o].status # "none" => ledger[o].escrow = order[o].price

\* Without overlap, each fault costs at most one settlement too many: a handler
\* that settled and failed to update leaves an order that can be settled again.
\* Of a negative price the same holds of what the settlements take.
FaultsBoundDamage ==
    \A o \in Orders :
        LET most == (1 + faults) * ledger[o].escrow
        IN IF ledger[o].escrow >= 0 THEN 0 <= Settled(o) /\ Settled(o) <= most
                                    ELSE most <= Settled(o) /\ Settled(o) <= 0

\* Every order that is placed ends, or waits for an admin, though sweeps may
\* fail and the process may be restarted; unless its seller uploads files to it
\* for ever (or, beyond MaxRevisions, its buyer asks for revisions for ever).
OrderEnds ==
    \A o \in Orders :
        \/ (order[o].status \in Active) ~> (order[o].status \in Terminal \cup {"disputed"})
        \/ []<>Uploading(o)

\* The escrow of an order, read off the ledger.
EscrowOf(o) == IF Settled(o) > ledger[o].escrow THEN "overdrawn"
               ELSE IF ledger[o].paid > 0 THEN "released"
               ELSE IF ledger[o].refunded > 0 THEN "refunded"
               ELSE IF ledger[o].escrow > 0 THEN "held" ELSE "none"

EscrowOfOrders == INSTANCE Escrow WITH
    Items  <- Orders,
    escrow <- [o \in Orders |-> EscrowOf(o)],
    void   <- IF faults = 0 THEN {o \in Orders : ledger[o].escrow < 0} ELSE Orders

\* Until something fails, non-overlapping handlers implement the escrow promise:
\* held once, then released once or refunded once, never both.  Nothing is held
\* for an order at a negative price, and nothing is promised of it.
ImplementsEscrow == EscrowOfOrders!Spec

=============================================================================
