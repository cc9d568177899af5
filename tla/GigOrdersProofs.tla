-------------------------- MODULE GigOrdersProofs --------------------------
(***************************************************************************)
(* Theorems about GigOrders, for every set of orders, agents, prices and   *)
(* request slots, every bound, and whether or not handlers overlap, throw  *)
(* or die.                                                                 *)
(***************************************************************************)
EXTENDS GigOrders, FiniteSetTheorems, TLAPS

\* A handler works on an order except while it sits between the rows of a
\* sweep or deals with the gig itself, and a handler that settles is bound
\* for a terminal state.
OnOrder(j)  == j.pc \notin {"idle", "next", "count", "write"}
Settling(j) == \/ j.op \in {"complete", "cancel", "resolve", "sweep"}
               \/ j.pc \in {"next", "tx"}
               \/ j.rows # {}

JobOK ==
    \A p \in Procs :
        /\ OnOrder(job[p]) => job[p].ord \in Orders
        /\ Settling(job[p]) => job[p].to \in Terminal

TypeInv == TypeOK /\ JobOK

\* The domain of GIG_ORDER_TRANSITIONS and the status a move writes are states.
LEMMA SweepOutcomeType ==
    ASSUME NEW from \in DOMAIN SweepOutcome
    PROVE  from \in Status /\ SweepOutcome[from] \in Terminal
  BY DEF SweepOutcome, Status, Terminal

LEMMA IdleType == Idle \in Job
  BY DEF Idle, Job, Op, Pc, Status, Terminal, Agents

\* Whatever a handler does when its order is done with, its record stays one.
LEMMA FinishedType ==
    ASSUME TypeOK, NEW p \in Procs
    PROVE  /\ Finished(p) \in Job
           /\ Finished(p).pc \in {"idle", "next"}
           /\ Finished(p) = Idle \/ (job[p].rows # {} /\ Finished(p).to = job[p].to)
  <1>1. job[p] \in Job
    BY DEF TypeOK
  <1>2. CASE job[p].rows = {}
    BY <1>2, IdleType DEF Finished, Idle
  <1>3. CASE job[p].rows # {}
    BY <1>1, <1>3 DEF Finished, Job, Pc
  <1> QED
    BY <1>2, <1>3

\* What is left of an amount after the fee is an Int.
LEMMA NetType == \A total \in Int : Net(total) \in Int
  BY DEF Net

LEMMA InitTypeInv == Init => TypeInv
  <1> SUFFICES ASSUME Init PROVE TypeInv
    OBVIOUS
  <1> USE DEF Init
  <1>1. TypeOK
    <2>1. gig \in [open: BOOLEAN, price: Prices]
      OBVIOUS
    <2>2. order \in [Orders -> OrderRow]
      BY DEF Absent, Agents, OrderRow
    <2>3. /\ ledger \in [Orders -> LedgerRow]
          /\ credit \in [Orders -> CreditRow]
          /\ dispute \in [Orders -> DisputeRow]
          /\ faults \in Nat
      BY DEF LedgerRow, CreditRow, DisputeRow
    <2>4. balance \in [Agents -> Int]
      BY BoundsAssumption
    <2>5. job \in [Procs -> Job]
      BY IdleType
    <2> QED
      BY <2>1, <2>2, <2>3, <2>4, <2>5 DEF TypeOK
  <1>2. JobOK
    BY DEF JobOK, Idle, OnOrder, Settling
  <1> QED
    BY <1>1, <1>2 DEF TypeInv

\* What a step does to the job table: one job becomes another record that is
\* itself well formed.
LEMMA JobStep ==
    ASSUME TypeInv, NEW p \in Procs, NEW j \in Job,
           job' = [job EXCEPT ![p] = j],
           OnOrder(j) => j.ord \in Orders,
           Settling(j) => j.to \in Terminal
    PROVE  job' \in [Procs -> Job] /\ JobOK'
  BY DEF TypeInv, TypeOK, JobOK

\* Finish and Goto are such steps.
LEMMA FinishStep ==
    ASSUME TypeInv, NEW p \in Procs, Finish(p)
    PROVE  job' \in [Procs -> Job] /\ JobOK'
  <1>1. TypeOK /\ JobOK
    BY DEF TypeInv
  <1>2. job' = [job EXCEPT ![p] = Finished(p)]
    BY DEF Finish
  <1>3. Settling(Finished(p)) => Finished(p).to \in Terminal
    BY <1>1, FinishedType DEF JobOK, Settling, Idle
  <1>4. ~OnOrder(Finished(p))
    BY <1>1, FinishedType DEF OnOrder
  <1> QED
    BY <1>1, <1>2, <1>3, <1>4, FinishedType, JobStep

LEMMA GotoStep ==
    ASSUME TypeInv, NEW p \in Procs, NEW pc \in Pc \ {"next", "tx"}, Goto(p, pc),
           pc \in {"idle", "count", "write"} \/ job[p].ord \in Orders
    PROVE  job' \in [Procs -> Job] /\ JobOK'
  <1> DEFINE j == [job[p] EXCEPT !.pc = pc]
  <1>1. job[p] \in Job /\ job' = [job EXCEPT ![p] = j]
    BY DEF TypeInv, TypeOK, Goto
  <1>2. j \in Job /\ j.pc = pc /\ j.ord = job[p].ord /\ j.op = job[p].op /\ j.to = job[p].to
          /\ j.rows = job[p].rows
    BY <1>1 DEF Job
  <1>3. Settling(j) => j.to \in Terminal
    BY <1>2 DEF TypeInv, JobOK, Settling
  <1>4. OnOrder(j) => j.ord \in Orders
    BY <1>2 DEF OnOrder
  <1> QED
    BY <1>1, <1>2, <1>3, <1>4, JobStep

\* A handler that starts puts a record in an idle slot.
LEMMA StartStep ==
    ASSUME TypeInv, NEW p \in Procs, NEW j \in Job, Start(p, j),
           OnOrder(j) => j.ord \in Orders,
           Settling(j) => j.to \in Terminal
    PROVE  job' \in [Procs -> Job] /\ JobOK'
  BY JobStep DEF Start

LEMMA AfterSettleType == \A j \in Job : AfterSettle(j) \in Pc \ {"next", "tx"}
  BY DEF AfterSettle, Pc

\* A request that was read and validated leaves every table alone.
LEMMA RequestTypeInv ==
    ASSUME TypeInv, NEW p \in Http, Request(p)
    PROVE  TypeInv'
  <1>0. p \in Procs
    BY DEF Procs
  <1>1. TypeOK /\ Idle \in Job
    BY IdleType DEF TypeInv
  <1>2. job' \in [Procs -> Job] /\ JobOK'
    <2>1. ASSUME NEW b \in Buyers, NEW o \in Orders, PlaceRead(p, b, o)
          PROVE  job' \in [Procs -> Job] /\ JobOK'
      <3> DEFINE j == [Idle EXCEPT !.op = "place", !.pc = "escrow", !.ord = o,
                                   !.by = b, !.price = gig.price]
      <3>1. gig.price \in Int
        BY <1>1, BoundsAssumption DEF TypeOK
      <3>2. j \in Job /\ j.ord = o /\ ~Settling(j)
        BY <1>1, <3>1 DEF Job, Op, Pc, Agents, Idle, Settling
      <3> QED
        BY <1>0, <2>1, <3>2, StartStep DEF PlaceRead
    <2>2. ASSUME NEW o \in Orders, NEW to \in Status, MoveRead(p, o, to)
          PROVE  job' \in [Procs -> Job] /\ JobOK'
      <3> DEFINE j == [Idle EXCEPT !.op = "move", !.pc = "status", !.ord = o,
                                   !.to = to, !.revisions = order[o].revisions]
      <3>1. j \in Job /\ j.ord = o /\ ~Settling(j)
        BY <1>1 DEF Job, Op, Pc, Idle, TypeOK, OrderRow, Settling
      <3> QED
        BY <1>0, <2>2, <3>1, StartStep DEF MoveRead
    <2>3. ASSUME NEW o \in Orders, CompleteRead(p, o)
          PROVE  job' \in [Procs -> Job] /\ JobOK'
      <3> DEFINE j == [Idle EXCEPT !.op = "complete", !.pc = "settle", !.ord = o,
                                   !.to = "completed"]
      <3>1. j \in Job /\ j.to \in Terminal /\ j.ord = o
        BY <1>1 DEF Job, Op, Pc, Idle, Status, Terminal
      <3> QED
        BY <1>0, <2>3, <3>1, StartStep DEF CompleteRead
    <2>4. ASSUME NEW o \in Orders, NEW who \in Buyers \cup {Seller}, CancelRead(p, o, who)
          PROVE  job' \in [Procs -> Job] /\ JobOK'
      <3> DEFINE j == [Idle EXCEPT !.op = "cancel", !.pc = "settle", !.ord = o,
                                   !.to = "cancelled"]
      <3>1. j \in Job /\ j.to \in Terminal /\ j.ord = o
        BY <1>1 DEF Job, Op, Pc, Idle, Status, Terminal
      <3> QED
        BY <1>0, <2>4, <3>1, StartStep DEF CancelRead
    <2>5. ASSUME NEW o \in Orders, NEW outcome \in Terminal, ResolveRead(p, o, outcome)
          PROVE  job' \in [Procs -> Job] /\ JobOK'
      <3> DEFINE j == [Idle EXCEPT !.op = "resolve", !.pc = "tx", !.ord = o, !.to = outcome]
      <3>1. j \in Job /\ j.to \in Terminal /\ j.ord = o
        BY <1>1 DEF Job, Op, Pc, Idle, Status, Terminal
      <3> QED
        BY <1>0, <2>5, <3>1, StartStep DEF ResolveRead
    <2>6. ASSUME NEW op \in {"editGig", "closeGig"}, GigRead(p, op)
          PROVE  job' \in [Procs -> Job] /\ JobOK'
      <3> DEFINE j == [Idle EXCEPT !.op = op, !.pc = "count"]
      <3>1. j \in Job /\ ~OnOrder(j) /\ ~Settling(j)
        BY <1>1 DEF Job, Op, Pc, Idle, OnOrder, Settling
      <3> QED
        BY <1>0, <2>6, <3>1, StartStep DEF GigRead
    <2>7. ASSUME NEW o \in Orders, UploadRead(p, o)
          PROVE  job' \in [Procs -> Job] /\ JobOK'
      <3> DEFINE j == [Idle EXCEPT !.op = "upload", !.pc = "file", !.ord = o]
      <3>1. j \in Job /\ j.ord = o /\ ~Settling(j)
        BY <1>1 DEF Job, Op, Pc, Idle, Settling
      <3> QED
        BY <1>0, <2>7, <3>1, StartStep DEF UploadRead
    <2> QED
      BY <2>1, <2>2, <2>3, <2>4, <2>5, <2>6, <2>7 DEF Request
  <1>3. UNCHANGED <<gig, order, ledger, balance, credit, dispute, faults>>
    BY DEF Request, PlaceRead, MoveRead, CompleteRead, CancelRead, ResolveRead,
           UploadRead, GigRead
  <1> QED
    BY <1>1, <1>2, <1>3 DEF TypeInv, TypeOK

LEMMA TickTypeInv ==
    ASSUME TypeInv, NEW p \in Cron, Tick(p)
    PROVE  TypeInv'
  <1>1. PICK from \in DOMAIN SweepOutcome, rows \in SUBSET Orders : SweepSelect(p, from, rows)
    BY DEF Tick
  <1> DEFINE j == [Idle EXCEPT !.op = "sweep", !.pc = "next", !.from = from,
                               !.to = SweepOutcome[from], !.rows = rows]
  <1>2. j \in Job /\ ~OnOrder(j) /\ j.to \in Terminal
    BY IdleType, SweepOutcomeType DEF Job, Op, Pc, Idle, Status, Terminal, OnOrder
  <1>3. job' \in [Procs -> Job] /\ JobOK'
    BY <1>1, <1>2, StartStep DEF SweepSelect, Procs
  <1> QED
    BY <1>1, <1>3 DEF SweepSelect, TypeInv, TypeOK

\* A statement or transaction of a handler in flight.
LEMMA StepTypeInv ==
    ASSUME TypeInv, NEW p \in Procs, Step(p)
    PROVE  TypeInv'
  <1> DEFINE o == job[p].ord
  <1>1. TypeOK /\ JobOK /\ job[p] \in Job
    BY DEF TypeInv, TypeOK
  <1>2. CASE PlaceEscrow(p)
    <2>1. o \in Orders /\ job[p].price \in Int /\ job[p].by \in Agents
      BY <1>1, <1>2 DEF PlaceEscrow, At, JobOK, OnOrder, Job
    <2>2. job' \in [Procs -> Job] /\ JobOK'
      BY <1>2, <2>1, FinishStep, GotoStep DEF PlaceEscrow, Pc
    <2>3. ledger' \in [Orders -> LedgerRow]
      BY <1>1, <1>2, <2>1 DEF PlaceEscrow, TypeOK, LedgerRow
    <2>4. balance' \in [Agents -> Int]
      BY <1>1, <1>2, <2>1 DEF PlaceEscrow, TypeOK
    <2> QED
      BY <1>1, <1>2, <2>2, <2>3, <2>4 DEF PlaceEscrow, TypeInv, TypeOK
  <1>3. CASE PlaceInsert(p)
    <2>1. job' \in [Procs -> Job] /\ JobOK'
      BY <1>3, FinishStep DEF PlaceInsert
    <2>2. job[p].by \in Agents /\ job[p].price \in Int
      BY <1>1 DEF Job
    <2>3. order' \in [Orders -> OrderRow]
      BY <1>1, <1>3, <2>2 DEF PlaceInsert, PriceToStore, TypeOK, Status, OrderRow
    <2> QED
      BY <1>1, <1>3, <2>1, <2>3 DEF PlaceInsert, TypeInv, TypeOK
  <1>4. CASE MoveWrite(p)
    <2>1. job' \in [Procs -> Job] /\ JobOK'
      BY <1>4, FinishStep DEF MoveWrite
    <2>2. o \in Orders /\ job[p].to \in Status /\ job[p].revisions \in Nat
      BY <1>1, <1>4 DEF MoveWrite, At, JobOK, OnOrder, Job
    <2>3. order' \in [Orders -> OrderRow]
      <3> DEFINE revisions == IF job[p].to = "revision_requested"
                              THEN job[p].revisions + 1 ELSE order[o].revisions
                 row == [order[o] EXCEPT !.status = job[p].to, !.revisions = revisions]
      <3>1. order[o] \in OrderRow
        BY <1>1, <2>2 DEF TypeOK
      <3>2. revisions \in Nat
        BY <2>2, <3>1 DEF OrderRow
      <3>3. row \in OrderRow
        BY <2>2, <3>1, <3>2 DEF OrderRow
      <3>4. order' = [order EXCEPT ![o] = row]
        BY <1>1, <1>4, <2>2 DEF MoveWrite, TypeOK, OrderRow
      <3> QED
        BY <1>1, <3>3, <3>4 DEF TypeOK
    <2>4. dispute' \in [Orders -> DisputeRow]
      <3>1. [dispute[o] EXCEPT !.raised = @ + 1] \in DisputeRow
        BY <1>1, <2>2 DEF TypeOK, DisputeRow
      <3> QED
        BY <1>1, <1>4, <2>2, <3>1 DEF MoveWrite, TypeOK
    <2> QED
      BY <1>1, <1>4, <2>1, <2>3, <2>4 DEF MoveWrite, TypeInv, TypeOK
  <1>5. CASE Settle(p)
    <2>1. o \in Orders
      BY <1>1, <1>5 DEF Settle, At, JobOK, OnOrder
    <2>2. job' \in [Procs -> Job] /\ JobOK'
      BY <1>1, <1>5, <2>1, FinishStep, GotoStep, AfterSettleType DEF Settle
    <2>3. order[o].price \in Int /\ order[o].buyer \in Agents /\ Net(order[o].price) \in Int
      BY <1>1, <2>1, NetType DEF TypeOK, OrderRow
    <2>4. ledger' \in [Orders -> LedgerRow]
      <3> DEFINE price == order[o].price
      <3>1. \/ ledger' = ledger
            \/ ledger' = [ledger EXCEPT ![o].paid = @ + price]
            \/ ledger' = [ledger EXCEPT ![o].refunded = @ + price]
        BY <1>5 DEF Settle, SettleAmount
      <3>2. price \in Int /\ ledger \in [Orders -> LedgerRow]
        BY <1>1, <2>3 DEF TypeOK
      <3> HIDE DEF price
      <3> QED
        BY <2>1, <3>1, <3>2 DEF LedgerRow
    <2>5. balance' \in [Agents -> Int]
      BY <1>1, <1>5, <2>1, <2>3 DEF Settle, SettleAmount, SystemDebit, TypeOK
    <2> QED
      BY <1>1, <1>5, <2>2, <2>4, <2>5 DEF Settle, TypeInv, TypeOK
  <1>6. CASE TerminalWrite(p)
    <2>1. o \in Orders /\ job[p].to \in Status
      BY <1>1, <1>6 DEF TerminalWrite, At, JobOK, OnOrder, Job
    <2>2. job' \in [Procs -> Job] /\ JobOK'
      BY <1>6, <2>1, FinishStep, GotoStep DEF TerminalWrite, Pc
    <2>3. order' \in [Orders -> OrderRow]
      BY <1>1, <1>6, <2>1 DEF TerminalWrite, TypeOK, OrderRow
    <2> QED
      BY <1>1, <1>6, <2>2, <2>3 DEF TerminalWrite, TypeInv, TypeOK
  <1>7. CASE Stats(p)
    <2>1. o \in Orders
      BY <1>1, <1>7 DEF Stats, At, JobOK, OnOrder
    <2>2. job' \in [Procs -> Job] /\ JobOK'
      BY <1>7, <2>1, GotoStep DEF Stats, Pc
    <2>3. credit' \in [Orders -> CreditRow]
      BY <1>1, <1>7, <2>1 DEF Stats, Credit, TypeOK, CreditRow
    <2> QED
      BY <1>1, <1>7, <2>2, <2>3 DEF Stats, TypeInv, TypeOK
  <1>8. CASE Reputation(p)
    <2>1. job' \in [Procs -> Job] /\ JobOK'
      BY <1>8, FinishStep DEF Reputation
    <2>2. o \in Orders
      BY <1>1, <1>8 DEF Reputation, At, JobOK, OnOrder
    <2>3. credit' \in [Orders -> CreditRow]
      BY <1>1, <1>8, <2>2 DEF Reputation, Credit, TypeOK, CreditRow
    <2> QED
      BY <1>1, <1>8, <2>1, <2>3 DEF Reputation, TypeInv, TypeOK
  <1>9. CASE ResolveTx(p)
    <2>1. o \in Orders /\ job[p].to \in Status
      BY <1>1, <1>9 DEF ResolveTx, At, JobOK, OnOrder, Job
    <2>2. job' \in [Procs -> Job] /\ JobOK'
      BY <1>9, <2>1, FinishStep, GotoStep DEF ResolveTx, Pc
    <2>3. order' \in [Orders -> OrderRow]
      BY <1>1, <1>9, <2>1 DEF ResolveTx, TypeOK, OrderRow
    <2>4. credit' \in [Orders -> CreditRow]
      BY <1>1, <1>9, <2>1 DEF ResolveTx, Credit, TypeOK, CreditRow
    <2>5. dispute' \in [Orders -> DisputeRow]
      BY <1>1, <1>9, <2>1 DEF ResolveTx, TypeOK, DisputeRow
    <2> QED
      BY <1>1, <1>9, <2>2, <2>3, <2>4, <2>5 DEF ResolveTx, TypeInv, TypeOK
  <1>10. ASSUME NEW r \in Orders, SweepUpdate(p, r)
         PROVE  TypeInv'
    <2> DEFINE j == [job[p] EXCEPT !.ord = r, !.rows = @ \ {r}, !.pc = "settle"]
    <2>1. j \in Job /\ j.ord = r /\ j.op = job[p].op /\ j.to = job[p].to
      BY <1>1 DEF Job, Pc
    <2>2. job' = [job EXCEPT ![p] = j]
      BY <1>1, <1>10 DEF SweepUpdate, TypeOK, Job
    <2>3. j.to \in Terminal
      BY <1>1, <1>10, <2>1 DEF JobOK, Settling, SweepUpdate, At
    <2>4. job' \in [Procs -> Job] /\ JobOK'
      BY <2>1, <2>2, <2>3, JobStep
    <2>5. job[p].to \in Status
      BY <1>1 DEF Job
    <2>6. order' \in [Orders -> OrderRow]
      BY <1>1, <1>10, <2>5 DEF SweepUpdate, TypeOK, OrderRow
    <2> QED
      BY <1>1, <1>10, <2>4, <2>6 DEF SweepUpdate, TypeInv, TypeOK
  <1>11. CASE GigCount(p)
    <2>1. job' \in [Procs -> Job] /\ JobOK'
      BY <1>11, FinishStep, GotoStep DEF GigCount, Pc
    <2> QED
      BY <1>1, <1>11, <2>1 DEF GigCount, TypeInv, TypeOK
  <1>12. CASE GigWrite(p)
    <2>1. job' \in [Procs -> Job] /\ JobOK'
      BY <1>12, FinishStep DEF GigWrite
    <2>2. gig' \in [open: BOOLEAN, price: Prices]
      BY <1>1, <1>12 DEF GigWrite, TypeOK
    <2> QED
      BY <1>1, <1>12, <2>1, <2>2 DEF GigWrite, TypeInv, TypeOK
  <1>13. CASE UploadWrite(p)
    <2>1. job' \in [Procs -> Job] /\ JobOK'
      BY <1>13, FinishStep DEF UploadWrite
    <2> QED
      BY <1>1, <1>13, <2>1 DEF UploadWrite, TypeInv, TypeOK
  <1> QED
    BY <1>2, <1>3, <1>4, <1>5, <1>6, <1>7, <1>8, <1>9, <1>10, <1>11, <1>12, <1>13 DEF Step

\* A statement that throws, and a crash, only end handlers.
LEMMA FaultTypeInv ==
    ASSUME TypeInv, \/ \E p \in Procs : Fail(p)
                    \/ Crash
    PROVE  TypeInv'
  <1>1. TypeOK /\ JobOK
    BY DEF TypeInv
  <1>2. ASSUME NEW p \in Procs, Fail(p)
        PROVE  job' \in [Procs -> Job] /\ JobOK'
    <2>1. CASE Finish(p)
      BY <2>1, FinishStep
    <2>2. ASSUME NEW r \in job[p].rows,
                 job' = [job EXCEPT ![p] = IF job[p].rows = {r} THEN Idle
                                           ELSE [job[p] EXCEPT !.rows = @ \ {r}]]
          PROVE  job' \in [Procs -> Job] /\ JobOK'
      <3> DEFINE j == IF job[p].rows = {r} THEN Idle
                      ELSE [job[p] EXCEPT !.rows = @ \ {r}]
      <3>1. job[p] \in Job
        BY <1>1 DEF TypeOK
      <3>2. /\ j \in Job
            /\ j = Idle \/ (j.pc = job[p].pc /\ j.ord = job[p].ord /\ j.to = job[p].to)
        BY <3>1, IdleType DEF Job
      <3>3. /\ OnOrder(j) => j.ord \in Orders
            /\ Settling(j) => j.to \in Terminal
        BY <1>1, <2>2, <3>2 DEF JobOK, Idle, OnOrder, Settling
      <3> QED
        BY <2>2, <3>2, <3>3, JobStep
    <2> QED
      BY <1>2, <2>1, <2>2 DEF Fail
  <1>3. ASSUME Crash
        PROVE  job' \in [Procs -> Job] /\ JobOK'
    BY <1>3, IdleType DEF Crash, JobOK, Idle, OnOrder, Settling
  <1>4. /\ job' \in [Procs -> Job] /\ JobOK'
        /\ UNCHANGED <<gig, order, ledger, balance, credit, dispute>>
        /\ faults' = faults + 1
    BY <1>2, <1>3 DEF Fail, Crash
  <1> QED
    BY <1>1, <1>4 DEF TypeInv, TypeOK

LEMMA NextTypeInv == TypeInv /\ [Next]_vars => TypeInv'
  <1> SUFFICES ASSUME TypeInv, [Next]_vars PROVE TypeInv'
    OBVIOUS
  <1>1. CASE Next
    BY <1>1, RequestTypeInv, TickTypeInv, StepTypeInv, FaultTypeInv DEF Next
  <1>2. CASE UNCHANGED vars
    BY <1>2 DEF vars, TypeInv, TypeOK, JobOK
  <1> QED
    BY <1>1, <1>2

\* Every variable keeps its type, and every handler that is past its first
\* read holds the id of an order (routes/gigs.ts, routes/admin.ts and
\* services/timeoutService.ts never reach a money movement without one).
THEOREM TypeCorrect == Spec => []TypeOK
  <1>1. Spec => []TypeInv
    BY InitTypeInv, NextTypeInv, PTL DEF Spec
  <1>2. TypeInv => TypeOK
    BY DEF TypeInv
  <1> QED
    BY <1>1, <1>2, PTL

-----------------------------------------------------------------------------
(* A dispute is resolved by an admin at most once.  The invariant needs the *)
(* target state of a job only: of all the writes to a row, the endpoint     *)
(* that raises a dispute alone can write "disputed".                        *)

LEMMA ResolvedStep == TypeInv /\ ResolvedOncePerDispute /\ [Next]_vars
                          => ResolvedOncePerDispute'
  <1> SUFFICES ASSUME TypeInv, ResolvedOncePerDispute, [Next]_vars,
                      NEW o \in Orders
               PROVE  /\ dispute'[o].resolved <= dispute'[o].raised
                      /\ order'[o].status = "disputed"
                            => dispute'[o].resolved < dispute'[o].raised
    BY DEF ResolvedOncePerDispute
  <1>1. TypeOK /\ JobOK
    BY DEF TypeInv
  <1>2. /\ order[o] \in OrderRow
        /\ dispute[o].resolved \in Nat /\ dispute[o].raised \in Nat
        /\ dispute[o].resolved <= dispute[o].raised
        /\ order[o].status = "disputed" => dispute[o].resolved < dispute[o].raised
    BY <1>1 DEF TypeOK, DisputeRow, ResolvedOncePerDispute
  <1>3. CASE dispute'[o] = dispute[o] /\ (order'[o].status = "disputed"
                                             => order[o].status = "disputed")
    BY <1>2, <1>3
  <1>4. ASSUME NEW p \in Procs, Step(p)
        PROVE  \/ dispute'[o] = dispute[o] /\ (order'[o].status = "disputed"
                                                  => order[o].status = "disputed")
               \/ dispute'[o].resolved <= dispute'[o].raised
                    /\ (order'[o].status = "disputed"
                            => dispute'[o].resolved < dispute'[o].raised)
    <2>1. CASE PlaceInsert(p)
      BY <1>1, <2>1 DEF PlaceInsert, TypeOK
    <2>2. CASE MoveWrite(p)
      <3>1. CASE job[p].ord = o /\ job[p].to = "disputed"
        <4>1. dispute' = [dispute EXCEPT ![o].raised = @ + 1]
          BY <2>2, <3>1 DEF MoveWrite
        <4>2. dispute'[o].raised = dispute[o].raised + 1
                /\ dispute'[o].resolved = dispute[o].resolved
          BY <1>1, <4>1 DEF TypeOK, DisputeRow
        <4> QED
          BY <1>2, <4>2
      <3>2. CASE job[p].ord # o
        BY <1>1, <2>2, <3>2 DEF MoveWrite, TypeOK
      <3>3. CASE job[p].ord = o /\ job[p].to # "disputed"
        <4>1. order'[o].status = job[p].to
          BY <1>1, <2>2, <3>3 DEF MoveWrite, TypeOK, OrderRow
        <4> QED
          BY <2>2, <3>3, <4>1 DEF MoveWrite
      <3> QED
        BY <3>1, <3>2, <3>3
    <2>3. CASE TerminalWrite(p)
      <3>1. job[p].to # "disputed"
        BY <1>1, <2>3 DEF TerminalWrite, JobOK, Settling, Terminal
      <3> QED
        BY <1>1, <2>3, <3>1 DEF TerminalWrite, TypeOK, OrderRow
    <2>4. CASE ResolveTx(p)
      <3>1. CASE ~StillDisputed(job[p].ord)
        BY <2>4, <3>1 DEF ResolveTx
      <3>2. CASE job[p].ord # o
        BY <1>1, <2>4, <3>2 DEF ResolveTx, TypeOK
      <3>3. CASE job[p].ord = o /\ StillDisputed(o)
        <4>1. dispute' = [dispute EXCEPT ![o].resolved = @ + 1]
                /\ order' = [order EXCEPT ![o].status = job[p].to]
          BY <2>4, <3>3 DEF ResolveTx
        <4>2. dispute'[o].raised = dispute[o].raised
                /\ dispute'[o].resolved = dispute[o].resolved + 1
          BY <1>1, <4>1 DEF TypeOK, DisputeRow
        <4>3. order'[o].status = job[p].to
          BY <1>1, <4>1 DEF TypeOK, OrderRow
        <4>4. job[p].to # "disputed"
          BY <1>1, <2>4 DEF ResolveTx, At, JobOK, Settling, Terminal
        <4> QED
          BY <1>2, <3>3, <4>2, <4>3, <4>4 DEF StillDisputed
      <3> QED
        BY <3>1, <3>2, <3>3
    <2>5. ASSUME NEW r \in Orders, SweepUpdate(p, r)
          PROVE  dispute' = dispute /\ (order'[o].status = "disputed"
                                          => order[o].status = "disputed")
      <3>1. job[p].to # "disputed"
        BY <1>1, <2>5 DEF SweepUpdate, At, JobOK, Settling, Terminal
      <3> QED
        BY <1>1, <2>5, <3>1 DEF SweepUpdate, TypeOK, OrderRow
    <2>6. CASE UNCHANGED <<order, dispute>>
      BY <2>6
    <2> QED
      BY <1>4, <2>1, <2>2, <2>3, <2>4, <2>5, <2>6
      DEF Step, PlaceEscrow, Settle, Stats, Reputation, UploadWrite, GigCount, GigWrite
  <1>5. CASE UNCHANGED <<order, dispute>>
    BY <1>2, <1>5
  <1>6. CASE \E p \in Procs : Step(p)
    BY <1>3, <1>4, <1>6
  <1> QED
    BY <1>5, <1>6
    DEF Next, vars, Request, PlaceRead, MoveRead, CompleteRead, CancelRead, ResolveRead,
        UploadRead, GigRead, Tick, SweepSelect, Fail, Crash

\* Every resolution by an admin consumes a dispute that was raised, however
\* many admins, buyers and sweeps act at once (admin.ts, the transaction's
\* WHERE status = 'disputed').
THEOREM ResolvedOnce == Spec => []ResolvedOncePerDispute
  <1>1. ASSUME Init PROVE ResolvedOncePerDispute
    <2>1. ASSUME NEW o \in Orders PROVE order[o].status # "disputed"
      BY <1>1 DEF Init, Absent
    <2>2. ASSUME NEW o \in Orders PROVE dispute[o].resolved <= dispute[o].raised
      <3>1. dispute[o] = [raised |-> 0, resolved |-> 0]
        BY <1>1 DEF Init
      <3> QED
        BY <3>1
    <2> QED
      BY <2>1, <2>2 DEF ResolvedOncePerDispute
  <1>2. TypeInv /\ ResolvedOncePerDispute /\ [Next]_vars => ResolvedOncePerDispute'
    BY ResolvedStep
  <1> QED
    BY <1>1, <1>2, InitTypeInv, NextTypeInv, PTL DEF Spec

-----------------------------------------------------------------------------
(* The stored price is the escrowed price.  The strengthening says who owns *)
(* an order that is being placed: from the first read to the INSERT its id  *)
(* is in one job only, no row exists, and the ledger holds nothing before   *)
(* the escrow transaction and the price the job read after it.  Every other *)
(* job works on rows that exist.                                            *)

Placing(j) == j.pc \in {"escrow", "insert"}

PlacingOwns ==
    \A p \in Procs : Placing(job[p]) =>
        /\ order[job[p].ord].status = "none"
        /\ ledger[job[p].ord].escrow = IF job[p].pc = "escrow" THEN 0 ELSE job[p].price
        /\ job[p].rows = {}
        /\ \A q \in Procs : q # p => job[q].ord # job[p].ord

OnRow(j) == /\ j.ord \in Orders => order[j.ord].status # "none"
            /\ \A o \in j.rows : order[o].status # "none"

OthersOnRows == \A p \in Procs : ~Placing(job[p]) => OnRow(job[p])

EscrowInv == PlacingOwns /\ OthersOnRows /\ EscrowMatchesPrice

\* A step that keeps rows, prices and escrows and leaves behind no job that
\* is placing.
LEMMA QuietStep ==
    ASSUME TypeInv, EscrowInv, NEW p \in Procs, NEW j \in Job,
           job' = [job EXCEPT ![p] = j],
           ~Placing(j), OnRow(j),
           \A o \in Orders : /\ order'[o].status = "none" <=> order[o].status = "none"
                             /\ order'[o].price = order[o].price
                             /\ ledger'[o].escrow = ledger[o].escrow
    PROVE  EscrowInv'
  <1>1. /\ \A q \in Procs : job[q] \in Job
        /\ \A q \in Procs : job'[q] = IF q = p THEN j ELSE job[q]
    BY DEF TypeInv, TypeOK
  <1>2. ASSUME NEW q \in Procs, Placing(job'[q])
        PROVE  /\ order'[job'[q].ord].status = "none"
               /\ ledger'[job'[q].ord].escrow
                     = IF job'[q].pc = "escrow" THEN 0 ELSE job'[q].price
               /\ job'[q].rows = {}
               /\ \A r \in Procs : r # q => job'[r].ord # job'[q].ord
    <2>1. q # p /\ job'[q] = job[q]
      BY <1>1, <1>2
    <2>2. job[q].ord \in Orders
      BY <1>2, <2>1 DEF TypeInv, JobOK, OnOrder, Placing
    <2>3. /\ order[job[q].ord].status = "none"
          /\ ledger[job[q].ord].escrow = IF job[q].pc = "escrow" THEN 0 ELSE job[q].price
          /\ job[q].rows = {}
          /\ \A r \in Procs : r # q => job[r].ord # job[q].ord
      BY <1>2, <2>1 DEF EscrowInv, PlacingOwns
    <2>4. j.ord # job[q].ord
      BY <2>2, <2>3 DEF OnRow
    <2> QED
      BY <1>1, <2>1, <2>2, <2>3, <2>4
  <1>3. ASSUME NEW q \in Procs, ~Placing(job'[q])
        PROVE  /\ job'[q].ord \in Orders => order'[job'[q].ord].status # "none"
               /\ \A o \in job'[q].rows : order'[o].status # "none"
    <2>1. job'[q] \in Job /\ OnRow(job'[q])
      BY <1>1, <1>3 DEF EscrowInv, OthersOnRows
    <2> QED
      BY <2>1 DEF OnRow, Job
  <1>4. EscrowMatchesPrice'
    BY DEF EscrowInv, EscrowMatchesPrice
  <1> QED
    BY <1>2, <1>3, <1>4 DEF EscrowInv, PlacingOwns, OthersOnRows, OnRow

\* When a handler is done with its order, what is left of it is quiet.
LEMMA FinishedQuiet ==
    ASSUME TypeInv, EscrowInv, NEW p \in Procs
    PROVE  Finished(p) \in Job /\ ~Placing(Finished(p)) /\ OnRow(Finished(p))
  <1>1. TypeOK /\ job[p] \in Job
    BY DEF TypeInv, TypeOK
  <1>2. CASE job[p].rows = {}
    BY <1>1, <1>2, FinishedType, OrdersAssumption DEF Finished, Idle, Placing, OnRow
  <1>3. CASE job[p].rows # {}
    <2>1. OnRow(job[p])
      BY <1>3 DEF EscrowInv, PlacingOwns, OthersOnRows
    <2>2. Finished(p).rows = job[p].rows /\ Finished(p).ord = NoOrder
            /\ Finished(p).pc = "next"
      BY <1>1, <1>3 DEF Finished, Job
    <2> QED
      BY <1>1, <2>1, <2>2, FinishedType, OrdersAssumption DEF Placing, OnRow
  <1> QED
    BY <1>2, <1>3

\* A handler past the placing of an order stays so when it moves on.
LEMMA GotoQuiet ==
    ASSUME TypeInv, EscrowInv, NEW p \in Procs, ~Placing(job[p]),
           NEW pc \in Pc \ {"escrow", "insert"}
    PROVE  LET j == [job[p] EXCEPT !.pc = pc]
           IN  j \in Job /\ ~Placing(j) /\ OnRow(j)
  <1> DEFINE j == [job[p] EXCEPT !.pc = pc]
  <1>1. job[p] \in Job /\ OnRow(job[p])
    BY DEF TypeInv, TypeOK, EscrowInv, OthersOnRows
  <1>2. j \in Job /\ j.pc = pc /\ j.ord = job[p].ord /\ j.rows = job[p].rows
    BY <1>1 DEF Job
  <1> QED
    BY <1>1, <1>2 DEF Placing, OnRow

LEMMA QuietStart ==
    ASSUME TypeInv, EscrowInv, NEW p \in Procs, NEW j \in Job, Start(p, j),
           ~Placing(j), OnRow(j), UNCHANGED <<order, ledger>>
    PROVE  EscrowInv'
  BY QuietStep DEF Start

LEMMA RequestEscrowInv ==
    ASSUME TypeInv, EscrowInv, NEW p \in Http, Request(p)
    PROVE  EscrowInv'
  <1>0. p \in Procs /\ TypeOK /\ Idle \in Job
    BY IdleType DEF Procs, TypeInv
  <1>1. ASSUME NEW b \in Buyers, NEW o \in Orders, PlaceRead(p, b, o)
        PROVE  EscrowInv'
    <2> DEFINE j == [Idle EXCEPT !.op = "place", !.pc = "escrow", !.ord = o,
                                 !.by = b, !.price = gig.price]
    <2>1. j.pc = "escrow" /\ j.ord = o /\ j.rows = {}
      BY DEF Idle
    <2>2. /\ job[p] = Idle
          /\ \A q \in Procs : job'[q] = IF q = p THEN j ELSE job[q]
          /\ UNCHANGED <<order, ledger>>
      BY <1>0, <1>1 DEF PlaceRead, Start, TypeOK
    <2>3. /\ order[o].status = "none" /\ ledger[o].escrow = 0
          /\ \A q \in Procs : job[q].ord # o
      BY <1>1 DEF PlaceRead, Fresh
    <2> HIDE DEF j
    <2>4. PlacingOwns'
      <3>1. ASSUME NEW q \in Procs, q # p, Placing(job[q])
            PROVE  /\ order[job[q].ord].status = "none"
                   /\ ledger[job[q].ord].escrow
                         = IF job[q].pc = "escrow" THEN 0 ELSE job[q].price
                   /\ job[q].rows = {}
                   /\ \A r \in Procs : r # q => job'[r].ord # job[q].ord
        BY <2>1, <2>2, <2>3, <3>1 DEF EscrowInv, PlacingOwns
      <3> QED
        BY <2>1, <2>2, <2>3, <3>1 DEF PlacingOwns
    <2>5. OthersOnRows'
      BY <2>1, <2>2 DEF EscrowInv, OthersOnRows, OnRow, Placing
    <2> QED
      BY <2>2, <2>4, <2>5 DEF EscrowInv, EscrowMatchesPrice
  <1>2. ASSUME NEW o \in Orders, NEW to \in Status, MoveRead(p, o, to)
        PROVE  EscrowInv'
    <2> DEFINE j == [Idle EXCEPT !.op = "move", !.pc = "status", !.ord = o,
                                 !.to = to, !.revisions = order[o].revisions]
    <2>1. j \in Job /\ j.pc = "status" /\ j.ord = o /\ j.rows = {}
      BY <1>0 DEF Job, Op, Pc, Idle, TypeOK, OrderRow
    <2>2. order[o].status # "none"
      BY <1>2 DEF MoveRead, validateTransition, Status, Terminal
    <2> QED
      BY <1>0, <1>2, <2>1, <2>2, QuietStart DEF MoveRead, Placing, OnRow
  <1>3. ASSUME NEW o \in Orders, CompleteRead(p, o)
        PROVE  EscrowInv'
    <2> DEFINE j == [Idle EXCEPT !.op = "complete", !.pc = "settle", !.ord = o,
                                 !.to = "completed"]
    <2>1. j \in Job /\ j.pc = "settle" /\ j.ord = o /\ j.rows = {}
      BY <1>0 DEF Job, Op, Pc, Idle, Status, Terminal
    <2>2. order[o].status # "none"
      BY <1>3 DEF CompleteRead, validateTransition, Status, Terminal
    <2> QED
      BY <1>0, <1>3, <2>1, <2>2, QuietStart DEF CompleteRead, Placing, OnRow
  <1>4. ASSUME NEW o \in Orders, NEW who \in Buyers \cup {Seller}, CancelRead(p, o, who)
        PROVE  EscrowInv'
    <2> DEFINE j == [Idle EXCEPT !.op = "cancel", !.pc = "settle", !.ord = o,
                                 !.to = "cancelled"]
    <2>1. j \in Job /\ j.pc = "settle" /\ j.ord = o /\ j.rows = {}
      BY <1>0 DEF Job, Op, Pc, Idle, Status, Terminal
    <2>2. order[o].status # "none"
      BY <1>4 DEF CancelRead, validateTransition, Status, Terminal
    <2> QED
      BY <1>0, <1>4, <2>1, <2>2, QuietStart DEF CancelRead, Placing, OnRow
  <1>5. ASSUME NEW o \in Orders, NEW outcome \in Terminal, ResolveRead(p, o, outcome)
        PROVE  EscrowInv'
    <2> DEFINE j == [Idle EXCEPT !.op = "resolve", !.pc = "tx", !.ord = o, !.to = outcome]
    <2>1. j \in Job /\ j.pc = "tx" /\ j.ord = o /\ j.rows = {}
      BY <1>0 DEF Job, Op, Pc, Idle, Status, Terminal
    <2>2. order[o].status # "none"
      BY <1>5 DEF ResolveRead, Status, Terminal
    <2> QED
      BY <1>0, <1>5, <2>1, <2>2, QuietStart DEF ResolveRead, Placing, OnRow
  <1>6. ASSUME NEW op \in {"editGig", "closeGig"}, GigRead(p, op)
        PROVE  EscrowInv'
    <2> DEFINE j == [Idle EXCEPT !.op = op, !.pc = "count"]
    <2>1. j \in Job /\ j.pc = "count" /\ j.ord = NoOrder /\ j.rows = {}
      BY <1>0 DEF Job, Op, Pc, Idle
    <2> QED
      BY <1>0, <1>6, <2>1, QuietStart, OrdersAssumption DEF GigRead, Placing, OnRow
  <1>7. ASSUME NEW o \in Orders, UploadRead(p, o)
        PROVE  EscrowInv'
    <2> DEFINE j == [Idle EXCEPT !.op = "upload", !.pc = "file", !.ord = o]
    <2>1. j \in Job /\ j.pc = "file" /\ j.ord = o /\ j.rows = {}
      BY <1>0 DEF Job, Op, Pc, Idle
    <2>2. order[o].status # "none"
      BY <1>7 DEF UploadRead
    <2> QED
      BY <1>0, <1>7, <2>1, <2>2, QuietStart DEF UploadRead, Placing, OnRow
  <1> QED
    BY <1>1, <1>2, <1>3, <1>4, <1>5, <1>6, <1>7 DEF Request

LEMMA TickEscrowInv ==
    ASSUME TypeInv, EscrowInv, NEW p \in Cron, Tick(p)
    PROVE  EscrowInv'
  <1>1. PICK from \in DOMAIN SweepOutcome, rows \in SUBSET Orders : SweepSelect(p, from, rows)
    BY DEF Tick
  <1> DEFINE j == [Idle EXCEPT !.op = "sweep", !.pc = "next", !.from = from,
                               !.to = SweepOutcome[from], !.rows = rows]
  <1>2. j \in Job /\ j.pc = "next" /\ j.ord = NoOrder /\ j.rows = rows
    BY IdleType, SweepOutcomeType DEF Job, Op, Pc, Idle, Status, Terminal
  <1>3. \A o \in rows : order[o].status # "none"
    BY <1>1, SweepOutcomeType DEF SweepSelect, Status, Terminal
  <1> QED
    BY <1>1, <1>2, <1>3, QuietStart, OrdersAssumption DEF SweepSelect, Placing, OnRow, Procs

\* The escrow transaction: the price the job read moves to the system account.
LEMMA PlaceEscrowInv ==
    ASSUME TypeInv, EscrowInv, NEW p \in Procs, PlaceEscrow(p)
    PROVE  EscrowInv'
  <1> DEFINE o == job[p].ord
             price == job[p].price
             j == [job[p] EXCEPT !.pc = "insert"]
  <1>1. TypeOK /\ job[p] \in Job /\ job[p].pc = "escrow" /\ o \in Orders
    BY DEF TypeInv, TypeOK, PlaceEscrow, At, JobOK, OnOrder
  <1>2. CASE Finish(p) /\ UNCHANGED <<order, ledger>>
    BY <1>1, <1>2, FinishedQuiet, QuietStep DEF Finish
  <1>3. CASE /\ ledger' = [ledger EXCEPT ![o].escrow = @ + price]
             /\ Goto(p, "insert") /\ order' = order
    <2>1. /\ j.pc = "insert" /\ j.ord = o /\ j.price = price /\ j.rows = job[p].rows
          /\ \A q \in Procs : job'[q] = IF q = p THEN j ELSE job[q]
      BY <1>1, <1>3 DEF Goto, TypeOK, Job
    <2>2. /\ order[o].status = "none" /\ ledger[o].escrow = 0 /\ job[p].rows = {}
          /\ \A q \in Procs : q # p => job[q].ord # o
      BY <1>1 DEF EscrowInv, PlacingOwns, Placing
    <2>3. /\ ledger'[o].escrow = price
          /\ \A i \in Orders : i # o => ledger'[i] = ledger[i]
      BY <1>1, <1>3, <2>2 DEF TypeOK, LedgerRow, Job
    <2> HIDE DEF j
    <2>4. PlacingOwns'
      <3>1. ASSUME NEW q \in Procs, q # p, Placing(job[q])
            PROVE  /\ order[job[q].ord].status = "none"
                   /\ ledger'[job[q].ord].escrow
                         = IF job[q].pc = "escrow" THEN 0 ELSE job[q].price
                   /\ job[q].rows = {}
                   /\ \A r \in Procs : r # q => job'[r].ord # job[q].ord
        <4>1. job[q].ord \in Orders
          BY <3>1 DEF TypeInv, JobOK, OnOrder, Placing
        <4> QED
          BY <2>1, <2>2, <2>3, <3>1, <4>1 DEF EscrowInv, PlacingOwns
      <3> QED
        BY <1>3, <2>1, <2>2, <2>3, <3>1 DEF PlacingOwns
    <2>5. OthersOnRows'
      BY <1>3, <2>1 DEF EscrowInv, OthersOnRows, OnRow, Placing
    <2>6. EscrowMatchesPrice'
      BY <1>3, <2>2, <2>3 DEF EscrowInv, EscrowMatchesPrice
    <2> QED
      BY <2>4, <2>5, <2>6 DEF EscrowInv
  <1> QED
    BY <1>2, <1>3 DEF PlaceEscrow

\* The INSERT stores the price that was escrowed, not the gig's.
LEMMA PlaceInsertEscrowInv ==
    ASSUME TypeInv, EscrowInv, NEW p \in Procs, PlaceInsert(p)
    PROVE  EscrowInv'
  <1> DEFINE o == job[p].ord
             row == [status |-> "pending", buyer |-> job[p].by,
                     price |-> job[p].price, revisions |-> 0]
  <1>1. TypeOK /\ job[p] \in Job /\ job[p].pc = "insert" /\ o \in Orders
    BY DEF TypeInv, TypeOK, PlaceInsert, At, JobOK, OnOrder
  <1>2. /\ order[o].status = "none" /\ ledger[o].escrow = job[p].price /\ job[p].rows = {}
        /\ \A q \in Procs : q # p => job[q].ord # o
    BY <1>1 DEF EscrowInv, PlacingOwns, Placing
  <1>3. /\ ledger' = ledger
        /\ \A i \in Orders : order'[i] = IF i = o THEN row ELSE order[i]
        /\ \A q \in Procs : job'[q] = IF q = p THEN Idle ELSE job[q]
    BY <1>1, <1>2 DEF PlaceInsert, PriceToStore, Finish, Finished, TypeOK
  <1>4. row.status # "none" /\ row.price = job[p].price
    OBVIOUS
  <1>5. ~Placing(Idle) /\ Idle.ord = NoOrder /\ Idle.rows = {}
    BY DEF Placing, Idle
  <1> HIDE DEF row
  <1>6. PlacingOwns'
    <2>1. ASSUME NEW q \in Procs, q # p, Placing(job[q])
          PROVE  /\ order'[job[q].ord].status = "none"
                 /\ ledger[job[q].ord].escrow
                       = IF job[q].pc = "escrow" THEN 0 ELSE job[q].price
                 /\ job[q].rows = {}
                 /\ \A r \in Procs : r # q => job'[r].ord # job[q].ord
      <3>1. job[q].ord \in Orders
        BY <2>1 DEF TypeInv, JobOK, OnOrder, Placing
      <3> QED
        BY <1>2, <1>3, <1>5, <2>1, <3>1, OrdersAssumption DEF EscrowInv, PlacingOwns
    <2> QED
      BY <1>3, <1>5, <2>1 DEF PlacingOwns
  <1>7. OthersOnRows'
    <2>1. ASSUME NEW q \in Procs, q # p, ~Placing(job[q])
          PROVE  /\ job[q].ord \in Orders => order'[job[q].ord].status # "none"
                 /\ \A i \in job[q].rows : order'[i].status # "none"
      <3>1. OnRow(job[q]) /\ job[q] \in Job
        BY <1>1, <2>1 DEF EscrowInv, OthersOnRows, TypeOK
      <3> QED
        BY <1>3, <1>4, <3>1 DEF OnRow, Job
    <2> QED
      BY <1>3, <1>5, <2>1, OrdersAssumption DEF OthersOnRows, OnRow
  <1>8. EscrowMatchesPrice'
    BY <1>2, <1>3, <1>4 DEF EscrowInv, EscrowMatchesPrice
  <1> QED
    BY <1>6, <1>7, <1>8 DEF EscrowInv

\* All the other steps work on rows that exist and keep their prices.
LEMMA StepEscrowInv ==
    ASSUME TypeInv, EscrowInv, NEW p \in Procs, Step(p)
    PROVE  EscrowInv'
  <1> DEFINE o == job[p].ord
  <1>1. TypeOK /\ JobOK /\ job[p] \in Job
    BY DEF TypeInv, TypeOK
  <1> DEFINE Kept == \A i \in Orders : /\ order'[i].status = "none" <=> order[i].status = "none"
                                       /\ order'[i].price = order[i].price
                                       /\ ledger'[i].escrow = ledger[i].escrow
  <1>2. ASSUME Finish(p), Kept PROVE EscrowInv'
    BY <1>2, FinishedQuiet, QuietStep DEF Finish
  <1>3. ASSUME ~Placing(job[p]), NEW pc \in Pc \ {"escrow", "insert"}, Goto(p, pc), Kept
        PROVE  EscrowInv'
    BY <1>3, GotoQuiet, QuietStep DEF Goto
  <1>4. ASSUME ~Placing(job[p]), o \in Orders PROVE order[o].status # "none"
    BY <1>4 DEF EscrowInv, OthersOnRows, OnRow
  <1>5. CASE MoveWrite(p)
    <2>1. /\ o \in Orders /\ job[p].to \in Status /\ ~Placing(job[p])
          /\ order[o] \in OrderRow
      BY <1>1, <1>5 DEF MoveWrite, At, JobOK, OnOrder, Placing, Job, TypeOK
    <2>2. /\ \A i \in Orders : i # o => order'[i] = order[i]
          /\ order'[o].status = job[p].to
          /\ order'[o].price = order[o].price
      BY <1>1, <1>5, <2>1 DEF MoveWrite, TypeOK, OrderRow
    <2>3. Kept
      BY <1>4, <1>5, <2>1, <2>2 DEF MoveWrite, Status, Terminal
    <2> QED
      BY <1>2, <1>5, <2>3 DEF MoveWrite
  <1>6. CASE Settle(p)
    <2>1. o \in Orders /\ ~Placing(job[p])
      BY <1>1, <1>6 DEF Settle, At, JobOK, OnOrder, Placing
    <2>2. Kept
      <3> DEFINE amount == SettleAmount(o)
      <3>1. \/ ledger' = [ledger EXCEPT ![o].paid = @ + amount]
            \/ ledger' = [ledger EXCEPT ![o].refunded = @ + amount]
            \/ ledger' = ledger
        BY <1>6 DEF Settle
      <3>2. \A i \in Orders : ledger'[i].escrow = ledger[i].escrow
        BY <1>1, <2>1, <3>1 DEF TypeOK, LedgerRow
      <3> QED
        BY <1>6, <3>2 DEF Settle
    <2>3. AfterSettle(job[p]) \in Pc \ {"escrow", "insert"}
      BY DEF AfterSettle, Pc
    <2> QED
      BY <1>2, <1>3, <1>6, <2>1, <2>2, <2>3 DEF Settle
  <1>7. CASE TerminalWrite(p)
    <2>1. o \in Orders /\ ~Placing(job[p]) /\ job[p].to \in Status
      BY <1>1, <1>7 DEF TerminalWrite, At, JobOK, OnOrder, Placing, Job
    <2>2. /\ \A i \in Orders : i # o => order'[i] = order[i]
          /\ order'[o].status = job[p].to
          /\ order'[o].price = order[o].price
      BY <1>1, <1>7, <2>1 DEF TerminalWrite, TypeOK, OrderRow
    <2>3. Kept
      BY <1>4, <1>7, <2>1, <2>2 DEF TerminalWrite, Status, Terminal
    <2> QED
      BY <1>2, <1>3, <1>7, <2>1, <2>3 DEF TerminalWrite, Pc
  <1>8. CASE Stats(p)
    BY <1>3, <1>8 DEF Stats, At, Placing, Pc
  <1>9. CASE Reputation(p)
    BY <1>2, <1>9 DEF Reputation
  <1>10. CASE ResolveTx(p)
    <2>1. o \in Orders /\ ~Placing(job[p]) /\ job[p].to \in Status
      BY <1>1, <1>10 DEF ResolveTx, At, JobOK, OnOrder, Placing, Job
    <2>2. CASE UNCHANGED order /\ Finish(p)
      BY <1>2, <1>10, <2>2 DEF ResolveTx
    <2>3. CASE order' = [order EXCEPT ![o].status = job[p].to] /\ Goto(p, "settle")
      <3>1. /\ \A i \in Orders : i # o => order'[i] = order[i]
            /\ order'[o].status = job[p].to
            /\ order'[o].price = order[o].price
        BY <1>1, <2>1, <2>3 DEF TypeOK, OrderRow
      <3>2. Kept
        BY <1>4, <1>10, <2>1, <3>1 DEF ResolveTx, Status, Terminal
      <3> QED
        BY <1>3, <2>1, <2>3, <3>2 DEF Pc
    <2> QED
      BY <1>10, <2>2, <2>3 DEF ResolveTx
  <1>11. ASSUME NEW r \in Orders, SweepUpdate(p, r)
         PROVE  EscrowInv'
    <2> DEFINE j == [job[p] EXCEPT !.ord = r, !.rows = @ \ {r}, !.pc = "settle"]
    <2>1. /\ job[p].pc = "next" /\ r \in job[p].rows /\ job' = [job EXCEPT ![p] = j]
          /\ ledger' = ledger
      BY <1>1, <1>11 DEF SweepUpdate, At, TypeOK, Job
    <2>2. j \in Job /\ j.pc = "settle" /\ j.ord = r /\ j.rows = job[p].rows \ {r}
      BY <1>1 DEF Job, Pc
    <2>3. OnRow(job[p]) /\ job[p].to \in Status
      BY <1>1, <2>1 DEF EscrowInv, OthersOnRows, Placing, Job
    <2>4. ~Placing(j) /\ OnRow(j)
      BY <2>1, <2>2, <2>3 DEF OnRow, Placing
    <2>5. /\ \A i \in Orders : i # r => order'[i] = order[i]
          /\ order'[r].status \in {order[r].status, job[p].to}
          /\ order'[r].price = order[r].price
      BY <1>1, <1>11 DEF SweepUpdate, TypeOK, OrderRow
    <2>6. Kept
      BY <2>1, <2>3, <2>5 DEF OnRow, Status, Terminal
    <2> QED
      BY <2>1, <2>2, <2>4, <2>6, QuietStep
  <1>12. CASE GigCount(p)
    BY <1>2, <1>3, <1>12 DEF GigCount, At, Placing, Pc
  <1>13. CASE GigWrite(p)
    BY <1>2, <1>13 DEF GigWrite
  <1>14. CASE UploadWrite(p)
    BY <1>2, <1>14 DEF UploadWrite
  <1> QED
    BY PlaceEscrowInv, PlaceInsertEscrowInv, <1>5, <1>6, <1>7, <1>8, <1>9, <1>10, <1>11,
       <1>12, <1>13, <1>14 DEF Step

LEMMA FaultEscrowInv ==
    ASSUME TypeInv, EscrowInv, \/ \E p \in Procs : Fail(p)
                               \/ Crash
    PROVE  EscrowInv'
  <1>1. TypeOK
    BY DEF TypeInv
  <1>2. ASSUME NEW p \in Procs, Fail(p)
        PROVE  EscrowInv'
    <2>1. CASE Finish(p)
      BY <1>2, <2>1, FinishedQuiet, QuietStep DEF Finish, Fail
    <2>2. ASSUME At(p, "next"), NEW r \in job[p].rows,
                 job' = [job EXCEPT ![p] = IF job[p].rows = {r} THEN Idle
                                           ELSE [job[p] EXCEPT !.rows = @ \ {r}]]
          PROVE  EscrowInv'
      <3> DEFINE j == IF job[p].rows = {r} THEN Idle
                      ELSE [job[p] EXCEPT !.rows = @ \ {r}]
      <3>1. job[p] \in Job /\ OnRow(job[p])
        BY <1>1, <2>2 DEF TypeOK, EscrowInv, OthersOnRows, At, Placing
      <3>2. /\ j \in Job
            /\ \/ j = Idle
               \/ j.pc = job[p].pc /\ j.ord = job[p].ord /\ j.rows = job[p].rows \ {r}
        BY <3>1, IdleType DEF Job
      <3>3. ~Placing(j) /\ OnRow(j)
        BY <2>2, <3>1, <3>2, OrdersAssumption DEF At, Placing, OnRow, Idle
      <3> QED
        BY <1>2, <2>2, <3>2, <3>3, QuietStep DEF Fail
    <2> QED
      BY <1>2, <2>1, <2>2 DEF Fail
  <1>3. ASSUME Crash
        PROVE  EscrowInv'
    <2>1. \A q \in Procs : job'[q].pc = "idle" /\ job'[q].ord = NoOrder /\ job'[q].rows = {}
      BY <1>3 DEF Crash, Idle
    <2>2. PlacingOwns' /\ OthersOnRows'
      BY <2>1, OrdersAssumption DEF PlacingOwns, OthersOnRows, OnRow, Placing
    <2> QED
      BY <1>3, <2>2 DEF Crash, EscrowInv, EscrowMatchesPrice
  <1> QED
    BY <1>2, <1>3

LEMMA InitEscrowInv == Init => EscrowInv
  <1> SUFFICES ASSUME Init PROVE EscrowInv
    OBVIOUS
  <1>1. \A p \in Procs : job[p].pc = "idle" /\ job[p].ord = NoOrder /\ job[p].rows = {}
    BY DEF Init, Idle
  <1>2. \A o \in Orders : order[o].status = "none"
    BY DEF Init, Absent
  <1> QED
    BY <1>1, <1>2, OrdersAssumption
    DEF EscrowInv, PlacingOwns, OthersOnRows, OnRow, Placing, EscrowMatchesPrice

LEMMA NextEscrowInv == TypeInv /\ EscrowInv /\ [Next]_vars => EscrowInv'
  <1> SUFFICES ASSUME TypeInv, EscrowInv, [Next]_vars PROVE EscrowInv'
    OBVIOUS
  <1>1. CASE Next
    BY <1>1, RequestEscrowInv, TickEscrowInv, StepEscrowInv, FaultEscrowInv DEF Next
  <1>2. CASE UNCHANGED vars
    BY <1>2 DEF vars, EscrowInv, PlacingOwns, OthersOnRows, OnRow, EscrowMatchesPrice
  <1> QED
    BY <1>1, <1>2

\* The price stored with an order is the price escrowed for it, for every
\* interleaving with PATCH /v1/gigs/:id and every fault (gigs.ts, the price
\* snapshot taken before escrowDeductForOrder).
THEOREM PriceIsEscrowed == Spec => []EscrowMatchesPrice
  <1>1. EscrowInv => EscrowMatchesPrice
    BY DEF EscrowInv
  <1> QED
    BY <1>1, InitTypeInv, NextTypeInv, InitEscrowInv, NextEscrowInv, PTL DEF Spec

-----------------------------------------------------------------------------
(* What is settled has the sign of what was escrowed.                      *)

Signed == \A o \in Orders :
    /\ ledger[o].escrow >= 0 => ledger[o].paid >= 0 /\ ledger[o].refunded >= 0
    /\ ledger[o].escrow <= 0 => ledger[o].paid <= 0 /\ ledger[o].refunded <= 0

LEMMA InitSigned == Init => Signed
  <1> SUFFICES ASSUME Init, NEW o \in Orders
               PROVE  /\ ledger[o].escrow >= 0 => ledger[o].paid >= 0 /\ ledger[o].refunded >= 0
                      /\ ledger[o].escrow <= 0 => ledger[o].paid <= 0 /\ ledger[o].refunded <= 0
    BY DEF Signed
  <1>1. ledger[o] = [escrow |-> 0, paid |-> 0, refunded |-> 0]
    BY DEF Init
  <1> QED
    BY <1>1

\* The price of an order, which is its escrow, is all a settlement moves.
LEMMA SettleMoves ==
    ASSUME TypeInv, EscrowInv, NEW p \in Procs, Settle(p)
    PROVE  /\ job[p].ord \in Orders
           /\ order[job[p].ord].price = ledger[job[p].ord].escrow
           /\ \A i \in Orders : i # job[p].ord => ledger'[i] = ledger[i]
           /\ LET l == ledger[job[p].ord]
                  m == ledger'[job[p].ord]
              IN /\ l \in LedgerRow
                 /\ m.escrow = l.escrow
                 /\ \/ m = l /\ l.escrow <= 0 /\ ~Moves(p)
                    \/ m.paid = l.paid + l.escrow /\ m.refunded = l.refunded /\ Moves(p)
                         /\ job[p].to = "completed"
                    \/ m.refunded = l.refunded + l.escrow /\ m.paid = l.paid /\ Moves(p)
                         /\ job[p].to = "cancelled"
  <1> DEFINE o == job[p].ord
  <1>1. TypeOK /\ o \in Orders /\ ~Placing(job[p])
    BY DEF TypeInv, JobOK, OnOrder, Settle, At, Placing
  <1>2. order[o].price = ledger[o].escrow
    BY <1>1 DEF EscrowInv, EscrowMatchesPrice, OthersOnRows, OnRow
  <1>3. ledger[o] \in LedgerRow
    BY <1>1 DEF TypeOK
  <1>4. \/ ledger' = ledger /\ ~Moves(p) /\ ledger[o].escrow <= 0
        \/ ledger' = [ledger EXCEPT ![o].paid = @ + ledger[o].escrow] /\ Moves(p)
             /\ job[p].to = "completed"
        \/ ledger' = [ledger EXCEPT ![o].refunded = @ + ledger[o].escrow] /\ Moves(p)
             /\ job[p].to = "cancelled"
    BY <1>2, <1>3 DEF Settle, SettleAmount, Moves, LedgerRow
  <1> QED
    BY <1>1, <1>2, <1>3, <1>4 DEF TypeOK, LedgerRow

LEMMA NextSigned == TypeInv /\ EscrowInv /\ Signed /\ [Next]_vars => Signed'
  <1> SUFFICES ASSUME TypeInv, EscrowInv, Signed, [Next]_vars PROVE Signed'
    OBVIOUS
  <1>1. CASE ledger' = ledger
    BY <1>1 DEF Signed
  <1>2. ASSUME NEW p \in Procs, PlaceEscrow(p) PROVE Signed'
    <2> DEFINE o == job[p].ord
    <2>1. TypeOK /\ job[p] \in Job /\ job[p].pc = "escrow" /\ o \in Orders
      BY <1>2 DEF TypeInv, TypeOK, PlaceEscrow, At, JobOK, OnOrder
    <2>2. ledger[o].escrow = 0 /\ ledger[o] \in LedgerRow
      BY <2>1 DEF EscrowInv, PlacingOwns, Placing, TypeOK
    <2>3. ledger[o].paid = 0 /\ ledger[o].refunded = 0
      BY <2>1, <2>2 DEF Signed, LedgerRow
    <2>4. ledger' = ledger \/ ledger' = [ledger EXCEPT ![o].escrow = @ + job[p].price]
      BY <1>2 DEF PlaceEscrow
    <2>5. \A i \in Orders : \/ ledger'[i] = ledger[i]
                            \/ ledger'[i].paid = 0 /\ ledger'[i].refunded = 0
      BY <2>1, <2>2, <2>3, <2>4 DEF TypeOK, LedgerRow
    <2> QED
      BY <2>5 DEF Signed
  <1>3. ASSUME NEW p \in Procs, Settle(p) PROVE Signed'
    <2> DEFINE o == job[p].ord
    <2>1. /\ ledger[o].escrow >= 0 => ledger[o].paid >= 0 /\ ledger[o].refunded >= 0
          /\ ledger[o].escrow <= 0 => ledger[o].paid <= 0 /\ ledger[o].refunded <= 0
      BY <1>3, SettleMoves DEF Signed
    <2>2. /\ ledger'[o].escrow >= 0 => ledger'[o].paid >= 0 /\ ledger'[o].refunded >= 0
          /\ ledger'[o].escrow <= 0 => ledger'[o].paid <= 0 /\ ledger'[o].refunded <= 0
      BY <1>3, <2>1, SettleMoves DEF LedgerRow
    <2> QED
      BY <1>3, <2>2, SettleMoves DEF Signed
  <1> QED
    BY <1>1, <1>2, <1>3
    DEF Next, vars, Request, PlaceRead, MoveRead, CompleteRead, CancelRead, ResolveRead,
        UploadRead, GigRead, Tick, SweepSelect, Fail, Crash, Step, PlaceInsert, MoveWrite,
        TerminalWrite, Stats, Reputation, ResolveTx, UploadWrite, SweepUpdate, GigCount,
        GigWrite

-----------------------------------------------------------------------------
(* Nothing lost: an escrow without an order is owed an insert, an ended    *)
(* order without a settlement is owed one, both by a handler in flight.    *)

\* An escrow that is not positive has nothing to give back.
Paid(l) == l.escrow <= 0 \/ l.paid + l.refunded >= l.escrow

\* complete and cancel, and nothing else, write a terminal state at "status",
\* and they do so after the money has moved.
WritesEnd(j) == j.pc = "status" /\ j.op \in {"complete", "cancel"}

\* accept, deliver, request-revision and dispute never end an order.
MovesOn(j) == j.op = "move" => j.to \notin Terminal

InsertOwed ==
    \A o \in Orders : order[o].status = "none" =>
        ledger[o].escrow = 0 \/ \E p \in Procs : job[p].pc = "insert" /\ job[p].ord = o

SettlementOwed ==
    \A o \in Orders : order[o].status \in Terminal =>
        Paid(ledger[o]) \/ \E p \in Procs : job[p].pc = "settle" /\ job[p].ord = o

OwedInv ==
    faults = 0 =>
        /\ InsertOwed
        /\ SettlementOwed
        /\ \A p \in Procs : (WritesEnd(job[p]) => Paid(ledger[job[p].ord])) /\ MovesOn(job[p])

\* One handler becomes j.  What it owed it has done, what it leaves open it
\* owes, and nobody else's order becomes worse off.
LEMMA OwedStep ==
    ASSUME TypeInv, EscrowInv, OwedInv, faults = 0, NEW p \in Procs, NEW j \in Job,
           job' = [job EXCEPT ![p] = j],
           \A o \in Orders : order'[o].status = "none" =>
               /\ order[o].status = "none"
               /\ ledger'[o].escrow = ledger[o].escrow \/ (j.pc = "insert" /\ j.ord = o),
           \A o \in Orders : order'[o].status \in Terminal =>
               \/ order[o].status \in Terminal
               \/ order[o].status # "none" /\ Paid(ledger[o])
               \/ j.pc = "settle" /\ j.ord = o,
           \A o \in Orders : order[o].status # "none" /\ Paid(ledger[o]) => Paid(ledger'[o]),
           job[p].pc = "insert" => order'[job[p].ord].status # "none",
           job[p].pc = "settle" => Paid(ledger'[job[p].ord]),
           WritesEnd(j) => Paid(ledger'[j.ord]),
           MovesOn(j)
    PROVE  OwedInv'
  <1>1. \A q \in Procs : job[q] \in Job /\ job'[q] = IF q = p THEN j ELSE job[q]
    BY DEF TypeInv, TypeOK
  <1>2. InsertOwed'
    <2> SUFFICES ASSUME NEW o \in Orders, order'[o].status = "none", ledger'[o].escrow # 0
                 PROVE  \E q \in Procs : job'[q].pc = "insert" /\ job'[q].ord = o
      BY DEF InsertOwed
    <2>1. CASE j.pc = "insert" /\ j.ord = o
      BY <1>1, <2>1
    <2>2. CASE ledger'[o].escrow = ledger[o].escrow
      <3>1. PICK q \in Procs : job[q].pc = "insert" /\ job[q].ord = o
        BY <2>2 DEF OwedInv, InsertOwed
      <3> QED
        BY <1>1, <3>1
    <2> QED
      BY <2>1, <2>2
  <1>3. SettlementOwed'
    <2> SUFFICES ASSUME NEW o \in Orders, order'[o].status \in Terminal, ~Paid(ledger'[o])
                 PROVE  \E q \in Procs : job'[q].pc = "settle" /\ job'[q].ord = o
      BY DEF SettlementOwed
    <2>1. CASE j.pc = "settle" /\ j.ord = o
      BY <1>1, <2>1
    <2>2. CASE order[o].status \in Terminal
      <3>1. ~Paid(ledger[o])
        BY <2>2 DEF Terminal
      <3>2. PICK q \in Procs : job[q].pc = "settle" /\ job[q].ord = o
        BY <2>2, <3>1 DEF OwedInv, SettlementOwed
      <3> QED
        BY <1>1, <3>2
    <2> QED
      BY <2>1, <2>2
  <1>4. ASSUME NEW q \in Procs
        PROVE  (WritesEnd(job'[q]) => Paid(ledger'[job'[q].ord])) /\ MovesOn(job'[q])
    <2>1. CASE q = p
      BY <1>1, <2>1
    <2>2. CASE q # p
      <3>1. job'[q] = job[q] /\ MovesOn(job[q])
        BY <1>1, <2>2 DEF OwedInv
      <3>2. ASSUME WritesEnd(job[q]) PROVE Paid(ledger'[job[q].ord])
        <4>1. Paid(ledger[job[q].ord])
          BY <3>2 DEF OwedInv
        <4>2. job[q].ord \in Orders /\ ~Placing(job[q])
          BY <3>2 DEF WritesEnd, Placing, TypeInv, JobOK, OnOrder
        <4>3. order[job[q].ord].status # "none"
          BY <4>2 DEF EscrowInv, OthersOnRows, OnRow
        <4> QED
          BY <4>1, <4>2, <4>3
      <3> QED
        BY <3>1, <3>2
    <2> QED
      BY <2>1, <2>2
  <1> QED
    BY <1>2, <1>3, <1>4 DEF OwedInv, InsertOwed, SettlementOwed, WritesEnd, MovesOn

\* A handler that is done, and one that has started, owe no money.
LEMMA FinishedOwes ==
    ASSUME TypeInv, OwedInv, faults = 0, NEW p \in Procs
    PROVE  /\ Finished(p) \in Job
           /\ ~WritesEnd(Finished(p))
           /\ MovesOn(Finished(p))
  <1>1. job[p] \in Job /\ MovesOn(job[p])
    BY DEF TypeInv, TypeOK, OwedInv
  <1>2. Finished(p) \in Job /\ Finished(p).pc \in {"idle", "next"}
    BY FinishedType DEF TypeInv
  <1>3. CASE job[p].rows = {}
    BY <1>2, <1>3 DEF Finished, Idle, MovesOn, WritesEnd
  <1>4. CASE job[p].rows # {}
    BY <1>1, <1>2, <1>4 DEF Finished, MovesOn, WritesEnd, Job
  <1> QED
    BY <1>3, <1>4

LEMMA StartOwes ==
    ASSUME TypeInv, EscrowInv, OwedInv, faults = 0, NEW p \in Procs, NEW j \in Job,
           Start(p, j), ~WritesEnd(j), MovesOn(j), UNCHANGED <<order, ledger>>
    PROVE  OwedInv'
  <1>1. job[p].pc = "idle" /\ job' = [job EXCEPT ![p] = j]
    BY DEF Start, Idle
  <1>2. \A o \in Orders : order'[o].status = "none" =>
               /\ order[o].status = "none"
               /\ ledger'[o].escrow = ledger[o].escrow \/ (j.pc = "insert" /\ j.ord = o)
    OBVIOUS
  <1> QED
    BY <1>1, <1>2, OwedStep

LEMMA RequestOwed ==
    ASSUME TypeInv, EscrowInv, OwedInv, faults = 0, NEW p \in Http, Request(p)
    PROVE  OwedInv'
  <1>0. p \in Procs /\ TypeOK /\ Idle \in Job
    BY IdleType DEF Procs, TypeInv
  <1>1. ASSUME NEW b \in Buyers, NEW o \in Orders, PlaceRead(p, b, o)
        PROVE  OwedInv'
    <2> DEFINE j == [Idle EXCEPT !.op = "place", !.pc = "escrow", !.ord = o,
                                 !.by = b, !.price = gig.price]
    <2>1. gig.price \in Int
      BY <1>0, BoundsAssumption DEF TypeOK
    <2>2. j \in Job /\ ~WritesEnd(j) /\ MovesOn(j)
      BY <1>0, <2>1 DEF Job, Op, Pc, Agents, Idle, WritesEnd, MovesOn
    <2> QED
      BY <1>0, <1>1, <2>2, StartOwes DEF PlaceRead
  <1>2. ASSUME NEW o \in Orders, NEW to \in Status, MoveRead(p, o, to)
        PROVE  OwedInv'
    <2> DEFINE j == [Idle EXCEPT !.op = "move", !.pc = "status", !.ord = o,
                                 !.to = to, !.revisions = order[o].revisions]
    <2>1. j \in Job /\ j.op = "move" /\ j.to = to
      BY <1>0 DEF Job, Op, Pc, Idle, TypeOK, OrderRow
    <2>2. ~WritesEnd(j) /\ MovesOn(j)
      BY <1>2, <2>1 DEF MoveRead, Terminal, WritesEnd, MovesOn
    <2> QED
      BY <1>0, <1>2, <2>1, <2>2, StartOwes DEF MoveRead
  <1>3. ASSUME NEW o \in Orders, CompleteRead(p, o)
        PROVE  OwedInv'
    <2> DEFINE j == [Idle EXCEPT !.op = "complete", !.pc = "settle", !.ord = o,
                                 !.to = "completed"]
    <2>1. j \in Job /\ ~WritesEnd(j) /\ MovesOn(j)
      BY <1>0 DEF Job, Op, Pc, Idle, Status, Terminal, WritesEnd, MovesOn
    <2> QED
      BY <1>0, <1>3, <2>1, StartOwes DEF CompleteRead
  <1>4. ASSUME NEW o \in Orders, NEW who \in Buyers \cup {Seller}, CancelRead(p, o, who)
        PROVE  OwedInv'
    <2> DEFINE j == [Idle EXCEPT !.op = "cancel", !.pc = "settle", !.ord = o,
                                 !.to = "cancelled"]
    <2>1. j \in Job /\ ~WritesEnd(j) /\ MovesOn(j)
      BY <1>0 DEF Job, Op, Pc, Idle, Status, Terminal, WritesEnd, MovesOn
    <2> QED
      BY <1>0, <1>4, <2>1, StartOwes DEF CancelRead
  <1>5. ASSUME NEW o \in Orders, NEW outcome \in Terminal, ResolveRead(p, o, outcome)
        PROVE  OwedInv'
    <2> DEFINE j == [Idle EXCEPT !.op = "resolve", !.pc = "tx", !.ord = o, !.to = outcome]
    <2>1. j \in Job /\ ~WritesEnd(j) /\ MovesOn(j)
      BY <1>0 DEF Job, Op, Pc, Idle, Status, Terminal, WritesEnd, MovesOn
    <2> QED
      BY <1>0, <1>5, <2>1, StartOwes DEF ResolveRead
  <1>6. ASSUME NEW op \in {"editGig", "closeGig"}, GigRead(p, op)
        PROVE  OwedInv'
    <2> DEFINE j == [Idle EXCEPT !.op = op, !.pc = "count"]
    <2>1. j \in Job /\ ~WritesEnd(j) /\ MovesOn(j)
      BY <1>0 DEF Job, Op, Pc, Idle, WritesEnd, MovesOn
    <2> QED
      BY <1>0, <1>6, <2>1, StartOwes DEF GigRead
  <1>7. ASSUME NEW o \in Orders, UploadRead(p, o)
        PROVE  OwedInv'
    <2> DEFINE j == [Idle EXCEPT !.op = "upload", !.pc = "file", !.ord = o]
    <2>1. j \in Job /\ ~WritesEnd(j) /\ MovesOn(j)
      BY <1>0 DEF Job, Op, Pc, Idle, WritesEnd, MovesOn
    <2> QED
      BY <1>0, <1>7, <2>1, StartOwes DEF UploadRead
  <1> QED
    BY <1>1, <1>2, <1>3, <1>4, <1>5, <1>6, <1>7 DEF Request

LEMMA TickOwed ==
    ASSUME TypeInv, EscrowInv, OwedInv, faults = 0, NEW p \in Cron, Tick(p)
    PROVE  OwedInv'
  <1>1. PICK from \in DOMAIN SweepOutcome, rows \in SUBSET Orders : SweepSelect(p, from, rows)
    BY DEF Tick
  <1> DEFINE j == [Idle EXCEPT !.op = "sweep", !.pc = "next", !.from = from,
                               !.to = SweepOutcome[from], !.rows = rows]
  <1>2. j \in Job /\ ~WritesEnd(j) /\ MovesOn(j)
    BY IdleType, SweepOutcomeType
    DEF Job, Op, Pc, Idle, Status, Terminal, WritesEnd, MovesOn
  <1> QED
    BY <1>1, <1>2, StartOwes DEF SweepSelect, Procs

\* Every statement: the escrow leaves its handler at the insert, a terminal
\* state is written after paying or by a handler that pays next, and the
\* payment is the price of the order, which is its escrow.
LEMMA StepOwed ==
    ASSUME TypeInv, EscrowInv, Signed, OwedInv, faults = 0, NEW p \in Procs, Step(p)
    PROVE  OwedInv'
  <1> DEFINE o == job[p].ord
             Moved(pc) == [job[p] EXCEPT !.pc = pc]
  <1>1. TypeOK /\ JobOK /\ job[p] \in Job /\ MovesOn(job[p])
    BY DEF TypeInv, TypeOK, OwedInv
  <1>2. ASSUME NEW pc \in Pc
        PROVE  /\ Moved(pc) \in Job /\ MovesOn(Moved(pc))
               /\ Moved(pc).pc = pc /\ Moved(pc).ord = o /\ Moved(pc).op = job[p].op
    BY <1>1 DEF Job, MovesOn
  <1> DEFINE SameRows == UNCHANGED <<order, ledger>>
  <1>4. ASSUME Finish(p), SameRows, job[p].pc \notin {"insert", "settle"} PROVE OwedInv'
    BY <1>4, FinishedOwes, OwedStep DEF Finish
  <1>5. ASSUME NEW pc \in Pc \ {"status"}, Goto(p, pc), SameRows,
               job[p].pc \notin {"insert", "settle"}
        PROVE  OwedInv'
    <2>1. ~WritesEnd(Moved(pc))
      BY <1>2 DEF WritesEnd
    <2> HIDE DEF Moved
    <2>2. job' = [job EXCEPT ![p] = Moved(pc)]
      BY <1>1, <1>5 DEF Goto, TypeOK, Moved
    <2> QED
      BY <1>2, <1>5, <2>1, <2>2, OwedStep
  <1>6. ASSUME o \in Orders, ~Placing(job[p]) PROVE order[o].status # "none"
    BY <1>6 DEF EscrowInv, OthersOnRows, OnRow
  <1>7. CASE PlaceEscrow(p)
    <2>1. o \in Orders /\ job[p].pc = "escrow"
      BY <1>1, <1>7 DEF PlaceEscrow, At, JobOK, OnOrder
    <2>2. CASE Finish(p) /\ ledger' = ledger
      BY <1>4, <1>7, <2>1, <2>2 DEF PlaceEscrow
    <2>3. CASE Goto(p, "insert") /\ ledger' = [ledger EXCEPT ![o].escrow = @ + job[p].price]
      <3> DEFINE j == Moved("insert")
      <3>1. job' = [job EXCEPT ![p] = j] /\ order' = order
        BY <1>1, <1>7, <2>3 DEF PlaceEscrow, Goto, TypeOK
      <3>2. j \in Job /\ MovesOn(j) /\ j.pc = "insert" /\ j.ord = o
        BY <1>2 DEF Pc
      <3>3. \A i \in Orders : i # o => ledger'[i] = ledger[i]
        BY <1>1, <2>1, <2>3 DEF TypeOK
      <3>4. order[o].status = "none"
        BY <2>1 DEF EscrowInv, PlacingOwns, Placing
      <3>5. ~WritesEnd(j)
        BY <3>2 DEF WritesEnd
      <3> HIDE DEF j
      <3>6. \A i \in Orders : order[i].status # "none" /\ Paid(ledger[i]) => Paid(ledger'[i])
        BY <3>3, <3>4 DEF Paid
      <3> QED
        BY <2>1, <3>1, <3>2, <3>3, <3>4, <3>5, <3>6, OwedStep
    <2> QED
      BY <1>7, <2>2, <2>3 DEF PlaceEscrow
  <1>8. CASE PlaceInsert(p)
    <2>1. o \in Orders /\ ledger' = ledger /\ job[p].pc = "insert"
      BY <1>1, <1>8 DEF PlaceInsert, At, JobOK, OnOrder
    <2>2. \A i \in Orders : order'[i] = IF i = o
              THEN [status |-> "pending", buyer |-> job[p].by,
                    price |-> job[p].price, revisions |-> 0]
              ELSE order[i]
      BY <1>1, <1>8, <2>1 DEF PlaceInsert, PriceToStore, TypeOK
    <2>3. \A i \in Orders : /\ order'[i].status = "none" => order[i].status = "none"
                            /\ order'[i].status \in Terminal => order[i].status \in Terminal
      BY <2>2 DEF Terminal
    <2>4. order'[o].status # "none"
      BY <2>1, <2>2
    <2>5. job' = [job EXCEPT ![p] = Finished(p)]
      BY <1>8 DEF PlaceInsert, Finish
    <2> QED
      BY <2>1, <2>3, <2>4, <2>5, FinishedOwes, OwedStep
  <1>9. CASE MoveWrite(p)
    <2>1. /\ o \in Orders /\ job[p].to \in Status \ Terminal /\ ledger' = ledger
          /\ job[p].pc = "status"
      BY <1>1, <1>9 DEF MoveWrite, At, JobOK, OnOrder, Job, MovesOn
    <2>2. /\ \A i \in Orders : i # o => order'[i] = order[i]
          /\ order'[o].status = job[p].to
      BY <1>1, <1>9, <2>1 DEF MoveWrite, TypeOK, OrderRow
    <2>3. \A i \in Orders : /\ order'[i].status = "none" => order[i].status = "none"
                            /\ order'[i].status \in Terminal => order[i].status \in Terminal
      BY <2>1, <2>2 DEF Status, Terminal
    <2>4. job' = [job EXCEPT ![p] = Finished(p)]
      BY <1>9 DEF MoveWrite, Finish
    <2> QED
      BY <2>1, <2>3, <2>4, FinishedOwes, OwedStep
  <1>10. CASE Settle(p)
    <2>1. o \in Orders /\ job[p].pc = "settle" /\ order' = order
      BY <1>1, <1>10 DEF Settle, At, JobOK, OnOrder
    <2>5. /\ \A i \in Orders : i # o => ledger'[i] = ledger[i]
          /\ ledger[o] \in LedgerRow
          /\ ledger'[o].escrow = ledger[o].escrow
          /\ \/ ledger'[o] = ledger[o] /\ ledger[o].escrow <= 0
             \/ ledger'[o].paid = ledger[o].paid + ledger[o].escrow
                /\ ledger'[o].refunded = ledger[o].refunded
             \/ ledger'[o].refunded = ledger[o].refunded + ledger[o].escrow
                /\ ledger'[o].paid = ledger[o].paid
      BY <1>10, SettleMoves
    <2>6. Paid(ledger'[o])
      <3>1. ledger[o].escrow >= 0 => ledger[o].paid >= 0 /\ ledger[o].refunded >= 0
        BY <2>1 DEF Signed
      <3> QED
        BY <2>5, <3>1 DEF Paid, LedgerRow
    <2>7. \A i \in Orders : /\ Paid(ledger[i]) => Paid(ledger'[i])
                            /\ ledger'[i].escrow = ledger[i].escrow
      BY <2>5, <2>6 DEF Paid
    <2>8. CASE Finish(p)
      BY <2>1, <2>6, <2>7, <2>8, FinishedOwes, OwedStep DEF Finish
    <2>9. CASE Goto(p, AfterSettle(job[p]))
      <3> DEFINE pc == AfterSettle(job[p])
                 j == Moved(pc)
      <3>1. pc \in Pc
        BY AfterSettleType, <1>1
      <3>2. job' = [job EXCEPT ![p] = j]
        BY <1>1, <2>9 DEF Goto, TypeOK
      <3>3. j \in Job /\ MovesOn(j) /\ j.ord = o
        BY <1>2, <3>1
      <3> HIDE DEF j
      <3> QED
        BY <2>1, <2>6, <2>7, <3>2, <3>3, OwedStep
    <2> QED
      BY <1>10, <2>8, <2>9 DEF Settle
  <1>11. CASE TerminalWrite(p)
    <2>1. o \in Orders /\ job[p].to \in Status /\ ledger' = ledger /\ job[p].pc = "status"
      BY <1>1, <1>11 DEF TerminalWrite, At, JobOK, OnOrder, Job
    <2>2. Paid(ledger[o]) /\ order[o].status # "none"
      BY <1>6, <1>11, <2>1 DEF TerminalWrite, OwedInv, WritesEnd, Placing
    <2>3. /\ \A i \in Orders : i # o => order'[i] = order[i]
          /\ order'[o].status = job[p].to
      BY <1>1, <1>11, <2>1 DEF TerminalWrite, TypeOK, OrderRow
    <2>4. \A i \in Orders : /\ order'[i].status = "none" => order[i].status = "none"
                            /\ order'[i].status \in Terminal
                                  => \/ order[i].status \in Terminal
                                     \/ order[i].status # "none" /\ Paid(ledger[i])
      BY <2>1, <2>2, <2>3 DEF Status, Terminal
    <2>5. CASE Finish(p)
      BY <2>1, <2>4, <2>5, FinishedOwes, OwedStep DEF Finish
    <2>6. CASE Goto(p, "stats")
      <3> DEFINE j == Moved("stats")
      <3>1. job' = [job EXCEPT ![p] = j]
        BY <1>1, <2>6 DEF Goto, TypeOK
      <3>2. j \in Job /\ MovesOn(j) /\ j.pc = "stats"
        BY <1>2 DEF Pc
      <3>3. ~WritesEnd(j)
        BY <3>2 DEF WritesEnd
      <3> HIDE DEF j
      <3> QED
        BY <2>1, <2>4, <3>1, <3>2, <3>3, OwedStep
    <2> QED
      BY <1>11, <2>5, <2>6 DEF TerminalWrite
  <1>12. CASE Stats(p)
    BY <1>5, <1>12 DEF Stats, At, Pc
  <1>13. CASE Reputation(p)
    BY <1>4, <1>13 DEF Reputation, At
  <1>14. CASE ResolveTx(p)
    <2>1. o \in Orders /\ job[p].to \in Status /\ ledger' = ledger /\ job[p].pc = "tx"
      BY <1>1, <1>14 DEF ResolveTx, At, JobOK, OnOrder, Job
    <2>2. CASE UNCHANGED order /\ Finish(p)
      BY <1>4, <2>1, <2>2
    <2>3. CASE order' = [order EXCEPT ![o].status = job[p].to] /\ Goto(p, "settle")
      <3> DEFINE j == Moved("settle")
      <3>1. job' = [job EXCEPT ![p] = j]
        BY <1>1, <2>3 DEF Goto, TypeOK
      <3>2. j \in Job /\ MovesOn(j) /\ j.pc = "settle" /\ j.ord = o
        BY <1>2 DEF Pc
      <3>3. /\ \A i \in Orders : i # o => order'[i] = order[i]
            /\ order'[o].status = job[p].to
        BY <1>1, <2>1, <2>3 DEF TypeOK, OrderRow
      <3>4. \A i \in Orders : /\ order'[i].status = "none" => order[i].status = "none"
                              /\ order'[i].status \in Terminal
                                    => order[i].status \in Terminal \/ j.ord = i
        BY <2>1, <3>2, <3>3 DEF Status, Terminal
      <3>5. ~WritesEnd(j)
        BY <3>2 DEF WritesEnd
      <3> HIDE DEF j
      <3> QED
        BY <2>1, <3>1, <3>2, <3>4, <3>5, OwedStep
    <2> QED
      BY <1>14, <2>2, <2>3 DEF ResolveTx
  <1>15. ASSUME NEW r \in Orders, SweepUpdate(p, r)
         PROVE  OwedInv'
    <2> DEFINE j == [job[p] EXCEPT !.ord = r, !.rows = @ \ {r}, !.pc = "settle"]
    <2>1. /\ job' = [job EXCEPT ![p] = j] /\ ledger' = ledger
          /\ job[p].pc = "next" /\ job[p].to \in Status
      BY <1>1, <1>15 DEF SweepUpdate, At, TypeOK, Job
    <2>2. /\ j \in Job /\ j.pc = "settle" /\ j.ord = r
          /\ j.op = job[p].op /\ j.to = job[p].to
      BY <1>1 DEF Job, Pc
    <2>3. ~WritesEnd(j) /\ MovesOn(j)
      BY <1>1, <2>2 DEF WritesEnd, MovesOn
    <2> HIDE DEF j
    <2>4. /\ \A i \in Orders : i # r => order'[i] = order[i]
          /\ order'[r].status \in {order[r].status, job[p].to}
      BY <1>1, <1>15 DEF SweepUpdate, TypeOK, OrderRow
    <2>5. \A i \in Orders : /\ order'[i].status = "none" => order[i].status = "none"
                            /\ order'[i].status \in Terminal
                                  => order[i].status \in Terminal \/ j.ord = i
      BY <2>1, <2>2, <2>4 DEF Status, Terminal
    <2> QED
      BY <2>1, <2>2, <2>3, <2>5, OwedStep
  <1>16. CASE GigCount(p)
    BY <1>4, <1>5, <1>16 DEF GigCount, At, Pc
  <1>17. CASE GigWrite(p)
    BY <1>4, <1>17 DEF GigWrite, At
  <1>18. CASE UploadWrite(p)
    BY <1>4, <1>18 DEF UploadWrite, At
  <1> QED
    BY <1>7, <1>8, <1>9, <1>10, <1>11, <1>12, <1>13, <1>14, <1>15, <1>16, <1>17, <1>18 DEF Step

\* As long as nothing fails, and however handlers interleave: no order of a
\* positive price ends with its escrow still held, and no escrow, of any price,
\* is taken without an order (gigs.ts pays before it writes, the sweeps and
\* resolve-dispute write before they pay, and neither forgets the other half;
\* but a sweep pays nothing for a negative price).
THEOREM NothingIsLost == Spec => []NothingLost
  <1>1. Init => OwedInv
    <2> SUFFICES ASSUME Init PROVE OwedInv
      OBVIOUS
    <2>1. \A o \in Orders : order[o].status = "none" /\ ledger[o].escrow = 0
      BY DEF Init, Absent
    <2>2. \A p \in Procs : ~WritesEnd(job[p]) /\ MovesOn(job[p])
      BY DEF Init, Idle, WritesEnd, MovesOn
    <2> QED
      BY <2>1, <2>2 DEF OwedInv, InsertOwed, SettlementOwed, Terminal
  <1>2. TypeInv /\ EscrowInv /\ Signed /\ OwedInv /\ [Next]_vars => OwedInv'
    <2> SUFFICES ASSUME TypeInv, EscrowInv, Signed, OwedInv, [Next]_vars, faults' = 0
                 PROVE  OwedInv'
      BY DEF OwedInv
    <2>1. faults \in Nat
      BY DEF TypeInv, TypeOK
    <2>2. ASSUME NEW p \in Http, Request(p) PROVE OwedInv'
      <3>1. faults = 0
        BY <2>2 DEF Request, PlaceRead, MoveRead, CompleteRead, CancelRead, ResolveRead,
                    UploadRead, GigRead
      <3> QED
        BY <2>2, <3>1, RequestOwed
    <2>3. ASSUME NEW p \in Cron, Tick(p) PROVE OwedInv'
      BY <2>3, TickOwed DEF Tick, SweepSelect
    <2>4. ASSUME NEW p \in Procs, Step(p) PROVE OwedInv'
      <3>1. faults = 0
        BY <2>4 DEF Step, PlaceEscrow, PlaceInsert, MoveWrite, Settle, TerminalWrite, Stats,
                    Reputation, ResolveTx, UploadWrite, SweepUpdate, GigCount, GigWrite
      <3> QED
        BY <2>4, <3>1, StepOwed
    <2>5. CASE (\E p \in Procs : Fail(p)) \/ Crash
      BY <2>1, <2>5 DEF Fail, Crash
    <2>6. CASE UNCHANGED vars
      BY <2>6 DEF vars, OwedInv, InsertOwed, SettlementOwed, Paid
    <2> QED
      BY <2>2, <2>3, <2>4, <2>5, <2>6 DEF Next
  <1>3. TypeInv /\ EscrowInv /\ OwedInv => NothingLost
    <2> SUFFICES ASSUME TypeInv, EscrowInv, OwedInv, faults = 0, NEW o \in Orders, Quiet(o)
                 PROVE  /\ order[o].status = "none" => ledger[o].escrow = 0
                        /\ order[o].status \in Terminal /\ order[o].price > 0
                              => Settled(o) >= ledger[o].escrow
      BY DEF NothingLost
    <2>1. order[o].status = "none" => ledger[o].escrow = 0
      BY DEF OwedInv, InsertOwed, Quiet
    <2>2. order[o].status \in Terminal => Paid(ledger[o])
      BY DEF OwedInv, SettlementOwed, Quiet
    <2>3. order[o].status \in Terminal => ledger[o].escrow = order[o].price
      BY DEF EscrowInv, EscrowMatchesPrice, Terminal
    <2>4. order[o] \in OrderRow /\ ledger[o] \in LedgerRow
      BY DEF TypeInv, TypeOK
    <2> QED
      BY <2>1, <2>2, <2>3, <2>4 DEF Paid, Settled, OrderRow, LedgerRow
  <1> QED
    BY <1>1, <1>2, <1>3, InitTypeInv, NextTypeInv, InitEscrowInv, NextEscrowInv,
       InitSigned, NextSigned, PTL DEF Spec

-----------------------------------------------------------------------------
(* One handler at a time: what a fault costs, and the escrow promise.      *)

Alone(p) == \A q \in Procs : q # p => job[q] = Idle

\* A row of the ledger whose payments and refunds stay within k times its escrow.
Within(l, k) ==
    LET s == l.paid + l.refunded
        most == k * l.escrow
    IN IF l.escrow >= 0 THEN 0 <= s /\ s <= most ELSE most <= s /\ s <= 0

\* The order, in status s, may still be settled: by handler j, or by one that
\* starts after j.
Unsettled(j, o, s) == \/ j.pc = "settle" /\ j.ord = o
                      \/ s \notin Terminal /\ ~(WritesEnd(j) /\ j.ord = o)

\* What handler j knows of the orders, with nobody else about.
Knows(j, orders) ==
    /\ Placing(j) => j.price # 0
    /\ MovesOn(j)
    /\ j.op = "move" /\ j.pc = "status" => orders[j.ord].status \notin Terminal
    /\ j.rows # {} \/ j.pc = "next" => j.op = "sweep"
    /\ j.op = "sweep" => j.from \in Active
    /\ \A o \in j.rows : orders[o].status = j.from
    /\ j.pc = "settle" /\ j.op \notin {"complete", "cancel"}
           => orders[j.ord].status \in Terminal
    /\ j.pc = "tx" => j.op = "resolve"

SerialInv ==
    /\ \A p \in Procs : (job[p] # Idle => Alone(p)) /\ Knows(job[p], order)
    /\ \A o \in Orders : order[o].status # "none" => order[o].price # 0
    /\ \A o \in Orders : Within(ledger[o], faults + 1)
    /\ \A p \in Procs, o \in Orders :
           Alone(p) /\ Unsettled(job[p], o, order[o].status) => Within(ledger[o], faults)

LEMMA Multiples ==
    \A k \in Nat, e \in Int : /\ k * e \in Int
                              /\ (k + 1) * e = k * e + e
                              /\ k * 0 = 0
                              /\ e >= 0 => k * e >= 0
                              /\ e <= 0 => k * e <= 0
  OBVIOUS

LEMMA WithinMore ==
    \A l \in LedgerRow, k \in Nat : Within(l, k) => Within(l, k + 1)
  <1> SUFFICES ASSUME NEW l \in LedgerRow, NEW k \in Nat, Within(l, k)
               PROVE  Within(l, k + 1)
    OBVIOUS
  <1>1. l.paid \in Int /\ l.refunded \in Int /\ l.escrow \in Int
    BY DEF LedgerRow
  <1>2. k * l.escrow \in Int /\ (k + 1) * l.escrow = k * l.escrow + l.escrow
    BY <1>1, Multiples
  <1> QED
    BY <1>1, <1>2 DEF Within

LEMMA IdleKnows == \A orders : Knows(Idle, orders)
  BY DEF Knows, Idle, Placing, MovesOn

\* The handler that runs alone becomes j.
LEMMA SerialStep ==
    ASSUME TypeInv, SerialInv, NEW p \in Procs, Alone(p), NEW j \in Job,
           job' = [job EXCEPT ![p] = j],
           Knows(j, order'),
           \A o \in Orders : order'[o].status # "none" => order'[o].price # 0,
           \A o \in Orders : Within(ledger'[o], faults' + 1),
           \A o \in Orders : Unsettled(j, o, order'[o].status) => Within(ledger'[o], faults')
    PROVE  SerialInv'
  <1>1. /\ job'[p] = j
        /\ \A q \in Procs : q # p => job'[q] = Idle
    BY DEF TypeInv, TypeOK, Alone
  <1>2. ASSUME NEW q \in Procs
        PROVE  (job'[q] # Idle => Alone(q)') /\ Knows(job'[q], order')
    BY <1>1, IdleKnows DEF Alone
  <1>3. ASSUME NEW q \in Procs, NEW o \in Orders, Alone(q)',
               Unsettled(job'[q], o, order'[o].status)
        PROVE  Within(ledger'[o], faults')
    BY <1>1, <1>3 DEF Alone
  <1> QED
    BY <1>2, <1>3 DEF SerialInv

\* The same when no money moves and no order is opened.
LEMMA StatusStep ==
    ASSUME TypeInv, SerialInv, NEW p \in Procs, Alone(p), NEW j \in Job,
           job' = [job EXCEPT ![p] = j],
           UNCHANGED <<ledger, faults>>,
           Knows(j, order'),
           \A o \in Orders : order'[o].status # "none" => order'[o].price # 0,
           \A o \in Orders : Unsettled(j, o, order'[o].status)
                                 => Unsettled(job[p], o, order[o].status)
    PROVE  SerialInv'
  <1>1. \A o \in Orders : Within(ledger[o], faults + 1)
    BY DEF SerialInv
  <1>2. \A o \in Orders : Unsettled(job[p], o, order[o].status) => Within(ledger[o], faults)
    BY DEF SerialInv
  <1>3. \A o \in Orders : /\ Within(ledger'[o], faults' + 1)
                          /\ Unsettled(j, o, order'[o].status) => Within(ledger'[o], faults')
    BY <1>1, <1>2
  <1> QED
    BY <1>3, SerialStep

\* And when a handler starts: no other is in flight.
LEMMA SerialStart ==
    ASSUME ~Concurrent, TypeInv, SerialInv, NEW p \in Procs, NEW j \in Job, Start(p, j),
           UNCHANGED <<order, ledger, faults>>,
           Knows(j, order),
           j.pc = "settle" => order[j.ord].status \notin Terminal
    PROVE  SerialInv'
  <1>1. Alone(p) /\ job[p] = Idle /\ job' = [job EXCEPT ![p] = j]
    BY DEF Start, Alone
  <1>2. \A o \in Orders : Unsettled(j, o, order[o].status)
                              => Unsettled(job[p], o, order[o].status)
    BY <1>1 DEF Unsettled, WritesEnd, Idle
  <1>3. \A o \in Orders : order[o].status # "none" => order[o].price # 0
    BY DEF SerialInv
  <1> QED
    BY <1>1, <1>2, <1>3, StatusStep

LEMMA RequestSerial ==
    ASSUME ~Concurrent, TypeInv, SerialInv, NEW p \in Http, Request(p)
    PROVE  SerialInv'
  <1>0. p \in Procs /\ TypeOK /\ Idle \in Job
    BY IdleType DEF Procs, TypeInv
  <1>1. ASSUME NEW b \in Buyers, NEW o \in Orders, PlaceRead(p, b, o)
        PROVE  SerialInv'
    <2> DEFINE j == [Idle EXCEPT !.op = "place", !.pc = "escrow", !.ord = o,
                                 !.by = b, !.price = gig.price]
    <2>1. gig.price \in Int /\ gig.price # 0
      BY <1>0, <1>1, BoundsAssumption DEF TypeOK, PlaceRead
    <2>2. /\ j \in Job /\ j.price = gig.price /\ j.op = "place" /\ j.pc = "escrow"
          /\ j.rows = {}
      BY <1>0, <2>1 DEF Job, Op, Pc, Agents, Idle
    <2>3. Knows(j, order)
      BY <2>1, <2>2 DEF Knows, MovesOn
    <2> QED
      BY <1>0, <1>1, <2>2, <2>3, SerialStart DEF PlaceRead
  <1>2. ASSUME NEW o \in Orders, NEW to \in Status, MoveRead(p, o, to)
        PROVE  SerialInv'
    <2> DEFINE j == [Idle EXCEPT !.op = "move", !.pc = "status", !.ord = o,
                                 !.to = to, !.revisions = order[o].revisions]
    <2>1. /\ j \in Job /\ j.op = "move" /\ j.pc = "status" /\ j.ord = o /\ j.to = to
          /\ j.rows = {}
      BY <1>0 DEF Job, Op, Pc, Idle, TypeOK, OrderRow
    <2>2. order[o].status \notin Terminal /\ to \notin Terminal
      BY <1>2 DEF MoveRead, validateTransition, GIG_ORDER_TRANSITIONS, Terminal, Status
    <2>3. Knows(j, order)
      BY <2>1, <2>2 DEF Knows, MovesOn, Placing
    <2> QED
      BY <1>0, <1>2, <2>1, <2>3, SerialStart DEF MoveRead
  <1>3. ASSUME NEW o \in Orders, CompleteRead(p, o)
        PROVE  SerialInv'
    <2> DEFINE j == [Idle EXCEPT !.op = "complete", !.pc = "settle", !.ord = o,
                                 !.to = "completed"]
    <2>1. j \in Job /\ j.op = "complete" /\ j.pc = "settle" /\ j.ord = o /\ j.rows = {}
      BY <1>0 DEF Job, Op, Pc, Idle, Status, Terminal
    <2>2. Knows(j, order)
      BY <2>1 DEF Knows, MovesOn, Placing
    <2>3. order[o].status \notin Terminal
      BY <1>3 DEF CompleteRead, validateTransition, GIG_ORDER_TRANSITIONS, Terminal, Status
    <2> QED
      BY <1>0, <1>3, <2>1, <2>2, <2>3, SerialStart DEF CompleteRead
  <1>4. ASSUME NEW o \in Orders, NEW who \in Buyers \cup {Seller}, CancelRead(p, o, who)
        PROVE  SerialInv'
    <2> DEFINE j == [Idle EXCEPT !.op = "cancel", !.pc = "settle", !.ord = o,
                                 !.to = "cancelled"]
    <2>1. j \in Job /\ j.op = "cancel" /\ j.pc = "settle" /\ j.ord = o /\ j.rows = {}
      BY <1>0 DEF Job, Op, Pc, Idle, Status, Terminal
    <2>2. Knows(j, order)
      BY <2>1 DEF Knows, MovesOn, Placing
    <2>3. order[o].status \notin Terminal
      BY <1>4 DEF CancelRead, validateTransition, GIG_ORDER_TRANSITIONS, Terminal, Status
    <2> QED
      BY <1>0, <1>4, <2>1, <2>2, <2>3, SerialStart DEF CancelRead
  <1>5. ASSUME NEW o \in Orders, NEW outcome \in Terminal, ResolveRead(p, o, outcome)
        PROVE  SerialInv'
    <2> DEFINE j == [Idle EXCEPT !.op = "resolve", !.pc = "tx", !.ord = o, !.to = outcome]
    <2>1. j \in Job /\ j.op = "resolve" /\ j.pc = "tx" /\ j.rows = {}
      BY <1>0 DEF Job, Op, Pc, Idle, Status, Terminal
    <2>2. Knows(j, order)
      BY <2>1 DEF Knows, MovesOn, Placing
    <2> QED
      BY <1>0, <1>5, <2>1, <2>2, SerialStart DEF ResolveRead
  <1>6. ASSUME NEW op \in {"editGig", "closeGig"}, GigRead(p, op)
        PROVE  SerialInv'
    <2> DEFINE j == [Idle EXCEPT !.op = op, !.pc = "count"]
    <2>1. j \in Job /\ j.op = op /\ j.pc = "count" /\ j.rows = {}
      BY <1>0 DEF Job, Op, Pc, Idle
    <2>2. Knows(j, order)
      BY <2>1 DEF Knows, MovesOn, Placing
    <2> QED
      BY <1>0, <1>6, <2>1, <2>2, SerialStart DEF GigRead
  <1>7. ASSUME NEW o \in Orders, UploadRead(p, o)
        PROVE  SerialInv'
    <2> DEFINE j == [Idle EXCEPT !.op = "upload", !.pc = "file", !.ord = o]
    <2>1. j \in Job /\ j.op = "upload" /\ j.pc = "file" /\ j.rows = {}
      BY <1>0 DEF Job, Op, Pc, Idle
    <2>2. Knows(j, order)
      BY <2>1 DEF Knows, MovesOn, Placing
    <2> QED
      BY <1>0, <1>7, <2>1, <2>2, SerialStart DEF UploadRead
  <1> QED
    BY <1>1, <1>2, <1>3, <1>4, <1>5, <1>6, <1>7 DEF Request

LEMMA TickSerial ==
    ASSUME ~Concurrent, TypeInv, SerialInv, NEW p \in Cron, Tick(p)
    PROVE  SerialInv'
  <1>1. PICK from \in DOMAIN SweepOutcome, rows \in SUBSET Orders : SweepSelect(p, from, rows)
    BY DEF Tick
  <1> DEFINE j == [Idle EXCEPT !.op = "sweep", !.pc = "next", !.from = from,
                               !.to = SweepOutcome[from], !.rows = rows]
  <1>2. /\ j \in Job /\ j.op = "sweep" /\ j.pc = "next" /\ j.from = from /\ j.rows = rows
        /\ from \in Active
    BY IdleType, SweepOutcomeType
    DEF Job, Op, Pc, Idle, Status, Terminal, Active, SweepOutcome
  <1>3. Knows(j, order)
    BY <1>1, <1>2 DEF Knows, MovesOn, Placing, SweepSelect
  <1> QED
    BY <1>1, <1>2, <1>3, SerialStart DEF SweepSelect, Procs

\* What a handler knows when it is done with its order, or goes on to the next
\* statement, the orders being as they were.
LEMMA FinishedKnows ==
    ASSUME TypeInv, SerialInv, NEW p \in Procs
    PROVE  /\ Finished(p) \in Job /\ Finished(p).pc \in {"idle", "next"}
           /\ Knows(Finished(p), order)
           /\ job[p].rows = {} => Finished(p) = Idle
  <1>1. job[p] \in Job /\ Knows(job[p], order)
    BY DEF TypeInv, TypeOK, SerialInv
  <1>2. Finished(p) \in Job /\ Finished(p).pc \in {"idle", "next"}
    BY FinishedType DEF TypeInv
  <1>3. CASE job[p].rows = {}
    BY <1>2, <1>3, IdleKnows DEF Finished
  <1>4. CASE job[p].rows # {}
    <2>1. /\ Finished(p).pc = "next" /\ Finished(p).op = job[p].op
          /\ Finished(p).rows = job[p].rows /\ Finished(p).from = job[p].from
      BY <1>1, <1>4 DEF Finished, Job
    <2> QED
      BY <1>1, <1>2, <1>4, <2>1 DEF Knows, MovesOn, Placing
  <1> QED
    BY <1>3, <1>4

\* The settlement: the order could still be settled, and now it cannot.
LEMMA SettleSerial ==
    ASSUME TypeInv, EscrowInv, SerialInv, NEW p \in Procs, Alone(p), Settle(p)
    PROVE  SerialInv'
  <1> DEFINE o == job[p].ord
             pc == AfterSettle(job[p])
             j == [job[p] EXCEPT !.pc = pc]
  <1>1. TypeOK /\ JobOK /\ job[p] \in Job /\ Knows(job[p], order)
    BY DEF TypeInv, TypeOK, SerialInv
  <1>2. /\ o \in Orders /\ job[p].pc = "settle" /\ UNCHANGED <<order, faults>>
        /\ ledger[o] \in LedgerRow /\ faults \in Nat
    BY <1>1 DEF Settle, At, JobOK, OnOrder, TypeOK
  <1>5. /\ \A i \in Orders : i # o => ledger'[i] = ledger[i]
        /\ ledger'[o].escrow = ledger[o].escrow
        /\ \/ ledger'[o] = ledger[o]
           \/ ledger'[o].paid + ledger'[o].refunded
                 = ledger[o].paid + ledger[o].refunded + ledger[o].escrow
    BY <1>2, SettleMoves DEF LedgerRow
  <1>6. \A i \in Orders : Within(ledger'[i], faults' + 1)
    <2>1. Within(ledger[o], faults)
      BY <1>2 DEF SerialInv, Unsettled
    <2>2. /\ faults * ledger[o].escrow \in Int
          /\ (faults + 1) * ledger[o].escrow = faults * ledger[o].escrow + ledger[o].escrow
      BY <1>2, Multiples DEF LedgerRow
    <2>4. ledger[o].paid \in Int /\ ledger[o].refunded \in Int /\ ledger[o].escrow \in Int
      BY <1>2 DEF LedgerRow
    <2>3. Within(ledger'[o], faults + 1)
      <3>1. CASE ledger'[o] = ledger[o]
        BY <1>2, <2>1, <3>1, WithinMore
      <3>2. CASE ledger'[o] # ledger[o]
        <4> DEFINE e == ledger[o].escrow
                   s == ledger[o].paid + ledger[o].refunded
                   most == faults * e
                   more == (faults + 1) * e
        <4>1. IF e >= 0 THEN 0 <= s /\ s <= most ELSE most <= s /\ s <= 0
          BY <2>1 DEF Within
        <4>2. more = most + e /\ most \in Int /\ e \in Int /\ s \in Int
          BY <2>2, <2>4
        <4>3. ledger'[o].escrow = e /\ ledger'[o].paid + ledger'[o].refunded = s + e
          BY <1>5, <3>2
        <4>4. more = (faults + 1) * ledger'[o].escrow
          BY <4>3
        <4> HIDE DEF e, s, most, more
        <4>5. IF e >= 0 THEN 0 <= s + e /\ s + e <= more ELSE more <= s + e /\ s + e <= 0
          BY <4>1, <4>2
        <4> QED
          BY <4>3, <4>4, <4>5 DEF Within
      <3> QED
        BY <3>1, <3>2
    <2> QED
      BY <1>2, <1>5, <2>3 DEF SerialInv
  <1>7. ASSUME NEW i \in Orders, i # o, order[i].status \notin Terminal
        PROVE  Within(ledger'[i], faults')
    BY <1>2, <1>5, <1>7 DEF SerialInv, Unsettled, WritesEnd
  <1>8. \A i \in Orders : order'[i].status # "none" => order'[i].price # 0
    BY <1>2 DEF SerialInv
  <1>9. CASE job[p].op \in {"complete", "cancel"}
    <2>1. pc = "status" /\ Goto(p, pc)
      BY <1>9 DEF AfterSettle, Settle
    <2>2. /\ j \in Job /\ j.pc = "status" /\ j.ord = o /\ j.op = job[p].op
          /\ j.rows = job[p].rows /\ j.from = job[p].from
      BY <1>1, <2>1 DEF Job, Pc
    <2>3. Knows(j, order')
      BY <1>1, <1>2, <1>9, <2>2 DEF Knows, MovesOn, Placing
    <2>4. job' = [job EXCEPT ![p] = j]
      BY <1>1, <2>1 DEF Goto, TypeOK
    <2>5. WritesEnd(j)
      BY <1>9, <2>2 DEF WritesEnd
    <2> HIDE DEF j
    <2>6. \A i \in Orders : Unsettled(j, i, order'[i].status) => Within(ledger'[i], faults')
      BY <1>2, <1>7, <2>2, <2>5 DEF Unsettled
    <2> QED
      BY <1>6, <1>8, <2>2, <2>3, <2>4, <2>6, SerialStep
  <1>10. CASE job[p].op \notin {"complete", "cancel"}
    <2>1. order[o].status \in Terminal
      BY <1>1, <1>2, <1>10 DEF Knows
    <2>2. CASE Finish(p)
      <3>1. Finished(p) \in Job /\ Finished(p).pc \in {"idle", "next"}
              /\ Knows(Finished(p), order')
        BY <1>2, FinishedKnows
      <3>2. \A i \in Orders : Unsettled(Finished(p), i, order'[i].status)
                                  => Within(ledger'[i], faults')
        BY <1>2, <1>7, <2>1, <3>1 DEF Unsettled
      <3> QED
        BY <1>6, <1>8, <2>2, <3>1, <3>2, SerialStep DEF Finish
    <2>3. CASE Goto(p, pc) /\ pc # "idle"
      <3>1. pc \in {"stats", "rep"}
        BY <1>10, <2>3 DEF AfterSettle
      <3>2. /\ j \in Job /\ j.pc = pc /\ j.ord = o /\ j.op = job[p].op /\ j.to = job[p].to
            /\ j.rows = job[p].rows /\ j.from = job[p].from
        BY <1>1, <3>1 DEF Job, Pc
      <3> HIDE DEF pc
      <3>3. Knows(j, order')
        BY <1>1, <1>2, <3>1, <3>2 DEF Knows, MovesOn, Placing
      <3>4. job' = [job EXCEPT ![p] = j]
        BY <1>1, <2>3 DEF Goto, TypeOK
      <3> HIDE DEF j
      <3>5. \A i \in Orders : Unsettled(j, i, order'[i].status) => Within(ledger'[i], faults')
        BY <1>2, <1>7, <2>1, <3>1, <3>2 DEF Unsettled
      <3> QED
        BY <1>6, <1>8, <3>2, <3>3, <3>4, <3>5, SerialStep
    <2> QED
      BY <2>2, <2>3 DEF Settle
  <1> QED
    BY <1>9, <1>10

\* The escrow transaction: nothing was settled before it.
LEMMA PlaceEscrowSerial ==
    ASSUME TypeInv, EscrowInv, SerialInv, NEW p \in Procs, Alone(p), PlaceEscrow(p)
    PROVE  SerialInv'
  <1> DEFINE o == job[p].ord
             j == [job[p] EXCEPT !.pc = "insert"]
  <1>1. TypeOK /\ JobOK /\ job[p] \in Job /\ Knows(job[p], order)
    BY DEF TypeInv, TypeOK, SerialInv
  <1>2. /\ o \in Orders /\ job[p].pc = "escrow" /\ UNCHANGED <<order, faults>>
        /\ order[o].status = "none" /\ ledger[o].escrow = 0 /\ job[p].rows = {}
        /\ ledger[o] \in LedgerRow /\ faults \in Nat /\ job[p].price \in Int
    BY <1>1 DEF PlaceEscrow, At, JobOK, OnOrder, TypeOK, EscrowInv, PlacingOwns, Placing, Job
  <1>3. \A i \in Orders : order'[i].status # "none" => order'[i].price # 0
    BY <1>2 DEF SerialInv
  <1>4. CASE Finish(p) /\ ledger' = ledger
    <2>1. \A i \in Orders : Unsettled(Finished(p), i, order'[i].status)
                                => Unsettled(job[p], i, order[i].status)
      BY <1>2, FinishedKnows DEF Unsettled, WritesEnd
    <2> QED
      BY <1>2, <1>3, <1>4, <2>1, FinishedKnows, StatusStep DEF Finish
  <1>5. CASE Goto(p, "insert") /\ ledger' = [ledger EXCEPT ![o].escrow = @ + job[p].price]
    <2>1. job' = [job EXCEPT ![p] = j]
      BY <1>1, <1>5 DEF Goto, TypeOK
    <2>2. /\ j \in Job /\ j.pc = "insert" /\ j.price = job[p].price /\ j.op = job[p].op
          /\ j.rows = {} /\ j.to = job[p].to /\ j.from = job[p].from
      BY <1>1, <1>2 DEF Job, Pc
    <2>3. Knows(j, order')
      BY <1>1, <1>2, <2>2 DEF Knows, MovesOn, Placing
    <2>4. /\ \A i \in Orders : i # o => ledger'[i] = ledger[i]
          /\ ledger'[o].escrow = job[p].price
          /\ ledger'[o].paid = ledger[o].paid /\ ledger'[o].refunded = ledger[o].refunded
      BY <1>1, <1>2, <1>5 DEF TypeOK, LedgerRow
    <2>5. Within(ledger[o], faults)
      BY <1>2 DEF SerialInv, Unsettled, WritesEnd, Terminal
    <2>6. ledger[o].paid + ledger[o].refunded = 0
      <3>1. faults * 0 = 0
        BY <1>2, Multiples
      <3> QED
        BY <1>2, <2>5, <3>1 DEF Within, LedgerRow
    <2>7. Within(ledger'[o], faults) /\ Within(ledger'[o], faults + 1)
      <3> DEFINE price == job[p].price
      <3>1. /\ faults * price \in Int /\ (faults + 1) * price \in Int
            /\ price >= 0 => faults * price >= 0 /\ (faults + 1) * price >= 0
            /\ price <= 0 => faults * price <= 0 /\ (faults + 1) * price <= 0
        BY <1>2, Multiples
      <3>2. ledger'[o].paid + ledger'[o].refunded = 0 /\ ledger'[o].escrow = price
        BY <2>4, <2>6
      <3>3. price \in Int
        BY <1>2
      <3> HIDE DEF price
      <3> QED
        BY <3>1, <3>2, <3>3 DEF Within
    <2> HIDE DEF j
    <2>8. ASSUME NEW i \in Orders
          PROVE  /\ Within(ledger'[i], faults' + 1)
                 /\ Unsettled(j, i, order'[i].status) => Within(ledger'[i], faults')
      <3>1. CASE i = o
        BY <1>2, <2>7, <3>1
      <3>2. CASE i # o
        <4>1. Unsettled(j, i, order[i].status) => Unsettled(job[p], i, order[i].status)
          BY <1>2, <2>2 DEF Unsettled, WritesEnd
        <4> QED
          BY <1>2, <2>4, <3>2, <4>1 DEF SerialInv
      <3> QED
        BY <3>1, <3>2
    <2> QED
      BY <1>3, <2>1, <2>2, <2>3, <2>8, SerialStep
  <1> QED
    BY <1>4, <1>5 DEF PlaceEscrow

LEMMA StepSerial ==
    ASSUME TypeInv, EscrowInv, SerialInv, NEW p \in Procs, Step(p)
    PROVE  SerialInv'
  <1> DEFINE o == job[p].ord
             Moved(pc) == [job[p] EXCEPT !.pc = pc]
  <1>1. TypeOK /\ JobOK /\ job[p] \in Job /\ Knows(job[p], order)
    BY DEF TypeInv, TypeOK, SerialInv
  <1>2. Alone(p)
    <2>1. job[p].pc # "idle"
      BY DEF Step, PlaceEscrow, PlaceInsert, MoveWrite, Settle, TerminalWrite, Stats, Reputation,
             ResolveTx, UploadWrite, SweepUpdate, GigCount, GigWrite, At
    <2> QED
      BY <2>1 DEF SerialInv, Idle
  <1>3. ASSUME NEW pc \in Pc
        PROVE  /\ Moved(pc) \in Job /\ Moved(pc).pc = pc /\ Moved(pc).ord = o
               /\ Moved(pc).op = job[p].op /\ Moved(pc).to = job[p].to
               /\ Moved(pc).from = job[p].from /\ Moved(pc).rows = job[p].rows
               /\ Moved(pc).price = job[p].price
    BY <1>1 DEF Job
  <1>4. \A i \in Orders : order[i].status # "none" => order[i].price # 0
    BY DEF SerialInv
  <1>5. ASSUME Finish(p), UNCHANGED <<order, ledger, faults>>, job[p].pc # "status"
        PROVE  SerialInv'
    <2>1. \A i \in Orders : Unsettled(Finished(p), i, order[i].status)
                                => Unsettled(job[p], i, order[i].status)
      BY <1>5, FinishedKnows DEF Unsettled, WritesEnd
    <2> QED
      BY <1>2, <1>4, <1>5, <2>1, FinishedKnows, StatusStep DEF Finish
  <1>6. ASSUME NEW pc \in {"rep", "write"}, Goto(p, pc), UNCHANGED <<order, ledger, faults>>,
               job[p].pc # "status"
        PROVE  SerialInv'
    <2>1. pc \in Pc
      BY DEF Pc
    <2>2. Knows(Moved(pc), order)
      BY <1>1, <1>3, <2>1 DEF Knows, MovesOn, Placing
    <2>3. \A i \in Orders : Unsettled(Moved(pc), i, order[i].status)
                                => Unsettled(job[p], i, order[i].status)
      BY <1>3, <1>6, <2>1 DEF Unsettled, WritesEnd
    <2>4. job' = [job EXCEPT ![p] = Moved(pc)]
      BY <1>1, <1>6 DEF Goto, TypeOK
    <2>5. Moved(pc) \in Job
      BY <1>3, <2>1
    <2> HIDE DEF Moved
    <2> QED
      BY <1>2, <1>4, <1>6, <2>2, <2>3, <2>4, <2>5, StatusStep
  <1>7. CASE PlaceInsert(p)
    <2>1. /\ o \in Orders /\ job[p].pc = "insert" /\ UNCHANGED <<ledger, faults>>
          /\ order[o].status = "none" /\ job[p].rows = {} /\ job[p].price # 0
      BY <1>1, <1>7
      DEF PlaceInsert, At, JobOK, OnOrder, EscrowInv, PlacingOwns, Placing, Knows
    <2>2. \A i \in Orders : order'[i] = IF i = o
              THEN [status |-> "pending", buyer |-> job[p].by,
                    price |-> job[p].price, revisions |-> 0]
              ELSE order[i]
      BY <1>1, <1>7, <2>1 DEF PlaceInsert, PriceToStore, TypeOK
    <2>3. job' = [job EXCEPT ![p] = Idle]
      BY <1>7, <2>1, FinishedKnows DEF PlaceInsert, Finish
    <2>4. \A i \in Orders : order'[i].status # "none" => order'[i].price # 0
      BY <1>4, <2>1, <2>2
    <2>5. \A i \in Orders : Unsettled(Idle, i, order'[i].status)
                                => Unsettled(job[p], i, order[i].status)
      BY <2>1, <2>2 DEF Unsettled, WritesEnd, Idle, Terminal
    <2> QED
      BY <1>2, <2>1, <2>3, <2>4, <2>5, IdleType, IdleKnows, StatusStep
  <1>8. CASE MoveWrite(p)
    <2>1. /\ o \in Orders /\ job[p].pc = "status" /\ UNCHANGED <<ledger, faults>>
          /\ order[o].status \notin Terminal /\ order[o].status # "none"
          /\ job[p].to \notin Terminal /\ job[p].rows = {} /\ job[p].op = "move"
      BY <1>1, <1>8
      DEF MoveWrite, At, JobOK, OnOrder, EscrowInv, OthersOnRows, OnRow, Placing, Knows, MovesOn
    <2>2. /\ \A i \in Orders : i # o => order'[i] = order[i]
          /\ order'[o].status = job[p].to /\ order'[o].price = order[o].price
      BY <1>1, <1>8, <2>1 DEF MoveWrite, TypeOK, OrderRow
    <2>3. job' = [job EXCEPT ![p] = Idle]
      BY <1>8, <2>1, FinishedKnows DEF MoveWrite, Finish
    <2>4. \A i \in Orders : order'[i].status # "none" => order'[i].price # 0
      BY <1>4, <2>1, <2>2
    <2>5. \A i \in Orders : Unsettled(Idle, i, order'[i].status)
                                => Unsettled(job[p], i, order[i].status)
      BY <2>1, <2>2 DEF Unsettled, WritesEnd, Idle
    <2> QED
      BY <1>2, <2>1, <2>3, <2>4, <2>5, IdleType, IdleKnows, StatusStep
  <1>9. CASE TerminalWrite(p)
    <2>1. /\ o \in Orders /\ job[p].pc = "status" /\ UNCHANGED <<ledger, faults>>
          /\ job[p].op \in {"complete", "cancel"} /\ job[p].to \in Terminal
          /\ job[p].rows = {} /\ order[o].status # "none"
      BY <1>1, <1>9
      DEF TerminalWrite, At, JobOK, OnOrder, Settling, Knows, EscrowInv, OthersOnRows, OnRow,
          Placing
    <2>2. /\ \A i \in Orders : i # o => order'[i] = order[i]
          /\ order'[o].status = job[p].to /\ order'[o].price = order[o].price
      BY <1>1, <1>9, <2>1 DEF TerminalWrite, TypeOK, OrderRow
    <2>3. \A i \in Orders : order'[i].status # "none" => order'[i].price # 0
      BY <1>4, <2>1, <2>2
    <2>4. ASSUME NEW j \in Job, j.pc \in {"idle", "stats"}
          PROVE  \A i \in Orders : Unsettled(j, i, order'[i].status)
                                       => Unsettled(job[p], i, order[i].status)
      BY <2>1, <2>2, <2>4 DEF Unsettled, WritesEnd
    <2>5. CASE Finish(p)
      <3>1. job' = [job EXCEPT ![p] = Idle]
        BY <2>1, <2>5, FinishedKnows DEF Finish
      <3>2. \A i \in Orders : Unsettled(Idle, i, order'[i].status)
                                  => Unsettled(job[p], i, order[i].status)
        BY <2>4, IdleType DEF Idle
      <3> QED
        BY <1>2, <2>1, <2>3, <3>1, <3>2, IdleType, IdleKnows, StatusStep
    <2>6. CASE Goto(p, "stats")
      <3> DEFINE j == Moved("stats")
      <3>1. job' = [job EXCEPT ![p] = j]
        BY <1>1, <2>6 DEF Goto, TypeOK
      <3>2. /\ j \in Job /\ j.pc = "stats" /\ j.op = job[p].op /\ j.rows = {}
        BY <1>3, <2>1 DEF Pc
      <3>3. Knows(j, order')
        BY <2>1, <3>2 DEF Knows, MovesOn, Placing
      <3> HIDE DEF j
      <3> QED
        BY <1>2, <2>1, <2>3, <2>4, <3>1, <3>2, <3>3, StatusStep
    <2> QED
      BY <1>9, <2>5, <2>6 DEF TerminalWrite
  <1>10. CASE Stats(p)
    BY <1>6, <1>10 DEF Stats, At
  <1>11. CASE Reputation(p)
    BY <1>5, <1>11 DEF Reputation, At
  <1>12. CASE ResolveTx(p)
    <2>1. /\ o \in Orders /\ job[p].pc = "tx" /\ UNCHANGED <<ledger, faults>>
          /\ job[p].op = "resolve" /\ job[p].to \in Terminal /\ job[p].rows = {}
      BY <1>1, <1>12 DEF ResolveTx, At, JobOK, OnOrder, Settling, Knows
    <2>2. CASE Finish(p) /\ UNCHANGED order
      BY <1>5, <2>1, <2>2
    <2>3. CASE /\ order' = [order EXCEPT ![o].status = job[p].to]
               /\ StillDisputed(o) /\ Goto(p, "settle")
      <3> DEFINE j == Moved("settle")
      <3>1. job' = [job EXCEPT ![p] = j]
        BY <1>1, <2>3 DEF Goto, TypeOK
      <3>2. /\ j \in Job /\ j.pc = "settle" /\ j.ord = o /\ j.op = "resolve" /\ j.rows = {}
        BY <1>3, <2>1 DEF Pc
      <3>3. /\ \A i \in Orders : i # o => order'[i] = order[i]
            /\ order'[o].status = job[p].to /\ order'[o].price = order[o].price
            /\ order[o].status = "disputed"
        BY <1>1, <2>1, <2>3 DEF TypeOK, OrderRow, StillDisputed
      <3>4. Knows(j, order')
        BY <2>1, <3>2, <3>3 DEF Knows, MovesOn, Placing
      <3>5. \A i \in Orders : order'[i].status # "none" => order'[i].price # 0
        BY <1>4, <3>3
      <3> HIDE DEF j
      <3>6. \A i \in Orders : Unsettled(j, i, order'[i].status)
                                  => Unsettled(job[p], i, order[i].status)
        BY <2>1, <3>2, <3>3 DEF Unsettled, WritesEnd, Terminal
      <3> QED
        BY <1>2, <2>1, <3>1, <3>2, <3>4, <3>5, <3>6, StatusStep
    <2> QED
      BY <1>12, <2>2, <2>3 DEF ResolveTx
  <1>13. ASSUME NEW r \in Orders, SweepUpdate(p, r)
         PROVE  SerialInv'
    <2> DEFINE j == [job[p] EXCEPT !.ord = r, !.rows = @ \ {r}, !.pc = "settle"]
    <2>1. /\ job' = [job EXCEPT ![p] = j] /\ UNCHANGED <<ledger, faults>>
          /\ job[p].pc = "next" /\ r \in job[p].rows
      BY <1>1, <1>13 DEF SweepUpdate, At, TypeOK, Job
    <2>2. /\ j \in Job /\ j.pc = "settle" /\ j.ord = r /\ j.op = job[p].op
          /\ j.from = job[p].from /\ j.rows = job[p].rows \ {r}
      BY <1>1 DEF Job, Pc
    <2>3. /\ job[p].op = "sweep" /\ job[p].from \in Active /\ job[p].to \in Terminal
          /\ \A i \in job[p].rows : order[i].status = job[p].from
      BY <1>1, <2>1 DEF Knows, JobOK, Settling
    <2>4. /\ \A i \in Orders : i # r => order'[i] = order[i]
          /\ order'[r].status = job[p].to /\ order'[r].price = order[r].price
      BY <1>1, <1>13, <2>1, <2>3 DEF SweepUpdate, TypeOK, OrderRow
    <2>5. order[r].status \notin Terminal /\ order[r].status # "none"
      BY <2>1, <2>3 DEF Active, Status, Terminal
    <2> HIDE DEF j
    <2>6. Knows(j, order')
      <3>1. \A i \in j.rows : i \in Orders /\ order'[i].status = j.from
        BY <1>1, <2>2, <2>3, <2>4 DEF Job
      <3> QED
        BY <2>2, <2>3, <2>4, <3>1 DEF Knows, MovesOn, Placing
    <2>7. \A i \in Orders : order'[i].status # "none" => order'[i].price # 0
      BY <1>4, <2>4, <2>5
    <2>8. \A i \in Orders : Unsettled(j, i, order'[i].status)
                                => Unsettled(job[p], i, order[i].status)
      BY <2>1, <2>2, <2>4, <2>5 DEF Unsettled, WritesEnd
    <2> QED
      BY <1>2, <2>1, <2>2, <2>6, <2>7, <2>8, StatusStep
  <1>14. CASE GigCount(p)
    BY <1>5, <1>6, <1>14 DEF GigCount, At
  <1>15. CASE GigWrite(p)
    BY <1>5, <1>15 DEF GigWrite, At
  <1>16. CASE UploadWrite(p)
    BY <1>5, <1>16 DEF UploadWrite, At
  <1> QED
    BY <1>2, PlaceEscrowSerial, SettleSerial, <1>7, <1>8, <1>9, <1>10, <1>11, <1>12, <1>13,
       <1>14, <1>15, <1>16 DEF Step

\* A fault ends the handler wherever it is: what it has settled may be settled
\* once more.
LEMMA FaultSerial ==
    ASSUME TypeInv, SerialInv, \/ \E p \in Procs : Fail(p)
                               \/ Crash
    PROVE  SerialInv'
  <1>1. TypeOK /\ UNCHANGED <<order, ledger>> /\ faults' = faults + 1 /\ faults \in Nat
    BY DEF TypeInv, TypeOK, Fail, Crash
  <1>2. \A o \in Orders : Within(ledger'[o], faults') /\ Within(ledger'[o], faults' + 1)
    <2>1. \A o \in Orders : ledger[o] \in LedgerRow
      BY <1>1 DEF TypeOK
    <2> QED
      BY <1>1, <2>1, WithinMore DEF SerialInv
  <1>3. \A o \in Orders : order'[o].status # "none" => order'[o].price # 0
    BY <1>1 DEF SerialInv
  <1>4. ASSUME NEW p \in Procs, Fail(p)
        PROVE  SerialInv'
    <2>1. Alone(p) /\ job[p] \in Job /\ Knows(job[p], order)
      BY <1>1, <1>4 DEF Fail, SerialInv, TypeOK
    <2>2. CASE Finish(p)
      BY <1>1, <1>2, <1>3, <2>1, <2>2, FinishedKnows, SerialStep DEF Finish
    <2>3. ASSUME At(p, "next"), NEW r \in job[p].rows,
                 job' = [job EXCEPT ![p] = IF job[p].rows = {r} THEN Idle
                                           ELSE [job[p] EXCEPT !.rows = @ \ {r}]]
          PROVE  SerialInv'
      <3> DEFINE j == IF job[p].rows = {r} THEN Idle
                      ELSE [job[p] EXCEPT !.rows = @ \ {r}]
      <3>1. /\ j \in Job
            /\ \/ j = Idle
               \/ /\ j.pc = "next" /\ j.rows = job[p].rows \ {r}
                  /\ j.op = job[p].op /\ j.from = job[p].from
        BY <2>1, <2>3, IdleType DEF Job, At
      <3>2. Knows(j, order')
        BY <1>1, <2>1, <2>3, <3>1, IdleKnows DEF Knows, MovesOn, Placing, At
      <3> HIDE DEF j
      <3> QED
        BY <1>2, <1>3, <2>1, <2>3, <3>1, <3>2, SerialStep DEF j
    <2> QED
      BY <1>4, <2>2, <2>3 DEF Fail
  <1>5. CASE Crash
    <2>1. \A p \in Procs : job'[p] = Idle
      BY <1>5 DEF Crash
    <2> QED
      BY <1>2, <1>3, <2>1, IdleKnows DEF SerialInv
  <1> QED
    BY <1>4, <1>5

LEMMA InitSerial == Init => SerialInv
  <1> SUFFICES ASSUME Init PROVE SerialInv
    OBVIOUS
  <1>1. \A p \in Procs : job[p] = Idle
    BY DEF Init
  <1>2. ASSUME NEW o \in Orders
        PROVE  order[o].status = "none" /\ Within(ledger[o], 0) /\ Within(ledger[o], 1)
    <2>1. /\ order[o].status = "none"
          /\ ledger[o].escrow = 0 /\ ledger[o].paid = 0 /\ ledger[o].refunded = 0
      BY DEF Init, Absent
    <2> QED
      BY <2>1 DEF Within
  <1> QED
    BY <1>1, <1>2, IdleKnows DEF Init, SerialInv

LEMMA NextSerial ==
    ASSUME ~Concurrent
    PROVE  TypeInv /\ EscrowInv /\ SerialInv /\ [Next]_vars => SerialInv'
  <1> SUFFICES ASSUME TypeInv, EscrowInv, SerialInv, [Next]_vars PROVE SerialInv'
    OBVIOUS
  <1>1. CASE Next
    BY <1>1, RequestSerial, TickSerial, StepSerial, FaultSerial DEF Next
  <1>2. CASE UNCHANGED vars
    <2>1. \A q \in Procs : Alone(q)' <=> Alone(q)
      BY <1>2 DEF vars, Alone
    <2> QED
      BY <1>2, <2>1 DEF vars, SerialInv
  <1> QED
    BY <1>1, <1>2

\* Without overlap, each statement that throws and each crash costs at most one
\* settlement too many, for every order (gigs.ts complete and cancel settle,
\* then write; a failure between the two leaves an order that can be settled
\* again).
THEOREM FaultsAreBounded == ~Concurrent => (Spec => []FaultsBoundDamage)
  <1> SUFFICES ASSUME ~Concurrent PROVE Spec => []FaultsBoundDamage
    OBVIOUS
  <1>1. TypeInv /\ SerialInv => FaultsBoundDamage
    <2>1. ASSUME TypeInv, SerialInv PROVE FaultsBoundDamage
      <3>1. faults \in Nat /\ faults + 1 = 1 + faults
        BY <2>1 DEF TypeInv, TypeOK
      <3>2. \A o \in Orders : Within(ledger[o], 1 + faults)
        BY <2>1, <3>1 DEF SerialInv
      <3> QED
        BY <3>2 DEF Within, FaultsBoundDamage, Settled
    <2> QED
      BY <2>1
  <1> QED
    BY <1>1, InitTypeInv, NextTypeInv, InitEscrowInv, NextEscrowInv, InitSerial, NextSerial,
       PTL DEF Spec

\* Without overlap, gig orders implement Escrow: until something fails, the
\* price of an order is held once, then released once or refunded once
\* (transfer.ts checks none of this, its callers have to call it in turn).
THEOREM EscrowImplemented == ~Concurrent => (Spec => ImplementsEscrow)
  <1> SUFFICES ASSUME ~Concurrent PROVE Spec => EscrowOfOrders!Spec
    BY DEF ImplementsEscrow
  <1>1. Init => EscrowOfOrders!Init
    <2> SUFFICES ASSUME Init PROVE EscrowOfOrders!Init
      OBVIOUS
    <2>1. ASSUME NEW o \in Orders PROVE EscrowOf(o) = "none" /\ ~(ledger[o].escrow < 0)
      <3>1. ledger[o].escrow = 0 /\ ledger[o].paid = 0 /\ ledger[o].refunded = 0
        BY DEF Init
      <3> QED
        BY <3>1 DEF EscrowOf, Settled
    <2> QED
      BY <2>1 DEF Init, EscrowOfOrders!Init
  <1>2. TypeInv /\ EscrowInv /\ Signed /\ SerialInv /\ [Next]_vars
            => [EscrowOfOrders!Next]_EscrowOfOrders!vars
    <2> SUFFICES ASSUME TypeInv, EscrowInv, Signed, SerialInv, [Next]_vars
                 PROVE  [EscrowOfOrders!Next]_EscrowOfOrders!vars
      OBVIOUS
    <2>0. TypeOK /\ JobOK /\ faults \in Nat
      BY DEF TypeInv, TypeOK
    <2>1. ASSUME ledger' = ledger, faults' = faults
          PROVE  UNCHANGED EscrowOfOrders!vars
      BY <2>1 DEF EscrowOfOrders!vars, EscrowOf, Settled
    <2>2. ASSUME faults' # 0, faults' \in Nat
          PROVE  EscrowOfOrders!Next
      BY <2>2 DEF EscrowOfOrders!Next, EscrowOfOrders!Void
    <2>3. ASSUME faults = 0, faults' = 0, NEW i \in Orders, NEW from, NEW to,
                 EscrowOf(i) = from, EscrowOf(i)' = to,
                 \A k \in Orders : k # i => ledger'[k] = ledger[k],
                 (ledger'[i].escrow < 0) <=> (ledger[i].escrow < 0)
          PROVE  EscrowOfOrders!Move(i, from, to)
      <3>1. \A k \in Orders : EscrowOf(k)' = IF k = i THEN to ELSE EscrowOf(k)
        BY <2>3 DEF EscrowOf, Settled
      <3>2. {k \in Orders : ledger'[k].escrow < 0} = {k \in Orders : ledger[k].escrow < 0}
        BY <2>3
      <3> QED
        BY <2>3, <3>1, <3>2 DEF EscrowOfOrders!Move
    <2>11. ASSUME faults = 0, faults' = 0, NEW i \in Orders, ledger'[i].escrow < 0,
                  \A k \in Orders : k # i => ledger'[k] = ledger[k]
           PROVE  EscrowOfOrders!Next
      <3>1. \A k \in Orders : k # i => EscrowOf(k)' = EscrowOf(k)
        BY <2>11 DEF EscrowOf, Settled
      <3>2. {k \in Orders : ledger[k].escrow < 0} \subseteq {k \in Orders : ledger'[k].escrow < 0}
        BY <2>11
      <3> QED
        BY <2>11, <3>1, <3>2 DEF EscrowOfOrders!Next, EscrowOfOrders!Void
    <2>4. ASSUME NEW p \in Procs, PlaceEscrow(p), faults = 0
          PROVE  [EscrowOfOrders!Next]_EscrowOfOrders!vars
      <3> DEFINE o == job[p].ord
      <3>1. faults' = 0
        BY <2>4 DEF PlaceEscrow
      <3>2. CASE ledger' = ledger
        BY <2>1, <2>4, <3>1, <3>2
      <3>3. CASE ledger' = [ledger EXCEPT ![o].escrow = @ + job[p].price]
        <4>1. /\ job[p] \in Job /\ job[p].pc = "escrow" /\ Alone(p) /\ Knows(job[p], order)
          BY <2>0, <2>4 DEF TypeOK, PlaceEscrow, At, SerialInv, Idle
        <4>2. o \in Orders /\ order[o].status = "none" /\ ledger[o].escrow = 0
          BY <2>0, <4>1 DEF JobOK, OnOrder, EscrowInv, PlacingOwns, Placing
        <4>3. job[p].price \in Int /\ job[p].price # 0 /\ ledger[o] \in LedgerRow
          BY <2>0, <4>1, <4>2 DEF Job, Knows, Placing, TypeOK
        <4>4. ledger[o].paid = 0 /\ ledger[o].refunded = 0
          BY <4>2, <4>3 DEF Signed, LedgerRow
        <4>5. /\ \A k \in Orders : k # o => ledger'[k] = ledger[k]
              /\ ledger'[o].escrow = job[p].price
              /\ ledger'[o].paid = 0 /\ ledger'[o].refunded = 0
          BY <2>0, <3>3, <4>2, <4>3, <4>4 DEF TypeOK, LedgerRow
        <4>6. PICK i \in Orders : i = o
          BY <4>2
        <4>7. CASE job[p].price < 0
          BY <2>4, <2>11, <3>1, <4>5, <4>6, <4>7
        <4>8. CASE job[p].price > 0
          <5>1. EscrowOf(i) = "none" /\ EscrowOf(i)' = "held"
            BY <4>2, <4>3, <4>4, <4>5, <4>6, <4>8 DEF EscrowOf, Settled
          <5>2. ~(ledger'[i].escrow < 0) /\ ~(ledger[i].escrow < 0)
            BY <4>2, <4>3, <4>5, <4>6, <4>8
          <5>3. EscrowOfOrders!Hold(i)
            BY <2>3, <2>4, <3>1, <4>5, <4>6, <5>1, <5>2 DEF EscrowOfOrders!Hold
          <5> QED
            BY <5>3 DEF EscrowOfOrders!Next
        <4> QED
          BY <4>3, <4>7, <4>8
      <3> QED
        BY <2>4, <3>2, <3>3 DEF PlaceEscrow
    <2>5. ASSUME NEW p \in Procs, Settle(p), faults = 0
          PROVE  [EscrowOfOrders!Next]_EscrowOfOrders!vars
      <3> DEFINE o == job[p].ord
      <3>1. /\ faults' = 0 /\ job[p].pc = "settle" /\ Alone(p) /\ o \in Orders
        BY <2>0, <2>5 DEF Settle, At, JobOK, OnOrder, SerialInv, Idle
      <3>2. order[o].status # "none"
        BY <3>1 DEF EscrowInv, OthersOnRows, OnRow, Placing
      <3>3. /\ order[o].price = ledger[o].escrow /\ order[o].price # 0
            /\ ledger[o] \in LedgerRow
        BY <2>0, <3>1, <3>2 DEF EscrowInv, EscrowMatchesPrice, SerialInv, TypeOK
      <3>4. PICK i \in Orders : i = o
        BY <3>1
      <3>5. /\ \A k \in Orders : k # i => ledger'[k] = ledger[k]
            /\ ledger'[i].escrow = ledger[i].escrow
        BY <2>5, <3>4, SettleMoves
      <3>6. CASE ledger[i].escrow < 0
        BY <2>5, <2>11, <3>1, <3>5, <3>6
      <3>7. CASE ledger[i].escrow > 0
        <4>1. Within(ledger[i], 0)
          BY <2>5, <3>1, <3>4 DEF SerialInv, Unsettled
        <4>2. ledger[i].escrow \in Int /\ ledger[i].paid \in Int /\ ledger[i].refunded \in Int
          BY <3>3, <3>4 DEF LedgerRow
        <4>3. ledger[i].paid = 0 /\ ledger[i].refunded = 0
          BY <3>4, <3>7, <4>1, <4>2 DEF Signed, Within
        <4>4. EscrowOf(i) = "held"
          BY <3>7, <4>2, <4>3 DEF EscrowOf, Settled
        <4>5. CASE ledger'[i].paid = ledger[i].escrow /\ ledger'[i].refunded = 0
          <5>1. EscrowOf(i)' = "released"
            BY <3>5, <3>7, <4>2, <4>5 DEF EscrowOf, Settled
          <5>2. EscrowOfOrders!Release(i)
            BY <2>3, <2>5, <3>1, <3>5, <4>4, <5>1 DEF EscrowOfOrders!Release
          <5> QED
            BY <5>2 DEF EscrowOfOrders!Next
        <4>6. CASE ledger'[i].refunded = ledger[i].escrow /\ ledger'[i].paid = 0
          <5>1. EscrowOf(i)' = "refunded"
            BY <3>5, <3>7, <4>2, <4>6 DEF EscrowOf, Settled
          <5>2. EscrowOfOrders!Refund(i)
            BY <2>3, <2>5, <3>1, <3>5, <4>4, <5>1 DEF EscrowOfOrders!Refund
          <5> QED
            BY <5>2 DEF EscrowOfOrders!Next
        <4>7. \/ ledger'[i].paid = ledger[i].escrow /\ ledger'[i].refunded = 0
              \/ ledger'[i].refunded = ledger[i].escrow /\ ledger'[i].paid = 0
          BY <2>5, <3>4, <3>7, <4>2, <4>3, SettleMoves
        <4> QED
          BY <4>5, <4>6, <4>7
      <3> QED
        BY <3>3, <3>4, <3>6, <3>7 DEF LedgerRow
    <2>6. ASSUME NEW p \in Procs, Step(p)
          PROVE  [EscrowOfOrders!Next]_EscrowOfOrders!vars
      <3>1. faults' = faults
        BY <2>6 DEF Step, PlaceEscrow, PlaceInsert, MoveWrite, Settle, TerminalWrite, Stats,
                    Reputation, ResolveTx, UploadWrite, SweepUpdate, GigCount, GigWrite
      <3>2. CASE faults # 0
        BY <2>0, <2>2, <3>1, <3>2
      <3>3. CASE PlaceEscrow(p) \/ Settle(p)
        BY <2>4, <2>5, <3>2, <3>3
      <3>4. CASE ~(PlaceEscrow(p) \/ Settle(p))
        <4>1. ledger' = ledger
          BY <2>6, <3>4 DEF Step, PlaceInsert, MoveWrite, TerminalWrite, Stats, Reputation,
                            ResolveTx, UploadWrite, SweepUpdate, GigCount, GigWrite
        <4> QED
          BY <2>1, <3>1, <4>1
      <3> QED
        BY <3>3, <3>4
    <2>7. ASSUME NEW p \in Http, Request(p)
          PROVE  [EscrowOfOrders!Next]_EscrowOfOrders!vars
      BY <2>1, <2>7
      DEF Request, PlaceRead, MoveRead, CompleteRead, CancelRead, ResolveRead, UploadRead,
          GigRead
    <2>8. ASSUME NEW p \in Cron, Tick(p)
          PROVE  [EscrowOfOrders!Next]_EscrowOfOrders!vars
      BY <2>1, <2>8 DEF Tick, SweepSelect
    <2>9. CASE (\E p \in Procs : Fail(p)) \/ Crash
      BY <2>0, <2>2, <2>9 DEF Fail, Crash
    <2>10. CASE UNCHANGED vars
      BY <2>1, <2>10 DEF vars
    <2> QED
      BY <2>6, <2>7, <2>8, <2>9, <2>10 DEF Next
  <1> QED
    BY <1>1, <1>2, InitTypeInv, NextTypeInv, InitEscrowInv, NextEscrowInv, InitSigned,
       NextSigned, InitSerial, NextSerial, PTL DEF Spec, EscrowOfOrders!Spec

-----------------------------------------------------------------------------
(* Sums over finite sets.  SumFunctionOnSet adds the entries of a function  *)
(* in an order that CHOOSE picks; these lemmas say that the order does not  *)
(* matter.  Each is an induction over finite sets, by a smallest set that   *)
(* would refute it: the subsets of a finite set are well founded.           *)

SumOver(f, A) == SumFunctionOnSet(f, A)

\* The element a sum takes next, and the function that its recursion computes.
Pick(s) == CHOOSE x \in s : TRUE
Sums(f, A, it) == it = [s \in SUBSET A |-> IF s = {} THEN 0 ELSE f[Pick(s)] + it[s \ {Pick(s)}]]

\* A set of subsets of a finite set has a minimal one.
LEMMA MinimalSubset ==
    ASSUME NEW S, IsFiniteSet(S), NEW T, T \subseteq SUBSET S, T # {}
    PROVE  \E B \in T : \A C \in T : C \subseteq B => C = B
  <1>1. IsWellFoundedOn(StrictSubsetOrdering(S), SUBSET S)
    BY FS_StrictSubsetOrderingWellFounded, FS_FiniteSubsetsOfFinite
  <1>2. PICK B \in T : \A C \in T : ~ (<<C, B>> \in StrictSubsetOrdering(S))
    BY <1>1, WFMin
  <1>3. ASSUME NEW C \in T, C \subseteq B, C # B PROVE FALSE
    <2>1. C \in SUBSET S /\ B \in SUBSET S
      OBVIOUS
    <2> QED
      BY <1>2, <1>3, <2>1 DEF StrictSubsetOrdering
  <1> QED
    BY <1>3

\* The definition of a sum.
LEMMA SumExpands == ASSUME NEW f, NEW A PROVE SumOver(f, A) = (CHOOSE it : Sums(f, A, it))[A]
  BY DEF SumOver, SumFunctionOnSet, FoldFunctionOnSet, MapThenFoldSet, Sums, Pick

LEMMA PickIn ==
    ASSUME NEW s, s # {}
    PROVE  Pick(s) \in s /\ s \ {Pick(s)} \subseteq s /\ s \ {Pick(s)} # s
  BY DEF Pick

\* The recursion computes the same sums, whichever set it starts from.
LEMMA SumsAgree ==
    ASSUME NEW f, NEW A, IsFiniteSet(A), NEW it, Sums(f, A, it), NEW B, NEW jt, Sums(f, B, jt),
           NEW C, C \subseteq A, C \subseteq B
    PROVE  it[C] = jt[C]
  <1> DEFINE Bad == {D \in SUBSET A : D \subseteq B /\ it[D] # jt[D]}
  <1>1. ASSUME NEW D \in Bad, \A E \in Bad : E \subseteq D => E = D
        PROVE  FALSE
    <2>1. D \in SUBSET A /\ D \in SUBSET B /\ it[D] # jt[D]
      OBVIOUS
    <2>2. CASE D = {}
      BY <2>1, <2>2 DEF Sums
    <2>3. CASE D # {}
      <3>1. Pick(D) \in D /\ D \ {Pick(D)} \subseteq D /\ D \ {Pick(D)} # D
        BY <2>3, PickIn
      <3>2. it[D \ {Pick(D)}] = jt[D \ {Pick(D)}]
        BY <1>1, <2>1, <3>1
      <3>3. /\ it[D] = f[Pick(D)] + it[D \ {Pick(D)}]
            /\ jt[D] = f[Pick(D)] + jt[D \ {Pick(D)}]
        BY <2>1, <2>3 DEF Sums
      <3> QED
        BY <2>1, <3>2, <3>3
    <2> QED
      BY <2>2, <2>3
  <1>2. Bad \subseteq SUBSET A
    OBVIOUS
  <1> HIDE DEF Bad
  <1>3. Bad = {}
    BY <1>1, <1>2, MinimalSubset
  <1> QED
    BY <1>3 DEF Bad

\* And there is a function that it computes.
LEMMA SumsExist ==
    ASSUME NEW f, NEW A, IsFiniteSet(A)
    PROVE  \E it : Sums(f, A, it)
  <1> DEFINE Bad == {D \in SUBSET A : ~\E it : Sums(f, D, it)}
  <1>1. ASSUME NEW B \in Bad, \A C \in Bad : C \subseteq B => C = B
        PROVE  FALSE
    <2> DEFINE Own(C) == CHOOSE it : Sums(f, C, it)
               sub(C) == IF C = {} THEN 0 ELSE f[Pick(C)] + Own(C \ {Pick(C)})[C \ {Pick(C)}]
               g == [C \in SUBSET B |-> sub(C)]
    <2>1. B \in SUBSET A /\ ~\E it : Sums(f, B, it)
      OBVIOUS
    <2>2. ASSUME NEW C, C \subseteq B, C # B PROVE Sums(f, C, Own(C)) /\ IsFiniteSet(C)
      <3>1. C \in SUBSET A /\ C \notin Bad
        BY <1>1, <2>1, <2>2
      <3>2. IsFiniteSet(C)
        BY <3>1, FS_Subset
      <3> QED
        BY <3>1, <3>2
    <2> HIDE DEF Own
    <2>3. ASSUME NEW C, C \subseteq B, C # B PROVE Own(C)[C] = sub(C)
      <3>1. CASE C = {}
        BY <2>2, <2>3, <3>1 DEF Sums
      <3>2. CASE C # {}
        <4>1. Pick(C) \in C /\ C \ {Pick(C)} \subseteq C /\ C \ {Pick(C)} # C
          BY <3>2, PickIn
        <4>2. Own(C)[C] = f[Pick(C)] + Own(C)[C \ {Pick(C)}]
          <5>1. PICK it : it = Own(C) /\ Sums(f, C, it)
            BY <2>2, <2>3
          <5> QED
            BY <3>2, <5>1 DEF Sums
        <4>3. Own(C)[C \ {Pick(C)}] = Own(C \ {Pick(C)})[C \ {Pick(C)}]
          <5>1. Sums(f, C, Own(C)) /\ IsFiniteSet(C)
            BY <2>2, <2>3
          <5>2. Sums(f, C \ {Pick(C)}, Own(C \ {Pick(C)}))
            BY <2>2, <2>3, <4>1
          <5>3. PICK D : D = C \ {Pick(C)} /\ D \subseteq C
            BY <4>1
          <5>4. PICK it : it = Own(C) /\ Sums(f, C, it)
            BY <5>1
          <5>5. PICK jt : jt = Own(D) /\ Sums(f, D, jt)
            BY <5>2, <5>3
          <5>6. it[D] = jt[D]
            BY <5>1, <5>3, <5>4, <5>5, SumsAgree
          <5> QED
            BY <5>3, <5>4, <5>5, <5>6
        <4> QED
          BY <3>2, <4>2, <4>3
      <3> QED
        BY <3>1, <3>2
    <2>4. ASSUME NEW C \in SUBSET B, C # {}
          PROVE  g[C] = f[Pick(C)] + g[C \ {Pick(C)}]
      <3>1. Pick(C) \in C /\ C \ {Pick(C)} \subseteq C /\ C \ {Pick(C)} # C
        BY <2>4, PickIn
      <3>2. C \ {Pick(C)} \in SUBSET B /\ C \ {Pick(C)} # B
        BY <3>1
      <3>3. g[C \ {Pick(C)}] = Own(C \ {Pick(C)})[C \ {Pick(C)}]
        BY <2>3, <3>2
      <3> QED
        BY <2>4, <3>3
    <2>5. ~({} # {}) /\ ({} \in SUBSET B => g[{}] = 0)
      OBVIOUS
    <2>6. g = [C \in SUBSET B |-> IF C = {} THEN 0 ELSE f[Pick(C)] + g[C \ {Pick(C)}]]
      <3>1. \A C \in SUBSET B :
                g[C] = IF C = {} THEN 0 ELSE f[Pick(C)] + g[C \ {Pick(C)}]
        BY <2>4, <2>5
      <3>2. g = [C \in SUBSET B |-> g[C]]
        OBVIOUS
      <3> HIDE DEF g
      <3> QED
        BY <3>1, <3>2
    <2> QED
      BY <2>1, <2>6 DEF Sums
  <1>2. Bad \subseteq SUBSET A
    OBVIOUS
  <1> HIDE DEF Bad
  <1>3. Bad = {}
    BY <1>1, <1>2, MinimalSubset
  <1> QED
    BY <1>3 DEF Bad

\* A sum, by the element the definition removes.
LEMMA SumStep ==
    ASSUME NEW f, NEW A, IsFiniteSet(A)
    PROVE  SumOver(f, A) = IF A = {} THEN 0 ELSE f[Pick(A)] + SumOver(f, A \ {Pick(A)})
  <1> DEFINE it(B) == CHOOSE x : Sums(f, B, x)
  <1>1. \A B : SumOver(f, B) = it(B)[B]
    BY SumExpands
  <1>2. ASSUME NEW B, B \subseteq A PROVE Sums(f, B, it(B)) /\ IsFiniteSet(B)
    BY <1>2, SumsExist, FS_Subset
  <1> HIDE DEF it
  <1>3. CASE A = {}
    BY <1>1, <1>2, <1>3 DEF Sums
  <1>4. CASE A # {}
    <2>1. Pick(A) \in A /\ A \ {Pick(A)} \subseteq A
      BY <1>4, PickIn
    <2>2. it(A)[A] = f[Pick(A)] + it(A)[A \ {Pick(A)}]
      BY <1>2, <1>4 DEF Sums
    <2>3. it(A)[A \ {Pick(A)}] = it(A \ {Pick(A)})[A \ {Pick(A)}]
      BY <1>2, <2>1, SumsAgree
    <2> QED
      BY <1>1, <1>4, <2>2, <2>3
  <1> QED
    BY <1>3, <1>4

\* A sum of integers, by any element.
LEMMA SumRemoves ==
    ASSUME NEW f, NEW A, IsFiniteSet(A), \A y \in A : f[y] \in Int
    PROVE  /\ SumOver(f, A) \in Int
           /\ \A x \in A : SumOver(f, A) = f[x] + SumOver(f, A \ {x})
  <1> DEFINE Good(B) == /\ SumOver(f, B) \in Int
                        /\ \A x \in B : SumOver(f, B) = f[x] + SumOver(f, B \ {x})
             Bad == {B \in SUBSET A : ~Good(B)}
  <1>1. ASSUME NEW B \in Bad, \A C \in Bad : C \subseteq B => C = B
        PROVE  FALSE
    <2>1. B \in SUBSET A /\ ~Good(B)
      OBVIOUS
    <2>2. ASSUME NEW C, C \subseteq B, C # B PROVE Good(C)
      BY <1>1, <2>1, <2>2
    <2>3. IsFiniteSet(B)
      BY <2>1, FS_Subset
    <2>4. B # {} /\ SumOver(f, B) = f[Pick(B)] + SumOver(f, B \ {Pick(B)})
      <3>1. B = {} => SumOver(f, B) = 0
        BY <2>3, SumStep
      <3>2. B # {}
        BY <2>1, <3>1
      <3> QED
        BY <2>3, <3>2, SumStep
    <2> DEFINE c == Pick(B)
    <2>5. c \in B /\ B \ {c} \subseteq B /\ B \ {c} # B /\ f[c] \in Int
      BY <2>1, <2>4, PickIn
    <2> HIDE DEF Bad, c
    <2>6. Good(B \ {c})
      BY <2>2, <2>5
    <2>7. SumOver(f, B) \in Int /\ SumOver(f, B) = f[c] + SumOver(f, B \ {c})
      BY <2>4, <2>5, <2>6 DEF c
    <2>8. ASSUME NEW x \in B, x # c PROVE SumOver(f, B) = f[x] + SumOver(f, B \ {x})
      <3> DEFINE R == (B \ {c}) \ {x}
      <3>1. Good(B \ {x}) /\ c \in B \ {x} /\ (B \ {x}) \ {c} = R
        BY <2>2, <2>5, <2>8
      <3>2. R \subseteq B /\ R # B
        BY <2>5
      <3>3. Good(R) /\ f[x] \in Int
        BY <2>1, <2>2, <3>2
      <3> HIDE DEF R
      <3>4. SumOver(f, B \ {x}) = f[c] + SumOver(f, R)
        BY <3>1
      <3>5. SumOver(f, B \ {c}) = f[x] + SumOver(f, R)
        BY <2>6, <2>8, <3>1 DEF R
      <3>6. SumOver(f, R) \in Int
        BY <3>3
      <3> QED
        BY <2>5, <2>7, <3>3, <3>4, <3>5, <3>6
    <2> QED
      BY <2>1, <2>7, <2>8
  <1>2. Bad \subseteq SUBSET A
    OBVIOUS
  <1>3. Bad = {}
    <2> HIDE DEF Bad
    <2> QED
      BY <1>1, <1>2, MinimalSubset
  <1>4. A \in SUBSET A
    OBVIOUS
  <1> QED
    BY <1>3, <1>4

\* Functions that agree on a set have the same sum there.
LEMMA SumSame ==
    ASSUME NEW f, NEW g, NEW A, IsFiniteSet(A), \A x \in A : f[x] = g[x]
    PROVE  SumOver(f, A) = SumOver(g, A)
  <1> DEFINE Bad == {B \in SUBSET A : SumOver(f, B) # SumOver(g, B)}
  <1>1. ASSUME NEW B \in Bad, \A C \in Bad : C \subseteq B => C = B
        PROVE  FALSE
    <2>1. B \in SUBSET A /\ SumOver(f, B) # SumOver(g, B)
      OBVIOUS
    <2>2. IsFiniteSet(B)
      BY <2>1, FS_Subset
    <2>3. /\ SumOver(f, B) = IF B = {} THEN 0 ELSE f[Pick(B)] + SumOver(f, B \ {Pick(B)})
          /\ SumOver(g, B) = IF B = {} THEN 0 ELSE g[Pick(B)] + SumOver(g, B \ {Pick(B)})
      BY <2>2, SumStep
    <2>4. B # {}
      BY <2>1, <2>3
    <2>5. Pick(B) \in B /\ B \ {Pick(B)} \subseteq B /\ B \ {Pick(B)} # B
      BY <2>4, PickIn
    <2>6. B \ {Pick(B)} \notin Bad
      BY <1>1, <2>5
    <2>7. SumOver(f, B \ {Pick(B)}) = SumOver(g, B \ {Pick(B)}) /\ f[Pick(B)] = g[Pick(B)]
      BY <2>1, <2>5, <2>6
    <2> QED
      BY <2>1, <2>3, <2>4, <2>7
  <1>2. Bad \subseteq SUBSET A
    OBVIOUS
  <1>3. Bad = {}
    <2> HIDE DEF Bad
    <2> QED
      BY <1>1, <1>2, MinimalSubset
  <1> QED
    BY <1>3

\* What is zero can be left out.
LEMMA SumZeros ==
    ASSUME NEW f, NEW A, IsFiniteSet(A), \A y \in A : f[y] \in Int,
           NEW B, B \subseteq A, \A y \in A \ B : f[y] = 0
    PROVE  SumOver(f, A) = SumOver(f, B)
  <1> DEFINE Bad == {C \in SUBSET A : SumOver(f, C) # SumOver(f, C \cap B)}
  <1>1. ASSUME NEW C \in Bad, \A D \in Bad : D \subseteq C => D = C
        PROVE  FALSE
    <2>1. C \in SUBSET A /\ SumOver(f, C) # SumOver(f, C \cap B)
      OBVIOUS
    <2>2. CASE C \subseteq B
      <3>1. C \cap B = C
        BY <2>2
      <3> QED
        BY <2>1, <3>1
    <2>3. ASSUME NEW x \in C, x \notin B PROVE FALSE
      <3>1. C \ {x} \subseteq C /\ C \ {x} # C /\ C \ {x} \in SUBSET A
        BY <2>1, <2>3
      <3>2. SumOver(f, C \ {x}) = SumOver(f, (C \ {x}) \cap B)
        BY <1>1, <3>1
      <3>3. (C \ {x}) \cap B = C \cap B
        BY <2>3
      <3>4. IsFiniteSet(C) /\ IsFiniteSet(C \ {x}) /\ f[x] = 0
        BY <2>1, <2>3, <3>1, FS_Subset
      <3>5. SumOver(f, C) = f[x] + SumOver(f, C \ {x}) /\ SumOver(f, C \ {x}) \in Int
        BY <2>1, <2>3, <3>1, <3>4, SumRemoves
      <3>6. SumOver(f, C) = SumOver(f, C \ {x})
        BY <3>4, <3>5
      <3> QED
        BY <2>1, <3>2, <3>3, <3>6
    <2> QED
      BY <2>2, <2>3
  <1>2. Bad \subseteq SUBSET A
    OBVIOUS
  <1> HIDE DEF Bad
  <1>3. Bad = {}
    BY <1>1, <1>2, MinimalSubset
  <1>4. SumOver(f, A) = SumOver(f, A \cap B)
    BY <1>3 DEF Bad
  <1>5. A \cap B = B
    OBVIOUS
  <1> QED
    BY <1>4, <1>5

\* One entry changes: so does the sum.
LEMMA SumChanges ==
    ASSUME NEW f, NEW g, NEW A, IsFiniteSet(A),
           \A y \in A : f[y] \in Int /\ g[y] \in Int,
           NEW x \in A, \A y \in A : y # x => g[y] = f[y]
    PROVE  /\ SumOver(f, A) \in Int
           /\ SumOver(g, A) = SumOver(f, A) + (g[x] - f[x])
  <1> DEFINE R == A \ {x}
  <1>1. IsFiniteSet(R) /\ \A y \in R : f[y] = g[y]
    BY FS_Subset
  <1>2. SumOver(f, R) = SumOver(g, R)
    BY <1>1, SumSame
  <1>3. SumOver(f, R) \in Int
    BY <1>1, SumRemoves
  <1>4. SumOver(f, A) = f[x] + SumOver(f, R) /\ SumOver(g, A) = g[x] + SumOver(g, R)
    BY SumRemoves
  <1> HIDE DEF R
  <1> QED
    BY <1>2, <1>3, <1>4

-----------------------------------------------------------------------------
(* What the system account holds.  However handlers overlap and whatever    *)
(* fails, it holds its own funds and what the ledger took in escrow and has *)
(* not paid out or given back since: only escrowDeductForOrder and the two  *)
(* settlements touch it, each in a transaction with its ledger row.         *)

Kept(l) == l.escrow - l.paid - l.refunded
KeptIn(rows) == [o \in Orders |-> Kept(rows[o])]

\* The account holds b, the ledger is rows, and only orders of A have money in it.
Backs(b, rows, A) ==
    /\ A \in SUBSET Orders /\ IsFiniteSet(A)
    /\ \A o \in Orders \ A : Kept(rows[o]) = 0
    /\ b = InitialBalance + SumOver(KeptIn(rows), A)

\* Neither the buyer of an order nor whoever is placing one is the system account.
OthersBuy ==
    /\ \A o \in Orders : order[o].status # "none" => order[o].buyer # System
    /\ \A p \in Procs : Placing(job[p]) => job[p].by # System

AccountInv == OthersBuy /\ \E A \in SUBSET Orders : Backs(balance[System], ledger, A)

LEMMA KeptType == \A rows \in [Orders -> LedgerRow] : \A o \in Orders : KeptIn(rows)[o] \in Int
  <1> SUFFICES ASSUME NEW rows \in [Orders -> LedgerRow], NEW o \in Orders
               PROVE  KeptIn(rows)[o] \in Int
    OBVIOUS
  <1>1. rows[o] \in LedgerRow
    OBVIOUS
  <1>2. KeptIn(rows)[o] = Kept(rows[o])
    BY DEF KeptIn
  <1> QED
    BY <1>1, <1>2 DEF Kept, LedgerRow

\* A transaction that moves the account by what it writes in one ledger row.
LEMMA BacksMove ==
    ASSUME NEW b \in Int, NEW c \in Int,
           NEW rows \in [Orders -> LedgerRow], NEW new \in [Orders -> LedgerRow],
           NEW A, Backs(b, rows, A), NEW o \in Orders,
           \A i \in Orders : i # o => new[i] = rows[i],
           c - b = Kept(new[o]) - Kept(rows[o])
    PROVE  Backs(c, new, A \cup {o})
  <1> DEFINE B == A \cup {o}
             f == KeptIn(rows)
             g == KeptIn(new)
  <1>1. \A i \in Orders : /\ f[i] = Kept(rows[i]) /\ g[i] = Kept(new[i])
                          /\ f[i] \in Int /\ g[i] \in Int
    <2>1. \A i \in Orders : f[i] = Kept(rows[i]) /\ g[i] = Kept(new[i])
      BY DEF KeptIn
    <2> QED
      BY <2>1, KeptType
  <1>2. B \in SUBSET Orders /\ IsFiniteSet(B) /\ o \in B /\ A \subseteq B
    BY FS_AddElement DEF Backs
  <1>3. \A i \in B \ A : f[i] = 0
    BY <1>1, <1>2 DEF Backs
  <1>4. \A i \in Orders \ B : Kept(new[i]) = 0
    BY DEF Backs
  <1>5. \A i \in B : i # o => g[i] = f[i]
    BY <1>1, <1>2
  <1>6. b = InitialBalance + SumOver(f, A) /\ c - b = g[o] - f[o] /\ InitialBalance \in Int
    BY <1>1, BoundsAssumption DEF Backs
  <1> HIDE DEF B, f, g
  <1>7. SumOver(f, B) = SumOver(f, A)
    BY <1>1, <1>2, <1>3, SumZeros
  <1>8. SumOver(f, B) \in Int /\ SumOver(g, B) = SumOver(f, B) + (g[o] - f[o])
    BY <1>1, <1>2, <1>5, SumChanges
  <1>9. c = InitialBalance + SumOver(g, B)
    BY <1>1, <1>6, <1>7, <1>8
  <1> QED
    BY <1>2, <1>4, <1>9 DEF Backs, B, g

LEMMA InitAccount == Init => AccountInv
  <1> SUFFICES ASSUME Init PROVE AccountInv
    OBVIOUS
  <1>1. OthersBuy
    <2>1. \A o \in Orders : order[o].status = "none"
      BY DEF Init, Absent
    <2>2. \A p \in Procs : ~Placing(job[p])
      BY DEF Init, Idle, Placing
    <2> QED
      BY <2>1, <2>2 DEF OthersBuy
  <1>2. Backs(balance[System], ledger, {})
    <2>1. balance[System] = InitialBalance /\ InitialBalance \in Int
      BY BoundsAssumption DEF Init, Agents
    <2>2. IsFiniteSet({}) /\ {} \in SUBSET Orders
      BY FS_EmptySet
    <2>3. SumOver(KeptIn(ledger), {}) = 0
      BY <2>2, SumStep
    <2>4. ASSUME NEW o \in Orders PROVE Kept(ledger[o]) = 0
      <3>1. ledger[o] = [escrow |-> 0, paid |-> 0, refunded |-> 0]
        BY DEF Init
      <3> QED
        BY <3>1 DEF Kept
    <2> QED
      BY <2>1, <2>2, <2>3, <2>4 DEF Backs
  <1> QED
    BY <1>1, <1>2 DEF AccountInv

\* A step that keeps the account and the ledger.
LEMMA BacksSame ==
    ASSUME AccountInv, OthersBuy', UNCHANGED <<ledger, balance>>
    PROVE  AccountInv'
  <1>1. PICK A \in SUBSET Orders : Backs(balance[System], ledger, A)
    BY DEF AccountInv
  <1>2. Backs(balance'[System], ledger', A)
    BY <1>1
  <1> QED
    BY <1>2 DEF AccountInv, Backs

\* A step that moves it by what it writes in the ledger row of o.
LEMMA BacksStep ==
    ASSUME TypeOK, TypeOK', AccountInv, OthersBuy', NEW o \in Orders,
           \A i \in Orders : i # o => ledger'[i] = ledger[i],
           balance'[System] - balance[System] = Kept(ledger'[o]) - Kept(ledger[o])
    PROVE  AccountInv'
  <1>1. PICK A \in SUBSET Orders : Backs(balance[System], ledger, A)
    BY DEF AccountInv
  <1>2. /\ balance[System] \in Int /\ balance'[System] \in Int
        /\ ledger \in [Orders -> LedgerRow] /\ ledger' \in [Orders -> LedgerRow]
    BY DEF TypeOK, Agents
  <1>3. Backs(balance'[System], ledger', A \cup {o})
    BY <1>1, <1>2, BacksMove
  <1>4. PICK B \in SUBSET Orders : B = A \cup {o}
    OBVIOUS
  <1>5. Backs(balance'[System], ledger', B)
    BY <1>3, <1>4
  <1> QED
    BY <1>5 DEF AccountInv, Backs

\* Rows that open an order, and handlers that start placing one, name a buyer.
LEMMA BuyersStep ==
    ASSUME TypeInv, EscrowInv, OthersBuy, [Next]_vars
    PROVE  OthersBuy'
  <1>1. TypeOK /\ JobOK
    BY DEF TypeInv
  <1>2. ASSUME UNCHANGED order,
               \A p \in Procs : Placing(job'[p]) => /\ Placing(job[p])
                                                    /\ job'[p].by = job[p].by
        PROVE  OthersBuy'
    BY <1>2 DEF OthersBuy
  <1>3. ASSUME NEW p \in Procs, NEW j, job' = [job EXCEPT ![p] = j],
               Placing(j) => j.by # System,
               \A o \in Orders : order'[o].status # "none" => order'[o].buyer # System
        PROVE  OthersBuy'
    BY <1>1, <1>3 DEF OthersBuy, TypeOK
  <1>4. \A o \in Orders : order[o].status # "none" => order[o].buyer # System
    BY DEF OthersBuy
  <1>5. ASSUME NEW p \in Http, Request(p)
        PROVE  OthersBuy'
    <2>1. p \in Procs /\ UNCHANGED order
      BY <1>5 DEF Procs, Request, PlaceRead, MoveRead, CompleteRead, CancelRead, ResolveRead,
                  UploadRead, GigRead
    <2>2. PICK j : Start(p, j) /\ (Placing(j) => j.by # System)
      <3>1. ASSUME NEW b \in Buyers, NEW o \in Orders, PlaceRead(p, b, o)
            PROVE  \E j : Start(p, j) /\ (Placing(j) => j.by # System)
        <4>1. b # System
          BY AgentsAssumption
        <4>2. [Idle EXCEPT !.op = "place", !.pc = "escrow", !.ord = o,
                           !.by = b, !.price = gig.price].by = b
          BY DEF Idle
        <4> QED
          BY <3>1, <4>1, <4>2 DEF PlaceRead
      <3>2. ASSUME NEW j, Start(p, j), ~Placing(j)
            PROVE  \E k : Start(p, k) /\ (Placing(k) => k.by # System)
        BY <3>2
      <3>3. ASSUME NEW o \in Orders, NEW to \in Status, MoveRead(p, o, to)
            PROVE  \E j : Start(p, j) /\ ~Placing(j)
        <4>1. ~Placing([Idle EXCEPT !.op = "move", !.pc = "status", !.ord = o, !.to = to,
                             !.revisions = order[o].revisions])
          BY DEF Placing, Idle
        <4> QED
          BY <3>3, <4>1 DEF MoveRead
      <3>4. ASSUME NEW o \in Orders, CompleteRead(p, o)
            PROVE  \E j : Start(p, j) /\ ~Placing(j)
        <4>1. ~Placing([Idle EXCEPT !.op = "complete", !.pc = "settle", !.ord = o,
                             !.to = "completed"])
          BY DEF Placing, Idle
        <4> QED
          BY <3>4, <4>1 DEF CompleteRead
      <3>5. ASSUME NEW o \in Orders, NEW who \in Buyers \cup {Seller}, CancelRead(p, o, who)
            PROVE  \E j : Start(p, j) /\ ~Placing(j)
        <4>1. ~Placing([Idle EXCEPT !.op = "cancel", !.pc = "settle", !.ord = o,
                             !.to = "cancelled"])
          BY DEF Placing, Idle
        <4> QED
          BY <3>5, <4>1 DEF CancelRead
      <3>6. ASSUME NEW o \in Orders, NEW outcome \in Terminal, ResolveRead(p, o, outcome)
            PROVE  \E j : Start(p, j) /\ ~Placing(j)
        <4>1. ~Placing([Idle EXCEPT !.op = "resolve", !.pc = "tx", !.ord = o, !.to = outcome])
          BY DEF Placing, Idle
        <4> QED
          BY <3>6, <4>1 DEF ResolveRead
      <3>7. ASSUME NEW op \in {"editGig", "closeGig"}, GigRead(p, op)
            PROVE  \E j : Start(p, j) /\ ~Placing(j)
        <4>1. ~Placing([Idle EXCEPT !.op = op, !.pc = "count"])
          BY DEF Placing, Idle
        <4> QED
          BY <3>7, <4>1 DEF GigRead
      <3>8. ASSUME NEW o \in Orders, UploadRead(p, o)
            PROVE  \E j : Start(p, j) /\ ~Placing(j)
        <4>1. ~Placing([Idle EXCEPT !.op = "upload", !.pc = "file", !.ord = o])
          BY DEF Placing, Idle
        <4> QED
          BY <3>8, <4>1 DEF UploadRead
      <3> QED
        BY <1>5, <3>1, <3>2, <3>3, <3>4, <3>5, <3>6, <3>7, <3>8 DEF Request
    <2> QED
      BY <1>3, <1>4, <2>1, <2>2 DEF Start
  <1>6. ASSUME NEW p \in Cron, Tick(p)
        PROVE  OthersBuy'
    <2>1. PICK from \in DOMAIN SweepOutcome, rows \in SUBSET Orders : SweepSelect(p, from, rows)
      BY <1>6 DEF Tick
    <2>2. ~Placing([Idle EXCEPT !.op = "sweep", !.pc = "next", !.from = from,
                                !.to = SweepOutcome[from], !.rows = rows])
      BY DEF Placing, Idle
    <2>3. p \in Procs /\ UNCHANGED order
      BY <2>1 DEF Procs, SweepSelect
    <2>4. \E j : Start(p, j) /\ ~Placing(j)
      BY <2>1, <2>2 DEF SweepSelect
    <2> QED
      BY <1>3, <1>4, <2>3, <2>4 DEF Start
  <1>7. ASSUME NEW p \in Procs, Step(p)
        PROVE  OthersBuy'
    <2> DEFINE o == job[p].ord
    <2>0. job[p] \in Job /\ Finished(p).pc \in {"idle", "next"}
      BY <1>1, FinishedType DEF TypeOK
    <2>1. ASSUME Finish(p), \A i \in Orders : order'[i].status # "none"
                                                  => order'[i].buyer # System
          PROVE  OthersBuy'
      BY <1>3, <2>0, <2>1 DEF Finish, Placing
    <2>2. ASSUME NEW pc, Goto(p, pc), Placing([job[p] EXCEPT !.pc = pc]) => Placing(job[p]),
                 \A i \in Orders : order'[i].status # "none" => order'[i].buyer # System
          PROVE  OthersBuy'
      <3>1. job' = [job EXCEPT ![p] = [job[p] EXCEPT !.pc = pc]]
        BY <1>1, <2>2 DEF Goto, TypeOK
      <3>2. [job[p] EXCEPT !.pc = pc].by = job[p].by
        BY <2>0 DEF Job
      <3>3. Placing(job[p]) => job[p].by # System
        BY DEF OthersBuy
      <3> QED
        BY <1>3, <2>2, <3>1, <3>2, <3>3
    <2>3. ASSUME NEW pc \in Pc \ {"escrow", "insert"}
          PROVE  ~Placing([job[p] EXCEPT !.pc = pc])
      BY <2>0 DEF Job, Placing
    <2>4. CASE PlaceEscrow(p)
      <3>1. Placing(job[p]) /\ UNCHANGED order
        BY <2>4 DEF PlaceEscrow, At, Placing
      <3> QED
        BY <1>4, <2>1, <2>2, <2>4, <3>1 DEF PlaceEscrow
    <2>5. CASE PlaceInsert(p)
      <3>1. job[p].by # System
        BY <2>5 DEF PlaceInsert, At, Placing, OthersBuy
      <3>2. \A i \in Orders : order'[i].status # "none" => order'[i].buyer # System
        BY <1>1, <1>4, <2>5, <3>1 DEF PlaceInsert, TypeOK
      <3> QED
        BY <2>1, <2>5, <3>2 DEF PlaceInsert
    <2>6. CASE MoveWrite(p)
      <3>1. order[o].status # "none" /\ o \in Orders
        BY <1>1, <2>6 DEF MoveWrite, At, EscrowInv, OthersOnRows, OnRow, Placing, JobOK, OnOrder
      <3>2. \A i \in Orders : order'[i].status # "none" => order'[i].buyer # System
        BY <1>1, <1>4, <2>6, <3>1 DEF MoveWrite, TypeOK, OrderRow
      <3> QED
        BY <2>1, <2>6, <3>2 DEF MoveWrite
    <2>7. CASE TerminalWrite(p)
      <3>1. order[o].status # "none" /\ o \in Orders
        BY <1>1, <2>7
        DEF TerminalWrite, At, EscrowInv, OthersOnRows, OnRow, Placing, JobOK, OnOrder
      <3>2. \A i \in Orders : order'[i].status # "none" => order'[i].buyer # System
        BY <1>1, <1>4, <2>7, <3>1 DEF TerminalWrite, TypeOK, OrderRow
      <3>3. "stats" \in Pc \ {"escrow", "insert"}
        BY DEF Pc
      <3> QED
        BY <2>1, <2>2, <2>3, <2>7, <3>2, <3>3 DEF TerminalWrite
    <2>8. CASE ResolveTx(p)
      <3>1. \A i \in Orders : order'[i].status # "none" => order'[i].buyer # System
        <4>1. CASE UNCHANGED order
          BY <1>4, <4>1
        <4>2. CASE StillDisputed(o) /\ order' = [order EXCEPT ![o].status = job[p].to]
          <5>1. o \in Orders
            BY <1>1, <2>8 DEF ResolveTx, At, JobOK, OnOrder
          <5>2. order[o].status # "none"
            BY <4>2 DEF StillDisputed
          <5> QED
            BY <1>1, <1>4, <4>2, <5>1, <5>2 DEF TypeOK, OrderRow
        <4> QED
          BY <2>8, <4>1, <4>2 DEF ResolveTx
      <3>2. "settle" \in Pc \ {"escrow", "insert"}
        BY DEF Pc
      <3> QED
        BY <2>1, <2>2, <2>3, <2>8, <3>1, <3>2 DEF ResolveTx
    <2>9. ASSUME NEW r \in Orders, SweepUpdate(p, r)
          PROVE  OthersBuy'
      <3> DEFINE j == [job[p] EXCEPT !.ord = r, !.rows = @ \ {r}, !.pc = "settle"]
      <3>1. job' = [job EXCEPT ![p] = j] /\ ~Placing(j)
        BY <1>1, <2>0, <2>9 DEF SweepUpdate, TypeOK, Job, Placing
      <3>2. job[p].from # "none"
        BY <2>0 DEF Job, Status, Terminal
      <3>3. \A i \in Orders : order'[i].status # "none" => order'[i].buyer # System
        BY <1>1, <1>4, <2>9, <3>2 DEF SweepUpdate, TypeOK, OrderRow
      <3> HIDE DEF j
      <3> QED
        BY <1>3, <3>1, <3>3
    <2>10. CASE Settle(p)
      <3>1. AfterSettle(job[p]) \in Pc \ {"escrow", "insert"} /\ UNCHANGED order
        BY <2>0, <2>10 DEF AfterSettle, Pc, Settle
      <3> QED
        BY <1>4, <2>1, <2>2, <2>3, <2>10, <3>1 DEF Settle
    <2>11. CASE Stats(p) \/ Reputation(p) \/ UploadWrite(p) \/ GigCount(p) \/ GigWrite(p)
      <3>1. {"rep", "write"} \subseteq Pc \ {"escrow", "insert"}
        BY DEF Pc
      <3>2. Finish(p) \/ Goto(p, "rep") \/ Goto(p, "write")
        BY <2>11 DEF Stats, Reputation, UploadWrite, GigCount, GigWrite
      <3>3. UNCHANGED order
        BY <2>11 DEF Stats, Reputation, UploadWrite, GigCount, GigWrite
      <3> QED
        BY <1>4, <2>1, <2>2, <2>3, <3>1, <3>2, <3>3
    <2> QED
      BY <1>7, <2>4, <2>5, <2>6, <2>7, <2>8, <2>9, <2>10, <2>11 DEF Step
  <1>8. CASE (\E p \in Procs : Fail(p)) \/ Crash
    <2>1. UNCHANGED order
      BY <1>8 DEF Fail, Crash
    <2>2. ASSUME NEW p \in Procs, Fail(p)
          PROVE  OthersBuy'
      <3>1. job[p] \in Job /\ Finished(p).pc \in {"idle", "next"}
        BY <1>1, FinishedType DEF TypeOK
      <3>2. CASE Finish(p)
        BY <1>3, <1>4, <2>1, <3>1, <3>2 DEF Finish, Placing
      <3>3. ASSUME At(p, "next"), NEW r \in job[p].rows,
                   job' = [job EXCEPT ![p] = IF job[p].rows = {r} THEN Idle
                                             ELSE [job[p] EXCEPT !.rows = @ \ {r}]]
            PROVE  OthersBuy'
        <4>1. ~Placing(IF job[p].rows = {r} THEN Idle ELSE [job[p] EXCEPT !.rows = @ \ {r}])
          BY <3>1, <3>3 DEF At, Placing, Idle, Job
        <4> QED
          BY <1>3, <1>4, <2>1, <3>3, <4>1
      <3> QED
        BY <2>2, <3>2, <3>3 DEF Fail
    <2>3. CASE Crash
      BY <1>2, <2>1, <2>3 DEF Crash, Placing, Idle
    <2> QED
      BY <1>8, <2>2, <2>3
  <1>9. CASE UNCHANGED vars
    BY <1>9 DEF vars, OthersBuy
  <1> QED
    BY <1>5, <1>6, <1>7, <1>8, <1>9 DEF Next

LEMMA NextAccount == TypeInv /\ EscrowInv /\ AccountInv /\ [Next]_vars => AccountInv'
  <1> SUFFICES ASSUME TypeInv, EscrowInv, AccountInv, [Next]_vars PROVE AccountInv'
    OBVIOUS
  <1>1. TypeOK /\ JobOK /\ TypeOK' /\ OthersBuy /\ OthersBuy'
    BY NextTypeInv, BuyersStep DEF TypeInv, AccountInv
  <1>2. System # Seller
    BY AgentsAssumption
  <1>3. ASSUME NEW p \in Procs, PlaceEscrow(p)
        PROVE  AccountInv'
    <2> DEFINE o == job[p].ord
               b == job[p].by
               price == job[p].price
    <2>1. /\ o \in Orders /\ price \in Int /\ b # System /\ b \in Agents
          /\ ledger[o] \in LedgerRow
      BY <1>1, <1>3 DEF PlaceEscrow, At, JobOK, OnOrder, TypeOK, Job, OthersBuy, Placing
    <2>2. CASE ledger' = [ledger EXCEPT ![o].escrow = @ + price]
               /\ balance' = [balance EXCEPT ![b] = @ - price, ![System] = @ + price]
      <3>1. /\ \A i \in Orders : i # o => ledger'[i] = ledger[i]
            /\ Kept(ledger'[o]) - Kept(ledger[o]) = price
        BY <1>1, <2>1, <2>2 DEF TypeOK, LedgerRow, Kept
      <3>2. balance'[System] - balance[System] = price
        BY <1>1, <2>1, <2>2 DEF TypeOK, Agents
      <3> QED
        BY <1>1, <2>1, <3>1, <3>2, BacksStep
    <2> QED
      BY <1>1, <1>3, <2>2, BacksSame DEF PlaceEscrow
  <1>4. ASSUME NEW p \in Procs, Settle(p)
        PROVE  AccountInv'
    <2> DEFINE o == job[p].ord
               price == order[o].price
    <2>1. /\ o \in Orders /\ price \in Int /\ ledger[o] \in LedgerRow
          /\ Net(price) \in Int /\ order[o].buyer \in Agents /\ order[o].buyer # System
      <3>1. o \in Orders /\ order[o].status # "none"
        BY <1>1, <1>4
        DEF Settle, At, JobOK, OnOrder, EscrowInv, OthersOnRows, OnRow, Placing
      <3> QED
        BY <1>1, <3>1, NetType DEF TypeOK, OrderRow, OthersBuy
    <2>2. CASE /\ ledger' = [ledger EXCEPT ![o].paid = @ + price]
               /\ balance' = [balance EXCEPT ![System] = @ - price, ![Seller] = @ + Net(price)]
      <3>1. /\ \A i \in Orders : i # o => ledger'[i] = ledger[i]
            /\ Kept(ledger'[o]) - Kept(ledger[o]) = -price
        BY <1>1, <2>1, <2>2 DEF TypeOK, LedgerRow, Kept
      <3>2. balance'[System] - balance[System] = -price
        BY <1>1, <1>2, <2>1, <2>2 DEF TypeOK, Agents
      <3> QED
        BY <1>1, <2>1, <3>1, <3>2, BacksStep
    <2>3. CASE /\ ledger' = [ledger EXCEPT ![o].refunded = @ + price]
               /\ balance' = [balance EXCEPT ![System] = @ - price,
                                             ![order[o].buyer] = @ + price]
      <3>1. /\ \A i \in Orders : i # o => ledger'[i] = ledger[i]
            /\ Kept(ledger'[o]) - Kept(ledger[o]) = -price
        BY <1>1, <2>1, <2>3 DEF TypeOK, LedgerRow, Kept
      <3>2. balance'[System] - balance[System] = -price
        BY <1>1, <2>1, <2>3 DEF TypeOK, Agents
      <3> QED
        BY <1>1, <2>1, <3>1, <3>2, BacksStep
    <2> QED
      BY <1>1, <1>4, <2>2, <2>3, BacksSame DEF Settle, SettleAmount, SystemDebit
  <1>5. CASE UNCHANGED <<ledger, balance>>
    BY <1>1, <1>5, BacksSame
  <1> QED
    BY <1>3, <1>4, <1>5
    DEF Next, vars, Request, PlaceRead, MoveRead, CompleteRead, CancelRead, ResolveRead,
        UploadRead, GigRead, Tick, SweepSelect, Fail, Crash, Step, PlaceInsert, MoveWrite,
        TerminalWrite, Stats, Reputation, ResolveTx, UploadWrite, SweepUpdate, GigCount,
        GigWrite

\* The system account holds its own funds and the points in escrow, whichever
\* handlers overlap, throw or die: a double settlement or an escrow without an
\* order shows in the ledger (transfer.ts, each movement in one transaction
\* with its ledger row).
THEOREM AccountIsBacked == Spec => []AccountInv
  BY InitTypeInv, NextTypeInv, InitEscrowInv, NextEscrowInv, InitAccount, NextAccount, PTL
  DEF Spec

-----------------------------------------------------------------------------
(* One handler at a time: a gig that is closed has no active order.  The    *)
(* gig stays open while an order is being placed on it, and no order is     *)
(* active between the count of a DELETE and its update.                     *)

\* What handler j knows of the gig and of its orders.
KnowsGig(j, open, orders) ==
    /\ Placing(j) => open
    /\ j.pc = "write" => \A o \in Orders : orders[o].status \notin Active

GigInv == /\ ClosedGigIsIdle
          /\ \A p \in Procs : KnowsGig(job[p], gig.open, order)

\* The handler that runs alone becomes j.
LEMMA GigStep ==
    ASSUME TypeInv, NEW p \in Procs, Alone(p), NEW j, job' = [job EXCEPT ![p] = j],
           ClosedGigIsIdle', KnowsGig(j, gig'.open, order')
    PROVE  GigInv'
  <1>1. /\ job'[p] = j
        /\ \A q \in Procs : q # p => job'[q] = Idle
    BY DEF TypeInv, TypeOK, Alone
  <1>2. KnowsGig(Idle, gig'.open, order')
    BY DEF KnowsGig, Idle, Placing
  <1> QED
    BY <1>1, <1>2 DEF GigInv

\* The same, when no order becomes active and the gig stays as it is.
LEMMA GigQuiet ==
    ASSUME TypeInv, GigInv, NEW p \in Procs, Alone(p), NEW j, job' = [job EXCEPT ![p] = j],
           gig' = gig, ~Placing(j), j.pc # "write",
           \A o \in Orders : order'[o].status \in Active => order[o].status \in Active
    PROVE  GigInv'
  <1>1. ClosedGigIsIdle'
    BY DEF GigInv, ClosedGigIsIdle
  <1>2. KnowsGig(j, gig'.open, order')
    BY DEF KnowsGig
  <1> QED
    BY <1>1, <1>2, GigStep

LEMMA GigStart ==
    ASSUME ~Concurrent, TypeInv, GigInv, NEW p \in Procs, NEW j, Start(p, j),
           UNCHANGED <<gig, order>>, j.pc # "write", Placing(j) => gig.open
    PROVE  GigInv'
  <1>1. Alone(p) /\ job' = [job EXCEPT ![p] = j]
    BY DEF Start, Alone
  <1>2. ClosedGigIsIdle'
    BY DEF GigInv, ClosedGigIsIdle
  <1>3. KnowsGig(j, gig'.open, order')
    BY DEF KnowsGig
  <1> QED
    BY <1>1, <1>2, <1>3, GigStep

LEMMA RequestGig ==
    ASSUME ~Concurrent, TypeInv, GigInv, NEW p \in Http, Request(p)
    PROVE  GigInv'
  <1>1. p \in Procs /\ UNCHANGED <<gig, order>>
    BY DEF Procs, Request, PlaceRead, MoveRead, CompleteRead, CancelRead, ResolveRead,
           UploadRead, GigRead
  <1>2. ASSUME NEW b \in Buyers, NEW o \in Orders, PlaceRead(p, b, o)
        PROVE  GigInv'
    <2> DEFINE j == [Idle EXCEPT !.op = "place", !.pc = "escrow", !.ord = o,
                                 !.by = b, !.price = gig.price]
    <2>1. j.pc # "write"
      BY DEF Idle
    <2> QED
      BY <1>1, <1>2, <2>1, GigStart DEF PlaceRead
  <1>3. ASSUME NEW j, Start(p, j), ~Placing(j), j.pc # "write"
        PROVE  GigInv'
    BY <1>1, <1>3, GigStart
  <1>4. ASSUME NEW o \in Orders, NEW to \in Status, MoveRead(p, o, to)
        PROVE  GigInv'
    <2> DEFINE j == [Idle EXCEPT !.op = "move", !.pc = "status", !.ord = o, !.to = to,
                                 !.revisions = order[o].revisions]
    <2>1. ~Placing(j) /\ j.pc # "write"
      BY DEF Idle, Placing
    <2> QED
      BY <1>3, <1>4, <2>1 DEF MoveRead
  <1>5. ASSUME NEW o \in Orders, CompleteRead(p, o)
        PROVE  GigInv'
    <2> DEFINE j == [Idle EXCEPT !.op = "complete", !.pc = "settle", !.ord = o,
                                 !.to = "completed"]
    <2>1. ~Placing(j) /\ j.pc # "write"
      BY DEF Idle, Placing
    <2> QED
      BY <1>3, <1>5, <2>1 DEF CompleteRead
  <1>6. ASSUME NEW o \in Orders, NEW who \in Buyers \cup {Seller}, CancelRead(p, o, who)
        PROVE  GigInv'
    <2> DEFINE j == [Idle EXCEPT !.op = "cancel", !.pc = "settle", !.ord = o,
                                 !.to = "cancelled"]
    <2>1. ~Placing(j) /\ j.pc # "write"
      BY DEF Idle, Placing
    <2> QED
      BY <1>3, <1>6, <2>1 DEF CancelRead
  <1>7. ASSUME NEW o \in Orders, NEW outcome \in Terminal, ResolveRead(p, o, outcome)
        PROVE  GigInv'
    <2> DEFINE j == [Idle EXCEPT !.op = "resolve", !.pc = "tx", !.ord = o, !.to = outcome]
    <2>1. ~Placing(j) /\ j.pc # "write"
      BY DEF Idle, Placing
    <2> QED
      BY <1>3, <1>7, <2>1 DEF ResolveRead
  <1>8. ASSUME NEW op \in {"editGig", "closeGig"}, GigRead(p, op)
        PROVE  GigInv'
    <2> DEFINE j == [Idle EXCEPT !.op = op, !.pc = "count"]
    <2>1. ~Placing(j) /\ j.pc # "write"
      BY DEF Idle, Placing
    <2> QED
      BY <1>3, <1>8, <2>1 DEF GigRead
  <1>9. ASSUME NEW o \in Orders, UploadRead(p, o)
        PROVE  GigInv'
    <2> DEFINE j == [Idle EXCEPT !.op = "upload", !.pc = "file", !.ord = o]
    <2>1. ~Placing(j) /\ j.pc # "write"
      BY DEF Idle, Placing
    <2> QED
      BY <1>3, <1>9, <2>1 DEF UploadRead
  <1> QED
    BY <1>2, <1>4, <1>5, <1>6, <1>7, <1>8, <1>9 DEF Request

LEMMA TickGig ==
    ASSUME ~Concurrent, TypeInv, GigInv, NEW p \in Cron, Tick(p)
    PROVE  GigInv'
  <1>1. PICK from \in DOMAIN SweepOutcome, rows \in SUBSET Orders : SweepSelect(p, from, rows)
    BY DEF Tick
  <1> DEFINE j == [Idle EXCEPT !.op = "sweep", !.pc = "next", !.from = from,
                               !.to = SweepOutcome[from], !.rows = rows]
  <1>2. ~Placing(j) /\ j.pc # "write"
    BY DEF Idle, Placing
  <1> QED
    BY <1>1, <1>2, GigStart DEF SweepSelect, Procs

LEMMA StepGig ==
    ASSUME TypeInv, EscrowInv, SerialInv, GigInv, NEW p \in Procs, Step(p)
    PROVE  GigInv'
  <1> DEFINE o == job[p].ord
             Moved(pc) == [job[p] EXCEPT !.pc = pc]
  <1>1. TypeOK /\ JobOK /\ job[p] \in Job /\ Knows(job[p], order)
    BY DEF TypeInv, TypeOK, SerialInv
  <1>2. Alone(p)
    <2>1. job[p].pc # "idle"
      BY DEF Step, PlaceEscrow, PlaceInsert, MoveWrite, Settle, TerminalWrite, Stats, Reputation,
             ResolveTx, UploadWrite, SweepUpdate, GigCount, GigWrite, At
    <2> QED
      BY <2>1 DEF SerialInv, Idle
  <1>3. Finished(p).pc \in {"idle", "next"}
    BY <1>1, FinishedType
  <1>4. ASSUME Finish(p), gig' = gig,
               \A i \in Orders : order'[i].status \in Active => order[i].status \in Active
        PROVE  GigInv'
    BY <1>2, <1>3, <1>4, GigQuiet DEF Finish, Placing
  <1>5. ASSUME NEW pc \in Pc \ {"escrow", "insert", "write"}, Goto(p, pc), gig' = gig,
               \A i \in Orders : order'[i].status \in Active => order[i].status \in Active
        PROVE  GigInv'
    <2>1. job' = [job EXCEPT ![p] = Moved(pc)]
      BY <1>1, <1>5 DEF Goto, TypeOK
    <2>2. ~Placing(Moved(pc)) /\ Moved(pc).pc # "write"
      BY <1>1, <1>5 DEF Placing, Job
    <2> HIDE DEF Moved
    <2> QED
      BY <1>2, <1>5, <2>1, <2>2, GigQuiet
  <1>6. CASE PlaceEscrow(p)
    <2>1. UNCHANGED <<gig, order>> /\ job[p].pc = "escrow"
      BY <1>6 DEF PlaceEscrow, At
    <2>2. CASE Goto(p, "insert")
      <3>1. job' = [job EXCEPT ![p] = Moved("insert")]
        BY <1>1, <2>2 DEF Goto, TypeOK
      <3>2. Moved("insert").pc = "insert"
        BY <1>1 DEF Job
      <3>3. KnowsGig(Moved("insert"), gig'.open, order')
        BY <2>1, <3>2 DEF KnowsGig, GigInv, Placing
      <3>4. ClosedGigIsIdle'
        BY <2>1 DEF GigInv, ClosedGigIsIdle
      <3> HIDE DEF Moved
      <3> QED
        BY <1>2, <3>1, <3>3, <3>4, GigStep
    <2> QED
      BY <1>4, <1>6, <2>1, <2>2 DEF PlaceEscrow
  <1>7. CASE PlaceInsert(p)
    <2>1. gig' = gig /\ gig.open /\ Finish(p)
      BY <1>7 DEF PlaceInsert, At, GigInv, KnowsGig, Placing
    <2>2. ClosedGigIsIdle'
      BY <2>1 DEF ClosedGigIsIdle
    <2>3. KnowsGig(Finished(p), gig'.open, order')
      BY <1>3 DEF KnowsGig, Placing
    <2> QED
      BY <1>2, <2>1, <2>2, <2>3, GigStep DEF Finish
  <1>8. CASE MoveWrite(p)
    <2>1. /\ o \in Orders /\ order[o].status \notin Terminal /\ order[o].status # "none"
          /\ order[o].status \in Status \cup {"none"}
      BY <1>1, <1>8
      DEF MoveWrite, At, JobOK, OnOrder, EscrowInv, OthersOnRows, OnRow, Placing, Knows, TypeOK,
          OrderRow
    <2>2. order[o].status \in Active
      BY <2>1 DEF Active
    <2>3. \A i \in Orders : order'[i].status \in Active => order[i].status \in Active
      BY <1>1, <1>8, <2>1, <2>2 DEF MoveWrite, TypeOK, OrderRow
    <2> QED
      BY <1>4, <1>8, <2>3 DEF MoveWrite
  <1>9. CASE TerminalWrite(p)
    <2>1. o \in Orders /\ job[p].to \notin Active
      BY <1>1, <1>9 DEF TerminalWrite, At, JobOK, OnOrder, Settling, Active
    <2>2. \A i \in Orders : order'[i].status \in Active => order[i].status \in Active
      BY <1>1, <1>9, <2>1 DEF TerminalWrite, TypeOK, OrderRow
    <2>3. "stats" \in Pc \ {"escrow", "insert", "write"}
      BY DEF Pc
    <2> QED
      BY <1>4, <1>5, <1>9, <2>2, <2>3 DEF TerminalWrite
  <1>10. CASE ResolveTx(p)
    <2>1. o \in Orders /\ job[p].to \notin Active
      BY <1>1, <1>10 DEF ResolveTx, At, JobOK, OnOrder, Settling, Active
    <2>2. \A i \in Orders : order'[i].status \in Active => order[i].status \in Active
      BY <1>1, <1>10, <2>1 DEF ResolveTx, TypeOK, OrderRow
    <2>3. "settle" \in Pc \ {"escrow", "insert", "write"}
      BY DEF Pc
    <2> QED
      BY <1>4, <1>5, <1>10, <2>2, <2>3 DEF ResolveTx
  <1>11. ASSUME NEW r \in Orders, SweepUpdate(p, r)
         PROVE  GigInv'
    <2> DEFINE j == [job[p] EXCEPT !.ord = r, !.rows = @ \ {r}, !.pc = "settle"]
    <2>1. job' = [job EXCEPT ![p] = j] /\ j.pc = "settle" /\ gig' = gig
      BY <1>1, <1>11 DEF SweepUpdate, TypeOK, Job
    <2>2. job[p].to \notin Active
      BY <1>1, <1>11 DEF SweepUpdate, At, JobOK, Settling, Active
    <2>3. \A i \in Orders : order'[i].status \in Active => order[i].status \in Active
      BY <1>1, <1>11, <2>2 DEF SweepUpdate, TypeOK, OrderRow
    <2> HIDE DEF j
    <2> QED
      BY <1>2, <2>1, <2>3, GigQuiet DEF Placing
  <1>12. CASE Settle(p)
    <2>1. AfterSettle(job[p]) \in Pc \ {"escrow", "insert", "write"}
      BY <1>1 DEF AfterSettle, Pc
    <2> QED
      BY <1>4, <1>5, <1>12, <2>1 DEF Settle
  <1>13. CASE Stats(p) \/ Reputation(p)
    <2>1. "rep" \in Pc \ {"escrow", "insert", "write"}
      BY DEF Pc
    <2> QED
      BY <1>4, <1>5, <1>13, <2>1 DEF Stats, Reputation
  <1>14. CASE GigCount(p)
    <2>1. CASE Goto(p, "write") /\ ~HasActiveOrders
      <3>1. job' = [job EXCEPT ![p] = Moved("write")]
        BY <1>1, <2>1 DEF Goto, TypeOK
      <3>2. Moved("write").pc = "write"
        BY <1>1 DEF Job
      <3>3. KnowsGig(Moved("write"), gig'.open, order')
        BY <1>14, <2>1, <3>2 DEF KnowsGig, Placing, HasActiveOrders, GigCount
      <3>4. ClosedGigIsIdle'
        BY <1>14 DEF GigInv, ClosedGigIsIdle, GigCount
      <3> HIDE DEF Moved
      <3> QED
        BY <1>2, <3>1, <3>3, <3>4, GigStep
    <2> QED
      BY <1>4, <1>14, <2>1 DEF GigCount
  <1>15. CASE GigWrite(p)
    <2>1. /\ \A i \in Orders : order[i].status \notin Active
          /\ UNCHANGED order /\ Finish(p)
      BY <1>15 DEF GigWrite, At, GigInv, KnowsGig
    <2>2. ClosedGigIsIdle'
      BY <2>1 DEF ClosedGigIsIdle
    <2>3. KnowsGig(Finished(p), gig'.open, order')
      BY <1>3 DEF KnowsGig, Placing
    <2> QED
      BY <1>2, <2>1, <2>2, <2>3, GigStep DEF Finish
  <1>16. CASE UploadWrite(p)
    BY <1>4, <1>16 DEF UploadWrite
  <1> QED
    BY <1>6, <1>7, <1>8, <1>9, <1>10, <1>11, <1>12, <1>13, <1>14, <1>15, <1>16 DEF Step

LEMMA FaultGig ==
    ASSUME TypeInv, SerialInv, GigInv, \/ \E p \in Procs : Fail(p)
                                       \/ Crash
    PROVE  GigInv'
  <1>1. TypeOK /\ UNCHANGED <<gig, order>>
    BY DEF TypeInv, Fail, Crash
  <1>2. ASSUME NEW p \in Procs, Fail(p)
        PROVE  GigInv'
    <2>1. Alone(p) /\ job[p] \in Job /\ Finished(p).pc \in {"idle", "next"}
      BY <1>1, <1>2, FinishedType DEF Fail, SerialInv, TypeOK
    <2>2. CASE Finish(p)
      BY <1>1, <2>1, <2>2, GigQuiet DEF Finish, Placing
    <2>3. ASSUME At(p, "next"), NEW r \in job[p].rows,
                 job' = [job EXCEPT ![p] = IF job[p].rows = {r} THEN Idle
                                           ELSE [job[p] EXCEPT !.rows = @ \ {r}]]
          PROVE  GigInv'
      <3> DEFINE j == IF job[p].rows = {r} THEN Idle
                      ELSE [job[p] EXCEPT !.rows = @ \ {r}]
      <3>1. ~Placing(j) /\ j.pc # "write"
        BY <2>1, <2>3 DEF Job, At, Idle, Placing
      <3> HIDE DEF j
      <3> QED
        BY <1>1, <2>1, <2>3, <3>1, GigQuiet DEF j
    <2> QED
      BY <1>2, <2>2, <2>3 DEF Fail
  <1>3. CASE Crash
    <2>1. \A p \in Procs : KnowsGig(job'[p], gig'.open, order')
      BY <1>3 DEF Crash, KnowsGig, Idle, Placing
    <2> QED
      BY <1>1, <2>1 DEF GigInv, ClosedGigIsIdle
  <1> QED
    BY <1>2, <1>3

LEMMA InitGig == Init => GigInv
  <1> SUFFICES ASSUME Init PROVE GigInv
    OBVIOUS
  <1>1. gig.open = TRUE
    BY DEF Init
  <1>2. \A p \in Procs : KnowsGig(job[p], gig.open, order)
    BY DEF Init, KnowsGig, Idle, Placing
  <1> QED
    BY <1>1, <1>2 DEF GigInv, ClosedGigIsIdle

LEMMA NextGig ==
    ASSUME ~Concurrent
    PROVE  TypeInv /\ EscrowInv /\ SerialInv /\ GigInv /\ [Next]_vars => GigInv'
  <1> SUFFICES ASSUME TypeInv, EscrowInv, SerialInv, GigInv, [Next]_vars PROVE GigInv'
    OBVIOUS
  <1>1. CASE Next
    BY <1>1, RequestGig, TickGig, StepGig, FaultGig DEF Next
  <1>2. CASE UNCHANGED vars
    BY <1>2 DEF vars, GigInv, ClosedGigIsIdle, KnowsGig
  <1> QED
    BY <1>1, <1>2

-----------------------------------------------------------------------------
(* One handler at a time, until something fails: the ledger, the seller's   *)
(* credit and the status of an order agree, but for what the one handler in *)
(* flight has still to do.                                                  *)

\* What handler j knows about where its order is going.
Directs(j, orders) ==
    /\ j.pc = "settle" => j.op \in {"complete", "cancel", "resolve", "sweep"}
    /\ j.op = "complete" => j.to = "completed"
    /\ j.op = "cancel" => j.to = "cancelled"
    /\ j.op = "sweep" => j.from \in DOMAIN SweepOutcome /\ j.to = SweepOutcome[j.from]
    /\ WritesEnd(j) => orders[j.ord].status \notin Terminal
    /\ j.pc = "settle" /\ j.op \in {"complete", "cancel"}
           => orders[j.ord].status \notin Terminal
    /\ j.pc = "settle" /\ j.op \in {"resolve", "sweep"} => orders[j.ord].status = j.to
    /\ j.pc \in {"stats", "rep"} => j.to \in Terminal /\ orders[j.ord].status = j.to
    /\ j.pc = "stats" => j.to = "completed"

\* The outcome the money of order o, in status s, has been moved for.
SettledFor(j, o, s) == IF j.ord = o /\ j.pc = "settle" THEN "none"
                       ELSE IF j.ord = o /\ WritesEnd(j) THEN j.to
                       ELSE s

\* Handler j has still to count its order, to raise the seller's reputation.
Uncounted(j) == j.pc = "stats" \/ (j.op = "sweep" /\ j.pc = "settle")
Unrated(j)   == j.pc \in {"settle", "stats", "rep"}

\* A sweep ended the order and moved nothing, its price being negative.
Unmoved(r, l) == l.escrow < 0 /\ l.paid = 0 /\ l.refunded = 0 /\ r.status \in Terminal

\* The rows of o in gig_orders, in the ledger and in the seller's credit.
Agree(j, o, r, l, c) ==
    /\ r.status = "none" => /\ r.price = 0
                            /\ l.escrow = 0 \/ (j.pc = "insert" /\ j.ord = o)
    /\ \/ Unmoved(r, l)
       \/ /\ l.paid = IF SettledFor(j, o, r.status) = "completed" THEN l.escrow ELSE 0
          /\ l.refunded = IF SettledFor(j, o, r.status) = "cancelled" THEN l.escrow ELSE 0
    /\ c.tasks = IF r.status = "completed" /\ ~(j.ord = o /\ Uncounted(j)) THEN 1 ELSE 0
    /\ r.status = "completed" => c.rep = IF j.ord = o /\ Unrated(j) THEN 0 ELSE 5
    /\ r.status = "cancelled" => c.rep <= 0
    /\ r.status \notin Terminal => c.rep = 0

AgreeAll(j) == \A o \in Orders : Agree(j, o, order[o], ledger[o], credit[o])

\* Some handler runs alone, or none runs.
Running(j) == \/ \E p \in Procs : Alone(p) /\ j = job[p]
              \/ j = Idle /\ \A p \in Procs : job[p] = Idle

DirectInv == \A p \in Procs : Directs(job[p], order)
AgreeInv  == faults = 0 => \A j : Running(j) => AgreeAll(j)

\* A handler off order o says nothing of it.
Off(j, o) == j.ord # o \/ j.pc \notin {"insert", "settle", "status", "stats", "rep"}

LEMMA AgreeOff ==
    ASSUME NEW j, NEW k, NEW o, NEW r, NEW l, NEW c, Off(j, o), Off(k, o),
           Agree(j, o, r, l, c)
    PROVE  Agree(k, o, r, l, c)
  <1>1. /\ SettledFor(j, o, r.status) = r.status /\ SettledFor(k, o, r.status) = r.status
        /\ ~(j.ord = o /\ Uncounted(j)) /\ ~(k.ord = o /\ Uncounted(k))
        /\ ~(j.ord = o /\ Unrated(j)) /\ ~(k.ord = o /\ Unrated(k))
        /\ ~(j.pc = "insert" /\ j.ord = o)
    BY DEF Off, SettledFor, WritesEnd, Uncounted, Unrated
  <1> QED
    BY <1>1 DEF Agree

LEMMA IdleDirects == \A orders : Directs(Idle, orders)
  BY DEF Directs, Idle, WritesEnd

\* The handler that runs alone becomes j.
LEMMA DirectStep ==
    ASSUME TypeInv, NEW p \in Procs, Alone(p), NEW j, job' = [job EXCEPT ![p] = j],
           Directs(j, order')
    PROVE  DirectInv'
  <1>1. /\ job'[p] = j
        /\ \A q \in Procs : q # p => job'[q] = Idle
    BY DEF TypeInv, TypeOK, Alone
  <1> QED
    BY <1>1, IdleDirects DEF DirectInv

LEMMA AgreeStep ==
    ASSUME TypeInv, NEW p \in Procs, Alone(p), NEW j, job' = [job EXCEPT ![p] = j],
           \A o \in Orders : Agree(j, o, order'[o], ledger'[o], credit'[o])
    PROVE  AgreeInv'
  <1>1. /\ job'[p] = j
        /\ \A q \in Procs : q # p => job'[q] = Idle
    BY DEF TypeInv, TypeOK, Alone
  <1>2. ASSUME NEW k, Running(k)'
        PROVE  k = j
    BY <1>1, <1>2 DEF Running, Alone
  <1> QED
    BY <1>2 DEF AgreeInv, AgreeAll

\* The same, row by row.
LEMMA AgreeMove ==
    ASSUME TypeInv, AgreeInv, faults = 0, NEW p \in Procs, Alone(p), NEW j,
           job' = [job EXCEPT ![p] = j],
           \A o \in Orders : Agree(job[p], o, order[o], ledger[o], credit[o])
                                 => Agree(j, o, order'[o], ledger'[o], credit'[o])
    PROVE  AgreeInv'
  <1>1. \A o \in Orders : Agree(job[p], o, order[o], ledger[o], credit[o])
    BY DEF AgreeInv, AgreeAll, Running
  <1> QED
    BY <1>1, AgreeStep

\* A handler that is about to settle order o, which has not ended.
LEMMA AgreeStart ==
    ASSUME NEW j, NEW o, NEW r, NEW l, NEW c, Agree(Idle, o, r, l, c),
           \/ Off(j, o)
           \/ r.status \notin Terminal /\ ~WritesEnd(j)
    PROVE  Agree(j, o, r, l, c)
  <1>1. CASE Off(j, o)
    <2>1. Off(Idle, o)
      BY DEF Off, Idle
    <2> QED
      BY <1>1, <2>1, AgreeOff
  <1>2. CASE r.status \notin Terminal /\ ~WritesEnd(j)
    <2>1. r.status # "completed" /\ r.status # "cancelled"
      BY <1>2 DEF Terminal
    <2>2. SettledFor(Idle, o, r.status) = r.status
      BY DEF SettledFor, Idle, WritesEnd
    <2>3. SettledFor(j, o, r.status) \in {"none", r.status}
      BY <1>2 DEF SettledFor
    <2>4. ~(Idle.pc = "insert")
      BY DEF Idle
    <2> QED
      BY <1>2, <2>1, <2>2, <2>3, <2>4 DEF Agree, Unmoved
  <1> QED
    BY <1>1, <1>2

\* A request or a sweep starts.
LEMMA StartAgree ==
    ASSUME ~Concurrent, TypeInv, DirectInv, AgreeInv, NEW p \in Procs, NEW j, Start(p, j),
           UNCHANGED <<order, ledger, credit, faults>>,
           Directs(j, order),
           \A o \in Orders : \/ Off(j, o)
                             \/ order[o].status \notin Terminal /\ ~WritesEnd(j)
    PROVE  DirectInv' /\ AgreeInv'
  <1>1. Alone(p) /\ job[p] = Idle /\ job' = [job EXCEPT ![p] = j]
    BY DEF Start, Alone
  <1>2. DirectInv'
    BY <1>1, DirectStep
  <1>3. ASSUME faults = 0 PROVE AgreeInv'
    BY <1>1, <1>3, AgreeMove, AgreeStart
  <1>4. ASSUME faults # 0 PROVE AgreeInv'
    BY <1>4 DEF AgreeInv
  <1> QED
    BY <1>2, <1>3, <1>4

LEMMA RequestAgree ==
    ASSUME ~Concurrent, TypeInv, DirectInv, AgreeInv, NEW p \in Http, Request(p)
    PROVE  DirectInv' /\ AgreeInv'
  <1>1. p \in Procs /\ UNCHANGED <<order, ledger, credit, faults>>
    BY DEF Procs, Request, PlaceRead, MoveRead, CompleteRead, CancelRead, ResolveRead,
           UploadRead, GigRead
  <1>2. ASSUME NEW j, Start(p, j), j.pc \in {"escrow", "tx", "file", "count"},
               j.op \notin {"complete", "cancel", "sweep"}
        PROVE  DirectInv' /\ AgreeInv'
    <2>1. Directs(j, order) /\ \A o \in Orders : Off(j, o)
      BY <1>2 DEF Directs, Off, WritesEnd
    <2> QED
      BY <1>1, <1>2, <2>1, StartAgree
  <1>3. ASSUME NEW b \in Buyers, NEW o \in Orders, PlaceRead(p, b, o)
        PROVE  DirectInv' /\ AgreeInv'
    <2> DEFINE j == [Idle EXCEPT !.op = "place", !.pc = "escrow", !.ord = o,
                                 !.by = b, !.price = gig.price]
    <2>1. j.pc = "escrow" /\ j.op = "place"
      BY DEF Idle
    <2> QED
      BY <1>2, <1>3, <2>1 DEF PlaceRead
  <1>4. ASSUME NEW o \in Orders, NEW to \in Status, MoveRead(p, o, to)
        PROVE  DirectInv' /\ AgreeInv'
    <2> DEFINE j == [Idle EXCEPT !.op = "move", !.pc = "status", !.ord = o, !.to = to,
                                 !.revisions = order[o].revisions]
    <2>1. j.pc = "status" /\ j.op = "move" /\ j.ord = o
      BY DEF Idle
    <2>2. order[o].status \notin Terminal
      BY <1>4 DEF MoveRead, validateTransition, GIG_ORDER_TRANSITIONS, Terminal, Status
    <2>3. Directs(j, order) /\ ~WritesEnd(j)
      BY <2>1 DEF Directs, WritesEnd
    <2>4. \A i \in Orders : Off(j, i) \/ order[i].status \notin Terminal
      BY <2>1, <2>2 DEF Off
    <2> HIDE DEF j
    <2> QED
      BY <1>1, <1>4, <2>3, <2>4, StartAgree DEF MoveRead, j
  <1>5. ASSUME NEW j, NEW o \in Orders, Start(p, j), order[o].status \notin Terminal,
               j.pc = "settle", j.ord = o,
               \/ j.op = "complete" /\ j.to = "completed"
               \/ j.op = "cancel" /\ j.to = "cancelled"
        PROVE  DirectInv' /\ AgreeInv'
    <2>1. Directs(j, order) /\ ~WritesEnd(j)
      BY <1>5 DEF Directs, WritesEnd
    <2>2. \A i \in Orders : Off(j, i) \/ order[i].status \notin Terminal
      BY <1>5 DEF Off
    <2> QED
      BY <1>1, <1>5, <2>1, <2>2, StartAgree
  <1>6. ASSUME NEW o \in Orders, CompleteRead(p, o)
        PROVE  DirectInv' /\ AgreeInv'
    <2> DEFINE j == [Idle EXCEPT !.op = "complete", !.pc = "settle", !.ord = o,
                                 !.to = "completed"]
    <2>1. j.pc = "settle" /\ j.op = "complete" /\ j.ord = o /\ j.to = "completed"
      BY DEF Idle
    <2>2. order[o].status \notin Terminal
      BY <1>6 DEF CompleteRead, validateTransition, GIG_ORDER_TRANSITIONS, Terminal, Status
    <2> QED
      BY <1>5, <1>6, <2>1, <2>2 DEF CompleteRead
  <1>7. ASSUME NEW o \in Orders, NEW who \in Buyers \cup {Seller}, CancelRead(p, o, who)
        PROVE  DirectInv' /\ AgreeInv'
    <2> DEFINE j == [Idle EXCEPT !.op = "cancel", !.pc = "settle", !.ord = o,
                                 !.to = "cancelled"]
    <2>1. j.pc = "settle" /\ j.op = "cancel" /\ j.ord = o /\ j.to = "cancelled"
      BY DEF Idle
    <2>2. order[o].status \notin Terminal
      BY <1>7 DEF CancelRead, validateTransition, GIG_ORDER_TRANSITIONS, Terminal, Status
    <2> QED
      BY <1>5, <1>7, <2>1, <2>2 DEF CancelRead
  <1>8. ASSUME NEW o \in Orders, NEW outcome \in Terminal, ResolveRead(p, o, outcome)
        PROVE  DirectInv' /\ AgreeInv'
    <2> DEFINE j == [Idle EXCEPT !.op = "resolve", !.pc = "tx", !.ord = o, !.to = outcome]
    <2>1. j.pc = "tx" /\ j.op = "resolve"
      BY DEF Idle
    <2> QED
      BY <1>2, <1>8, <2>1 DEF ResolveRead
  <1>9. ASSUME NEW op \in {"editGig", "closeGig"}, GigRead(p, op)
        PROVE  DirectInv' /\ AgreeInv'
    <2> DEFINE j == [Idle EXCEPT !.op = op, !.pc = "count"]
    <2>1. j.pc = "count" /\ j.op \notin {"complete", "cancel", "sweep"}
      BY DEF Idle
    <2> QED
      BY <1>2, <1>9, <2>1 DEF GigRead
  <1>10. ASSUME NEW o \in Orders, UploadRead(p, o)
         PROVE  DirectInv' /\ AgreeInv'
    <2> DEFINE j == [Idle EXCEPT !.op = "upload", !.pc = "file", !.ord = o]
    <2>1. j.pc = "file" /\ j.op = "upload"
      BY DEF Idle
    <2> QED
      BY <1>2, <1>10, <2>1 DEF UploadRead
  <1> QED
    BY <1>3, <1>4, <1>6, <1>7, <1>8, <1>9, <1>10 DEF Request

LEMMA TickAgree ==
    ASSUME ~Concurrent, TypeInv, DirectInv, AgreeInv, NEW p \in Cron, Tick(p)
    PROVE  DirectInv' /\ AgreeInv'
  <1>1. PICK from \in DOMAIN SweepOutcome, rows \in SUBSET Orders : SweepSelect(p, from, rows)
    BY DEF Tick
  <1> DEFINE j == [Idle EXCEPT !.op = "sweep", !.pc = "next", !.from = from,
                               !.to = SweepOutcome[from], !.rows = rows]
  <1>2. j.pc = "next" /\ j.op = "sweep" /\ j.from = from /\ j.to = SweepOutcome[from]
    BY DEF Idle
  <1>3. Directs(j, order) /\ \A o \in Orders : Off(j, o)
    BY <1>2 DEF Directs, Off, WritesEnd
  <1>4. p \in Procs /\ UNCHANGED <<order, ledger, credit, faults>> /\ Start(p, j)
    BY <1>1 DEF Procs, SweepSelect
  <1> HIDE DEF j
  <1> QED
    BY <1>3, <1>4, StartAgree

\* A handler that is done with its order, or has not come to it yet.
LEMMA FinishedDirects ==
    ASSUME TypeInv, DirectInv, NEW p \in Procs
    PROVE  /\ \A orders : Directs(Finished(p), orders)
           /\ \A o : Off(Finished(p), o)
  <1>1. job[p] \in Job /\ Directs(job[p], order) /\ Finished(p).pc \in {"idle", "next"}
    BY FinishedType DEF TypeInv, TypeOK, DirectInv
  <1>2. CASE job[p].rows = {}
    BY <1>1, <1>2, IdleDirects DEF Finished, Off
  <1>3. CASE job[p].rows # {}
    <2>1. /\ Finished(p).op = job[p].op /\ Finished(p).to = job[p].to
          /\ Finished(p).from = job[p].from /\ Finished(p).pc = "next"
      BY <1>1, <1>3 DEF Finished, Job
    <2> QED
      BY <1>1, <2>1 DEF Directs, WritesEnd, Off
  <1> QED
    BY <1>2, <1>3

\* Where a handler goes once the money has moved.
LEMMA AfterSettleIs ==
    ASSUME NEW j, NEW orders, Directs(j, orders), j.pc = "settle", j.to \in Terminal
    PROVE  AfterSettle(j) =
              IF j.op \in {"complete", "cancel"} THEN "status"
              ELSE IF j.to = "completed" THEN (IF j.op = "sweep" THEN "stats" ELSE "rep")
              ELSE IF j.op = "sweep" /\ j.from = "accepted" THEN "rep" ELSE "idle"
  <1>1. j.op = "sweep" /\ j.from = "accepted" => j.to # "completed"
    BY DEF Directs, SweepOutcome
  <1>2. j.op \in {"complete", "cancel", "resolve", "sweep"}
    BY DEF Directs
  <1>3. CASE j.op \in {"complete", "cancel"}
    BY <1>3 DEF AfterSettle
  <1>4. CASE j.op = "sweep"
    BY <1>1, <1>4 DEF AfterSettle
  <1>5. CASE j.op = "resolve"
    BY <1>5 DEF AfterSettle
  <1> QED
    BY <1>2, <1>3, <1>4, <1>5

\* The settlement itself: the money follows the outcome the handler carries.
LEMMA SettleAgrees ==
    ASSUME NEW h, NEW j, NEW o, NEW r, NEW l \in LedgerRow, NEW m \in LedgerRow, NEW c,
           h.pc = "settle", h.ord = o, h.to \in Terminal, r.status # "none",
           Agree(h, o, r, l, c),
           m.escrow = l.escrow,
           \/ m = l /\ l.escrow <= 0 /\ r.status \in Terminal
           \/ /\ m.paid = l.paid + (IF h.to = "completed" THEN l.escrow ELSE 0)
              /\ m.refunded = l.refunded + (IF h.to = "cancelled" THEN l.escrow ELSE 0),
           SettledFor(j, o, r.status) = h.to,
           r.status \in Terminal => r.status = h.to,
           r.status = "completed" => /\ j.ord = o /\ Unrated(j)
                                     /\ Uncounted(j) <=> Uncounted(h)
    PROVE  Agree(j, o, r, m, c)
  <1>1. l.escrow \in Int /\ l.paid = 0 /\ l.refunded = 0
    BY DEF Agree, SettledFor, LedgerRow, Unmoved
  <1>2. \/ Unmoved(r, m)
        \/ /\ m.paid = IF h.to = "completed" THEN m.escrow ELSE 0
           /\ m.refunded = IF h.to = "cancelled" THEN m.escrow ELSE 0
    BY <1>1 DEF Unmoved
  <1>3. Unrated(h)
    BY DEF Unrated
  <1> QED
    BY <1>2, <1>3 DEF Agree, Terminal

LEMMA SettleAgree ==
    ASSUME TypeInv, EscrowInv, DirectInv, AgreeInv, NEW p \in Procs, Alone(p), Settle(p)
    PROVE  DirectInv' /\ AgreeInv'
  <1> DEFINE o == job[p].ord
             pc == AfterSettle(job[p])
             j == IF pc = "idle" THEN Finished(p) ELSE [job[p] EXCEPT !.pc = pc]
  <1>1. TypeOK /\ JobOK /\ job[p] \in Job /\ Directs(job[p], order)
    BY DEF TypeInv, TypeOK, DirectInv
  <1>2. /\ o \in Orders /\ job[p].pc = "settle" /\ UNCHANGED <<order, credit, faults>>
        /\ job[p].op \in {"complete", "cancel", "resolve", "sweep"}
        /\ job[p].to \in Terminal /\ order[o].status # "none"
        /\ ledger[o] \in LedgerRow
    BY <1>1
    DEF Settle, At, JobOK, OnOrder, Settling, Directs, EscrowInv, OthersOnRows, OnRow, Placing,
        TypeOK
  <1>3. order[o].price = ledger[o].escrow
    BY <1>2 DEF EscrowInv, EscrowMatchesPrice
  <1>4. pc = IF job[p].op \in {"complete", "cancel"} THEN "status"
             ELSE IF job[p].to = "completed"
                  THEN (IF job[p].op = "sweep" THEN "stats" ELSE "rep")
             ELSE IF job[p].op = "sweep" /\ job[p].from = "accepted" THEN "rep" ELSE "idle"
    BY <1>1, <1>2, AfterSettleIs
  <1>5. job' = [job EXCEPT ![p] = j]
    BY <1>1 DEF Settle, Finish, Goto, TypeOK
  <1>6. /\ \A i \in Orders : i # o => ledger'[i] = ledger[i]
        /\ ledger'[o] \in LedgerRow
        /\ ledger'[o].escrow = ledger[o].escrow
        /\ \/ /\ ledger'[o] = ledger[o] /\ ledger[o].escrow <= 0
              /\ order[o].status \in Terminal
           \/ /\ ledger'[o].paid = ledger[o].paid
                        + (IF job[p].to = "completed" THEN ledger[o].escrow ELSE 0)
              /\ ledger'[o].refunded = ledger[o].refunded
                        + (IF job[p].to = "cancelled" THEN ledger[o].escrow ELSE 0)
    <2>1. ~Moves(p) => order[o].status \in Terminal
      BY <1>1, <1>2 DEF Moves, Directs
    <2>2. ledger'[o] \in LedgerRow
      <3>1. TypeOK'
        BY NextTypeInv DEF TypeInv, Next, Step
      <3> QED
        BY <1>2, <3>1 DEF TypeOK
    <2> QED
      BY <1>2, <2>1, <2>2, SettleMoves DEF LedgerRow
  <1>7. CASE pc = "idle"
    <2>1. /\ j = Finished(p) /\ job[p].op \in {"resolve", "sweep"}
          /\ job[p].to = "cancelled" /\ order[o].status = "cancelled"
      BY <1>1, <1>2, <1>4, <1>7 DEF Terminal, Directs
    <2>2. /\ \A i : Off(j, i)
          /\ Directs(j, order')
      BY <2>1, FinishedDirects
    <2> HIDE DEF j, pc
    <2>3. SettledFor(j, o, order[o].status) = job[p].to
      BY <2>1, <2>2 DEF SettledFor, Off, WritesEnd
    <2>4. ASSUME Agree(job[p], o, order[o], ledger[o], credit[o])
          PROVE  Agree(j, o, order'[o], ledger'[o], credit'[o])
      BY <1>2, <1>6, <2>1, <2>3, <2>4, SettleAgrees
    <2>5. ASSUME NEW i \in Orders, Agree(job[p], i, order[i], ledger[i], credit[i])
          PROVE  Agree(j, i, order'[i], ledger'[i], credit'[i])
      <3>1. CASE i # o
        <4>1. Off(job[p], i) /\ Off(j, i)
          BY <2>2, <3>1 DEF Off
        <4> QED
          BY <1>2, <1>6, <2>5, <3>1, <4>1, AgreeOff
      <3> QED
        BY <2>4, <2>5, <3>1
    <2>6. ASSUME faults = 0 PROVE AgreeInv'
      BY <1>5, <2>5, <2>6, AgreeMove
    <2> QED
      BY <1>2, <1>5, <2>2, <2>6, DirectStep DEF AgreeInv
  <1>8. CASE pc # "idle"
    <2>1. /\ j.pc = pc /\ j.ord = o /\ j.op = job[p].op /\ j.to = job[p].to
          /\ j.from = job[p].from
      BY <1>1, <1>8 DEF Job
    <2>2. job[p].op \in {"complete", "cancel"} => order[o].status \notin Terminal
      BY <1>1, <1>2 DEF Directs
    <2>3. job[p].op \notin {"complete", "cancel"} => order[o].status = job[p].to
      BY <1>1, <1>2 DEF Directs
    <2>4. /\ job[p].op = "complete" => job[p].to = "completed"
          /\ job[p].op = "cancel" => job[p].to = "cancelled"
          /\ job[p].op = "sweep" => /\ job[p].from \in DOMAIN SweepOutcome
                                    /\ job[p].to = SweepOutcome[job[p].from]
      BY <1>1 DEF Directs
    <2> HIDE DEF j, pc
    <2>5. Directs(j, order')
      BY <1>2, <1>4, <2>1, <2>2, <2>3, <2>4 DEF Directs, WritesEnd
    <2>6. SettledFor(j, o, order[o].status) = job[p].to
      <3>1. CASE job[p].op \in {"complete", "cancel"}
        BY <1>4, <2>1, <3>1 DEF SettledFor, WritesEnd
      <3>2. CASE job[p].op \notin {"complete", "cancel"}
        <4>1. j.pc \in {"stats", "rep"}
          BY <1>4, <1>8, <2>1, <3>2
        <4> QED
          BY <2>3, <3>2, <4>1 DEF SettledFor, WritesEnd
      <3> QED
        BY <3>1, <3>2
    <2>7. order[o].status = "completed" => /\ j.ord = o /\ Unrated(j)
                                           /\ Uncounted(j) <=> Uncounted(job[p])
      <3> SUFFICES ASSUME order[o].status = "completed"
                   PROVE  j.ord = o /\ Unrated(j) /\ (Uncounted(j) <=> Uncounted(job[p]))
        OBVIOUS
      <3>1. job[p].op \in {"resolve", "sweep"} /\ job[p].to = "completed"
        BY <1>2, <2>2, <2>3 DEF Terminal
      <3>2. CASE job[p].op = "sweep"
        BY <1>2, <1>4, <2>1, <3>1, <3>2 DEF Unrated, Uncounted
      <3>3. CASE job[p].op = "resolve"
        BY <1>2, <1>4, <2>1, <3>1, <3>3 DEF Unrated, Uncounted
      <3> QED
        BY <3>1, <3>2, <3>3
    <2>8. order[o].status \in Terminal => order[o].status = job[p].to
      BY <2>2, <2>3
    <2>9. ASSUME Agree(job[p], o, order[o], ledger[o], credit[o])
          PROVE  Agree(j, o, order'[o], ledger'[o], credit'[o])
      BY <1>2, <1>6, <2>6, <2>7, <2>8, <2>9, SettleAgrees
    <2>10. ASSUME NEW i \in Orders, Agree(job[p], i, order[i], ledger[i], credit[i])
           PROVE  Agree(j, i, order'[i], ledger'[i], credit'[i])
      <3>1. CASE i # o
        <4>1. Off(job[p], i) /\ Off(j, i)
          BY <2>1, <3>1 DEF Off
        <4> QED
          BY <1>2, <1>6, <2>10, <3>1, <4>1, AgreeOff
      <3> QED
        BY <2>9, <2>10, <3>1
    <2>11. ASSUME faults = 0 PROVE AgreeInv'
      BY <1>5, <2>10, <2>11, AgreeMove
    <2> QED
      BY <1>2, <1>5, <2>5, <2>11, DirectStep DEF AgreeInv
  <1> QED
    BY <1>7, <1>8

LEMMA StepAgree ==
    ASSUME TypeInv, EscrowInv, SerialInv, DirectInv, AgreeInv, NEW p \in Procs, Step(p)
    PROVE  DirectInv' /\ AgreeInv'
  <1> DEFINE o == job[p].ord
             Moved(pc) == [job[p] EXCEPT !.pc = pc]
             Others == \A i \in Orders : i # o => /\ order'[i] = order[i]
                                                  /\ ledger'[i] = ledger[i]
                                                  /\ credit'[i] = credit[i]
             Onto(j) == Agree(job[p], o, order[o], ledger[o], credit[o])
                            => Agree(j, o, order'[o], ledger'[o], credit'[o])
  <1>1. /\ TypeOK /\ JobOK /\ job[p] \in Job
        /\ Knows(job[p], order) /\ Directs(job[p], order)
    BY DEF TypeInv, TypeOK, SerialInv, DirectInv
  <1>2. Alone(p)
    <2>1. job[p].pc # "idle"
      BY DEF Step, PlaceEscrow, PlaceInsert, MoveWrite, Settle, TerminalWrite, Stats, Reputation,
             ResolveTx, UploadWrite, SweepUpdate, GigCount, GigWrite, At
    <2> QED
      BY <2>1 DEF SerialInv, Idle
  <1>3. ASSUME NEW pc \in Pc
        PROVE  /\ Moved(pc).pc = pc /\ Moved(pc).ord = o
               /\ Moved(pc).op = job[p].op /\ Moved(pc).to = job[p].to
               /\ Moved(pc).from = job[p].from
    BY <1>1 DEF Job
  <1>4. /\ \A orders : Directs(Finished(p), orders)
        /\ \A i : Off(Finished(p), i)
    BY FinishedDirects
  <1>5. \A i \in Orders : i # o => Off(job[p], i)
    BY DEF Off
  <1>6. ASSUME NEW j, job' = [job EXCEPT ![p] = j], faults' = faults,
               Directs(j, order'), Others, \A i \in Orders : i # o => Off(j, i),
               o \in Orders => Onto(j)
        PROVE  DirectInv' /\ AgreeInv'
    <2>1. DirectInv'
      BY <1>2, <1>6, DirectStep
    <2>2. ASSUME faults = 0 PROVE AgreeInv'
      <3>1. ASSUME NEW i \in Orders, Agree(job[p], i, order[i], ledger[i], credit[i])
            PROVE  Agree(j, i, order'[i], ledger'[i], credit'[i])
        <4>1. CASE i = o
          BY <1>6, <3>1, <4>1
        <4>2. CASE i # o
          BY <1>5, <1>6, <3>1, <4>2, AgreeOff
        <4> QED
          BY <4>1, <4>2
      <3> QED
        BY <1>2, <1>6, <2>2, <3>1, AgreeMove
    <2> QED
      BY <1>6, <2>1, <2>2 DEF AgreeInv
  <1>7. ASSUME Finish(p), faults' = faults, Others, o \in Orders => Onto(Finished(p))
        PROVE  DirectInv' /\ AgreeInv'
    <2> HIDE DEF Others, Onto, o
    <2> QED
      BY <1>4, <1>6, <1>7 DEF Finish
  <1>8. ASSUME NEW pc \in Pc, Goto(p, pc), faults' = faults, Others,
               Directs(Moved(pc), order'), o \in Orders => Onto(Moved(pc))
        PROVE  DirectInv' /\ AgreeInv'
    <2>1. job' = [job EXCEPT ![p] = Moved(pc)]
      BY <1>1, <1>8 DEF Goto, TypeOK
    <2>2. \A i \in Orders : i # o => Off(Moved(pc), i)
      BY <1>3 DEF Off
    <2> HIDE DEF Others, Onto, o, Moved
    <2> QED
      BY <1>6, <1>8, <2>1, <2>2
  <1>9. {"insert", "settle", "stats", "rep", "write"} \subseteq Pc
    BY DEF Pc
  \* Off its order, a handler that only finishes leaves every row as it agreed.
  <1>10. ASSUME Off(job[p], o), UNCHANGED <<order, ledger, credit>>
         PROVE  Onto(Finished(p))
    BY <1>4, <1>10, AgreeOff
  <1>11. CASE PlaceEscrow(p)
    <2>1. /\ o \in Orders /\ job[p].pc = "escrow" /\ UNCHANGED <<order, credit, faults>>
          /\ order[o].status = "none" /\ Off(job[p], o)
          /\ ledger[o] \in LedgerRow
      BY <1>1, <1>11
      DEF PlaceEscrow, At, JobOK, OnOrder, EscrowInv, PlacingOwns, Placing, Off, TypeOK
    <2>2. CASE Finish(p) /\ ledger' = ledger
      <3>1. Others /\ Onto(Finished(p))
        BY <1>10, <2>1, <2>2
      <3> HIDE DEF Others, Onto
      <3> QED
        BY <1>7, <2>1, <2>2, <3>1
    <2>3. CASE Goto(p, "insert") /\ ledger' = [ledger EXCEPT ![o].escrow = @ + job[p].price]
      <3>1. /\ Moved("insert").pc = "insert" /\ Moved("insert").ord = o
            /\ Moved("insert").op = job[p].op /\ Moved("insert").to = job[p].to
            /\ Moved("insert").from = job[p].from
        BY <1>3, <1>9
      <3>2. /\ Others
            /\ ledger'[o].paid = ledger[o].paid /\ ledger'[o].refunded = ledger[o].refunded
        BY <1>1, <2>1, <2>3 DEF TypeOK, LedgerRow
      <3> HIDE DEF Moved
      <3>3. Directs(Moved("insert"), order')
        BY <1>1, <2>1, <3>1 DEF Directs, WritesEnd
      <3>4. Onto(Moved("insert"))
        <4>1. /\ SettledFor(job[p], o, order[o].status) = "none"
              /\ SettledFor(Moved("insert"), o, order[o].status) = "none"
          BY <2>1, <3>1 DEF SettledFor, WritesEnd
        <4> QED
          BY <2>1, <3>1, <3>2, <4>1 DEF Agree, Unmoved, Terminal
      <3> HIDE DEF Others, Onto
      <3> QED
        BY <1>8, <1>9, <2>1, <2>3, <3>2, <3>3, <3>4
    <2> QED
      BY <1>11, <2>2, <2>3 DEF PlaceEscrow
  <1>12. CASE PlaceInsert(p)
    <2>1. /\ o \in Orders /\ job[p].pc = "insert" /\ UNCHANGED <<ledger, credit, faults>>
          /\ order[o].status = "none" /\ Finish(p)
      BY <1>1, <1>12 DEF PlaceInsert, At, JobOK, OnOrder, EscrowInv, PlacingOwns, Placing
    <2>2. Others /\ order'[o].status = "pending"
      BY <1>1, <1>12, <2>1 DEF PlaceInsert, TypeOK
    <2>3. Onto(Finished(p))
      <3>1. /\ SettledFor(job[p], o, order[o].status) = "none"
            /\ SettledFor(Finished(p), o, order'[o].status) = "pending"
        BY <1>4, <2>1, <2>2 DEF SettledFor, WritesEnd, Off
      <3> QED
        BY <2>1, <2>2, <3>1 DEF Agree, Unmoved, Terminal
    <2> HIDE DEF Others, Onto
    <2> QED
      BY <1>7, <2>1, <2>2, <2>3
  <1>13. CASE MoveWrite(p)
    <2>1. /\ o \in Orders /\ job[p].pc = "status" /\ UNCHANGED <<ledger, credit, faults>>
          /\ job[p].op = "move" /\ order[o].status \notin Terminal /\ Finish(p)
          /\ order[o].status # "none"
          /\ job[p].to \notin Terminal /\ job[p].to \in Status
      BY <1>1, <1>13
      DEF MoveWrite, At, JobOK, OnOrder, Knows, MovesOn, Job, EscrowInv, OthersOnRows, OnRow,
          Placing
    <2>2. /\ Others /\ order'[o].status = job[p].to /\ job[p].to # "none"
      BY <1>1, <1>13, <2>1 DEF MoveWrite, TypeOK, OrderRow, Status, Terminal
    <2>3. Onto(Finished(p))
      <3>1. /\ SettledFor(job[p], o, order[o].status) = order[o].status
            /\ SettledFor(Finished(p), o, order'[o].status) = job[p].to
        BY <1>4, <2>1, <2>2 DEF SettledFor, WritesEnd, Off
      <3> QED
        BY <2>1, <2>2, <3>1 DEF Agree, Unmoved, Terminal
    <2> HIDE DEF Others, Onto
    <2> QED
      BY <1>7, <2>1, <2>2, <2>3
  <1>14. CASE TerminalWrite(p)
    <2>1. /\ o \in Orders /\ job[p].pc = "status" /\ UNCHANGED <<ledger, credit, faults>>
          /\ job[p].op \in {"complete", "cancel"} /\ WritesEnd(job[p])
          /\ order[o].status \notin Terminal /\ job[p].to \in Terminal
      BY <1>1, <1>14 DEF TerminalWrite, At, JobOK, OnOrder, Settling, WritesEnd, Directs
    <2>2. Others /\ order'[o].status = job[p].to
      BY <1>1, <1>14, <2>1 DEF TerminalWrite, TypeOK, OrderRow
    <2>3. SettledFor(job[p], o, order[o].status) = job[p].to
      BY <2>1 DEF SettledFor
    <2>4. CASE job[p].to = "completed" /\ Goto(p, "stats")
      <3>1. /\ Moved("stats").pc = "stats" /\ Moved("stats").ord = o
            /\ Moved("stats").op = job[p].op /\ Moved("stats").to = job[p].to
            /\ Moved("stats").from = job[p].from
        BY <1>3, <1>9
      <3> HIDE DEF Moved
      <3>2. Directs(Moved("stats"), order')
        BY <1>1, <2>1, <2>2, <2>4, <3>1 DEF Directs, WritesEnd
      <3>3. SettledFor(Moved("stats"), o, order'[o].status) = job[p].to
        BY <2>2, <3>1 DEF SettledFor, WritesEnd
      <3>4. Onto(Moved("stats"))
        BY <2>1, <2>2, <2>3, <2>4, <3>1, <3>3 DEF Agree, Unmoved, Terminal, Uncounted, Unrated
      <3> HIDE DEF Others, Onto
      <3> QED
        BY <1>8, <1>9, <2>1, <2>2, <2>4, <3>2, <3>4
    <2>5. CASE job[p].to # "completed" /\ Finish(p)
      <3>1. job[p].to = "cancelled"
        BY <2>1, <2>5 DEF Terminal
      <3>2. SettledFor(Finished(p), o, order'[o].status) = job[p].to
        BY <1>4, <2>2 DEF SettledFor, WritesEnd, Off
      <3>3. Onto(Finished(p))
        BY <2>1, <2>2, <2>3, <3>1, <3>2 DEF Agree, Unmoved, Terminal
      <3> HIDE DEF Others, Onto
      <3> QED
        BY <1>7, <2>1, <2>2, <2>5, <3>3
    <2> QED
      BY <1>14, <2>4, <2>5 DEF TerminalWrite
  <1>15. CASE Stats(p)
    <2>1. /\ o \in Orders /\ job[p].pc = "stats" /\ UNCHANGED <<order, ledger, faults>>
          /\ order[o].status = "completed" /\ job[p].to = "completed" /\ Goto(p, "rep")
          /\ credit[o] \in CreditRow
      BY <1>1, <1>15 DEF Stats, At, JobOK, OnOrder, Directs, TypeOK
    <2>2. Others /\ credit'[o].tasks = credit[o].tasks + 1 /\ credit'[o].rep = credit[o].rep
      BY <1>1, <1>15, <2>1 DEF Stats, Credit, TypeOK, CreditRow
    <2>3. /\ Moved("rep").pc = "rep" /\ Moved("rep").ord = o
          /\ Moved("rep").op = job[p].op /\ Moved("rep").to = job[p].to
          /\ Moved("rep").from = job[p].from
      BY <1>3, <1>9
    <2> HIDE DEF Moved
    <2>4. Directs(Moved("rep"), order')
      BY <1>1, <2>1, <2>3 DEF Directs, WritesEnd
    <2>5. /\ SettledFor(job[p], o, order[o].status) = "completed"
          /\ SettledFor(Moved("rep"), o, order[o].status) = "completed"
      BY <2>1, <2>3 DEF SettledFor, WritesEnd
    <2>6. Onto(Moved("rep"))
      BY <2>1, <2>2, <2>3, <2>5 DEF Agree, Unmoved, Terminal, Uncounted, Unrated
    <2> HIDE DEF Others, Onto
    <2> QED
      BY <1>8, <1>9, <2>1, <2>2, <2>4, <2>6
  <1>16. CASE Reputation(p)
    <2>1. /\ o \in Orders /\ job[p].pc = "rep" /\ UNCHANGED <<order, ledger, faults>>
          /\ order[o].status = job[p].to /\ job[p].to \in Terminal /\ Finish(p)
          /\ credit[o] \in CreditRow
      BY <1>1, <1>16 DEF Reputation, At, JobOK, OnOrder, Directs, TypeOK
    <2>2. /\ Others /\ credit'[o].tasks = credit[o].tasks
          /\ credit'[o].rep = credit[o].rep + (IF job[p].to = "completed" THEN 5 ELSE -10)
      BY <1>1, <1>16, <2>1 DEF Reputation, Credit, TypeOK, CreditRow
    <2>3. /\ SettledFor(job[p], o, order[o].status) = order[o].status
          /\ SettledFor(Finished(p), o, order[o].status) = order[o].status
      BY <1>4, <2>1 DEF SettledFor, WritesEnd, Off
    <2>4. /\ Unrated(job[p]) /\ ~Uncounted(job[p])
          /\ ~(Finished(p).ord = o /\ Uncounted(Finished(p)))
          /\ ~(Finished(p).ord = o /\ Unrated(Finished(p)))
      BY <1>4, <2>1 DEF Unrated, Uncounted, Off
    <2>5. credit[o].rep \in Int
      BY <2>1 DEF CreditRow
    <2>6. Onto(Finished(p))
      <3>1. CASE job[p].to = "completed"
        BY <2>1, <2>2, <2>3, <2>4, <3>1 DEF Agree, Unmoved, Terminal
      <3>2. CASE job[p].to = "cancelled"
        BY <2>1, <2>2, <2>3, <2>4, <2>5, <3>2 DEF Agree, Unmoved, Terminal
      <3> QED
        BY <2>1, <3>1, <3>2 DEF Terminal
    <2> HIDE DEF Others, Onto
    <2> QED
      BY <1>7, <2>1, <2>2, <2>6
  <1>17. CASE ResolveTx(p)
    <2>1. /\ o \in Orders /\ job[p].pc = "tx" /\ UNCHANGED <<ledger, faults>>
          /\ job[p].op = "resolve" /\ job[p].to \in Terminal /\ Off(job[p], o)
          /\ credit[o] \in CreditRow
      BY <1>1, <1>17 DEF ResolveTx, At, JobOK, OnOrder, Settling, Knows, Off, TypeOK
    <2>2. CASE Finish(p) /\ UNCHANGED <<order, credit>>
      <3>1. Others /\ Onto(Finished(p))
        BY <1>10, <2>1, <2>2
      <3> HIDE DEF Others, Onto
      <3> QED
        BY <1>7, <2>1, <2>2, <3>1
    <2>3. CASE /\ StillDisputed(o) /\ Goto(p, "settle")
               /\ order' = [order EXCEPT ![o].status = job[p].to]
               /\ Credit(o, IF job[p].to = "completed" THEN 1 ELSE 0, 0)
      <3>1. /\ Moved("settle").pc = "settle" /\ Moved("settle").ord = o
            /\ Moved("settle").op = job[p].op /\ Moved("settle").to = job[p].to
            /\ Moved("settle").from = job[p].from
        BY <1>3, <1>9
      <3>2. /\ Others
            /\ order[o].status = "disputed" /\ order'[o].status = job[p].to
            /\ credit'[o].tasks = credit[o].tasks
                                    + (IF job[p].to = "completed" THEN 1 ELSE 0)
            /\ credit'[o].rep = credit[o].rep
        BY <1>1, <2>1, <2>3 DEF StillDisputed, Credit, TypeOK, OrderRow, CreditRow
      <3> HIDE DEF Moved
      <3>3. Directs(Moved("settle"), order')
        BY <1>1, <2>1, <3>1, <3>2 DEF Directs, WritesEnd
      <3>4. /\ SettledFor(job[p], o, order[o].status) = "disputed"
            /\ SettledFor(Moved("settle"), o, order'[o].status) = "none"
            /\ Unrated(Moved("settle")) /\ ~Uncounted(Moved("settle"))
        BY <2>1, <3>1, <3>2 DEF SettledFor, WritesEnd, Unrated, Uncounted
      <3>5. Onto(Moved("settle"))
        BY <2>1, <3>1, <3>2, <3>4 DEF Agree, Unmoved, Terminal
      <3> HIDE DEF Others, Onto
      <3> QED
        BY <1>8, <1>9, <2>1, <2>3, <3>2, <3>3, <3>5
    <2> QED
      BY <1>17, <2>2, <2>3 DEF ResolveTx
  <1>18. ASSUME NEW r \in Orders, SweepUpdate(p, r)
         PROVE  DirectInv' /\ AgreeInv'
    <2> DEFINE j == [job[p] EXCEPT !.ord = r, !.rows = @ \ {r}, !.pc = "settle"]
    <2>1. /\ job' = [job EXCEPT ![p] = j] /\ UNCHANGED <<ledger, credit, faults>>
          /\ job[p].pc = "next" /\ r \in job[p].rows
      BY <1>1, <1>18 DEF SweepUpdate, At, TypeOK, Job
    <2>2. /\ j.pc = "settle" /\ j.ord = r /\ j.op = job[p].op /\ j.to = job[p].to
          /\ j.from = job[p].from
      BY <1>1 DEF Job
    <2>3. /\ job[p].op = "sweep" /\ job[p].from \in Active /\ job[p].to \in Terminal
          /\ order[r].status = job[p].from
      BY <1>1, <2>1 DEF Knows, JobOK, Settling
    <2>4. /\ \A i \in Orders : i # r => order'[i] = order[i]
          /\ order'[r].status = job[p].to
      BY <1>1, <1>18, <2>1, <2>3 DEF SweepUpdate, TypeOK, OrderRow
    <2> HIDE DEF j
    <2>5. Directs(j, order')
      BY <1>1, <2>2, <2>3, <2>4 DEF Directs, WritesEnd
    <2>6. order[r].status \notin Terminal /\ order[r].status # "none"
      BY <2>3 DEF Active, Status, Terminal
    <2>7. /\ SettledFor(job[p], r, order[r].status) = order[r].status
          /\ SettledFor(j, r, order'[r].status) = "none"
          /\ Unrated(j) /\ Uncounted(j)
      BY <2>1, <2>2, <2>3 DEF SettledFor, WritesEnd, Unrated, Uncounted
    <2>8. Agree(job[p], r, order[r], ledger[r], credit[r])
              => Agree(j, r, order'[r], ledger'[r], credit'[r])
      BY <2>1, <2>2, <2>3, <2>4, <2>6, <2>7 DEF Agree, Unmoved, Terminal
    <2>9. \A i \in Orders : i # r => Off(job[p], i) /\ Off(j, i)
      BY <2>1, <2>2 DEF Off
    <2>10. ASSUME NEW i \in Orders, Agree(job[p], i, order[i], ledger[i], credit[i])
           PROVE  Agree(j, i, order'[i], ledger'[i], credit'[i])
      <3>1. CASE i = r
        BY <2>8, <2>10, <3>1
      <3>2. CASE i # r
        BY <2>1, <2>4, <2>9, <2>10, <3>2, AgreeOff
      <3> QED
        BY <3>1, <3>2
    <2>11. ASSUME faults = 0 PROVE AgreeInv'
      BY <1>2, <2>1, <2>10, <2>11, AgreeMove
    <2> QED
      BY <1>2, <2>1, <2>5, <2>11, DirectStep DEF AgreeInv
  <1>19. CASE UploadWrite(p) \/ GigCount(p) \/ GigWrite(p)
    <2>1. /\ UNCHANGED <<order, ledger, credit, faults>>
          /\ job[p].pc \in {"file", "count", "write"}
          /\ Finish(p) \/ (Goto(p, "write") /\ job[p].pc = "count")
      BY <1>19 DEF UploadWrite, GigCount, GigWrite, At
    <2>2. Off(job[p], o) /\ Others
      BY <2>1 DEF Off
    <2>3. CASE Finish(p)
      <3>1. Onto(Finished(p))
        BY <1>10, <2>1, <2>2
      <3> HIDE DEF Others, Onto
      <3> QED
        BY <1>7, <2>1, <2>2, <2>3, <3>1
    <2>4. CASE Goto(p, "write") /\ job[p].pc = "count"
      <3>1. /\ Moved("write").pc = "write"
            /\ Moved("write").op = job[p].op /\ Moved("write").to = job[p].to
            /\ Moved("write").from = job[p].from
        BY <1>3, <1>9
      <3> HIDE DEF Moved
      <3>2. Directs(Moved("write"), order') /\ Off(Moved("write"), o)
        BY <1>1, <3>1 DEF Directs, WritesEnd, Off
      <3>3. Onto(Moved("write"))
        BY <2>1, <2>2, <3>2, AgreeOff
      <3> HIDE DEF Others, Onto
      <3> QED
        BY <1>8, <1>9, <2>1, <2>2, <2>4, <3>2, <3>3
    <2> QED
      BY <2>1, <2>3, <2>4
  <1> QED
    BY <1>2, SettleAgree, <1>11, <1>12, <1>13, <1>14, <1>15, <1>16, <1>17, <1>18, <1>19
    DEF Step

LEMMA FaultAgree ==
    ASSUME TypeInv, SerialInv, DirectInv, \/ \E p \in Procs : Fail(p)
                                          \/ Crash
    PROVE  DirectInv' /\ AgreeInv'
  <1>1. TypeOK /\ faults \in Nat /\ faults' = faults + 1
    BY DEF TypeInv, TypeOK, Fail, Crash
  <1>2. AgreeInv'
    BY <1>1 DEF AgreeInv
  <1>3. ASSUME NEW p \in Procs, Fail(p)
        PROVE  DirectInv'
    <2>1. Alone(p) /\ job[p] \in Job /\ Directs(job[p], order)
      BY <1>1, <1>3 DEF Fail, SerialInv, TypeOK, DirectInv
    <2>2. CASE Finish(p)
      BY <2>1, <2>2, FinishedDirects, DirectStep DEF Finish
    <2>3. ASSUME At(p, "next"), NEW r \in job[p].rows,
                 job' = [job EXCEPT ![p] = IF job[p].rows = {r} THEN Idle
                                           ELSE [job[p] EXCEPT !.rows = @ \ {r}]]
          PROVE  DirectInv'
      <3> DEFINE j == IF job[p].rows = {r} THEN Idle
                      ELSE [job[p] EXCEPT !.rows = @ \ {r}]
      <3>1. \/ j = Idle
            \/ /\ j.pc = "next" /\ j.op = job[p].op /\ j.to = job[p].to
               /\ j.from = job[p].from
        BY <2>1, <2>3 DEF Job, At
      <3> HIDE DEF j
      <3>2. Directs(j, order')
        BY <2>1, <3>1, IdleDirects DEF Directs, WritesEnd
      <3> QED
        BY <2>1, <2>3, <3>2, DirectStep DEF j
    <2> QED
      BY <1>3, <2>2, <2>3 DEF Fail
  <1>4. ASSUME Crash PROVE DirectInv'
    BY <1>4, IdleDirects DEF Crash, DirectInv
  <1> QED
    BY <1>2, <1>3, <1>4

LEMMA InitAgree == Init => DirectInv /\ AgreeInv
  <1> SUFFICES ASSUME Init PROVE DirectInv /\ AgreeInv
    OBVIOUS
  <1>1. \A p \in Procs : job[p] = Idle
    BY DEF Init
  <1>2. \A j : Running(j) => j = Idle
    BY <1>1 DEF Running
  <1>3. ASSUME NEW o \in Orders PROVE Agree(Idle, o, order[o], ledger[o], credit[o])
    <2>1. /\ order[o].status = "none" /\ order[o].price = 0
          /\ ledger[o].escrow = 0 /\ ledger[o].paid = 0 /\ ledger[o].refunded = 0
          /\ credit[o].tasks = 0 /\ credit[o].rep = 0
      BY DEF Init, Absent
    <2>2. SettledFor(Idle, o, "none") = "none"
      BY DEF SettledFor, WritesEnd, Idle
    <2> QED
      BY <2>1, <2>2 DEF Agree, Unmoved
  <1> QED
    BY <1>1, <1>2, <1>3, IdleDirects DEF DirectInv, AgreeInv, AgreeAll

LEMMA NextAgree ==
    ASSUME ~Concurrent
    PROVE  TypeInv /\ EscrowInv /\ SerialInv /\ (DirectInv /\ AgreeInv) /\ [Next]_vars
               => (DirectInv /\ AgreeInv)'
  <1> SUFFICES ASSUME TypeInv, EscrowInv, SerialInv, DirectInv, AgreeInv, [Next]_vars
               PROVE  DirectInv' /\ AgreeInv'
    OBVIOUS
  <1>1. CASE Next
    BY <1>1, RequestAgree, TickAgree, StepAgree, FaultAgree DEF Next
  <1>2. CASE UNCHANGED vars
    <2>1. \A j : Running(j)' <=> Running(j)
      BY <1>2 DEF vars, Running, Alone
    <2> QED
      BY <1>2, <2>1 DEF vars, DirectInv, AgreeInv, AgreeAll
  <1> QED
    BY <1>1, <1>2

\* Some handler says what the rows of every order are, one that has left order
\* o to itself if order o is quiet.
LEMMA QuietAgrees ==
    ASSUME SerialInv, AgreeInv, faults = 0
    PROVE  \E j : /\ AgreeAll(j)
                  /\ \A o \in Orders : Quiet(o) => j.ord # o
  <1>1. CASE \A p \in Procs : job[p] = Idle
    <2>1. AgreeAll(Idle)
      BY <1>1 DEF AgreeInv, Running
    <2>2. \A o \in Orders : Idle.ord # o
      BY OrdersAssumption DEF Idle
    <2> QED
      BY <2>1, <2>2
  <1>2. ASSUME NEW p \in Procs, job[p] # Idle
        PROVE  \E j : /\ AgreeAll(j)
                      /\ \A o \in Orders : Quiet(o) => j.ord # o
    <2>1. AgreeAll(job[p])
      BY <1>2 DEF AgreeInv, Running, SerialInv
    <2>2. \A o \in Orders : Quiet(o) => job[p].ord # o
      BY DEF Quiet
    <2> QED
      BY <2>1, <2>2
  <1> QED
    BY <1>1, <1>2

\* The account, when every order is quiet: only active orders have money in it.
LEMMA AccountBacks ==
    ASSUME TypeInv, EscrowInv, SerialInv, AccountInv, AgreeInv
    PROVE  EscrowAccountBacksOrders
  <1> SUFFICES ASSUME \A o \in Orders : Quiet(o), faults = 0
               PROVE  balance[System] = InitialBalance
                          + SumFunctionOnSet([o \in Orders |-> order[o].price],
                                   {o \in Orders : \/ order[o].status \in Active
                                                   \/ LeftBySweep(o)})
    BY DEF EscrowAccountBacksOrders
  <1> DEFINE Q == {o \in Orders : order[o].status \in Active \/ LeftBySweep(o)}
             price == [o \in Orders |-> order[o].price]
             kept == KeptIn(ledger)
  <1>1. PICK A \in SUBSET Orders : Backs(balance[System], ledger, A)
    BY DEF AccountInv
  <1>2. PICK j : AgreeAll(j) /\ \A o \in Orders : j.ord # o
    BY QuietAgrees
  <1>3. ASSUME NEW o \in Orders
        PROVE  /\ kept[o] = Kept(ledger[o]) /\ kept[o] \in Int
               /\ o \in Q => kept[o] = price[o] /\ kept[o] # 0
               /\ o \notin Q => kept[o] = 0
    <2>1. Agree(j, o, order[o], ledger[o], credit[o]) /\ j.ord # o
      BY <1>2 DEF AgreeAll
    <2>2. SettledFor(j, o, order[o].status) = order[o].status
      BY <2>1 DEF SettledFor
    <2>3. /\ ledger[o].escrow \in Int /\ order[o].price \in Int
          /\ ledger[o].paid \in Int /\ ledger[o].refunded \in Int
          /\ order[o].status \in Status \cup {"none"}
      BY DEF TypeInv, TypeOK, LedgerRow, OrderRow
    <2>4. order[o].status # "none" => /\ ledger[o].escrow = order[o].price
                                      /\ order[o].price # 0
      BY DEF EscrowInv, EscrowMatchesPrice, SerialInv
    <2>5. kept[o] = Kept(ledger[o])
      BY DEF KeptIn
    <2>6. CASE o \in Q
      <3>1. order[o].status # "none" /\ (order[o].status \notin Terminal \/ LeftBySweep(o))
        BY <2>6 DEF Active, Status, Terminal, LeftBySweep
      <3>2. ledger[o].paid + ledger[o].refunded = 0
        <4>1. CASE order[o].status \notin Terminal
          BY <2>1, <2>2, <4>1 DEF Agree, Unmoved, Terminal
        <4>2. CASE LeftBySweep(o)
          BY <4>2 DEF LeftBySweep, Settled
        <4> QED
          BY <3>1, <4>1, <4>2
      <3> QED
        BY <2>3, <2>4, <2>5, <2>6, <3>1, <3>2 DEF Kept
    <2>7. CASE o \notin Q
      <3>1. order[o].status \in Terminal \cup {"none"}
        BY <2>3, <2>7 DEF Active
      <3>3. ~Unmoved(order[o], ledger[o])
        BY <2>4, <2>7 DEF Unmoved, LeftBySweep, Settled, Terminal
      <3>2. Kept(ledger[o]) = 0
        BY <2>1, <2>2, <2>3, <3>1, <3>3 DEF Agree, Terminal, Kept
      <3> QED
        BY <2>5, <2>7, <3>2
    <2> QED
      BY <2>6, <2>7, <2>5
  <1> HIDE DEF price, kept
  <1>4. /\ IsFiniteSet(A) /\ balance[System] = InitialBalance + SumOver(kept, A)
        /\ \A o \in Orders \ A : kept[o] = 0
    BY <1>1, <1>3 DEF Backs, kept
  <1>5. Q \subseteq A /\ Q \subseteq Orders
    BY <1>3, <1>4
  <1>6. \A o \in A \ Q : kept[o] = 0
    BY <1>3
  <1>7. IsFiniteSet(Q)
    BY <1>4, <1>5, FS_Subset
  <1>8. \A o \in Q : kept[o] = price[o]
    BY <1>3, <1>5
  <1>9. \A o \in A : kept[o] \in Int
    BY <1>3
  <1> HIDE DEF Q
  <1>10. SumOver(kept, A) = SumOver(kept, Q)
    BY <1>4, <1>5, <1>6, <1>9, SumZeros
  <1>11. SumOver(kept, Q) = SumOver(price, Q)
    BY <1>7, <1>8, SumSame
  <1> QED
    BY <1>4, <1>10, <1>11 DEF SumOver, price, Q

\* Without overlap and until something fails, each order is settled exactly
\* once and for what it ended in, and credited once (gigs.ts, admin.ts and
\* timeoutService.ts each settle, write and count in their own order);
\* agt_system holds the prices of the active orders and nothing else of theirs;
\* and, whatever fails, a closed gig has no active order.
THEOREM OrdersAreConsistent == ~Concurrent => (Spec => []OrdersConsistent)
  <1> SUFFICES ASSUME ~Concurrent PROVE Spec => []OrdersConsistent
    OBVIOUS
  <1>1. TypeInv /\ EscrowInv /\ SerialInv /\ AccountInv /\ GigInv /\ (DirectInv /\ AgreeInv)
            => OrdersConsistent
    <2> SUFFICES ASSUME TypeInv, EscrowInv, SerialInv, AccountInv, GigInv, AgreeInv
                 PROVE  OrdersConsistent
      OBVIOUS
    <2>1. ASSUME NEW o \in Orders, Quiet(o), faults = 0
          PROVE  /\ ledger[o].escrow = order[o].price
                 /\ ~LeftBySweep(o) =>
                      /\ ledger[o].paid = IF order[o].status = "completed"
                                          THEN ledger[o].escrow ELSE 0
                      /\ ledger[o].refunded = IF order[o].status = "cancelled"
                                              THEN ledger[o].escrow ELSE 0
                 /\ credit[o].tasks = IF order[o].status = "completed" THEN 1 ELSE 0
                 /\ (credit[o].rep > 0) <=> (order[o].status = "completed")
      <3>1. PICK j : AgreeAll(j) /\ j.ord # o
        BY <2>1, QuietAgrees
      <3>2. Agree(j, o, order[o], ledger[o], credit[o])
        BY <3>1 DEF AgreeAll
      <3>3. SettledFor(j, o, order[o].status) = order[o].status
        BY <3>1 DEF SettledFor
      <3>4. ledger[o].escrow = order[o].price
        BY <3>1, <3>2 DEF Agree, EscrowInv, EscrowMatchesPrice
      <3>5. credit[o].rep \in Int
        BY DEF TypeInv, TypeOK, CreditRow
      <3>6. (credit[o].rep > 0) <=> (order[o].status = "completed")
        BY <3>1, <3>2, <3>5 DEF Agree, Terminal
      <3>7. Unmoved(order[o], ledger[o]) => LeftBySweep(o)
        BY <3>4 DEF Unmoved, LeftBySweep, Settled
      <3> QED
        BY <3>1, <3>2, <3>3, <3>4, <3>6, <3>7 DEF Agree
    <2>2. SettledExactly /\ CreditMatchesOutcome
      BY <2>1 DEF SettledExactly, CreditMatchesOutcome
    <2>3. ClosedGigIsIdle
      BY DEF GigInv
    <2> QED
      BY <2>2, <2>3, AccountBacks DEF OrdersConsistent
  <1> QED
    BY <1>1, InitTypeInv, NextTypeInv, InitEscrowInv, NextEscrowInv, InitSerial, NextSerial,
       InitAccount, NextAccount, InitGig, NextGig, InitAgree, NextAgree, PTL DEF Spec
=============================================================================
