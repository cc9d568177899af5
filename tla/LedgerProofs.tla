---------------------------- MODULE LedgerProofs ----------------------------
(***************************************************************************)
(* Theorems about Ledger, for any number of agents, connections and        *)
(* operations and any amounts.                                             *)
(***************************************************************************)
EXTENDS Ledger, TLAPS

(***************************************************************************)
(* Plans: what each transaction locks, in order                            *)
(***************************************************************************)
Locks == Rows \X Modes

LEMMA One ==
    ASSUME NEW x \in Locks
    PROVE  <<x>> \in Seq(Locks) /\ Len(<<x>>) = 1 /\ <<x>>[1] = x
  OBVIOUS

LEMMA Two ==
    ASSUME NEW x \in Locks, NEW y \in Locks
    PROVE  <<x, y>> \in Seq(Locks) /\ Len(<<x, y>>) = 2 /\ <<x, y>>[1] = x /\ <<x, y>>[2] = y
  OBVIOUS

LEMMA Joined ==
    ASSUME NEW s \in Seq(Locks), NEW t \in Seq(Locks)
    PROVE  /\ s \o t \in Seq(Locks)
           /\ Len(s \o t) = Len(s) + Len(t)
           /\ \A i \in 1 .. Len(s) : (s \o t)[i] = s[i]
           /\ \A i \in 1 .. Len(t) : (s \o t)[Len(s) + i] = t[i]
  OBVIOUS

LEMMA JoinedTwo ==
    ASSUME NEW s \in Seq(Locks), NEW t \in Seq(Locks), Len(t) = 2
    PROVE  /\ s \o t \in Seq(Locks)
           /\ Len(s \o t) = Len(s) + 2
           /\ \A i \in 1 .. Len(s) : (s \o t)[i] = s[i]
           /\ (s \o t)[Len(s) + 1] = t[1] /\ (s \o t)[Len(s) + 2] = t[2]
  <1>1. 1 \in 1 .. Len(t) /\ 2 \in 1 .. Len(t)
    OBVIOUS
  <1> QED
    BY <1>1, Joined

LEMMA OneAndTwo ==
    ASSUME NEW s \in Seq(Locks), Len(s) = 1, NEW t \in Seq(Locks), Len(t) = 2
    PROVE  /\ s \o t \in Seq(Locks) /\ Len(s \o t) = 3
           /\ (s \o t)[1] = s[1]
           /\ (s \o t)[2] = t[1] /\ (s \o t)[3] = t[2]
  <1> DEFINE r == s \o t
  <1>1. /\ r \in Seq(Locks) /\ Len(r) = Len(s) + 2
        /\ \A i \in 1 .. Len(s) : r[i] = s[i]
        /\ r[Len(s) + 1] = t[1] /\ r[Len(s) + 2] = t[2]
    BY JoinedTwo
  <1> HIDE DEF r
  <1>2. /\ r \in Seq(Locks) /\ Len(r) = 3
        /\ r[1] = s[1]
        /\ r[2] = t[1] /\ r[3] = t[2]
    BY <1>1
  <1> QED
    BY <1>2 DEF r

LEMMA TwoAndTwo ==
    ASSUME NEW s \in Seq(Locks), Len(s) = 2, NEW t \in Seq(Locks), Len(t) = 2
    PROVE  /\ s \o t \in Seq(Locks) /\ Len(s \o t) = 4
           /\ (s \o t)[1] = s[1] /\ (s \o t)[2] = s[2]
           /\ (s \o t)[3] = t[1] /\ (s \o t)[4] = t[2]
  <1> DEFINE r == s \o t
  <1>1. /\ r \in Seq(Locks) /\ Len(r) = Len(s) + 2
        /\ \A i \in 1 .. Len(s) : r[i] = s[i]
        /\ r[Len(s) + 1] = t[1] /\ r[Len(s) + 2] = t[2]
    BY JoinedTwo
  <1> HIDE DEF r
  <1>2. /\ r \in Seq(Locks) /\ Len(r) = 4
        /\ r[1] = s[1] /\ r[2] = s[2]
        /\ r[3] = t[1] /\ r[4] = t[2]
    BY <1>1
  <1> QED
    BY <1>2 DEF r

LEMMA ThreeAndTwo ==
    ASSUME NEW s \in Seq(Locks), Len(s) = 3, NEW t \in Seq(Locks), Len(t) = 2
    PROVE  /\ s \o t \in Seq(Locks) /\ Len(s \o t) = 5
           /\ (s \o t)[1] = s[1] /\ (s \o t)[2] = s[2] /\ (s \o t)[3] = s[3]
           /\ (s \o t)[4] = t[1] /\ (s \o t)[5] = t[2]
  <1> DEFINE r == s \o t
  <1>1. /\ r \in Seq(Locks) /\ Len(r) = Len(s) + 2
        /\ \A i \in 1 .. Len(s) : r[i] = s[i]
        /\ r[Len(s) + 1] = t[1] /\ r[Len(s) + 2] = t[2]
    BY JoinedTwo
  <1> HIDE DEF r
  <1>2. /\ r \in Seq(Locks) /\ Len(r) = 5
        /\ r[1] = s[1] /\ r[2] = s[2] /\ r[3] = s[3]
        /\ r[4] = t[1] /\ r[5] = t[2]
    BY <1>1
  <1> QED
    BY <1>2 DEF r

LEMMA FiveAndTwo ==
    ASSUME NEW s \in Seq(Locks), Len(s) = 5, NEW t \in Seq(Locks), Len(t) = 2
    PROVE  /\ s \o t \in Seq(Locks) /\ Len(s \o t) = 7
           /\ (s \o t)[1] = s[1] /\ (s \o t)[2] = s[2] /\ (s \o t)[3] = s[3]
           /\ (s \o t)[6] = t[1] /\ (s \o t)[7] = t[2]
  <1> DEFINE r == s \o t
  <1>1. /\ r \in Seq(Locks) /\ Len(r) = Len(s) + 2
        /\ \A i \in 1 .. Len(s) : r[i] = s[i]
        /\ r[Len(s) + 1] = t[1] /\ r[Len(s) + 2] = t[2]
    BY JoinedTwo
  <1> HIDE DEF r
  <1>2. /\ r \in Seq(Locks) /\ Len(r) = 7
        /\ r[1] = s[1] /\ r[2] = s[2] /\ r[3] = s[3]
        /\ r[6] = t[1] /\ r[7] = t[2]
    BY <1>1
  <1> QED
    BY <1>2 DEF r

LEMMA ThreeAndOne ==
    ASSUME NEW s \in Seq(Locks), Len(s) = 3, NEW t \in Seq(Locks), Len(t) = 1
    PROVE  s \o t \in Seq(Locks) /\ Len(s \o t) = 4 /\ (s \o t)[4] = t[1]
  <1> DEFINE r == s \o t
  <1>1. r \in Seq(Locks) /\ Len(r) = Len(s) + Len(t) /\ r[Len(s) + 1] = t[1]
    <2>1. 1 \in 1 .. Len(t)
      OBVIOUS
    <2> QED
      BY <2>1, Joined
  <1> HIDE DEF r
  <1>2. r \in Seq(Locks) /\ Len(r) = 4 /\ r[4] = t[1]
    BY <1>1
  <1> QED
    BY <1>2 DEF r

LEMMA LogsLocks ==
    ASSUME NEW r \in Rows, NEW s \in Rows
    PROVE  /\ Logs(r, s) \in Seq(Locks) /\ Len(Logs(r, s)) = 2
           /\ Logs(r, s)[1] = <<r, "share">> /\ Logs(r, s)[2] = <<s, "share">>
  BY Two DEF Logs, Locks, Modes

LEMMA UpdateLocks ==
    ASSUME NEW r \in Rows, NEW s \in Rows
    PROVE  LET t == <<<<r, "noKey">>, <<s, "noKey">>>>
           IN t \in Seq(Locks) /\ Len(t) = 2 /\ t[1] = <<r, "noKey">> /\ t[2] = <<s, "noKey">>
  BY Two DEF Locks, Modes

LEMMA PlanEmission ==
    ASSUME NEW op \in Op, op.kind = "emission"
    PROVE  /\ Plan(op) \in Seq(Locks) /\ Len(Plan(op)) = 2
           /\ Plan(op)[1] = <<op.to, "share">> /\ Plan(op)[2] = <<op.to, "noKey">>
  <1>1. Plan(op) = <<<<op.to, "share">>, <<op.to, "noKey">>>>
    BY DEF Plan, Spends
  <1>2. <<op.to, "share">> \in Locks /\ <<op.to, "noKey">> \in Locks
    BY DEF Locks, Modes, Op
  <1> QED
    BY <1>1, <1>2, Two

LEMMA PlanPay ==
    ASSUME NEW op \in Op, op.kind \in {"payTask", "refund"}
    PROVE  /\ Plan(op) \in Seq(Locks) /\ Len(Plan(op)) = 4
           /\ Plan(op)[1] = <<System, "share">> /\ Plan(op)[2] = <<op.to, "share">>
           /\ Plan(op)[3] = <<System, "noKey">> /\ Plan(op)[4] = <<op.to, "noKey">>
  <1> DEFINE u == <<<<System, "noKey">>, <<op.to, "noKey">>>>
  <1>1. System \in Rows /\ op.to \in Rows
    BY DEF Op, Rows
  <1>2. Plan(op) = Logs(System, op.to) \o u
    BY DEF Plan, Spends, LogsFirst
  <1>3. u \in Seq(Locks) /\ Len(u) = 2 /\ u[1] = <<System, "noKey">> /\ u[2] = <<op.to, "noKey">>
    BY <1>1, UpdateLocks
  <1> HIDE DEF u
  <1> QED
    BY <1>1, <1>2, <1>3, LogsLocks, TwoAndTwo

LEMMA PlanPayOrder ==
    ASSUME NEW op \in Op, op.kind = "payOrder"
    PROVE  /\ Plan(op) \in Seq(Locks) /\ Len(Plan(op)) = 4
           /\ Plan(op)[4] = <<op.to, "noKey">>
  <1> DEFINE p == <<<<System, "noKey">>>>
             l == Logs(System, op.to)
             u == <<<<op.to, "noKey">>>>
  <1>1. System \in Rows /\ op.to \in Rows
    BY DEF Op, Rows
  <1>2. Plan(op) = (p \o l) \o u
    BY DEF Plan, Spends, DebitsFirst
  <1>3. <<System, "noKey">> \in Locks /\ <<op.to, "noKey">> \in Locks
    BY <1>1 DEF Locks, Modes
  <1>4. p \in Seq(Locks) /\ Len(p) = 1 /\ u \in Seq(Locks) /\ Len(u) = 1 /\ u[1] = <<op.to, "noKey">>
    BY <1>3, One
  <1>5. l \in Seq(Locks) /\ Len(l) = 2
    BY <1>1, LogsLocks
  <1> HIDE DEF p, l, u
  <1>6. p \o l \in Seq(Locks) /\ Len(p \o l) = 3
    BY <1>4, <1>5, OneAndTwo
  <1> DEFINE q == p \o l
  <1>7. q \in Seq(Locks) /\ Len(q) = 3 /\ Plan(op) = q \o u
    BY <1>2, <1>6
  <1> HIDE DEF q
  <1> QED
    BY <1>4, <1>7, ThreeAndOne

\* Who spends locks its own row first.
LEMMA PlanSpend ==
    ASSUME NEW op \in Op, Spends(op)
    PROVE  /\ Plan(op) \in Seq(Locks) /\ Len(Plan(op)) \in {5, 7}
           /\ Plan(op)[1] = <<op.from, "full">> /\ Plan(op)[2] = <<op.from, "share">>
           /\ Plan(op)[3] = <<op.to, "share">>
           /\ Plan(op)[Len(Plan(op))] = <<op.to, "noKey">>
           /\ op.kind = "escrow" => /\ Len(Plan(op)) = 5
                                    /\ Plan(op)[4] = <<op.from, "noKey">>
                                    /\ Plan(op)[5] = <<op.to, "noKey">>
  <1> DEFINE p == PayerLock(op)
             l == Logs(op.from, op.to)
             q == p \o l
             u == <<<<op.from, "noKey">>, <<op.to, "noKey">>>>
  <1>1. System \in Rows /\ op.to \in Rows /\ op.from \in Rows
    BY DEF Op, Rows
  <1>2. Plan(op) = (q \o Fee(op)) \o u
    <2>1. Plan(op) = PayerFirst(op)
      BY DEF Plan, Spends
    <2> QED
      BY <2>1 DEF PayerFirst
  <1>3. p \in Seq(Locks) /\ Len(p) = 1 /\ p[1] = <<op.from, "full">>
    <2>1. <<op.from, "full">> \in Locks
      BY <1>1 DEF Locks, Modes
    <2> QED
      BY <2>1, One DEF PayerLock
  <1>4. l \in Seq(Locks) /\ Len(l) = 2 /\ l[1] = <<op.from, "share">> /\ l[2] = <<op.to, "share">>
    BY <1>1, LogsLocks
  <1>5. u \in Seq(Locks) /\ Len(u) = 2 /\ u[1] = <<op.from, "noKey">> /\ u[2] = <<op.to, "noKey">>
    BY <1>1, UpdateLocks
  <1>6. /\ q \in Seq(Locks) /\ Len(q) = 3 /\ q[1] = <<op.from, "full">>
        /\ q[2] = <<op.from, "share">> /\ q[3] = <<op.to, "share">>
    <2> HIDE DEF p, l
    <2> QED
      BY <1>3, <1>4, OneAndTwo
  <1> HIDE DEF q, u
  <1>7. CASE op.kind = "transfer"
    <2> DEFINE r == q \o Fee(op)
    <2>1. Fee(op) \in Seq(Locks) /\ Len(Fee(op)) = 2
      BY <1>1, <1>7, LogsLocks DEF Fee
    <2>2. r \in Seq(Locks) /\ Len(r) = 5 /\ r[1] = q[1] /\ r[2] = q[2] /\ r[3] = q[3]
      BY <2>1, <1>6, ThreeAndTwo
    <2>3. Plan(op) = r \o u
      BY <1>2
    <2> HIDE DEF r
    <2>4. /\ Plan(op) \in Seq(Locks) /\ Len(Plan(op)) = 7
          /\ Plan(op)[1] = r[1] /\ Plan(op)[2] = r[2] /\ Plan(op)[3] = r[3]
          /\ Plan(op)[7] = u[2]
      BY <2>2, <2>3, <1>5, FiveAndTwo
    <2> QED
      BY <2>2, <2>4, <1>5, <1>6, <1>7
  <1>8. CASE op.kind # "transfer"
    <2>1. q \o Fee(op) = q
      BY <1>8, <1>6 DEF Fee
    <2>2. Plan(op) = q \o u
      BY <1>2, <2>1
    <2> QED
      BY <2>2, <1>5, <1>6, ThreeAndTwo
  <1> QED
    BY <1>7, <1>8

\* Every plan is a sequence of locks that ends.
LEMMA PlanType ==
    ASSUME NEW op \in Op
    PROVE  Plan(op) \in Seq(Locks) /\ Len(Plan(op)) \in Nat \ {0}
  <1>1. op.kind \in Kinds
    BY DEF Op
  <1> QED
    BY <1>1, PlanEmission, PlanPay, PlanPayOrder, PlanSpend DEF Kinds, Spends

\* Every plan ends with the update of the recipient's row.
LEMMA PlanEnds ==
    ASSUME NEW op \in Op
    PROVE  Plan(op)[Len(Plan(op))] = <<op.to, "noKey">>
  <1>1. op.kind \in Kinds
    BY DEF Op
  <1>2. CASE op.kind = "emission"
    BY <1>2, PlanEmission
  <1>3. CASE op.kind \in {"payTask", "refund"}
    BY <1>3, PlanPay
  <1>4. CASE op.kind = "payOrder"
    BY <1>4, PlanPayOrder
  <1>5. CASE Spends(op)
    BY <1>5, PlanSpend
  <1> QED
    BY <1>1, <1>2, <1>3, <1>4, <1>5 DEF Kinds, Spends

(***************************************************************************)
(* Amounts: what rounding does to a number                                 *)
(***************************************************************************)
LEMMA CentsType ==
    /\ Cents \subseteq Int /\ Column \subseteq Number /\ NaN \in Column /\ NaN \notin Int
    /\ \A x \in Column : x # NaN => x \in Cents
    /\ \A x \in Number : x # NaN => x \in Int
  BY NaNAssumption DEF Cents, Column, Number

LEMMA CentsInt == \A x \in Cents : x \in Int
  BY DEF Cents

LEMMA CentsAdd ==
    ASSUME NEW x \in Cents, NEW y \in Cents
    PROVE  x + y \in Cents /\ x - y \in Cents
  BY DEF Cents

LEMMA NearestTen ==
    ASSUME NEW x \in Int
    PROVE  /\ Nearest(x, 10) \in Int
           /\ -5 <= 10 * Nearest(x, 10) - x /\ 10 * Nearest(x, 10) - x <= 5
  BY DEF Nearest

LEMMA NearestThousand ==
    ASSUME NEW x \in Int
    PROVE  /\ Nearest(x, 1000) \in Int
           /\ -500 <= 1000 * Nearest(x, 1000) - x /\ 1000 * Nearest(x, 1000) - x <= 500
  BY DEF Nearest

\* A number is rounded by half a hundredth at most, and a column's value is kept.
LEMMA RoundedNear ==
    ASSUME NEW x \in Int
    PROVE  /\ Rounded(x) \in Cents
           /\ -5 <= Rounded(x) - x /\ Rounded(x) - x <= 5
           /\ x \in Cents => Rounded(x) = x
           /\ \A n \in Cents : x >= n => Rounded(x) >= n
  <1> DEFINE k == Nearest(x, 10)
  <1>1. k \in Int /\ -5 <= 10 * k - x /\ 10 * k - x <= 5
    BY NearestTen
  <1>2. Rounded(x) = 10 * k
    BY NaNAssumption DEF Rounded
  <1> HIDE DEF k
  <1>3. \A n \in Cents : n \in Int /\ n % 10 = 0
    BY DEF Cents
  <1>4. 10 * k \in Cents
    BY <1>1 DEF Cents
  <1>5. ASSUME NEW n \in Cents, x >= n PROVE 10 * k >= n
    BY <1>1, <1>3, <1>5
  <1>6. x \in Cents => 10 * k = x
    BY <1>1, <1>3
  <1> QED
    BY <1>1, <1>2, <1>4, <1>5, <1>6

LEMMA RoundedType ==
    ASSUME NEW x \in Number
    PROVE  Rounded(x) \in Column /\ (Rounded(x) = NaN <=> x = NaN)
  <1>1. CASE x = NaN
    BY <1>1 DEF Rounded, Column
  <1>2. CASE x # NaN
    <2>1. Rounded(x) \in Cents
      BY <1>2, CentsType, RoundedNear
    <2> QED
      BY <1>2, <2>1, CentsType DEF Column
  <1> QED
    BY <1>1, <1>2

LEMMA PlusType ==
    ASSUME NEW x \in Number, NEW y \in Number
    PROVE  /\ Plus(x, y) \in Number /\ Minus(x, y) \in Number
           /\ Plus(x, y) = NaN <=> x = NaN \/ y = NaN
           /\ Minus(x, y) = NaN <=> x = NaN \/ y = NaN
           /\ x # NaN /\ y # NaN => Plus(x, y) = x + y /\ Minus(x, y) = x - y
  BY NaNAssumption DEF Plus, Minus, Number

LEMMA ColumnPlus ==
    ASSUME NEW x \in Column, NEW y \in Column
    PROVE  Plus(x, y) \in Column /\ Minus(x, y) \in Column
  BY CentsAdd, CentsType DEF Plus, Minus, Column

LEMMA CapType ==
    ASSUME NEW x \in Number
    PROVE  AtMostCap(x) \in Int /\ (x \in Cents => AtMostCap(x) \in Cents)
  BY NaNAssumption DEF AtMostCap, Number, Cents, MAX_BALANCE_CAP

\* The two parts of an amount are whole hundredths, and together within one of it.
LEMMA Parts ==
    ASSUME NEW amount \in Int
    PROVE  /\ NetAmount(amount) \in Cents /\ FeeAmount(amount) \in Cents
           /\ -10 <= NetAmount(amount) + FeeAmount(amount) - amount
           /\ NetAmount(amount) + FeeAmount(amount) - amount <= 10
           /\ amount >= 0 => NetAmount(amount) >= 0
  <1> DEFINE j == Nearest(amount * 95, 1000)
             k == Nearest(amount * 5, 1000)
  <1>1. j \in Int /\ -500 <= 1000 * j - amount * 95 /\ 1000 * j - amount * 95 <= 500
    BY NearestThousand
  <1>2. k \in Int /\ -500 <= 1000 * k - amount * 5 /\ 1000 * k - amount * 5 <= 500
    BY NearestThousand
  <1>3. NetAmount(amount) = 10 * j /\ FeeAmount(amount) = 10 * k
    BY NaNAssumption DEF NetAmount, FeeAmount
  <1> HIDE DEF j, k
  <1>4. 10 * j \in Cents /\ 10 * k \in Cents
    BY <1>1, <1>2 DEF Cents
  <1>5. -10 <= 10 * j + 10 * k - amount /\ 10 * j + 10 * k - amount <= 10
    BY <1>1, <1>2
  <1>6. amount >= 0 => 10 * j >= 0
    BY <1>1
  <1> QED
    BY <1>3, <1>4, <1>5, <1>6

LEMMA PartsType ==
    ASSUME NEW amount \in Number
    PROVE  /\ NetAmount(amount) \in Column /\ FeeAmount(amount) \in Column
           /\ NetAmount(amount) = NaN <=> amount = NaN
           /\ FeeAmount(amount) = NaN <=> amount = NaN
  <1>1. CASE amount = NaN
    BY <1>1 DEF NetAmount, FeeAmount, Column
  <1>2. CASE amount # NaN
    <2>1. NetAmount(amount) \in Cents /\ FeeAmount(amount) \in Cents
      BY <1>2, CentsType, Parts
    <2> QED
      BY <1>2, <2>1, CentsType DEF Column
  <1> QED
    BY <1>1, <1>2

(***************************************************************************)
(* Types                                                                   *)
(***************************************************************************)
\* What the kind of a transaction says about its two rows and its amount: only
\* the price of an order, which an escrow, a payment and a refund move, may be
\* negative, and what is paid or refunded is as a column holds it.
RowsFit(op) ==
    /\ op.kind = "escrow" => op.to = System
    /\ op.kind \in {"payTask", "payOrder", "refund"} => op.from = System /\ op.to \in Agents
    /\ op.kind \in {"p2p", "transfer"} => op.from \in Agents /\ op.to \in Agents
    /\ op.kind = "transfer" => op.from # op.to
    /\ op.kind = "emission" => op.from = System /\ op.amount \in Nat
    /\ op.kind \in {"payTask", "payOrder", "refund"} => op.amount \in Column
    /\ op.kind \in {"payTask", "p2p", "transfer"} => op.amount \in Nat \cup {NaN}

\* A connection is within its plan, and pays emissions to agents.
Fits(x) ==
    /\ RowsFit(x.op) /\ x.pc <= Len(Plan(x.op)) + 1
    /\ x.pc > 0 /\ x.op.kind = "emission" => x.op.to \in Agents

TypeInv ==
    /\ TypeOK
    /\ \A c \in Conns : Fits(conn[c])

LEMMA IdleFits ==
    IdleConn \in [pc : Nat, op : Op] /\ Fits(IdleConn) /\ IdleConn.pc = 0
  <1>1. NoOp \in Op
    BY DEF NoOp, Op, Kinds, Rows, Number
  <1>2. Len(Plan(NoOp)) \in Nat
    BY <1>1, PlanType
  <1> QED
    BY <1>1, <1>2 DEF IdleConn, NoOp, RowsFit, Fits

\* A connection begins a transaction, goes on with it, or ends it.
LEMMA ConnStep ==
    ASSUME TypeInv, NEW c \in Conns, NEW x \in [pc : Nat, op : Op],
           Fits(x),
           conn' = [conn EXCEPT ![c] = x]
    PROVE  /\ conn' \in [Conns -> [pc : Nat, op : Op]]
           /\ \A d \in Conns : Fits(conn'[d])
           /\ conn'[c] = x /\ \A d \in Conns \ {c} : conn'[d] = conn[d]
  BY DEF TypeInv, TypeOK

LEMMA OpensType ==
    ASSUME TypeInv, NEW c \in Conns, NEW op \in Op, RowsFit(op), Opens(c, op),
           op.kind = "emission" => op.to \in Agents
    PROVE  /\ conn' \in [Conns -> [pc : Nat, op : Op]]
           /\ \A d \in Conns : Fits(conn'[d])
           /\ conn'[c] = [pc |-> 1, op |-> op] /\ \A d \in Conns \ {c} : conn'[d] = conn[d]
  <1> DEFINE x == [pc |-> 1, op |-> op]
  <1>1. x \in [pc : Nat, op : Op] /\ x.op = op /\ x.pc = 1
    OBVIOUS
  <1>2. Fits(x)
    BY <1>1, PlanType DEF Fits
  <1>3. conn' = [conn EXCEPT ![c] = x]
    BY DEF Opens
  <1> HIDE DEF x
  <1>4. /\ conn' \in [Conns -> [pc : Nat, op : Op]]
        /\ \A d \in Conns : Fits(conn'[d])
        /\ conn'[c] = x /\ \A d \in Conns \ {c} : conn'[d] = conn[d]
    BY <1>1, <1>2, <1>3, ConnStep
  <1> QED
    BY <1>4 DEF x

LEMMA EndsType ==
    ASSUME TypeInv, NEW c \in Conns, conn' = [conn EXCEPT ![c] = IdleConn]
    PROVE  /\ conn' \in [Conns -> [pc : Nat, op : Op]]
           /\ \A d \in Conns : Fits(conn'[d])
           /\ conn'[c] = IdleConn /\ \A d \in Conns \ {c} : conn'[d] = conn[d]
  BY IdleFits, ConnStep

LEMMA RunAfterType ==
    ASSUME run \in Run, NEW c \in Conns, NEW pc \in {"next", "failed"}
    PROVE  RunAfter(c, pc) \in Run
  BY DEF RunAfter, Run

LEMMA PriceType ==
    /\ Amounts \subseteq (Nat \ {0}) \cup {NaN} /\ Amounts \subseteq Number
    /\ GigPrices \subseteq Cents /\ GigPrices \subseteq Number
    /\ \A x \in TaskPrices : x \in Column /\ x \in Nat \cup {NaN}
  <1>1. Amounts \subseteq (Nat \ {0}) \cup {NaN} /\ Amounts \subseteq Number
    BY AmountsAssumption DEF Number
  <1>2. GigPrices \subseteq Cents /\ GigPrices \subseteq Number
    BY AmountsAssumption, CentsType DEF Number
  <1>3. ASSUME NEW x \in Amounts PROVE Rounded(x) \in Column /\ Rounded(x) \in Nat \cup {NaN}
    <2>1. x \in Number /\ Rounded(x) \in Column
      BY <1>1, RoundedType
    <2>2. CASE x = NaN
      BY <2>1, <2>2 DEF Rounded
    <2>3. CASE x # NaN
      <3>1. x \in Nat /\ 0 \in Cents
        BY <1>1, <2>3 DEF Cents
      <3>2. Rounded(x) >= 0 /\ Rounded(x) \in Int
        BY <3>1, RoundedNear, CentsInt
      <3> QED
        BY <2>1, <3>2
    <2> QED
      BY <2>2, <2>3
  <1> QED
    BY <1>1, <1>2, <1>3 DEF TaskPrices

LEMMA RequestFits ==
    ASSUME NEW op \in Requests
    PROVE  op \in Op /\ RowsFit(op) /\ op.kind # "emission"
  <1>1. op \in Op /\ op.kind # "emission"
    <2>1. /\ op \in [kind : Kinds, from : Rows, to : Rows, amount : Amounts \cup TaskPrices \cup GigPrices]
          /\ op.kind # "emission"
      BY DEF Requests
    <2>2. Amounts \cup TaskPrices \cup GigPrices \subseteq Number
      BY PriceType, CentsType
    <2> QED
      BY <2>1, <2>2 DEF Op
  <1>2. op.kind = "escrow" => op.to = System
    BY DEF Requests
  <1>3. op.kind \in {"payTask", "payOrder", "refund"} => op.from = System /\ op.to \in Agents
    BY DEF Requests
  <1>4. /\ op.kind \in {"p2p", "transfer"} => op.from \in Agents /\ op.to \in Agents /\ op.amount \in Amounts
        /\ op.kind = "transfer" => op.from # op.to
    BY DEF Requests
  <1>5. /\ op.kind = "payTask" => op.amount \in TaskPrices
        /\ op.kind \in {"payOrder", "refund"} => op.amount \in TaskPrices \cup GigPrices
    BY DEF Requests
  <1>6. TaskPrices \cup GigPrices \subseteq Column
    BY PriceType DEF Column
  <1> QED
    BY <1>1, <1>2, <1>3, <1>4, <1>5, <1>6, PriceType DEF RowsFit

LEMMA BaseType == \A n \in Int : getBaseEmission(n) \in Nat
  BY DEF getBaseEmission

LEMMA ReceivedType ==
    ASSUME NEW op \in Op
    PROVE  /\ Received(op) \in Number /\ (Received(op) = NaN <=> op.amount = NaN)
           /\ op.kind \in {"payTask", "payOrder", "transfer"} => Received(op) \in Column
           /\ op.kind \notin {"payTask", "payOrder", "transfer"} => Received(op) = op.amount
  BY PartsType, CentsType DEF Received, Op

LEMMA NatBounds ==
    OtherVerified \in Nat /\ MaxOps \in Nat /\ MaxEmissions \in Nat /\ MaxFaults \in Nat
  BY BoundsAssumption

LEMMA EmittedType ==
    ASSUME TypeInv, NEW e \in run.todo
    PROVE  Emitted(e) \in Int /\ e.agent \in Agents
  <1>1. e \in RunRow /\ run.base \in Nat
    BY DEF TypeInv, TypeOK, Run
  <1>2. getActivityMultiplier(e.calls, paid[e.agent]) \in Nat
    BY DEF getActivityMultiplier
  <1>3. run.base * getActivityMultiplier(e.calls, paid[e.agent]) \in Int
    BY <1>1, <1>2
  <1> DEFINE m == run.base * getActivityMultiplier(e.calls, paid[e.agent])
  <1> HIDE DEF m
  <1>4. m \div 4 \in Int
    BY <1>3 DEF m
  <1>5. MAX_BALANCE_CAP - e.balance \in Int
    BY <1>1, CentsInt DEF RunRow, MAX_BALANCE_CAP
  <1> QED
    BY <1>1, <1>4, <1>5 DEF Emitted, SmallerOf, RunRow, m

LEMMA InitTypes == Init => TypeInv
  <1> SUFFICES ASSUME Init PROVE TypeInv
    OBVIOUS
  <1> USE DEF Init
  <1>1. conn \in [Conns -> [pc : Nat, op : Op]]
    BY IdleFits
  <1>2. \A c \in Conns : Fits(conn[c])
    BY IdleFits
  <1>3. bal \in [Rows -> Column] /\ log \in [Rows -> Column]
    BY StartingAssumption DEF Column, Cents
  <1>4. run \in Run /\ cron \in [pc : {"idle", "update"}, logged : SUBSET Agents]
    BY DEF NoEmission, NoCron, Run
  <1> QED
    BY <1>1, <1>2, <1>3, <1>4, NatBounds DEF TypeInv, TypeOK, drift

LEMMA RollbackTypes ==
    ASSUME TypeInv, NEW c \in Conns, Rollback(c), faults' \in 0 .. MaxFaults
    PROVE  TypeInv'
  <1>1. /\ conn' \in [Conns -> [pc : Nat, op : Op]]
        /\ \A d \in Conns : Fits(conn'[d])
    BY EndsType DEF Rollback
  <1>2. run' \in Run
    BY RunAfterType DEF Rollback, TypeInv, TypeOK, drift
  <1> QED
    BY <1>1, <1>2 DEF Rollback, TypeInv, TypeOK, drift

LEMMA BeginTypes ==
    ASSUME TypeInv, NEW c \in Conns, Begin(c)
    PROVE  TypeInv'
  <1>1. PICK op \in Requests : Opens(c, op)
    BY DEF Begin
  <1>2. /\ conn' \in [Conns -> [pc : Nat, op : Op]]
        /\ \A d \in Conns : Fits(conn'[d])
    BY <1>1, RequestFits, OpensType
  <1>3. ops' \in 0 .. MaxOps
    BY NatBounds DEF Begin, TypeInv, TypeOK, drift
  <1> QED
    BY <1>2, <1>3 DEF Begin, TypeInv, TypeOK, jobs, drift

LEMMA StatementTypes ==
    ASSUME TypeInv, NEW c \in Conns, Statement(c)
    PROVE  TypeInv'
  <1>1. CASE Rollback(c)
    BY <1>1, RollbackTypes DEF Statement, TypeInv, TypeOK, drift
  <1>2. CASE /\ conn' = [conn EXCEPT ![c].pc = @ + 1]
             /\ UNCHANGED <<bal, log, paid, pending, jobs, drift, ops>>
    <2> DEFINE x == [conn[c] EXCEPT !.pc = @ + 1]
    <2>1. conn[c] \in [pc : Nat, op : Op] /\ Fits(conn[c]) /\ conn[c].pc > 0
      BY DEF TypeInv, TypeOK, Statement, WantsLock, Busy
    <2>2. conn[c].pc <= Len(Plan(conn[c].op)) /\ Len(Plan(conn[c].op)) \in Nat
      BY <2>1, PlanType DEF Statement, WantsLock
    <2>3. x \in [pc : Nat, op : Op] /\ Fits(x)
      BY <2>1, <2>2 DEF Fits
    <2>4. conn' = [conn EXCEPT ![c] = x]
      BY <1>2
    <2> HIDE DEF x
    <2>5. /\ conn' \in [Conns -> [pc : Nat, op : Op]]
          /\ \A d \in Conns : Fits(conn'[d])
      BY <2>3, <2>4, ConnStep
    <2> QED
      BY <1>2, <2>5 DEF Statement, TypeInv, TypeOK, jobs, drift
  <1> QED
    BY <1>1, <1>2 DEF Statement

\* What an UPDATE does to one row.
LEMMA AddRow ==
    ASSUME NEW b \in [Rows -> Column], NEW r \in Rows, NEW x \in Number
    PROVE  /\ Add(b, r, x) \in [Rows -> Column] /\ Subtract(b, r, x) \in [Rows -> Column]
           /\ \A s \in Rows :
                  /\ Add(b, r, x)[s] = IF s = r THEN Rounded(Plus(b[s], x)) ELSE b[s]
                  /\ Subtract(b, r, x)[s] = IF s = r THEN Rounded(Minus(b[s], x)) ELSE b[s]
  <1>1. b[r] \in Column /\ b[r] \in Number
    BY CentsType
  <1>2. Rounded(Plus(b[r], x)) \in Column /\ Rounded(Minus(b[r], x)) \in Column
    BY <1>1, PlusType, RoundedType
  <1> QED
    BY <1>2 DEF Add, Subtract

\* What a commit does to the balance of one row.
LEMMA CreditedRow ==
    ASSUME NEW b \in [Rows -> Column], NEW op \in Op
    PROVE  /\ Credited(b, op) \in [Rows -> Column]
           /\ \A s \in Rows :
                /\ op.kind = "emission" =>
                     Credited(b, op)[s] = IF s = op.to THEN Rounded(AtMostCap(Plus(b[s], op.amount))) ELSE b[s]
                /\ op.kind # "emission" /\ s = op.from /\ s # op.to =>
                     Credited(b, op)[s] = Rounded(Minus(b[s], op.amount))
                /\ op.kind # "emission" /\ s # op.from /\ s = op.to =>
                     Credited(b, op)[s] = Rounded(Plus(b[s], Received(op)))
                /\ op.kind # "emission" /\ s = op.from /\ s = op.to =>
                     Credited(b, op)[s] = Rounded(Plus(Rounded(Minus(b[s], op.amount)), Received(op)))
                /\ op.kind # "emission" /\ s # op.from /\ s # op.to => Credited(b, op)[s] = b[s]
  <1>1. op.from \in Rows /\ op.to \in Rows /\ op.amount \in Number /\ Received(op) \in Number
    BY ReceivedType DEF Op
  <1>2. CASE op.kind = "emission"
    <2> DEFINE v == Rounded(AtMostCap(Plus(b[op.to], op.amount)))
    <2>1. b[op.to] \in Number
      BY <1>1, CentsType
    <2>2. v \in Column
      BY <1>1, <2>1, PlusType, CapType, CentsType, RoundedType DEF Number
    <2>3. Credited(b, op) = [b EXCEPT ![op.to] = v]
      BY <1>2 DEF Credited
    <2>4. \A s \in Rows : s = op.to => v = Rounded(AtMostCap(Plus(b[s], op.amount)))
      OBVIOUS
    <2> HIDE DEF v
    <2> QED
      BY <1>1, <1>2, <2>2, <2>3, <2>4
  <1>3. CASE op.kind # "emission"
    <2> DEFINE d == Subtract(b, op.from, op.amount)
    <2>1. /\ d \in [Rows -> Column]
          /\ \A s \in Rows : d[s] = IF s = op.from THEN Rounded(Minus(b[s], op.amount)) ELSE b[s]
      BY <1>1, AddRow
    <2>2. Credited(b, op) = Add(d, op.to, Received(op))
      BY <1>3 DEF Credited
    <2> HIDE DEF d
    <2>3. /\ Credited(b, op) \in [Rows -> Column]
          /\ \A s \in Rows : Credited(b, op)[s] = IF s = op.to THEN Rounded(Plus(d[s], Received(op))) ELSE d[s]
      BY <1>1, <2>1, <2>2, AddRow
    <2> QED
      BY <1>3, <2>1, <2>3
  <1> QED
    BY <1>2, <1>3

\* What a commit does to the log of one agent.
LEMMA LoggedRow ==
    ASSUME NEW l \in [Rows -> Column], NEW op \in Op
    PROVE  LET amount == Rounded(Received(op))
               fee == FeeAmount(op.amount)
           IN /\ Logged(l, op) \in [Rows -> Column]
              /\ \A s \in Rows :
                  /\ op.kind = "emission" =>
                       Logged(l, op)[s] = IF s = op.to THEN Plus(l[s], amount) ELSE l[s]
                  /\ op.kind # "emission" =>
                       LET In == IF s = op.to THEN Plus(l[s], amount) ELSE l[s]
                           Out == IF s = op.from THEN Minus(In, amount) ELSE In
                       IN /\ op.kind # "transfer" => Logged(l, op)[s] = Out
                          /\ op.kind = "transfer" /\ s # System =>
                               Logged(l, op)[s] = IF s = op.from THEN Minus(Out, fee) ELSE Out
  <1> DEFINE amount == Rounded(Received(op))
             fee == FeeAmount(op.amount)
             In == [l EXCEPT ![op.to] = Plus(@, amount)]
             Out == [In EXCEPT ![op.from] = Minus(@, amount)]
             Net == [Out EXCEPT ![op.from] = Minus(@, fee)]
             All == [Net EXCEPT ![System] = Plus(@, fee)]
  <1>1. op.from \in Rows /\ op.to \in Rows /\ System \in Rows /\ op.amount \in Number
    BY DEF Op, Rows
  <1>2. amount \in Column /\ fee \in Column
    BY <1>1, ReceivedType, RoundedType, PartsType
  <1>3. /\ op.kind = "emission" => Logged(l, op) = In
        /\ op.kind = "transfer" => Logged(l, op) = All
        /\ op.kind # "emission" /\ op.kind # "transfer" => Logged(l, op) = Out
    BY DEF Logged
  <1> HIDE DEF amount, fee
  <1>4. In \in [Rows -> Column] /\ \A s \in Rows : In[s] = IF s = op.to THEN Plus(l[s], amount) ELSE l[s]
    BY <1>1, <1>2, ColumnPlus
  <1> HIDE DEF In
  <1>5. Out \in [Rows -> Column] /\ \A s \in Rows : Out[s] = IF s = op.from THEN Minus(In[s], amount) ELSE In[s]
    BY <1>1, <1>2, <1>4, ColumnPlus
  <1> HIDE DEF Out
  <1>6. Net \in [Rows -> Column] /\ \A s \in Rows : Net[s] = IF s = op.from THEN Minus(Out[s], fee) ELSE Out[s]
    BY <1>1, <1>2, <1>5, ColumnPlus
  <1> HIDE DEF Net
  <1>7. All \in [Rows -> Column] /\ \A s \in Rows : s # System => All[s] = Net[s]
    BY <1>1, <1>2, <1>6, ColumnPlus
  <1> HIDE DEF All
  <1>8. Logged(l, op) \in [Rows -> Column]
    BY <1>3, <1>4, <1>5, <1>7
  <1>9. ASSUME NEW s \in Rows, op.kind = "emission"
        PROVE  Logged(l, op)[s] = IF s = op.to THEN Plus(l[s], amount) ELSE l[s]
    BY <1>3, <1>4, <1>9
  <1>10. ASSUME NEW s \in Rows, op.kind # "emission", op.kind # "transfer"
         PROVE  Logged(l, op)[s] = IF s = op.from THEN Minus(In[s], amount) ELSE In[s]
    BY <1>3, <1>5, <1>10
  <1>11. ASSUME NEW s \in Rows, s # System, op.kind = "transfer"
         PROVE  Logged(l, op)[s] = IF s = op.from THEN Minus(Out[s], fee) ELSE Out[s]
    BY <1>3, <1>6, <1>7, <1>11
  <1> QED
    BY <1>4, <1>5, <1>8, <1>9, <1>10, <1>11 DEF amount, fee

\* What a commit does to the balances and to the log.
LEMMA CommitAmounts ==
    ASSUME TypeInv, NEW op \in Op
    PROVE  /\ Credited(bal, op) \in [Rows -> Column]
           /\ Logged(log, op) \in [Rows -> Column]
  <1>1. bal \in [Rows -> Column] /\ log \in [Rows -> Column]
    BY DEF TypeInv, TypeOK, drift
  <1> QED
    BY <1>1, CreditedRow, LoggedRow

LEMMA OwedType ==
    ASSUME NEW op \in Op
    PROVE  Owed(op) \in Nat
  <1>1. Received(op) \in Number /\ \A x \in Number : x # NaN => x \in Int
    BY ReceivedType, CentsType
  <1> QED
    BY <1>1 DEF Owed, Less

LEMMA CommitTypes ==
    ASSUME TypeInv, NEW c \in Conns, Commit(c)
    PROVE  TypeInv'
  <1> DEFINE op == conn[c].op
  <1>1. op \in Op /\ RowsFit(op)
    BY DEF TypeInv, TypeOK, Fits
  <1>2. bal' \in [Rows -> Column] /\ log' \in [Rows -> Column]
    BY <1>1, CommitAmounts DEF Commit
  <1>3. paid' \in [Agents -> Nat]
    BY <1>1 DEF Commit, RowsFit, TypeInv, TypeOK, drift
  <1>4. leaks' \subseteq Rows
    <2>1. Parted(bal, op) \subseteq Rows
      BY <1>1 DEF Parted, Op
    <2> QED
      BY <2>1 DEF Commit, TypeInv, TypeOK, drift
  <1>5. /\ conn' \in [Conns -> [pc : Nat, op : Op]]
        /\ \A d \in Conns : Fits(conn'[d])
    BY EndsType DEF Commit
  <1>6. run' \in Run
    BY RunAfterType DEF Commit, TypeInv, TypeOK, drift
  <1>7. uneven' \in [Agents -> Nat] /\ owed' \in [Agents -> Nat]
    BY <1>1, OwedType DEF Commit, TypeInv, TypeOK, drift
  <1> QED
    BY <1>2, <1>3, <1>4, <1>5, <1>6, <1>7 DEF Commit, TypeInv, TypeOK, drift

LEMMA CreditTypes ==
    ASSUME TypeInv, NEW a \in Agents, CreditInsert(a) \/ CreditUpdate(a) \/ CreditFails(a)
    PROVE  TypeInv'
  <1>1. /\ bal \in [Rows -> Column] /\ log \in [Rows -> Column]
        /\ VERIFIED_STARTER_BONUS \in Column /\ a \in Rows
    BY DEF TypeInv, TypeOK, VERIFIED_STARTER_BONUS, Column, Cents, Rows
  <1>2. /\ Plus(log[a], VERIFIED_STARTER_BONUS) \in Column
        /\ Plus(bal[a], VERIFIED_STARTER_BONUS) \in Column
    BY <1>1, ColumnPlus
  <1> USE NatBounds DEF TypeInv, TypeOK, jobs, drift, Rows
  <1>3. CASE CreditInsert(a)
    BY <1>2, <1>3 DEF CreditInsert
  <1>4. CASE CreditUpdate(a)
    BY <1>2, <1>4 DEF CreditUpdate
  <1>5. CASE CreditFails(a)
    BY <1>5 DEF CreditFails, Fault
  <1> QED
    BY <1>3, <1>4, <1>5

LEMMA EmissionTypes ==
    ASSUME TypeInv, EmissionSelect \/ EmissionNext \/ EmissionEnd
    PROVE  TypeInv'
  <1>1. CASE EmissionSelect
    <2>1. PICK calls \in [Agents -> CallCounts] :
            run' = [pc |-> "next", conn |-> {},
                    base |-> getBaseEmission(OtherVerified + Cardinality(Agents)),
                    todo |-> {[agent |-> a, balance |-> bal[a], calls |-> calls[a]] :
                                  a \in {a \in Agents : Less(bal[a], MAX_BALANCE_CAP)}}]
      BY <1>1 DEF EmissionSelect
    <2>2. {[agent |-> a, balance |-> bal[a], calls |-> calls[a]] :
                                  a \in {a \in Agents : Less(bal[a], MAX_BALANCE_CAP)}} \subseteq RunRow
      BY CentsType DEF RunRow, TypeInv, TypeOK, Rows, Less
    <2>3. getBaseEmission(OtherVerified + Cardinality(Agents)) \in Nat
      BY DEF getBaseEmission
    <2>4. run' \in Run
      BY <2>1, <2>2, <2>3 DEF Run
    <2> QED
      BY <1>1, <2>4, NatBounds DEF EmissionSelect, TypeInv, TypeOK, drift
  <1>2. CASE EmissionNext
    <2>1. PICK e \in run.todo :
            IF Emitted(e) <= 0
            THEN /\ run' = [run EXCEPT !.todo = @ \ {e}]
                 /\ UNCHANGED conn
            ELSE \E c \in Conns :
                    /\ Opens(c, [kind |-> "emission", from |-> System, to |-> e.agent, amount |-> Emitted(e)])
                    /\ run' = [run EXCEPT !.pc = "txn", !.conn = {c}, !.todo = @ \ {e}]
      BY <1>2 DEF EmissionNext
    <2>2. Emitted(e) \in Int /\ e.agent \in Agents
      BY EmittedType
    <2>3. run' \in Run
      <3>1. run \in Run
        BY DEF TypeInv, TypeOK, drift
      <3>2. CASE run' = [run EXCEPT !.todo = @ \ {e}]
        BY <3>1, <3>2 DEF Run
      <3>3. ASSUME NEW c \in Conns, run' = [run EXCEPT !.pc = "txn", !.conn = {c}, !.todo = @ \ {e}]
            PROVE  run' \in Run
        BY <3>1, <3>3 DEF Run
      <3> QED
        BY <2>1, <3>2, <3>3
    <2>4. /\ conn' \in [Conns -> [pc : Nat, op : Op]]
          /\ \A d \in Conns : Fits(conn'[d])
      <3>1. CASE UNCHANGED conn
        BY <3>1 DEF TypeInv, TypeOK, drift
      <3>2. CASE ~(Emitted(e) <= 0)
        <4> DEFINE op == [kind |-> "emission", from |-> System, to |-> e.agent, amount |-> Emitted(e)]
        <4>1. op \in Op /\ RowsFit(op) /\ op.to \in Agents
          BY <2>2, <3>2 DEF Op, Kinds, Rows, RowsFit, Number
        <4>2. PICK c \in Conns : Opens(c, op)
          BY <2>1, <3>2
        <4> HIDE DEF op
        <4> QED
          BY <4>1, <4>2, OpensType
      <3> QED
        BY <2>1, <3>1, <3>2
    <2> QED
      BY <1>2, <2>3, <2>4 DEF EmissionNext, TypeInv, TypeOK, drift
  <1>3. CASE EmissionEnd
    <2>1. run' \in Run
      BY <1>3 DEF EmissionEnd, NoEmission, Run
    <2> QED
      BY <1>3, <2>1 DEF EmissionEnd, TypeInv, TypeOK, drift
  <1> QED
    BY <1>1, <1>2, <1>3

LEMMA SqlTypes ==
    ASSUME TypeInv, SqlInsert \/ SqlUpdate
    PROVE  TypeInv'
  <1>1. CASE SqlInsert
    BY <1>1, NatBounds DEF SqlInsert, SqlEligible, TypeInv, TypeOK, drift
  <1>2. CASE SqlUpdate
    <2>0. bal \in [Rows -> Column] /\ log \in [Rows -> Column] /\ POINTS_PER_AGENT \in Cents
      BY DEF TypeInv, TypeOK, POINTS_PER_AGENT, Cents
    <2>1. bal' \in [Rows -> Column]
      <3>1. \A r \in SqlEligible : AtMostCap(bal[r] + POINTS_PER_AGENT) \in Column
        <4>1. \A r \in SqlEligible : bal[r] \in Cents
          BY <2>0, CentsType DEF SqlEligible, Less, Rows
        <4>2. \A r \in SqlEligible : bal[r] + POINTS_PER_AGENT \in Cents
          BY <2>0, <4>1, CentsAdd
        <4> QED
          BY <4>2, CentsType, CapType DEF Number, Column
      <3> QED
        BY <1>2, <2>0, <3>1 DEF SqlUpdate
    <2>2. log' \in [Rows -> Column]
      <3>1. \A r \in Rows : Plus(log[r], POINTS_PER_AGENT) \in Column
        BY <2>0, ColumnPlus DEF Column
      <3> QED
        BY <1>2, <2>0, <3>1 DEF SqlUpdate
    <2>3. leaks' \subseteq Rows
      BY <1>2 DEF SqlUpdate, SqlEligible, Rows, TypeInv, TypeOK, drift
    <2>4. cron' \in [pc : {"idle", "update"}, logged : SUBSET Agents]
      BY <1>2 DEF SqlUpdate, NoCron
    <2> QED
      BY <1>2, <2>1, <2>2, <2>3, <2>4 DEF SqlUpdate, TypeInv, TypeOK, drift
  <1> QED
    BY <1>1, <1>2

LEMMA CrashTypes ==
    ASSUME TypeInv, Crash
    PROVE  TypeInv'
  <1>1. /\ conn' \in [Conns -> [pc : Nat, op : Op]]
        /\ \A d \in Conns : Fits(conn'[d])
    BY IdleFits DEF Crash
  <1>2. run' \in Run
    BY DEF Crash, NoEmission, Run
  <1>3. leaks' \subseteq Rows /\ pending' \in [Agents -> Nat] /\ faults' \in 0 .. MaxFaults
    BY NatBounds DEF Crash, Fault, Rows, TypeInv, TypeOK, drift
  <1> QED
    BY <1>1, <1>2, <1>3 DEF Crash, TypeInv, TypeOK, drift

LEMMA NextTypes == TypeInv /\ [Next]_vars => TypeInv'
  <1> SUFFICES ASSUME TypeInv, [Next]_vars PROVE TypeInv'
    OBVIOUS
  <1>1. ASSUME NEW c \in Conns, ResolveDeadlock(c) \/ StatementFails(c) PROVE TypeInv'
    <2>1. Rollback(c) /\ faults' \in 0 .. MaxFaults
      BY <1>1, NatBounds DEF ResolveDeadlock, StatementFails, Fault, TypeInv, TypeOK, drift
    <2> QED
      BY <2>1, RollbackTypes
  <1>2. CASE UNCHANGED vars
    BY <1>2 DEF vars, TypeInv, TypeOK, drift
  <1> QED
    BY <1>1, <1>2, BeginTypes, StatementTypes, CommitTypes, CreditTypes, EmissionTypes,
       SqlTypes, CrashTypes DEF Next

\* Every variable of Ledger keeps its type, and a transaction never goes past the
\* end of its plan.
THEOREM TypeCorrect == Spec => []TypeOK
  <1>1. Spec => []TypeInv
    BY InitTypes, NextTypes, PTL DEF Spec
  <1>2. TypeInv => TypeOK
    BY DEF TypeInv
  <1> QED
    BY <1>1, <1>2, PTL

(***************************************************************************)
(* Locks: two connections never hold locks that conflict                   *)
(***************************************************************************)
Exclusive ==
    \A c, d \in Conns : c # d => \A lock \in Held(c) : ~Blocks(Held(d), lock)

LEMMA HeldLocks ==
    ASSUME TypeInv, NEW c \in Conns
    PROVE  /\ Held(c) \subseteq Locks
           /\ \A i \in 1 .. (conn[c].pc - 1) : Plan(conn[c].op)[i] \in Held(c)
  <1>1. conn[c].op \in Op /\ conn[c].pc \in Nat /\ conn[c].pc <= Len(Plan(conn[c].op)) + 1
    BY DEF TypeInv, TypeOK, Fits
  <1>2. Plan(conn[c].op) \in Seq(Locks)
    BY <1>1, PlanType
  <1>3. \A i \in 1 .. (conn[c].pc - 1) : Plan(conn[c].op)[i] \in Locks
    BY <1>1, <1>2
  <1> QED
    BY <1>3 DEF Held

LEMMA HeldSame ==
    ASSUME NEW c \in Conns, conn'[c] = conn[c]
    PROVE  Held(c)' = Held(c)
  BY DEF Held

LEMMA HeldNone ==
    ASSUME NEW c \in Conns, conn'[c].pc \in {0, 1}
    PROVE  Held(c)' = {}
  <1>1. 1 .. (conn'[c].pc - 1) = {}
    OBVIOUS
  <1> QED
    BY <1>1 DEF Held

LEMMA HeldMore ==
    ASSUME TypeInv, NEW c \in Conns, WantsLock(c), conn'[c] = [conn[c] EXCEPT !.pc = @ + 1]
    PROVE  Held(c)' \subseteq Held(c) \cup {Wanted(c)}
  <1>1. conn[c] \in [pc : Nat, op : Op]
    BY DEF TypeInv, TypeOK
  <1>2. conn'[c].op = conn[c].op /\ conn'[c].pc = conn[c].pc + 1
    BY <1>1
  <1>3. \A i \in 1 .. (conn[c].pc + 1 - 1) : i \in 1 .. (conn[c].pc - 1) \/ i = conn[c].pc
    BY <1>1
  <1>4. \A x \in Held(c)' : \E i \in 1 .. (conn'[c].pc - 1) : x = Plan(conn'[c].op)[i]
    BY DEF Held
  <1>5. \A i \in 1 .. (conn[c].pc + 1 - 1) : Plan(conn[c].op)[i] \in Held(c) \cup {Wanted(c)}
    BY <1>3 DEF Held, Wanted
  <1>6. ASSUME NEW x \in Held(c)' PROVE x \in Held(c) \cup {Wanted(c)}
    <2>1. PICK i \in 1 .. (conn'[c].pc - 1) : x = Plan(conn'[c].op)[i]
      BY <1>4
    <2>2. i \in 1 .. (conn[c].pc + 1 - 1)
      BY <1>1, <1>2, <2>1
    <2>3. x = Plan(conn[c].op)[i]
      BY <1>2, <2>1
    <2> QED
      BY <1>5, <2>2, <2>3
  <1> QED
    BY <1>6

LEMMA ConflictSymmetric ==
    ASSUME NEW m, NEW n
    PROVE  Conflict(m, n) <=> Conflict(n, m)
  BY DEF Conflict

\* Locks are only given up.
LEMMA ExclusiveLess ==
    ASSUME Exclusive, \A c \in Conns : Held(c)' \subseteq Held(c)
    PROVE  Exclusive'
  BY DEF Exclusive, Blocks

\* One connection takes a lock that nobody's locks forbid.
LEMMA ExclusiveMore ==
    ASSUME Exclusive, NEW c \in Conns, Held(c)' \subseteq Held(c) \cup {Wanted(c)},
           \A d \in Conns \ {c} : Held(d)' = Held(d),
           Free(Wanted(c), Conns \ {c})
    PROVE  Exclusive'
  <1> SUFFICES ASSUME NEW d \in Conns, NEW e \in Conns, d # e,
                      NEW x \in Held(d)', NEW y \in Held(e)', y[1] = x[1], Conflict(y[2], x[2])
               PROVE  FALSE
    BY DEF Exclusive, Blocks
  <1>1. \A f \in Conns \ {c} : \A h \in Held(f) : ~(h[1] = Wanted(c)[1] /\ Conflict(h[2], Wanted(c)[2]))
    BY DEF Free, Blocks
  <1>2. \A f, g \in Conns : f # g => \A h \in Held(f), k \in Held(g) : ~(k[1] = h[1] /\ Conflict(k[2], h[2]))
    BY DEF Exclusive, Blocks
  <1>3. CASE d = c
    <2>1. y \in Held(e) /\ x \in Held(c) \cup {Wanted(c)}
      BY <1>3
    <2> QED
      BY <2>1, <1>1, <1>2, <1>3
  <1>4. CASE e = c
    <2>1. x \in Held(d) /\ y \in Held(c) \cup {Wanted(c)}
      BY <1>4
    <2> QED
      BY <2>1, <1>1, <1>2, <1>4, ConflictSymmetric
  <1>5. CASE d # c /\ e # c
    BY <1>2, <1>5
  <1> QED
    BY <1>3, <1>4, <1>5

LEMMA EndsHeld ==
    ASSUME TypeInv, NEW c \in Conns, conn' = [conn EXCEPT ![c] = IdleConn]
    PROVE  \A d \in Conns : Held(d)' \subseteq Held(d)
  <1>1. conn'[c] = IdleConn /\ \A d \in Conns \ {c} : conn'[d] = conn[d]
    BY EndsType
  <1>2. Held(c)' = {}
    BY <1>1, IdleFits, HeldNone
  <1> QED
    BY <1>1, <1>2, HeldSame

LEMMA OpensHeld ==
    ASSUME TypeInv, NEW c \in Conns, NEW op \in Op, RowsFit(op), Opens(c, op),
           op.kind = "emission" => op.to \in Agents
    PROVE  \A d \in Conns : Held(d)' \subseteq Held(d)
  <1>1. conn'[c] = [pc |-> 1, op |-> op] /\ \A d \in Conns \ {c} : conn'[d] = conn[d]
    BY OpensType
  <1>2. Held(c)' = {}
    BY <1>1, HeldNone
  <1> QED
    BY <1>1, <1>2, HeldSame

\* A step of a connection leaves the transactions of the others alone, and adds at
\* most the lock it asked for.
LEMMA StatementHeld ==
    ASSUME TypeInv, Exclusive, NEW c \in Conns, Statement(c)
    PROVE  Exclusive'
  <1>1. CASE Rollback(c)
    BY <1>1, EndsHeld, ExclusiveLess DEF Rollback
  <1>2. CASE conn' = [conn EXCEPT ![c].pc = @ + 1]
    <2>1. /\ conn'[c] = [conn[c] EXCEPT !.pc = @ + 1]
          /\ \A d \in Conns \ {c} : conn'[d] = conn[d]
      BY <1>2 DEF TypeInv, TypeOK
    <2>2. Held(c)' \subseteq Held(c) \cup {Wanted(c)}
      BY <2>1, HeldMore DEF Statement
    <2> QED
      BY <2>1, <2>2, HeldSame, ExclusiveMore DEF Statement
  <1> QED
    BY <1>1, <1>2 DEF Statement

\* What every step but a statement does to connections: nothing, or one of them
\* begins or ends, or all are gone.
LEMMA ExclusiveStep ==
    ASSUME TypeInv, Exclusive, [Next]_vars
    PROVE  Exclusive'
  <1>1. CASE UNCHANGED conn
    BY <1>1, HeldSame, ExclusiveLess
  <1>2. ASSUME NEW c \in Conns, conn' = [conn EXCEPT ![c] = IdleConn] PROVE Exclusive'
    BY <1>2, EndsHeld, ExclusiveLess
  <1>3. ASSUME NEW c \in Conns, Begin(c) PROVE Exclusive'
    <2>1. PICK op \in Requests : Opens(c, op)
      BY <1>3 DEF Begin
    <2> QED
      BY <2>1, RequestFits, OpensHeld, ExclusiveLess
  <1>4. ASSUME NEW c \in Conns, Statement(c) PROVE Exclusive'
    BY <1>4, StatementHeld
  <1>5. ASSUME EmissionNext PROVE Exclusive'
    <2>1. CASE ~(UNCHANGED conn)
      <3>1. PICK e \in run.todo :
              /\ ~(Emitted(e) <= 0)
              /\ \E c \in Conns :
                    Opens(c, [kind |-> "emission", from |-> System, to |-> e.agent, amount |-> Emitted(e)])
        BY <1>5, <2>1 DEF EmissionNext
      <3> DEFINE op == [kind |-> "emission", from |-> System, to |-> e.agent, amount |-> Emitted(e)]
      <3>2. op \in Op /\ RowsFit(op) /\ op.to \in Agents
        BY <3>1, EmittedType DEF Op, Kinds, Rows, RowsFit, Number
      <3>3. PICK c \in Conns : Opens(c, op)
        BY <3>1
      <3> HIDE DEF op
      <3> QED
        BY <3>2, <3>3, OpensHeld, ExclusiveLess
    <2> QED
      BY <1>1, <2>1
  <1>6. ASSUME Crash PROVE Exclusive'
    <2>1. \A c \in Conns : conn'[c] = IdleConn
      BY <1>6 DEF Crash
    <2>2. \A c \in Conns : Held(c)' = {}
      BY <2>1, IdleFits, HeldNone
    <2> QED
      BY <2>2, ExclusiveLess
  <1>7. ASSUME NEW c \in Conns, Commit(c) \/ ResolveDeadlock(c) \/ StatementFails(c) PROVE Exclusive'
    BY <1>2, <1>7 DEF Commit, ResolveDeadlock, StatementFails, Rollback
  <1>8. ASSUME NEW a \in Agents, CreditInsert(a) \/ CreditUpdate(a) \/ CreditFails(a) PROVE UNCHANGED conn
    BY <1>8 DEF CreditInsert, CreditUpdate, CreditFails
  <1>9. CASE EmissionSelect \/ EmissionEnd \/ SqlInsert \/ SqlUpdate \/ UNCHANGED vars
    BY <1>1, <1>9 DEF EmissionSelect, EmissionEnd, SqlInsert, SqlUpdate, vars
  <1> QED
    BY <1>1, <1>3, <1>4, <1>5, <1>6, <1>7, <1>8, <1>9 DEF Next

LEMMA ExclusiveInit == Init => Exclusive
  <1> SUFFICES ASSUME Init PROVE \A c \in Conns : Held(c) = {}
    BY DEF Exclusive
  <1>1. \A c \in Conns : conn[c].pc = 0
    BY IdleFits DEF Init
  <1>2. 1 .. (0 - 1) = {}
    OBVIOUS
  <1> QED
    BY <1>1, <1>2 DEF Held

(***************************************************************************)
(* No overdraft                                                            *)
(***************************************************************************)
\* From the check to the debit, the payer's row is locked and can pay.
Covered ==
    \A c \in Conns : LET op == conn[c].op
                     IN Spends(op) /\ conn[c].pc > 1 /\ op.from \in Agents => ~Less(bal[op.from], op.amount)

LedgerInv == TypeInv /\ Exclusive /\ Covered /\ NoOverdraft

\* No agent's balance becomes smaller, or NaN.
Rises ==
    \A a \in Agents : \/ bal'[a] = bal[a]
                      \/ bal[a] \in Int /\ bal'[a] \in Int /\ bal'[a] >= bal[a]

LEMMA PayerLocked ==
    ASSUME TypeInv, NEW c \in Conns, Spends(conn[c].op), conn[c].pc > 1
    PROVE  <<conn[c].op.from, "full">> \in Held(c)
  <1>1. conn[c].op \in Op /\ conn[c].pc \in Nat
    BY DEF TypeInv, TypeOK
  <1>2. Plan(conn[c].op)[1] = <<conn[c].op.from, "full">>
    BY <1>1, PlanSpend
  <1>3. 1 \in 1 .. (conn[c].pc - 1)
    BY <1>1
  <1> QED
    BY <1>2, <1>3, HeldLocks

\* Who commits has locked the recipient's row.
LEMMA RecipientLocked ==
    ASSUME TypeInv, NEW c \in Conns, Busy(c), ~WantsLock(c)
    PROVE  <<conn[c].op.to, "noKey">> \in Held(c)
  <1> DEFINE n == Len(Plan(conn[c].op))
  <1>1. conn[c].op \in Op /\ conn[c].pc \in Nat
    BY DEF TypeInv, TypeOK
  <1>2. n \in Nat \ {0} /\ Plan(conn[c].op)[n] = <<conn[c].op.to, "noKey">>
    BY <1>1, PlanType, PlanEnds
  <1>3. ~(conn[c].pc <= n)
    BY DEF Busy, WantsLock
  <1> HIDE DEF n
  <1>4. n \in 1 .. (conn[c].pc - 1)
    BY <1>1, <1>2, <1>3
  <1> QED
    BY <1>2, <1>4, HeldLocks

\* Who pays is past its first lock when it commits.
LEMMA CommitPays ==
    ASSUME TypeInv, NEW c \in Conns, Commit(c), Spends(conn[c].op)
    PROVE  conn[c].pc > 1
  <1>1. conn[c].op \in Op /\ conn[c].pc \in Nat
    BY DEF TypeInv, TypeOK
  <1> DEFINE n == Len(Plan(conn[c].op))
  <1>2. n \in {5, 7}
    BY <1>1, PlanSpend
  <1>3. conn[c].pc > 0 /\ ~(conn[c].pc <= n)
    BY DEF Commit, Busy, WantsLock
  <1> HIDE DEF n
  <1> QED
    BY <1>1, <1>2, <1>3

\* Nobody else changes a row that a payer has locked.
LEMMA LockedRowKeeps ==
    ASSUME LedgerInv, NEW c \in Conns, Commit(c), NEW d \in Conns, d # c,
           Spends(conn[d].op), conn[d].pc > 1, conn[d].op.from \in Agents
    PROVE  bal'[conn[d].op.from] = bal[conn[d].op.from]
  <1> DEFINE a == conn[d].op.from
             op == conn[c].op
  <1>1. TypeInv /\ bal \in [Rows -> Column] /\ op \in Op /\ RowsFit(op) /\ a \in Rows
    BY DEF LedgerInv, TypeInv, TypeOK, Rows, Fits
  <1>2. <<a, "full">> \in Held(d)
    BY <1>1, PayerLocked
  <1>3. \A lock \in Held(c) : lock[1] # a
    BY <1>2 DEF LedgerInv, Exclusive, Blocks, Conflict
  <1>4. Spends(op) => op.from # a
    BY <1>1, <1>3, CommitPays, PayerLocked
  <1>5. op.to # a
    BY <1>1, <1>3, RecipientLocked DEF Commit
  <1>6. op.kind # "emission" => op.from # a
    BY <1>1, <1>4, SystemAssumption DEF RowsFit, Spends, Op, Kinds
  <1>7. bal' = Credited(bal, op)
    BY DEF Commit
  <1> HIDE DEF a, op
  <1> QED
    BY <1>1, <1>5, <1>6, <1>7, CreditedRow DEF a

\* A payer that can pay is left with nothing below zero, or with NaN.
LEMMA PayerLeft ==
    ASSUME NEW b \in Column, NEW m \in Number, ~Less(b, m)
    PROVE  /\ Rounded(Minus(b, m)) \in Column
           /\ Rounded(Minus(b, m)) # NaN => /\ b # NaN /\ m # NaN
                                          /\ Rounded(Minus(b, m)) \in Int /\ Rounded(Minus(b, m)) >= 0
  <1>1. b \in Number /\ Minus(b, m) \in Number /\ Rounded(Minus(b, m)) \in Column
    BY CentsType, PlusType, RoundedType
  <1>2. ASSUME Rounded(Minus(b, m)) # NaN
        PROVE  b # NaN /\ m # NaN /\ Rounded(Minus(b, m)) \in Int /\ Rounded(Minus(b, m)) >= 0
    <2>1. Minus(b, m) # NaN /\ b # NaN /\ m # NaN
      BY <1>1, <1>2, PlusType, RoundedType
    <2>2. b \in Int /\ m \in Int /\ Minus(b, m) = b - m /\ 0 \in Cents
      BY <1>1, <2>1, CentsType, PlusType DEF Cents
    <2>3. b - m \in Int /\ b - m >= 0
      BY <2>1, <2>2 DEF Less
    <2>4. Rounded(b - m) \in Cents /\ Rounded(b - m) >= 0
      BY <2>2, <2>3, RoundedNear
    <2> QED
      BY <2>1, <2>2, <2>4, CentsType
  <1> QED
    BY <1>1, <1>2

\* A recipient of a whole amount has it added.
LEMMA RecipientGets ==
    ASSUME NEW b \in Cents, NEW m \in Int
    PROVE  /\ Rounded(Plus(b, m)) \in Int
           /\ m >= 0 => Rounded(Plus(b, m)) >= b
           /\ m \in Cents => Rounded(Plus(b, m)) = b + m
  <1>1. b \in Int /\ b # NaN /\ m # NaN /\ Plus(b, m) = b + m /\ b + m \in Int
    BY CentsType, PlusType DEF Number
  <1>2. /\ Rounded(b + m) \in Cents
        /\ b + m \in Cents => Rounded(b + m) = b + m
        /\ b + m >= b => Rounded(b + m) >= b
    BY <1>1, RoundedNear
  <1>3. m \in Cents => b + m \in Cents
    BY CentsAdd
  <1>4. Rounded(b + m) \in Int
    BY <1>2, CentsInt
  <1> QED
    BY <1>1, <1>2, <1>3, <1>4

\* A commit leaves nobody below zero but by what an order of a negative price took.
LEMMA CommitPositive ==
    ASSUME LedgerInv, NEW c \in Conns, Commit(c)
    PROVE  NoOverdraft'
  <1> DEFINE op == conn[c].op
             r == Received(op)
  <1>1. bal \in [Rows -> Column] /\ op \in Op /\ RowsFit(op) /\ Agents \subseteq Rows
    BY DEF LedgerInv, TypeInv, TypeOK, Fits, Rows
  <1>2. op.from \in Rows /\ op.to \in Rows /\ op.amount \in Number /\ op.kind \in Kinds /\ r \in Number
    BY <1>1, ReceivedType DEF Op
  <1>3. Spends(op) /\ op.from \in Agents => ~Less(bal[op.from], op.amount)
    BY CommitPays DEF LedgerInv, Covered
  <1>4. op.kind # "emission" /\ op.from \in Agents => ~Less(bal[op.from], op.amount)
    BY <1>1, <1>2, <1>3, SystemAssumption DEF RowsFit, Spends, Kinds
  <1>5. /\ \A a \in Agents : bal[a] = NaN \/ bal[a] + owed[a] >= 0
        /\ owed \in [Agents -> Nat]
    BY DEF LedgerInv, NoOverdraft, TypeInv, TypeOK
  <1>6. /\ bal' = Credited(bal, op)
        /\ owed' = [a \in Agents |-> owed[a] + IF a = op.to THEN Owed(op) ELSE 0]
    BY DEF Commit
  <1>7. Owed(op) \in Nat /\ (op.kind \in {"payOrder", "refund"} /\ Less(r, 0) => Owed(op) = -r)
    BY <1>1, OwedType DEF Owed
  <1>8. op.kind \in {"payTask", "p2p", "transfer"} => r = NaN \/ r >= 0
    <2>1. op.kind \in {"payTask", "p2p", "transfer"} => op.amount \in Nat \cup {NaN}
      BY <1>1 DEF RowsFit
    <2>2. op.amount \in Nat => NetAmount(op.amount) >= 0
      BY Parts
    <2> QED
      BY <2>1, <2>2, PartsType, ReceivedType, <1>1, <1>2 DEF Received, NetAmount
  <1>9. op.kind \in {"payTask", "payOrder", "refund"} => r \in Column
    BY <1>1, <1>2, PartsType DEF RowsFit, Received
  <1>10. op.kind = "emission" => op.amount \in Nat
    BY <1>1 DEF RowsFit
  <1>11. op.kind # "emission" => r = Received(op)
    OBVIOUS
  <1>12. op.kind = "p2p" => r = op.amount
    BY DEF Received
  <1>13. op.kind \in {"escrow", "payTask", "payOrder", "refund", "transfer"} => op.from # op.to \/ op.to \notin Agents
    BY <1>1, SystemAssumption DEF RowsFit
  <1> HIDE DEF op, r
  <1>14. ASSUME NEW a \in Agents PROVE bal'[a] = NaN \/ bal'[a] + owed'[a] >= 0
    <2> DEFINE b == bal[a]
               o == owed[a]
    <2>1. b \in Column /\ a \in Rows /\ o \in Nat /\ (b = NaN \/ b + o >= 0) /\ (b # NaN => b \in Cents /\ b \in Int)
      BY <1>1, <1>5, CentsType
    <2>2. owed'[a] \in Nat /\ owed'[a] >= o /\ (a # op.to => owed'[a] = o) /\ (a = op.to => owed'[a] = o + Owed(op))
      BY <1>6, <1>7, <2>1
    <2> HIDE DEF b, o
    <2>3. CASE op.kind = "emission"
      <3>1. bal'[a] = IF a = op.to THEN Rounded(AtMostCap(Plus(b, op.amount))) ELSE b
        BY <2>3, <2>1, <1>1, <1>6, CreditedRow DEF b
      <3>2. CASE a # op.to
        BY <3>1, <3>2, <2>1, <2>2
      <3>3. CASE a = op.to /\ b = NaN
        <4>1. AtMostCap(Plus(b, op.amount)) = MAX_BALANCE_CAP
          BY <3>3 DEF Plus, AtMostCap
        <4>2. MAX_BALANCE_CAP \in Cents /\ MAX_BALANCE_CAP \in Int /\ MAX_BALANCE_CAP >= 0
          BY DEF MAX_BALANCE_CAP, Cents
        <4>3. bal'[a] = MAX_BALANCE_CAP
          BY <3>1, <3>3, <4>1, <4>2, RoundedNear
        <4> QED
          BY <4>2, <4>3, <2>2
      <3>4. CASE a = op.to /\ b # NaN
        <4> DEFINE v == AtMostCap(Plus(b, op.amount))
        <4>1. Plus(b, op.amount) = b + op.amount /\ b + op.amount \in Int /\ b + op.amount # NaN
          BY <3>4, <1>10, <2>1, <2>3, PlusType, CentsType DEF Number
        <4>2. v \in Int /\ (v >= b \/ v >= 0) /\ 0 \in Cents
          BY <4>1, <2>1, <2>3, <3>4, <1>10 DEF AtMostCap, MAX_BALANCE_CAP, Cents
        <4> HIDE DEF v
        <4>3. Rounded(v) \in Int /\ (Rounded(v) >= b \/ Rounded(v) >= 0)
          BY <4>2, <2>1, <3>4, RoundedNear, CentsType
        <4>4. bal'[a] = Rounded(v)
          BY <3>1, <3>4 DEF v
        <4> QED
          BY <4>3, <4>4, <2>1, <2>2, <3>4
      <3> QED
        BY <3>2, <3>3, <3>4
    <2>4. CASE op.kind # "emission" /\ a = op.from
      <3>1. ~Less(b, op.amount)
        BY <1>4, <2>4 DEF b
      <3> DEFINE d == Rounded(Minus(b, op.amount))
      <3>2. /\ d \in Column
            /\ d # NaN => b # NaN /\ op.amount # NaN /\ d \in Int /\ d >= 0 /\ d \in Cents
        BY <1>2, <2>1, <3>1, PayerLeft, CentsType
      <3> HIDE DEF d
      <3>3. CASE a # op.to
        <4>1. bal'[a] = d
          BY <2>1, <2>4, <3>3, <1>1, <1>6, CreditedRow DEF b, d
        <4> QED
          BY <4>1, <3>2, <2>2
      <3>4. CASE a = op.to
        <4>1. op.kind = "p2p" /\ r = op.amount
          BY <2>4, <3>4, <1>2, <1>12, <1>13 DEF Kinds
        <4>2. bal'[a] = Rounded(Plus(d, r))
          BY <2>1, <2>4, <3>4, <1>1, <1>6, CreditedRow DEF b, d, r
        <4>3. CASE d = NaN
          <5>1. Plus(d, r) = NaN
            BY <4>3 DEF Plus
          <5> QED
            BY <4>2, <5>1 DEF Rounded
        <4>4. CASE d # NaN
          <5>1. r \in Int /\ r >= 0
            BY <4>1, <4>4, <3>2, <1>2, <1>8, CentsType
          <5>2. Rounded(Plus(d, r)) \in Int /\ Rounded(Plus(d, r)) >= d
            BY <5>1, <4>4, <3>2, RecipientGets
          <5> QED
            BY <4>2, <4>4, <5>2, <3>2, <2>2
        <4> QED
          BY <4>3, <4>4
      <3> QED
        BY <3>3, <3>4
    <2>5. CASE op.kind # "emission" /\ a # op.from /\ a = op.to
      <3>1. bal'[a] = Rounded(Plus(b, r))
        BY <2>1, <2>5, <1>1, <1>6, CreditedRow DEF b, r
      <3>2. CASE b = NaN \/ r = NaN
        <4>1. Plus(b, r) = NaN
          BY <3>2 DEF Plus
        <4> QED
          BY <3>1, <4>1 DEF Rounded
      <3>3. CASE b # NaN /\ r # NaN
        <4>1. b \in Cents /\ b \in Int /\ r \in Int /\ b + o >= 0
          BY <3>3, <2>1, <1>2, CentsType
        <4>2. /\ Rounded(Plus(b, r)) \in Int
              /\ r >= 0 => Rounded(Plus(b, r)) >= b
              /\ r \in Cents => Rounded(Plus(b, r)) = b + r
          BY <4>1, RecipientGets
        <4>3. CASE r >= 0
          BY <3>1, <4>1, <4>2, <4>3, <2>1, <2>2
        <4>4. CASE ~(r >= 0)
          <5>1. op.kind \in {"payOrder", "refund"}
            <6>1. op.kind # "escrow"
              BY <2>5, <1>1, SystemAssumption DEF RowsFit
            <6> QED
              BY <6>1, <2>5, <3>3, <4>4, <1>2, <1>8 DEF Kinds
          <5>2. r \in Cents /\ Less(r, 0)
            BY <5>1, <1>9, <3>3, <4>1, <4>4, CentsType, NaNAssumption DEF Less
          <5>3. Owed(op) = -r
            BY <5>1, <5>2, <1>7
          <5>4. bal'[a] = b + r /\ owed'[a] = o - r
            BY <3>1, <4>1, <4>2, <5>2, <5>3, <2>1, <2>2, <2>5
          <5> QED
            BY <5>4, <4>1, <2>1
        <4> QED
          BY <4>3, <4>4
      <3> QED
        BY <3>2, <3>3
    <2>6. CASE op.kind # "emission" /\ a # op.from /\ a # op.to
      <3>1. bal'[a] = b
        BY <2>1, <2>6, <1>1, <1>6, CreditedRow DEF b
      <3> QED
        BY <3>1, <2>1, <2>2
    <2> QED
      BY <2>3, <2>4, <2>5, <2>6
  <1> QED
    BY <1>14 DEF NoOverdraft

LEMMA CommitCovered ==
    ASSUME LedgerInv, NEW c \in Conns, Commit(c)
    PROVE  Covered'
  <1>1. conn'[c] = IdleConn /\ \A d \in Conns \ {c} : conn'[d] = conn[d]
    BY EndsType DEF Commit, LedgerInv
  <1>2. ASSUME NEW d \in Conns, Spends(conn'[d].op), conn'[d].pc > 1, conn'[d].op.from \in Agents
        PROVE  ~Less(bal'[conn'[d].op.from], conn'[d].op.amount)
    <2>1. d # c
      BY <1>1, <1>2, IdleFits
    <2>2. conn'[d] = conn[d]
      BY <1>1, <2>1
    <2>3. ~Less(bal[conn[d].op.from], conn[d].op.amount)
      BY <1>2, <2>2 DEF LedgerInv, Covered
    <2>4. bal'[conn[d].op.from] = bal[conn[d].op.from]
      BY <1>2, <2>1, <2>2, LockedRowKeeps
    <2> QED
      BY <2>2, <2>3, <2>4
  <1> QED
    BY <1>2 DEF Covered, Spends, Less

\* Balances that only grow, for transactions that go no further.
LEMMA CoveredStep ==
    ASSUME LedgerInv, TypeInv', Rises, owed' = owed,
           \A c \in Conns : conn'[c] = conn[c] \/ conn'[c].pc \in {0, 1}
    PROVE  Covered' /\ NoOverdraft'
  <1>1. owed \in [Agents -> Nat]
    BY DEF LedgerInv, TypeInv, TypeOK
  <1>2. NoOverdraft'
    <2> SUFFICES ASSUME NEW a \in Agents PROVE bal'[a] = NaN \/ bal'[a] + owed'[a] >= 0
      BY DEF NoOverdraft
    <2>1. bal[a] = NaN \/ bal[a] + owed[a] >= 0
      BY DEF LedgerInv, NoOverdraft
    <2>2. bal'[a] = bal[a] \/ (bal[a] \in Int /\ bal'[a] \in Int /\ bal'[a] >= bal[a])
      BY DEF Rises
    <2> QED
      BY <1>1, <2>1, <2>2, NaNAssumption
  <1>3. ASSUME NEW c \in Conns, Spends(conn'[c].op), conn'[c].pc > 1, conn'[c].op.from \in Agents
        PROVE  ~Less(bal'[conn'[c].op.from], conn'[c].op.amount)
    <2>1. conn'[c] = conn[c]
      BY <1>3
    <2> DEFINE b == bal[conn[c].op.from]
               m == conn[c].op.amount
    <2>2. m \in Number
      BY DEF LedgerInv, TypeInv, TypeOK, Op
    <2>3. ~Less(b, m)
      BY <1>3, <2>1 DEF LedgerInv, Covered
    <2>4. PICK n : n = bal'[conn[c].op.from]
      OBVIOUS
    <2>5. n = b \/ (b \in Int /\ n \in Int /\ n >= b)
      BY <1>3, <2>1, <2>4 DEF Rises
    <2> HIDE DEF b, m
    <2>6. ~Less(n, m)
      BY <2>2, <2>3, <2>5, CentsType DEF Less
    <2> QED
      BY <2>1, <2>4, <2>6 DEF m
  <1> QED
    BY <1>2, <1>3 DEF Covered, Spends, Less

LEMMA StatementCovered ==
    ASSUME LedgerInv, NEW c \in Conns, Statement(c)
    PROVE  Covered' /\ NoOverdraft'
  <1>1. TypeInv' /\ bal' = bal /\ owed' = owed
    BY StatementTypes DEF LedgerInv, Statement, Rollback, drift
  <1>2. CASE Rollback(c)
    <2>1. conn'[c] = IdleConn /\ \A d \in Conns \ {c} : conn'[d] = conn[d]
      BY <1>2, EndsType DEF Rollback, LedgerInv
    <2>2. Rises
      BY <1>1 DEF Rises
    <2> QED
      BY <1>1, <2>1, <2>2, IdleFits, CoveredStep
  <1>3. CASE /\ ~(conn[c].pc = 1 /\ Spends(conn[c].op) /\ ~CanPay(conn[c].op))
             /\ conn' = [conn EXCEPT ![c].pc = @ + 1]
    <2>1. conn[c].op' = conn[c].op /\ \A d \in Conns \ {c} : conn'[d] = conn[d]
      BY <1>3 DEF LedgerInv, TypeInv, TypeOK
    <2>2. conn[c].pc \in Nat /\ conn[c].pc > 0
      BY DEF LedgerInv, TypeInv, TypeOK, Statement, WantsLock, Busy
    <2>3. Spends(conn[c].op) /\ conn[c].op.from \in Agents => ~Less(bal[conn[c].op.from], conn[c].op.amount)
      BY <1>3, <2>2 DEF LedgerInv, Covered, CanPay
    <2>4. Covered'
      BY <1>1, <2>1, <2>3 DEF LedgerInv, Covered, Spends, Less
    <2> QED
      BY <1>1, <2>4 DEF LedgerInv, NoOverdraft
  <1> QED
    BY <1>2, <1>3 DEF Statement

LEMMA LedgerStep == LedgerInv /\ [Next]_vars => LedgerInv'
  <1> SUFFICES ASSUME LedgerInv, [Next]_vars PROVE Covered' /\ NoOverdraft'
    BY NextTypes, ExclusiveStep DEF LedgerInv
  <1>1. TypeInv /\ TypeInv' /\ bal \in [Rows -> Column] /\ Agents \subseteq Rows
    BY NextTypes DEF LedgerInv, TypeInv, TypeOK, Rows
  <1>2. ASSUME Rises, owed' = owed,
               \A c \in Conns : conn'[c] = conn[c] \/ conn'[c].pc \in {0, 1}
        PROVE  Covered' /\ NoOverdraft'
    BY <1>1, <1>2, CoveredStep
  <1>3. bal' = bal => Rises
    BY DEF Rises
  <1>4. ASSUME NEW c \in Conns, Begin(c) PROVE Covered' /\ NoOverdraft'
    <2>1. PICK op \in Requests : Opens(c, op)
      BY <1>4 DEF Begin
    <2>2. op \in Op /\ RowsFit(op) /\ op.kind # "emission"
      BY RequestFits
    <2>3. conn'[c] = [pc |-> 1, op |-> op] /\ \A d \in Conns \ {c} : conn'[d] = conn[d]
      BY <1>1, <2>1, <2>2, OpensType
    <2>4. conn'[c].pc = 1
      BY <2>3
    <2> QED
      BY <1>2, <1>3, <1>4, <2>3, <2>4 DEF Begin, drift
  <1>5. ASSUME NEW c \in Conns, ResolveDeadlock(c) \/ StatementFails(c) PROVE Covered' /\ NoOverdraft'
    <2>1. Rollback(c)
      BY <1>5 DEF ResolveDeadlock, StatementFails
    <2>2. conn'[c].pc = 0 /\ \A d \in Conns \ {c} : conn'[d] = conn[d]
      BY <1>1, <2>1, EndsType, IdleFits DEF Rollback
    <2> QED
      BY <1>2, <1>3, <2>1, <2>2 DEF Rollback, drift
  <1>6. ASSUME NEW a \in Agents, CreditInsert(a) \/ CreditUpdate(a) \/ CreditFails(a)
        PROVE  Covered' /\ NoOverdraft'
    <2>1. conn' = conn /\ owed' = owed
      BY <1>6 DEF CreditInsert, CreditUpdate, CreditFails, drift
    <2>2. Rises
      <3>1. CASE bal' = bal
        BY <1>3, <3>1
      <3>2. CASE bal' = [bal EXCEPT ![a] = Plus(@, VERIFIED_STARTER_BONUS)]
        <4> DEFINE v == Plus(bal[a], VERIFIED_STARTER_BONUS)
        <4>1. \/ v = bal[a]
              \/ bal[a] \in Int /\ v \in Int /\ v >= bal[a]
          BY <1>1, CentsType, PlusType DEF VERIFIED_STARTER_BONUS, Number, Plus
        <4>2. bal' = [bal EXCEPT ![a] = v]
          BY <3>2
        <4> HIDE DEF v
        <4> QED
          BY <1>1, <4>1, <4>2 DEF Rises
      <3> QED
        BY <1>6, <3>1, <3>2 DEF CreditInsert, CreditUpdate, CreditFails
    <2> QED
      BY <1>2, <2>1, <2>2
  <1>7. ASSUME EmissionNext PROVE Covered' /\ NoOverdraft'
    <2>1. \A c \in Conns : conn'[c] = conn[c] \/ conn'[c].pc \in {0, 1}
      <3>1. CASE ~(UNCHANGED conn)
        <4>1. PICK e \in run.todo :
                /\ ~(Emitted(e) <= 0)
                /\ \E c \in Conns :
                      Opens(c, [kind |-> "emission", from |-> System, to |-> e.agent, amount |-> Emitted(e)])
          BY <1>7, <3>1 DEF EmissionNext
        <4> DEFINE op == [kind |-> "emission", from |-> System, to |-> e.agent, amount |-> Emitted(e)]
        <4>2. op \in Op /\ RowsFit(op) /\ op.to \in Agents
          BY <1>1, <4>1, EmittedType DEF Op, Kinds, Rows, RowsFit, Number
        <4>3. PICK c \in Conns : Opens(c, op)
          BY <4>1
        <4> HIDE DEF op
        <4>4. conn'[c] = [pc |-> 1, op |-> op] /\ \A d \in Conns \ {c} : conn'[d] = conn[d]
          BY <1>1, <4>2, <4>3, OpensType
        <4> QED
          BY <4>4
      <3> QED
        BY <3>1
    <2> QED
      BY <1>2, <1>3, <1>7, <2>1 DEF EmissionNext, drift
  <1>8. ASSUME SqlUpdate PROVE Covered' /\ NoOverdraft'
    <2>1. Rises
      <3> SUFFICES ASSUME NEW a \in Agents
                   PROVE  \/ bal'[a] = bal[a]
                          \/ bal[a] \in Int /\ bal'[a] \in Int /\ bal'[a] >= bal[a]
        BY DEF Rises
      <3>1. CASE a \in SqlEligible
        <4>1. bal[a] \in Int /\ bal[a] < MAX_BALANCE_CAP
          BY <1>1, <3>1, CentsType DEF SqlEligible, Less
        <4>2. bal'[a] = AtMostCap(bal[a] + POINTS_PER_AGENT)
          BY <1>1, <1>8, <3>1 DEF SqlUpdate
        <4>3. /\ AtMostCap(bal[a] + POINTS_PER_AGENT) \in Int
              /\ AtMostCap(bal[a] + POINTS_PER_AGENT) >= bal[a]
          BY <4>1, NaNAssumption DEF AtMostCap, MAX_BALANCE_CAP, POINTS_PER_AGENT
        <4> QED
          BY <4>1, <4>2, <4>3
      <3>2. CASE a \notin SqlEligible
        BY <1>1, <1>8, <3>2 DEF SqlUpdate
      <3> QED
        BY <3>1, <3>2
    <2> QED
      BY <1>2, <1>8, <2>1 DEF SqlUpdate
  <1>9. ASSUME Crash PROVE Covered' /\ NoOverdraft'
    <2>1. \A c \in Conns : conn'[c].pc = 0
      BY <1>9, IdleFits DEF Crash
    <2> QED
      BY <1>2, <1>3, <1>9, <2>1 DEF Crash
  <1>10. CASE EmissionSelect \/ EmissionEnd \/ SqlInsert \/ UNCHANGED vars
    BY <1>2, <1>3, <1>10 DEF EmissionSelect, EmissionEnd, SqlInsert, vars, drift
  <1> QED
    BY <1>4, <1>5, <1>6, <1>7, <1>8, <1>9, <1>10, StatementCovered, CommitCovered, CommitPositive DEF Next

LEMMA LedgerInit == Init => LedgerInv
  <1> SUFFICES ASSUME Init PROVE Covered /\ NoOverdraft
    BY InitTypes, ExclusiveInit DEF LedgerInv
  <1>1. \A c \in Conns : conn[c].pc = 0
    BY IdleFits DEF Init
  <1>2. \A a \in Agents : bal[a] + owed[a] >= 0
    BY StartingAssumption DEF Init, Rows
  <1> QED
    BY <1>1, <1>2 DEF Covered, NoOverdraft

\* However many transactions, credits and emissions overlap, and whatever fails,
\* no agent's balance goes below zero by more than what settling orders of a
\* negative price took: SELECT ... FOR UPDATE keeps the payer's row from the check
\* of the balance to the debit.  A balance of NaN passes every check.
THEOREM NobodyOverdrawn == Spec => []NoOverdraft
  <1>1. Spec => []LedgerInv
    BY LedgerInit, LedgerStep, PTL DEF Spec
  <1>2. LedgerInv => NoOverdraft
    BY DEF LedgerInv
  <1> QED
    BY <1>1, <1>2, PTL

(***************************************************************************)
(* Balances and log                                                        *)
(***************************************************************************)
\* A balance of NaN came with a row of the log that says NaN.
NaNLogged == \A a \in Agents : bal[a] = NaN => log[a] = NaN

BookInv == TypeInv /\ NaNLogged /\ Reconciles

\* A balance and its log take the same amount, each rounded for itself.
LEMMA DriftAdd ==
    ASSUME NEW b \in Cents, NEW x \in Int
    PROVE  /\ Rounded(b + x) \in Cents /\ Rounded(x) \in Cents
           /\ -10 <= Rounded(b + x) - b - Rounded(x) /\ Rounded(b + x) - b - Rounded(x) <= 10
           /\ Rounded(x) = x => Rounded(b + x) - b - Rounded(x) = 0
  <1>1. b \in Int /\ b + x \in Int
    BY CentsInt
  <1>2. Rounded(b + x) \in Cents /\ Rounded(x) \in Cents
    BY <1>1, RoundedNear
  <1>3. /\ -5 <= Rounded(b + x) - (b + x) /\ Rounded(b + x) - (b + x) <= 5
        /\ -5 <= Rounded(x) - x /\ Rounded(x) - x <= 5
    BY <1>1, RoundedNear
  <1>4. Rounded(x) = x => Rounded(b + x) = b + x
    BY <1>1, <1>2, CentsAdd, RoundedNear
  <1>5. Rounded(b + x) \in Int /\ Rounded(x) \in Int
    BY <1>2, CentsInt
  <1> QED
    BY <1>1, <1>2, <1>3, <1>4, <1>5

LEMMA DriftSubtract ==
    ASSUME NEW b \in Cents, NEW x \in Int
    PROVE  /\ Rounded(b - x) \in Cents /\ Rounded(x) \in Cents
           /\ -10 <= Rounded(b - x) - b + Rounded(x) /\ Rounded(b - x) - b + Rounded(x) <= 10
           /\ Rounded(x) = x => Rounded(b - x) - b + Rounded(x) = 0
  <1>1. b \in Int /\ b - x \in Int
    BY CentsInt
  <1>2. Rounded(b - x) \in Cents /\ Rounded(x) \in Cents
    BY <1>1, RoundedNear
  <1>3. /\ -5 <= Rounded(b - x) - (b - x) /\ Rounded(b - x) - (b - x) <= 5
        /\ -5 <= Rounded(x) - x /\ Rounded(x) - x <= 5
    BY <1>1, RoundedNear
  <1>4. Rounded(x) = x => Rounded(b - x) = b - x
    BY <1>1, <1>2, CentsAdd, RoundedNear
  <1>5. Rounded(b - x) \in Int /\ Rounded(x) \in Int
    BY <1>2, CentsInt
  <1> QED
    BY <1>1, <1>2, <1>3, <1>4, <1>5

LEMMA DriftSelf ==
    ASSUME NEW b \in Cents, NEW x \in Int
    PROVE  LET d == Rounded(b - x)
           IN /\ d \in Cents /\ Rounded(d + x) \in Cents
              /\ -10 <= Rounded(d + x) - b /\ Rounded(d + x) - b <= 10
              /\ Rounded(x) = x => Rounded(d + x) - b = 0
  <1> DEFINE d == Rounded(b - x)
             e == Rounded(d + x)
  <1>1. b \in Int /\ b - x \in Int
    BY CentsInt
  <1>2. d \in Cents /\ -5 <= d - (b - x) /\ d - (b - x) <= 5 /\ (Rounded(x) = x => d = b - x)
    <2>1. Rounded(x) = x => d - b + Rounded(x) = 0
      BY DriftSubtract
    <2>2. d \in Cents /\ -5 <= d - (b - x) /\ d - (b - x) <= 5 /\ d \in Int
      BY <1>1, RoundedNear, CentsInt
    <2> HIDE DEF d
    <2> QED
      BY <1>1, <2>1, <2>2
  <1> HIDE DEF d
  <1>3. d \in Int /\ d + x \in Int
    BY <1>2, CentsInt
  <1>4. e \in Cents /\ -5 <= e - (d + x) /\ e - (d + x) <= 5 /\ e \in Int
    BY <1>3, RoundedNear, CentsInt
  <1>5. d = b - x => e = b
    BY <1>1, <1>3, RoundedNear
  <1> HIDE DEF e
  <1>6. -10 <= e - b /\ e - b <= 10 /\ (Rounded(x) = x => e - b = 0)
    BY <1>1, <1>2, <1>3, <1>4, <1>5
  <1> QED
    BY <1>2, <1>4, <1>6 DEF d, e

\* The sender of a transfer pays the amount, and the log says the two parts.
LEMMA DriftTransfer ==
    ASSUME NEW b \in Cents, NEW x \in Int
    PROVE  LET gap == Rounded(b - x) - b + NetAmount(x) + FeeAmount(x)
           IN /\ -10 <= gap /\ gap <= 10
              /\ NetAmount(x) + FeeAmount(x) = x => gap = 0
  <1> DEFINE d == Rounded(b - x)
             s == NetAmount(x) + FeeAmount(x)
             net == NetAmount(x)
             fee == FeeAmount(x)
  <1>1. b \in Int /\ b - x \in Int
    BY CentsInt
  <1>2. d \in Cents /\ d \in Int /\ -5 <= d - (b - x) /\ d - (b - x) <= 5
    BY <1>1, RoundedNear, CentsInt
  <1>3. net \in Cents /\ fee \in Cents /\ -10 <= net + fee - x /\ net + fee - x <= 10 /\ net \in Int /\ fee \in Int
    BY Parts, CentsInt
  <1>4. net + fee = x => d = b - x
    <2>1. net + fee \in Cents
      BY <1>3, CentsAdd
    <2>2. net + fee = x => b - x \in Cents
      BY <2>1, CentsAdd
    <2> QED
      BY <1>1, <2>2, RoundedNear
  <1> HIDE DEF d, net, fee
  <1>5. d - b + net + fee \in Cents
    BY <1>2, <1>3, CentsAdd
  <1>6. -15 <= d - b + net + fee /\ d - b + net + fee <= 15
    BY <1>1, <1>2, <1>3
  <1> DEFINE g == d - b + net + fee
  <1>7. g \in Int /\ g % 10 = 0 /\ -15 <= g /\ g <= 15
    BY <1>5, <1>6 DEF Cents
  <1>8. net + fee = x => g = 0
    BY <1>1, <1>2, <1>3, <1>4
  <1> HIDE DEF g
  <1>9. -10 <= g /\ g <= 10
    BY <1>7
  <1> QED
    BY <1>8, <1>9 DEF g, d, net, fee

\* One row of the ledger before and after a commit: unless the log says NaN, the
\* balance is a number, and the two move together but for rounding and the cap.
LEMMA CommitRow ==
    ASSUME NEW op \in Op, RowsFit(op), NEW B \in [Rows -> Column], NEW L \in [Rows -> Column],
           NEW a \in Agents, B[a] = NaN => L[a] = NaN, Logged(L, op)[a] # NaN
    PROVE  LET w == IF Uneven(op) /\ a \in {op.from, op.to} THEN 10 ELSE 0
               gap == (Credited(B, op)[a] - B[a]) - (Logged(L, op)[a] - L[a])
           IN /\ L[a] # NaN /\ Credited(B, op)[a] # NaN
              /\ a \notin Parted(B, op) => -w <= gap /\ gap <= w
  <1> DEFINE m == op.amount
             r == Received(op)
             R == Rounded(r)
             fee == FeeAmount(m)
             b == B[a]
             l == L[a]
             c == Credited(B, op)[a]
             k == Logged(L, op)[a]
             w == IF Uneven(op) /\ a \in {op.from, op.to} THEN 10 ELSE 0
             Good == /\ l # NaN /\ c # NaN
                     /\ a \notin Parted(B, op) => -w <= (c - b) - (k - l) /\ (c - b) - (k - l) <= w
  <1>1. a \in Rows /\ a # System /\ op.kind \in Kinds /\ m \in Number /\ r \in Number
    BY SystemAssumption, ReceivedType DEF Rows, Op
  <1>2. b \in Column /\ l \in Column /\ (b = NaN => l = NaN) /\ k # NaN /\ l \in Number
    BY <1>1, CentsType
  <1>3. R \in Column /\ R \in Number /\ (R = NaN <=> r = NaN) /\ (r = NaN <=> m = NaN)
    BY <1>1, RoundedType, ReceivedType, CentsType
  <1>4. fee \in Column /\ fee \in Number /\ (fee = NaN <=> m = NaN)
    BY <1>1, PartsType, CentsType
  <1>5. /\ op.kind = "emission" => r = m
        /\ op.kind \in {"escrow", "refund", "p2p"} => r = m
        /\ op.kind \in {"payTask", "payOrder", "transfer"} => r = NetAmount(m) /\ r \in Column
    BY ReceivedType DEF Received
  <1>6. /\ op.kind \in {"payTask", "payOrder", "refund"} => op.from # a
        /\ op.kind = "escrow" => op.to # a
        /\ op.kind = "transfer" => op.from # op.to
        /\ op.kind = "emission" => m \in Nat
    BY <1>1 DEF RowsFit
  <1>7. /\ op.kind = "transfer" => (Uneven(op) <=> Plus(NetAmount(m), fee) # m)
        /\ op.kind # "transfer" => (Uneven(op) <=> Rounded(m) # m)
    BY DEF Uneven
  <1>8. ASSUME c = b, k = l PROVE Good
    <2>1. l # NaN /\ b \in Int /\ l \in Int
      BY <1>2, <1>8, CentsType
    <2>2. (c - b) - (k - l) = 0
      BY <1>8, <2>1
    <2> QED
      BY <1>2, <1>8, <2>1, <2>2, CentsType
  <1>9. ASSUME l # NaN, r # NaN
        PROVE  /\ b \in Cents /\ b \in Int /\ l \in Cents /\ l \in Int /\ r \in Int /\ m \in Int /\ m # NaN /\ b # NaN
               /\ R = Rounded(r) /\ R \in Int
    BY <1>1, <1>2, <1>3, <1>9, CentsType
  <1>10. a \in {op.from, op.to} /\ Uneven(op) => w = 10
    OBVIOUS
  <1>11. w \in {0, 10}
    OBVIOUS
  <1>12. /\ op.kind = "emission" =>
               /\ c = IF a = op.to THEN Rounded(AtMostCap(Plus(b, m))) ELSE b
               /\ k = IF a = op.to THEN Plus(l, R) ELSE l
         /\ op.kind # "emission" /\ a # op.from /\ a # op.to => c = b
         /\ op.kind # "emission" /\ a # op.from /\ a = op.to => c = Rounded(Plus(b, r))
         /\ op.kind # "emission" /\ a = op.from /\ a # op.to => c = Rounded(Minus(b, m))
         /\ op.kind # "emission" /\ a = op.from /\ a = op.to => c = Rounded(Plus(Rounded(Minus(b, m)), r))
    BY <1>1, CreditedRow, LoggedRow
  <1>13. /\ op.kind # "emission" /\ a # op.from /\ a # op.to => k = l
         /\ op.kind # "emission" /\ a # op.from /\ a = op.to => k = Plus(l, R)
         /\ op.kind \notin {"emission", "transfer"} /\ a = op.from /\ a # op.to => k = Minus(l, R)
         /\ op.kind = "transfer" /\ a = op.from /\ a # op.to => k = Minus(Minus(l, R), fee)
         /\ op.kind \notin {"emission", "transfer"} /\ a = op.from /\ a = op.to => k = Minus(Plus(l, R), R)
    BY <1>1, LoggedRow
  <1>14. a \notin Parted(B, op) /\ op.kind = "emission" /\ a = op.to /\ b # NaN => ~(b + m > MAX_BALANCE_CAP)
    BY DEF Parted
  <1> HIDE DEF m, r, R, fee, b, l, c, k, w
  <1>15. ASSUME op.kind = "emission" PROVE Good
    <2>1. CASE a # op.to
      BY <1>8, <1>12, <1>15, <2>1
    <2>2. CASE a = op.to
      <3>1. k = Plus(l, R) /\ c = Rounded(AtMostCap(Plus(b, m))) /\ r = m
        BY <1>5, <1>12, <1>15, <2>2
      <3>2. l # NaN /\ R # NaN /\ k = l + R
        BY <1>2, <1>3, <3>1, PlusType
      <3>3. /\ b \in Cents /\ b \in Int /\ l \in Int /\ m \in Int /\ m # NaN /\ b # NaN /\ R \in Int
            /\ R = Rounded(m)
        BY <1>3, <1>9, <3>1, <3>2
      <3>4. Plus(b, m) = b + m /\ b + m \in Int /\ b + m # NaN
        BY <3>3, NaNAssumption DEF Plus
      <3>5. AtMostCap(b + m) \in Int /\ Rounded(AtMostCap(b + m)) \in Cents
        BY <3>4, CapType, RoundedNear DEF Number
      <3>6. c # NaN
        BY <3>1, <3>4, <3>5, CentsType
      <3>7. ASSUME a \notin Parted(B, op) PROVE -w <= (c - b) - (k - l) /\ (c - b) - (k - l) <= w
        <4>1. ~(b + m > MAX_BALANCE_CAP)
          BY <1>14, <1>15, <2>2, <3>3, <3>7
        <4>2. AtMostCap(b + m) = b + m
          BY <3>4, <4>1 DEF AtMostCap
        <4>3. c = Rounded(b + m)
          BY <3>1, <3>4, <4>2
        <4>4. /\ c \in Cents /\ -10 <= c - b - R /\ c - b - R <= 10
              /\ Rounded(m) = m => c - b - R = 0
          BY <3>3, <4>3, DriftAdd
        <4>5. (c - b) - (k - l) = c - b - R
          BY <3>2, <3>3, <4>4, CentsInt
        <4>6. Rounded(m) # m => w = 10
          BY <1>7, <1>10, <1>15, <2>2
        <4> QED
          BY <1>11, <4>4, <4>5, <4>6
      <3> QED
        BY <3>2, <3>6, <3>7
    <2> QED
      BY <2>1, <2>2
  <1>16. ASSUME op.kind # "emission" /\ a # op.from /\ a # op.to PROVE Good
    BY <1>8, <1>12, <1>13, <1>16
  <1>17. ASSUME op.kind # "emission" /\ a # op.from /\ a = op.to PROVE Good
    <2>1. k = Plus(l, R) /\ c = Rounded(Plus(b, r))
      BY <1>12, <1>13, <1>17
    <2>2. l # NaN /\ R # NaN /\ k = l + R /\ r # NaN
      BY <1>2, <1>3, <2>1, PlusType
    <2>3. b \in Cents /\ b \in Int /\ l \in Int /\ r \in Int /\ b # NaN /\ R \in Int /\ R = Rounded(r)
      BY <1>9, <2>2
    <2>4. c = Rounded(b + r)
      BY <2>1, <2>2, <2>3 DEF Plus
    <2>5. /\ c \in Cents /\ -10 <= c - b - R /\ c - b - R <= 10
          /\ R = r => c - b - R = 0
      BY <2>3, <2>4, DriftAdd
    <2>6. (c - b) - (k - l) = c - b - R
      BY <2>2, <2>3, <2>5, CentsInt
    <2>7. R # r => w = 10
      <3>1. CASE op.kind \in {"payTask", "payOrder", "transfer"}
        <4>1. r \in Cents
          BY <1>5, <2>2, <3>1, CentsType
        <4> QED
          BY <2>3, <4>1, RoundedNear
      <3>2. CASE op.kind \notin {"payTask", "payOrder", "transfer"}
        <4>1. r = m
          BY <1>1, <1>5, <1>17, <3>2 DEF Kinds
        <4> QED
          BY <1>7, <1>10, <1>17, <2>3, <3>2, <4>1
      <3> QED
        BY <3>1, <3>2
    <2>8. c # NaN
      BY <2>5, CentsType
    <2> QED
      BY <1>11, <2>2, <2>5, <2>6, <2>7, <2>8
  <1>18. ASSUME op.kind # "emission" /\ op.kind # "transfer" /\ a = op.from /\ a # op.to PROVE Good
    <2>1. k = Minus(l, R) /\ c = Rounded(Minus(b, m)) /\ r = m
      BY <1>1, <1>5, <1>6, <1>12, <1>13, <1>18 DEF Kinds
    <2>2. l # NaN /\ R # NaN /\ k = l - R /\ r # NaN
      BY <1>2, <1>3, <2>1, PlusType
    <2>3. b \in Cents /\ b \in Int /\ l \in Int /\ m \in Int /\ b # NaN /\ m # NaN /\ R \in Int /\ R = Rounded(m)
      BY <1>9, <2>1, <2>2
    <2>4. c = Rounded(b - m)
      BY <2>1, <2>3 DEF Minus
    <2>5. /\ c \in Cents /\ -10 <= c - b + R /\ c - b + R <= 10
          /\ R = m => c - b + R = 0
      BY <2>3, <2>4, DriftSubtract
    <2>6. (c - b) - (k - l) = c - b + R
      BY <2>2, <2>3, <2>5, CentsInt
    <2>7. R # m => w = 10
      BY <1>7, <1>10, <1>18, <2>3
    <2>8. c # NaN
      BY <2>5, CentsType
    <2> QED
      BY <1>11, <2>2, <2>5, <2>6, <2>7, <2>8
  <1>19. ASSUME op.kind = "transfer" /\ a = op.from /\ a # op.to PROVE Good
    <2>1. k = Minus(Minus(l, R), fee) /\ c = Rounded(Minus(b, m)) /\ r = NetAmount(m) /\ r \in Column
      BY <1>5, <1>12, <1>13, <1>19
    <2>2. l # NaN /\ R # NaN /\ fee # NaN /\ r # NaN /\ k = (l - R) - fee
      BY <1>2, <1>3, <2>1 DEF Minus
    <2>3. /\ b \in Cents /\ b \in Int /\ l \in Int /\ m \in Int /\ b # NaN /\ m # NaN /\ R \in Int
          /\ r \in Cents /\ fee \in Int /\ r \in Int
      BY <1>4, <1>9, <2>1, <2>2, CentsType
    <2>4. R = r
      BY <1>9, <2>2, <2>3, RoundedNear
    <2>5. c = Rounded(b - m)
      BY <2>1, <2>3 DEF Minus
    <2>6. /\ -10 <= c - b + r + fee /\ c - b + r + fee <= 10
          /\ r + fee = m => c - b + r + fee = 0
      BY <2>1, <2>3, <2>5, DriftTransfer DEF fee
    <2>7. c \in Cents /\ c \in Int /\ c # NaN
      <3>1. b - m \in Int
        BY <2>3
      <3>2. c \in Cents
        BY <2>5, <3>1, RoundedNear
      <3> QED
        BY <3>2, CentsType
    <2>8. (c - b) - (k - l) = c - b + r + fee
      BY <2>2, <2>3, <2>4, <2>7
    <2>9. r + fee # m => w = 10
      <3>1. Plus(r, fee) = r + fee
        BY <2>2 DEF Plus
      <3> QED
        BY <1>7, <1>10, <1>19, <2>1, <3>1
    <2> QED
      BY <1>11, <2>2, <2>6, <2>7, <2>8, <2>9
  <1>20. ASSUME op.kind # "emission" /\ op.kind # "transfer" /\ a = op.from /\ a = op.to PROVE Good
    <2>1. k = Minus(Plus(l, R), R) /\ c = Rounded(Plus(Rounded(Minus(b, m)), r)) /\ r = m
      BY <1>1, <1>5, <1>6, <1>12, <1>13, <1>20 DEF Kinds
    <2>2. l # NaN /\ R # NaN /\ k = (l + R) - R /\ r # NaN
      BY <1>2, <1>3, <2>1 DEF Minus, Plus
    <2>3. b \in Cents /\ b \in Int /\ l \in Int /\ m \in Int /\ b # NaN /\ m # NaN /\ R \in Int /\ R = Rounded(m)
      BY <1>9, <2>1, <2>2
    <2> DEFINE d == Rounded(b - m)
    <2>4. /\ d \in Cents /\ Rounded(d + m) \in Cents
          /\ -10 <= Rounded(d + m) - b /\ Rounded(d + m) - b <= 10
          /\ Rounded(m) = m => Rounded(d + m) - b = 0
      BY <2>3, DriftSelf
    <2>5. Minus(b, m) = b - m
      BY <2>3 DEF Minus
    <2>6. c = Rounded(Plus(d, m))
      BY <2>1, <2>5
    <2> HIDE DEF d
    <2>7. c = Rounded(d + m)
      BY <2>3, <2>4, <2>6, CentsType DEF Plus
    <2>8. (c - b) - (k - l) = c - b
      BY <2>2, <2>3, <2>4, <2>7, CentsInt
    <2>9. R # m => w = 10
      BY <1>7, <1>10, <1>20, <2>3
    <2>10. c # NaN
      BY <2>4, <2>7, CentsType
    <2> QED
      BY <1>11, <2>2, <2>3, <2>4, <2>7, <2>8, <2>9, <2>10
  <1>21. op.kind = "transfer" => ~(a = op.from /\ a = op.to)
    BY <1>6
  <1> HIDE DEF Good
  <1>22. Good
    BY <1>15, <1>16, <1>17, <1>18, <1>19, <1>20, <1>21
  <1> QED
    BY <1>22 DEF Good, m, r, R, fee, b, l, c, k, w

\* What an agent's balance may differ from its log by.
Tallies(b, l, p, s, u) ==
    -10 * u <= b + VERIFIED_STARTER_BONUS * p - (s + l) /\ b + VERIFIED_STARTER_BONUS * p - (s + l) <= 10 * u

LEMMA BookTypes ==
    ASSUME BookInv
    PROVE  /\ TypeInv /\ bal \in [Rows -> Column] /\ log \in [Rows -> Column] /\ Agents \subseteq Rows
           /\ pending \in [Agents -> Nat] /\ uneven \in [Agents -> Nat] /\ \A a \in Agents : Starting[a] \in Int
           /\ \A a \in Agents : log[a] # NaN =>
                 bal[a] # NaN /\ bal[a] \in Int /\ log[a] \in Int
           /\ \A a \in Agents \ leaks : log[a] # NaN =>
                 Tallies(bal[a], log[a], pending[a], Starting[a], uneven[a])
  <1>1. /\ TypeInv /\ bal \in [Rows -> Column] /\ log \in [Rows -> Column] /\ Agents \subseteq Rows
        /\ pending \in [Agents -> Nat] /\ uneven \in [Agents -> Nat]
    BY DEF BookInv, TypeInv, TypeOK, Rows
  <1>2. \A a \in Agents : Starting[a] \in Int
    BY <1>1, StartingAssumption
  <1>3. ASSUME NEW a \in Agents, log[a] # NaN PROVE bal[a] # NaN /\ bal[a] \in Int /\ log[a] \in Int
    <2>1. bal[a] # NaN
      BY <1>3 DEF BookInv, NaNLogged
    <2>2. bal[a] \in Column /\ log[a] \in Column
      BY <1>1
    <2> QED
      BY <1>3, <2>1, <2>2, CentsType
  <1>4. \A a \in Agents \ leaks : log[a] # NaN => Tallies(bal[a], log[a], pending[a], Starting[a], uneven[a])
    BY DEF BookInv, Reconciles, Tallies
  <1> QED
    BY <1>1, <1>2, <1>3, <1>4

\* Enough for the next state: every agent that the log does not call NaN tallies.
LEMMA BookKept ==
    ASSUME TypeInv',
           \A a \in Agents : log'[a] # NaN =>
               /\ bal'[a] # NaN
               /\ a \notin leaks' => Tallies(bal'[a], log'[a], pending'[a], Starting[a], uneven'[a])
    PROVE  BookInv'
  BY DEF BookInv, NaNLogged, Reconciles, Tallies

LEMMA CommitBooks ==
    ASSUME BookInv, NEW c \in Conns, Commit(c)
    PROVE  BookInv'
  <1> DEFINE op == conn[c].op
  <1>1. /\ TypeInv /\ bal \in [Rows -> Column] /\ log \in [Rows -> Column] /\ Agents \subseteq Rows
        /\ pending \in [Agents -> Nat] /\ uneven \in [Agents -> Nat] /\ \A a \in Agents : Starting[a] \in Int
    BY BookTypes
  <1>2. op \in Op /\ RowsFit(op)
    BY <1>1 DEF TypeInv, TypeOK, Fits
  <1>3. /\ bal' = Credited(bal, op) /\ log' = Logged(log, op) /\ pending' = pending
        /\ leaks' = leaks \cup Parted(bal, op)
        /\ uneven' = [a \in Agents |-> uneven[a] + IF Uneven(op) /\ a \in {op.from, op.to} THEN 1 ELSE 0]
    BY DEF Commit
  <1>4. TypeInv' /\ bal' \in [Rows -> Column] /\ log' \in [Rows -> Column]
    BY <1>1, CommitTypes DEF TypeInv, TypeOK
  <1> HIDE DEF op
  <1>5. ASSUME NEW a \in Agents, log'[a] # NaN
        PROVE  /\ bal'[a] # NaN
               /\ a \notin leaks' => Tallies(bal'[a], log'[a], pending'[a], Starting[a], uneven'[a])
    <2>1. bal[a] = NaN => log[a] = NaN
      BY DEF BookInv, NaNLogged
    <2> DEFINE w == IF Uneven(op) /\ a \in {op.from, op.to} THEN 10 ELSE 0
               b == bal[a]
               l == log[a]
               b1 == Credited(bal, op)[a]
               l1 == Logged(log, op)[a]
    <2>2. /\ l # NaN /\ b1 # NaN
          /\ a \notin Parted(bal, op) => -w <= (b1 - b) - (l1 - l) /\ (b1 - b) - (l1 - l) <= w
      BY <1>1, <1>2, <1>3, <1>5, <2>1, CommitRow
    <2>3. bal'[a] = b1 /\ log'[a] = l1 /\ pending'[a] = pending[a]
      BY <1>3
    <2>4. b1 \in Int /\ l1 \in Int
      <3>1. b1 \in Column /\ l1 \in Column /\ l1 # NaN
        BY <1>1, <1>4, <1>5, <2>3
      <3> QED
        BY <3>1, <2>2, CentsType
    <2>5. b \in Int /\ l \in Int
      BY <2>2, BookTypes
    <2>6. uneven'[a] * 10 = uneven[a] * 10 + w /\ uneven[a] \in Nat /\ w \in {0, 10} /\ uneven'[a] \in Nat
      BY <1>1, <1>3
    <2> HIDE DEF b, l, b1, l1, w
    <2>7. ASSUME a \notin leaks' PROVE Tallies(b1, l1, pending[a], Starting[a], uneven'[a])
      <3>1. Tallies(b, l, pending[a], Starting[a], uneven[a])
        BY <1>3, <2>2, <2>7, BookTypes DEF b, l
      <3>2. -w <= (b1 - b) - (l1 - l) /\ (b1 - b) - (l1 - l) <= w
        BY <1>3, <2>2, <2>7
      <3>3. Starting[a] \in Int /\ pending[a] \in Int
        BY <1>1
      <3> QED
        BY <2>4, <2>5, <2>6, <3>1, <3>2, <3>3 DEF Tallies, VERIFIED_STARTER_BONUS
    <2> QED
      BY <2>2, <2>3, <2>7
  <1> QED
    BY <1>4, <1>5, BookKept

LEMMA CreditBooks ==
    ASSUME BookInv, NEW x \in Agents, CreditInsert(x) \/ CreditUpdate(x) \/ CreditFails(x)
    PROVE  BookInv'
  <1>1. /\ TypeInv /\ bal \in [Rows -> Column] /\ log \in [Rows -> Column] /\ Agents \subseteq Rows
        /\ pending \in [Agents -> Nat] /\ uneven \in [Agents -> Nat] /\ \A a \in Agents : Starting[a] \in Int
    BY BookTypes
  <1>2. TypeInv' /\ VERIFIED_STARTER_BONUS \in Int /\ VERIFIED_STARTER_BONUS # NaN
    BY <1>1, CreditTypes, NaNAssumption DEF VERIFIED_STARTER_BONUS
  <1>3. uneven' = uneven /\ leaks \subseteq leaks'
    BY DEF CreditInsert, CreditUpdate, CreditFails, drift
  <1>4. ASSUME NEW a \in Agents, log'[a] # NaN
        PROVE  /\ bal'[a] # NaN
               /\ a \notin leaks' => Tallies(bal'[a], log'[a], pending'[a], Starting[a], uneven'[a])
    <2>0. log[a] # NaN
      <3>1. log' = log \/ log' = [log EXCEPT ![x] = Plus(@, VERIFIED_STARTER_BONUS)]
        BY DEF CreditInsert, CreditUpdate, CreditFails
      <3> QED
        BY <1>1, <1>4, <3>1 DEF Plus
    <2> DEFINE b == bal[a]
               l == log[a]
               n == pending[a]
    <2>1. b # NaN /\ b \in Int /\ l \in Int /\ n \in Nat /\ (a \notin leaks' => Tallies(b, l, n, Starting[a], uneven[a]))
      BY <1>1, <1>3, <2>0, BookTypes
    <2>2. Starting[a] \in Int /\ uneven[a] \in Nat
      BY <1>1
    <2>3. CASE CreditInsert(x)
      <3>1. bal'[a] = b /\ log'[a] = (IF a = x THEN Plus(l, VERIFIED_STARTER_BONUS) ELSE l) /\ pending'[a] = IF a = x THEN n + 1 ELSE n
        BY <1>1, <2>3 DEF CreditInsert
      <3>2. log'[a] = IF a = x THEN l + VERIFIED_STARTER_BONUS ELSE l
        BY <1>2, <2>0, <3>1 DEF Plus
      <3> HIDE DEF b, l, n
      <3> QED
        BY <1>3, <2>1, <2>2, <3>1, <3>2 DEF Tallies, VERIFIED_STARTER_BONUS
    <2>4. CASE CreditUpdate(x)
      <3>1. log'[a] = l /\ bal'[a] = (IF a = x THEN Plus(b, VERIFIED_STARTER_BONUS) ELSE b) /\ pending'[a] = IF a = x THEN n - 1 ELSE n
        BY <1>1, <2>4 DEF CreditUpdate
      <3>2. bal'[a] = IF a = x THEN b + VERIFIED_STARTER_BONUS ELSE b
        BY <1>2, <2>1, <3>1 DEF Plus
      <3> HIDE DEF b, l, n
      <3>3. bal'[a] \in Int /\ bal'[a] # NaN
        BY <1>2, <2>1, <3>2, NaNAssumption
      <3> QED
        BY <1>3, <2>1, <2>2, <3>1, <3>2, <3>3 DEF Tallies, VERIFIED_STARTER_BONUS
    <2>5. CASE CreditFails(x)
      <3>1. bal'[a] = b /\ log'[a] = l /\ (a # x => pending'[a] = n) /\ x \in leaks'
        BY <1>1, <2>5 DEF CreditFails
      <3> HIDE DEF b, l, n
      <3> QED
        BY <1>3, <2>1, <3>1
    <2> QED
      BY <2>3, <2>4, <2>5
  <1> QED
    BY <1>2, <1>4, BookKept

LEMMA SqlBooks ==
    ASSUME BookInv, SqlUpdate
    PROVE  BookInv'
  <1>1. /\ TypeInv /\ bal \in [Rows -> Column] /\ log \in [Rows -> Column] /\ Agents \subseteq Rows
        /\ pending \in [Agents -> Nat] /\ uneven \in [Agents -> Nat] /\ \A a \in Agents : Starting[a] \in Int
    BY BookTypes
  <1>2. TypeInv' /\ pending' = pending /\ uneven' = uneven
    BY <1>1, SqlTypes DEF SqlUpdate
  <1>3. ASSUME NEW a \in Agents, log'[a] # NaN
        PROVE  /\ bal'[a] # NaN
               /\ a \notin leaks' => Tallies(bal'[a], log'[a], pending'[a], Starting[a], uneven'[a])
    <2> DEFINE b == bal[a]
               l == log[a]
    <2>1. /\ log'[a] = IF a \in cron.logged THEN Plus(l, POINTS_PER_AGENT) ELSE l
          /\ bal'[a] = IF a \in SqlEligible THEN AtMostCap(b + POINTS_PER_AGENT) ELSE b
      BY <1>1 DEF SqlUpdate
    <2>2. l # NaN
      BY <1>3, <2>1 DEF Plus
    <2>3. b # NaN /\ b \in Int /\ l \in Int /\ Starting[a] \in Int /\ uneven[a] \in Nat /\ pending[a] \in Nat
      BY <1>1, <2>2, BookTypes
    <2>4. log'[a] = IF a \in cron.logged THEN l + POINTS_PER_AGENT ELSE l
      BY <2>1, <2>2, NaNAssumption DEF Plus, POINTS_PER_AGENT
    <2>5. b + POINTS_PER_AGENT \in Int /\ AtMostCap(b + POINTS_PER_AGENT) \in Int
      <3>1. b + POINTS_PER_AGENT \in Int
        BY <2>3 DEF POINTS_PER_AGENT
      <3> QED
        BY <3>1, CapType DEF Number
    <2>6. bal'[a] \in Int /\ bal'[a] # NaN
      <3>1. bal'[a] \in Int
        BY <2>1, <2>3, <2>5
      <3> QED
        BY <3>1, NaNAssumption
    <2>7. ASSUME a \notin leaks'
          PROVE  Tallies(bal'[a], log'[a], pending'[a], Starting[a], uneven'[a])
      <3>1. a \notin leaks /\ (a \in SqlEligible <=> a \in cron.logged)
            /\ (a \in SqlEligible => ~(b + POINTS_PER_AGENT > MAX_BALANCE_CAP))
        BY <2>7 DEF SqlUpdate
      <3>2. Tallies(b, l, pending[a], Starting[a], uneven[a])
        BY <2>2, <3>1, BookTypes
      <3>3. a \in SqlEligible => bal'[a] = b + POINTS_PER_AGENT
        BY <2>1, <2>5, <3>1, NaNAssumption DEF AtMostCap
      <3>4. a \notin SqlEligible => bal'[a] = b
        BY <2>1
      <3> HIDE DEF b, l
      <3> QED
        BY <1>2, <2>3, <2>4, <3>1, <3>2, <3>3, <3>4 DEF Tallies, VERIFIED_STARTER_BONUS, POINTS_PER_AGENT
    <2> QED
      BY <2>6, <2>7
  <1> QED
    BY <1>2, <1>3, BookKept

LEMMA CrashBooks ==
    ASSUME BookInv, Crash
    PROVE  BookInv'
  <1>1. /\ TypeInv /\ pending \in [Agents -> Nat]
    BY BookTypes
  <1>2. TypeInv' /\ bal' = bal /\ log' = log /\ uneven' = uneven
    BY <1>1, CrashTypes DEF Crash
  <1>3. ASSUME NEW a \in Agents, log'[a] # NaN
        PROVE  /\ bal'[a] # NaN
               /\ a \notin leaks' => Tallies(bal'[a], log'[a], pending'[a], Starting[a], uneven'[a])
    <2>1. a \notin leaks' => a \notin leaks /\ ~(pending[a] > 0) /\ pending'[a] = 0
      BY DEF Crash
    <2>2. a \notin leaks' => pending'[a] = pending[a]
      BY <1>1, <2>1
    <2> QED
      BY <1>2, <1>3, <2>1, <2>2, BookTypes
  <1> QED
    BY <1>2, <1>3, BookKept

LEMMA BookStep == BookInv /\ [Next]_vars => BookInv'
  <1> SUFFICES ASSUME BookInv, [Next]_vars PROVE BookInv'
    OBVIOUS
  <1>1. TypeInv'
    BY NextTypes DEF BookInv
  <1>2. ASSUME UNCHANGED <<bal, log, pending, leaks, uneven>> PROVE BookInv'
    BY <1>1, <1>2 DEF BookInv, NaNLogged, Reconciles
  <1>3. ASSUME NEW c \in Conns, Begin(c) \/ Statement(c) \/ ResolveDeadlock(c) \/ StatementFails(c)
        PROVE  BookInv'
    BY <1>2, <1>3 DEF Begin, Statement, ResolveDeadlock, StatementFails, Rollback, drift
  <1>4. CASE EmissionSelect \/ EmissionNext \/ EmissionEnd \/ SqlInsert \/ UNCHANGED vars
    BY <1>2, <1>4 DEF EmissionSelect, EmissionNext, EmissionEnd, SqlInsert, vars, drift
  <1> QED
    BY <1>3, <1>4, CommitBooks, CreditBooks, SqlBooks, CrashBooks DEF Next

\* An agent's balance and log part only where one of the named leaks happened, where
\* the log says NaN, or by a hundredth for each commit that was rounded unevenly:
\* every other balance is what the agent started with plus what the log says,
\* counting the credits that are half done.
THEOREM BalancesReconcile == Spec => []Reconciles
  <1>1. Init => BookInv
    <2> SUFFICES ASSUME Init PROVE NaNLogged /\ Reconciles
      BY InitTypes DEF BookInv
    <2>1. \A a \in Agents : Starting[a] \in Int /\ bal[a] = Starting[a] /\ log[a] = 0 /\ pending[a] = 0 /\ uneven[a] = 0
      BY StartingAssumption DEF Init, Rows
    <2>2. NaNLogged
      BY <2>1, NaNAssumption DEF NaNLogged
    <2>3. Reconciles
      BY <2>1 DEF Reconciles, VERIFIED_STARTER_BONUS
    <2> QED
      BY <2>2, <2>3
  <1>2. Spec => []BookInv
    BY <1>1, BookStep, PTL DEF Spec
  <1>3. BookInv => Reconciles
    BY DEF BookInv
  <1> QED
    BY <1>2, <1>3, PTL

(***************************************************************************)
(* Deadlocks                                                               *)
(***************************************************************************)
\* A transaction that debits the escrow account only after its INSERT, or spends
\* to the escrow account.
Orderly(c) == conn[c].op.kind \in {"escrow", "payTask", "refund", "emission"}
Pays(c) == conn[c].op.kind \in {"payTask", "refund"}
Escrows(c) == conn[c].op.kind = "escrow"

\* What an orderly transaction that waits holds other than shared: its payer's row,
\* or at the last step of a payment the escrow account.
LEMMA HeldForOneself ==
    ASSUME TypeInv, NEW c \in Conns, Orderly(c), WantsLock(c),
           NEW lock \in Held(c), lock[2] # "share"
    PROVE  \/ Escrows(c) /\ conn[c].pc > 1 /\ lock[1] = conn[c].op.from
           \/ Pays(c) /\ conn[c].pc = 4 /\ lock = <<System, "noKey">>
  <1> DEFINE op == conn[c].op
             n == conn[c].pc
  <1>1. op \in Op /\ n \in Nat /\ n > 0 /\ n <= Len(Plan(op))
    BY DEF TypeInv, TypeOK, WantsLock, Busy
  <1>2. PICK i \in 1 .. (n - 1) : lock = Plan(op)[i]
    BY DEF Held
  <1>3. op.kind \in {"escrow", "payTask", "refund", "emission"}
    BY DEF Orderly
  <1> HIDE DEF op, n
  <1>4. CASE op.kind = "escrow"
    <2>1. /\ Len(Plan(op)) = 5
          /\ Plan(op)[1] = <<op.from, "full">> /\ Plan(op)[2] = <<op.from, "share">>
          /\ Plan(op)[3] = <<op.to, "share">> /\ Plan(op)[4] = <<op.from, "noKey">>
      BY <1>1, <1>4, PlanSpend DEF Spends
    <2>2. i \in {1, 2, 3, 4} /\ n > 1
      BY <1>1, <1>2, <2>1
    <2>3. lock[1] = op.from
      BY <1>2, <2>1, <2>2
    <2> QED
      BY <1>4, <2>2, <2>3 DEF op, n, Escrows
  <1>5. CASE op.kind \in {"payTask", "refund"}
    <2>1. /\ Len(Plan(op)) = 4
          /\ Plan(op)[1] = <<System, "share">> /\ Plan(op)[2] = <<op.to, "share">>
          /\ Plan(op)[3] = <<System, "noKey">>
      BY <1>1, <1>5, PlanPay
    <2>2. i \in {1, 2, 3} /\ n <= 4 /\ n > i
      BY <1>1, <1>2, <2>1
    <2>3. i = 3
      BY <1>2, <2>1, <2>2
    <2>4. n = 4
      BY <1>1, <2>2, <2>3
    <2> QED
      BY <1>2, <1>5, <2>1, <2>3, <2>4 DEF op, n, Pays
  <1>6. CASE op.kind = "emission"
    <2>1. Len(Plan(op)) = 2 /\ Plan(op)[1] = <<op.to, "share">>
      BY <1>1, <1>6, PlanEmission
    <2>2. i = 1
      BY <1>1, <1>2, <2>1
    <2> QED
      BY <1>2, <2>1, <2>2
  <1> QED
    BY <1>3, <1>4, <1>5, <1>6

\* Who is waited for holds the lock that is in the way.
LEMMA InTheWay ==
    ASSUME TypeInv, NEW c \in Conns, NEW d \in Conns, WaitsFor(c, d), Wanted(c)[2] # "full"
    PROVE  \E lock \in Held(d) : /\ lock[1] = Wanted(c)[1] /\ lock[2] # "share"
                                 /\ Wanted(c)[2] = "share" => lock[2] = "full"
  BY DEF WaitsFor, Blocks, Conflict

LEMMA WaitedForHolds ==
    ASSUME TypeInv, NEW c \in Conns, NEW d \in Conns, WaitsFor(c, d)
    PROVE  conn[d].pc > 1
  <1>1. PICK lock \in Held(d) : TRUE
    BY DEF WaitsFor, Blocks
  <1>2. PICK i \in 1 .. (conn[d].pc - 1) : TRUE
    BY <1>1 DEF Held
  <1>3. conn[d].pc \in Nat
    BY DEF TypeInv, TypeOK
  <1> QED
    BY <1>2, <1>3

\* The lock that an orderly transaction which holds something wants next, and what
\* it holds already of the same row.
LEMMA OrderlyWants ==
    ASSUME TypeInv, NEW c \in Conns, Orderly(c), WantsLock(c), conn[c].pc > 1
    PROVE  LET op == conn[c].op
               n == conn[c].pc
           IN \/ Escrows(c) /\ <<op.from, "full">> \in Held(c)
                            /\ n \in 2 .. 5 /\ Wanted(c)[1] \in {op.from, System} /\ Wanted(c)[2] # "full"
              \/ Pays(c) /\ n = 2 /\ Wanted(c) = <<op.to, "share">>
              \/ Pays(c) /\ n = 3 /\ Wanted(c) = <<System, "noKey">> /\ <<System, "share">> \in Held(c)
              \/ Pays(c) /\ n = 4 /\ Wanted(c) = <<op.to, "noKey">> /\ <<op.to, "share">> \in Held(c)
              \/ conn[c].op.kind = "emission" /\ Wanted(c) = <<op.to, "noKey">> /\ <<op.to, "share">> \in Held(c)
  <1> DEFINE op == conn[c].op
             n == conn[c].pc
  <1>1. op \in Op /\ RowsFit(op) /\ n \in Nat /\ n > 1 /\ n <= Len(Plan(op))
    BY DEF TypeInv, TypeOK, WantsLock, Busy, Fits
  <1>2. Wanted(c) = Plan(op)[n]
    BY DEF Wanted
  <1>3. op.kind \in {"escrow", "payTask", "refund", "emission"}
    BY DEF Orderly
  <1>4. \A i \in 1 .. (n - 1) : Plan(op)[i] \in Held(c)
    BY HeldLocks
  <1> HIDE DEF op, n
  <1>5. CASE op.kind = "escrow"
    <2>1. /\ Len(Plan(op)) = 5
          /\ Plan(op)[1] = <<op.from, "full">> /\ Plan(op)[2] = <<op.from, "share">>
          /\ Plan(op)[3] = <<op.to, "share">> /\ Plan(op)[4] = <<op.from, "noKey">>
          /\ Plan(op)[5] = <<op.to, "noKey">>
      BY <1>1, <1>5, PlanSpend DEF Spends
    <2>2. n \in {2, 3, 4, 5} /\ n \in 2 .. 5 /\ 1 \in 1 .. (n - 1) /\ op.to = System
      BY <1>1, <1>5, <2>1 DEF RowsFit
    <2>3. <<op.from, "full">> \in Held(c)
      BY <1>4, <2>1, <2>2
    <2>4. Wanted(c)[1] \in {op.from, System} /\ Wanted(c)[2] # "full"
      BY <1>2, <2>1, <2>2
    <2> QED
      BY <1>5, <2>2, <2>3, <2>4 DEF op, n, Escrows
  <1>6. CASE op.kind \in {"payTask", "refund"}
    <2>1. /\ Len(Plan(op)) = 4
          /\ Plan(op)[1] = <<System, "share">> /\ Plan(op)[2] = <<op.to, "share">>
          /\ Plan(op)[3] = <<System, "noKey">> /\ Plan(op)[4] = <<op.to, "noKey">>
      BY <1>1, <1>6, PlanPay
    <2>2. n \in {2, 3, 4} /\ 1 \in 1 .. (n - 1) /\ (n > 2 => 2 \in 1 .. (n - 1))
      BY <1>1, <2>1
    <2>3. <<System, "share">> \in Held(c) /\ (n > 2 => <<op.to, "share">> \in Held(c))
      BY <1>4, <2>1, <2>2
    <2>4. CASE n = 2
      BY <1>2, <1>6, <2>1, <2>4 DEF op, n, Pays
    <2>5. CASE n = 3
      BY <1>2, <1>6, <2>1, <2>3, <2>5 DEF op, n, Pays
    <2>6. CASE n = 4
      BY <1>2, <1>6, <2>1, <2>3, <2>6 DEF op, n, Pays
    <2> QED
      BY <2>2, <2>4, <2>5, <2>6
  <1>7. CASE op.kind = "emission"
    <2>1. Len(Plan(op)) = 2 /\ Plan(op)[1] = <<op.to, "share">> /\ Plan(op)[2] = <<op.to, "noKey">>
      BY <1>1, <1>7, PlanEmission
    <2>2. n = 2 /\ 1 \in 1 .. (n - 1)
      BY <1>1, <2>1
    <2> QED
      BY <1>2, <1>4, <1>7, <2>1, <2>2 DEF op
  <1> QED
    BY <1>3, <1>5, <1>6, <1>7

\* A row of which a connection holds something keeps others from locking it fully,
\* and one it has locked fully keeps them from locking it at all.
LEMMA KeepsOthersOff ==
    ASSUME Exclusive, NEW c \in Conns, NEW d \in Conns, c # d,
           NEW x \in Held(c), NEW y \in Held(d), x[1] = y[1]
    PROVE  x[2] # "full" /\ y[2] # "full"
  BY DEF Exclusive, Blocks, Conflict

\* The four levels: what a waiting transaction of a circle cannot be waiting for.
\* Last steps wait for nobody who waits; payments that come to the escrow account wait
\* for last steps; escrows for those; and a payment that logs its row, for escrows.
LEMMA OrderlyNeverDeadlock ==
    ASSUME TypeInv, Exclusive, NEW cs \in SUBSET Conns, Deadlocked(cs),
           \A c \in cs : Orderly(c)
    PROVE  FALSE
  <1>1. \A c \in cs : c \in Conns /\ WantsLock(c) /\ \E d \in cs : WaitsFor(c, d)
    BY DEF Deadlocked, WaitsFor
  <1>2. ASSUME NEW c \in cs, conn[c].pc > 1, Wanted(c)[2] # "full"
        PROVE  \E d \in cs : /\ c # d /\ conn[d].pc > 1
                             /\ \E lock \in Held(d) :
                                    /\ lock[1] = Wanted(c)[1] /\ lock[2] # "share"
                                    /\ Wanted(c)[2] = "share" => lock[2] = "full"
                                    /\ \/ Escrows(d) /\ lock[1] = conn[d].op.from
                                              /\ <<conn[d].op.from, "full">> \in Held(d)
                                       \/ Pays(d) /\ conn[d].pc = 4 /\ lock = <<System, "noKey">>
    <2>1. PICK d \in cs : WaitsFor(c, d)
      BY <1>1
    <2>2. c # d /\ conn[d].pc > 1
      BY <1>1, <2>1, WaitedForHolds DEF WaitsFor
    <2>3. PICK lock \in Held(d) : /\ lock[1] = Wanted(c)[1] /\ lock[2] # "share"
                                  /\ Wanted(c)[2] = "share" => lock[2] = "full"
      BY <1>1, <1>2, <2>1, InTheWay
    <2>4. \/ Escrows(d) /\ lock[1] = conn[d].op.from
          \/ Pays(d) /\ conn[d].pc = 4 /\ lock = <<System, "noKey">>
      BY <1>1, <2>3, HeldForOneself
    <2>5. Escrows(d) => <<conn[d].op.from, "full">> \in Held(d)
      BY <1>1, <2>2, PayerLocked DEF Escrows, Spends
    <2> QED
      BY <2>2, <2>3, <2>4, <2>5
  <1>3. \A c \in cs : conn[c].pc > 0 /\ conn[c].op.to \in Rows /\ Fits(conn[c])
    BY <1>1 DEF TypeInv, TypeOK, Op, WantsLock, Busy
  <1>4. \A c \in cs : Pays(c) \/ conn[c].op.kind = "emission" => conn[c].op.to # System
    BY <1>3, SystemAssumption DEF Fits, RowsFit, Pays
  \* Level 0: the last step of a payment, an emission.
  <1>5. ASSUME NEW c \in cs, conn[c].pc > 1, Wanted(c) = <<conn[c].op.to, "noKey">>,
               <<conn[c].op.to, "share">> \in Held(c), conn[c].op.to # System
        PROVE  FALSE
    <2>1. PICK d \in cs : /\ c # d
                          /\ \E lock \in Held(d) :
                                    /\ lock[1] = Wanted(c)[1]
                                    /\ \/ lock[1] = conn[d].op.from /\ <<conn[d].op.from, "full">> \in Held(d)
                                       \/ lock = <<System, "noKey">>
      BY <1>2, <1>5
    <2>2. <<conn[c].op.to, "full">> \in Held(d)
      BY <1>5, <2>1
    <2> QED
      BY <1>1, <1>5, <2>1, <2>2, KeepsOthersOff
  <1>w. ASSUME NEW c \in cs, conn[c].pc > 1
        PROVE  \/ Escrows(c) /\ <<conn[c].op.from, "full">> \in Held(c)
                             /\ Wanted(c)[1] \in {conn[c].op.from, System} /\ Wanted(c)[2] # "full"
               \/ Pays(c) /\ conn[c].pc = 2 /\ Wanted(c) = <<conn[c].op.to, "share">>
               \/ Pays(c) /\ conn[c].pc = 3 /\ Wanted(c) = <<System, "noKey">> /\ <<System, "share">> \in Held(c)
               \/ Pays(c) /\ conn[c].pc = 4 /\ Wanted(c) = <<conn[c].op.to, "noKey">> /\ <<conn[c].op.to, "share">> \in Held(c)
               \/ conn[c].op.kind = "emission" /\ Wanted(c) = <<conn[c].op.to, "noKey">> /\ <<conn[c].op.to, "share">> \in Held(c)
    <2>1. c \in Conns /\ WantsLock(c) /\ Orderly(c)
      BY <1>1
    <2> QED
      BY <1>w, <2>1, OrderlyWants
  <1>6. ASSUME NEW c \in cs, conn[c].pc > 1
        PROVE  conn[c].op.kind # "emission" /\ ~(Pays(c) /\ conn[c].pc = 4)
    <2>1. ASSUME conn[c].op.kind = "emission" PROVE FALSE
      <3>1. ~Escrows(c) /\ ~Pays(c) /\ conn[c].op.to # System
        BY <2>1, <1>4 DEF Escrows, Pays
      <3>2. Wanted(c) = <<conn[c].op.to, "noKey">> /\ <<conn[c].op.to, "share">> \in Held(c)
        BY <1>6, <1>w, <3>1
      <3> QED
        BY <1>5, <1>6, <3>1, <3>2
    <2>2. ASSUME Pays(c), conn[c].pc = 4 PROVE FALSE
      <3>1. ~Escrows(c) /\ conn[c].op.kind # "emission" /\ conn[c].op.to # System
        BY <2>2, <1>4 DEF Escrows, Pays
      <3>2. conn[c].pc # 2 /\ conn[c].pc # 3
        BY <2>2
      <3>3. Wanted(c) = <<conn[c].op.to, "noKey">> /\ <<conn[c].op.to, "share">> \in Held(c)
        BY <1>6, <1>w, <3>1, <3>2, Zenon
      <3> QED
        BY <1>5, <1>6, <3>1, <3>3
    <2> QED
      BY <2>1, <2>2
  \* Level 1: a payment that comes to the escrow account.
  <1>7. \A c \in cs : conn[c].pc > 1 => ~(Pays(c) /\ conn[c].pc = 3)
    <2> SUFFICES ASSUME NEW c \in cs, conn[c].pc > 1, Pays(c), conn[c].pc = 3 PROVE FALSE
      OBVIOUS
    <2>1. ~Escrows(c) /\ conn[c].op.kind # "emission"
      BY DEF Escrows, Pays
    <2>0. conn[c].pc # 2 /\ conn[c].pc # 4
      OBVIOUS
    <2>2. Wanted(c) = <<System, "noKey">> /\ <<System, "share">> \in Held(c)
      BY <1>w, <2>0, <2>1, Zenon
    <2>3. Wanted(c)[1] = System /\ Wanted(c)[2] # "full"
      BY <2>2
    <2>4. PICK d \in cs : /\ c # d /\ conn[d].pc > 1
                          /\ \E lock \in Held(d) :
                                 /\ lock[1] = Wanted(c)[1]
                                 /\ \/ Escrows(d) /\ lock[1] = conn[d].op.from
                                           /\ <<conn[d].op.from, "full">> \in Held(d)
                                    \/ Pays(d) /\ conn[d].pc = 4 /\ lock = <<System, "noKey">>
      BY <1>2, <2>3
    <2>5. ~(Pays(d) /\ conn[d].pc = 4)
      BY <1>6, <2>4
    <2>6. <<System, "full">> \in Held(d)
      BY <2>3, <2>4, <2>5
    <2> QED
      BY <1>1, <2>2, <2>4, <2>6, KeepsOthersOff
  \* Level 2: an escrow.
  <1>8. \A c \in cs : conn[c].pc > 1 => ~Escrows(c)
    <2> SUFFICES ASSUME NEW c \in cs, conn[c].pc > 1, Escrows(c) PROVE FALSE
      OBVIOUS
    <2>1. /\ <<conn[c].op.from, "full">> \in Held(c)
          /\ Wanted(c)[1] \in {conn[c].op.from, System} /\ Wanted(c)[2] # "full"
      BY <1>1, OrderlyWants DEF Orderly, Escrows, Pays
    <2>2. PICK d \in cs : /\ c # d /\ conn[d].pc > 1
                          /\ Wanted(c)[1] = conn[d].op.from /\ <<conn[d].op.from, "full">> \in Held(d)
                          /\ Escrows(d)
      BY <2>1, <1>2, <1>6
    <2>3. Wanted(c)[1] # conn[c].op.from
      BY <1>1, <2>1, <2>2, KeepsOthersOff
    <2>4. conn[d].op.from = System /\ <<System, "full">> \in Held(d)
      BY <2>1, <2>2, <2>3
    <2>5. /\ Wanted(d)[1] = System /\ Wanted(d)[2] # "full"
      BY <1>1, <2>2, <2>4, OrderlyWants DEF Orderly, Escrows, Pays
    <2>6. PICK e \in cs : /\ d # e /\ \E lock \in Held(e) : lock[1] = System
      BY <2>2, <2>5, <1>2
    <2> QED
      BY <1>1, <2>4, <2>6, KeepsOthersOff
  \* Level 3: a payment that logs its row.
  <1>9. \A c \in cs : conn[c].pc > 1 => ~Pays(c)
    <2> SUFFICES ASSUME NEW c \in cs, conn[c].pc > 1, Pays(c) PROVE FALSE
      OBVIOUS
    <2>1. ~Escrows(c) /\ conn[c].op.kind # "emission"
      BY DEF Escrows, Pays
    <2>2. Wanted(c) = <<conn[c].op.to, "share">>
      BY <1>w, <1>6, <1>7, <2>1
    <2>3. Wanted(c)[2] # "full"
      BY <2>2
    <2>4. PICK d \in cs : /\ conn[d].pc > 1
                          /\ Escrows(d) \/ (Pays(d) /\ conn[d].pc = 4)
      BY <1>2, <2>3
    <2> QED
      BY <2>4, <1>6, <1>8
  <1>10. PICK c \in cs : TRUE
    BY DEF Deadlocked
  <1>11. PICK d \in cs : WaitsFor(c, d)
    BY <1>1
  <1>12. conn[d].pc > 1
    BY <1>1, <1>11, WaitedForHolds
  <1> QED
    BY <1>6, <1>8, <1>9, <1>12 DEF Orderly, Escrows, Pays

\* For any number of connections: where Postgres has to end a transaction because of
\* a deadlock, a p2p transfer or the payment of a gig order takes part.
THEOREM DeadlocksNeedDisorder == Spec => []OrderedLocks
  <1>1. TypeInv /\ Exclusive => OrderedLocks
    <2> SUFFICES ASSUME TypeInv, Exclusive, NEW cs \in SUBSET Conns, Deadlocked(cs),
                        \A c \in cs : conn[c].op.kind \notin {"p2p", "transfer", "payOrder"}
                 PROVE  FALSE
      BY DEF OrderedLocks
    <2>1. \A c \in cs : conn[c].op.kind \in Kinds
      BY DEF TypeInv, TypeOK, Op
    <2>2. \A c \in cs : Orderly(c)
      BY <2>1 DEF Kinds, Orderly
    <2> QED
      BY <2>2, OrderlyNeverDeadlock
  <1>2. Spec => []LedgerInv
    BY LedgerInit, LedgerStep, PTL DEF Spec
  <1>3. LedgerInv => OrderedLocks
    BY <1>1 DEF LedgerInv
  <1> QED
    BY <1>2, <1>3, PTL
=============================================================================
