---------------------------- MODULE WebhooksProofs ----------------------------
(***************************************************************************)
(* Theorems about Webhooks, for any number of agents, deliveries, retry    *)
(* runs and every bound; and about the other ways of telling an agent what *)
(* happened, those of A2A (Streams), for any number of clients.            *)
(***************************************************************************)
EXTENDS Webhooks, Streams, SequenceTheorems, FiniteSetTheorems, TLAPS

USE WebhooksAssumption

Busy == {"ok", "failed", "blocked", "clear"}

\* What counts against a delivery: requests without a 2xx answer, and 2xx answers
\* that were not recorded.
strikes == [d \in Deliveries |-> failures[d] + unrecorded[d]]

\* A delivery whose first request is still to come has no row; while it is under way
\* the row is untouched, and no retry run has it.
FirstsOK ==
    \A d \in Deliveries :
        /\ first[d].pc \in {"free", "read"} => ~Exists(d)
        /\ first[d].pc \in {"ok", "failed", "blocked"}
                => Exists(d) /\ row[d].attempt = 1 /\ row[d].retry = "none"
        /\ first[d].pc = "failed" => strikes[d] > 0
        /\ first[d].pc # "done" =>
                \A r \in Runs : /\ \A h \in run[r].held : h.d # d
                                /\ run[r].pc \in Busy => run[r].d # d

\* A row that may be retried has as many strikes as it counts attempts.
CountsOK == \A d \in Deliveries : Exists(d) /\ row[d].retry # "none" => row[d].attempt <= strikes[d]

\* So has every row a run holds, and the one it works on.
RunOK(r) ==
    /\ \A h \in run[r].held : /\ Exists(h.d)
                              /\ h.attempt <= strikes[h.d] /\ h.attempt < MaxAttempts
    /\ run[r].pc \in Busy => Exists(run[r].d) /\ run[r].attempt > 0 /\ run[r].attempt < MaxAttempts
    /\ run[r].pc = "ok" => run[r].attempt <= strikes[run[r].d]
    /\ run[r].pc = "failed" => run[r].attempt < strikes[run[r].d]
    /\ run[r].pc = "blocked" => run[r].d \in blocked
    /\ run[r].pc = "clear" => strikes[run[r].d] >= MaxAttempts
RunsOK == \A r \in Runs : RunOK(r)

\* The runs that are still to send an item's warning.
Senders(i) == {w \in WarnRuns : i \in warner[w].selected}

\* A warning sent, or still to be sent, is the first, or made up for by a fault or by
\* a selection that overlapped; one that nobody has in hand, and that is not stamped,
\* is made up for altogether.
WarningsOK ==
    \A i \in Items :
        /\ notices[i] + Cardinality(Senders(i)) <= 1 + faults + reselected[i]
        /\ ~item[i].warned /\ (\A w \in WarnRuns : ~InHand(w, i))
                => notices[i] <= faults + reselected[i]
        /\ \A w \in WarnRuns, j \in Items :
                i \in warner[w].stamping /\ j \in warner[w].stamping => i = j

DeliveriesOK == FirstsOK /\ CountsOK /\ RunsOK
IInv == TypeOK /\ DeliveriesOK /\ WarningsOK

(***************************************************************************)
(* What the fields hold                                                    *)
(***************************************************************************)
LEMMA RowExists == \A x \in Row : x # NoRow
  <1>1. \A x \in Row : x.attempt > 0
    BY DEF Row
  <1>2. NoRow.attempt = 0
    BY DEF NoRow
  <1> QED
    BY <1>1, <1>2

LEMMA RowType ==
    ASSUME TypeOK, NEW d \in Deliveries, Exists(d)
    PROVE  /\ row[d] \in Row /\ row[d].agent \in Agents /\ row[d].attempt \in 1 .. MaxAttempts
           /\ row[d].retry \in Retries /\ row[d].delivered \in BOOLEAN
  BY DEF TypeOK, Exists, Row

LEMMA FirstType ==
    ASSUME TypeOK, NEW d \in Deliveries
    PROVE  first[d] \in First /\ first[d].pc \in FirstPc /\ first[d].agent \in Agents
  BY DEF TypeOK, First

LEMMA RunType ==
    ASSUME TypeOK, NEW r \in Runs
    PROVE  /\ run[r] \in Run /\ run[r].pc \in RunPc /\ run[r].d \in Deliveries
           /\ run[r].attempt \in 0 .. MaxAttempts
           /\ \A h \in run[r].held : /\ h \in Held /\ h.d \in Deliveries
                                     /\ h.attempt \in 1 .. MaxAttempts
  BY DEF TypeOK, Run, Held

LEMMA IdleRunType == IdleRun \in Run /\ IdleRun.pc = "idle" /\ IdleRun.held = {}
  BY DEF IdleRun, Run, RunPc, Deliveries

\* A row is written.
LEMMA RowWritten ==
    ASSUME TypeOK, NEW d \in Deliveries, NEW x \in Row, row' = [row EXCEPT ![d] = x]
    PROVE  /\ row' \in [Deliveries -> Row \cup {NoRow}] /\ row'[d] = x /\ Exists(d)'
           /\ \A e \in Deliveries \ {d} : row'[e] = row[e] /\ (Exists(e)' <=> Exists(e))
           /\ \A e \in Deliveries : Exists(e) => Exists(e)'
  BY RowExists DEF TypeOK, Exists

LEMMA SendersFinite ==
    ASSUME NEW i \in Items
    PROVE  IsFiniteSet(Senders(i)) /\ Cardinality(Senders(i)) \in Nat
  BY FS_Subset, FS_CardinalityType DEF Senders

LEMMA StrikesType == ASSUME TypeOK PROVE strikes \in [Deliveries -> Nat]
  BY DEF TypeOK, strikes

LEMMA StrikesKept == UNCHANGED <<failures, unrecorded>> => UNCHANGED strikes
  BY DEF strikes

\* A request is answered.
LEMMA PostedType ==
    ASSUME TypeOK, NEW d \in Deliveries, NEW outcome, Posted(d, outcome), UNCHANGED unrecorded
    PROVE  /\ failures' \in [Deliveries -> 0 .. MaxAttempts] /\ blocked' \subseteq Deliveries
           /\ strikes' \in [Deliveries -> Nat]
           /\ \A e \in Deliveries : strikes'[e] >= strikes[e]
           /\ blocked \subseteq blocked'
           /\ outcome = "failed" => \A n \in 0 .. MaxAttempts :
                  n <= strikes[d] /\ n < MaxAttempts => n < strikes'[d]
           /\ outcome = "blocked" => d \in blocked'
  <1>1. /\ failures' \in [Deliveries -> 0 .. MaxAttempts] /\ blocked' \subseteq Deliveries
        /\ \A e \in Deliveries : failures'[e] >= failures[e]
        /\ blocked \subseteq blocked'
        /\ outcome = "failed" => failures'[d] = MaxAttempts \/ failures'[d] = failures[d] + 1
        /\ outcome = "blocked" => d \in blocked'
    BY DEF TypeOK, Posted
  <1>2. \A e \in Deliveries : failures[e] \in Nat /\ failures'[e] \in Nat /\ unrecorded[e] \in Nat
    BY <1>1 DEF TypeOK
  <1>3. \A e \in Deliveries : /\ strikes[e] = failures[e] + unrecorded[e]
                              /\ strikes'[e] = failures'[e] + unrecorded[e]
    BY DEF strikes
  <1>4. strikes' \in [Deliveries -> Nat]
    BY <1>2 DEF strikes
  <1> QED
    BY <1>1, <1>2, <1>3, <1>4

\* A 2xx answer is not recorded.
LEMMA LostType ==
    ASSUME TypeOK, NEW d \in Deliveries, Lost(d), UNCHANGED failures
    PROVE  /\ unrecorded' \in [Deliveries -> Nat] /\ faults' \in 0 .. MaxFaults
           /\ faults' = faults + 1
           /\ strikes' \in [Deliveries -> Nat]
           /\ \A e \in Deliveries : strikes'[e] >= strikes[e]
           /\ strikes'[d] = strikes[d] + 1
  <1>1. /\ unrecorded' \in [Deliveries -> Nat] /\ faults' \in 0 .. MaxFaults
        /\ faults' = faults + 1 /\ unrecorded'[d] = unrecorded[d] + 1
        /\ \A e \in Deliveries \ {d} : unrecorded'[e] = unrecorded[e]
    BY DEF TypeOK, Lost, Throws
  <1>2. \A e \in Deliveries : failures[e] \in Nat /\ unrecorded[e] \in Nat
    BY DEF TypeOK
  <1>3. \A e \in Deliveries : /\ strikes[e] = failures[e] + unrecorded[e]
                              /\ strikes'[e] = failures[e] + unrecorded'[e]
    BY DEF strikes
  <1>4. strikes' \in [Deliveries -> Nat]
    BY <1>1, <1>2 DEF strikes
  <1> QED
    BY <1>1, <1>2, <1>3, <1>4

\* A run that is not written, where rows stay and answers add up.
LEMMA RunKept ==
    ASSUME TypeOK, NEW r \in Runs, RunOK(r), run'[r] = run[r],
           \A e \in Deliveries : Exists(e) => Exists(e)',
           strikes' \in [Deliveries -> Nat], blocked \subseteq blocked',
           \A e \in Deliveries : strikes'[e] >= strikes[e]
    PROVE  RunOK(r)'
  <1>1. ASSUME NEW h \in run[r].held
        PROVE  Exists(h.d)' /\ h.attempt <= strikes'[h.d] /\ h.attempt < MaxAttempts
    <2>1. h.d \in Deliveries /\ h.attempt \in Nat
      BY RunType
    <2>2. strikes[h.d] \in Nat /\ strikes'[h.d] \in Nat
      BY <2>1, StrikesType
    <2> QED
      BY <2>1, <2>2 DEF RunOK
  <1>2. run[r].d \in Deliveries /\ run[r].attempt \in Nat
    BY RunType
  <1>3. strikes[run[r].d] \in Nat /\ strikes'[run[r].d] \in Nat
    BY <1>2, StrikesType
  <1> QED
    BY <1>1, <1>2, <1>3 DEF RunOK

\* Runs, rows and answers as they were, and firsts only from free to read.
LEMMA FirstsStart ==
    ASSUME TypeOK, DeliveriesOK, UNCHANGED <<row, run, strikes, blocked>>,
           \A d \in Deliveries : \/ first'[d] = first[d]
                                 \/ first[d].pc = "free" /\ first'[d].pc = "read"
    PROVE  DeliveriesOK'
  <1>1. FirstsOK'
    <2>1. ASSUME NEW d \in Deliveries
          PROVE  /\ first'[d].pc \in {"free", "read"} => first[d].pc \in {"free", "read"}
                 /\ first'[d].pc \notin {"free", "read"} => first'[d] = first[d]
                 /\ first'[d].pc # "done" => first[d].pc # "done"
      OBVIOUS
    <2> QED
      BY <2>1 DEF DeliveriesOK, FirstsOK, Exists
  <1>2. CountsOK' /\ RunsOK'
    BY DEF DeliveriesOK, CountsOK, RunsOK, RunOK, Exists
  <1> QED
    BY <1>1, <1>2 DEF DeliveriesOK

LEMMA FiredStep ==
    ASSUME TypeOK, NEW S \in SUBSET Agents, Fired(S)
    PROVE  /\ first' \in [Deliveries -> First]
           /\ \A d \in Deliveries : \/ first'[d] = first[d]
                                    \/ first[d].pc = "free" /\ first'[d].pc = "read"
  <1>1. PICK f \in [S -> Free] :
            first' = [d \in Deliveries |->
                        IF \E a \in S : f[a] = d
                        THEN [pc |-> "read", agent |-> CHOOSE a \in S : f[a] = d]
                        ELSE first[d]]
    BY DEF Fired
  <1>2. ASSUME NEW d \in Deliveries, NEW a \in S, f[a] = d
        PROVE  /\ first[d].pc = "free"
               /\ (CHOOSE b \in S : f[b] = d) \in Agents
    <2>1. d \in Free
      BY <1>2
    <2>2. (CHOOSE b \in S : f[b] = d) \in S
      BY <1>2
    <2> QED
      BY <2>1, <2>2 DEF Free
  <1>3. ASSUME NEW d \in Deliveries
        PROVE  /\ first'[d] \in First
               /\ \/ first'[d] = first[d]
                  \/ first[d].pc = "free" /\ first'[d].pc = "read"
    <2>1. CASE \E a \in S : f[a] = d
      BY <1>1, <1>2, <2>1 DEF First, FirstPc
    <2>2. CASE ~\E a \in S : f[a] = d
      BY <1>1, <2>2, FirstType
    <2> QED
      BY <2>1, <2>2
  <1> QED
    BY <1>1, <1>3

\* Nothing that is said of warnings changes, or there are more faults.
LEMMA WarningsKept ==
    ASSUME TypeOK, WarningsOK, UNCHANGED warnings, faults' = faults \/ faults' = faults + 1
    PROVE  WarningsOK'
  <1>1. \A i \in Items : Senders(i)' = Senders(i) /\ \A w \in WarnRuns : InHand(w, i)' <=> InHand(w, i)
    BY DEF Senders, InHand, warnings
  <1>2. ASSUME NEW i \in Items
        PROVE  /\ notices[i] \in Nat /\ reselected[i] \in Nat /\ faults \in Nat
               /\ Cardinality(Senders(i)) \in Nat
    BY SendersFinite DEF TypeOK
  <1>3. ASSUME NEW i \in Items
        PROVE  /\ notices[i] + Cardinality(Senders(i)) <= 1 + faults' + reselected[i]
               /\ ~item[i].warned /\ (\A w \in WarnRuns : ~InHand(w, i))
                      => notices[i] <= faults' + reselected[i]
    BY <1>2 DEF WarningsOK
  <1> QED
    BY <1>1, <1>3 DEF WarningsOK, warnings

(***************************************************************************)
(* Init and the owner's steps                                              *)
(***************************************************************************)
LEMMA InitInvariant == Init => IInv
  <1> SUFFICES ASSUME Init PROVE IInv
    OBVIOUS
  <1>1. AnAgent \in Agents
    BY DEF AnAgent
  <1>2. [pc |-> "free", agent |-> AnAgent] \in First
    BY <1>1 DEF First, FirstPc
  <1>3. TypeOK
    BY <1>2, IdleRunType DEF Init, TypeOK, Item, Warner, NoWarner
  <1>4. DeliveriesOK
    BY IdleRunType DEF Init, DeliveriesOK, strikes, FirstsOK, CountsOK, RunsOK, RunOK, Exists, Busy
  <1>5. WarningsOK
    <2>1. \A i \in Items : Senders(i) = {}
      BY DEF Init, Senders, NoWarner
    <2> QED
      <3>1. \A w \in WarnRuns : warner[w].stamping = {}
        BY DEF Init, NoWarner
      <3>2. \A i \in Items : notices[i] = 0 /\ reselected[i] = 0 /\ faults = 0
        BY DEF Init
      <3>3. \A i \in Items : Cardinality(Senders(i)) = 0
        BY <2>1, FS_EmptySet
      <3> QED
        BY <3>1, <3>2, <3>3 DEF WarningsOK
  <1> QED
    BY <1>3, <1>4, <1>5 DEF IInv

LEMMA PatchStep ==
    ASSUME IInv, NEW a \in Agents, Patch(a)
    PROVE  IInv'
  <1>1. url' \subseteq Agents /\ patches' \in 0 .. MaxPatches
    BY DEF IInv, TypeOK, Patch
  <1>2. UNCHANGED <<row, first, run, answers, strikes, warnings, faults>>
    BY StrikesKept DEF Patch, answers
  <1>3. WarningsOK'
    BY <1>2, WarningsKept DEF IInv
  <1> QED
    BY <1>1, <1>2, <1>3
       DEF IInv, TypeOK, DeliveriesOK, FirstsOK, CountsOK, RunsOK, RunOK, Exists, answers, warnings

LEMMA FireStep == IInv /\ Fire => IInv'
  <1> SUFFICES ASSUME IInv, Fire PROVE IInv'
    OBVIOUS
  <1>1. PICK S \in SUBSET Agents : Fired(S)
    BY DEF Fire
  <1>2. UNCHANGED <<url, row, run, answers, strikes, blocked, warnings, patches, faults>>
    BY StrikesKept DEF Fire, answers
  <1>3. TypeOK'
    BY <1>1, <1>2, FiredStep DEF IInv, TypeOK, answers, warnings
  <1>4. DeliveriesOK'
    BY <1>1, <1>2, FiredStep, FirstsStart DEF IInv
  <1> QED
    BY <1>2, <1>3, <1>4, WarningsKept DEF IInv

(***************************************************************************)
(* deliverWebhook                                                          *)
(***************************************************************************)
LEMMA FirstSendStep ==
    ASSUME IInv, NEW d \in Deliveries, FirstSend(d), UNCHANGED <<run, unrecorded>>
    PROVE  /\ DeliveriesOK'
           /\ row' \in [Deliveries -> Row \cup {NoRow}] /\ first' \in [Deliveries -> First]
           /\ failures' \in [Deliveries -> 0 .. MaxAttempts] /\ blocked' \subseteq Deliveries
  <1> DEFINE a == first[d].agent
  <1>1. first[d].pc = "read" /\ first[d] \in First /\ a \in Agents
    BY FirstType DEF FirstSend, At, IInv
  <1>2. ASSUME NEW pc \in FirstPc, Step(d, pc)
        PROVE  /\ first' \in [Deliveries -> First] /\ first'[d].pc = pc
               /\ \A e \in Deliveries \ {d} : first'[e] = first[e]
    BY <1>1, <1>2 DEF Step, First, IInv, TypeOK
  <1>3. \A r \in Runs : /\ \A h \in run[r].held : h.d # d
                        /\ run[r].pc \in Busy => run[r].d # d
    BY <1>1 DEF IInv, DeliveriesOK, FirstsOK
  <1>4. CASE a \in url
    <2> DEFINE x == [agent |-> a, attempt |-> 1, delivered |-> FALSE, retry |-> "none"]
    <2>1. x \in Row /\ row' = [row EXCEPT ![d] = x]
      BY <1>1, <1>4 DEF Row, Retries, FirstSend
    <2>2. PICK outcome \in {"ok", "failed", "blocked"} : Step(d, outcome) /\ Posted(d, outcome)
      BY <1>4 DEF FirstSend, ssrfSafeFetch, Asked, Refused
    <2>3. /\ row' \in [Deliveries -> Row \cup {NoRow}] /\ row'[d] = x /\ Exists(d)'
          /\ \A e \in Deliveries \ {d} : row'[e] = row[e] /\ (Exists(e)' <=> Exists(e))
          /\ \A e \in Deliveries : Exists(e) => Exists(e)'
      BY <2>1, RowWritten DEF IInv
    <2>4. /\ first' \in [Deliveries -> First] /\ first'[d].pc = outcome
          /\ \A e \in Deliveries \ {d} : first'[e] = first[e]
      BY <1>2, <2>2 DEF FirstPc
    <2>5. /\ failures' \in [Deliveries -> 0 .. MaxAttempts] /\ blocked' \subseteq Deliveries
          /\ strikes' \in [Deliveries -> Nat]
          /\ \A e \in Deliveries : strikes'[e] >= strikes[e]
          /\ blocked \subseteq blocked'
          /\ outcome = "failed" => strikes'[d] > 0
      <3>1. strikes[d] \in Nat /\ 0 \in 0 .. MaxAttempts
        BY StrikesType DEF IInv
      <3> QED
        BY <2>2, <3>1, PostedType DEF IInv
    <2>6. row'[d].attempt = 1 /\ row'[d].retry = "none"
      BY <2>3
    <2>7. \A e \in Deliveries : strikes[e] \in Nat /\ strikes'[e] \in Nat
      BY <2>5, StrikesType DEF IInv
    <2> HIDE DEF x
    <2>8. FirstsOK'
      BY <1>3, <2>3, <2>4, <2>5, <2>6, <2>7 DEF IInv, DeliveriesOK, FirstsOK
    <2>9. CountsOK'
      <3>1. ASSUME NEW e \in Deliveries, e # d, Exists(e)', row'[e].retry # "none"
            PROVE  row'[e].attempt <= strikes'[e]
        <4>1. row'[e] = row[e] /\ Exists(e) /\ row[e].attempt <= strikes[e]
          BY <2>3, <3>1 DEF IInv, DeliveriesOK, CountsOK
        <4>2. row[e].attempt \in Nat
          BY <4>1, RowType DEF IInv
        <4> QED
          BY <2>5, <2>7, <4>1, <4>2
      <3> QED
        BY <2>6, <3>1 DEF CountsOK
    <2>10. RunsOK'
      BY <2>3, <2>5, RunKept DEF IInv, DeliveriesOK, RunsOK
    <2> QED
      BY <2>3, <2>4, <2>5, <2>8, <2>9, <2>10 DEF DeliveriesOK
  <1>5. CASE a \notin url
    <2>1. /\ first' \in [Deliveries -> First] /\ first'[d].pc = "done"
          /\ \A e \in Deliveries \ {d} : first'[e] = first[e]
      BY <1>2, <1>5 DEF FirstSend, FirstPc
    <2>2. UNCHANGED <<row, failures, strikes, blocked>>
      BY <1>5, StrikesKept DEF FirstSend
    <2>3. FirstsOK'
      BY <2>1, <2>2 DEF IInv, DeliveriesOK, FirstsOK, Exists
    <2>4. CountsOK' /\ RunsOK'
      BY <2>2 DEF IInv, DeliveriesOK, CountsOK, RunsOK, RunOK, Exists
    <2> QED
      BY <2>1, <2>2, <2>3, <2>4 DEF IInv, TypeOK, DeliveriesOK
  <1> QED
    BY <1>4, <1>5

LEMMA FirstRecordStep ==
    ASSUME IInv, NEW d \in Deliveries, FirstRecord(d), UNCHANGED <<run, unrecorded>>
    PROVE  /\ DeliveriesOK'
           /\ row' \in [Deliveries -> Row \cup {NoRow}] /\ first' \in [Deliveries -> First]
           /\ failures' \in [Deliveries -> 0 .. MaxAttempts] /\ blocked' \subseteq Deliveries
  <1>1. /\ first[d].pc \in {"ok", "failed", "blocked"} /\ first[d] \in First
        /\ UNCHANGED <<failures, strikes, blocked>>
    BY FirstType, StrikesKept DEF FirstRecord, IInv
  <1>2. Exists(d) /\ row[d] \in Row /\ row[d].attempt = 1
        /\ (first[d].pc = "failed" => strikes[d] > 0)
    BY <1>1, RowType DEF IInv, DeliveriesOK, FirstsOK
  <1> DEFINE retry == IF At(d, "failed") THEN "later" ELSE "none"
             x == [row[d] EXCEPT !.delivered = At(d, "ok"), !.retry = retry]
  <1>3. row' = [row EXCEPT ![d] = x]
    BY <1>2 DEF FirstRecord, IInv, TypeOK
  <1>4. retry \in Retries /\ At(d, "ok") \in BOOLEAN
    BY DEF Retries, At
  <1>5. x \in Row /\ x.attempt = 1 /\ x.retry = retry
    BY <1>2, <1>4 DEF Row
  <1> HIDE DEF x
  <1>6. /\ row' \in [Deliveries -> Row \cup {NoRow}] /\ row'[d] = x /\ Exists(d)'
        /\ \A e \in Deliveries \ {d} : row'[e] = row[e] /\ (Exists(e)' <=> Exists(e))
        /\ \A e \in Deliveries : Exists(e) => Exists(e)'
    BY <1>3, <1>5, RowWritten DEF IInv
  <1>7. /\ first' \in [Deliveries -> First] /\ first'[d].pc = "done"
        /\ \A e \in Deliveries \ {d} : first'[e] = first[e]
    BY <1>1 DEF FirstRecord, Step, First, FirstPc, IInv, TypeOK
  <1>8. FirstsOK'
    BY <1>1, <1>6, <1>7 DEF IInv, DeliveriesOK, FirstsOK
  <1>9. CountsOK'
    <2>1. Exists(d)' /\ row'[d].retry # "none" => row'[d].attempt <= strikes'[d]
      <3>1. strikes[d] \in Nat
        BY StrikesType DEF IInv
      <3> QED
        BY <1>1, <1>2, <1>5, <1>6, <3>1 DEF At
    <2> QED
      BY <1>1, <1>6, <2>1 DEF IInv, DeliveriesOK, CountsOK
  <1>10. RunsOK'
    <2>1. strikes' \in [Deliveries -> Nat]
          /\ \A e \in Deliveries : strikes'[e] >= strikes[e]
      BY <1>1, StrikesType DEF IInv
    <2> QED
      BY <1>1, <1>6, <2>1, RunKept DEF IInv, DeliveriesOK, RunsOK
  <1> QED
    BY <1>1, <1>6, <1>7, <1>8, <1>9, <1>10 DEF IInv, TypeOK, DeliveriesOK

LEMMA DeliverStep ==
    ASSUME IInv, NEW d \in Deliveries, Deliver(d)
    PROVE  IInv'
  <1>1. UNCHANGED <<url, run, unrecorded, warnings, patches, faults>>
    BY DEF Deliver
  <1>2. /\ DeliveriesOK'
        /\ row' \in [Deliveries -> Row \cup {NoRow}] /\ first' \in [Deliveries -> First]
        /\ failures' \in [Deliveries -> 0 .. MaxAttempts] /\ blocked' \subseteq Deliveries
    BY <1>1, FirstSendStep, FirstRecordStep DEF Deliver
  <1>3. WarningsOK'
    BY <1>1, WarningsKept DEF IInv
  <1> QED
    BY <1>1, <1>2, <1>3 DEF IInv, TypeOK, warnings

\* The first delivery goes to failed or is over, with as many strikes or more.
LEMMA FirstMoves ==
    ASSUME IInv, NEW d \in Deliveries, NEW pc \in {"failed", "done"}, Step(d, pc),
           UNCHANGED <<row, run, blocked>>, strikes' \in [Deliveries -> Nat],
           \A e \in Deliveries : strikes'[e] >= strikes[e],
           pc = "failed" => At(d, "ok") /\ strikes'[d] > 0
    PROVE  first' \in [Deliveries -> First] /\ DeliveriesOK'
  <1>1. first[d] \in First /\ pc \in FirstPc
    BY FirstType DEF IInv, FirstPc
  <1>2. /\ first' \in [Deliveries -> First] /\ first'[d].pc = pc
        /\ \A e \in Deliveries \ {d} : first'[e] = first[e]
    BY <1>1 DEF Step, First, IInv, TypeOK
  <1>3. \A e \in Deliveries : strikes[e] \in Nat /\ strikes'[e] \in Nat
    BY StrikesType DEF IInv
  <1>4. FirstsOK'
    <2>1. ASSUME NEW e \in Deliveries, first'[e].pc = "failed" PROVE strikes'[e] > 0
      <3>1. CASE e = d
        BY <1>2, <2>1, <3>1
      <3>2. CASE e # d
        <4>1. strikes[e] > 0
          BY <1>2, <2>1, <3>2 DEF IInv, DeliveriesOK, FirstsOK
        <4> QED
          BY <1>3, <4>1
      <3> QED
        BY <3>1, <3>2
    <2>2. ASSUME NEW e \in Deliveries
          PROVE  /\ first'[e].pc \in {"free", "read"} => first[e].pc \in {"free", "read"}
                 /\ first'[e].pc \in {"ok", "failed", "blocked"}
                        => first[e].pc \in {"ok", "failed", "blocked"}
                 /\ first'[e].pc # "done" => first[e].pc # "done"
      BY <1>2 DEF At
    <2> QED
      BY <2>1, <2>2 DEF IInv, DeliveriesOK, FirstsOK, Exists
  <1>5. CountsOK'
    <2>1. \A e \in Deliveries : Exists(e) => row[e].attempt \in Nat
      BY RowType DEF IInv
    <2> QED
      BY <1>3, <2>1 DEF IInv, DeliveriesOK, CountsOK, Exists
  <1>6. RunsOK'
    BY RunKept DEF IInv, DeliveriesOK, RunsOK, Exists
  <1> QED
    BY <1>2, <1>4, <1>5, <1>6 DEF DeliveriesOK

LEMMA FirstLostStep ==
    ASSUME IInv, NEW d \in Deliveries, FirstLost(d)
    PROVE  IInv'
  <1>1. /\ At(d, "ok") /\ Lost(d) /\ Step(d, "failed")
        /\ UNCHANGED <<url, row, run, failures, blocked, warnings, patches>>
    BY DEF FirstLost
  <1>2. /\ unrecorded' \in [Deliveries -> Nat] /\ faults' \in 0 .. MaxFaults
        /\ faults' = faults + 1
        /\ strikes' \in [Deliveries -> Nat]
        /\ \A e \in Deliveries : strikes'[e] >= strikes[e]
        /\ strikes'[d] = strikes[d] + 1
    BY <1>1, LostType DEF IInv
  <1>3. strikes'[d] > 0
    <2>1. strikes[d] \in Nat
      BY StrikesType DEF IInv
    <2> QED
      BY <1>2, <2>1
  <1>4. first' \in [Deliveries -> First] /\ DeliveriesOK'
    BY <1>1, <1>2, <1>3, FirstMoves
  <1>5. WarningsOK'
    BY <1>1, <1>2, WarningsKept DEF IInv
  <1> QED
    BY <1>1, <1>2, <1>4, <1>5 DEF IInv, TypeOK, warnings

LEMMA FirstThrowsStep ==
    ASSUME IInv, NEW d \in Deliveries, FirstThrows(d)
    PROVE  IInv'
  <1>1. /\ Step(d, "done") /\ faults' = faults + 1 /\ faults' \in 0 .. MaxFaults
        /\ UNCHANGED <<url, row, run, answers, strikes, blocked, warnings, patches>>
    BY StrikesKept DEF FirstThrows, Throws, answers, IInv, TypeOK
  <1>2. /\ strikes' \in [Deliveries -> Nat]
        /\ \A e \in Deliveries : strikes'[e] >= strikes[e]
    BY <1>1, StrikesType DEF IInv
  <1>3. first' \in [Deliveries -> First] /\ DeliveriesOK'
    BY <1>1, <1>2, FirstMoves
  <1>4. WarningsOK'
    BY <1>1, WarningsKept DEF IInv
  <1> QED
    BY <1>1, <1>3, <1>4 DEF IInv, TypeOK, warnings, answers

(***************************************************************************)
(* runWebhookRetries                                                       *)
(***************************************************************************)
LEMMA DueStep ==
    ASSUME IInv, NEW d \in Deliveries, Due(d)
    PROVE  IInv'
  <1>1. /\ Exists(d) /\ row[d].retry = "later" /\ row[d] \in Row
        /\ UNCHANGED <<url, first, run, answers, strikes, blocked, warnings, patches, faults>>
    BY RowType, StrikesKept DEF Due, answers, IInv
  <1> DEFINE x == [row[d] EXCEPT !.retry = "due"]
  <1>2. x \in Row /\ x.attempt = row[d].attempt /\ row' = [row EXCEPT ![d] = x]
    BY <1>1 DEF Due, Row, Retries
  <1> HIDE DEF x
  <1>3. /\ row' \in [Deliveries -> Row \cup {NoRow}] /\ row'[d] = x /\ Exists(d)'
        /\ \A e \in Deliveries \ {d} : row'[e] = row[e] /\ (Exists(e)' <=> Exists(e))
        /\ \A e \in Deliveries : Exists(e) => Exists(e)'
    BY <1>2, RowWritten DEF IInv
  <1>4. first[d].pc \notin {"free", "read", "ok", "failed", "blocked"}
    BY <1>1 DEF IInv, DeliveriesOK, FirstsOK
  <1>5. FirstsOK' /\ CountsOK'
    BY <1>1, <1>2, <1>3, <1>4 DEF IInv, DeliveriesOK, FirstsOK, CountsOK
  <1>6. RunsOK'
    <2>1. strikes' \in [Deliveries -> Nat]
          /\ \A e \in Deliveries : strikes'[e] >= strikes[e]
      BY <1>1, StrikesType DEF IInv
    <2> QED
      BY <1>1, <1>3, <2>1, RunKept DEF IInv, DeliveriesOK, RunsOK
  <1>7. WarningsOK'
    BY <1>1, WarningsKept DEF IInv
  <1> QED
    BY <1>1, <1>3, <1>5, <1>6, <1>7 DEF IInv, TypeOK, DeliveriesOK, answers, warnings

\* One run is written; it holds and works on rows whose first delivery is over.
LEMMA RunWritten ==
    ASSUME IInv, NEW r \in Runs, NEW x \in Run, run' = [run EXCEPT ![r] = x], UNCHANGED first,
           \A h \in x.held : first[h.d].pc = "done",
           x.pc \in Busy => first[x.d].pc = "done",
           strikes' \in [Deliveries -> Nat],
           \A d \in Deliveries : first[d].pc # "done" =>
                row'[d] = row[d] /\ (strikes'[d] >= strikes[d])
    PROVE  /\ run' \in [Runs -> Run] /\ run'[r] = x
           /\ \A q \in Runs \ {r} : run'[q] = run[q]
           /\ FirstsOK'
  <1>1. /\ run' \in [Runs -> Run] /\ run'[r] = x
        /\ \A q \in Runs \ {r} : run'[q] = run[q]
    BY DEF IInv, TypeOK
  <1>2. ASSUME NEW d \in Deliveries
        PROVE  /\ first[d].pc \in {"free", "read"} => ~Exists(d)'
               /\ first[d].pc \in {"ok", "failed", "blocked"}
                       => Exists(d)' /\ row'[d].attempt = 1 /\ row'[d].retry = "none"
    BY DEF Exists, IInv, DeliveriesOK, FirstsOK
  <1>3. ASSUME NEW d \in Deliveries, first[d].pc = "failed" PROVE strikes'[d] > 0
    <2>1. first[d].pc # "done"
      BY <1>3
    <2>2. strikes'[d] >= strikes[d] /\ strikes[d] > 0 /\ strikes[d] \in Nat /\ strikes'[d] \in Nat
      BY <1>3, <2>1, StrikesType DEF IInv, DeliveriesOK, FirstsOK
    <2> QED
      BY <2>2
  <1>4. ASSUME NEW d \in Deliveries, first[d].pc # "done", NEW q \in Runs
        PROVE  /\ \A h \in run'[q].held : h.d # d
               /\ run'[q].pc \in Busy => run'[q].d # d
    BY <1>1, <1>4 DEF IInv, DeliveriesOK, FirstsOK
  <1> QED
    BY <1>1, <1>2, <1>3, <1>4 DEF FirstsOK
\* The rows a run holds, and the one it works on, are past their first delivery.
LEMMA HeldDone ==
    ASSUME IInv, NEW r \in Runs
    PROVE  /\ \A h \in run[r].held : first[h.d].pc = "done" /\ Exists(h.d)
           /\ run[r].pc \in Busy => first[run[r].d].pc = "done" /\ Exists(run[r].d)
  BY RunType DEF IInv, DeliveriesOK, FirstsOK, RunsOK, RunOK

\* A run goes on to its next row.
LEMMA NextRowStep ==
    ASSUME IInv, NEW r \in Runs, NextRow(r), UNCHANGED <<first, strikes, blocked>>,
           \A d \in Deliveries : first[d].pc # "done" => row'[d] = row[d],
           \A d \in Deliveries : Exists(d) => Exists(d)'
    PROVE  /\ run' \in [Runs -> Run] /\ FirstsOK' /\ RunsOK'
  <1> DEFINE x == [IdleRun EXCEPT !.pc = NextOf(r), !.held = run[r].held]
  <1>1. run[r].held \in SUBSET Held
    BY RunType DEF Run, IInv
  <1>2. x \in Run /\ x.pc \notin Busy /\ x.held = run[r].held
    BY <1>1, IdleRunType DEF Run, RunPc, NextOf, Busy, IdleRun, Deliveries
  <1>3. run' = [run EXCEPT ![r] = x]
    BY DEF NextRow
  <1> HIDE DEF x
  <1>4. /\ strikes' \in [Deliveries -> Nat]
        /\ \A d \in Deliveries : strikes'[d] >= strikes[d]
    BY StrikesType DEF IInv
  <1>5. /\ run' \in [Runs -> Run] /\ run'[r] = x
        /\ \A q \in Runs \ {r} : run'[q] = run[q]
        /\ FirstsOK'
    BY <1>2, <1>3, <1>4, HeldDone, RunWritten
  <1>6. RunOK(r)'
    <2>1. \A h \in run[r].held : h.d \in Deliveries
      BY RunType DEF IInv
    <2> QED
      BY <1>2, <1>5, <2>1 DEF IInv, DeliveriesOK, RunsOK, RunOK, Busy
  <1>7. \A q \in Runs \ {r} : RunOK(q)'
    BY <1>4, <1>5, RunKept DEF IInv, DeliveriesOK, RunsOK
  <1> QED
    BY <1>5, <1>6, <1>7 DEF RunsOK

LEMMA SelectStep ==
    ASSUME IInv, NEW r \in Runs, Select(r), UNCHANGED <<first, unrecorded>>
    PROVE  run' \in [Runs -> Run] /\ DeliveriesOK'
  <1>1. PICK S \in SUBSET Pending :
            run' = [run EXCEPT ![r].pc = "agent",
                               ![r].held = {[d |-> d, attempt |-> row[d].attempt] : d \in S}]
    BY DEF Select
  <1>2. UNCHANGED <<row, strikes, blocked>>
    BY StrikesKept DEF Select
  <1> DEFINE held == {[d |-> d, attempt |-> row[d].attempt] : d \in S}
             x == [run[r] EXCEPT !.pc = "agent", !.held = held]
  <1>3. \A d \in S : /\ d \in Deliveries /\ Exists(d) /\ row[d].attempt \in 1 .. MaxAttempts
                     /\ row[d].attempt <= strikes[d] /\ row[d].attempt < MaxAttempts
                     /\ first[d].pc = "done"
    <2>1. ASSUME NEW d \in S
          PROVE  /\ d \in Deliveries /\ Exists(d) /\ row[d].retry = "due"
                 /\ row[d].attempt < MaxAttempts
      BY DEF Pending
    <2>2. ASSUME NEW d \in S PROVE first[d].pc = "done"
      <3>1. first[d].pc \in FirstPc
        BY <2>1, FirstType DEF IInv
      <3> QED
        BY <2>1, <3>1 DEF IInv, DeliveriesOK, FirstsOK, FirstPc
    <2> QED
      BY <2>1, <2>2, RowType DEF IInv, DeliveriesOK, CountsOK
  <1>4. held \in SUBSET Held
    BY <1>3 DEF Held
  <1>5. run[r] \in Run
    BY RunType DEF IInv
  <1>6. x \in Run /\ x.pc = "agent" /\ x.held = held
    BY <1>4, <1>5 DEF Run, RunPc
  <1>7. run' = [run EXCEPT ![r] = x]
    BY <1>1 DEF IInv, TypeOK
  <1>8. \A h \in held : /\ first[h.d].pc = "done" /\ Exists(h.d)
                        /\ h.attempt <= strikes[h.d] /\ h.attempt < MaxAttempts
    BY <1>3
  <1> HIDE DEF x, held
  <1>9. /\ strikes' \in [Deliveries -> Nat]
        /\ \A d \in Deliveries : strikes'[d] >= strikes[d]
    BY <1>2, StrikesType DEF IInv
  <1>10. /\ run' \in [Runs -> Run] /\ run'[r] = x
         /\ \A q \in Runs \ {r} : run'[q] = run[q]
         /\ FirstsOK'
    BY <1>2, <1>6, <1>7, <1>8, <1>9, RunWritten DEF Busy
  <1>11. RunOK(r)'
    BY <1>2, <1>6, <1>8, <1>10 DEF RunOK, Busy, Exists
  <1>12. \A q \in Runs \ {r} : RunOK(q)'
    BY <1>2, <1>9, <1>10, RunKept DEF IInv, DeliveriesOK, RunsOK, Exists
  <1>13. CountsOK'
    BY <1>2 DEF IInv, DeliveriesOK, CountsOK, Exists
  <1> QED
    BY <1>10, <1>11, <1>12, <1>13 DEF DeliveriesOK, RunsOK

LEMMA RetryStep ==
    ASSUME IInv, NEW r \in Runs, Retry(r), UNCHANGED <<first, unrecorded>>
    PROVE  /\ run' \in [Runs -> Run] /\ DeliveriesOK'
           /\ failures' \in [Deliveries -> 0 .. MaxAttempts] /\ blocked' \subseteq Deliveries
  <1>1. PICK h \in run[r].held :
            IF row[h.d].agent \in url
            THEN \E outcome \in ssrfSafeFetch :
                    /\ run' = [run EXCEPT ![r] = [pc |-> outcome, held |-> run[r].held \ {h},
                                                 d |-> h.d, attempt |-> h.attempt]]
                    /\ Posted(h.d, outcome)
            ELSE /\ run' = [run EXCEPT ![r].held = run[r].held \ {h},
                                       ![r].pc = IF run[r].held \ {h} = {} THEN "idle" ELSE "agent"]
                 /\ UNCHANGED <<failures, blocked>>
    BY DEF Retry
  <1>2. UNCHANGED row
    BY DEF Retry
  <1>3. /\ run[r] \in Run /\ run[r].held \in SUBSET Held /\ h.d \in Deliveries
        /\ h.attempt \in 1 .. MaxAttempts
    BY RunType DEF IInv, Run
  <1>4. /\ Exists(h.d) /\ h.attempt <= strikes[h.d] /\ h.attempt < MaxAttempts
        /\ first[h.d].pc = "done"
    BY HeldDone DEF IInv, DeliveriesOK, RunsOK, RunOK
  <1>5. \A g \in run[r].held : /\ first[g.d].pc = "done" /\ Exists(g.d) /\ g.attempt < MaxAttempts
                               /\ g.d \in Deliveries /\ g.attempt \in Nat /\ g.attempt <= strikes[g.d]
    BY RunType, HeldDone DEF IInv, DeliveriesOK, RunsOK, RunOK
  <1>6. CASE row[h.d].agent \in url
    <2>1. PICK outcome \in {"ok", "failed", "blocked"} :
              /\ run' = [run EXCEPT ![r] = [pc |-> outcome, held |-> run[r].held \ {h},
                                           d |-> h.d, attempt |-> h.attempt]]
              /\ Posted(h.d, outcome)
      BY <1>1, <1>6 DEF ssrfSafeFetch, Asked, Refused
    <2> DEFINE x == [pc |-> outcome, held |-> run[r].held \ {h}, d |-> h.d, attempt |-> h.attempt]
    <2>2. x \in Run
      BY <1>3 DEF Run, RunPc
    <2>3. /\ failures' \in [Deliveries -> 0 .. MaxAttempts] /\ blocked' \subseteq Deliveries
          /\ strikes' \in [Deliveries -> Nat]
          /\ \A e \in Deliveries : strikes'[e] >= strikes[e]
          /\ blocked \subseteq blocked'
          /\ outcome = "failed" => h.attempt < strikes'[h.d]
          /\ outcome = "blocked" => h.d \in blocked'
      BY <1>3, <1>4, <2>1, PostedType DEF IInv
    <2>4. /\ run' \in [Runs -> Run] /\ run'[r] = x
          /\ \A q \in Runs \ {r} : run'[q] = run[q]
          /\ FirstsOK'
      BY <1>2, <1>4, <1>5, <2>1, <2>2, <2>3, RunWritten
    <2>5. RunOK(r)'
      <3>1. /\ run'[r].pc = outcome /\ run'[r].held = run[r].held \ {h} /\ run'[r].d = h.d
            /\ run'[r].attempt = h.attempt
        BY <2>4
      <3>2. \A g \in run'[r].held : Exists(g.d)' /\ g.attempt <= strikes'[g.d] /\ g.attempt < MaxAttempts
        <4>1. \A e \in Deliveries : strikes[e] \in Nat /\ strikes'[e] \in Nat
          BY <2>3, StrikesType DEF IInv
        <4> QED
          BY <1>2, <1>5, <2>3, <3>1, <4>1 DEF Exists
      <3>3. run'[r].pc # "clear" /\ Exists(h.d)' /\ h.attempt > 0
        BY <1>2, <1>3, <1>4, <3>1 DEF Exists
      <3>4. h.attempt <= strikes'[h.d]
        <4>1. strikes[h.d] \in Nat /\ strikes'[h.d] \in Nat /\ h.attempt \in Nat
          BY <1>3, <2>3, StrikesType DEF IInv
        <4> QED
          BY <1>3, <1>4, <2>3, <4>1
      <3> QED
        BY <1>4, <2>3, <3>1, <3>2, <3>3, <3>4 DEF RunOK
    <2>6. \A q \in Runs \ {r} : RunOK(q)'
      BY <1>2, <2>3, <2>4, RunKept DEF IInv, DeliveriesOK, RunsOK, Exists
    <2>7. CountsOK'
      <3>1. \A e \in Deliveries : strikes[e] \in Nat /\ strikes'[e] \in Nat
        BY <2>3, StrikesType DEF IInv
      <3>2. \A e \in Deliveries : Exists(e) => row[e].attempt \in Nat
        BY RowType DEF IInv
      <3> QED
        BY <1>2, <2>3, <3>1, <3>2 DEF IInv, DeliveriesOK, CountsOK, Exists
    <2> QED
      BY <2>3, <2>4, <2>5, <2>6, <2>7 DEF DeliveriesOK, RunsOK
  <1>7. CASE row[h.d].agent \notin url
    <2> DEFINE pc == IF run[r].held \ {h} = {} THEN "idle" ELSE "agent"
               x == [run[r] EXCEPT !.held = run[r].held \ {h}, !.pc = pc]
    <2>1. /\ run' = [run EXCEPT ![r].held = run[r].held \ {h}, ![r].pc = pc]
          /\ UNCHANGED <<failures, strikes, blocked>>
      BY <1>1, <1>7, StrikesKept
    <2>2. x \in Run /\ x.held = run[r].held \ {h} /\ x.pc = pc
      BY <1>3 DEF Run, RunPc
    <2>3. run' = [run EXCEPT ![r] = x]
      BY <2>1 DEF IInv, TypeOK
    <2>4. pc \notin Busy
      BY DEF Busy
    <2> HIDE DEF pc, x
    <2>5. /\ failures' \in [Deliveries -> 0 .. MaxAttempts] /\ blocked' \subseteq Deliveries
          /\ strikes' \in [Deliveries -> Nat]
          /\ \A e \in Deliveries : strikes'[e] >= strikes[e]
      BY <2>1, StrikesType DEF IInv, TypeOK
    <2>6. /\ run' \in [Runs -> Run] /\ run'[r] = x
          /\ \A q \in Runs \ {r} : run'[q] = run[q]
          /\ FirstsOK'
      BY <1>2, <1>5, <2>2, <2>3, <2>4, <2>5, RunWritten
    <2>7. RunOK(r)'
      BY <1>2, <1>5, <2>1, <2>2, <2>4, <2>6 DEF RunOK, Busy, Exists
    <2>8. \A q \in Runs \ {r} : RunOK(q)'
      BY <1>2, <2>1, <2>5, <2>6, RunKept DEF IInv, DeliveriesOK, RunsOK, Exists
    <2>9. CountsOK'
      BY <1>2, <2>1 DEF IInv, DeliveriesOK, CountsOK, Exists
    <2> QED
      BY <2>5, <2>6, <2>7, <2>8, <2>9 DEF DeliveriesOK, RunsOK
  <1> QED
    BY <1>6, <1>7
LEMMA RecordOkStep ==
    ASSUME IInv, NEW r \in Runs, RecordOk(r), UNCHANGED <<first, unrecorded>>
    PROVE  /\ run' \in [Runs -> Run] /\ DeliveriesOK'
           /\ row' \in [Deliveries -> Row \cup {NoRow}]
  <1> DEFINE d == run[r].d
             x == [row[d] EXCEPT !.delivered = TRUE]
  <1>1. /\ d \in Deliveries /\ Exists(d) /\ first[d].pc = "done" /\ row[d] \in Row
        /\ NextRow(r) /\ row' = [row EXCEPT ![d] = x] /\ UNCHANGED <<strikes, blocked>>
    BY RunType, HeldDone, RowType, StrikesKept DEF RecordOk, Busy, IInv
  <1>2. x \in Row /\ x.attempt = row[d].attempt /\ x.retry = row[d].retry
    BY <1>1 DEF Row
  <1>3. PICK e \in Deliveries : e = d
    BY <1>1
  <1> HIDE DEF x, d
  <1>4. /\ row' \in [Deliveries -> Row \cup {NoRow}] /\ row'[e] = x /\ Exists(e)'
        /\ \A f \in Deliveries \ {e} : row'[f] = row[f] /\ (Exists(f)' <=> Exists(f))
        /\ \A f \in Deliveries : Exists(f) => Exists(f)'
    BY <1>1, <1>2, <1>3, RowWritten DEF IInv
  <1>5. run' \in [Runs -> Run] /\ FirstsOK' /\ RunsOK'
    BY <1>1, <1>3, <1>4, NextRowStep
  <1>6. CountsOK'
    BY <1>1, <1>2, <1>3, <1>4 DEF IInv, DeliveriesOK, CountsOK
  <1> QED
    BY <1>4, <1>5, <1>6 DEF DeliveriesOK

LEMMA RecordFailureStep ==
    ASSUME IInv, NEW r \in Runs, RecordFailure(r), UNCHANGED <<first, unrecorded>>
    PROVE  /\ run' \in [Runs -> Run] /\ DeliveriesOK'
           /\ row' \in [Deliveries -> Row \cup {NoRow}]
  <1> DEFINE d == run[r].d
             n == run[r].attempt + 1
             retry == IF n < MaxAttempts THEN "later" ELSE "none"
             x == [row[d] EXCEPT !.attempt = n, !.retry = retry]
  <1>1. /\ d \in Deliveries /\ Exists(d) /\ first[d].pc = "done" /\ row[d] \in Row
        /\ run[r].pc = "failed" /\ UNCHANGED <<strikes, blocked>>
        /\ run[r].attempt < MaxAttempts /\ run[r].attempt > 0 /\ run[r].attempt < strikes[d]
        /\ run[r].attempt \in Nat /\ strikes[d] \in Nat /\ run[r] \in Run
    BY RunType, HeldDone, RowType, StrikesType, StrikesKept
       DEF RecordFailure, Busy, IInv, DeliveriesOK, RunsOK, RunOK
  <1>2. n \in 1 .. MaxAttempts /\ n <= strikes[d] /\ retry \in Retries
    BY <1>1 DEF Retries
  <1>3. x \in Row /\ x.attempt = n
    BY <1>1, <1>2 DEF Row
  <1>4. row' = [row EXCEPT ![d] = x]
    BY DEF RecordFailure, NextAttempt, IInv, TypeOK
  <1>5. PICK e \in Deliveries : e = d
    BY <1>1
  <1>6. IF n >= MaxAttempts THEN Move(r, "clear") ELSE NextRow(r)
    BY DEF RecordFailure, NextAttempt
  <1> HIDE DEF x, d, n, retry
  <1>7. /\ row' \in [Deliveries -> Row \cup {NoRow}] /\ row'[e] = x /\ Exists(e)'
        /\ \A f \in Deliveries \ {e} : row'[f] = row[f] /\ (Exists(f)' <=> Exists(f))
        /\ \A f \in Deliveries : Exists(f) => Exists(f)'
    BY <1>3, <1>4, <1>5, RowWritten DEF IInv
  <1>8. CountsOK'
    BY <1>1, <1>2, <1>3, <1>5, <1>7 DEF IInv, DeliveriesOK, CountsOK
  <1>9. CASE NextRow(r)
    <2>1. run' \in [Runs -> Run] /\ FirstsOK' /\ RunsOK'
      BY <1>1, <1>5, <1>7, <1>9, NextRowStep
    <2> QED
      BY <1>7, <1>8, <2>1 DEF DeliveriesOK
  <1>10. CASE n >= MaxAttempts /\ Move(r, "clear")
    <2> DEFINE y == [run[r] EXCEPT !.pc = "clear"]
    <2>1. /\ y \in Run /\ y.pc = "clear" /\ y.held = run[r].held /\ y.d = run[r].d
          /\ y.attempt = run[r].attempt
      BY <1>1 DEF Run, RunPc
    <2>2. run' = [run EXCEPT ![r] = y]
      BY <1>10 DEF Move
    <2> HIDE DEF y
    <2>3. /\ strikes' \in [Deliveries -> Nat]
          /\ \A f \in Deliveries : strikes'[f] >= strikes[f]
      BY <1>1, StrikesType DEF IInv
    <2>4. \A f \in Deliveries : first[f].pc # "done" => row'[f] = row[f] /\ strikes'[f] >= strikes[f]
      BY <1>1, <1>5, <1>7, <2>3
    <2>5. /\ run' \in [Runs -> Run] /\ run'[r] = y
          /\ \A q \in Runs \ {r} : run'[q] = run[q]
          /\ FirstsOK'
      BY <1>1, <2>1, <2>2, <2>3, <2>4, HeldDone, RunWritten DEF d
    <2>6. RunOK(r)'
      <3>1. strikes[d] >= MaxAttempts
        <4>1. n \in Nat
          BY <1>2
        <4> QED
          BY <1>1, <1>2, <1>10, <4>1
      <3>2. \A h \in run[r].held : h.d \in Deliveries
        BY RunType DEF IInv
      <3> QED
        BY <1>1, <1>5, <1>7, <2>1, <2>5, <3>1, <3>2 DEF IInv, DeliveriesOK, RunsOK, RunOK, Busy, d
    <2>7. \A q \in Runs \ {r} : RunOK(q)'
      BY <1>1, <1>7, <2>3, <2>5, RunKept DEF IInv, DeliveriesOK, RunsOK
    <2> QED
      BY <1>7, <1>8, <2>5, <2>6, <2>7 DEF DeliveriesOK, RunsOK
  <1> QED
    BY <1>6, <1>9, <1>10

LEMMA ClearUrlStep ==
    ASSUME IInv, NEW r \in Runs, ClearUrl(r), UNCHANGED <<first, unrecorded>>
    PROVE  run' \in [Runs -> Run] /\ DeliveriesOK' /\ url' \subseteq Agents
  <1>1. NextRow(r) /\ UNCHANGED <<row, strikes, blocked>> /\ url' \subseteq url
    BY StrikesKept DEF ClearUrl
  <1>2. run' \in [Runs -> Run] /\ FirstsOK' /\ RunsOK'
    BY <1>1, NextRowStep DEF Exists
  <1>3. CountsOK'
    BY <1>1 DEF IInv, DeliveriesOK, CountsOK, Exists
  <1> QED
    BY <1>1, <1>2, <1>3 DEF IInv, TypeOK, DeliveriesOK

LEMMA RetryRunStep ==
    ASSUME IInv, NEW r \in Runs, RetryRun(r)
    PROVE  IInv'
  <1>1. UNCHANGED <<first, unrecorded, warnings, patches, faults>>
    BY DEF RetryRun
  <1>2. WarningsOK'
    BY <1>1, WarningsKept DEF IInv
  <1>3. CASE Select(r) \/ Retry(r)
    <2>1. UNCHANGED <<url, row>> /\ (Select(r) => UNCHANGED <<failures, blocked>>)
      BY <1>3 DEF Select, Retry
    <2>2. /\ run' \in [Runs -> Run] /\ DeliveriesOK'
          /\ failures' \in [Deliveries -> 0 .. MaxAttempts] /\ blocked' \subseteq Deliveries
      BY <1>1, <1>3, <2>1, SelectStep, RetryStep DEF IInv, TypeOK
    <2> QED
      BY <1>1, <1>2, <2>1, <2>2 DEF IInv, TypeOK, warnings
  <1>4. CASE RecordOk(r) \/ RecordFailure(r)
    <2>1. UNCHANGED <<url, failures, blocked>>
      BY <1>4 DEF RecordOk, RecordFailure
    <2>2. run' \in [Runs -> Run] /\ DeliveriesOK' /\ row' \in [Deliveries -> Row \cup {NoRow}]
      BY <1>1, <1>4, RecordOkStep, RecordFailureStep
    <2> QED
      BY <1>1, <1>2, <2>1, <2>2 DEF IInv, TypeOK, warnings
  <1>5. CASE ClearUrl(r)
    <2>1. UNCHANGED <<row, failures, blocked>>
      BY <1>5 DEF ClearUrl
    <2>2. run' \in [Runs -> Run] /\ DeliveriesOK' /\ url' \subseteq Agents
      BY <1>1, <1>5, ClearUrlStep
    <2> QED
      BY <1>1, <1>2, <2>1, <2>2 DEF IInv, TypeOK, warnings
  <1> QED
    BY <1>3, <1>4, <1>5 DEF RetryRun

\* A run is written that goes on to failed, or ends, with as many strikes or more.
LEMMA RunMoves ==
    ASSUME IInv, NEW r \in Runs, NEW x \in Run, run' = [run EXCEPT ![r] = x],
           UNCHANGED <<row, first, blocked>>, strikes' \in [Deliveries -> Nat],
           \A d \in Deliveries : strikes'[d] >= strikes[d],
           \/ x = IdleRun
           \/ /\ x.pc = "failed" /\ run[r].pc \in Busy /\ x.held = run[r].held /\ x.d = run[r].d
              /\ x.attempt = run[r].attempt /\ x.attempt < strikes'[x.d]
    PROVE  run' \in [Runs -> Run] /\ DeliveriesOK'
  <1>1. \A h \in x.held : h \in run[r].held
    BY IdleRunType
  <1>2. /\ run' \in [Runs -> Run] /\ run'[r] = x
        /\ \A q \in Runs \ {r} : run'[q] = run[q]
        /\ FirstsOK'
    <2>1. \A h \in x.held : first[h.d].pc = "done"
      BY <1>1, HeldDone
    <2>2. x.pc \in Busy => first[x.d].pc = "done"
      BY IdleRunType, HeldDone DEF Busy
    <2> QED
      BY <2>1, <2>2, RunWritten
  <1>3. \A d \in Deliveries : strikes[d] \in Nat /\ strikes'[d] \in Nat
    BY StrikesType DEF IInv
  <1>4. RunOK(r)'
    <2>1. \A h \in x.held : Exists(h.d)' /\ h.attempt <= strikes'[h.d] /\ h.attempt < MaxAttempts
      <3>1. ASSUME NEW h \in x.held
            PROVE  Exists(h.d) /\ h.attempt <= strikes'[h.d] /\ h.attempt < MaxAttempts
        <4>1. h \in run[r].held /\ h.d \in Deliveries /\ h.attempt \in Nat
          BY <1>1, RunType DEF IInv
        <4>2. Exists(h.d) /\ h.attempt <= strikes[h.d] /\ h.attempt < MaxAttempts
          BY <4>1 DEF IInv, DeliveriesOK, RunsOK, RunOK
        <4> QED
          BY <1>3, <4>1, <4>2
      <3> QED
        BY <3>1 DEF Exists
    <2>2. x.pc \in Busy => /\ Exists(x.d)' /\ x.attempt > 0 /\ x.attempt < MaxAttempts
                           /\ x.pc = "failed" /\ x.attempt < strikes'[x.d]
      BY IdleRunType DEF IInv, DeliveriesOK, RunsOK, RunOK, Exists, Busy
    <2> QED
      BY <1>2, <2>1, <2>2 DEF RunOK, Busy
  <1>5. \A q \in Runs \ {r} : RunOK(q)'
    BY <1>2, RunKept DEF IInv, DeliveriesOK, RunsOK, Exists
  <1>6. CountsOK'
    <2>1. \A e \in Deliveries : Exists(e) => row[e].attempt \in Nat
      BY RowType DEF IInv
    <2> QED
      BY <1>3, <2>1 DEF IInv, DeliveriesOK, CountsOK, Exists
  <1> QED
    BY <1>2, <1>4, <1>5, <1>6 DEF DeliveriesOK, RunsOK

LEMMA RecordLostStep ==
    ASSUME IInv, NEW r \in Runs, RecordLost(r)
    PROVE  IInv'
  <1> DEFINE x == [run[r] EXCEPT !.pc = "failed"]
  <1>1. PICK d \in Deliveries : d = run[r].d
    BY RunType DEF IInv
  <1>2. /\ run[r].pc = "ok" /\ Lost(d) /\ run' = [run EXCEPT ![r] = x]
        /\ UNCHANGED <<url, row, first, failures, blocked, warnings, patches>>
    BY <1>1 DEF RecordLost, Move
  <1>3. /\ unrecorded' \in [Deliveries -> Nat] /\ faults' \in 0 .. MaxFaults
        /\ faults' = faults + 1
        /\ strikes' \in [Deliveries -> Nat]
        /\ \A e \in Deliveries : strikes'[e] >= strikes[e]
        /\ strikes'[d] = strikes[d] + 1
    BY <1>2, LostType DEF IInv
  <1>4. /\ x \in Run /\ x.pc = "failed" /\ x.held = run[r].held /\ x.d = run[r].d
        /\ x.attempt = run[r].attempt
    BY RunType DEF IInv, Run, RunPc
  <1>5. x.attempt < strikes'[x.d]
    <2>1. run[r].attempt \in Nat /\ strikes[d] \in Nat
      BY RunType, StrikesType DEF IInv
    <2>2. run[r].attempt <= strikes[d]
      BY <1>1, <1>2 DEF IInv, DeliveriesOK, RunsOK, RunOK, Busy
    <2> QED
      BY <1>1, <1>3, <1>4, <2>1, <2>2
  <1> HIDE DEF x
  <1>6. run' \in [Runs -> Run] /\ DeliveriesOK'
    BY <1>2, <1>3, <1>4, <1>5, RunMoves DEF Busy
  <1>7. WarningsOK'
    BY <1>2, <1>3, WarningsKept DEF IInv
  <1> QED
    BY <1>2, <1>3, <1>6, <1>7 DEF IInv, TypeOK, warnings

LEMMA RunThrowsStep ==
    ASSUME IInv, NEW r \in Runs, RunThrows(r)
    PROVE  IInv'
  <1>1. /\ run' = [run EXCEPT ![r] = IdleRun] /\ faults' = faults + 1 /\ faults' \in 0 .. MaxFaults
        /\ UNCHANGED <<url, row, first, answers, strikes, blocked, warnings, patches>>
    BY StrikesKept DEF RunThrows, Throws, answers, IInv, TypeOK
  <1>2. /\ strikes' \in [Deliveries -> Nat]
        /\ \A e \in Deliveries : strikes'[e] >= strikes[e]
    BY <1>1, StrikesType DEF IInv
  <1>3. run' \in [Runs -> Run] /\ DeliveriesOK'
    BY <1>1, <1>2, IdleRunType, RunMoves
  <1>4. WarningsOK'
    BY <1>1, WarningsKept DEF IInv
  <1> QED
    BY <1>1, <1>3, <1>4 DEF IInv, TypeOK, warnings, answers

(***************************************************************************)
(* Warnings and crashes                                                    *)
(***************************************************************************)
\* Deliveries do not depend on warnings.
LEMMA DeliveriesKept ==
    ASSUME IInv, UNCHANGED <<row, first, run, answers>>
    PROVE  DeliveriesOK'
  <1>1. UNCHANGED <<row, first, run, strikes, blocked>>
    BY StrikesKept DEF answers
  <1> QED
    BY <1>1 DEF IInv, DeliveriesOK, FirstsOK, CountsOK, RunsOK, RunOK, Exists

LEMMA WarningsType ==
    ASSUME IInv, NEW i \in Items
    PROVE  /\ notices[i] \in Nat /\ reselected[i] \in Nat /\ faults \in Nat
           /\ Cardinality(Senders(i)) \in Nat /\ IsFiniteSet(Senders(i))
           /\ notices[i] + Cardinality(Senders(i)) <= 1 + faults + reselected[i]
           /\ ~item[i].warned /\ (\A w \in WarnRuns : ~InHand(w, i))
                => notices[i] <= faults + reselected[i]
  BY SendersFinite DEF IInv, TypeOK, WarningsOK

LEMMA WarnerType ==
    ASSUME IInv, NEW w \in WarnRuns
    PROVE  warner[w] \in Warner /\ warner[w].selected \subseteq Items /\ warner[w].stamping \subseteq Items
  BY DEF IInv, TypeOK, Warner

LEMMA AgeStep ==
    ASSUME IInv, NEW i \in Items, Age(i)
    PROVE  IInv'
  <1>1. item[i] \in Item /\ ~item[i].warned
    BY DEF Age, IInv, TypeOK
  <1>2. /\ item' = [item EXCEPT ![i] = [item[i] EXCEPT !.near = ~item[i].near]]
        /\ UNCHANGED <<url, row, first, run, answers, warner, notices, reselected, patches, faults>>
    BY DEF Age
  <1>3. /\ item' \in [Items -> Item] /\ item'[i].warned = item[i].warned
        /\ \A j \in Items \ {i} : item'[j] = item[j]
    BY <1>1, <1>2 DEF IInv, TypeOK, Item
  <1>4. TypeOK' /\ DeliveriesOK'
    BY <1>2, <1>3, DeliveriesKept DEF IInv, TypeOK, answers
  <1>5. WarningsOK'
    BY <1>2, <1>3 DEF IInv, WarningsOK, Senders, InHand
  <1> QED
    BY <1>4, <1>5 DEF IInv

\* The invariant of warnings from what a step does to one item at a time.
LEMMA WarnWritten ==
    ASSUME IInv, NEW w \in WarnRuns, NEW x \in Warner, warner' = [warner EXCEPT ![w] = x],
           \A i \in x.stamping, j \in x.stamping : i = j
    PROVE  /\ warner' \in [WarnRuns -> Warner] /\ warner'[w] = x
           /\ \A v \in WarnRuns \ {w} : warner'[v] = warner[v]
           /\ \A v \in WarnRuns, i \in Items, j \in Items :
                i \in warner'[v].stamping /\ j \in warner'[v].stamping => i = j
  BY DEF IInv, TypeOK, WarningsOK

LEMMA WarnSelectStep ==
    ASSUME IInv, NEW w \in WarnRuns, WarnSelect(w), UNCHANGED faults
    PROVE  /\ warner' \in [WarnRuns -> Warner] /\ reselected' \in [Items -> Nat] /\ WarningsOK'
  <1> DEFINE unwarned == {i \in Items : item[i].near /\ ~item[i].warned}
             x == [selected |-> unwarned, stamping |-> {}]
             Had(i) == \E v \in WarnRuns : InHand(v, i)
  <1>1. /\ warner[w] = NoWarner /\ warner' = [warner EXCEPT ![w] = x]
        /\ reselected' = [i \in Items |-> IF i \in unwarned /\ Had(i)
                                          THEN reselected[i] + 1 ELSE reselected[i]]
        /\ UNCHANGED <<item, notices>>
    BY DEF WarnSelect
  <1>2. x \in Warner /\ x.selected = unwarned /\ x.stamping = {}
    BY DEF Warner
  <1>3. warner[w].selected = {} /\ warner[w].stamping = {}
    BY <1>1 DEF NoWarner
  <1>4. reselected' \in [Items -> Nat]
    BY <1>1 DEF IInv, TypeOK
  <1>5. /\ warner' \in [WarnRuns -> Warner] /\ warner'[w] = x
        /\ \A v \in WarnRuns \ {w} : warner'[v] = warner[v]
        /\ \A v \in WarnRuns, i \in Items, j \in Items :
             i \in warner'[v].stamping /\ j \in warner'[v].stamping => i = j
    BY <1>1, <1>2, WarnWritten
  <1>6. \A i \in unwarned : i \in Items /\ ~item[i].warned
    OBVIOUS
  <1> HIDE DEF x, unwarned
  <1>7. ASSUME NEW i \in Items
        PROVE  /\ notices[i] + Cardinality(Senders(i)') <= 1 + faults + reselected'[i]
               /\ ~item[i].warned /\ (\A v \in WarnRuns : ~InHand(v, i)')
                      => notices[i] <= faults + reselected'[i]
    <2>1. CASE i \notin unwarned
      <3>1. Senders(i)' = Senders(i)
        BY <1>2, <1>3, <1>5, <2>1 DEF Senders
      <3>2. (\A v \in WarnRuns : ~InHand(v, i)') => \A v \in WarnRuns : ~InHand(v, i)
        BY <1>3, <1>5 DEF InHand
      <3>3. reselected'[i] = reselected[i]
        BY <1>1, <2>1
      <3> QED
        BY <3>1, <3>2, <3>3, WarningsType
    <2>2. CASE i \in unwarned
      <3>1. InHand(w, i)'
        BY <1>2, <1>5, <2>2 DEF InHand
      <3>2. Senders(i)' = Senders(i) \cup {w} /\ w \notin Senders(i)
        BY <1>2, <1>3, <1>5, <2>2 DEF Senders
      <3>3. Cardinality(Senders(i)') = Cardinality(Senders(i)) + 1
        BY <3>2, WarningsType, FS_AddElement
      <3>4. CASE Had(i)
        <4>1. reselected'[i] = reselected[i] + 1
          BY <1>1, <2>2, <3>4
        <4> QED
          BY <3>1, <3>3, <4>1, WarningsType
      <3>5. CASE ~Had(i)
        <4>1. reselected'[i] = reselected[i]
          BY <1>1, <3>5
        <4>2. Senders(i) = {}
          BY <3>5 DEF Senders, InHand
        <4>3. notices[i] <= faults + reselected[i]
          BY <1>6, <2>2, <3>5, WarningsType
        <4> QED
          BY <3>1, <3>3, <4>1, <4>2, <4>3, FS_EmptySet, WarningsType
      <3> QED
        BY <3>4, <3>5
    <2> QED
      BY <2>1, <2>2
  <1> QED
    BY <1>1, <1>4, <1>5, <1>7 DEF WarningsOK

LEMMA WarnFireStep ==
    ASSUME IInv, NEW w \in WarnRuns, NEW i \in Items, WarnFire(w, i), UNCHANGED faults
    PROVE  /\ warner' \in [WarnRuns -> Warner] /\ notices' \in [Items -> Nat] /\ WarningsOK'
  <1> DEFINE x == [selected |-> warner[w].selected \ {i}, stamping |-> {i}]
  <1>1. /\ i \in warner[w].selected /\ warner[w].stamping = {}
        /\ warner' = [warner EXCEPT ![w] = x]
        /\ notices' = [notices EXCEPT ![i] = notices[i] + 1] /\ UNCHANGED <<item, reselected>>
    BY DEF WarnFire
  <1>2. /\ x \in Warner /\ x.selected = warner[w].selected \ {i} /\ x.stamping = {i}
    BY WarnerType DEF Warner
  <1> HIDE DEF x
  <1>3. /\ warner' \in [WarnRuns -> Warner] /\ warner'[w] = x
        /\ \A v \in WarnRuns \ {w} : warner'[v] = warner[v]
        /\ \A v \in WarnRuns, j \in Items, k \in Items :
             j \in warner'[v].stamping /\ k \in warner'[v].stamping => j = k
    BY <1>1, <1>2, WarnWritten
  <1>4. notices' \in [Items -> Nat] /\ notices'[i] = notices[i] + 1
        /\ \A j \in Items \ {i} : notices'[j] = notices[j]
    BY <1>1 DEF IInv, TypeOK
  <1>5. ASSUME NEW j \in Items
        PROVE  (\E v \in WarnRuns : InHand(v, j)) => \E v \in WarnRuns : InHand(v, j)'
    BY <1>1, <1>2, <1>3 DEF InHand
  <1>6. ASSUME NEW j \in Items
        PROVE  /\ notices'[j] + Cardinality(Senders(j)') <= 1 + faults + reselected[j]
               /\ ~item[j].warned /\ (\A v \in WarnRuns : ~InHand(v, j)')
                      => notices'[j] <= faults + reselected[j]
    <2>1. CASE j = i
      <3>1. InHand(w, i)'
        BY <1>2, <1>3 DEF InHand
      <3>2. Senders(i)' = Senders(i) \ {w} /\ w \in Senders(i)
        BY <1>1, <1>2, <1>3 DEF Senders
      <3>3. Cardinality(Senders(i)') = Cardinality(Senders(i)) - 1
        BY <3>2, WarningsType, FS_RemoveElement
      <3> QED
        BY <1>4, <2>1, <3>1, <3>3, WarningsType
    <2>2. CASE j # i
      <3>1. Senders(j)' = Senders(j)
        BY <1>2, <1>3, <2>2 DEF Senders
      <3> QED
        BY <1>4, <1>5, <2>2, <3>1, WarningsType
    <2> QED
      BY <2>1, <2>2
  <1> QED
    BY <1>1, <1>3, <1>4, <1>6 DEF WarningsOK

LEMMA WarnStampStep ==
    ASSUME IInv, NEW w \in WarnRuns, NEW i \in Items, WarnStamp(w, i), UNCHANGED faults
    PROVE  /\ warner' \in [WarnRuns -> Warner] /\ item' \in [Items -> Item] /\ WarningsOK'
  <1> DEFINE x == [warner[w] EXCEPT !.stamping = {}]
  <1>1. /\ i \in warner[w].stamping
        /\ item' = [item EXCEPT ![i] = [item[i] EXCEPT !.warned = TRUE]]
        /\ warner' = [warner EXCEPT ![w] = x]
        /\ UNCHANGED <<notices, reselected>>
    BY DEF WarnStamp, Stamped
  <1>2. x \in Warner /\ x.selected = warner[w].selected /\ x.stamping = {}
    BY WarnerType DEF Warner
  <1> HIDE DEF x
  <1>3. /\ warner' \in [WarnRuns -> Warner] /\ warner'[w] = x
        /\ \A v \in WarnRuns \ {w} : warner'[v] = warner[v]
        /\ \A v \in WarnRuns, j \in Items, k \in Items :
             j \in warner'[v].stamping /\ k \in warner'[v].stamping => j = k
    BY <1>1, <1>2, WarnWritten
  <1>4. /\ item' \in [Items -> Item] /\ item'[i].warned = TRUE
        /\ \A j \in Items \ {i} : item'[j] = item[j]
    BY <1>1 DEF IInv, TypeOK, Item
  <1>5. \A j \in Items : j # i => j \notin warner[w].stamping
    BY <1>1 DEF IInv, WarningsOK
  <1>6. ASSUME NEW j \in Items
        PROVE  /\ notices[j] + Cardinality(Senders(j)') <= 1 + faults + reselected[j]
               /\ ~item'[j].warned /\ (\A v \in WarnRuns : ~InHand(v, j)')
                      => notices[j] <= faults + reselected[j]
    <2>1. Senders(j)' = Senders(j)
      BY <1>2, <1>3 DEF Senders
    <2>2. j # i /\ (\A v \in WarnRuns : ~InHand(v, j)') => \A v \in WarnRuns : ~InHand(v, j)
      BY <1>2, <1>3, <1>5 DEF InHand
    <2> QED
      BY <1>4, <2>1, <2>2, WarningsType
  <1> QED
    BY <1>1, <1>3, <1>4, <1>6 DEF WarningsOK

LEMMA WarnStep ==
    ASSUME IInv, NEW w \in WarnRuns, Warn(w)
    PROVE  IInv'
  <1>1. UNCHANGED <<url, row, run, answers, patches, faults>>
    BY DEF Warn
  <1>2. /\ first' \in [Deliveries -> First]
        /\ \A d \in Deliveries : \/ first'[d] = first[d]
                                 \/ first[d].pc = "free" /\ first'[d].pc = "read"
    <2>1. UNCHANGED first \/ Fired(Agents)
      BY DEF Warn, WarnSelect, WarnFire, WarnStamp, Stamped
    <2> QED
      BY <2>1, FiredStep DEF IInv, TypeOK
  <1>3. DeliveriesOK'
    BY <1>1, <1>2, StrikesKept, FirstsStart DEF IInv, answers
  <1>4. /\ warner' \in [WarnRuns -> Warner] /\ item' \in [Items -> Item]
        /\ notices' \in [Items -> Nat] /\ reselected' \in [Items -> Nat] /\ WarningsOK'
    <2>1. CASE WarnSelect(w)
      BY <1>1, <2>1, WarnSelectStep DEF WarnSelect, IInv, TypeOK
    <2>2. ASSUME NEW i \in Items, WarnFire(w, i)
          PROVE  /\ warner' \in [WarnRuns -> Warner] /\ item' \in [Items -> Item]
                 /\ notices' \in [Items -> Nat] /\ reselected' \in [Items -> Nat] /\ WarningsOK'
      BY <1>1, <2>2, WarnFireStep DEF WarnFire, IInv, TypeOK
    <2>3. ASSUME NEW i \in Items, WarnStamp(w, i)
          PROVE  /\ warner' \in [WarnRuns -> Warner] /\ item' \in [Items -> Item]
                 /\ notices' \in [Items -> Nat] /\ reselected' \in [Items -> Nat] /\ WarningsOK'
      BY <1>1, <2>3, WarnStampStep DEF WarnStamp, Stamped, IInv, TypeOK
    <2> QED
      BY <2>1, <2>2, <2>3 DEF Warn
  <1> QED
    BY <1>1, <1>2, <1>3, <1>4 DEF IInv, TypeOK, answers

\* Runs that end lose what they had in hand: one more fault makes up for it.
LEMMA RunsEnd ==
    ASSUME IInv, UNCHANGED <<item, notices, reselected>>, faults' = faults + 1,
           \A w \in WarnRuns : warner'[w] = warner[w] \/ warner'[w] = NoWarner
    PROVE  WarningsOK'
  <1>1. ASSUME NEW i \in Items
        PROVE  Senders(i)' \subseteq Senders(i)
    BY DEF Senders, NoWarner
  <1>2. ASSUME NEW i \in Items
        PROVE  /\ notices[i] + Cardinality(Senders(i)') <= 1 + faults' + reselected[i]
               /\ notices[i] <= faults' + reselected[i]
    <2>1. Cardinality(Senders(i)') <= Cardinality(Senders(i)) /\ Cardinality(Senders(i)') \in Nat
      BY <1>1, WarningsType, FS_Subset, FS_CardinalityType
    <2> QED
      BY <2>1, WarningsType
  <1>3. ASSUME NEW w \in WarnRuns, NEW i \in Items, NEW j \in Items,
               i \in warner'[w].stamping, j \in warner'[w].stamping
        PROVE  i = j
    BY <1>3 DEF NoWarner, IInv, WarningsOK
  <1> QED
    BY <1>2, <1>3 DEF WarningsOK

LEMMA WarnThrowsStep ==
    ASSUME IInv, NEW w \in WarnRuns, WarnThrows(w)
    PROVE  IInv'
  <1>1. /\ warner' = [warner EXCEPT ![w] = NoWarner] /\ faults' = faults + 1
        /\ faults' \in 0 .. MaxFaults
        /\ UNCHANGED <<url, row, first, run, answers, item, notices, reselected, patches>>
    BY DEF WarnThrows, Throws, IInv, TypeOK
  <1>2. warner' \in [WarnRuns -> Warner] /\ \A v \in WarnRuns : warner'[v] = warner[v] \/ warner'[v] = NoWarner
    BY <1>1 DEF IInv, TypeOK, Warner, NoWarner
  <1>3. WarningsOK' /\ DeliveriesOK'
    BY <1>1, <1>2, RunsEnd, DeliveriesKept
  <1> QED
    BY <1>1, <1>2, <1>3 DEF IInv, TypeOK, answers

LEMMA CrashStep == IInv /\ Crash => IInv'
  <1> SUFFICES ASSUME IInv, Crash PROVE IInv'
    OBVIOUS
  <1>1. /\ UNCHANGED <<url, row, answers, strikes, blocked, item, notices, reselected, patches>>
        /\ faults' = faults + 1
        /\ faults' \in 0 .. MaxFaults /\ warner' = [w \in WarnRuns |-> NoWarner]
    BY StrikesKept DEF Crash, answers, IInv, TypeOK
  <1>2. ASSUME NEW d \in Deliveries
        PROVE  first'[d] \in First /\ ((first'[d] = first[d] /\ At(d, "free")) \/ first'[d].pc = "done")
    <2>1. [first[d] EXCEPT !.pc = "done"] \in First /\ [first[d] EXCEPT !.pc = "done"].pc = "done"
      BY FirstType DEF IInv, First, FirstPc
    <2> QED
      BY <2>1, FirstType DEF Crash, IInv
  <1>3. first' \in [Deliveries -> First]
    BY <1>2 DEF Crash
  <1>4. run' \in [Runs -> Run] /\ \A r \in Runs : run'[r] = IdleRun
    BY IdleRunType DEF Crash
  <1>5. TypeOK'
    BY <1>1, <1>3, <1>4 DEF IInv, TypeOK, Warner, NoWarner, answers
  <1>6. FirstsOK'
    BY <1>1, <1>2, <1>4, IdleRunType DEF IInv, DeliveriesOK, FirstsOK, Exists, At, Busy
  <1>7. CountsOK' /\ RunsOK'
    BY <1>1, <1>4, IdleRunType DEF IInv, DeliveriesOK, CountsOK, RunsOK, RunOK, Exists, Busy
  <1>8. WarningsOK'
    BY <1>1, RunsEnd
  <1> QED
    BY <1>5, <1>6, <1>7, <1>8 DEF IInv, DeliveriesOK

(***************************************************************************)
(* The theorems                                                            *)
(***************************************************************************)
LEMMA GoesWrongStep == IInv /\ GoesWrong => IInv'
  <1> SUFFICES ASSUME IInv, GoesWrong PROVE IInv'
    OBVIOUS
  <1>1. ASSUME NEW d \in Deliveries, FirstLost(d) \/ FirstThrows(d) PROVE IInv'
    BY <1>1, FirstLostStep, FirstThrowsStep
  <1>2. ASSUME NEW r \in Runs, RecordLost(r) \/ RunThrows(r) PROVE IInv'
    BY <1>2, RecordLostStep, RunThrowsStep
  <1>3. ASSUME NEW w \in WarnRuns, WarnThrows(w) PROVE IInv'
    BY <1>3, WarnThrowsStep
  <1>4. CASE Crash
    BY <1>4, CrashStep
  <1> QED
    BY <1>1, <1>2, <1>3, <1>4 DEF GoesWrong

LEMMA Invariance == IInv /\ [Next]_vars => IInv'
  <1> SUFFICES ASSUME IInv, [Next]_vars PROVE IInv'
    OBVIOUS
  <1>1. CASE UNCHANGED vars
    <2>1. UNCHANGED <<url, row, first, run, answers, strikes, warnings, patches, faults>>
      BY <1>1, StrikesKept DEF vars, answers, warnings
    <2>2. WarningsOK'
      BY <2>1, WarningsKept DEF IInv
    <2>3. DeliveriesOK'
      BY <2>1, DeliveriesKept
    <2>4. TypeOK'
      BY <2>1 DEF answers, warnings, IInv, TypeOK
    <2> QED
      BY <2>2, <2>3, <2>4 DEF IInv
  <1> QED
    BY <1>1, PatchStep, FireStep, DeliverStep, DueStep, RetryRunStep, AgeStep, WarnStep, GoesWrongStep
       DEF Next

LEMMA InvariantHolds == Spec => []IInv
  BY InitInvariant, Invariance, PTL DEF Spec

\* Every variable keeps its type: no row counts more attempts than there may be.
THEOREM TypeCorrect == Spec => []TypeOK
  BY InvariantHolds, PTL DEF IInv

\* A warning goes out again only if a crash or a statement that threw kept its stamp
\* from being written, or if runs overlapped that both had it in hand.
THEOREM WarnedAtMostOnce == Spec => []WarnedOnce
  <1>1. IInv => WarnedOnce
    <2> SUFFICES ASSUME IInv, NEW i \in Items
                 PROVE  notices[i] <= 1 + faults + reselected[i]
      BY DEF WarnedOnce
    <2>1. /\ notices[i] \in Nat /\ reselected[i] \in Nat /\ faults \in Nat
          /\ Cardinality(Senders(i)) \in Nat
      BY SendersFinite DEF IInv, TypeOK
    <2>2. notices[i] + Cardinality(Senders(i)) <= 1 + faults + reselected[i]
      BY DEF IInv, WarningsOK
    <2> QED
      BY <2>1, <2>2
  <1> QED
    BY <1>1, InvariantHolds, PTL

\* However retry runs overlap and whatever they write over, an agent's URL is taken
\* away by its owner or once a delivery to it was refused, or has three strikes:
\* requests that failed, and answers that could not be recorded.
THEOREM StrikesCounted == Spec => ThreeStrikes
  <1> DEFINE Struck(a) == \/ patches' > patches
                          \/ \E d \in Deliveries : /\ Exists(d) /\ row[d].agent = a
                                                   /\ failures[d] + unrecorded[d] >= MaxAttempts \/ d \in blocked
  <1>1. ASSUME IInv, [Next]_vars, NEW a \in url \ url'
        PROVE  Struck(a)
    <2>1. patches \in Nat
      BY <1>1 DEF IInv, TypeOK
    <2>2. CASE \E b \in Agents : Patch(b)
      BY <2>1, <2>2 DEF Patch
    <2>3. ASSUME NEW r \in Runs, ClearUrl(r) PROVE Struck(a)
      <3>1. a = row[run[r].d].agent /\ run[r].pc \in {"clear", "blocked"}
        BY <1>1, <2>3 DEF ClearUrl
      <3>2. run[r].d \in Deliveries /\ Exists(run[r].d)
        BY <1>1, <3>1, RunType, HeldDone DEF IInv, Busy
      <3>3. failures[run[r].d] + unrecorded[run[r].d] >= MaxAttempts \/ run[r].d \in blocked
        BY <1>1, <3>1, <3>2 DEF IInv, DeliveriesOK, RunsOK, RunOK, strikes
      <3> QED
        BY <3>1, <3>2, <3>3
    <2>4. url' # url
      BY <1>1
    <2>5. ASSUME NEW r \in Runs, RetryRun(r) PROVE ClearUrl(r)
      BY <2>4, <2>5 DEF RetryRun, Select, Retry, RecordOk, RecordFailure
    <2>6. ~GoesWrong
      BY <2>4 DEF GoesWrong, FirstLost, FirstThrows, RecordLost, RunThrows, WarnThrows, Crash
    <2>7. \/ \E b \in Agents : Patch(b)
          \/ \E r \in Runs : RetryRun(r)
      BY <1>1, <2>4, <2>6 DEF Next, vars, Fire, Deliver, Due, Age, Warn
    <2> QED
      BY <2>2, <2>3, <2>5, <2>7
  <1>2. IInv /\ [Next]_vars => [\A a \in url \ url' : Struck(a)]_vars
    BY <1>1
  <1> QED
    BY <1>2, InvariantHolds, PTL DEF Spec, ThreeStrikes

-----------------------------------------------------------------------------
(***************************************************************************)
(* The streams, polls and pushes of an A2A task: Streams                   *)
(***************************************************************************)
USE BoundsAssumption

\* The final states that would not be true of the task now, nor excused.
Lies == {s \in Ends : umwStatusToA2A(status) # s /\ s \notin overtaken}

\* No lie is due, about to be written, in a connection, with a caller or with the
\* receiver of pushes.
Honest ==
    /\ \A s \in Announced : due[s] > 0 => s \notin Lies
    /\ \A c \in Clients : stream[c].pc = "write" => stream[c].state \notin Lies
    /\ chan \in [Clients -> Seq(WireItem \ Lies)]
    /\ told \in [Clients -> Seq(TERMINAL_STATES \ Lies)]
    /\ posts \cap Lies = {} /\ heard \cap Lies = {}

\* Only verdicts begin when the task is over.
OnlyVerdictsAfter == \A r \in moving : r.after => r.op \in Verdicts

StreamInv == A2ATypeOK /\ FinalOnce /\ Honest

(***************************************************************************)
(* States, streams and what they carry                                     *)
(***************************************************************************)
LEMMA Reported == ASSUME A2ATypeOK PROVE umwStatusToA2A(status) \in A2ATaskState \ Lies
  BY DEF A2ATypeOK, Statuses, umwStatusToA2A, A2ATaskState, Lies, Ends

LEMMA PlainItems ==
    /\ {"submitted", "error", "eof", "reset"} \subseteq WireItem \ Lies
    /\ Announced \subseteq WireItem /\ TERMINAL_STATES \subseteq A2ATaskState /\ A2ATaskState \subseteq WireItem
  BY DEF WireItem, Lies, Ends, A2ATaskState, Announced, TERMINAL_STATES

LEMMA NoStreamType == NoStream \in StreamRow /\ NoStream.pc = "none"
  BY DEF NoStream, StreamRow, A2ATaskState

LEMMA Reach ==
    /\ \A op \in DOMAIN Becomes : Becomes[op] \in Statuses
    /\ DOMAIN Announces = DOMAIN Becomes
    /\ \A op \in DOMAIN Becomes : Announces[op] \in Ends => Announces[op] = umwStatusToA2A(Becomes[op])
    /\ Verdicts \subseteq DOMAIN Becomes
  BY DEF Becomes, Announces, Statuses, Ends, Verdicts, umwStatusToA2A

LEMMA StatusSteps ==
    ASSUME A2ATypeOK, [A2ANext]_a2aVars
    PROVE  \/ UNCHANGED <<status, overtaken>>
           \/ status \in {"none", "in_progress"} /\ status' \in Statuses /\ UNCHANGED overtaken
           \/ \E r \in moving : Update(r)
  <1>1. CASE TaskMoves
    BY <1>1 DEF TaskMoves, AcceptBid, DeleteTask, CancelByRpc, Submit, SubmitForReview, Decide, Checked,
         ExecutorTimeout, Statuses
  <1>2. CASE ~TaskMoves
    BY <1>2 DEF A2ANext, Connect, Receive, Serve,
         CreateTask, SubscribeRead, WriteInitial, AnswerGet, EndStream, Lifetime, TimedOut, Notify, SetPush,
         DeliverPost, Faults, LosePost, FetchFails, Drop, Restart, taskVars, a2aVars, Statuses
  <1> QED
    BY <1>1, <1>2

\* What was true of the task stays so, or is excused.
LEMMA LiesShrink == ASSUME A2ATypeOK, OnlyVerdictsAfter, [A2ANext]_a2aVars PROVE Lies' \subseteq Lies
  <1>1. \/ UNCHANGED <<status, overtaken>>
        \/ status \in {"none", "in_progress"} /\ status' \in Statuses /\ UNCHANGED overtaken
        \/ \E r \in moving : Update(r)
    BY StatusSteps
  <1>2. CASE UNCHANGED <<status, overtaken>>
    BY <1>2 DEF Lies, Ends, umwStatusToA2A
  <1>3. CASE status \in {"none", "in_progress"} /\ UNCHANGED overtaken
    BY <1>3 DEF Lies, Ends, umwStatusToA2A
  <1>4. ASSUME NEW r \in moving, Update(r) PROVE Lies' \subseteq Lies
    <2> SUFFICES ASSUME NEW s \in Lies' PROVE s \in Lies
      OBVIOUS
    <2>1. s \in Ends /\ s # umwStatusToA2A(status') /\ s \notin overtaken'
      BY DEF Lies, Ends, umwStatusToA2A
    <2>2. status' = Becomes[r.op] /\ overtaken \subseteq overtaken'
      BY <1>4 DEF Update
    <2>3. ASSUME umwStatusToA2A(status) = s PROVE FALSE
      <3>1. Over
        BY <2>1, <2>3 DEF Ends, Over, umwStatusToA2A
      <3>2. Overtakes(r)
        BY <2>1, <2>2, <2>3, <3>1 DEF Overtakes, OnlyVerdictsAfter
      <3> QED
        BY <1>4, <2>1, <2>3, <3>2 DEF Update
    <2> QED
      BY <2>1, <2>2, <2>3 DEF Lies, Ends
  <1> QED
    BY <1>1, <1>2, <1>3, <1>4

\* What was honest stays so.
LEMMA HonestKept ==
    ASSUME StreamInv, Lies' \subseteq Lies
    PROVE  /\ chan \in [Clients -> Seq(WireItem \ Lies')]
           /\ told \in [Clients -> Seq(TERMINAL_STATES \ Lies')]
           /\ posts \cap Lies' = {} /\ heard \cap Lies' = {}
           /\ \A c \in Clients : stream[c].pc = "write" => stream[c].state \notin Lies'
           /\ \A s \in Announced : due[s] > 0 => s \notin Lies'
  <1>1. WireItem \ Lies \subseteq WireItem \ Lies' /\ TERMINAL_STATES \ Lies \subseteq TERMINAL_STATES \ Lies'
    OBVIOUS
  <1>2. ASSUME NEW c \in Clients
        PROVE  chan[c] \in Seq(WireItem \ Lies') /\ told[c] \in Seq(TERMINAL_STATES \ Lies')
    BY <1>1, SeqMonotonic DEF StreamInv, Honest
  <1>3. chan \in [Clients -> Seq(WireItem \ Lies')] /\ told \in [Clients -> Seq(TERMINAL_STATES \ Lies')]
    BY <1>2 DEF StreamInv, Honest
  <1> QED
    BY <1>3 DEF StreamInv, Honest

\* Sequences of one more item, and those it was made of.
LEMMA OneItem == ASSUME NEW S, NEW x \in S PROVE <<x>> \in Seq(S)
  OBVIOUS

LEMMA SentItems ==
    ASSUME NEW S, chan \in [Clients -> Seq(S)], NEW c \in Clients, NEW x \in S
    PROVE  Sent(c, <<x>>) \in [Clients -> Seq(S)]
  <1>1. chan[c] \in Seq(S) /\ <<x>> \in Seq(S)
    BY OneItem
  <1>2. chan[c] \o <<x>> \in Seq(S)
    BY <1>1, ConcatProperties
  <1> QED
    BY <1>1, <1>2 DEF Sent

(***************************************************************************)
(* The task moves                                                          *)
(***************************************************************************)
\* A handler that has passed its check.
LEMMA CheckedStep ==
    ASSUME StreamInv, Lies' \subseteq Lies, NEW op \in DOMAIN Becomes, NEW u \in Submissions \cup {NoSub},
           Checked(op, u)
    PROVE  StreamInv'
  <1>1. overlaps' \in 0 .. MaxOverlaps /\ reopens' \in 0 .. MaxReopens
    BY DEF Checked, StreamInv, A2ATypeOK
  <1> DEFINE r == [op |-> op, sub |-> u, after |-> Over, id |-> overlaps']
  <1>2. r \in TaskMove
    BY <1>1 DEF TaskMove, Over
  <1>3. moving' = moving \cup {r} 
    BY DEF Checked
  <1> HIDE DEF r
  <1>4. A2ATypeOK'
    BY <1>1, <1>2, <1>3 DEF StreamInv, A2ATypeOK, Checked, streamVars, pushVars
  <1>5. FinalOnce'
    BY DEF StreamInv, FinalOnce, Checked, streamVars
  <1>6. Honest'
    BY HonestKept DEF Honest, Checked, streamVars, pushVars
  <1> QED
    BY <1>4, <1>5, <1>6 DEF StreamInv

LEMMA UpdateStep ==
    ASSUME StreamInv, Lies' \subseteq Lies, NEW r \in moving, Update(r) PROVE StreamInv'
  <1>1. r \in TaskMove /\ r.op \in DOMAIN Becomes
    BY DEF StreamInv, A2ATypeOK, TaskMove
  <1>2. status' \in Statuses
    BY <1>1, Reach DEF Update
  <1>3. overtaken' \subseteq Ends
    <2>1. Over => umwStatusToA2A(status) \in Ends
      BY DEF Over, umwStatusToA2A, Ends
    <2> QED
      BY <2>1 DEF Update, Overtakes, StreamInv, A2ATypeOK
  <1>4. submission' \in [Submissions -> {"none", "validating", "decided"}]
    BY DEF Update, StreamInv, A2ATypeOK
  <1>5. due' \in [Announced -> Nat]
    BY DEF Update, StreamInv, A2ATypeOK
  <1>6. A2ATypeOK'
    BY <1>2, <1>3, <1>4, <1>5 DEF StreamInv, A2ATypeOK, Update, streamVars, pushVars
  <1>7. FinalOnce'
    BY DEF StreamInv, FinalOnce, Update, streamVars
  <1>8. \A s \in Announced : due'[s] > 0 => s \notin Lies'
    <2> TAKE s \in Announced
    <2>1. CASE s = Announces[r.op]
      <3>1. s \in Ends => s = umwStatusToA2A(status')
        BY <1>1, <2>1, Reach DEF Update
      <3> QED
        BY <3>1 DEF Lies, Ends, umwStatusToA2A
    <2>2. CASE s # Announces[r.op]
      BY <2>2, HonestKept DEF Update
    <2> QED
      BY <2>1, <2>2
  <1>9. Honest'
    BY <1>8, HonestKept DEF Honest, Update, streamVars, pushVars
  <1> QED
    BY <1>6, <1>7, <1>9 DEF StreamInv

LEMMA TimeoutStep == ASSUME StreamInv, Lies' \subseteq Lies, ExecutorTimeout PROVE StreamInv'
  <1>1. A2ATypeOK'
    BY DEF StreamInv, A2ATypeOK, ExecutorTimeout, streamVars, pushVars, Statuses
  <1>2. FinalOnce'
    BY DEF StreamInv, FinalOnce, ExecutorTimeout, streamVars
  <1>3. Honest'
    BY HonestKept DEF Honest, ExecutorTimeout, streamVars, pushVars
  <1> QED
    BY <1>1, <1>2, <1>3 DEF StreamInv

LEMMA TaskMovesStep == ASSUME StreamInv, Lies' \subseteq Lies, TaskMoves PROVE StreamInv'
  <1>1. /\ {"accept", "delete", "rpc", "submit", "review", "approve", "reject"} \subseteq DOMAIN Becomes
        /\ NoSub \in Submissions \cup {NoSub}
    BY DEF Becomes
  <1>2. CASE AcceptBid
    BY <1>1, <1>2, CheckedStep DEF AcceptBid
  <1>3. CASE DeleteTask
    BY <1>1, <1>3, CheckedStep DEF DeleteTask
  <1>4. CASE CancelByRpc
    BY <1>1, <1>4, CheckedStep DEF CancelByRpc
  <1>5. CASE Submit
    BY <1>1, <1>5, CheckedStep DEF Submit
  <1>6. CASE \E u \in Submissions : SubmitForReview(u)
    <2>1. PICK u \in Submissions : SubmitForReview(u)
      BY <1>6
    <2> QED
      BY <1>1, <2>1, CheckedStep DEF SubmitForReview
  <1>7. CASE \E u \in Submissions, op \in Verdicts : Decide(u, op)
    <2>1. PICK u \in Submissions, op \in Verdicts : Decide(u, op)
      BY <1>7
    <2> QED
      BY <2>1, Reach, CheckedStep DEF Decide
  <1> QED
    BY <1>2, <1>3, <1>4, <1>5, <1>6, <1>7, UpdateStep, TimeoutStep DEF TaskMoves

(***************************************************************************)
(* The clients                                                             *)
(***************************************************************************)
LEMMA AfterLossPc == \A c \in Clients : AfterLoss(c) \in ClientPc /\ AfterLoss(c) # "resolved"
  BY DEF AfterLoss, ClientPc

LEMMA ConnectStep ==
    ASSUME StreamInv, Lies' \subseteq Lies, NEW c \in Clients, Connect(c) PROVE StreamInv'
  <1>1. "reading" \in ClientPc /\ client[c] # "resolved"
    BY DEF ClientPc, Connect, CanFetch
  <1> DEFINE r == [NoStream EXCEPT !.pc = Handler(c)]
  <1>2. r \in StreamRow /\ r.pc # "write"
    BY DEF NoStream, StreamRow, A2ATaskState, Handler
  <1>3. \A S : <<>> \in Seq(S)
    OBVIOUS
  <1>4. A2ATypeOK'
    BY <1>1, <1>2, <1>3 DEF StreamInv, A2ATypeOK, Connect, taskVars, pushVars
  <1>5. FinalOnce'
    BY <1>1 DEF StreamInv, FinalOnce, A2ATypeOK, Connect
  <1>6. chan' \in [Clients -> Seq(WireItem \ Lies')]
    BY <1>3, HonestKept DEF Connect
  <1>7. \A d \in Clients : stream'[d].pc = "write" => stream'[d].state \notin Lies'
    <2> HIDE DEF r
    <2>1. stream' = [stream EXCEPT ![c] = r] /\ stream \in [Clients -> StreamRow]
      BY DEF Connect, StreamInv, A2ATypeOK, r
    <2> QED
      BY <1>2, <2>1, HonestKept
  <1>8. Honest'
    BY <1>6, <1>7, HonestKept DEF Honest, Connect, taskVars, pushVars
  <1> QED
    BY <1>4, <1>5, <1>8 DEF StreamInv

LEMMA FetchFailsStep ==
    ASSUME StreamInv, Lies' \subseteq Lies, NEW c \in Clients, FetchFails(c) PROVE StreamInv'
  <1>1. client[c] # "resolved" /\ breaks' \in 0 .. MaxBreaks
    BY DEF StreamInv, FetchFails, CanFetch, A2ATypeOK
  <1>2. A2ATypeOK'
    BY <1>1, AfterLossPc DEF StreamInv, A2ATypeOK, FetchFails, taskVars, pushVars
  <1>3. FinalOnce'
    BY <1>1, AfterLossPc DEF StreamInv, FinalOnce, A2ATypeOK, FetchFails
  <1>4. Honest'
    BY HonestKept DEF Honest, FetchFails, taskVars, pushVars
  <1> QED
    BY <1>2, <1>3, <1>4 DEF StreamInv

\* A client leaves a connection that has not told it the end.
LEMMA LeavesStep ==
    ASSUME StreamInv, Lies' \subseteq Lies, NEW c \in Clients, NEW pc \in ClientPc, Leaves(c, pc)
    PROVE  /\ client' \in [Clients -> ClientPc] /\ client' = [client EXCEPT ![c] = pc]
           /\ chan' \in [Clients -> Seq(WireItem)] /\ chan' \in [Clients -> Seq(WireItem \ Lies')]
           /\ stream' \in [Clients -> StreamRow]
           /\ \A d \in Clients : stream'[d].pc = "write" => stream'[d].state \notin Lies'
  <1>1. \A S : <<>> \in Seq(S)
    OBVIOUS
  <1>2. stream \in [Clients -> StreamRow] /\ stream' = [stream EXCEPT ![c].closed = TRUE]
    BY DEF Leaves, StreamInv, A2ATypeOK
  <1>3. stream' \in [Clients -> StreamRow]
    BY <1>2 DEF StreamRow
  <1>4. \A d \in Clients : stream'[d].pc = stream[d].pc /\ stream'[d].state = stream[d].state
    BY <1>2 DEF StreamRow
  <1> QED
    BY <1>1, <1>3, <1>4, HonestKept DEF Leaves, StreamInv, A2ATypeOK

LEMMA ReceiveStep ==
    ASSUME StreamInv, Lies' \subseteq Lies, NEW c \in Clients, Receive(c) PROVE StreamInv'
  <1> DEFINE head == Head(chan[c])
  <1>1. /\ client[c] \in {"reading", "following"} /\ chan[c] # <<>>
        /\ chan[c] \in Seq(WireItem) /\ chan[c] \in Seq(WireItem \ Lies')
        /\ UNCHANGED <<status, submission, moving, overlaps, overtaken, reopens, due, push, posts, heard, breaks>>
    BY HonestKept DEF Receive, taskVars, pushVars, StreamInv, A2ATypeOK
  <1>2. head \in WireItem \ Lies' /\ Tail(chan[c]) \in Seq(WireItem) /\ Tail(chan[c]) \in Seq(WireItem \ Lies')
    BY <1>1, HeadTailProperties
  <1>3. told[c] = <<>>
    BY <1>1 DEF StreamInv, FinalOnce
  <1>4. \A d \in Clients : Len(told[d]) <= 1 /\ (told[d] # <<>> => client[d] = "resolved")
    BY DEF StreamInv, FinalOnce
  <1> HIDE DEF head
  <1>5. CASE head \in TERMINAL_STATES /\ Final(c, head)
    <2>1. "resolved" \in ClientPc
      BY DEF ClientPc
    <2>2. Leaves(c, "resolved") /\ told' = [told EXCEPT ![c] = Append(<<>>, head)]
      BY <1>3, <1>5 DEF Final
    <2>3. Append(<<>>, head) = <<head>>
      OBVIOUS
    <2>4. <<head>> \in Seq(TERMINAL_STATES) /\ <<head>> \in Seq(TERMINAL_STATES \ Lies') /\ Len(<<head>>) = 1
      BY <1>2, <1>5, OneItem
    <2>5. told' \in [Clients -> Seq(TERMINAL_STATES)] /\ told' \in [Clients -> Seq(TERMINAL_STATES \ Lies')]
      BY <2>2, <2>3, <2>4, HonestKept DEF StreamInv, A2ATypeOK
    <2>6. A2ATypeOK'
      BY <1>1, <2>1, <2>2, <2>5, LeavesStep DEF StreamInv, A2ATypeOK
    <2>7. client' = [client EXCEPT ![c] = "resolved"] /\ client \in [Clients -> ClientPc]
      BY <2>1, <2>2, LeavesStep DEF StreamInv, A2ATypeOK
    <2>8. \A d \in Clients : Len(told'[d]) <= 1 /\ (told'[d] # <<>> => client'[d] = "resolved")
      <3> TAKE d \in Clients
      <3>1. CASE d = c
        <4>1. told'[d] = <<head>> /\ client'[d] = "resolved"
          BY <2>2, <2>3, <2>7, <3>1 DEF StreamInv, A2ATypeOK
        <4> QED
          BY <2>4, <4>1
      <3>2. CASE d # c
        BY <1>4, <2>2, <2>7, <3>2 DEF StreamInv, A2ATypeOK
      <3> QED
        BY <3>1, <3>2
    <2>9. Honest'
      BY <1>1, <2>1, <2>2, <2>5, LeavesStep, HonestKept DEF Honest
    <2> QED
      BY <2>6, <2>8, <2>9 DEF StreamInv, FinalOnce
  <1>6. CASE head \in A2ATaskState \ TERMINAL_STATES /\ NotFinal(c)
    <2>1. {"waiting", "following"} \subseteq ClientPc
      BY DEF ClientPc
    <2>2. A2ATypeOK'
      BY <1>1, <1>2, <1>6, <2>1 DEF NotFinal, StreamInv, A2ATypeOK
    <2>3. FinalOnce'
      BY <1>3, <1>4, <1>6 DEF NotFinal, StreamInv, A2ATypeOK, FinalOnce
    <2>4. chan' \in [Clients -> Seq(WireItem \ Lies')]
      BY <1>2, <1>6, HonestKept DEF NotFinal
    <2>5. Honest'
      BY <1>1, <1>6, <2>4, HonestKept DEF NotFinal, Honest
    <2> QED
      BY <2>2, <2>3, <2>5 DEF StreamInv
  <1>7. ASSUME NEW pc \in ClientPc, Leaves(c, pc), UNCHANGED told PROVE StreamInv'
    <2>1. /\ client' \in [Clients -> ClientPc] /\ client' = [client EXCEPT ![c] = pc]
          /\ chan' \in [Clients -> Seq(WireItem)] /\ chan' \in [Clients -> Seq(WireItem \ Lies')]
          /\ stream' \in [Clients -> StreamRow]
          /\ \A d \in Clients : stream'[d].pc = "write" => stream'[d].state \notin Lies'
      BY <1>7, LeavesStep
    <2>2. A2ATypeOK'
      BY <1>1, <1>7, <2>1 DEF StreamInv, A2ATypeOK
    <2>3. \A d \in Clients : Len(told[d]) <= 1 /\ (told[d] # <<>> => client'[d] = "resolved")
      BY <1>3, <1>4, <2>1 DEF StreamInv, A2ATypeOK
    <2>4. Honest'
      BY <1>1, <1>7, <2>1, HonestKept DEF Honest
    <2> QED
      BY <1>7, <2>2, <2>3, <2>4 DEF StreamInv, FinalOnce
  <1>8. {"resolved", "rejected", AfterLoss(c)} \subseteq ClientPc
    BY AfterLossPc DEF ClientPc
  <1>9. CASE head = "eof" /\ Ended(c)
    BY <1>7, <1>8, <1>9 DEF Ended
  <1>10. CASE head = "reset" /\ Leaves(c, AfterLoss(c)) /\ UNCHANGED told
    BY <1>7, <1>8, <1>10
  <1>11. CASE head = "error" /\ Leaves(c, "rejected") /\ UNCHANGED told
    BY <1>7, <1>8, <1>11
  <1> QED
    BY <1>5, <1>6, <1>9, <1>10, <1>11 DEF Receive, head

(***************************************************************************)
(* The server                                                              *)
(***************************************************************************)
\* One stream that becomes another, with nothing or an honest item written to it.
LEMMA ServedStep ==
    ASSUME StreamInv, Lies' \subseteq Lies, NEW c \in Clients, NEW r \in StreamRow,
           r.pc = "write" => r.state \notin Lies',
           stream' = [stream EXCEPT ![c] = r],
           UNCHANGED chan \/ \E x \in WireItem \ Lies' : chan' = Sent(c, <<x>>),
           status' \in Statuses,
           UNCHANGED <<submission, moving, overlaps, overtaken, reopens, due, client, told, push, posts, heard, breaks>>
    PROVE  StreamInv'
  <1>0. ASSUME NEW S, chan \in [Clients -> Seq(S)], WireItem \ Lies' \subseteq S
        PROVE  chan' \in [Clients -> Seq(S)]
    <2>1. CASE UNCHANGED chan
      BY <1>0, <2>1
    <2>2. CASE \E x \in WireItem \ Lies' : chan' = Sent(c, <<x>>)
      <3>1. PICK x \in WireItem \ Lies' : chan' = Sent(c, <<x>>)
        BY <2>2
      <3>2. x \in S
        BY <1>0, <3>1
      <3> QED
        BY <1>0, <3>1, <3>2, SentItems
    <2> QED
      BY <2>1, <2>2
  <1>1. chan' \in [Clients -> Seq(WireItem \ Lies')]
    <2>1. chan \in [Clients -> Seq(WireItem \ Lies')]
      BY HonestKept
    <2> QED
      BY <1>0, <2>1
  <1>2. chan' \in [Clients -> Seq(WireItem)]
    <2>1. chan \in [Clients -> Seq(WireItem)] /\ WireItem \ Lies' \subseteq WireItem
      BY DEF StreamInv, A2ATypeOK
    <2> QED
      BY <1>0, <2>1
  <1>3. A2ATypeOK'
    BY <1>2 DEF StreamInv, A2ATypeOK
  <1>4. FinalOnce'
    BY DEF StreamInv, FinalOnce
  <1>5. \A d \in Clients : stream'[d].pc = "write" => stream'[d].state \notin Lies'
    BY HonestKept DEF StreamInv, A2ATypeOK
  <1>6. Honest'
    BY <1>1, <1>5, HonestKept DEF Honest
  <1> QED
    BY <1>3, <1>4, <1>6 DEF StreamInv

Pcs == {"none", "create", "read", "get", "write", "listen", "ending", "closing"}

LEMMA StreamWritten ==
    ASSUME A2ATypeOK, NEW c \in Clients, NEW pc \in Pcs
    PROVE  /\ [stream[c] EXCEPT !.pc = pc] \in StreamRow
           /\ [stream[c] EXCEPT !.pc = pc].pc = pc
           /\ [stream EXCEPT ![c].pc = pc] = [stream EXCEPT ![c] = [stream[c] EXCEPT !.pc = pc]]
  BY DEF A2ATypeOK, StreamRow, Pcs

LEMMA StreamStarts ==
    ASSUME A2ATypeOK, NEW c \in Clients, NEW s \in A2ATaskState
    PROVE  /\ [stream[c] EXCEPT !.pc = "write", !.state = s] \in StreamRow
           /\ [stream[c] EXCEPT !.pc = "write", !.state = s].state = s
           /\ [stream EXCEPT ![c].pc = "write", ![c].state = s]
                 = [stream EXCEPT ![c] = [stream[c] EXCEPT !.pc = "write", !.state = s]]
  BY DEF A2ATypeOK, StreamRow

LEMMA CreateTaskStep ==
    ASSUME StreamInv, Lies' \subseteq Lies, NEW c \in Clients, CreateTask(c) PROVE StreamInv'
  <1>0. A2ATypeOK
    BY DEF StreamInv
  <1>1. /\ UNCHANGED <<submission, moving, overlaps, overtaken, reopens, due, client, told, push, posts, heard, breaks>> /\ A2ATypeOK
        /\ status' \in Statuses
    BY DEF CreateTask, pushVars, StreamInv, A2ATypeOK, Statuses
  <1>2. "submitted" \in A2ATaskState /\ "submitted" \notin Lies' /\ "error" \in WireItem \ Lies'
    BY DEF A2ATaskState, Lies, Ends, WireItem
  <1>3. CASE stream' = [stream EXCEPT ![c].pc = "write", ![c].state = "submitted"] /\ UNCHANGED chan
    <2> DEFINE r == [stream[c] EXCEPT !.pc = "write", !.state = "submitted"]
    <2>0. "submitted" \in A2ATaskState
      BY <1>2
    <2>1. /\ r \in StreamRow /\ r.state = "submitted"
          /\ [stream EXCEPT ![c].pc = "write", ![c].state = "submitted"] = [stream EXCEPT ![c] = r]
      BY <1>0, <2>0, StreamStarts, ZenonT(20)
    <2> HIDE DEF r
    <2>2. stream' = [stream EXCEPT ![c] = r]
      BY <1>3, <2>1, Zenon
    <2> QED
      BY <1>1, <1>2, <1>3, <2>1, <2>2, ServedStep
  <1>4. CASE stream' = [stream EXCEPT ![c].pc = "closing"] /\ chan' = Sent(c, <<"error">>)
    <2> DEFINE r == [stream[c] EXCEPT !.pc = "closing"]
    <2>1. r \in StreamRow /\ r.pc = "closing" /\ stream' = [stream EXCEPT ![c] = r]
      BY <1>1, <1>4, StreamWritten DEF Pcs
    <2> HIDE DEF r
    <2> QED
      BY <1>1, <1>2, <1>4, <2>1, ServedStep
  <1> QED
    BY <1>3, <1>4 DEF CreateTask

LEMMA SubscribeReadStep ==
    ASSUME StreamInv, Lies' \subseteq Lies, NEW c \in Clients, SubscribeRead(c) PROVE StreamInv'
  <1>0. A2ATypeOK
    BY DEF StreamInv
  <1>1. /\ UNCHANGED <<status, submission, moving, overlaps, overtaken, reopens, due, client, told, push, posts, heard, breaks>> /\ A2ATypeOK
        /\ status' \in Statuses
    BY DEF SubscribeRead, taskVars, pushVars, StreamInv, A2ATypeOK
  <1>2. "error" \in WireItem \ Lies'
    BY DEF Lies, Ends, WireItem
  <1>3. CASE stream' = [stream EXCEPT ![c].pc = "write", ![c].state = umwStatusToA2A(status)]
                /\ UNCHANGED chan
    <2> DEFINE s == umwStatusToA2A(status)
               r == [stream[c] EXCEPT !.pc = "write", !.state = s]
    <2>1. s \in A2ATaskState /\ s \notin Lies'
      BY <1>1, Reported
    <2>0. stream' = [stream EXCEPT ![c].pc = "write", ![c].state = s]
      BY <1>3
    <2>2. r \in StreamRow /\ r.state = s /\ stream' = [stream EXCEPT ![c] = r]
      <3> HIDE DEF s
      <3>1. /\ r \in StreamRow /\ r.state = s
            /\ [stream EXCEPT ![c].pc = "write", ![c].state = s] = [stream EXCEPT ![c] = r]
        BY <1>0, <2>1, StreamStarts, ZenonT(20)
      <3> HIDE DEF r
      <3> QED
        BY <2>0, <3>1, Zenon
    <2> HIDE DEF r, s
    <2> QED
      BY <1>1, <1>3, <2>1, <2>2, ServedStep
  <1>4. CASE stream' = [stream EXCEPT ![c].pc = "closing"] /\ chan' = Sent(c, <<"error">>)
    <2> DEFINE r == [stream[c] EXCEPT !.pc = "closing"]
    <2>1. r \in StreamRow /\ r.pc = "closing" /\ stream' = [stream EXCEPT ![c] = r]
      BY <1>1, <1>4, StreamWritten DEF Pcs
    <2> HIDE DEF r
    <2> QED
      BY <1>1, <1>2, <1>4, <2>1, ServedStep
  <1> QED
    BY <1>3, <1>4 DEF SubscribeRead

LEMMA WriteInitialStep ==
    ASSUME StreamInv, Lies' \subseteq Lies, NEW c \in Clients, WriteInitial(c) PROVE StreamInv'
  <1>1. /\ UNCHANGED <<status, submission, moving, overlaps, overtaken, reopens, due, client, told, push, posts, heard, breaks>> /\ A2ATypeOK
        /\ status' \in Statuses
    BY DEF WriteInitial, taskVars, pushVars, StreamInv, A2ATypeOK
  <1>2. stream[c].state \in WireItem \ Lies'
    BY <1>1, HonestKept, PlainItems DEF WriteInitial, A2ATypeOK, StreamRow
  <1> DEFINE pc == IF stream[c].state \in TERMINAL_STATES THEN "closing" ELSE "listen"
             r == [stream[c] EXCEPT !.pc = pc]
  <1>3. r \in StreamRow /\ r.pc = pc /\ stream' = [stream EXCEPT ![c] = r]
    <2>1. pc \in {"closing", "listen"} /\ stream' = [stream EXCEPT ![c].pc = pc]
      BY DEF WriteInitial
    <2> HIDE DEF pc
    <2> QED
      BY <1>1, <2>1, StreamWritten DEF Pcs
  <1>4. pc # "write" /\ chan' = Sent(c, <<stream[c].state>>)
    BY DEF WriteInitial
  <1> HIDE DEF r, pc
  <1> QED
    BY <1>1, <1>2, <1>3, <1>4, ServedStep

LEMMA AnswerGetStep ==
    ASSUME StreamInv, Lies' \subseteq Lies, NEW c \in Clients, AnswerGet(c) PROVE StreamInv'
  <1>1. /\ UNCHANGED <<status, submission, moving, overlaps, overtaken, reopens, due, client, told, push, posts, heard, breaks>> /\ A2ATypeOK
        /\ status' \in Statuses /\ stream' = [stream EXCEPT ![c] = NoStream]
    BY DEF AnswerGet, taskVars, pushVars, StreamInv, A2ATypeOK
  <1> DEFINE x == IF status = "none" THEN "error" ELSE umwStatusToA2A(status)
  <1>2. x \in WireItem \ Lies'
    BY <1>1, Reported, PlainItems
  <1>3. chan' = Sent(c, <<x>>)
    BY DEF AnswerGet
  <1> HIDE DEF x
  <1> QED
    BY <1>1, <1>2, <1>3, NoStreamType, ServedStep

LEMMA EndStreamStep ==
    ASSUME StreamInv, Lies' \subseteq Lies, NEW c \in Clients, EndStream(c) PROVE StreamInv'
  <1>1. /\ UNCHANGED <<status, submission, moving, overlaps, overtaken, reopens, due, client, told, push, posts, heard, breaks>>
        /\ status' \in Statuses /\ stream' = [stream EXCEPT ![c] = NoStream]
        /\ chan' = Sent(c, <<"eof">>)
    BY DEF EndStream, taskVars, pushVars, StreamInv, A2ATypeOK
  <1>2. "eof" \in WireItem \ Lies'
    BY DEF Lies, Ends, WireItem
  <1> QED
    BY <1>1, <1>2, NoStreamType, ServedStep

LEMMA LifetimeStep ==
    ASSUME StreamInv, Lies' \subseteq Lies, NEW c \in Clients, Lifetime(c) PROVE StreamInv'
  <1>1. /\ UNCHANGED <<status, submission, moving, overlaps, overtaken, reopens, due, chan, client, told, push, posts, heard, breaks>> /\ A2ATypeOK
        /\ status' \in Statuses /\ stream' = [stream EXCEPT ![c].pc = "ending"]
    BY DEF Lifetime, TimedOut, taskVars, pushVars, StreamInv, A2ATypeOK
  <1> DEFINE r == [stream[c] EXCEPT !.pc = "ending"]
  <1>2. r \in StreamRow /\ r.pc = "ending" /\ stream' = [stream EXCEPT ![c] = r]
    BY <1>1, StreamWritten DEF Pcs
  <1> HIDE DEF r
  <1> QED
    BY <1>1, <1>2, ServedStep

LEMMA NotifyStep ==
    ASSUME StreamInv, Lies' \subseteq Lies, NEW s \in Announced, Notify(s) PROVE StreamInv'
  <1>1. s \in WireItem \ Lies' /\ due[s] \in Nat /\ due[s] > 0
    BY HonestKept, PlainItems DEF Notify, StreamInv, A2ATypeOK
  <1>2. due' \in [Announced -> Nat] /\ \A t \in Announced : due'[t] > 0 => due[t] > 0
    BY <1>1 DEF Notify, StreamInv, A2ATypeOK
  <1>3. ASSUME NEW S, chan \in [Clients -> Seq(S)], s \in S PROVE chan' \in [Clients -> Seq(S)]
    BY <1>3 DEF Notify
  <1>4. chan' \in [Clients -> Seq(WireItem)] /\ chan' \in [Clients -> Seq(WireItem \ Lies')]
    BY <1>1, <1>3, HonestKept DEF StreamInv, A2ATypeOK
  <1>5. ASSUME NEW c \in Clients
        PROVE  stream'[c] \in StreamRow /\ (stream'[c].pc = "write" => stream'[c] = stream[c])
    BY DEF Notify, AfterEvent, Listening, StreamInv, A2ATypeOK, StreamRow
  <1>6. stream' = [c \in Clients |-> stream'[c]]
    BY DEF Notify
  <1>7. stream' \in [Clients -> StreamRow]
    BY <1>5, <1>6
  <1>8. posts' \subseteq Ends /\ posts' \cap Lies' = {}
    BY <1>1, HonestKept DEF Notify, StreamInv, A2ATypeOK
  <1>9. A2ATypeOK'
    BY <1>2, <1>4, <1>7, <1>8 DEF Notify, StreamInv, A2ATypeOK
  <1>10. FinalOnce'
    BY DEF Notify, StreamInv, FinalOnce
  <1>11. Honest'
    BY <1>2, <1>4, <1>5, <1>8, HonestKept DEF Notify, Honest
  <1> QED
    BY <1>9, <1>10, <1>11 DEF StreamInv

LEMMA PushSteps ==
    ASSUME StreamInv, Lies' \subseteq Lies,
           SetPush \/ \E s \in Ends : DeliverPost(s) \/ LosePost(s)
    PROVE  StreamInv'
  <1>0. push \in BOOLEAN /\ breaks \in 0 .. MaxBreaks
    BY DEF StreamInv, A2ATypeOK
  <1>1. /\ UNCHANGED <<status, submission, moving, overlaps, overtaken, reopens, due, stream, chan, client, told>>
        /\ push' \in BOOLEAN /\ posts' \subseteq posts /\ heard' \subseteq heard \cup posts
        /\ breaks' \in 0 .. MaxBreaks
    <2>1. CASE SetPush
      BY <1>0, <2>1 DEF SetPush, taskVars, streamVars
    <2>2. CASE \E s \in Ends : DeliverPost(s)
      BY <1>0, <2>2 DEF DeliverPost, taskVars, streamVars
    <2>3. CASE \E s \in Ends : LosePost(s)
      BY <1>0, <2>3 DEF LosePost, Fault, taskVars, streamVars
    <2> QED
      BY <2>1, <2>2, <2>3
  <1>2. A2ATypeOK'
    BY <1>1 DEF StreamInv, A2ATypeOK
  <1>3. FinalOnce'
    BY <1>1 DEF StreamInv, FinalOnce
  <1>4. Honest'
    BY <1>1, HonestKept DEF Honest
  <1> QED
    BY <1>2, <1>3, <1>4 DEF StreamInv

\* A broken connection, or all of them: what is left to read is its reset.
LEMMA ResetStep ==
    ASSUME StreamInv, Lies' \subseteq Lies, (\E c \in Clients : Drop(c)) \/ Restart
    PROVE  StreamInv'
  <1>1. /\ UNCHANGED <<status, submission, overlaps, overtaken, reopens, client, told, push, heard>>
        /\ moving' \in {moving, {}}
        /\ posts' \subseteq posts /\ breaks' \in 0 .. MaxBreaks
        /\ due' \in [Announced -> Nat] /\ \A s \in Announced : due'[s] > 0 => due[s] > 0
    <2>1. breaks \in 0 .. MaxBreaks /\ due \in [Announced -> Nat]
      BY DEF StreamInv, A2ATypeOK
    <2>2. CASE \E c \in Clients : Drop(c)
      BY <2>1, <2>2 DEF Drop, Fault, taskVars, pushVars
    <2>3. CASE Restart
      BY <2>1, <2>3 DEF Restart, Fault
    <2> QED
      BY <2>2, <2>3
  <1>2. \A S : "reset" \in S => <<"reset">> \in Seq(S)
    BY OneItem
  <1>3. ASSUME NEW S, chan \in [Clients -> Seq(S)], "reset" \in S PROVE chan' \in [Clients -> Seq(S)]
    BY <1>2, <1>3 DEF Drop, Restart
  <1>4. "reset" \in WireItem /\ "reset" \in WireItem \ Lies'
    BY DEF WireItem, Lies, Ends
  <1>5. chan' \in [Clients -> Seq(WireItem)] /\ chan' \in [Clients -> Seq(WireItem \ Lies')]
    BY <1>3, <1>4, HonestKept DEF StreamInv, A2ATypeOK
  <1>6. /\ stream' \in [Clients -> StreamRow]
        /\ \A d \in Clients : stream'[d].pc = "write" => stream[d].pc = "write" /\ stream'[d].state = stream[d].state
    <2>1. stream \in [Clients -> StreamRow]
      BY DEF StreamInv, A2ATypeOK
    <2>2. CASE Restart
      BY <2>2, NoStreamType DEF Restart
    <2>3. CASE \E c \in Clients : Drop(c)
      <3>1. PICK c \in Clients : stream' = [stream EXCEPT ![c].closed = TRUE]
        BY <2>3 DEF Drop
      <3> QED
        BY <2>1, <3>1 DEF StreamRow
    <2> QED
      BY <2>2, <2>3
  <1>7. A2ATypeOK'
    BY <1>1, <1>5, <1>6 DEF StreamInv, A2ATypeOK
  <1>8. FinalOnce'
    BY <1>1 DEF StreamInv, FinalOnce
  <1>9. Honest'
    BY <1>1, <1>5, <1>6, HonestKept DEF Honest
  <1> QED
    BY <1>7, <1>8, <1>9 DEF StreamInv

(***************************************************************************)
(* The invariant                                                           *)
(***************************************************************************)
LEMMA StreamInit == ASSUME A2AInit PROVE StreamInv
  <1>1. \A S : <<>> \in Seq(S)
    OBVIOUS
  <1>2. A2ATypeOK
    <2>1. /\ status \in Statuses /\ client \in [Clients -> ClientPc]
          /\ push \in BOOLEAN /\ posts \subseteq Ends /\ heard \subseteq Ends
      BY DEF A2AInit, Statuses, ClientPc
    <2>2. /\ reopens \in 0 .. MaxReopens /\ breaks \in 0 .. MaxBreaks /\ overlaps \in 0 .. MaxOverlaps
          /\ submission \in [Submissions -> {"none", "validating", "decided"}]
          /\ moving \subseteq TaskMove /\ overtaken \subseteq Ends
          /\ due \in [Announced -> Nat] /\ stream \in [Clients -> StreamRow]
      BY NoStreamType DEF A2AInit
    <2>3. chan \in [Clients -> Seq(WireItem)] /\ told \in [Clients -> Seq(TERMINAL_STATES)]
      BY <1>1 DEF A2AInit
    <2> QED
      BY <2>1, <2>2, <2>3 DEF A2ATypeOK
  <1>3. FinalOnce
    BY DEF A2AInit, FinalOnce
  <1>4. Honest
    BY <1>1, NoStreamType DEF A2AInit, Honest
  <1> QED
    BY <1>2, <1>3, <1>4 DEF StreamInv

LEMMA VerdictsStep == ASSUME OnlyVerdictsAfter, [A2ANext]_a2aVars PROVE OnlyVerdictsAfter'
  <1>1. ASSUME NEW op, NEW u, Checked(op, u), Over => op \in Verdicts PROVE OnlyVerdictsAfter'
    BY <1>1 DEF Checked, OnlyVerdictsAfter
  <1>2. status \in {"open", "in_progress"} => ~Over
    BY DEF Over
  <1>3. CASE AcceptBid \/ DeleteTask \/ CancelByRpc \/ Submit \/ \E u \in Submissions : SubmitForReview(u)
    BY <1>1, <1>2, <1>3 DEF AcceptBid, DeleteTask, CancelByRpc, Submit, SubmitForReview
  <1>4. CASE \E u \in Submissions, op \in Verdicts : Decide(u, op)
    BY <1>1, <1>4 DEF Decide
  <1>5. CASE \E r \in moving : Update(r)
    BY <1>5 DEF Update, OnlyVerdictsAfter
  <1>6. CASE ExecutorTimeout
    BY <1>6 DEF ExecutorTimeout, OnlyVerdictsAfter
  <1>7. TaskMoves \/ moving' \in {moving, {}}
    BY DEF A2ANext, Connect, Receive, Serve,
         CreateTask, SubscribeRead, WriteInitial, AnswerGet, EndStream, Lifetime, TimedOut, Notify, SetPush,
         DeliverPost, Faults, LosePost, FetchFails, Drop, Restart, taskVars, a2aVars
  <1>8. CASE moving' \in {moving, {}}
    BY <1>8 DEF OnlyVerdictsAfter
  <1> QED
    BY <1>3, <1>4, <1>5, <1>6, <1>7, <1>8 DEF TaskMoves

LEMMA StreamStep == ASSUME StreamInv, OnlyVerdictsAfter, [A2ANext]_a2aVars PROVE StreamInv'
  <1>0. Lies' \subseteq Lies
    BY LiesShrink DEF StreamInv
  <1>1. CASE TaskMoves
    BY <1>0, <1>1, TaskMovesStep
  <1>2. CASE \E c \in Clients : Connect(c) \/ Receive(c)
    BY <1>0, <1>2, ConnectStep, ReceiveStep
  <1>3. CASE \E c \in Clients : Serve(c)
    BY <1>0, <1>3, CreateTaskStep, SubscribeReadStep, WriteInitialStep, AnswerGetStep, EndStreamStep DEF Serve
  <1>4. CASE \E c \in Clients : Lifetime(c)
    BY <1>0, <1>4, LifetimeStep
  <1>5. CASE \E s \in Announced : Notify(s)
    BY <1>0, <1>5, NotifyStep
  <1>6. CASE SetPush \/ \E s \in Ends : DeliverPost(s)
    BY <1>0, <1>6, PushSteps
  <1>7. CASE Faults
    BY <1>0, <1>7, PushSteps, FetchFailsStep, ResetStep DEF Faults
  <1>8. CASE UNCHANGED a2aVars
    <2>1. A2ATypeOK'
      BY <1>8 DEF a2aVars, StreamInv, A2ATypeOK
    <2>2. FinalOnce'
      BY <1>8 DEF a2aVars, StreamInv, FinalOnce
    <2>3. Honest'
      BY <1>0, <1>8, HonestKept DEF a2aVars, Honest
    <2> QED
      BY <2>1, <2>2, <2>3 DEF StreamInv
  <1> QED
    BY <1>1, <1>2, <1>3, <1>4, <1>5, <1>6, <1>7, <1>8 DEF A2ANext

LEMMA StreamInvariance == A2ASpec => []StreamInv
  <1>1. A2AInit => StreamInv /\ OnlyVerdictsAfter
    BY StreamInit DEF A2AInit, OnlyVerdictsAfter
  <1>2. StreamInv /\ OnlyVerdictsAfter /\ [A2ANext]_a2aVars => StreamInv' /\ OnlyVerdictsAfter'
    BY StreamStep, VerdictsStep
  <1> QED
    BY <1>1, <1>2, PTL DEF A2ASpec

\* Every variable of Streams keeps its type: what a connection carries is made of the
\* events of routes/a2a.ts, whoever writes to it and whenever it breaks.
THEOREM StreamsTypeCorrect == A2ASpec => []A2ATypeOK
  BY StreamInvariance, PTL DEF StreamInv

\* For any number of clients, reconnections and lost connections: the callback onFinal
\* of lib/sse-client.ts is called at most once, by a call that has resolved.
THEOREM ToldOnce == A2ASpec => []FinalOnce
  BY StreamInvariance, PTL DEF StreamInv

\* For any number of clients, streams, notices and pushes on their way: whoever is
\* told that the task was completed or canceled is told the truth, and for good unless a handler that was at work
\* before, or the verdict on a submission handed in before, replaces it.
THEOREM OnlyTheTruth == A2ASpec => []ToldTheTruth
  <1>1. StreamInv => ToldTheTruth
    <2> SUFFICES ASSUME StreamInv, NEW s \in Ends,
                        s \in heard \/ \E c \in Clients : told[c] = <<s>>
                 PROVE  s \notin Lies
      BY DEF ToldTheTruth, Lies, Ends
    <2>1. CASE s \in heard
      BY <2>1 DEF StreamInv, Honest
    <2>2. CASE \E c \in Clients : told[c] = <<s>>
      <3>1. PICK c \in Clients : told[c] = <<s>>
        BY <2>2
      <3>2. told[c] \in Seq(TERMINAL_STATES \ Lies)
        BY DEF StreamInv, Honest
      <3>3. Len(told[c]) = 1 /\ told[c][1] = s
        BY <3>1
      <3>4. told[c][1] \in TERMINAL_STATES \ Lies
        BY <3>2, <3>3, ElementOfSeq
      <3> QED
        BY <3>3, <3>4
    <2> QED
      BY <2>1, <2>2
  <1> QED
    BY <1>1, StreamInvariance, PTL
=============================================================================
