---------------------------- MODULE GatewayProofs ----------------------------
(***************************************************************************)
(* Theorems about Gateway, for any number of agents, keys and requests in  *)
(* flight and every bound.                                                 *)
(***************************************************************************)
EXTENDS Gateway, SequenceTheorems, WellFoundedInduction, TLAPS

USE NamesAssumption

(***************************************************************************)
(* Types                                                                   *)
(***************************************************************************)
LEMMA IdleType == Idle \in Request /\ Idle.pc = "idle"
  BY DEF Idle, Request, AnAgent, AKey, Pc, Routes, Statuses

LEMMA ReqType ==
    ASSUME RowTypes, NEW s \in Slots
    PROVE  /\ req[s] \in Request /\ req[s].agent \in Agents /\ req[s].key \in Keys
           /\ req[s].challenge \in Nat /\ req[s].seen \in Statuses /\ req[s].route \in Routes
  BY DEF RowTypes, Request

LEMMA GotoStep ==
    ASSUME RowTypes, NEW s \in Slots, NEW pc \in Pc, Goto(s, pc)
    PROVE  /\ req' \in [Slots -> Request]
           /\ req'[s] = [req[s] EXCEPT !.pc = pc]
           /\ req'[s].pc = pc
           /\ \A t \in Slots \ {s} : req'[t] = req[t]
  <1>1. [req[s] EXCEPT !.pc = pc] \in Request
    BY ReqType DEF Request
  <1> QED
    BY <1>1, ReqType DEF RowTypes, Goto, Request

LEMMA AnswerStep ==
    ASSUME RowTypes, NEW s \in Slots, Answer(s)
    PROVE  /\ req' \in [Slots -> Request]
           /\ req'[s] = Idle
           /\ \A t \in Slots \ {s} : req'[t] = req[t]
  BY IdleType DEF RowTypes, Answer

\* A state of a row is written over.
LEMMA KeyState ==
    ASSUME RowTypes, NEW k \in Keys, NEW state \in {"absent", "reserved", "stored"}
    PROVE  [keyRow EXCEPT ![k] = [keyRow[k] EXCEPT !.state = state]] \in [Keys -> KeyRow]
  <1>1. keyRow[k] \in KeyRow /\ keyRow[k].agent \in Agents
    BY DEF RowTypes, KeyRow
  <1>2. [keyRow[k] EXCEPT !.state = state] = [state |-> state, agent |-> keyRow[k].agent]
    BY <1>1 DEF KeyRow
  <1>3. [keyRow[k] EXCEPT !.state = state] \in KeyRow
    BY <1>1, <1>2 DEF KeyRow
  <1> QED
    BY <1>3 DEF RowTypes

\* An element is written over, if there is one.
LEMMA ExceptType ==
    ASSUME NEW S, NEW seq \in Seq(S), NEW i, NEW e, i \in DOMAIN seq => e \in S
    PROVE  [seq EXCEPT ![i] = e] \in Seq(S)
  <1>1. CASE i \in DOMAIN seq
    BY <1>1, ExceptSeq
  <1>2. CASE i \notin DOMAIN seq
    <2>1. [seq EXCEPT ![i] = e] = [j \in DOMAIN seq |-> seq[j]]
      BY <1>2
    <2>2. seq = [j \in DOMAIN seq |-> seq[j]]
      OBVIOUS
    <2> QED
      BY <2>1, <2>2
  <1> QED
    BY <1>1, <1>2

LEMMA InitTypes == Init => RowTypes
  <1> SUFFICES ASSUME Init PROVE RowTypes
    OBVIOUS
  <1>1. AnAgent \in Agents
    BY DEF AnAgent
  <1>2. [state |-> "absent", agent |-> AnAgent] \in KeyRow
    BY <1>1 DEF KeyRow
  <1>3. <<>> \in Seq(Challenge)
    OBVIOUS
  <1>4. now \in 0 .. MaxTime /\ requests \in 0 .. MaxRequests /\ faults \in 0 .. MaxFaults
    BY BoundsAssumption DEF Init
  <1>5. keyRow \in [Keys -> KeyRow] /\ challenges \in [Agents -> Seq(Challenge)]
    BY <1>2, <1>3 DEF Init
  <1> QED
    BY <1>4, <1>5, IdleType DEF Init, RowTypes, Statuses

LEMMA AgentTypes ==
    ASSUME RowTypes, NEW a \in Agents, Register(a) \/ Suspend(a)
    PROVE  RowTypes'
  <1>1. \E x \in Statuses : status' = [status EXCEPT ![a] = x]
    BY DEF Register, Suspend, Statuses
  <1>2. bonus' = bonus \/ \E n \in Nat : bonus' = [bonus EXCEPT ![a] = n]
    BY DEF Register, Suspend
  <1>3. status' \in [Agents -> Statuses]
    BY <1>1 DEF RowTypes
  <1>4. bonus' \in [Agents -> Nat]
    BY <1>2 DEF RowTypes
  <1> QED
    BY <1>3, <1>4 DEF RowTypes, Register, Suspend

LEMMA ArriveTypes ==
    ASSUME RowTypes, NEW s \in Slots, Arrive(s)
    PROVE  RowTypes'
  <1>1. PICK route \in Routes, a \in Agents, k \in Keys :
            /\ req' = [req EXCEPT ![s] = [pc |-> "limit", route |-> route, agent |-> a, key |-> k,
                                          seen |-> status[a], challenge |-> 0]]
            /\ raced' = raced \/ raced' = raced \cup {a}
    BY DEF Arrive
  <1>2. [pc |-> "limit", route |-> route, agent |-> a, key |-> k,
         seen |-> status[a], challenge |-> 0] \in Request
    BY DEF Request, Pc, RowTypes
  <1>3. requests' \in 0 .. MaxRequests
    BY BoundsAssumption DEF Arrive, RowTypes
  <1> QED
    BY <1>1, <1>2, <1>3 DEF Arrive, RowTypes

LEMMA TransferTypes ==
    ASSUME RowTypes, NEW s \in Slots, Limited(s) \/ Lookup(s) \/ Reserve(s) \/ Transfer(s)
    PROVE  RowTypes'
  <1> USE ReqType
  <1>1. CASE Limited(s)
    <2>1. FirstStep(req[s].route) \in Pc
      BY DEF FirstStep, Pc
    <2>2. req' \in [Slots -> Request]
      BY <1>1, <2>1, GotoStep, AnswerStep DEF Limited
    <2> QED
      BY <1>1, <2>2 DEF Limited, RowTypes
  <1>2. CASE Lookup(s)
    <2>1. req' \in [Slots -> Request]
      BY <1>2, GotoStep, AnswerStep DEF Lookup, Pc
    <2>2. raced' \subseteq Agents \cup Keys
      BY <1>2 DEF Lookup, RowTypes
    <2> QED
      BY <1>2, <2>1, <2>2 DEF Lookup, RowTypes
  <1>3. CASE Reserve(s)
    <2>1. req' \in [Slots -> Request]
      BY <1>3, GotoStep DEF Reserve, Pc
    <2>2. [state |-> "reserved", agent |-> req[s].agent] \in KeyRow
      BY DEF KeyRow
    <2>3. keyRow' \in [Keys -> KeyRow]
      BY <1>3, <2>2 DEF Reserve, RowTypes
    <2> QED
      BY <1>3, <2>1, <2>3 DEF Reserve, RowTypes
  <1>4. CASE Transfer(s)
    <2>1. req' \in [Slots -> Request]
      BY <1>4, GotoStep, AnswerStep DEF Transfer, TransferFails, TransferDone, StoreResult, Pc
    <2>2. executed' \in [Keys -> Nat]
      BY <1>4 DEF Transfer, TransferFails, TransferDone, StoreResult, RowTypes
    <2>3. keyRow' \in [Keys -> KeyRow]
      <3>1. CASE StoreResult(s)
        <4>1. PICK state \in {"absent", "reserved", "stored"} :
                 keyRow' = [keyRow EXCEPT ![req[s].key] = [keyRow[req[s].key] EXCEPT !.state = state]]
          BY <3>1 DEF StoreResult, RowTypes, KeyRow
        <4>2. req[s].key \in Keys
          OBVIOUS
        <4> QED
          BY <4>1, <4>2, KeyState
      <3>2. CASE UNCHANGED keyRow
        BY <3>2 DEF RowTypes
      <3> QED
        BY <1>4, <3>1, <3>2 DEF Transfer, TransferFails, TransferDone
    <2> QED
      BY <1>4, <2>1, <2>2, <2>3 DEF Transfer, RowTypes
  <1> QED
    BY <1>1, <1>2, <1>3, <1>4

LEMMA VerificationTypes ==
    ASSUME RowTypes, NEW s \in Slots, Verification(s)
    PROVE  RowTypes'
  <1> USE ReqType
  <1>1. CASE InitiateInsert(s)
    <2> DEFINE x == [at |-> now, used |-> FALSE]
    <2>1. x \in Challenge
      BY BoundsAssumption DEF Challenge, RowTypes
    <2>2. Append(challenges[req[s].agent], x) \in Seq(Challenge)
      BY <2>1, AppendProperties DEF RowTypes
    <2>3. challenges' \in [Agents -> Seq(Challenge)]
      BY <1>1, <2>2 DEF InitiateInsert, RowTypes
    <2>4. req' \in [Slots -> Request]
      BY <1>1, AnswerStep DEF InitiateInsert
    <2> QED
      BY <1>1, <2>3, <2>4 DEF InitiateInsert, Verification, RowTypes
  <1>2. CASE ReadChallenge(s)
    <2>1. CASE Answer(s)
      BY <1>2, <2>1, AnswerStep DEF ReadChallenge, Verification, RowTypes
    <2>2. ASSUME NEW i \in InTime(req[s].agent),
                 req' = [req EXCEPT ![s] = [req[s] EXCEPT !.pc = "verify", !.challenge = i]]
          PROVE  RowTypes'
      <3>1. i \in Nat
        BY DEF InTime, Latest, Unused, RowTypes
      <3>2. [req[s] EXCEPT !.pc = "verify", !.challenge = i] \in Request
        BY <3>1 DEF Request, Pc
      <3> QED
        BY <1>2, <2>2, <3>2 DEF ReadChallenge, Verification, RowTypes
    <2> QED
      BY <1>2, <2>1, <2>2 DEF ReadChallenge
  <1>3. CASE VerifyChallenge(s)
    <2>1. req' \in [Slots -> Request]
      BY <1>3, GotoStep, AnswerStep DEF VerifyChallenge, Pc
    <2> QED
      BY <1>3, <2>1 DEF VerifyChallenge, Verification, RowTypes
  <1>4. CASE UseChallenge(s)
    <2> DEFINE a == req[s].agent  i == req[s].challenge
    <2>1. req' \in [Slots -> Request]
      BY <1>4, GotoStep DEF UseChallenge, Pc
    <2>2. challenges[a] \in Seq(Challenge)
      BY DEF RowTypes
    <2>3. [challenges[a] EXCEPT ![i] = [challenges[a][i] EXCEPT !.used = TRUE]] \in Seq(Challenge)
      <3>1. i \in DOMAIN challenges[a] => challenges[a][i] \in Challenge
        BY <2>2, ElementOfSeq
      <3>2. i \in DOMAIN challenges[a] => [challenges[a][i] EXCEPT !.used = TRUE] \in Challenge
        BY <3>1 DEF Challenge
      <3> QED
        BY <2>2, <3>2, ExceptType
    <2>4. challenges' = [challenges EXCEPT ![a] =
                            [challenges[a] EXCEPT ![i] = [challenges[a][i] EXCEPT !.used = TRUE]]]
      BY <1>4 DEF UseChallenge
    <2>5. challenges' \in [Agents -> Seq(Challenge)]
      BY <2>3, <2>4 DEF RowTypes
    <2> QED
      BY <1>4, <2>1, <2>5 DEF UseChallenge, Verification, RowTypes
  <1>5. CASE MarkVerified(s)
    <2>1. req' \in [Slots -> Request]
      BY <1>5, GotoStep DEF MarkVerified, Pc
    <2> QED
      BY <1>5, <2>1 DEF MarkVerified, Verification, RowTypes, Statuses
  <1>6. CASE CreditBonus(s)
    <2>1. req' \in [Slots -> Request]
      BY <1>6, AnswerStep DEF CreditBonus
    <2> QED
      BY <1>6, <2>1 DEF CreditBonus, Verification, RowTypes
  <1> QED
    BY <1>1, <1>2, <1>3, <1>4, <1>5, <1>6 DEF Verification

LEMMA OtherTypes ==
    ASSUME RowTypes, \/ \E l \in Limiters : Evict(l)
                     \/ \E k \in Keys : CleanUpKey(k)
                     \/ Tick \/ Crash
    PROVE  RowTypes'
  <1>1. ASSUME NEW k \in Keys, CleanUpKey(k) PROVE RowTypes'
    <2>1. keyRow' = [keyRow EXCEPT ![k] = [keyRow[k] EXCEPT !.state = "absent"]]
      BY <1>1 DEF CleanUpKey
    <2>2. keyRow' \in [Keys -> KeyRow]
      BY <2>1, KeyState
    <2> QED
      BY <1>1, <2>2 DEF CleanUpKey, RowTypes
  <1>2. CASE Tick
    BY <1>2, BoundsAssumption DEF Tick, RowTypes
  <1>3. CASE Crash
    BY <1>3, BoundsAssumption, IdleType DEF Crash, RowTypes
  <1> QED
    BY <1>1, <1>2, <1>3 DEF Evict, RowTypes

LEMMA TypeInvariance == RowTypes /\ [Next]_vars => RowTypes'
  <1> SUFFICES ASSUME RowTypes, [Next]_vars PROVE RowTypes'
    OBVIOUS
  <1>1. CASE UNCHANGED vars
    BY <1>1 DEF vars, RowTypes
  <1> QED
    BY <1>1, AgentTypes, ArriveTypes, TransferTypes, VerificationTypes, OtherTypes DEF Next

(***************************************************************************)
(* What each request does next depends on its route                        *)
(***************************************************************************)
RouteSteps ==
    \A s \in Slots : /\ req[s].pc \in {"lookup", "reserve", "run", "store"} => req[s].route = "transfer"
                     /\ req[s].pc \in {"challenge", "verify", "use", "mark", "credit"}
                            => req[s].route = "confirm" /\ req[s].seen # "verified"

\* One request is written, the others stay; it keeps its route, agent and key, or
\* is answered.
LEMMA OneRequest ==
    ASSUME RowTypes, RouteSteps, NEW s \in Slots,
           Limited(s) \/ Lookup(s) \/ Reserve(s) \/ Transfer(s) \/ Verification(s)
    PROVE  /\ \A t \in Slots \ {s} : req'[t] = req[t]
           /\ \/ req'[s] = Idle
              \/ /\ req'[s].route = req[s].route /\ req'[s].agent = req[s].agent
                 /\ req'[s].key = req[s].key /\ req'[s].seen = req[s].seen
                 /\ \/ req[s].pc = "limit" /\ req'[s].pc = FirstStep(req[s].route)
                          /\ (req[s].route # "transfer" => req[s].seen # "verified")
                    \/ req[s].pc = "lookup" /\ req'[s].pc = "reserve"
                    \/ req[s].pc = "reserve" /\ req'[s].pc = "run"
                    \/ req[s].pc = "run" /\ req'[s].pc = "store"
                    \/ req[s].pc = "challenge" /\ req'[s].pc = "verify"
                    \/ req[s].pc = "verify" /\ req'[s].pc = "use"
                    \/ req[s].pc = "use" /\ req'[s].pc = "mark"
                    \/ req[s].pc = "mark" /\ req'[s].pc = "credit"
  <1> USE ReqType
  <1>1. CASE Answer(s)
    BY <1>1, AnswerStep
  <1>2. ASSUME NEW pc \in Pc, Goto(s, pc)
        PROVE  /\ \A t \in Slots \ {s} : req'[t] = req[t]
               /\ req'[s].route = req[s].route /\ req'[s].agent = req[s].agent
               /\ req'[s].key = req[s].key /\ req'[s].seen = req[s].seen
               /\ req'[s].pc = pc
    <2>1. /\ req'[s] = [req[s] EXCEPT !.pc = pc]
          /\ \A t \in Slots \ {s} : req'[t] = req[t]
      BY <1>2, GotoStep
    <2>2. req[s] \in Request
      BY ReqType
    <2> QED
      BY <2>1, <2>2 DEF Request
  <1>3. CASE Limited(s)
    <2>1. FirstStep(req[s].route) \in Pc
      BY DEF FirstStep, Pc
    <2> QED
      BY <1>1, <1>2, <1>3, <2>1 DEF Limited
  <1>4. CASE Lookup(s) \/ Reserve(s) \/ Transfer(s)
    BY <1>1, <1>2, <1>4
       DEF Lookup, Reserve, Transfer, TransferFails, TransferDone, StoreResult, Pc
  <1>5. CASE ReadChallenge(s)
    <2>1. ASSUME NEW i \in InTime(req[s].agent),
                 req' = [req EXCEPT ![s] = [req[s] EXCEPT !.pc = "verify", !.challenge = i]]
          PROVE  /\ \A t \in Slots \ {s} : req'[t] = req[t]
                 /\ req'[s].route = req[s].route /\ req'[s].agent = req[s].agent
                 /\ req'[s].key = req[s].key /\ req'[s].seen = req[s].seen
                 /\ req'[s].pc = "verify"
      BY <2>1 DEF RowTypes, Request
    <2> QED
      BY <1>1, <1>5, <2>1 DEF ReadChallenge
  <1>6. CASE Verification(s)
    BY <1>1, <1>2, <1>5, <1>6
       DEF Verification, InitiateInsert, VerifyChallenge, UseChallenge, MarkVerified, CreditBonus, Pc
  <1> QED
    BY <1>3, <1>4, <1>6

LEMMA RouteInvariance == RowTypes /\ RouteSteps /\ [Next]_vars => RouteSteps'
  <1> SUFFICES ASSUME RowTypes, RouteSteps, [Next]_vars PROVE RouteSteps'
    OBVIOUS
  <1>1. CASE req' = req
    BY <1>1 DEF RouteSteps
  <1>2. ASSUME NEW s \in Slots, Arrive(s) PROVE RouteSteps'
    <2>1. req'[s].pc = "limit" /\ \A t \in Slots \ {s} : req'[t] = req[t]
      BY <1>2 DEF Arrive, RowTypes
    <2> QED
      BY <2>1 DEF RouteSteps
  <1>3. ASSUME NEW s \in Slots,
               Limited(s) \/ Lookup(s) \/ Reserve(s) \/ Transfer(s) \/ Verification(s)
        PROVE  RouteSteps'
    <2>1. req'[s] = Idle \/ req'[s].pc \in Pc
      BY <1>3, OneRequest, ReqType DEF Request, FirstStep, Pc
    <2>2. Idle.pc = "idle"
      BY IdleType
    <2>3. req[s].route \in {"transfer", "initiate", "confirm"}
      BY ReqType DEF Routes
    <2> QED
      BY <1>3, <2>2, <2>3, OneRequest DEF RouteSteps, FirstStep
  <1>4. CASE Crash
    BY <1>4, IdleType DEF Crash, RouteSteps
  <1> QED
    BY <1>1, <1>2, <1>3, <1>4 DEF Next, vars, Register, Suspend, Evict, CleanUpKey, Tick

(***************************************************************************)
(* Idempotency keys                                                        *)
(***************************************************************************)
\* Requests that found no row under the key and have not moved points.
Active(s, k) == req[s].key = k /\ req[s].pc \in {"reserve", "run"}

\* Where no two requests raced, one request at most is active under a key and it has
\* not moved points; before the points move the key has its row.
KeyHeld ==
    \A k \in Keys \ raced :
        /\ executed[k] <= 1
        /\ \A s, t \in Slots : Active(s, k) /\ Active(t, k) => s = t
        /\ \A s \in Slots : Active(s, k) => executed[k] = 0
        /\ executed[k] > 0 => keyRow[k].state # "absent"
        /\ \A s \in Slots : Active(s, k) /\ req[s].pc = "run" => keyRow[k].state # "absent"

LEMMA LookupHeld ==
    ASSUME RowTypes, RouteSteps, KeyHeld, NEW s \in Slots, Lookup(s)
    PROVE  KeyHeld'
  <1> DEFINE k == req[s].key
  <1>1. k \in Keys /\ executed \in [Keys -> Nat] /\ UNCHANGED <<executed, keyRow>>
    BY ReqType DEF Lookup, RowTypes
  <1>2. CASE keyRow[k].state = "absent"
    <2>1. /\ \A t \in Slots \ {s} : req'[t] = req[t]
          /\ req'[s].key = k /\ req'[s].pc = "reserve"
      <3>1. Goto(s, "reserve") /\ "reserve" \in Pc
        BY <1>2 DEF Lookup, Pc
      <3>2. /\ req'[s] = [req[s] EXCEPT !.pc = "reserve"]
            /\ \A t \in Slots \ {s} : req'[t] = req[t]
        BY <3>1, GotoStep
      <3>3. req[s] \in Request
        BY ReqType
      <3> QED
        BY <3>2, <3>3 DEF Request
    <2>2. raced \subseteq raced'
      BY <1>2 DEF Lookup
    <2>3. \A i \in Keys \ {k}, t \in Slots : Active(t, i)' <=> Active(t, i)
      BY <2>1 DEF Active, Lookup
    <2>4. \A i \in Keys \ {k}, t \in Slots : Active(t, i)' => req'[t] = req[t]
      BY <2>1 DEF Active, Lookup
    <2>5. ASSUME k \notin raced'
          PROVE  /\ executed[k] = 0
                 /\ \A t \in Slots \ {s} : ~Active(t, k)
      <3>1. \A t \in Slots : ~Reserving(t, k)
        BY <1>2, <2>5 DEF Lookup
      <3>2. \A t \in Slots : ~(req[t].key = k /\ req[t].pc = "reserve")
        BY <3>1 DEF Reserving, RouteSteps
      <3> QED
        BY <1>1, <1>2, <2>2, <2>5, <3>2 DEF KeyHeld, Active
    <2>6. ASSUME k \notin raced'
          PROVE  \A t \in Slots \ {s} : ~Active(t, k)'
      BY <2>1, <2>5, <2>6 DEF Active
    <2>7. ASSUME NEW i \in Keys \ raced', i # k
          PROVE  /\ executed'[i] <= 1
                 /\ \A t, u \in Slots : Active(t, i)' /\ Active(u, i)' => t = u
                 /\ \A t \in Slots : Active(t, i)' => executed'[i] = 0
                 /\ executed'[i] > 0 => keyRow'[i].state # "absent"
                 /\ \A t \in Slots : Active(t, i)' /\ req'[t].pc = "run" => keyRow'[i].state # "absent"
      BY <1>1, <2>2, <2>3, <2>4, <2>7 DEF KeyHeld
    <2> QED
      BY <1>1, <2>1, <2>5, <2>6, <2>7 DEF KeyHeld
  <1>3. CASE keyRow[k].state # "absent"
    <2>1. UNCHANGED raced /\ Answer(s)
      BY <1>3 DEF Lookup
    <2>2. \A t \in Slots : Active(t, req[t].key)' => req'[t] = req[t]
      BY <2>1, AnswerStep, IdleType DEF Active
    <2>3. \A i, t : t \in Slots /\ Active(t, i)' => Active(t, i) /\ req'[t] = req[t]
      BY <2>1, AnswerStep, IdleType DEF Active
    <2> QED
      BY <1>1, <2>1, <2>3 DEF KeyHeld
  <1> QED
    BY <1>2, <1>3

\* Nobody becomes active, no row changes.
LEMMA QuietStep ==
    ASSUME KeyHeld, UNCHANGED <<executed, keyRow>>, raced \subseteq raced',
           \A k \in Keys, s \in Slots : Active(s, k)' => Active(s, k) /\ req'[s] = req[s]
    PROVE  KeyHeld'
  BY DEF KeyHeld

LEMMA ReserveHeld ==
    ASSUME RowTypes, RouteSteps, KeyHeld, NEW s \in Slots, Reserve(s)
    PROVE  KeyHeld'
  <1> DEFINE k == req[s].key
  <1>1. /\ \A t \in Slots \ {s} : req'[t] = req[t]
        /\ req'[s].key = k /\ req'[s].pc = "run"
    <2>1. Goto(s, "run") /\ "run" \in Pc
      BY DEF Reserve, Pc
    <2>2. /\ req'[s] = [req[s] EXCEPT !.pc = "run"]
          /\ \A t \in Slots \ {s} : req'[t] = req[t]
      BY <2>1, GotoStep
    <2>3. req[s] \in Request
      BY ReqType
    <2> QED
      BY <2>2, <2>3 DEF Request
  <1>2. /\ \A i \in Keys : keyRow[i].state # "absent" => keyRow'[i].state # "absent"
        /\ keyRow'[k].state # "absent"
    <2>1. k \in Keys /\ keyRow \in [Keys -> KeyRow]
      BY ReqType DEF RowTypes
    <2> QED
      BY <2>1 DEF Reserve
  <1>3. req[s].pc = "reserve" /\ UNCHANGED <<executed, raced>>
    BY DEF Reserve
  <1>4. \A i \in Keys, t \in Slots : Active(t, i)' <=> Active(t, i)
    BY <1>1, <1>3 DEF Active
  <1>5. \A i \in Keys, t \in Slots : Active(t, i)' /\ req'[t].pc = "run" => keyRow'[i].state # "absent"
                                     \/ i \in raced
    BY <1>1, <1>2, <1>4 DEF Active, KeyHeld
  <1> QED
    BY <1>2, <1>3, <1>4, <1>5 DEF KeyHeld

LEMMA TransferHeld ==
    ASSUME RowTypes, RouteSteps, KeyHeld, NEW s \in Slots, Transfer(s)
    PROVE  KeyHeld'
  <1>0. PICK k \in Keys : k = req[s].key
    BY ReqType
  <1>1. k \in Keys /\ executed \in [Keys -> Nat] /\ keyRow \in [Keys -> KeyRow] /\ UNCHANGED raced
    BY ReqType DEF Transfer, RowTypes
  <1>2. CASE Answer(s) /\ UNCHANGED <<executed, keyRow>>
    <2>1. \A i \in Keys, t \in Slots : Active(t, i)' => Active(t, i) /\ req'[t] = req[t]
      BY <1>2, AnswerStep, IdleType DEF Active
    <2> QED
      BY <1>1, <1>2, <2>1, QuietStep
  <1>3. CASE TransferDone(s)
    <2>1. /\ \A t \in Slots \ {s} : req'[t] = req[t]
          /\ req'[s].pc = "store"
      <3>1. Goto(s, "store") /\ "store" \in Pc
        BY <1>3 DEF TransferDone, Pc
      <3> QED
        BY <3>1, GotoStep
    <2>2. \A i \in Keys, t \in Slots : Active(t, i)' => Active(t, i) /\ t # s /\ req'[t] = req[t]
      BY <2>1 DEF Active
    <2>3. Active(s, k) /\ req[s].pc = "run" /\ UNCHANGED keyRow
      BY <1>0, <1>3 DEF TransferDone, Active
    <2>4. executed'[k] = executed[k] + 1 /\ \A i \in Keys \ {k} : executed'[i] = executed[i]
      BY <1>0, <1>1, <1>3 DEF TransferDone
    <2>5. k \notin raced => /\ executed'[k] = 1 /\ keyRow[k].state # "absent"
                            /\ \A t \in Slots : ~Active(t, k)'
      BY <1>1, <2>2, <2>3, <2>4 DEF KeyHeld
    <2>6. ASSUME NEW i \in Keys \ raced, i # k
          PROVE  /\ executed'[i] <= 1
                 /\ \A t, u \in Slots : Active(t, i)' /\ Active(u, i)' => t = u
                 /\ \A t \in Slots : Active(t, i)' => executed'[i] = 0
                 /\ executed'[i] > 0 => keyRow'[i].state # "absent"
                 /\ \A t \in Slots : Active(t, i)' /\ req'[t].pc = "run" => keyRow'[i].state # "absent"
      BY <2>2, <2>3, <2>4, <2>6 DEF KeyHeld
    <2> QED
      BY <1>1, <2>3, <2>5, <2>6 DEF KeyHeld
  <1>4. CASE StoreResult(s)
    <2>1. \A i \in Keys, t \in Slots : Active(t, i)' => Active(t, i) /\ req'[t] = req[t]
      BY <1>4, AnswerStep, IdleType DEF StoreResult, Active
    <2>2. \A i \in Keys : keyRow[i].state # "absent" => keyRow'[i].state # "absent"
      <3>1. keyRow[k] \in KeyRow /\ \A i \in Keys \ {k} : keyRow'[i] = keyRow[i]
        BY <1>0, <1>1, <1>4 DEF StoreResult
      <3>2. keyRow'[k].state = IF keyRow[k].state = "absent" THEN "absent" ELSE "stored"
        BY <1>0, <1>1, <1>4, <3>1 DEF StoreResult, KeyRow
      <3> QED
        BY <3>1, <3>2
    <2>3. UNCHANGED executed
      BY <1>4 DEF StoreResult
    <2> QED
      BY <1>1, <2>1, <2>2, <2>3 DEF KeyHeld
  <1> QED
    <2>1. TransferFails(s) => Answer(s) /\ UNCHANGED <<executed, keyRow>>
      BY DEF TransferFails
    <2>2. TransferFails(s) \/ TransferDone(s) \/ StoreResult(s)
      BY DEF Transfer
    <2> QED
      BY <1>2, <1>3, <1>4, <2>1, <2>2

LEMMA CleanUpHeld ==
    ASSUME RowTypes, KeyHeld, NEW k \in Keys, CleanUpKey(k)
    PROVE  KeyHeld'
  <1>1. \A i \in Keys, t \in Slots : ~Active(t, i)'
    BY DEF CleanUpKey, Active
  <1>2. \A i \in Keys \ {k} : executed'[i] = executed[i] /\ keyRow'[i] = keyRow[i]
    BY DEF CleanUpKey, RowTypes
  <1>3. executed'[k] = 0 /\ raced' = raced \ {k}
    BY DEF CleanUpKey, RowTypes
  <1> QED
    BY <1>1, <1>2, <1>3 DEF KeyHeld

LEMMA KeyInvariance == RowTypes /\ RouteSteps /\ KeyHeld /\ [Next]_vars => KeyHeld'
  <1> SUFFICES ASSUME RowTypes, RouteSteps, KeyHeld, [Next]_vars PROVE KeyHeld'
    OBVIOUS
  <1>1. CASE UNCHANGED <<req, executed, keyRow, raced>>
    BY <1>1, QuietStep DEF Active
  <1>2. ASSUME NEW s \in Slots, Arrive(s) PROVE KeyHeld'
    <2>1. req'[s].pc = "limit" /\ \A t \in Slots \ {s} : req'[t] = req[t]
      BY <1>2 DEF Arrive, RowTypes
    <2>2. UNCHANGED <<executed, keyRow>> /\ raced \subseteq raced'
      BY <1>2 DEF Arrive
    <2> QED
      BY <2>1, <2>2, QuietStep DEF Active
  <1>3. ASSUME NEW s \in Slots, Limited(s) \/ Verification(s) PROVE KeyHeld'
    <2>1. \A t \in Slots \ {s} : req'[t] = req[t]
      BY <1>3, OneRequest
    <2>2. req'[s].pc \notin {"reserve", "run"}
      <3>1. req[s].pc \notin {"lookup", "reserve", "run"}
        BY <1>3 DEF Limited, Verification, InitiateInsert, ReadChallenge, VerifyChallenge,
                    UseChallenge, MarkVerified, CreditBonus
      <3> QED
        BY <1>3, <3>1, OneRequest, IdleType DEF FirstStep
    <2>3. UNCHANGED <<executed, keyRow, raced>>
      BY <1>3 DEF Limited, Verification, InitiateInsert, ReadChallenge, VerifyChallenge,
                  UseChallenge, MarkVerified, CreditBonus
    <2> QED
      BY <2>1, <2>2, <2>3, QuietStep DEF Active
  <1>4. CASE Crash
    <2>1. UNCHANGED <<executed, keyRow, raced>> /\ \A s \in Slots : req'[s] = Idle
      BY <1>4 DEF Crash
    <2> QED
      BY <2>1, IdleType, QuietStep DEF Active
  <1> QED
    BY <1>1, <1>2, <1>3, <1>4, LookupHeld, ReserveHeld, TransferHeld, CleanUpHeld
       DEF Next, vars, Register, Suspend, Evict, Tick

LEMMA InitHeld == Init => RouteSteps /\ KeyHeld
  BY IdleType DEF Init, RouteSteps, KeyHeld, Active

\* Retries are safe: without two requests that looked a key up before either had
\* reserved it, one key moves points once.
THEOREM KeysOnce == Spec => []OncePerKey
  <1>1. RowTypes /\ KeyHeld => OncePerKey
    BY DEF RowTypes, KeyHeld, OncePerKey
  <1> QED
    BY <1>1, InitTypes, TypeInvariance, InitHeld, RouteInvariance, KeyInvariance, PTL DEF Spec

(***************************************************************************)
(* The starter bonus                                                       *)
(***************************************************************************)
\* A confirmation that goes on to credit the bonus unless something fails.
Crediting(s, a) ==
    /\ req[s].route = "confirm" /\ req[s].agent = a
    /\ \/ req[s].pc = "limit" /\ req[s].seen # "verified"
       \/ req[s].pc \in {"challenge", "verify", "use", "mark", "credit"}

\* Where no two confirmations raced, one at most may still credit the bonus, it was
\* not credited before, and an agent not yet verified has none.
BonusHeld ==
    \A a \in Agents \ raced :
        /\ bonus[a] <= 1
        /\ \A s, t \in Slots : Crediting(s, a) /\ Crediting(t, a) => s = t
        /\ \A s \in Slots : Crediting(s, a) => bonus[a] = 0 /\ status[a] # "none"
        /\ \A s \in Slots : Crediting(s, a) /\ req[s].pc = "credit" => status[a] # "unverified"
        /\ status[a] \in {"none", "unverified"} => bonus[a] = 0

\* Nobody starts to confirm, and nobody reaches the credit.
LEMMA CalmStep ==
    ASSUME BonusHeld, UNCHANGED <<status, bonus>>, \A a \in Agents : a \in raced => a \in raced',
           \A a \in Agents, s \in Slots :
                Crediting(s, a)' => Crediting(s, a) /\ (req'[s].pc = "credit" => req[s].pc = "credit")
    PROVE  BonusHeld'
  BY DEF BonusHeld

LEMMA AgentBonus ==
    ASSUME RowTypes, BonusHeld, NEW a \in Agents, Register(a) \/ Suspend(a)
    PROVE  BonusHeld'
  <1>1. \A b \in Agents, s \in Slots : Crediting(s, b)' <=> Crediting(s, b)
    BY DEF Crediting, Register, Suspend
  <1>2. \A b \in Agents \ {a} : status'[b] = status[b] /\ bonus'[b] = bonus[b]
    BY DEF Register, Suspend, RowTypes
  <1>3. UNCHANGED <<req, raced>>
    BY DEF Register, Suspend
  <1>4. CASE Register(a)
    <2>1. /\ status[a] = "none" /\ bonus'[a] \in {0, 1}
          /\ status'[a] = "verified" \/ (status'[a] = "unverified" /\ bonus'[a] = 0)
      BY <1>4 DEF Register, RowTypes
    <2> QED
      BY <1>1, <1>2, <1>3, <2>1 DEF BonusHeld
  <1>5. CASE Suspend(a)
    <2>1. status'[a] = "suspended" /\ bonus'[a] = bonus[a]
      BY <1>5 DEF Suspend, RowTypes
    <2> QED
      BY <1>1, <1>2, <1>3, <2>1 DEF BonusHeld
  <1> QED
    BY <1>4, <1>5

LEMMA ArriveBonus ==
    ASSUME RowTypes, BonusHeld, NEW s \in Slots, Arrive(s)
    PROVE  BonusHeld'
  <1>1. PICK route \in Routes, a \in Agents, k \in Keys :
            /\ status[a] \in {"unverified", "verified"}
            /\ req' = [req EXCEPT ![s] = [pc |-> "limit", route |-> route, agent |-> a, key |-> k,
                                          seen |-> status[a], challenge |-> 0]]
            /\ raced' = IF route = "confirm" /\ \E t \in Slots : Confirming(t, a)
                        THEN raced \cup {a} ELSE raced
    BY DEF Arrive
  <1>2. /\ req'[s].pc = "limit" /\ req'[s].route = route /\ req'[s].agent = a
        /\ req'[s].seen = status[a]
        /\ \A t \in Slots \ {s} : req'[t] = req[t]
    BY <1>1 DEF RowTypes
  <1>3. UNCHANGED <<status, bonus>> /\ raced \subseteq raced'
    BY <1>1 DEF Arrive
  <1>4. CASE route = "confirm" /\ status[a] = "unverified" /\ a \notin raced'
    <2>1. \A t \in Slots : ~Crediting(t, a)
      <3>1. \A t \in Slots : ~Confirming(t, a)
        BY <1>1, <1>4
      <3>2. \A t \in Slots : Crediting(t, a) => req[t].pc = "credit"
        BY <3>1 DEF Crediting, Confirming
      <3> QED
        BY <1>3, <1>4, <3>2 DEF BonusHeld
    <2>2. \A t \in Slots \ {s} : ~Crediting(t, a)'
      BY <1>2, <2>1 DEF Crediting
    <2>3. \A b \in Agents \ {a}, t \in Slots :
              Crediting(t, b)' => Crediting(t, b) /\ req'[t] = req[t]
      BY <1>2 DEF Crediting
    <2>4. bonus[a] = 0 /\ req'[s].pc # "credit"
      BY <1>2, <1>3, <1>4 DEF BonusHeld
    <2>5. ASSUME NEW b \in Agents \ raced', b # a
          PROVE  /\ bonus'[b] <= 1
                 /\ \A t, u \in Slots : Crediting(t, b)' /\ Crediting(u, b)' => t = u
                 /\ \A t \in Slots : Crediting(t, b)' => bonus'[b] = 0 /\ status'[b] # "none"
                 /\ \A t \in Slots : Crediting(t, b)' /\ req'[t].pc = "credit"
                                        => status'[b] # "unverified"
                 /\ status'[b] \in {"none", "unverified"} => bonus'[b] = 0
      BY <1>3, <2>3, <2>5 DEF BonusHeld
    <2> QED
      BY <1>3, <1>4, <2>2, <2>4, <2>5 DEF BonusHeld
  <1>5. CASE ~(route = "confirm" /\ status[a] = "unverified" /\ a \notin raced')
    <2>1. \A b \in Agents \ raced', t \in Slots :
              Crediting(t, b)' => Crediting(t, b) /\ req'[t] = req[t]
      BY <1>1, <1>2, <1>5 DEF Crediting
    <2> QED
      BY <1>3, <2>1 DEF BonusHeld
  <1> QED
    BY <1>4, <1>5

LEMMA MarkBonus ==
    ASSUME RowTypes, RouteSteps, BonusHeld, NEW s \in Slots, MarkVerified(s) \/ CreditBonus(s)
    PROVE  BonusHeld'
  <1>0. PICK a \in Agents : a = req[s].agent
    BY ReqType
  <1>1. Crediting(s, a) /\ UNCHANGED raced
    BY <1>0 DEF RouteSteps, Crediting, MarkVerified, CreditBonus
  <1>2. CASE MarkVerified(s)
    <2>1. /\ \A t \in Slots \ {s} : req'[t] = req[t]
          /\ req'[s].agent = a /\ req'[s].route = req[s].route /\ req'[s].pc = "credit"
      <3>1. Goto(s, "credit") /\ "credit" \in Pc
        BY <1>2 DEF MarkVerified, Pc
      <3>2. /\ req'[s] = [req[s] EXCEPT !.pc = "credit"]
            /\ \A t \in Slots \ {s} : req'[t] = req[t]
        BY <3>1, GotoStep
      <3>3. req[s] \in Request
        BY ReqType
      <3> QED
        BY <1>0, <3>2, <3>3 DEF Request
    <2>2. \A b \in Agents, t \in Slots :
              Crediting(t, b)' => Crediting(t, b) /\ ((t = s /\ b = a) \/ req'[t] = req[t])
      BY <1>1, <2>1 DEF Crediting
    <2>3. /\ status'[a] = "verified" /\ UNCHANGED bonus
          /\ \A b \in Agents \ {a} : status'[b] = status[b]
      BY <1>0, <1>2 DEF MarkVerified, RowTypes
    <2>4. ASSUME NEW b \in Agents \ raced
          PROVE  /\ bonus'[b] <= 1
                 /\ \A t, u \in Slots : Crediting(t, b)' /\ Crediting(u, b)' => t = u
                 /\ \A t \in Slots : Crediting(t, b)' => bonus'[b] = 0 /\ status'[b] # "none"
                 /\ status'[b] \in {"none", "unverified"} => bonus'[b] = 0
      BY <1>1, <2>2, <2>3, <2>4 DEF BonusHeld
    <2>5. ASSUME NEW b \in Agents \ raced, NEW t \in Slots, Crediting(t, b)', req'[t].pc = "credit"
          PROVE  status'[b] # "unverified"
      <3>1. CASE b = a
        BY <2>3, <3>1
      <3>2. CASE b # a
        BY <2>2, <2>3, <2>5, <3>2 DEF BonusHeld
      <3> QED
        BY <3>1, <3>2
    <2> QED
      BY <1>1, <2>4, <2>5 DEF BonusHeld
  <1>3. CASE CreditBonus(s)
    <2>1. /\ \A t \in Slots \ {s} : req'[t] = req[t]
          /\ req'[s].pc = "idle"
      BY <1>3, AnswerStep, IdleType DEF CreditBonus
    <2>2. \A b \in Agents, t \in Slots :
              Crediting(t, b)' => Crediting(t, b) /\ t # s /\ req'[t] = req[t]
      BY <2>1 DEF Crediting
    <2>3. /\ bonus'[a] = bonus[a] + 1 /\ UNCHANGED status
          /\ \A b \in Agents \ {a} : bonus'[b] = bonus[b]
      BY <1>0, <1>3 DEF CreditBonus, RowTypes
    <2>4. req[s].pc = "credit"
      BY <1>3 DEF CreditBonus
    <2>5. a \notin raced => /\ bonus'[a] = 1 /\ status[a] \notin {"none", "unverified"}
                            /\ \A t \in Slots : ~Crediting(t, a)'
      BY <1>1, <2>2, <2>3, <2>4 DEF BonusHeld
    <2>6. ASSUME NEW b \in Agents \ raced, b # a
          PROVE  /\ bonus'[b] <= 1
                 /\ \A t, u \in Slots : Crediting(t, b)' /\ Crediting(u, b)' => t = u
                 /\ \A t \in Slots : Crediting(t, b)' => bonus'[b] = 0 /\ status'[b] # "none"
                 /\ \A t \in Slots : Crediting(t, b)' /\ req'[t].pc = "credit"
                                        => status'[b] # "unverified"
                 /\ status'[b] \in {"none", "unverified"} => bonus'[b] = 0
      BY <2>2, <2>3, <2>6 DEF BonusHeld
    <2> QED
      BY <1>1, <2>3, <2>5, <2>6 DEF BonusHeld
  <1> QED
    BY <1>2, <1>3

\* Every other step of a request.
LEMMA RequestBonus ==
    ASSUME RowTypes, RouteSteps, BonusHeld, NEW s \in Slots,
           \/ Limited(s) \/ Lookup(s) \/ Reserve(s) \/ Transfer(s)
           \/ Verification(s) /\ ~MarkVerified(s) /\ ~CreditBonus(s)
    PROVE  BonusHeld'
  <1>1. UNCHANGED <<status, bonus>>
    BY DEF Limited, Lookup, Reserve, Transfer, Verification, InitiateInsert, ReadChallenge,
           VerifyChallenge, UseChallenge
  <1>2. raced \subseteq raced'
    BY DEF Limited, Lookup, Reserve, Transfer, Verification, InitiateInsert, ReadChallenge,
           VerifyChallenge, UseChallenge
  <1>3. req[s].pc # "mark"
    <2>1. Limited(s) \/ Lookup(s) \/ Reserve(s) \/ Transfer(s) => req[s].pc # "mark"
      BY DEF Limited, Lookup, Reserve, Transfer, TransferFails, TransferDone, StoreResult
    <2>2. Verification(s) /\ ~MarkVerified(s) /\ ~CreditBonus(s) => req[s].pc # "mark"
      BY DEF Verification, InitiateInsert, ReadChallenge, VerifyChallenge, UseChallenge
    <2> QED
      BY <2>1, <2>2
  <1>4. \A t \in Slots \ {s} : req'[t] = req[t]
    BY OneRequest
  <1>5. \/ req'[s] = Idle
        \/ /\ req'[s].route = req[s].route /\ req'[s].agent = req[s].agent
           /\ req'[s].seen = req[s].seen
           /\ \/ req[s].pc = "limit" /\ req'[s].pc = FirstStep(req[s].route)
                    /\ (req[s].route # "transfer" => req[s].seen # "verified")
              \/ req'[s].pc \in {"reserve", "run", "store"}
              \/ req[s].pc = "challenge" /\ req'[s].pc = "verify"
              \/ req[s].pc = "verify" /\ req'[s].pc = "use"
              \/ req[s].pc = "use" /\ req'[s].pc = "mark"
    BY <1>3, OneRequest
  <1>6. \A a \in Agents : Crediting(s, a)' => Crediting(s, a) /\ req'[s].pc # "credit"
    <2>1. FirstStep(req[s].route) # "credit"
      BY DEF FirstStep
    <2> QED
      BY <1>5, <2>1, IdleType DEF Crediting
  <1>7. \A a \in Agents, t \in Slots \ {s} : Crediting(t, a)' <=> Crediting(t, a)
    BY <1>4 DEF Crediting
  <1> QED
    BY <1>1, <1>2, <1>4, <1>6, <1>7, CalmStep

LEMMA BonusInvariance == RowTypes /\ RouteSteps /\ BonusHeld /\ [Next]_vars => BonusHeld'
  <1> SUFFICES ASSUME RowTypes, RouteSteps, BonusHeld, [Next]_vars PROVE BonusHeld'
    OBVIOUS
  <1>1. CASE UNCHANGED <<req, status, bonus>> /\ \A a \in Agents : a \in raced => a \in raced'
    BY <1>1, CalmStep DEF Crediting
  <1>2. ASSUME NEW k \in Keys, CleanUpKey(k) PROVE BonusHeld'
    BY <1>1, <1>2 DEF CleanUpKey
  <1>3. CASE Crash
    <2>1. UNCHANGED <<status, bonus, raced>> /\ \A s \in Slots : req'[s] = Idle
      BY <1>3 DEF Crash
    <2> QED
      BY <2>1, IdleType, CalmStep DEF Crediting
  <1>4. ASSUME NEW s \in Slots, Verification(s) PROVE BonusHeld'
    BY <1>4, MarkBonus, RequestBonus
  <1> QED
    BY <1>1, <1>2, <1>3, <1>4, AgentBonus, ArriveBonus, RequestBonus DEF Next, vars, Evict, Tick

LEMMA InitBonus == Init => BonusHeld
  BY IdleType DEF Init, BonusHeld, Crediting

\* Confirmations that do not overlap between authentication and the update of the
\* agent pay the starter bonus once, however often the owner confirms again.
THEOREM BonusPaidOnce == Spec => []BonusOnce
  <1>1. RowTypes /\ BonusHeld => BonusOnce
    BY DEF RowTypes, BonusHeld, BonusOnce
  <1> QED
    BY <1>1, InitTypes, TypeInvariance, InitHeld, RouteInvariance, InitBonus, BonusInvariance, PTL
       DEF Spec

(***************************************************************************)
(* Timestamps of a window: induction over the naturals and over sequences, *)
(* stated of the set of those a fact holds for                             *)
(***************************************************************************)
\* A set of numbers has a least one.
LEMMA Least ==
    ASSUME NEW T \in SUBSET Nat, T # {}
    PROVE  \E n \in T : \A m \in T : n <= m
  <1>1. PICK n \in T : \A m \in T : ~ (<<m, n>> \in OpToRel(<, Nat))
    BY NatLessThanWellFounded, WFMin
  <1>2. ASSUME NEW m \in T PROVE ~ (m < n)
    <2>1. m \in Nat /\ n \in Nat
      OBVIOUS
    <2> QED
    BY <1>1, <2>1 DEF OpToRel
  <1> QED
    BY <1>2

\* Induction over the naturals, on the set of those a fact holds for.
LEMMA Induction ==
    ASSUME NEW G \in SUBSET Nat, 0 \in G, \A n \in G : n + 1 \in G
    PROVE  G = Nat
  <1> DEFINE Bad == Nat \ G
  <1>1. ASSUME NEW n \in Bad, \A m \in Bad : n <= m PROVE FALSE
    <2>1. n \in Nat /\ n # 0 /\ n - 1 \in Nat /\ n - 1 + 1 = n /\ ~ (n <= n - 1)
      OBVIOUS
    <2>2. n - 1 \in G
      BY <1>1, <2>1
    <2> QED
      BY <2>1, <2>2
  <1>2. Bad \in SUBSET Nat
    OBVIOUS
  <1> HIDE DEF Bad
  <1>3. Bad = {}
    BY <1>1, <1>2, Least
  <1> QED
    BY <1>3 DEF Bad

\* What the recursion of Since computes up to the n-th timestamp.
Keeps(ts, at, n, kept) ==
    kept = [i \in 0 .. n |->
               IF i = 0 THEN <<>>
               ELSE IF ts[i] + Window > at THEN Append(kept[i - 1], ts[i]) ELSE kept[i - 1]]

LEMMA SinceExpands ==
    ASSUME NEW ts, NEW at
    PROVE  Since(ts, at) = (CHOOSE kept : Keeps(ts, at, Len(ts), kept))[Len(ts)]
  BY DEF Since, Keeps

LEMMA KeepsAt ==
    ASSUME NEW ts, NEW at, NEW n, NEW f, Keeps(ts, at, n, f), NEW i \in 0 .. n, i # 0
    PROVE  f[i] = IF ts[i] + Window > at THEN Append(f[i - 1], ts[i]) ELSE f[i - 1]
  <1>1. DOMAIN f = 0 .. n
    BY DEF Keeps
  <1>2. PICK rhs : /\ rhs = [j \in 0 .. n |->
                               IF j = 0 THEN <<>>
                               ELSE IF ts[j] + Window > at THEN Append(f[j - 1], ts[j]) ELSE f[j - 1]]
                   /\ f = rhs
    BY DEF Keeps
  <1>3. rhs[i] = IF ts[i] + Window > at THEN Append(f[i - 1], ts[i]) ELSE f[i - 1]
    BY <1>2
  <1> QED
    BY <1>2, <1>3

\* There is a function that the recursion describes.
LEMMA KeepsExist ==
    ASSUME NEW ts, NEW at, NEW n \in Nat
    PROVE  \E kept : Keeps(ts, at, n, kept)
  <1> DEFINE G == {m \in Nat : \E kept : Keeps(ts, at, m, kept)}
  <1>1. 0 \in G
    <2>1. Keeps(ts, at, 0, [i \in 0 .. 0 |-> <<>>])
      BY DEF Keeps
    <2> QED
      BY <2>1
  <1>2. ASSUME NEW m \in G PROVE m + 1 \in G
    <2>1. PICK f : Keeps(ts, at, m, f)
      OBVIOUS
    <2> DEFINE last == IF ts[m + 1] + Window > at THEN Append(f[m], ts[m + 1]) ELSE f[m]
               g == [i \in 0 .. m + 1 |-> IF i = m + 1 THEN last ELSE f[i]]
    <2>2. ASSUME NEW i \in 0 .. m + 1
          PROVE  g[i] = IF i = 0 THEN <<>>
                        ELSE IF ts[i] + Window > at THEN Append(g[i - 1], ts[i]) ELSE g[i - 1]
      <3>1. CASE i = m + 1
        <4>1. i # 0 /\ i - 1 = m /\ m \in 0 .. m + 1 /\ m # m + 1
          BY <3>1
        <4> QED
          BY <3>1, <4>1
      <3>2. CASE i # m + 1 /\ i # 0
        <4>1. i \in 0 .. m /\ i - 1 \in 0 .. m + 1 /\ i - 1 # m + 1
          BY <3>2
        <4>2. g[i] = f[i] /\ g[i - 1] = f[i - 1]
          BY <3>2, <4>1
        <4> HIDE DEF g
        <4> QED
          BY <2>1, <3>2, <4>1, <4>2 DEF Keeps
      <3>3. CASE i = 0
        <4>1. f[0] = <<>>
          BY <2>1 DEF Keeps
        <4>2. 0 # m + 1
          OBVIOUS
        <4> QED
          BY <3>3, <4>1, <4>2
      <3> QED
        BY <3>1, <3>2, <3>3
    <2>3. g = [i \in 0 .. m + 1 |-> g[i]]
      OBVIOUS
    <2> HIDE DEF g
    <2>4. Keeps(ts, at, m + 1, g)
      BY <2>2, <2>3 DEF Keeps
    <2> QED
      BY <2>4
  <1> HIDE DEF G
  <1>3. G \in SUBSET Nat
    BY DEF G
  <1>4. G = Nat
    BY <1>1, <1>2, <1>3, Induction
  <1> QED
    BY <1>4 DEF G

\* It is the same for two sequences as far as they agree.
LEMMA KeepsAgree ==
    ASSUME NEW ts, NEW us, NEW at, NEW n \in Nat, NEW m \in Nat, n <= m,
           \A i \in 1 .. n : ts[i] = us[i],
           NEW f, Keeps(ts, at, n, f), NEW g, Keeps(us, at, m, g)
    PROVE  f[n] = g[n]
  <1> DEFINE G == {k \in Nat : k <= n => f[k] = g[k]}
  <1>1. 0 \in G
    BY DEF Keeps
  <1>2. ASSUME NEW k \in G PROVE k + 1 \in G
    <2>1. CASE k + 1 <= n
      <3>1. k \in Nat /\ k + 1 \in 0 .. n /\ k + 1 \in 0 .. m /\ k + 1 \in 1 .. n /\ k + 1 # 0
            /\ k + 1 - 1 = k /\ k <= n
        BY <2>1
      <3>2. f[k] = g[k] /\ ts[k + 1] = us[k + 1]
        BY <3>1
      <3>3. f[k + 1] = IF ts[k + 1] + Window > at THEN Append(f[k], ts[k + 1]) ELSE f[k]
        BY <3>1, KeepsAt
      <3>4. g[k + 1] = IF us[k + 1] + Window > at THEN Append(g[k], us[k + 1]) ELSE g[k]
        BY <3>1, KeepsAt
      <3> QED
        BY <3>1, <3>2, <3>3, <3>4
    <2> QED
      BY <2>1
  <1> HIDE DEF G
  <1>3. G \in SUBSET Nat
    BY DEF G
  <1>4. G = Nat
    BY <1>1, <1>2, <1>3, Induction
  <1> QED
    BY <1>4 DEF G

\* The definition of Since, by cases.
LEMMA SinceEmpty == ASSUME NEW at PROVE Since(<<>>, at) = <<>>
  <1>1. PICK f : f = (CHOOSE kept : Keeps(<<>>, at, 0, kept)) /\ Keeps(<<>>, at, 0, f)
    BY KeepsExist
  <1>2. Len(<<>>) = 0
    OBVIOUS
  <1>3. f[0] = <<>>
    BY <1>1 DEF Keeps
  <1> QED
    BY <1>1, <1>2, <1>3, SinceExpands

LEMMA SinceAppend ==
    ASSUME NEW ts \in Seq(Nat), NEW x \in Nat, NEW at
    PROVE  Since(Append(ts, x), at)
             = IF x + Window > at THEN Append(Since(ts, at), x) ELSE Since(ts, at)
  <1> DEFINE us == Append(ts, x)
             n == Len(ts)
  <1>1. n \in Nat /\ Len(us) = n + 1 /\ us[n + 1] = x /\ \A i \in 1 .. n : ts[i] = us[i]
    BY AppendProperties, LenProperties
  <1> HIDE DEF us, n
  <1>2. PICK f : f = (CHOOSE kept : Keeps(ts, at, n, kept)) /\ Keeps(ts, at, n, f)
    BY <1>1, KeepsExist
  <1>3. n + 1 \in Nat /\ n <= n + 1
    BY <1>1
  <1>4. PICK g : g = (CHOOSE kept : Keeps(us, at, n + 1, kept)) /\ Keeps(us, at, n + 1, g)
    BY <1>3, KeepsExist
  <1>5. f[n] = g[n]
    BY <1>1, <1>2, <1>3, <1>4, KeepsAgree
  <1>6. n + 1 \in 0 .. n + 1 /\ n + 1 # 0 /\ n + 1 - 1 = n
    BY <1>1
  <1>7. g[n + 1] = IF x + Window > at THEN Append(g[n], x) ELSE g[n]
    BY <1>1, <1>4, <1>6, KeepsAt
  <1>8. Since(ts, at) = f[n]
    BY <1>2, SinceExpands DEF n
  <1>9. Since(us, at) = g[n + 1]
    BY <1>1, <1>4, SinceExpands
  <1> QED
    BY <1>5, <1>7, <1>8, <1>9 DEF us

LEMMA Appended ==
    ASSUME NEW ts \in Seq(Nat), ts # <<>>
    PROVE  \E us \in Seq(Nat) : \E x \in Nat : ts = Append(us, x)
  BY SequenceEmptyOrAppend

LEMMA SequenceInduction ==
    ASSUME NEW G \in SUBSET Seq(Nat), <<>> \in G, \A ts \in G : \A x \in Nat : Append(ts, x) \in G
    PROVE  G = Seq(Nat)
  <1> DEFINE H == {n \in Nat : \A ts \in Seq(Nat) : Len(ts) = n => ts \in G}
  <1>1. 0 \in H
    BY EmptySeq
  <1>2. ASSUME NEW n \in H PROVE n + 1 \in H
    <2>1. ASSUME NEW ts \in Seq(Nat), Len(ts) = n + 1 PROVE ts \in G
      <3>1. n \in Nat /\ ts # <<>>
        BY <2>1, EmptySeq
      <3>2. PICK us \in Seq(Nat) : \E x \in Nat : ts = Append(us, x)
        BY <2>1, <3>1, Appended
      <3>3. PICK x \in Nat : ts = Append(us, x)
        BY <3>2
      <3>4. Len(us) = n
        BY <2>1, <3>1, <3>3, AppendProperties, LenProperties
      <3> QED
        BY <3>3, <3>4
    <2> QED
      BY <2>1
  <1> HIDE DEF H
  <1>3. H \in SUBSET Nat
    BY DEF H
  <1>4. H = Nat
    BY <1>1, <1>2, <1>3, Induction
  <1> QED
    BY <1>4, LenProperties DEF H

LEMMA SinceType ==
    ASSUME NEW ts \in Seq(Nat), NEW at
    PROVE  Since(ts, at) \in Seq(Nat) /\ Len(Since(ts, at)) \in Nat /\ Len(Since(ts, at)) <= Len(ts)
  <1> DEFINE G == {us \in Seq(Nat) : Since(us, at) \in Seq(Nat) /\ Len(Since(us, at)) <= Len(us)}
  <1>1. <<>> \in G
    <2>1. <<>> \in Seq(Nat) /\ Since(<<>>, at) = <<>> /\ Len(<<>>) = 0
      BY SinceEmpty, EmptySeq
    <2>2. Len(Since(<<>>, at)) <= Len(<<>>)
      BY <2>1
    <2> QED
      BY <2>1, <2>2
  <1>2. ASSUME NEW us \in G, NEW x \in Nat PROVE Append(us, x) \in G
    <2>1. us \in Seq(Nat) /\ Since(us, at) \in Seq(Nat) /\ Len(Since(us, at)) <= Len(us)
      OBVIOUS
    <2>2. Append(us, x) \in Seq(Nat) /\ Len(Append(us, x)) = Len(us) + 1 /\ Len(us) \in Nat
      BY <2>1, AppendProperties, LenProperties
    <2>3. /\ Append(Since(us, at), x) \in Seq(Nat)
          /\ Len(Append(Since(us, at), x)) = Len(Since(us, at)) + 1
          /\ Len(Since(us, at)) \in Nat
      BY <2>1, AppendProperties, LenProperties
    <2>4. Since(Append(us, x), at)
            = IF x + Window > at THEN Append(Since(us, at), x) ELSE Since(us, at)
      BY <2>1, SinceAppend
    <2>5. CASE x + Window > at
      <3>1. Since(Append(us, x), at) = Append(Since(us, at), x)
        BY <2>4, <2>5
      <3>2. Len(Since(Append(us, x), at)) <= Len(Append(us, x))
        BY <2>1, <2>2, <2>3, <3>1
      <3> QED
        BY <2>2, <2>3, <3>1, <3>2
    <2>6. CASE ~ (x + Window > at)
      <3>1. Since(Append(us, x), at) = Since(us, at)
        BY <2>4, <2>6
      <3>2. Len(Since(Append(us, x), at)) <= Len(Append(us, x))
        BY <2>1, <2>2, <2>3, <3>1
      <3> QED
        BY <2>1, <2>2, <3>1, <3>2
    <2> QED
      BY <2>5, <2>6
  <1> HIDE DEF G
  <1>3. G \in SUBSET Seq(Nat)
    BY DEF G
  <1>4. G = Seq(Nat)
    BY <1>1, <1>2, <1>3, SequenceInduction
  <1> QED
    BY <1>4, LenProperties DEF G

\* Filtering at a time does not change what a later filter keeps.
LEMMA SinceTwice ==
    ASSUME NEW ts \in Seq(Nat), NEW at \in Nat, NEW bt \in Nat, at <= bt
    PROVE  Since(Since(ts, at), bt) = Since(ts, bt)
  <1> DEFINE G == {us \in Seq(Nat) : Since(Since(us, at), bt) = Since(us, bt)}
  <1>1. <<>> \in G
    BY SinceEmpty, EmptySeq
  <1>2. ASSUME NEW us \in G, NEW x \in Nat PROVE Append(us, x) \in G
    <2>1. us \in Seq(Nat) /\ Since(us, at) \in Seq(Nat) /\ Since(Since(us, at), bt) = Since(us, bt)
      BY SinceType
    <2>2. Append(us, x) \in Seq(Nat)
      BY <2>1, AppendProperties
    <2>3. /\ Since(Append(us, x), at)
               = IF x + Window > at THEN Append(Since(us, at), x) ELSE Since(us, at)
          /\ Since(Append(us, x), bt)
               = IF x + Window > bt THEN Append(Since(us, bt), x) ELSE Since(us, bt)
          /\ Since(Append(Since(us, at), x), bt)
               = IF x + Window > bt THEN Append(Since(Since(us, at), bt), x)
                                    ELSE Since(Since(us, at), bt)
      BY <2>1, SinceAppend
    <2>4. x + Window > bt => x + Window > at
      BY BoundsAssumption
    <2> QED
      BY <2>1, <2>2, <2>3, <2>4
  <1> HIDE DEF G
  <1>3. G \in SUBSET Seq(Nat)
    BY DEF G
  <1>4. G = Seq(Nat)
    BY <1>1, <1>2, <1>3, SequenceInduction
  <1> QED
    BY <1>4 DEF G

\* As time passes, fewer remain.
LEMMA SinceShrinks ==
    ASSUME NEW ts \in Seq(Nat), NEW at \in Nat, NEW bt \in Nat, at <= bt
    PROVE  Len(Since(ts, bt)) <= Len(Since(ts, at))
  BY SinceType, SinceTwice

UpTo(ts, last) == \A i \in 1 .. Len(ts) : ts[i] <= last
\* The last timestamp is the newest.
Newest(ts) == ts # <<>> => UpTo(ts, ts[Len(ts)])

LEMMA AppendUpTo ==
    ASSUME NEW ts \in Seq(Nat), NEW x \in Nat, NEW last \in Nat
    PROVE  UpTo(Append(ts, x), last) <=> UpTo(ts, last) /\ x <= last
  <1>1. /\ Len(ts) \in Nat /\ Len(Append(ts, x)) = Len(ts) + 1
        /\ \A i \in 1 .. Len(ts) : Append(ts, x)[i] = ts[i]
        /\ Append(ts, x)[Len(ts) + 1] = x
    BY AppendProperties, LenProperties
  <1>2. \A i \in 1 .. Len(ts) + 1 : i \in 1 .. Len(ts) \/ i = Len(ts) + 1
    BY <1>1
  <1>3. Len(ts) + 1 \in 1 .. Len(ts) + 1 /\ \A i \in 1 .. Len(ts) : i \in 1 .. Len(ts) + 1
    BY <1>1
  <1> QED
    BY <1>1, <1>2, <1>3 DEF UpTo

LEMMA SinceUpTo ==
    ASSUME NEW ts \in Seq(Nat), NEW at \in Nat, NEW last \in Nat, UpTo(ts, last)
    PROVE  UpTo(Since(ts, at), last) /\ (last + Window <= at => Since(ts, at) = <<>>)
  <1> DEFINE G == {us \in Seq(Nat) :
                     UpTo(us, last) => /\ UpTo(Since(us, at), last)
                                       /\ last + Window <= at => Since(us, at) = <<>>}
  <1>1. <<>> \in G
    BY SinceEmpty, EmptySeq DEF UpTo
  <1>2. ASSUME NEW us \in G, NEW x \in Nat PROVE Append(us, x) \in G
    <2>1. us \in Seq(Nat) /\ Since(us, at) \in Seq(Nat)
      BY SinceType
    <2>2. Append(us, x) \in Seq(Nat)
      BY <2>1, AppendProperties
    <2>3. Since(Append(us, x), at)
            = IF x + Window > at THEN Append(Since(us, at), x) ELSE Since(us, at)
      BY <2>1, SinceAppend
    <2>4. ASSUME UpTo(Append(us, x), last)
          PROVE  /\ UpTo(Since(Append(us, x), at), last)
                 /\ last + Window <= at => Since(Append(us, x), at) = <<>>
      <3>1. UpTo(us, last) /\ x <= last
        BY <2>1, <2>4, AppendUpTo
      <3>2. UpTo(Since(us, at), last) /\ (last + Window <= at => Since(us, at) = <<>>)
        BY <3>1
      <3>3. UpTo(Append(Since(us, at), x), last)
        BY <2>1, <3>1, <3>2, AppendUpTo
      <3>4. last + Window <= at => ~ (x + Window > at)
        BY <3>1, BoundsAssumption
      <3> QED
        BY <2>3, <3>2, <3>3, <3>4
    <2> QED
      BY <2>2, <2>4
  <1> HIDE DEF G
  <1>3. G \in SUBSET Seq(Nat)
    BY DEF G
  <1>4. G = Seq(Nat)
    BY <1>1, <1>2, <1>3, SequenceInduction
  <1> QED
    BY <1>4 DEF G

LEMMA AppendNewest ==
    ASSUME NEW ts \in Seq(Nat), NEW x \in Nat, UpTo(ts, x)
    PROVE  Newest(Append(ts, x)) /\ UpTo(Append(ts, x), x)
  <1>1. Len(ts) \in Nat /\ Len(Append(ts, x)) = Len(ts) + 1 /\ Append(ts, x)[Len(ts) + 1] = x
    BY AppendProperties, LenProperties
  <1> QED
    BY <1>1, AppendUpTo DEF Newest

LEMMA SinceNewest ==
    ASSUME NEW ts \in Seq(Nat), Newest(ts), NEW at \in Nat
    PROVE  Newest(Since(ts, at))
  <1>1. CASE ts = <<>>
    BY <1>1, SinceEmpty DEF Newest
  <1>2. CASE ts # <<>>
    <2>1. PICK us \in Seq(Nat), x \in Nat : ts = Append(us, x)
      BY <1>2, SequenceEmptyOrAppend
    <2>2. Len(us) \in Nat /\ Len(ts) = Len(us) + 1 /\ ts[Len(us) + 1] = x
      BY <2>1, AppendProperties, LenProperties
    <2>3. UpTo(us, x)
      BY <1>2, <2>1, <2>2, AppendUpTo DEF Newest
    <2>4. Since(ts, at) = IF x + Window > at THEN Append(Since(us, at), x) ELSE Since(us, at)
      BY <2>1, SinceAppend
    <2>5. UpTo(Since(us, at), x) /\ (x + Window <= at => Since(us, at) = <<>>)
      BY <2>3, SinceUpTo
    <2>6. Newest(Append(Since(us, at), x))
      BY <2>5, SinceType, AppendNewest
    <2>7. x + Window > at \/ x + Window <= at
      BY BoundsAssumption
    <2> QED
      BY <2>4, <2>5, <2>6, <2>7 DEF Newest
  <1> QED
    BY <1>1, <1>2

(***************************************************************************)
(* Rate limits                                                             *)
(***************************************************************************)
\* How many timestamps of ts are left in the window at a time.
Left(ts, at) == Len(Since(ts, at))

\* From now on, the store of a limiter accounts for whom it let pass, but for what the
\* crashes have wiped, and in memory it is never over the limit.
Counted(l) ==
    \A at \in Nat : at >= now =>
        /\ Left(admitted[l], at) <= Limit * faults + Left(window[l], at)
        /\ Left(admitted[l], at) <= Limit * faults + Limit
        /\ ~redis => Left(window[l], at) <= Limit
StoreTypes ==
    redis \in BOOLEAN /\ window \in [Limiters -> Seq(Nat)] /\ admitted \in [Limiters -> Seq(Nat)]
RateInv ==
    /\ StoreTypes
    /\ \A l \in Limiters : UpTo(window[l], now) /\ Newest(window[l]) /\ Counted(l)

LEMMA Bounds == Limit \in Nat /\ Window \in Nat
  BY BoundsAssumption

LEMMA LeftType == ASSUME NEW ts \in Seq(Nat), NEW at PROVE Left(ts, at) \in Nat
  BY SinceType DEF Left

LEMMA LeftEmpty == ASSUME NEW at PROVE Left(<<>>, at) = 0
  BY SinceEmpty DEF Left

LEMMA LeftAppend ==
    ASSUME NEW ts \in Seq(Nat), NEW x \in Nat, NEW at \in Nat
    PROVE  Left(Append(ts, x), at) = Left(ts, at) + IF x + Window > at THEN 1 ELSE 0
  <1>1. Since(ts, at) \in Seq(Nat) /\ Len(Since(ts, at)) \in Nat
    BY SinceType
  <1>2. Len(Append(Since(ts, at), x)) = Len(Since(ts, at)) + 1
    BY <1>1, AppendProperties
  <1>3. CASE x + Window > at
    BY <1>1, <1>2, <1>3, SinceAppend DEF Left
  <1>4. CASE ~ (x + Window > at)
    BY <1>1, <1>4, SinceAppend DEF Left
  <1> QED
    BY <1>3, <1>4

LEMMA LeftLater ==
    ASSUME NEW ts \in Seq(Nat), NEW at \in Nat, NEW bt \in Nat, at <= bt
    PROVE  Left(Since(ts, at), bt) = Left(ts, bt) /\ Left(ts, bt) <= Left(ts, at)
  BY SinceTwice, SinceShrinks DEF Left

\* A request comes to a limiter.
LEMMA CheckCounted ==
    ASSUME RowTypes, RateInv, NEW l \in Limiters, Check(l), UNCHANGED <<redis, now, faults>>
    PROVE  /\ window'[l] \in Seq(Nat) /\ admitted'[l] \in Seq(Nat)
           /\ \A m \in Limiters \ {l} : window'[m] = window[m] /\ admitted'[m] = admitted[m]
           /\ window' \in [Limiters -> Seq(Nat)] /\ admitted' \in [Limiters -> Seq(Nat)]
           /\ UpTo(window'[l], now) /\ Newest(window'[l]) /\ Counted(l)'
  <1> DEFINE recent == Since(window[l], now)
             allowed == Left(window[l], now) < Limit
             kept == IF allowed \/ redis THEN Append(recent, now) ELSE recent
             passed == IF allowed THEN Append(admitted[l], now) ELSE admitted[l]
  <1>1. /\ window[l] \in Seq(Nat) /\ admitted[l] \in Seq(Nat) /\ now \in Nat /\ faults \in Nat
        /\ recent \in Seq(Nat) /\ redis \in BOOLEAN
    BY SinceType, BoundsAssumption DEF RateInv, StoreTypes, RowTypes
  <1>2. kept \in Seq(Nat) /\ passed \in Seq(Nat)
    BY <1>1, AppendProperties
  <1>3. window' = [window EXCEPT ![l] = kept] /\ admitted' = [admitted EXCEPT ![l] = passed]
    BY DEF Check, MayPass, Recent, Left
  <1>4. UpTo(recent, now) /\ Newest(recent)
    BY <1>1, SinceUpTo, SinceNewest DEF RateInv
  <1>5. UpTo(kept, now) /\ Newest(kept)
    BY <1>1, <1>4, AppendNewest
  <1>6. ASSUME NEW at \in Nat, at >= now
        PROVE  /\ Left(passed, at) <= Limit * faults + Left(kept, at)
               /\ Left(passed, at) <= Limit * faults + Limit
               /\ ~redis => Left(kept, at) <= Limit
    <2> DEFINE one == IF now + Window > at THEN 1 ELSE 0
    <2>1. one \in 0 .. 1
      OBVIOUS
    <2>2. Left(recent, at) = Left(window[l], at) /\ Left(window[l], at) <= Left(window[l], now)
      BY <1>1, <1>6, LeftLater
    <2>3. /\ Left(Append(recent, now), at) = Left(recent, at) + one
          /\ Left(Append(admitted[l], now), at) = Left(admitted[l], at) + one
      BY <1>1, <1>6, LeftAppend
    <2>4. /\ Left(admitted[l], at) \in Nat /\ Left(window[l], at) \in Nat
          /\ Left(window[l], now) \in Nat
      BY <1>1, <1>6, LeftType
    <2>5. /\ Left(admitted[l], at) <= Limit * faults + Left(window[l], at)
          /\ Left(admitted[l], at) <= Limit * faults + Limit
          /\ ~redis => Left(window[l], at) <= Limit
      BY <1>6 DEF RateInv, Counted
    <2>6. PICK lost \in Nat : lost = Limit * faults
      BY <1>1, Bounds
    <2> HIDE DEF one, recent
    <2>7. CASE allowed
      <3>1. kept = Append(recent, now) /\ passed = Append(admitted[l], now)
        BY <2>7
      <3>2. Left(window[l], at) + 1 <= Limit
        BY <2>2, <2>4, <2>7, Bounds
      <3> HIDE DEF kept, passed
      <3> QED
        BY <2>1, <2>2, <2>3, <2>4, <2>5, <2>6, <3>1, <3>2, Bounds
    <2>8. CASE ~allowed /\ redis
      <3>1. kept = Append(recent, now) /\ passed = admitted[l]
        BY <2>8
      <3> HIDE DEF kept, passed
      <3> QED
        BY <2>1, <2>2, <2>3, <2>4, <2>5, <2>6, <2>8, <3>1, Bounds
    <2>9. CASE ~allowed /\ ~redis
      <3>1. kept = recent /\ passed = admitted[l]
        BY <2>9
      <3> HIDE DEF kept, passed
      <3> QED
        BY <2>2, <2>5, <3>1
    <2> QED
      BY <2>7, <2>8, <2>9
  <1> HIDE DEF kept, passed
  <1>7. window'[l] = kept /\ admitted'[l] = passed
    BY <1>3 DEF RateInv, StoreTypes
  <1>8. Counted(l)'
    BY <1>6, <1>7 DEF Counted
  <1> QED
    BY <1>2, <1>3, <1>5, <1>7, <1>8 DEF RateInv, StoreTypes

LEMMA LimitedRates == ASSUME RowTypes, RateInv, NEW s \in Slots, Limited(s) PROVE RateInv'
  <1>1. LimiterOf(req[s]) \in Limiters
    BY ReqType DEF LimiterOf, Limiters
  <1>2. PICK l \in Limiters : l = LimiterOf(req[s])
    BY <1>1
  <1>3. Check(l) /\ UNCHANGED <<redis, now, faults>>
    BY <1>2 DEF Limited
  <1>4. \A m \in Limiters \ {l} : (UpTo(window[m], now) /\ Newest(window[m]) /\ Counted(m))'
    BY <1>3, CheckCounted DEF RateInv, Counted
  <1>5. UpTo(window'[l], now) /\ Newest(window'[l]) /\ Counted(l)' /\ now' = now
    BY <1>3, CheckCounted
  <1>6. StoreTypes'
    BY <1>3, CheckCounted DEF RateInv, StoreTypes
  <1> QED
    BY <1>4, <1>5, <1>6 DEF RateInv

\* The sweep removes what no window reaches back to.
LEMMA EvictRates == ASSUME RowTypes, RateInv, NEW l \in Limiters, Evict(l) PROVE RateInv'
  <1>1. /\ window[l] \in Seq(Nat) /\ window[l] # <<>> /\ window' = [window EXCEPT ![l] = <<>>]
        /\ UNCHANGED <<redis, admitted, now, faults>> /\ now \in Nat
        /\ window[l][Len(window[l])] + 2 * Window < now
    BY BoundsAssumption DEF Evict, RateInv, StoreTypes, RowTypes
  <1>2. PICK last \in Nat : last = window[l][Len(window[l])]
    BY <1>1, EmptySeq, LenProperties
  <1>3. UpTo(window[l], last)
    BY <1>1, <1>2 DEF RateInv, Newest
  <1>4. ASSUME NEW at \in Nat, at >= now PROVE Left(window[l], at) = Left(<<>>, at)
    <2>1. last + Window <= at
      BY <1>1, <1>2, <1>4, Bounds
    <2> QED
      BY <1>1, <1>2, <1>3, <1>4, <2>1, SinceUpTo, SinceEmpty DEF Left
  <1>5. window'[l] = <<>> /\ \A m \in Limiters \ {l} : window'[m] = window[m]
    BY <1>1 DEF RateInv, StoreTypes
  <1>6. StoreTypes'
    BY <1>1, EmptySeq DEF RateInv, StoreTypes
  <1>7. UpTo(<<>>, now) /\ Newest(<<>>)
    BY EmptySeq DEF UpTo, Newest
  <1>8. Counted(l)'
    <2>1. \A at \in Nat : at >= now => Left(window'[l], at) = Left(window[l], at)
      BY <1>4, <1>5
    <2> QED
      BY <1>1, <2>1 DEF RateInv, Counted
  <1>9. \A m \in Limiters \ {l} : (UpTo(window[m], now) /\ Newest(window[m]) /\ Counted(m))'
    BY <1>1, <1>5 DEF RateInv, Counted
  <1> QED
    BY <1>1, <1>5, <1>6, <1>7, <1>8, <1>9 DEF RateInv

LEMMA TickRates == ASSUME RowTypes, RateInv, Tick PROVE RateInv'
  <1>1. /\ now \in Nat /\ now' = now + 1 /\ UNCHANGED <<redis, window, faults>>
        /\ admitted' = [l \in Limiters |-> Since(admitted[l], now + 1)]
    BY BoundsAssumption DEF Tick, RowTypes
  <1>2. StoreTypes'
    BY <1>1, SinceType DEF RateInv, StoreTypes
  <1>3. ASSUME NEW l \in Limiters
        PROVE  (UpTo(window[l], now) /\ Newest(window[l]) /\ Counted(l))'
    <2>1. window[l] \in Seq(Nat) /\ admitted[l] \in Seq(Nat)
      BY DEF RateInv, StoreTypes
    <2>2. UpTo(window[l], now + 1)
      <3>1. \A i \in 1 .. Len(window[l]) : window[l][i] \in Nat
        BY <2>1, LenProperties
      <3> QED
        BY <1>1, <3>1 DEF RateInv, UpTo
    <2>3. \A at \in Nat : at >= now + 1 => Left(admitted'[l], at) = Left(admitted[l], at)
      BY <1>1, <2>1, LeftLater
    <2>4. \A at \in Nat : at >= now + 1 => at >= now
      BY <1>1
    <2>5. Counted(l)'
      BY <1>1, <2>3, <2>4 DEF RateInv, Counted
    <2> QED
      BY <1>1, <2>2, <2>5 DEF RateInv
  <1> QED
    BY <1>2, <1>3 DEF RateInv

\* A crash wipes at most a window full of requests.
LEMMA CrashRates == ASSUME RowTypes, RateInv, Crash PROVE RateInv'
  <1>1. /\ now \in Nat /\ faults \in Nat /\ faults' = faults + 1
        /\ UNCHANGED <<redis, admitted, now>>
        /\ window' = IF redis THEN window ELSE [l \in Limiters |-> <<>>]
    BY BoundsAssumption DEF Crash, RowTypes
  <1>2. Limit * faults' = Limit * faults + Limit /\ Limit * faults \in Nat
    BY <1>1, Bounds
  <1>3. StoreTypes'
    BY <1>1, EmptySeq DEF RateInv, StoreTypes
  <1>4. ASSUME NEW l \in Limiters
        PROVE  (UpTo(window[l], now) /\ Newest(window[l]) /\ Counted(l))'
    <2>1. window'[l] = window[l] \/ (~redis /\ window'[l] = <<>>)
      BY <1>1
    <2>2. UpTo(<<>>, now) /\ Newest(<<>>)
      BY EmptySeq DEF UpTo, Newest
    <2>3. ASSUME NEW at \in Nat, at >= now
          PROVE  /\ Left(admitted[l], at) <= Limit * faults + Limit + Left(window'[l], at)
                 /\ Left(admitted[l], at) <= Limit * faults + Limit + Limit
                 /\ ~redis => Left(window'[l], at) <= Limit
      <3>1. /\ Left(admitted[l], at) <= Limit * faults + Left(window[l], at)
            /\ Left(admitted[l], at) <= Limit * faults + Limit
            /\ ~redis => Left(window[l], at) <= Limit
        BY <2>3 DEF RateInv, Counted
      <3>2. Left(admitted[l], at) \in Nat /\ Left(window[l], at) \in Nat
        BY LeftType DEF RateInv, StoreTypes
      <3>3. Left(window'[l], at) = Left(window[l], at) \/ (~redis /\ Left(window'[l], at) = 0)
        BY <2>1, LeftEmpty
      <3>4. PICK lost \in Nat : lost = Limit * faults
        BY <1>2
      <3> QED
        BY <3>1, <3>2, <3>3, <3>4, Bounds
    <2>4. Counted(l)'
      BY <1>1, <1>2, <2>3 DEF Counted
    <2> QED
      BY <1>1, <2>1, <2>2, <2>4 DEF RateInv
  <1> QED
    BY <1>3, <1>4 DEF RateInv

LEMMA RateInvariance == RowTypes /\ RateInv /\ [Next]_vars => RateInv'
  <1> SUFFICES ASSUME RowTypes, RateInv, [Next]_vars PROVE RateInv'
    OBVIOUS
  <1>1. CASE UNCHANGED <<redis, window, admitted, now, faults>>
    BY <1>1 DEF RateInv, StoreTypes, Counted
  <1>2. ASSUME NEW s \in Slots, Arrive(s) \/ Lookup(s) \/ Reserve(s) \/ Transfer(s) \/ Verification(s)
        PROVE  RateInv'
    BY <1>1, <1>2 DEF Arrive, Lookup, Reserve, Transfer, TransferFails, TransferDone, StoreResult,
                      Verification, store
  <1>3. ASSUME NEW a \in Agents, Register(a) \/ Suspend(a) PROVE RateInv'
    BY <1>1, <1>3 DEF Register, Suspend, store
  <1>4. ASSUME NEW k \in Keys, CleanUpKey(k) PROVE RateInv'
    BY <1>1, <1>4 DEF CleanUpKey, store
  <1>5. CASE UNCHANGED vars
    BY <1>1, <1>5 DEF vars, store
  <1> QED
    BY <1>2, <1>3, <1>4, <1>5, LimitedRates, EvictRates, TickRates, CrashRates DEF Next

LEMMA InitRates == Init => RateInv
  <1> SUFFICES ASSUME Init PROVE RateInv
    OBVIOUS
  <1>1. StoreTypes
    BY EmptySeq DEF Init, StoreTypes
  <1>2. Limit * faults = 0
    BY Bounds DEF Init
  <1>3. ASSUME NEW l \in Limiters PROVE UpTo(window[l], now) /\ Newest(window[l]) /\ Counted(l)
    <2>1. window[l] = <<>> /\ admitted[l] = <<>>
      BY DEF Init
    <2>2. \A at \in Nat : Left(<<>>, at) = 0
      BY LeftEmpty
    <2>3. Counted(l)
      BY <1>2, <2>1, <2>2, Bounds DEF Counted
    <2> QED
      BY <2>1, <2>3, EmptySeq DEF UpTo, Newest
  <1> QED
    BY <1>1, <1>3 DEF RateInv

\* Every variable keeps its type, the stores of the limiters included.
THEOREM TypeCorrect == Spec => []TypeOK
  <1>1. RowTypes /\ RateInv => TypeOK
    BY DEF RateInv, StoreTypes, TypeOK
  <1> QED
    BY <1>1, InitTypes, TypeInvariance, InitRates, RateInvariance, PTL DEF Spec

\* In no window of time do more requests pass a limiter than its limit, in memory or in
\* Redis, through sweeps and bursts; each restart may let one more window full pass.
THEOREM RateIsKept == Spec => []RateKept
  <1>1. RowTypes /\ RateInv => RateKept
    <2> SUFFICES ASSUME RowTypes, RateInv, NEW l \in Limiters
                 PROVE  Len(Recent(admitted[l])) <= Limit * (1 + faults)
      BY DEF RateKept
    <2>1. now \in Nat /\ faults \in Nat /\ now >= now
      BY BoundsAssumption DEF RowTypes
    <2>2. Left(admitted[l], now) <= Limit * faults + Limit
      BY <2>1 DEF RateInv, Counted
    <2>3. Limit * (1 + faults) = Limit * faults + Limit
      BY <2>1, Bounds
    <2> QED
      BY <2>2, <2>3 DEF Recent, Left
  <1> QED
    BY <1>1, InitTypes, TypeInvariance, InitRates, RateInvariance, PTL DEF Spec
=============================================================================
