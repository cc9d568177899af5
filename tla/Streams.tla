------------------------------ MODULE Streams ------------------------------
(***************************************************************************)
(* Who is told what about one A2A task: the event streams of               *)
(* POST /a2a (routes/a2a.ts), the in-process emitter behind them           *)
(* (a2a/sse.ts), the push notifications (a2a/push.ts) and the client       *)
(* library that agents run (lib/sse-client.ts).                            *)
(*                                                                         *)
(* A handler that moves the task checks the row, awaits, updates it by its *)
(* id alone and, some awaits later, notifies: `moving' holds the handlers  *)
(* between check and update, `due' counts the notices on their way.  So    *)
(* two handlers may overlap, and the later update wins, over a completed   *)
(* or a cancelled task too.  A stream reads the task, awaits the write of  *)
(* its first event and only then registers its listener, so a notice can   *)
(* fall in between; tasks/cancel, the task timeout and a submission for    *)
(* review notify nobody.  What saves a subscriber is that a stream has a   *)
(* maximum lifetime and that the client reconnects and reads the task      *)
(* again.                                                                  *)
(*                                                                         *)
(* What else these handlers write is the subject of Tasks and Validation.  *)
(* The task comes from message/stream, so it is never a system task.       *)
(***************************************************************************)
EXTENDS Naturals, Sequences, FiniteSets

CONSTANTS
    Subscribers,    \* clients in subscribeToTask
    Creators,       \* clients in createAndSubscribe
    Pollers,        \* clients in pollTaskUntilDone
    Submissions,    \* submissions that go to review
    MaxCalls,       \* bound: how many of these clients are called
    MaxOverlaps,    \* bound: how often a handler begins while another is at work
    MaxReopens,     \* bound: how often a rejection or a timeout reopens the task
    MaxBreaks       \* bound: broken connections, failed fetches, restarts

Clients == Subscribers \cup Creators \cup Pollers

ASSUME ClientsAssumption ==
    /\ Subscribers \cap Creators = {}
    /\ Subscribers \cap Pollers = {}
    /\ Creators \cap Pollers = {}
ASSUME BoundsAssumption == {MaxCalls, MaxOverlaps, MaxReopens, MaxBreaks} \subseteq Nat

VARIABLES
    status,     \* the task's status, "none" before it is created
    submission, \* submission[u]: the status of a submission in review
    moving,     \* handlers that move the task, from their check to their update
    overlaps,   \* how often one of them began while another was at work
    overtaken,  \* terminal states that a late handler replaced (history)
    reopens,    \* how often the task was to be reopened
    due,        \* due[s]: handlers about to announce state s
    stream,     \* stream[c]: the server's side of client c's connection
    chan,       \* chan[c]: what the server sent and c has not read
    client,     \* client[c]: where c's loop is
    told,       \* told[c]: the states c's caller was given by onFinal, in order
    push,       \* is a push URL configured for the task
    posts,      \* push notifications of the end on their way
    heard,      \* ends the push receiver was told of
    breaks

taskVars == <<status, submission, moving, overlaps, overtaken, reopens, due>>
streamVars == <<stream, chan, client, told>>
pushVars == <<push, posts, heard>>
a2aVars == <<status, submission, moving, overlaps, overtaken, reopens, due, stream, chan, client, told,
             push, posts, heard, breaks>>

Statuses == {"none", "open", "in_progress", "validating", "completed", "cancelled"}

A2ATaskState ==
    {"submitted", "working", "input-required", "completed", "failed", "canceled", "unknown"}

\* Mutant of umwStatusToA2A: with a status in review taken for the end.
ReviewIsDone(s) == IF s \in {"validating", "completed"} THEN "completed" ELSE "working"

\* Mutant of umwStatusToA2A: passing through what it does not list.
PassedThrough(s) == IF s = "completed" THEN "completed" ELSE s

umwStatusToA2A(s) ==
    CASE s = "open" -> "submitted"
      [] s = "in_progress" -> "working"
      [] s = "validating" -> "input-required"
      [] s = "completed" -> "completed"
      [] s = "cancelled" -> "canceled"
      [] OTHER -> "unknown"

TERMINAL_STATES == {"completed", "failed", "canceled", "unknown"}

\* The states of a task that is over.
Ends == {"completed", "canceled"}

\* The states that handlers announce.
Announced == {"working", "completed", "failed", "canceled"}

\* The handlers that move the task, what they make of it and what they announce.
Becomes == [accept |-> "in_progress", delete |-> "cancelled", rpc |-> "cancelled",
            submit |-> "completed", review |-> "validating",
            approve |-> "completed", reject |-> "open"]
Announces == [accept |-> "working", delete |-> "canceled", submit |-> "completed",
              approve |-> "completed", reject |-> "failed",
              rpc |-> "nothing", review |-> "nothing"]
Verdicts == {"approve", "reject"}

NoSub == "no submission"
TaskMove == [op : DOMAIN Becomes, sub : Submissions \cup {NoSub},
         after : BOOLEAN,       \* was the task over when the handler checked it?
         id : Nat]              \* tells handlers that overlap apart

\* What a stream carries: the state of an event, an error, the end of the
\* response, a broken connection.
WireItem == A2ATaskState \cup {"error", "eof", "reset"}

\* The server's side of a connection.  A stream in "ending" has resolved
\* streamDone but not yet taken its listener off; one in "closing" never had
\* a listener.
StreamRow == [pc : {"none", "create", "read", "get", "write", "listen", "ending", "closing"},
              state : A2ATaskState, closed : BOOLEAN]
NoStream == [pc |-> "none", state |-> "submitted", closed |-> FALSE]

ClientPc == {"idle", "reading", "following", "waiting", "resolved", "rejected"}
Done(c) == client[c] \in {"resolved", "rejected"}

A2AInit ==
    /\ status \in {"none", "open"}
    /\ submission = [u \in Submissions |-> "none"]
    /\ moving = {}
    /\ overlaps = 0
    /\ overtaken = {}
    /\ reopens = 0
    /\ due = [s \in Announced |-> 0]
    /\ stream = [c \in Clients |-> NoStream]
    /\ chan = [c \in Clients |-> <<>>]
    /\ client = [c \in Clients |-> "idle"]
    /\ told = [c \in Clients |-> <<>>]
    /\ push = FALSE
    /\ posts = {}
    /\ heard = {}
    /\ breaks = 0

(***************************************************************************)
(* The task                                                                *)
(***************************************************************************)
Over == status \in {"completed", "cancelled"}

\* A handler has read the task and passed its check.
Checked(op, u) ==
    /\ overlaps' = IF moving = {} THEN overlaps ELSE overlaps + 1
    /\ overlaps' <= MaxOverlaps
    /\ moving' = moving \cup {[op |-> op, sub |-> u, after |-> Over, id |-> overlaps']}
    /\ reopens' = IF op = "reject" THEN reopens + 1 ELSE reopens
    /\ reopens' <= MaxReopens
    /\ UNCHANGED <<status, submission, overtaken, due, streamVars, pushVars, breaks>>

AcceptBid == status = "open" /\ Checked("accept", NoSub)
DeleteTask == status = "open" /\ Checked("delete", NoSub)      \* DELETE /v1/tasks/:id
CancelByRpc == status = "open" /\ Checked("rpc", NoSub)        \* tasks/cancel
Submit == status = "in_progress" /\ Checked("submit", NoSub)   \* approved at once
SubmitForReview(u) ==
    /\ status = "in_progress"
    /\ submission[u] = "none" /\ \A r \in moving : r.sub /= u
    /\ Checked("review", u)

\* applyApproval and applyRejection look at the submission, not at the task.
Decide(u, op) == submission[u] = "validating" /\ Checked(op, u)

\* A terminal state is replaced by a handler that checked before it was reached,
\* or by the verdict on a submission that was handed in before.
Overtakes(r) ==
    /\ Over /\ umwStatusToA2A(status) /= umwStatusToA2A(Becomes[r.op])
    /\ ~r.after \/ r.op \in Verdicts

\* The handler's update of the task, by its id; those that notify will do so later.
Update(r) ==
    /\ r \in moving
    /\ status' = Becomes[r.op]
    /\ submission' = [u \in Submissions |->
                         IF u /= r.sub THEN submission[u]
                         ELSE IF r.op = "review" THEN "validating" ELSE "decided"]
    /\ due' = [s \in Announced |-> IF s = Announces[r.op] THEN due[s] + 1 ELSE due[s]]
    /\ overtaken' = IF Overtakes(r) THEN overtaken \cup {umwStatusToA2A(status)} ELSE overtaken
    /\ moving' = moving \ {r}
    /\ UNCHANGED <<overlaps, reopens, streamVars, pushVars, breaks>>

\* The task timeout updates a task in progress only.
ExecutorTimeout ==
    /\ status = "in_progress" /\ reopens < MaxReopens
    /\ status' = "open"
    /\ reopens' = reopens + 1
    /\ UNCHANGED <<submission, moving, overlaps, overtaken, due, streamVars, pushVars, breaks>>

TaskMoves == \/ AcceptBid \/ DeleteTask \/ CancelByRpc \/ Submit \/ ExecutorTimeout
             \/ \E u \in Submissions : SubmitForReview(u) \/ \E op \in Verdicts : Decide(u, op)
             \/ \E r \in moving : Update(r)

(***************************************************************************)
(* The clients: lib/sse-client.ts                                          *)
(***************************************************************************)
\* The request of each kind of client: tasks/subscribe, message/stream (which
\* is to create the task) and tasks/get.
Handler(c) == CASE c \in Subscribers -> "read" [] c \in Creators -> "create" [] OTHER -> "get"

CanFetch(c) ==
    \/ client[c] = "waiting"
    \/ client[c] = "idle" /\ Cardinality({d \in Clients : client[d] /= "idle"}) < MaxCalls

\* fetch: first call, reconnection or next poll.  What is left of an earlier
\* connection is forgotten (the server finds out by itself).
Connect(c) ==
    /\ CanFetch(c)
    /\ c \in Creators => status = "none"
    /\ client' = [client EXCEPT ![c] = "reading"]
    /\ stream' = [stream EXCEPT ![c] = [NoStream EXCEPT !.pc = Handler(c)]]
    /\ chan' = [chan EXCEPT ![c] = <<>>]
    /\ UNCHANGED <<taskVars, told, pushVars, breaks>>

\* What a client does when the connection fails or ends too early: subscribeToTask
\* waits and reconnects (MAX_RECONNECTS = 0), the others throw.
AfterLoss(c) == IF c \in Subscribers THEN "waiting" ELSE "rejected"

\* fetch throws, or answers with an HTTP error.
FetchFails(c) ==
    /\ CanFetch(c)
    /\ breaks < MaxBreaks
    /\ breaks' = breaks + 1
    /\ client' = [client EXCEPT ![c] = AfterLoss(c)]
    /\ UNCHANGED <<taskVars, stream, chan, told, pushVars>>

\* The reader is cancelled: what was not read is dropped, and the server's
\* stream is aborted.
Leaves(c, pc) ==
    /\ client' = [client EXCEPT ![c] = pc]
    /\ chan' = [chan EXCEPT ![c] = <<>>]
    /\ stream' = [stream EXCEPT ![c].closed = TRUE]

\* Mutant of Final: the loop goes on reading.
FinalReadsOn(c, s) ==
    /\ told' = [told EXCEPT ![c] = Append(@, s)]
    /\ chan' = [chan EXCEPT ![c] = Tail(@)]
    /\ UNCHANGED <<client, stream>>

Final(c, s) ==
    /\ told' = [told EXCEPT ![c] = Append(@, s)]
    /\ Leaves(c, "resolved")

\* An event that is not final: the streaming clients read on, the poller
\* sleeps for its interval.
NotFinal(c) ==
    /\ chan' = [chan EXCEPT ![c] = Tail(@)]
    /\ client' = [client EXCEPT ![c] = IF c \in Pollers THEN "waiting" ELSE "following"]
    /\ UNCHANGED <<stream, told>>

\* The response ended: createAndSubscribe returns if it has seen its task,
\* whether the task is over or not.
Ended(c) ==
    /\ Leaves(c, IF c \in Creators /\ client[c] = "following" THEN "resolved" ELSE AfterLoss(c))
    /\ UNCHANGED told

Receive(c) ==
    /\ client[c] \in {"reading", "following"}
    /\ chan[c] /= <<>>
    /\ LET item == Head(chan[c])
       IN \/ item \in TERMINAL_STATES /\ Final(c, item)
          \/ item \in A2ATaskState \ TERMINAL_STATES /\ NotFinal(c)
          \/ item = "eof" /\ Ended(c)
          \/ item = "reset" /\ Leaves(c, AfterLoss(c)) /\ UNCHANGED told
          \/ item = "error" /\ Leaves(c, "rejected") /\ UNCHANGED told
    /\ UNCHANGED <<taskVars, pushVars, breaks>>

(***************************************************************************)
(* The server: handleSSE, tasks/get, tasks/pushNotificationConfig/set      *)
(***************************************************************************)
\* A write of the server reaches the client unless the connection is gone.
Sent(c, items) == [chan EXCEPT ![c] = IF stream[c].closed THEN @ ELSE @ \o items]

\* message/stream: handleMessageSend creates the task or answers an error.
CreateTask(c) ==
    /\ stream[c].pc = "create"
    /\ status = "none"
    /\ \/ /\ status' = "open"
          /\ stream' = [stream EXCEPT ![c].pc = "write", ![c].state = "submitted"]
          /\ UNCHANGED chan
       \/ /\ stream' = [stream EXCEPT ![c].pc = "closing"]
          /\ chan' = Sent(c, <<"error">>)
          /\ UNCHANGED status
    /\ UNCHANGED <<submission, moving, overlaps, overtaken, reopens, due, client, told, pushVars, breaks>>

\* tasks/subscribe reads the context and the task.
SubscribeRead(c) ==
    /\ stream[c].pc = "read"
    /\ IF status = "none"
       THEN /\ stream' = [stream EXCEPT ![c].pc = "closing"]
            /\ chan' = Sent(c, <<"error">>)
       ELSE /\ stream' = [stream EXCEPT ![c].pc = "write", ![c].state = umwStatusToA2A(status)]
            /\ UNCHANGED chan
    /\ UNCHANGED <<taskVars, client, told, pushVars, breaks>>

\* The first event, and then the listener: what is announced since the read is missed.
WriteInitial(c) ==
    /\ stream[c].pc = "write"
    /\ chan' = Sent(c, <<stream[c].state>>)
    /\ stream' = [stream EXCEPT ![c].pc =
                    IF stream[c].state \in TERMINAL_STATES
                    THEN "closing" ELSE "listen"]
    /\ UNCHANGED <<taskVars, client, told, pushVars, breaks>>

\* tasks/get: one read, one answer.
AnswerGet(c) ==
    /\ stream[c].pc = "get"
    /\ chan' = Sent(c, <<IF status = "none" THEN "error" ELSE umwStatusToA2A(status)>>)
    /\ stream' = [stream EXCEPT ![c] = NoStream]
    /\ UNCHANGED <<taskVars, client, told, pushVars, breaks>>

\* onStatusUpdate, in every stream whose listener is still on.
Listening(c) == stream[c].pc \in {"listen", "ending"}
AfterEvent(r, s) ==
    IF r.pc = "listen" /\ (r.closed \/ s \in TERMINAL_STATES) THEN [r EXCEPT !.pc = "ending"] ELSE r

\* notifyA2AStatus: emit to the listeners, post to the push URL (of these posts
\* only those that announce the end of the task are followed).
Notify(s) ==
    /\ due[s] > 0
    /\ due' = [due EXCEPT ![s] = @ - 1]
    /\ chan' = [c \in Clients |->
                 IF Listening(c) /\ ~stream[c].closed THEN Append(chan[c], s) ELSE chan[c]]
    /\ stream' = [c \in Clients |->
                   IF Listening(c) THEN AfterEvent(stream[c], s) ELSE stream[c]]
    /\ posts' = IF push THEN posts \cup ({s} \cap Ends) ELSE posts
    /\ UNCHANGED <<status, submission, moving, overlaps, overtaken, reopens, client, told, push, heard, breaks>>

\* The stream's callback returns: listener and timers off, response ended.
EndStream(c) ==
    /\ stream[c].pc \in {"ending", "closing"}
    /\ chan' = Sent(c, <<"eof">>)
    /\ stream' = [stream EXCEPT ![c] = NoStream]
    /\ UNCHANGED <<taskVars, client, told, pushVars, breaks>>

\* The heartbeat finds the stream aborted, or its lifetime is over.
TimedOut(c) ==
    /\ stream[c].pc = "listen"
    /\ stream' = [stream EXCEPT ![c].pc = "ending"]
    /\ UNCHANGED <<taskVars, chan, client, told, pushVars, breaks>>

\* Mutant of Lifetime: the heartbeat alone ends it.
OnlyHeartbeat(c) == stream[c].closed /\ TimedOut(c)

Lifetime(c) == TimedOut(c)

SetPush ==
    /\ status /= "none" /\ ~push
    /\ push' = TRUE
    /\ UNCHANGED <<taskVars, streamVars, posts, heard, breaks>>

\* fireA2APush: requests on their own, in any order, without a retry.
DeliverPost(s) ==
    /\ s \in posts
    /\ posts' = posts \ {s}
    /\ heard' = heard \cup {s}
    /\ UNCHANGED <<taskVars, streamVars, push, breaks>>

(***************************************************************************)
(* What may fail                                                           *)
(***************************************************************************)
Fault == breaks < MaxBreaks /\ breaks' = breaks + 1

LosePost(s) ==
    /\ Fault /\ s \in posts
    /\ posts' = posts \ {s}
    /\ UNCHANGED <<taskVars, streamVars, push, heard>>

\* A connection breaks: what was sent may be lost.
Drop(c) ==
    /\ Fault /\ stream[c].pc /= "none" /\ ~stream[c].closed
    /\ chan' = [chan EXCEPT ![c] = <<"reset">>]
    /\ stream' = [stream EXCEPT ![c].closed = TRUE]
    /\ UNCHANGED <<taskVars, client, told, pushVars>>

\* The process stops: handlers, emitter, streams, notices and posts are gone.
Restart ==
    /\ Fault
    /\ moving' = {}
    /\ due' = [s \in Announced |-> 0]
    /\ stream' = [c \in Clients |-> NoStream]
    /\ chan' = [c \in Clients |-> IF stream[c].pc /= "none" /\ ~stream[c].closed
                                   THEN <<"reset">> ELSE chan[c]]
    /\ posts' = {}
    /\ UNCHANGED <<status, submission, overlaps, overtaken, reopens, client, told, push, heard>>

-----------------------------------------------------------------------------
Serve(c) == \/ CreateTask(c) \/ SubscribeRead(c) \/ WriteInitial(c) \/ AnswerGet(c)
            \/ EndStream(c)
Faults == \/ \E s \in Ends : LosePost(s)
          \/ \E c \in Clients : FetchFails(c) \/ Drop(c)
          \/ Restart

A2ANext ==
    \/ TaskMoves
    \/ \E c \in Clients : Connect(c) \/ Receive(c) \/ Serve(c) \/ Lifetime(c)
    \/ \E s \in Announced : Notify(s)
    \/ \E s \in Ends : DeliverPost(s)
    \/ SetPush
    \/ Faults

\* Handlers and timers run, and a client that has begun goes on.  Nothing
\* makes a notice or a post arrive, and nobody has to move the task.
A2AFairness ==
    \A c \in Clients : /\ WF_a2aVars(Serve(c))
                       /\ WF_a2aVars(Lifetime(c))
                       /\ WF_a2aVars(Receive(c))
                       /\ WF_a2aVars(client[c] = "waiting" /\ Connect(c))

A2ASpec == A2AInit /\ [][A2ANext]_a2aVars /\ A2AFairness

-----------------------------------------------------------------------------
A2ATypeOK ==
    /\ status \in Statuses
    /\ submission \in [Submissions -> {"none", "validating", "decided"}]
    /\ moving \subseteq TaskMove
    /\ overlaps \in 0 .. MaxOverlaps
    /\ overtaken \subseteq Ends
    /\ reopens \in 0 .. MaxReopens
    /\ due \in [Announced -> Nat]
    /\ stream \in [Clients -> StreamRow]
    /\ chan \in [Clients -> Seq(WireItem)]
    /\ client \in [Clients -> ClientPc]
    /\ told \in [Clients -> Seq(TERMINAL_STATES)]
    /\ push \in BOOLEAN
    /\ posts \subseteq Ends
    /\ heard \subseteq Ends
    /\ breaks \in 0 .. MaxBreaks

\* onFinal is called at most once in the life of a call, however often the
\* connection is replaced, and only by a call that is over.
FinalOnce == \A c \in Clients : Len(told[c]) <= 1 /\ (told[c] /= <<>> => client[c] = "resolved")

\* Whoever is told that the task was completed or canceled, by an event, a
\* poll or a push, is told the truth, however late the message is, and for good
\* unless a handler that had checked the task before (or the verdict on a
\* submission handed in before) replaces the state by its unguarded update.
\* ("failed" is different: it announces a rejected submission, after which the
\* task is open again.)
ToldTheTruth ==
    \A s \in Ends :
        (s \in heard \/ \E c \in Clients : told[c] = <<s>>)
            => umwStatusToA2A(status) = s \/ s \in overtaken

\* A subscriber learns that the task is over although notices are missed, sent
\* to nobody, lost in a restart or never made: the stream's lifetime ends and
\* the subscriber reconnects; unless a late handler takes the task back first.
SubscriberLearnsEnd ==
    \A c \in Subscribers \cup Pollers : (Over /\ client[c] /= "idle") ~> (Done(c) \/ ~Over)
=============================================================================
