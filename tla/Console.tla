------------------------------- MODULE Console -------------------------------
(***************************************************************************)
(* The admin dashboard's tab of recurring templates, in several browsers:  *)
(*                                                                         *)
(*   frontend/src/pages/admin/AdminDashboard.tsx   RecurringTasksTab,      *)
(*                          TemplateDetail, CreateTemplateForm             *)
(*   frontend/src/api/adminQueries.ts              the calls it makes      *)
(*   routes/recurringTasks.ts                      what they do            *)
(*                                                                         *)
(* Each browser shows the list of its query cache.  A button acts on what  *)
(* is shown, and the row may have changed since; the answer of a call sets *)
(* off a new fetch of the list.  The query cache is a library, modelled by *)
(* what the tab relies on.  One template stands for all.                   *)
(***************************************************************************)
EXTENDS Naturals, FiniteSets

CONSTANTS
    Admins,
    MaxChanges, \* bound: versions of the row
    MaxCalls,   \* bound: calls under way
    MaxFailures   \* bound: calls and fetches that fail

ASSUME ConsoleAssumption ==
    /\ MaxChanges \in Nat /\ MaxCalls \in Nat /\ MaxFailures \in Nat

VARIABLES
    row,        \* the switch of the template, with the number of changes to the list
    list,       \* what each browser shows
    fetch,      \* the fetch of each browser's list
    call,       \* calls under way, by the button that made them
    own,        \* history: the last own change that was confirmed to a browser
    failures

browser == <<list, fetch, own>>
consoleVars == <<row, browser, call, failures>>

-----------------------------------------------------------------------------
Row == [enabled : BOOLEAN, version : 0 .. MaxChanges]

\* No template is shown before the first list.
NoList == [version |-> 0]
NoRequest == [pc |-> "idle"]

\* A fetch that handleToggle waits for is awaited.
Fetch == {NoRequest} \cup [pc : {"asked"}, awaited : BOOLEAN]
            \cup [pc : {"answered"}, awaited : BOOLEAN, data : Row]

\* handleToggle waits for the list before it lets go of its button.
Buttons == {"toggle", "save", "trigger", "create"}
Call == [pc : {"idle", "sent", "waiting"}] \cup [pc : {"sent"}, enabled : BOOLEAN]
            \cup [pc : {"answered"}, version : 0 .. MaxChanges]

ConsoleInit ==
    /\ row \in {r \in Row : r.version = 0}
    /\ list = [a \in Admins |-> NoList]
    /\ fetch = [a \in Admins |-> [pc |-> "asked", awaited |-> FALSE]]
    /\ call = [a \in Admins |-> [b \in Buttons |-> NoRequest]]
    /\ own = [a \in Admins |-> 0]
    /\ failures = 0

Fault == failures < MaxFailures /\ failures' = failures + 1

(***************************************************************************)
(* The query cache                                                         *)
(***************************************************************************)
\* Mutant of StartFetch: any fetch under way is good enough.
StartFetchUnlessUnderWay(a, awaited) ==
    fetch' = [fetch EXCEPT ![a] = IF @ = NoRequest THEN [pc |-> "asked", awaited |-> awaited] ELSE @]

\* A fetch under way is dropped for the new one, except before the first answer.
StartFetch(a, awaited) ==
    fetch' = [fetch EXCEPT ![a] =
                IF @ = NoRequest \/ list[a] # NoList THEN [pc |-> "asked", awaited |-> awaited] ELSE @]

\* Refresh, or the window regains the focus.
Refresh(a) ==
    /\ StartFetch(a, FALSE)
    /\ UNCHANGED <<row, list, own, call, failures>>

ServeList(a) ==
    /\ fetch[a].pc = "asked"
    /\ fetch' = [fetch EXCEPT ![a] = [pc |-> "answered", awaited |-> @.awaited, data |-> row]]
    /\ UNCHANGED <<row, list, own, call, failures>>

\* The panel of a template is not refreshed with the list.
ShowList(a) ==
    /\ fetch[a].pc = "answered"
    /\ list' = [list EXCEPT ![a] = fetch[a].data]
    /\ fetch' = [fetch EXCEPT ![a] = NoRequest]
    /\ UNCHANGED <<row, own, call, failures>>

\* Tried twice; what was shown stays, and no longer has to be new.
FetchFails(a) ==
    /\ fetch[a] # NoRequest
    /\ Fault
    /\ fetch' = [fetch EXCEPT ![a] = NoRequest]
    /\ own' = [own EXCEPT ![a] = 0]
    /\ UNCHANGED <<row, list, call>>

(***************************************************************************)
(* The buttons                                                             *)
(***************************************************************************)
Shown(a) == list[a] # NoList
Free(a, b) == call[a][b] = NoRequest
Send(a, b, sent) ==
    /\ Free(a, b)
    /\ Cardinality({c \in Admins \X Buttons : ~Free(c[1], c[2])}) < MaxCalls
    /\ call' = [call EXCEPT ![a][b] = sent]
    /\ UNCHANGED <<row, list, fetch, own, failures>>

Toggle(a) == Shown(a) /\ Send(a, "toggle", [pc |-> "sent", enabled |-> ~list[a].enabled])

\* Save and trigger are buttons of the panel of a template, which is opened from
\* the list without a call; a call under way outlives it.
Save(a) == Shown(a) /\ Send(a, "save", [pc |-> "sent"])
TriggerNow(a) == Shown(a) /\ Send(a, "trigger", [pc |-> "sent"])
CreateTemplate(a) == Send(a, "create", [pc |-> "sent"])

(***************************************************************************)
(* The server                                                              *)
(***************************************************************************)
Changed(to) == row.version < MaxChanges /\ row' = [to EXCEPT !.version = row.version + 1]

\* Mutant of Patch: a save sends enabled: true, as the form of a new template does.
PatchAll(b, sent) == [row EXCEPT !.enabled = IF b = "toggle" THEN sent.enabled ELSE TRUE]

\* PATCH /:id changes the fields that were sent: a save sends those of its form,
\* and the switch is not one of them.
Patch(b, sent) == IF b = "toggle" THEN [row EXCEPT !.enabled = sent.enabled] ELSE row

\* A triggered instance changes the count of open ones, a new template the list.
Handle(b, sent) == Changed(IF b \in {"toggle", "save"} THEN Patch(b, sent) ELSE row)

Serve(a, b) ==
    /\ call[a][b].pc = "sent"
    /\ Handle(b, call[a][b])
    /\ call' = [call EXCEPT ![a][b] = [pc |-> "answered", version |-> row'.version]]
    /\ UNCHANGED <<browser, failures>>

\* fillSlots disables a template at its cap.
DisableCapped ==
    /\ row.enabled
    /\ Changed([row EXCEPT !.enabled = FALSE])
    /\ UNCHANGED <<browser, call, failures>>

(***************************************************************************)
(* The answers                                                             *)
(***************************************************************************)
\* invalidateQueries and refetch, of handleUpdated and of handleToggle.
Answer(a, b) ==
    /\ call[a][b].pc = "answered"
    /\ StartFetch(a, b = "toggle")
    /\ call' = [call EXCEPT ![a][b] = IF b = "toggle" THEN [pc |-> "waiting"] ELSE NoRequest]
    /\ own' = IF list[a] # NoList /\ call[a][b].version > own[a]
              THEN [own EXCEPT ![a] = call[a][b].version] ELSE own
    /\ UNCHANGED <<row, list, failures>>

\* Mutant of Over: a dropped fetch is waited for as well.
OverWhenIdle(a) == fetch[a] = NoRequest

\* The awaited fetch has ended, or was dropped for another.
Over(a) == ~(fetch[a] # NoRequest /\ fetch[a].awaited)

\* handleToggle fetches the list once more.
Waited(a) ==
    /\ call[a]["toggle"].pc = "waiting" /\ Over(a)
    /\ StartFetch(a, FALSE)
    /\ call' = [call EXCEPT ![a]["toggle"] = NoRequest]
    /\ UNCHANGED <<row, list, own, failures>>

\* A call fails, or its answer is lost: an error is shown, nothing is fetched.
CallFails(a, b) ==
    /\ call[a][b].pc \in {"sent", "answered"}
    /\ Fault
    /\ call' = [call EXCEPT ![a][b] = NoRequest]
    /\ UNCHANGED <<row, browser>>

-----------------------------------------------------------------------------
Progress(a) ==
    \/ ServeList(a) \/ ShowList(a) \/ Waited(a)
    \/ \E b \in Buttons : Serve(a, b) \/ Answer(a, b)

ConsoleNext ==
    \/ \E a \in Admins :
        \/ Progress(a) \/ Refresh(a) \/ FetchFails(a)
        \/ Toggle(a) \/ Save(a) \/ TriggerNow(a) \/ CreateTemplate(a)
        \/ \E b \in Buttons : CallFails(a, b)
    \/ DisableCapped

\* The server answers; what an admin does is not owed.
ConsoleFairness ==
    \A a \in Admins :
        /\ WF_consoleVars(ServeList(a)) /\ WF_consoleVars(ShowList(a)) /\ WF_consoleVars(Waited(a))
        /\ \A b \in Buttons : WF_consoleVars(Answer(a, b))

ConsoleSpec == ConsoleInit /\ [][ConsoleNext]_consoleVars
ConsoleFairSpec == ConsoleSpec /\ ConsoleFairness

-----------------------------------------------------------------------------
ConsoleTypeOK ==
    /\ row \in Row
    /\ list \in [Admins -> Row \cup {NoList}]
    /\ fetch \in [Admins -> Fetch]
    /\ call \in [Admins -> [Buttons -> Call]]
    /\ own \in [Admins -> 0 .. MaxChanges]
    /\ failures \in 0 .. MaxFailures

\* A template that was disabled, by an admin or at its cap, is not enabled again
\* because someone saves a form that was opened while it was enabled: it takes a
\* click on a switch that was shown as off.
EnabledBySwitch ==
    [][~row.enabled /\ row'.enabled
          => \E a \in Admins : call[a]["toggle"].pc = "sent" /\ call'[a]["toggle"] # call[a]["toggle"]]_consoleVars

\* When no fetch is under way and the last one did not fail, a browser shows
\* every change of its own that was confirmed to it: no list that was fetched
\* before the change replaces the one fetched after.
OwnChangesShown ==
    \A a \in Admins : fetch[a] = NoRequest => list[a].version >= own[a]

\* A switch does not spin for ever: once the server has answered, its browser
\* gets the list, however often the admin refreshes and whoever else changes it.
SpinnerStops ==
    \A a \in Admins : call[a]["toggle"].pc \in {"answered", "waiting"} ~> Free(a, "toggle")
=============================================================================
