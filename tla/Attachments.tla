----------------------------- MODULE Attachments -----------------------------
(***************************************************************************)
(* Files: rows of the database that name objects of the Supabase store.    *)
(*                                                                         *)
(*   routes/gigs.ts    POST /:id/upload, the file of a gig                 *)
(*                     POST /orders/:orderId/upload, an order's delivery   *)
(*   routes/files.ts   POST /upload, DELETE /:fileId: file_attachments     *)
(*   lib/storage.ts    buckets, uploadFile, deleteFile                     *)
(*                                                                         *)
(* No transaction covers a row and its object.  The two routes of gigs.ts  *)
(* delete the old object, upload the new one and then write its key; the   *)
(* files API deletes the object and then the row.  Each await is a step,   *)
(* several requests are under way at once and any of them may stop between *)
(* two steps; a crash of the process is several of them stopping.          *)
(***************************************************************************)
EXTENDS Naturals, FiniteSets

CONSTANTS
    Gigs, Orders,   \* rows with a key of their own
    Requests,       \* requests under way at the same time
    MaxObjects,     \* bound: objects uploaded
    MaxMoves,       \* bound: changes of an order's status
    MaxFaults       \* bound: failed calls of the store, requests cut short

Holders == Gigs \cup Orders

ASSUME HoldersAssumption == Gigs \cap Orders = {}
ASSUME BoundsAssumption == {MaxObjects, MaxMoves, MaxFaults} \subseteq Nat

VARIABLES
    key,        \* gigs.fileStoragePath and gig_orders.deliveryFileKey, 0: none
    status,     \* gig_orders.status
    stored,     \* objects in the store
    made,       \* objects ever uploaded
    listed,     \* file_attachments
    req,        \* requests under way
    moves,
    late,       \* history: the uploads under way when an order was last moved on
    torn,       \* history: objects removed by a request that then stopped
    overtaken,  \* history: keys overwritten by an upload that had not read them
    misplaced,  \* history: files API deletions that looked in another bucket
    refused,    \* history: files whose row the database did not take
    faults

database == <<key, status, listed>>
store == <<stored, made>>
history == <<late, torn, overtaken, misplaced, refused>>
vars == <<database, store, req, moves, history, faults>>

-----------------------------------------------------------------------------
\* Every upload has a path of its own: a time stamp and upsert false.
Objects == 1 .. MaxObjects
None == 0

\* Which bucket an entity's file is put in, and the one that the files API
\* deletes from and signs for: gig-attachments, whatever the entity.
Entities == {"gig", "gig_order", "task", "submission"}
bucketForEntityType(e) ==
    CASE e = "gig" -> "gig-files"
      [] e = "gig_order" -> "order-files"
      [] OTHER -> "gig-attachments"
BUCKET_GIG_ATTACHMENTS == "gig-attachments"

File == [object : Objects, entity : Entities]

\* pending and disputed orders, of which this module needs nothing, are closed.
\* These are the moves of a buyer, a seller or an admin; for the sweeps, see Sweep.
Statuses == {"accepted", "delivered", "revision_requested", "closed"}

GIG_ORDER_TRANSITIONS ==
    [s \in Statuses |-> CASE s = "accepted" -> {"delivered", "closed"}
                          [] s = "delivered" -> {"revision_requested", "closed"}
                          [] s = "revision_requested" -> {"delivered"}
                          [] OTHER -> {}]
allowedUploadStates == {"accepted", "revision_requested"}

\* What a request keeps between its awaits.
Idle == [pc |-> "idle"]
Replacing == [pc : {"delete", "upload", "update"}, holder : Holders,
              old : Objects \cup {None}, new : Objects \cup {None}]
Attaching == [pc : {"insert"}, file : File]
Detaching == [pc : {"remove", "unlist"}, file : File]
Moving == [pc : {"move"}, order : Orders, to : Statuses]
Request == {Idle} \cup Replacing \cup Attaching \cup Detaching \cup Moving

At(r, pc) == req[r].pc = pc
Goto(r, pc) == req' = [req EXCEPT ![r].pc = pc]
End(r) == req' = [req EXCEPT ![r] = Idle]
Uploads(h) == {r \in Requests : req[r] \in Replacing /\ req[r].holder = h}

Init ==
    /\ key = [h \in Holders |-> None]
    /\ status = [o \in Orders |-> "accepted"]
    /\ stored = {} /\ made = 0
    /\ listed = {}
    /\ req = [r \in Requests |-> Idle]
    /\ moves = 0
    /\ late = [o \in Orders |-> {}]
    /\ torn = {} /\ overtaken = 0 /\ misplaced = 0 /\ refused = 0
    /\ faults = 0

Fault == faults < MaxFaults /\ faults' = faults + 1

(***************************************************************************)
(* The store                                                               *)
(***************************************************************************)
uploadFile(new) ==
    /\ made < MaxObjects
    /\ made' = made + 1
    /\ new = made'
    /\ stored' = stored \cup {new}

\* An error of the store is swallowed by every caller.
deleteFile(object) ==
    /\ \/ stored' = stored \ {object} /\ UNCHANGED faults
       \/ Fault /\ UNCHANGED stored
    /\ UNCHANGED made

(***************************************************************************)
(* The file of a gig, and the delivery of an order                         *)
(***************************************************************************)
\* Mutant of MayUpload: whatever the status.
MayAlwaysUpload(h) == h \in Holders

\* A gig's creator may always replace its file, an order's seller only while
\* the work is on.
MayUpload(h) == h \in Orders => status[h] \in allowedUploadStates

ReadHolder(r, h) ==
    /\ At(r, "idle")
    /\ MayUpload(h)
    /\ req' = [req EXCEPT ![r] = [pc |-> IF key[h] = None THEN "upload" ELSE "delete",
                                  holder |-> h, old |-> key[h], new |-> None]]
    /\ UNCHANGED <<database, store, moves, history, faults>>

\* Mutant of DeleteOld: deletes what the row names by now.
DeleteCurrent(r) ==
    /\ At(r, "delete")
    /\ deleteFile(key[req[r].holder])
    /\ Goto(r, "upload")
    /\ UNCHANGED <<database, moves, history>>

DeleteOld(r) ==
    /\ At(r, "delete")
    /\ deleteFile(req[r].old)
    /\ Goto(r, "upload")
    /\ UNCHANGED <<database, moves, history>>

UploadNew(r) ==
    /\ At(r, "upload")
    /\ \E new \in Objects :
        /\ uploadFile(new)
        /\ req' = [req EXCEPT ![r].pc = "update", ![r].new = new]
    /\ UNCHANGED <<database, moves, history, faults>>

\* The update looks neither at the key nor at the status again.
UpdateKey(r) ==
    LET h == req[r].holder
    IN /\ At(r, "update")
       /\ key' = [key EXCEPT ![h] = req[r].new]
       /\ overtaken' = IF key[h] = req[r].old THEN overtaken ELSE overtaken + 1
       /\ End(r)
       /\ UNCHANGED <<status, listed, store, moves, late, torn, misplaced, refused, faults>>

(***************************************************************************)
(* The files API: any agent attaches a file to anything, as no reference   *)
(* to the entity is checked, and removes its own.                          *)
(***************************************************************************)
Attach(r, e) ==
    /\ At(r, "idle")
    /\ \E new \in Objects :
        /\ uploadFile(new)
        /\ req' = [req EXCEPT ![r] = [pc |-> "insert", file |-> [object |-> new, entity |-> e]]]
    /\ UNCHANGED <<database, moves, history, faults>>

\* The database takes the row, or the entity_id, which the handler only trims,
\* is longer than its column: the object is stored by then.
InsertFile(r) ==
    /\ At(r, "insert")
    /\ \/ listed' = listed \cup {req[r].file} /\ UNCHANGED refused
       \/ refused' = refused + 1 /\ UNCHANGED listed
    /\ End(r)
    /\ UNCHANGED <<key, status, store, moves, late, torn, overtaken, misplaced, faults>>

ReadFile(r, f) ==
    /\ At(r, "idle")
    /\ f \in listed
    /\ req' = [req EXCEPT ![r] = [pc |-> "remove", file |-> f]]
    /\ UNCHANGED <<database, store, moves, history, faults>>

\* Where there is no such object the store reports no error.
RemoveObject(r) ==
    /\ At(r, "remove")
    /\ Goto(r, "unlist")
    /\ IF bucketForEntityType(req[r].file.entity) = BUCKET_GIG_ATTACHMENTS
       THEN deleteFile(req[r].file.object) /\ UNCHANGED misplaced
       ELSE misplaced' = misplaced + 1 /\ UNCHANGED <<store, faults>>
    /\ UNCHANGED <<database, moves, late, torn, overtaken, refused>>

DeleteFileRow(r) ==
    /\ At(r, "unlist")
    /\ listed' = listed \ {req[r].file}
    /\ End(r)
    /\ UNCHANGED <<key, status, store, moves, history, faults>>

(***************************************************************************)
(* The orders: deliver, request-revision, and what ends them.  As in       *)
(* GigOrders, the write repeats no check.                                  *)
(***************************************************************************)
ReadOrder(r, o) ==
    /\ At(r, "idle")
    /\ moves < MaxMoves
    /\ moves' = moves + 1
    /\ \E s \in GIG_ORDER_TRANSITIONS[status[o]] :
        req' = [req EXCEPT ![r] = [pc |-> "move", order |-> o, to |-> s]]
    /\ UNCHANGED <<database, store, history, faults>>

MoveOrder(r) ==
    LET o == req[r].order
    IN /\ At(r, "move")
       /\ status' = [status EXCEPT ![o] = req[r].to]
       /\ late' = [late EXCEPT ![o] = Uploads(o)]
       /\ End(r)
       /\ UNCHANGED <<key, listed, store, moves, torn, overtaken, misplaced, refused, faults>>

\* A timeout sweep cancels or completes an order, revision_requested ones too:
\* its update does check the status, which is closed in this one step.
Sweep(o) ==
    /\ status[o] /= "closed"
    /\ moves < MaxMoves
    /\ moves' = moves + 1
    /\ status' = [status EXCEPT ![o] = "closed"]
    /\ late' = [late EXCEPT ![o] = Uploads(o)]
    /\ UNCHANGED <<key, listed, store, req, torn, overtaken, misplaced, refused, faults>>

\* A request stops where it is: the upload fails, the database is not
\* reached, the process ends.
Stop(r) ==
    /\ ~At(r, "idle")
    /\ Fault
    /\ torn' = CASE At(r, "upload") \/ At(r, "update") -> torn \cup ({req[r].old} \ {None})
                 [] At(r, "unlist") -> torn \cup {req[r].file.object}
                 [] OTHER -> torn
    /\ End(r)
    /\ UNCHANGED <<database, store, moves, late, overtaken, misplaced, refused>>

-----------------------------------------------------------------------------
Continue(r) ==
    \/ DeleteOld(r) \/ UploadNew(r) \/ UpdateKey(r)
    \/ InsertFile(r) \/ RemoveObject(r) \/ DeleteFileRow(r)
    \/ MoveOrder(r)

Next ==
    \/ \E r \in Requests :
        \/ \E h \in Holders : ReadHolder(r, h)
        \/ \E e \in Entities : Attach(r, e)
        \/ \E f \in listed : ReadFile(r, f)
        \/ \E o \in Orders : ReadOrder(r, o)
        \/ Continue(r)
        \/ Stop(r)
    \/ \E o \in Orders : Sweep(o)

Spec == Init /\ [][Next]_vars

-----------------------------------------------------------------------------
TypeOK ==
    /\ key \in [Holders -> Objects \cup {None}]
    /\ status \in [Orders -> Statuses]
    /\ stored \subseteq Objects
    /\ made \in 0 .. MaxObjects
    /\ listed \subseteq File
    /\ req \in [Requests -> Request]
    /\ moves \in 0 .. MaxMoves
    /\ late \in [Orders -> SUBSET Requests]
    /\ torn \subseteq Objects
    /\ overtaken \in Nat /\ misplaced \in Nat /\ refused \in Nat
    /\ faults \in 0 .. MaxFaults

\* A row of the database names an object that is in the store, except while a
\* request that took the object away is still to change the row, and after
\* such a request stopped: the old file is deleted before the new one is
\* uploaded, so a failed replacement leaves a gig or an order with no file.
Leaving(r) == CASE req[r].pc \in {"upload", "update"} -> {req[r].old}
                [] req[r].pc = "unlist" -> {req[r].file.object}
                [] OTHER -> {}
Named == {key[h] : h \in Holders} \cup {f.object : f \in listed}
RowsNameFiles ==
    Named \subseteq stored \cup torn \cup {None} \cup UNION {Leaving(r) : r \in Requests}

\* Objects that nothing names and no request still deals with are left for good.
\* Each is owed to a fault, to an upload that overtook another one, to a file of a
\* gig or an order deleted through the files API, or to a file API upload for an
\* entity_id that no row can hold.
InHand(r) == CASE req[r].pc = "delete" -> {req[r].old}
               [] req[r].pc = "update" -> {req[r].new}
               [] req[r].pc \in {"insert", "remove", "unlist"} -> {req[r].file.object}
               [] OTHER -> {}
Leftover == stored \ (Named \cup UNION {InHand(r) : r \in Requests})
LeftoversAccountedFor == Cardinality(Leftover) <= faults + overtaken + misplaced + refused

\* The two directions together: rows and objects match but for what a fault, an
\* overtaken upload, the wrong bucket or a refused row explains.
StoreMatchesRows == RowsNameFiles /\ LeftoversAccountedFor

\* The file of an order that was delivered, or is over, is what the buyer
\* judged: it changes only through an upload that was already under way then.
DeliveryStays ==
    [][\A o \in Orders :
        key'[o] /= key[o] /\ status[o] \notin allowedUploadStates
            => \E r \in late[o] : At(r, "update") /\ req[r].holder = o]_vars
=============================================================================
