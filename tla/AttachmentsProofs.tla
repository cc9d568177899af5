-------------------------- MODULE AttachmentsProofs --------------------------
(***************************************************************************)
(* Theorems about Attachments, for every set of requests and every bound.  *)
(***************************************************************************)
EXTENDS Attachments, FiniteSetTheorems, TLAPS

USE DEF None

(***************************************************************************)
(* Types                                                                   *)
(***************************************************************************)
LEMMA Shape ==
    ASSUME NEW x \in Request
    PROVE  /\ x.pc \in {"delete", "upload", "update"} <=> x \in Replacing
           /\ x.pc = "insert" <=> x \in Attaching
           /\ x.pc \in {"remove", "unlist"} <=> x \in Detaching
           /\ x.pc = "move" <=> x \in Moving
           /\ x.pc = "idle" <=> x = Idle
           /\ x \in Replacing => /\ x.holder \in Holders
                                 /\ {x.old, x.new} \subseteq Objects \cup {None}
           /\ x \in Attaching \cup Detaching => x.file \in File
           /\ x \in Moving => x.order \in Orders /\ x.to \in Statuses
  BY DEF Request, Idle, Replacing, Attaching, Detaching, Moving

\* A request that goes on keeps what it holds.
LEMMA PcStep ==
    ASSUME TypeOK, NEW r \in Requests, NEW pc,
           \/ req[r].pc \in {"delete", "upload", "update"} /\ pc \in {"delete", "upload", "update"}
           \/ req[r].pc \in {"remove", "unlist"} /\ pc \in {"remove", "unlist"}
    PROVE  [req[r] EXCEPT !.pc = pc] \in Request
  <1>1. req[r] \in Replacing \/ req[r] \in Detaching
    BY Shape DEF TypeOK
  <1> QED
    BY <1>1 DEF Request, Replacing, Detaching

LEMMA FileTypes == \A f \in File : f.object \in Objects /\ f.entity \in Entities
  BY DEF File

LEMMA UploadFileTypes ==
    ASSUME TypeOK, NEW new \in Objects, uploadFile(new)
    PROVE  made' \in 0 .. MaxObjects /\ stored' \subseteq Objects
  BY BoundsAssumption DEF TypeOK, uploadFile, Objects

LEMMA DeleteFileTypes ==
    ASSUME TypeOK, NEW object, deleteFile(object)
    PROVE  stored' \subseteq Objects /\ faults' \in 0 .. MaxFaults /\ made' = made
  BY BoundsAssumption DEF TypeOK, deleteFile, Fault

LEMMA ReqStep ==
    ASSUME TypeOK, NEW r \in Requests, NEW x \in Request, req' = [req EXCEPT ![r] = x]
    PROVE  /\ req' \in [Requests -> Request]
           /\ req'[r] = x
           /\ \A q \in Requests \ {r} : req'[q] = req[q]
  BY DEF TypeOK

LEMMA IdleIsRequest == Idle \in Request
  BY DEF Request

LEMMA InitType == Init => TypeOK
  BY BoundsAssumption, IdleIsRequest DEF Init, TypeOK, Statuses

LEMMA ReplaceType ==
    ASSUME TypeOK, NEW r \in Requests,
           \/ \E h \in Holders : ReadHolder(r, h)
           \/ DeleteOld(r) \/ UploadNew(r) \/ UpdateKey(r)
    PROVE  TypeOK'
  <1> USE DEF database, store, history
  <1>1. ASSUME NEW h \in Holders, ReadHolder(r, h) PROVE TypeOK'
    <2>1. [pc |-> IF key[h] = None THEN "upload" ELSE "delete",
           holder |-> h, old |-> key[h], new |-> None] \in Request
      BY DEF TypeOK, Request, Replacing
    <2> QED
      BY <1>1, <2>1, ReqStep DEF ReadHolder, TypeOK
  <1>2. CASE DeleteOld(r)
    <2>1. [req[r] EXCEPT !.pc = "upload"] \in Request
      BY <1>2, PcStep DEF DeleteOld, At
    <2> QED
      BY <1>2, <2>1, DeleteFileTypes DEF DeleteOld, Goto, TypeOK
  <1>3. CASE UploadNew(r)
    <2>1. PICK new \in Objects : uploadFile(new) /\ req' = [req EXCEPT ![r].pc = "update", ![r].new = new]
      BY <1>3 DEF UploadNew
    <2>2. req[r] \in Replacing
      BY <1>3, Shape DEF UploadNew, At, TypeOK
    <2>3. [req[r] EXCEPT !.pc = "update", !.new = new] \in Request
      BY <2>2 DEF Replacing, Request
    <2> QED
      BY <1>3, <2>1, <2>3, UploadFileTypes DEF UploadNew, TypeOK
  <1>4. CASE UpdateKey(r)
    <2>1. req[r].holder \in Holders /\ req[r].new \in Objects \cup {None}
      BY <1>4, Shape DEF UpdateKey, At, TypeOK
    <2>2. overtaken' \in Nat
      BY <1>4 DEF UpdateKey, TypeOK
    <2> QED
      BY <1>4, <2>1, <2>2, IdleIsRequest DEF UpdateKey, End, TypeOK
  <1> QED
    BY <1>1, <1>2, <1>3, <1>4

LEMMA FilesType ==
    ASSUME TypeOK, NEW r \in Requests,
           \/ \E e \in Entities : Attach(r, e)
           \/ \E f \in listed : ReadFile(r, f)
           \/ InsertFile(r) \/ RemoveObject(r) \/ DeleteFileRow(r)
    PROVE  TypeOK'
  <1> USE DEF database, store, history
  <1>1. ASSUME NEW e \in Entities, Attach(r, e) PROVE TypeOK'
    <2>1. PICK new \in Objects :
              /\ uploadFile(new)
              /\ req' = [req EXCEPT ![r] = [pc |-> "insert", file |-> [object |-> new, entity |-> e]]]
      BY <1>1 DEF Attach
    <2>2. [pc |-> "insert", file |-> [object |-> new, entity |-> e]] \in Request
      BY DEF Request, Attaching, File
    <2> QED
      BY <1>1, <2>1, <2>2, UploadFileTypes, ReqStep DEF Attach, TypeOK
  <1>2. ASSUME NEW f \in listed, ReadFile(r, f) PROVE TypeOK'
    <2>1. [pc |-> "remove", file |-> f] \in Request
      BY DEF Request, Detaching, TypeOK
    <2> QED
      BY <1>2, <2>1, ReqStep DEF ReadFile, TypeOK
  <1>3. CASE InsertFile(r)
    <2>1. req[r].file \in File
      BY <1>3, Shape DEF InsertFile, At, TypeOK
    <2> QED
      BY <1>3, <2>1, IdleIsRequest DEF InsertFile, End, TypeOK
  <1>4. CASE RemoveObject(r)
    <2>1. [req[r] EXCEPT !.pc = "unlist"] \in Request
      BY <1>4, PcStep DEF RemoveObject, At
    <2>2. /\ req' = [req EXCEPT ![r] = [req[r] EXCEPT !.pc = "unlist"]]
          /\ UNCHANGED <<database, moves, late, torn, overtaken, refused>>
      BY <1>4 DEF RemoveObject, Goto
    <2>3. CASE deleteFile(req[r].file.object) /\ UNCHANGED misplaced
      BY <2>1, <2>2, <2>3, DeleteFileTypes, ReqStep DEF TypeOK
    <2>4. CASE misplaced' = misplaced + 1 /\ UNCHANGED <<store, faults>>
      BY <2>1, <2>2, <2>4, ReqStep DEF TypeOK
    <2> QED
      BY <1>4, <2>3, <2>4 DEF RemoveObject
  <1>5. CASE DeleteFileRow(r)
    BY <1>5, IdleIsRequest DEF DeleteFileRow, End, TypeOK
  <1> QED
    BY <1>1, <1>2, <1>3, <1>4, <1>5

LEMMA OrderType ==
    ASSUME TypeOK, NEW r \in Requests,
           (\E o \in Orders : ReadOrder(r, o)) \/ MoveOrder(r) \/ Stop(r)
    PROVE  TypeOK'
  <1> USE DEF database, store, history
  <1>1. ASSUME NEW o \in Orders, ReadOrder(r, o) PROVE TypeOK'
    <2>1. PICK s \in GIG_ORDER_TRANSITIONS[status[o]] :
              req' = [req EXCEPT ![r] = [pc |-> "move", order |-> o, to |-> s]]
      BY <1>1 DEF ReadOrder
    <2>2. status[o] \in Statuses
      BY DEF TypeOK
    <2>3. s \in Statuses
      BY <2>1, <2>2 DEF GIG_ORDER_TRANSITIONS, Statuses
    <2>4. [pc |-> "move", order |-> o, to |-> s] \in Request
      BY <2>3 DEF Request, Moving
    <2>5. moves' \in 0 .. MaxMoves
      BY <1>1, BoundsAssumption DEF ReadOrder, TypeOK
    <2> QED
      BY <1>1, <2>1, <2>4, <2>5, ReqStep DEF ReadOrder, TypeOK
  <1>2. CASE MoveOrder(r)
    <2>1. req[r].order \in Orders /\ req[r].to \in Statuses
      BY <1>2, Shape DEF MoveOrder, At, TypeOK
    <2>2. Uploads(req[r].order) \subseteq Requests
      BY DEF Uploads
    <2> QED
      BY <1>2, <2>1, <2>2, IdleIsRequest DEF MoveOrder, End, TypeOK
  <1>3. CASE Stop(r)
    <2>1. req[r] \in Replacing => req[r].old \in Objects \cup {None}
      BY Shape DEF TypeOK
    <2>2. req[r] \in Detaching => req[r].file.object \in Objects
      BY Shape, FileTypes DEF TypeOK
    <2>3. torn' \subseteq Objects
      BY <1>3, <2>1, <2>2, Shape DEF Stop, At, TypeOK
    <2>4. faults' \in 0 .. MaxFaults
      BY <1>3, BoundsAssumption DEF Stop, Fault, TypeOK
    <2> QED
      BY <1>3, <2>3, <2>4, IdleIsRequest DEF Stop, End, TypeOK
  <1> QED
    BY <1>1, <1>2, <1>3

LEMMA SweepType == ASSUME TypeOK, NEW o \in Orders, Sweep(o) PROVE TypeOK'
  <1>1. moves' \in 0 .. MaxMoves
    BY BoundsAssumption DEF Sweep, TypeOK
  <1>2. Uploads(o) \subseteq Requests /\ "closed" \in Statuses
    BY DEF Uploads, Statuses
  <1> QED
    BY <1>1, <1>2 DEF Sweep, TypeOK, store

LEMMA TypeInvariance == TypeOK /\ [Next]_vars => TypeOK'
  <1> SUFFICES ASSUME TypeOK, [Next]_vars PROVE TypeOK'
    OBVIOUS
  <1>1. CASE UNCHANGED vars
    BY <1>1 DEF vars, database, store, history, TypeOK
  <1>2. CASE Next
    BY <1>2, ReplaceType, FilesType, OrderType, SweepType DEF Next, Continue
  <1> QED
    BY <1>1, <1>2

\* The rows, the objects and the requests keep their shape: an order's status
\* is one of the state machine's, whatever the requests overwrite.
THEOREM TypeCorrect == Spec => []TypeOK
  BY InitType, TypeInvariance, PTL DEF Spec

(***************************************************************************)
(* The delivery of an order                                                *)
(***************************************************************************)
\* Whoever uploads for an order that is past the work is an upload that its last
\* change of status found under way.
Judged == \A o \in Orders : status[o] \notin allowedUploadStates => Uploads(o) \subseteq late[o]

\* Only the first step of an upload makes a request an upload.
LEMMA UploadsStep ==
    ASSUME TypeOK, NEW r \in Requests, NEW x \in Request, req' = [req EXCEPT ![r] = x],
           NEW h, x \in Replacing => req[r] \in Replacing /\ req[r].holder = x.holder
    PROVE  Uploads(h)' \subseteq Uploads(h)
  BY ReqStep DEF Uploads

LEMMA JudgedStep ==
    ASSUME TypeOK, Judged, NEW r \in Requests, NEW x \in Request, req' = [req EXCEPT ![r] = x],
           x \in Replacing => req[r] \in Replacing /\ req[r].holder = x.holder,
           UNCHANGED <<status, late>>
    PROVE  Judged'
  BY UploadsStep DEF Judged

LEMMA JudgedInvariance == TypeOK /\ Judged /\ [Next]_vars => Judged'
  <1> SUFFICES ASSUME TypeOK, Judged, [Next]_vars PROVE Judged'
    OBVIOUS
  <1> USE DEF database, store, history
  <1> Idle \in Request /\ Idle \notin Replacing
    BY IdleIsRequest DEF Idle, Replacing
  <1>1. CASE UNCHANGED vars
    BY <1>1 DEF vars, Judged, Uploads
  <1>2. ASSUME NEW r \in Requests, NEW h \in Holders, ReadHolder(r, h) PROVE Judged'
    <2>1. req' = [req EXCEPT ![r] = [pc |-> IF key[h] = None THEN "upload" ELSE "delete",
                                     holder |-> h, old |-> key[h], new |-> None]]
      BY <1>2 DEF ReadHolder
    <2>2. \A o \in Orders \ {h} : Uploads(o)' \subseteq Uploads(o)
      BY <2>1 DEF Uploads, TypeOK
    <2>3. h \in Orders => status[h] \in allowedUploadStates
      BY <1>2 DEF ReadHolder, MayUpload
    <2> QED
      BY <1>2, <2>2, <2>3 DEF ReadHolder, Judged
  <1>3. ASSUME NEW r \in Requests, DeleteOld(r) PROVE Judged'
    <2>1. req[r] \in Replacing
      BY <1>3, Shape DEF DeleteOld, At, TypeOK
    <2>2. [req[r] EXCEPT !.pc = "upload"] \in Request
      BY <1>3, PcStep DEF DeleteOld, At
    <2> QED
      BY <1>3, <2>1, <2>2, JudgedStep DEF DeleteOld, Goto, Replacing
  <1>4. ASSUME NEW r \in Requests, UploadNew(r) PROVE Judged'
    <2>1. PICK new \in Objects : req' = [req EXCEPT ![r] = [req[r] EXCEPT !.pc = "update", !.new = new]]
      BY <1>4 DEF UploadNew
    <2>2. req[r] \in Replacing
      BY <1>4, Shape DEF UploadNew, At, TypeOK
    <2>3. [req[r] EXCEPT !.pc = "update", !.new = new] \in Request
      BY <2>2 DEF Replacing, Request
    <2> QED
      BY <1>4, <2>1, <2>2, <2>3, JudgedStep DEF UploadNew, Replacing
  <1>5. ASSUME NEW r \in Requests, \E e \in Entities : Attach(r, e) PROVE Judged'
    <2>1. PICK e \in Entities, new \in Objects :
              req' = [req EXCEPT ![r] = [pc |-> "insert", file |-> [object |-> new, entity |-> e]]]
      BY <1>5 DEF Attach
    <2>2. [pc |-> "insert", file |-> [object |-> new, entity |-> e]] \in Request \ Replacing
      BY DEF Request, Attaching, Replacing, File
    <2> QED
      BY <1>5, <2>1, <2>2, JudgedStep DEF Attach
  <1>6. ASSUME NEW r \in Requests, NEW f \in listed, ReadFile(r, f) PROVE Judged'
    <2>1. [pc |-> "remove", file |-> f] \in Request \ Replacing
      BY DEF Request, Detaching, Replacing, TypeOK
    <2> QED
      BY <1>6, <2>1, JudgedStep DEF ReadFile
  <1>7. ASSUME NEW r \in Requests, RemoveObject(r) PROVE Judged'
    <2>1. [req[r] EXCEPT !.pc = "unlist"] \in Request
      BY <1>7, PcStep DEF RemoveObject, At
    <2>2. req[r] \in Detaching
      BY <1>7, Shape DEF RemoveObject, At, TypeOK
    <2>3. [req[r] EXCEPT !.pc = "unlist"] \notin Replacing
      BY <2>2 DEF Detaching, Replacing
    <2> QED
      BY <1>7, <2>1, <2>3, JudgedStep DEF RemoveObject, Goto
  <1>8. ASSUME NEW o \in Orders, Sweep(o) PROVE Judged'
    <2>1. UNCHANGED req /\ late' = [late EXCEPT ![o] = Uploads(o)] /\ status' = [status EXCEPT ![o] = "closed"]
      BY <1>8 DEF Sweep
    <2>2. \A h \in Orders : Uploads(h)' = Uploads(h)
      BY <2>1 DEF Uploads
    <2> QED
      BY <2>1, <2>2 DEF Judged, TypeOK
  <1>9. ASSUME NEW r \in Requests, NEW o \in Orders, ReadOrder(r, o) PROVE Judged'
    <2>1. PICK s \in GIG_ORDER_TRANSITIONS[status[o]] :
              req' = [req EXCEPT ![r] = [pc |-> "move", order |-> o, to |-> s]]
      BY <1>9 DEF ReadOrder
    <2>2. s \in Statuses
      BY <2>1 DEF GIG_ORDER_TRANSITIONS, Statuses, TypeOK
    <2>3. [pc |-> "move", order |-> o, to |-> s] \in Request \ Replacing
      BY <2>2 DEF Request, Moving, Replacing
    <2> QED
      BY <1>9, <2>1, <2>3, JudgedStep DEF ReadOrder
  <1>10. ASSUME NEW r \in Requests, MoveOrder(r) PROVE Judged'
    <2>1. \A h \in Orders : Uploads(h)' \subseteq Uploads(h)
      BY <1>10, UploadsStep DEF MoveOrder, End
    <2>2. req[r].order \in Orders
      BY <1>10, Shape DEF MoveOrder, At, TypeOK
    <2> QED
      BY <1>10, <2>1, <2>2 DEF MoveOrder, Judged, TypeOK
  <1>11. ASSUME NEW r \in Requests,
                UpdateKey(r) \/ InsertFile(r) \/ DeleteFileRow(r) \/ Stop(r)
         PROVE  Judged'
    BY <1>11, JudgedStep DEF UpdateKey, InsertFile, DeleteFileRow, Stop, End
  <1> QED
    BY <1>1, <1>2, <1>3, <1>4, <1>5, <1>6, <1>7, <1>8, <1>9, <1>10, <1>11 DEF Next, Continue

LEMMA JudgedUploads ==
    ASSUME TypeOK, Judged, NEW o \in Orders, [Next]_vars, key'[o] /= key[o],
           status[o] \notin allowedUploadStates
    PROVE  \E r \in late[o] : At(r, "update") /\ req[r].holder = o
  <1> USE DEF database, store, history
  <1>1. ASSUME UNCHANGED key PROVE FALSE
    BY <1>1
  <1>2. PICK r \in Requests : UpdateKey(r)
    BY <1>1 DEF Next, Continue, vars, ReadHolder, DeleteOld, UploadNew, Attach, InsertFile, ReadFile,
                RemoveObject, DeleteFileRow, ReadOrder, MoveOrder, Stop, Sweep
  <1>3. req[r].holder = o
    BY <1>2 DEF UpdateKey, TypeOK
  <1>4. r \in Uploads(o)
    BY <1>2, <1>3, Shape DEF UpdateKey, At, Uploads, TypeOK
  <1> QED
    BY <1>2, <1>3, <1>4 DEF Judged, UpdateKey

\* What the buyer of an order judged stays what it was, however many uploads and
\* changes of status overlap, but for an upload that began while the work was on.
THEOREM DeliveryKept == Spec => DeliveryStays
  <1>1. Init => Judged
    BY DEF Init, Judged, Uploads, Idle, Replacing
  <1>2. TypeOK /\ Judged /\ [Next]_vars =>
            [\A o \in Orders :
                key'[o] /= key[o] /\ status[o] \notin allowedUploadStates
                    => \E r \in late[o] : At(r, "update") /\ req[r].holder = o]_vars
    BY JudgedUploads
  <1> QED
    BY <1>1, <1>2, InitType, TypeInvariance, JudgedInvariance, PTL DEF Spec, DeliveryStays

(***************************************************************************)
(* Rows and objects                                                        *)
(***************************************************************************)
\* Objects a request uploaded and no row names yet.
Fresh(r) == CASE req[r].pc = "update" -> {req[r].new}
              [] req[r].pc = "insert" -> {req[r].file.object}
              [] OTHER -> {}

\* Objects that belong to a holder or a file: its row names them, or a request
\* read them there.
OfHolder(h, x) == x # None /\ (key[h] = x \/ \E r \in Uploads(h) : req[r].old = x)
OfFile(f) == f \in listed \/ \E r \in Requests : req[r] \in Detaching /\ req[r].file = f
Known(x) == \/ \E h \in Holders : OfHolder(h, x)
            \/ \E f \in File : OfFile(f) /\ f.object = x

\* An object belongs to one row, and a fresh one to none.
Owned ==
    /\ \A h, g \in Holders : \A x \in Objects : OfHolder(h, x) /\ OfHolder(g, x) => h = g
    /\ \A h \in Holders, f \in File : OfFile(f) => ~OfHolder(h, f.object)
    /\ \A f, g \in File : OfFile(f) /\ OfFile(g) /\ f.object = g.object => f = g
FreshApart ==
    \A r \in Requests : \A x \in Fresh(r) :
        /\ x \in stored /\ ~Known(x)
        /\ \A q \in Requests \ {r} : x \notin Fresh(q)
Bounded == /\ stored \subseteq 1 .. made
           /\ \A x \in Objects : Known(x) => x <= made
Ownership == Owned /\ FreshApart /\ Bounded

\* Nothing belongs to more than it did, nothing fresh is removed.
LEMMA KeepOwnership ==
    ASSUME TypeOK, Ownership, made' = made,
           \A h \in Holders, x \in Objects : OfHolder(h, x)' => OfHolder(h, x),
           \A f \in File : OfFile(f)' => OfFile(f),
           \A r \in Requests : Fresh(r)' \subseteq Fresh(r),
           stored' \subseteq stored,
           \A r \in Requests : Fresh(r)' \cap stored \subseteq stored'
    PROVE  Ownership'
  <1>1. \A x \in Objects : Known(x)' => Known(x)
    BY DEF Known
  <1>2. Owned'
    BY FileTypes DEF Ownership, Owned, TypeOK
  <1>3. FreshApart'
    <2>1. \A r \in Requests : \A x \in Fresh(r)' : x \in Fresh(r) /\ x \in stored
      BY DEF Ownership, FreshApart
    <2>2. stored \subseteq Objects
      BY DEF TypeOK
    <2> QED
      BY <1>1, <2>1, <2>2 DEF Ownership, FreshApart
  <1>4. Bounded'
    BY <1>1 DEF Ownership, Bounded
  <1> QED
    BY <1>2, <1>3, <1>4 DEF Ownership

\* An upload: the object is one nobody has heard of.
LEMMA UploadOwnership ==
    ASSUME TypeOK, Ownership, NEW new \in Objects, uploadFile(new),
           NEW r \in Requests, Fresh(r)' = {new},
           \A q \in Requests \ {r} : Fresh(q)' = Fresh(q),
           \A h \in Holders, x \in Objects : OfHolder(h, x)' => OfHolder(h, x),
           \A f \in File : OfFile(f)' => OfFile(f)
    PROVE  Ownership'
  <1>1. \A x \in Objects : Known(x)' => Known(x)
    BY DEF Known
  <1>2. /\ new = made + 1 /\ made' = made + 1 /\ stored' = stored \cup {new}
        /\ made \in Nat /\ stored \subseteq Objects
    BY BoundsAssumption DEF uploadFile, TypeOK
  <1>3. ~Known(new) /\ new \notin stored
    BY <1>2 DEF Ownership, Bounded
  <1>4. \A q \in Requests : new \notin Fresh(q)
    BY <1>3 DEF Ownership, FreshApart
  <1>5. Owned'
    BY FileTypes DEF Ownership, Owned, TypeOK
  <1>6. FreshApart'
    <2> SUFFICES ASSUME NEW q \in Requests, NEW x \in Fresh(q)'
                 PROVE  /\ x \in stored' /\ ~Known(x)'
                        /\ \A p \in Requests \ {q} : x \notin Fresh(p)'
      BY DEF FreshApart
    <2>1. CASE q = r
      BY <2>1, <1>1, <1>2, <1>3, <1>4
    <2>2. CASE q # r
      <3>1. x \in Fresh(q) /\ x \in stored /\ ~Known(x) /\ \A p \in Requests \ {q} : x \notin Fresh(p)
        BY <2>2 DEF Ownership, FreshApart
      <3> QED
        BY <3>1, <1>1, <1>2, <1>3
    <2> QED
      BY <2>1, <2>2
  <1>7. Bounded'
    BY <1>1, <1>2 DEF Ownership, Bounded, Objects
  <1> QED
    BY <1>5, <1>6, <1>7 DEF Ownership

\* A fresh object is given to one row.
LEMMA NameOwnership ==
    ASSUME TypeOK, Ownership, UNCHANGED <<stored, made>>,
           NEW r \in Requests, NEW new \in Fresh(r) \cap Objects, Fresh(r)' = {},
           \A q \in Requests \ {r} : Fresh(q)' = Fresh(q),
           \/ /\ \E g \in Holders : \A h \in Holders, x \in Objects :
                       OfHolder(h, x)' => OfHolder(h, x) \/ (h = g /\ x = new)
              /\ \A f \in File : OfFile(f)' => OfFile(f)
           \/ /\ \E g \in File : g.object = new /\ \A f \in File : OfFile(f)' => OfFile(f) \/ f = g
              /\ \A h \in Holders, x \in Objects : OfHolder(h, x)' => OfHolder(h, x)
    PROVE  Ownership'
  <1>1. \A x \in Objects : Known(x)' => Known(x) \/ x = new
    BY DEF Known
  <1>2. /\ new \in stored /\ ~Known(new)
        /\ \A q \in Requests \ {r} : new \notin Fresh(q)
    BY DEF Ownership, FreshApart
  <1>3. /\ \A h \in Holders : ~OfHolder(h, new)
        /\ \A f \in File : OfFile(f) => f.object # new
    BY <1>2 DEF Known
  <1>4. Owned'
    BY <1>3, FileTypes DEF Ownership, Owned, TypeOK
  <1>5. FreshApart'
    <2> SUFFICES ASSUME NEW q \in Requests, NEW x \in Fresh(q)'
                 PROVE  /\ x \in stored' /\ ~Known(x)'
                        /\ \A p \in Requests \ {q} : x \notin Fresh(p)'
      BY DEF FreshApart
    <2>1. q # r /\ x \in Fresh(q)
      OBVIOUS
    <2>2. /\ x \in stored /\ ~Known(x) /\ x # new
          /\ \A p \in Requests \ {q} : x \notin Fresh(p)
      BY <2>1, <1>2 DEF Ownership, FreshApart
    <2> QED
      BY <2>1, <2>2, <1>1 DEF TypeOK
  <1>6. Bounded'
    BY <1>1, <1>2 DEF Ownership, Bounded, TypeOK, Objects
  <1> QED
    BY <1>4, <1>5, <1>6 DEF Ownership

\* What a request that goes on from req[r] to x still holds.
LEMMA HoldsLess ==
    ASSUME TypeOK, NEW r \in Requests, NEW x \in Request, req' = [req EXCEPT ![r] = x],
           x \in Replacing => \/ /\ req[r] \in Replacing
                                 /\ x.holder = req[r].holder /\ x.old = req[r].old
                              \/ x.old = key[x.holder],
           x \in Detaching => x.file \in listed \/ (req[r] \in Detaching /\ x.file = req[r].file)
    PROVE  /\ key' = key => \A h \in Holders, y \in Objects : OfHolder(h, y)' => OfHolder(h, y)
           /\ listed' \subseteq listed => \A f \in File : OfFile(f)' => OfFile(f)
           /\ \A q \in Requests \ {r} : Fresh(q)' = Fresh(q)
           /\ \A h \in Holders, y \in Objects :
                  OfHolder(h, y)' => OfHolder(h, y) \/ key'[h] = y
           /\ \A f \in File : OfFile(f)' => OfFile(f) \/ f \in listed'
           /\ x.pc \notin {"update", "insert"} => Fresh(r)' = {}
  <1>1. \A q \in Requests : req'[q] = IF q = r THEN x ELSE req[q]
    BY ReqStep
  <1>2. ASSUME NEW h \in Holders, NEW y \in Objects, OfHolder(h, y)', key'[h] # y
        PROVE  OfHolder(h, y)
    <2>1. PICK q \in Requests : req'[q] \in Replacing /\ req'[q].holder = h /\ req'[q].old = y
      BY <1>2 DEF OfHolder, Uploads
    <2>2. y # None
      BY DEF Objects
    <2>3. CASE q # r
      BY <2>1, <2>2, <2>3, <1>1 DEF OfHolder, Uploads
    <2>4. CASE q = r
      BY <2>1, <2>2, <2>4, <1>1 DEF OfHolder, Uploads
    <2> QED
      BY <2>3, <2>4
  <1>3. ASSUME NEW f \in File, OfFile(f)', f \notin listed' PROVE OfFile(f)
    <2>1. PICK q \in Requests : req'[q] \in Detaching /\ req'[q].file = f
      BY <1>3 DEF OfFile
    <2> QED
      BY <2>1, <1>1 DEF OfFile
  <1>4. \A q \in Requests \ {r} : Fresh(q)' = Fresh(q)
    BY <1>1 DEF Fresh
  <1>5. x.pc \notin {"update", "insert"} => Fresh(r)' = {}
    BY <1>1 DEF Fresh
  <1>6. key' = key => \A h \in Holders, y \in Objects : OfHolder(h, y)' => OfHolder(h, y)
    BY <1>2 DEF OfHolder, Objects
  <1>7. listed' \subseteq listed => \A f \in File : OfFile(f)' => OfFile(f)
    BY <1>3 DEF OfFile
  <1> QED
    BY <1>2, <1>3, <1>4, <1>5, <1>6, <1>7

LEMMA HolderOwnership ==
    ASSUME TypeOK, Ownership, NEW r \in Requests,
           \/ \E h \in Holders : ReadHolder(r, h)
           \/ DeleteOld(r) \/ UploadNew(r) \/ UpdateKey(r)
    PROVE  Ownership'
  <1> USE DEF database, store, history
  <1> req[r] \in Request
    BY DEF TypeOK
  <1>1. ASSUME NEW h \in Holders, ReadHolder(r, h) PROVE Ownership'
    <2> DEFINE x == [pc |-> IF key[h] = None THEN "upload" ELSE "delete",
                     holder |-> h, old |-> key[h], new |-> None]
    <2>1. x \in Request /\ x \notin Detaching /\ x.pc \notin {"update", "insert"}
      BY DEF TypeOK, Request, Replacing, Detaching
    <2>2. req' = [req EXCEPT ![r] = x]
      BY <1>1 DEF ReadHolder
    <2>3. x.old = key[x.holder]
      OBVIOUS
    <2> HIDE DEF x
    <2> QED
      BY <1>1, <2>1, <2>2, <2>3, HoldsLess, KeepOwnership DEF ReadHolder
  <1>2. CASE DeleteOld(r)
    <2> DEFINE x == [req[r] EXCEPT !.pc = "upload"]
    <2>1. x \in Request /\ x.pc = "upload" /\ x.holder = req[r].holder /\ x.old = req[r].old
      BY <1>2, PcStep, Shape DEF DeleteOld, At, Replacing
    <2>2. req[r] \in Replacing /\ x \notin Detaching
      BY <1>2, <2>1, Shape DEF DeleteOld, At
    <2>3. req' = [req EXCEPT ![r] = x] /\ UNCHANGED <<key, listed, made>>
      BY <1>2 DEF DeleteOld, Goto, deleteFile
    <2>4. stored' = stored \ {req[r].old} \/ stored' = stored
      BY <1>2 DEF DeleteOld, deleteFile
    <2>5. /\ \A h \in Holders, y \in Objects : OfHolder(h, y)' => OfHolder(h, y)
          /\ \A f \in File : OfFile(f)' => OfFile(f)
          /\ \A q \in Requests : Fresh(q)' \subseteq Fresh(q)
      <3> HIDE DEF x
      <3> QED
        BY <2>1, <2>2, <2>3, HoldsLess
    <2>6. \A q \in Requests : req[r].old \notin Fresh(q)
      <3>1. CASE req[r].old = None
        BY <3>1 DEF Ownership, FreshApart, TypeOK, Objects
      <3>2. CASE req[r].old # None
        <4>1. req[r].old \in Objects /\ req[r].holder \in Holders /\ r \in Uploads(req[r].holder)
          BY <2>2, <3>2, Shape DEF Uploads
        <4>2. Known(req[r].old)
          BY <3>2, <4>1 DEF Known, OfHolder
        <4> QED
          BY <4>2 DEF Ownership, FreshApart
      <3> QED
        BY <3>1, <3>2
    <2> QED
      BY <2>3, <2>4, <2>5, <2>6, KeepOwnership
  <1>3. CASE UploadNew(r)
    <2>1. PICK new \in Objects :
              uploadFile(new) /\ req' = [req EXCEPT ![r] = [req[r] EXCEPT !.pc = "update", !.new = new]]
      BY <1>3 DEF UploadNew
    <2> DEFINE x == [req[r] EXCEPT !.pc = "update", !.new = new]
    <2>2. req[r] \in Replacing
      BY <1>3, Shape DEF UploadNew, At
    <2>3. /\ x \in Request /\ x.pc = "update" /\ x.new = new
          /\ x.holder = req[r].holder /\ x.old = req[r].old
      BY <2>2 DEF Replacing, Request
    <2>4. x \notin Detaching
      BY <2>3 DEF Detaching
    <2>5. UNCHANGED <<key, listed>> /\ req' = [req EXCEPT ![r] = x]
      BY <1>3, <2>1 DEF UploadNew
    <2> HIDE DEF x
    <2>6. Fresh(r)' = {new}
      BY <2>3, <2>5, ReqStep DEF Fresh
    <2> QED
      BY <2>1, <2>2, <2>3, <2>4, <2>5, <2>6, HoldsLess, UploadOwnership
  <1>4. CASE UpdateKey(r)
    <2> DEFINE h == req[r].holder  new == req[r].new
    <2>1. req[r] \in Replacing /\ h \in Holders /\ new \in Objects \cup {None}
      BY <1>4, Shape DEF UpdateKey, At
    <2>2. Fresh(r) = {new}
      BY <1>4 DEF Fresh, UpdateKey, At
    <2>3. new \in Objects
      BY <2>2 DEF Ownership, FreshApart, TypeOK
    <2>4. /\ key' = [key EXCEPT ![h] = new] /\ req' = [req EXCEPT ![r] = Idle]
          /\ UNCHANGED <<listed, stored, made>>
      BY <1>4 DEF UpdateKey, End
    <2>5. Idle \notin Replacing /\ Idle \notin Detaching /\ Idle.pc \notin {"update", "insert"}
      BY DEF Idle, Replacing, Detaching
    <2>6. /\ \A g \in Holders, y \in Objects : OfHolder(g, y)' => OfHolder(g, y) \/ key'[g] = y
          /\ \A f \in File : OfFile(f)' => OfFile(f)
          /\ Fresh(r)' = {} /\ \A q \in Requests \ {r} : Fresh(q)' = Fresh(q)
      BY <2>4, <2>5, HoldsLess, IdleIsRequest
    <2>7. \A g \in Holders, y \in Objects :
              OfHolder(g, y)' => OfHolder(g, y) \/ (g = h /\ y = new)
      BY <2>1, <2>4, <2>6 DEF OfHolder, TypeOK, Objects
    <2> HIDE DEF h, new
    <2>8. new \in Fresh(r) \cap Objects
      BY <2>2, <2>3
    <2>9. UNCHANGED <<stored, made>>
      BY <2>4
    <2> QED
      BY <2>1, <2>6, <2>7, <2>8, <2>9, NameOwnership
  <1> QED
    BY <1>1, <1>2, <1>3, <1>4

LEMMA DetachingKnown ==
    ASSUME TypeOK, NEW r \in Requests, req[r] \in Detaching
    PROVE  /\ req[r].file \in File /\ OfFile(req[r].file)
           /\ req[r].file.object \in Objects /\ Known(req[r].file.object)
  BY Shape, FileTypes DEF TypeOK, OfFile, Known

LEMMA FilesOwnership ==
    ASSUME TypeOK, Ownership, NEW r \in Requests,
           \/ \E e \in Entities : Attach(r, e)
           \/ \E f \in listed : ReadFile(r, f)
           \/ InsertFile(r) \/ RemoveObject(r) \/ DeleteFileRow(r)
    PROVE  Ownership'
  <1> USE DEF database, store, history
  <1> req[r] \in Request
    BY DEF TypeOK
  <1>0. /\ Idle \in Request /\ Idle \notin Replacing /\ Idle \notin Detaching
        /\ Idle.pc \notin {"update", "insert"}
    BY IdleIsRequest DEF Idle, Replacing, Detaching
  <1>1. ASSUME NEW e \in Entities, Attach(r, e) PROVE Ownership'
    <2>1. PICK new \in Objects :
              /\ uploadFile(new)
              /\ req' = [req EXCEPT ![r] = [pc |-> "insert", file |-> [object |-> new, entity |-> e]]]
      BY <1>1 DEF Attach
    <2> DEFINE x == [pc |-> "insert", file |-> [object |-> new, entity |-> e]]
    <2>2. /\ x \in Request /\ x \notin Replacing /\ x \notin Detaching
          /\ x.pc = "insert" /\ x.file.object = new
      BY DEF Request, Attaching, Replacing, Detaching, File
    <2>3. UNCHANGED <<key, listed>> /\ req' = [req EXCEPT ![r] = x]
      BY <1>1, <2>1 DEF Attach
    <2> HIDE DEF x
    <2>4. Fresh(r)' = {new}
      BY <2>2, <2>3, ReqStep DEF Fresh
    <2> QED
      BY <2>1, <2>2, <2>3, <2>4, HoldsLess, UploadOwnership
  <1>2. ASSUME NEW f \in listed, ReadFile(r, f) PROVE Ownership'
    <2> DEFINE x == [pc |-> "remove", file |-> f]
    <2>1. x \in Request /\ x \notin Replacing /\ x.file = f /\ x.pc \notin {"update", "insert"}
      BY DEF Request, Detaching, Replacing, TypeOK
    <2>2. req' = [req EXCEPT ![r] = x] /\ UNCHANGED <<key, listed, stored, made>>
      BY <1>2 DEF ReadFile
    <2> HIDE DEF x
    <2> QED
      BY <2>1, <2>2, HoldsLess, KeepOwnership
  <1>3. CASE InsertFile(r)
    <2>1. req[r].file \in File /\ Fresh(r) = {req[r].file.object}
      BY <1>3, Shape DEF InsertFile, At, Fresh
    <2>2. /\ req' = [req EXCEPT ![r] = Idle] /\ listed' \in {listed, listed \cup {req[r].file}}
          /\ UNCHANGED <<key, stored, made>>
      BY <1>3 DEF InsertFile, End
    <2>3. /\ \A h \in Holders, y \in Objects : OfHolder(h, y)' => OfHolder(h, y)
          /\ \A f \in File : OfFile(f)' => OfFile(f) \/ f \in listed'
          /\ Fresh(r)' = {} /\ \A q \in Requests \ {r} : Fresh(q)' = Fresh(q)
      BY <1>0, <2>2, HoldsLess
    <2>4. \A f \in File : OfFile(f)' => OfFile(f) \/ f = req[r].file
      BY <2>2, <2>3 DEF OfFile
    <2>5. req[r].file.object \in Fresh(r) \cap Objects
      BY <2>1, FileTypes
    <2> QED
      BY <2>1, <2>2, <2>3, <2>4, <2>5, NameOwnership
  <1>4. CASE RemoveObject(r)
    <2> DEFINE x == [req[r] EXCEPT !.pc = "unlist"]
    <2>1. req[r] \in Detaching
      BY <1>4, Shape DEF RemoveObject, At
    <2>2. /\ x \in Request /\ x.file = req[r].file /\ x \notin Replacing
          /\ x.pc \notin {"update", "insert"}
      BY <1>4, <2>1, PcStep DEF RemoveObject, At, Detaching, Replacing
    <2>3. req' = [req EXCEPT ![r] = x] /\ UNCHANGED <<key, listed, made>>
      BY <1>4 DEF RemoveObject, Goto, deleteFile
    <2>4. stored' = stored \ {req[r].file.object} \/ stored' = stored
      BY <1>4 DEF RemoveObject, deleteFile
    <2>5. \A q \in Requests : req[r].file.object \notin Fresh(q)
      BY <2>1, DetachingKnown DEF Ownership, FreshApart
    <2> HIDE DEF x
    <2>6. /\ \A h \in Holders, y \in Objects : OfHolder(h, y)' => OfHolder(h, y)
          /\ \A f \in File : OfFile(f)' => OfFile(f)
          /\ \A q \in Requests : Fresh(q)' \subseteq Fresh(q)
      BY <2>1, <2>2, <2>3, HoldsLess
    <2> QED
      BY <2>3, <2>4, <2>5, <2>6, KeepOwnership
  <1>5. CASE DeleteFileRow(r)
    <2>1. /\ req' = [req EXCEPT ![r] = Idle] /\ listed' \subseteq listed
          /\ UNCHANGED <<key, stored, made>>
      BY <1>5 DEF DeleteFileRow, End
    <2> QED
      BY <1>0, <2>1, HoldsLess, KeepOwnership
  <1> QED
    BY <1>1, <1>2, <1>3, <1>4, <1>5

LEMMA OwnershipInvariance == TypeOK /\ Ownership /\ [Next]_vars => Ownership'
  <1> SUFFICES ASSUME TypeOK, Ownership, [Next]_vars PROVE Ownership'
    OBVIOUS
  <1> USE DEF database, store, history
  <1>1. CASE UNCHANGED vars
    BY <1>1 DEF vars, Ownership, Owned, FreshApart, Bounded, Known, OfHolder, OfFile, Uploads, Fresh
  <1>2. ASSUME NEW r \in Requests, NEW o \in Orders, ReadOrder(r, o) PROVE Ownership'
    <2>1. PICK s \in GIG_ORDER_TRANSITIONS[status[o]] :
              req' = [req EXCEPT ![r] = [pc |-> "move", order |-> o, to |-> s]]
      BY <1>2 DEF ReadOrder
    <2> DEFINE x == [pc |-> "move", order |-> o, to |-> s]
    <2>2. s \in Statuses
      BY <2>1 DEF GIG_ORDER_TRANSITIONS, Statuses, TypeOK
    <2>3. /\ x \in Request /\ x \notin Replacing /\ x \notin Detaching
          /\ x.pc \notin {"update", "insert"}
      BY <2>2 DEF Request, Moving, Replacing, Detaching
    <2> HIDE DEF x
    <2> QED
      BY <1>2, <2>1, <2>3, HoldsLess, KeepOwnership DEF x, ReadOrder
  <1>3. ASSUME NEW r \in Requests, MoveOrder(r) \/ Stop(r) PROVE Ownership'
    <2>1. /\ Idle \in Request /\ Idle \notin Replacing /\ Idle \notin Detaching
          /\ Idle.pc \notin {"update", "insert"}
      BY IdleIsRequest DEF Idle, Replacing, Detaching
    <2>2. /\ req' = [req EXCEPT ![r] = Idle]
          /\ UNCHANGED <<key, listed, stored, made>>
      BY <1>3 DEF MoveOrder, Stop, End
    <2> QED
      BY <2>1, <2>2, HoldsLess, KeepOwnership
  <1>4. ASSUME NEW o \in Orders, Sweep(o) PROVE Ownership'
    BY <1>4 DEF Sweep, Ownership, Owned, FreshApart, Bounded, Known, OfHolder, OfFile, Uploads, Fresh
  <1> QED
    BY <1>1, <1>2, <1>3, <1>4, HolderOwnership, FilesOwnership DEF Next, Continue

\* What a request is taking from its row belonged to that row.
LEMMA LeavingKnown ==
    ASSUME TypeOK, NEW r \in Requests, NEW x \in Leaving(r), x # None
    PROVE  x \in Objects /\ Known(x)
  <1> req[r] \in Request
    BY DEF TypeOK
  <1>1. CASE req[r].pc \in {"upload", "update"}
    <2>1. req[r] \in Replacing /\ x = req[r].old /\ req[r].holder \in Holders /\ x \in Objects
      BY <1>1, Shape DEF Leaving
    <2> QED
      BY <2>1 DEF Known, OfHolder, Uploads
  <1>2. CASE req[r].pc = "unlist"
    BY <1>2, Shape, DetachingKnown DEF Leaving
  <1> QED
    BY <1>1, <1>2 DEF Leaving

LEMMA RowsStep ==
    ASSUME RowsNameFiles, NEW r \in Requests, torn \subseteq torn',
           \A x \in Named' : x \in Named \/ x \in stored',
           \A x \in Named' \cap stored : x \in stored' \/ x \in Leaving(r)',
           \A q \in Requests \ {r} : Leaving(q)' = Leaving(q),
           \A x \in Leaving(r) \cap Named' : x \in Leaving(r)' \/ x \in torn' \/ x = None
    PROVE  RowsNameFiles'
  <1> SUFFICES ASSUME NEW x \in Named'
               PROVE  x \in stored' \cup torn' \cup {None} \/ \E q \in Requests : x \in Leaving(q)'
    BY DEF RowsNameFiles
  <1>1. CASE x \in stored'
    BY <1>1
  <1>2. CASE x \in Named
    <2>1. x \in stored \cup torn \cup {None} \/ \E q \in Requests : x \in Leaving(q)
      BY <1>2 DEF RowsNameFiles
    <2>2. ASSUME NEW q \in Requests, x \in Leaving(q)
          PROVE  x \in torn' \cup {None} \/ \E p \in Requests : x \in Leaving(p)'
      BY <2>2
    <2> QED
      BY <2>1, <2>2
  <1> QED
    BY <1>1, <1>2

\* A request other than r leaves and holds what it did.
LEMMA OthersStep ==
    ASSUME TypeOK, NEW r \in Requests, NEW x, req' = [req EXCEPT ![r] = x]
    PROVE  /\ \A q \in Requests \ {r} : Leaving(q)' = Leaving(q) /\ InHand(q)' = InHand(q)
           /\ Leaving(r)' = CASE x.pc \in {"upload", "update"} -> {x.old}
                              [] x.pc = "unlist" -> {x.file.object}
                              [] OTHER -> {}
           /\ InHand(r)' = CASE x.pc = "delete" -> {x.old}
                             [] x.pc = "update" -> {x.new}
                             [] x.pc \in {"insert", "remove", "unlist"} -> {x.file.object}
                             [] OTHER -> {}
  <1>1. \A q \in Requests : req'[q] = IF q = r THEN x ELSE req[q]
    BY DEF TypeOK
  <1> QED
    BY <1>1 DEF Leaving, InHand

LEMMA EndStep ==
    ASSUME TypeOK, NEW r \in Requests, req' = [req EXCEPT ![r] = Idle]
    PROVE  /\ \A q \in Requests \ {r} : Leaving(q)' = Leaving(q) /\ InHand(q)' = InHand(q)
           /\ Leaving(r)' = {} /\ InHand(r)' = {}
  <1>1. \A q \in Requests : req'[q] = IF q = r THEN Idle ELSE req[q]
    BY DEF TypeOK
  <1>2. req'[r].pc = "idle"
    BY <1>1 DEF Idle
  <1>3. Leaving(r)' = {} /\ InHand(r)' = {}
    BY <1>2 DEF Leaving, InHand
  <1>4. \A q \in Requests \ {r} : Leaving(q)' = Leaving(q) /\ InHand(q)' = InHand(q)
    BY <1>1 DEF Leaving, InHand
  <1> QED
    BY <1>3, <1>4

\* Objects that are, or would be if their request stopped, left over.
Suspect(x) == /\ x \in stored
              /\ \/ \E r \in Requests : x \in Leaving(r)
                 \/ x \notin Named /\ \A r \in Requests : x \notin InHand(r)
Suspects == {x \in stored : Suspect(x)}
Explained == faults + overtaken + misplaced + refused
Counted == Cardinality(Suspects) <= Explained

LEMMA SuspectsFinite == TypeOK => IsFiniteSet(Suspects) /\ Explained \in Nat
  <1> SUFFICES ASSUME TypeOK PROVE IsFiniteSet(Suspects) /\ Explained \in Nat
    OBVIOUS
  <1>1. IsFiniteSet(Objects)
    BY FS_Interval, BoundsAssumption DEF Objects
  <1>2. Suspects \subseteq Objects
    BY DEF Suspects, TypeOK
  <1> QED
    BY <1>1, <1>2, FS_Subset, BoundsAssumption DEF TypeOK, Explained

\* One object more takes one explanation more.
LEMMA CountStep ==
    ASSUME TypeOK, TypeOK', Counted, NEW y,
           \/ (\A x : Suspect(x)' => Suspect(x)) /\ Explained' >= Explained
           \/ (\A x : Suspect(x)' => Suspect(x) \/ x = y) /\ Explained' >= Explained + 1
    PROVE  Counted'
  <1>1. (TypeOK => IsFiniteSet(Suspects) /\ Explained \in Nat)'
    BY SuspectsFinite, PTL
  <1>2. /\ IsFiniteSet(Suspects) /\ IsFiniteSet(Suspects')
        /\ Explained \in Nat /\ Explained' \in Nat
    BY <1>1, SuspectsFinite
  <1>3. IsFiniteSet(Suspects \cup {y})
    BY <1>2, FS_AddElement
  <1>4. /\ Cardinality(Suspects) \in Nat /\ Cardinality(Suspects') \in Nat
        /\ Cardinality(Suspects \cup {y}) \in Nat
        /\ Cardinality(Suspects \cup {y}) <= Cardinality(Suspects) + 1
    <2>1. \A S : IsFiniteSet(S) => Cardinality(S) \in Nat
      BY FS_CardinalityType
    <2>2. Cardinality(Suspects \cup {y})
              = IF y \in Suspects THEN Cardinality(Suspects) ELSE Cardinality(Suspects) + 1
      BY <1>2, FS_AddElement
    <2> QED
      BY <1>2, <1>3, <2>1, <2>2
  <1>5. CASE (\A x : Suspect(x)' => Suspect(x)) /\ Explained' >= Explained
    <2>1. Suspects' \subseteq Suspects
      BY <1>5 DEF Suspects, Suspect
    <2>2. Cardinality(Suspects') <= Cardinality(Suspects)
      BY <1>2, <2>1, FS_Subset
    <2> QED
      BY <1>2, <1>4, <1>5, <2>2 DEF Counted
  <1>6. CASE (\A x : Suspect(x)' => Suspect(x) \/ x = y) /\ Explained' >= Explained + 1
    <2>1. Suspects' \subseteq Suspects \cup {y}
      BY <1>6 DEF Suspects, Suspect
    <2>2. Cardinality(Suspects') <= Cardinality(Suspects \cup {y})
      BY <1>3, <2>1, FS_Subset
    <2> QED
      BY <1>2, <1>4, <1>6, <2>2 DEF Counted
  <1> QED
    BY <1>5, <1>6

\* Nothing is stored or removed, the rows are what they were, and the request
\* has nothing on its way out and lets go of nothing.
LEMMA QuietStep ==
    ASSUME TypeOK, TypeOK', RowsNameFiles, Counted, NEW r \in Requests,
           UNCHANGED <<key, listed, stored, torn, faults, overtaken, misplaced, refused>>,
           \A q \in Requests \ {r} : Leaving(q)' = Leaving(q) /\ InHand(q)' = InHand(q),
           Leaving(r) = {}, Leaving(r)' \subseteq {None}, InHand(r) \subseteq InHand(r)'
    PROVE  RowsNameFiles' /\ Counted'
  <1>1. Named' = Named
    BY DEF Named
  <1>2. RowsNameFiles'
    BY <1>1, RowsStep
  <1>3. \A x : Suspect(x)' => Suspect(x)
    BY <1>1 DEF Suspect, TypeOK, Objects
  <1>4. Explained' >= Explained
    BY SuspectsFinite DEF Explained
  <1> QED
    BY <1>2, <1>3, <1>4, CountStep

\* A new object is in the hand of the request that uploaded it.
LEMMA UploadStep ==
    ASSUME TypeOK, TypeOK', Ownership, RowsNameFiles, Counted, NEW r \in Requests,
           NEW new \in Objects, uploadFile(new),
           UNCHANGED <<key, listed, torn, faults, overtaken, misplaced, refused>>,
           \A q \in Requests \ {r} : Leaving(q)' = Leaving(q) /\ InHand(q)' = InHand(q),
           Leaving(r)' = Leaving(r), InHand(r) = {}, InHand(r)' = {new}
    PROVE  RowsNameFiles' /\ Counted'
  <1>1. Named' = Named /\ stored' = stored \cup {new}
    BY DEF Named, uploadFile
  <1>2. RowsNameFiles'
    BY <1>1, RowsStep
  <1>3. new \notin stored /\ ~Known(new)
    BY BoundsAssumption DEF uploadFile, Ownership, Bounded, TypeOK
  <1>4. \A q \in Requests : new \notin Leaving(q)
    BY <1>3, LeavingKnown DEF Objects
  <1>5. \A x : Suspect(x)' => Suspect(x)
    BY <1>1, <1>4 DEF Suspect
  <1>6. Explained' >= Explained
    BY SuspectsFinite DEF Explained
  <1> QED
    BY <1>2, <1>5, <1>6, CountStep

\* A fresh object gets its row.
LEMMA NamedStep ==
    ASSUME TypeOK, TypeOK', RowsNameFiles, Counted, NEW r \in Requests, NEW new \in stored,
           UNCHANGED <<stored, torn, faults, overtaken, misplaced, refused>>,
           Named' = Named \cup {new},
           \A q \in Requests \ {r} : Leaving(q)' = Leaving(q) /\ InHand(q)' = InHand(q),
           Leaving(r) = {}, Leaving(r)' = {}, InHand(r) = {new}
    PROVE  RowsNameFiles' /\ Counted'
  <1>1. RowsNameFiles'
    BY RowsStep
  <1>2. \A x : Suspect(x)' => Suspect(x)
    BY DEF Suspect
  <1>3. Explained' >= Explained
    BY SuspectsFinite DEF Explained
  <1> QED
    BY <1>1, <1>2, <1>3, CountStep

\* A fresh object gets no row, for a reason that is counted.
LEMMA LooseStep ==
    ASSUME TypeOK, TypeOK', RowsNameFiles, Counted, NEW r \in Requests, NEW object,
           UNCHANGED <<key, listed, stored, torn>>, Explained' = Explained + 1,
           \A q \in Requests \ {r} : Leaving(q)' = Leaving(q) /\ InHand(q)' = InHand(q),
           Leaving(r) = {}, Leaving(r)' = {}, InHand(r) = {object}
    PROVE  RowsNameFiles' /\ Counted'
  <1>1. Named' = Named
    BY DEF Named
  <1>2. RowsNameFiles'
    BY <1>1, RowsStep
  <1>3. \A x : Suspect(x)' => Suspect(x) \/ x = object
    BY <1>1 DEF Suspect
  <1>4. Explained' >= Explained + 1
    BY SuspectsFinite
  <1> QED
    BY <1>2, <1>3, <1>4, CountStep

\* An object is deleted, or for a reason that is counted it is not.
LEMMA DeleteStep ==
    ASSUME TypeOK, TypeOK', RowsNameFiles, Counted, NEW r \in Requests, NEW object,
           UNCHANGED <<key, listed, torn>>,
           \/ stored' = stored \ {object} /\ UNCHANGED <<faults, overtaken, misplaced, refused>>
           \/ stored' = stored /\ Explained' = Explained + 1,
           \A q \in Requests \ {r} : Leaving(q)' = Leaving(q) /\ InHand(q)' = InHand(q),
           Leaving(r) = {}, Leaving(r)' = {object}, InHand(r) = {object}
    PROVE  RowsNameFiles' /\ Counted'
  <1>1. Named' = Named
    BY DEF Named
  <1>2. RowsNameFiles'
    BY <1>1, RowsStep
  <1>3. CASE stored' = stored \ {object} /\ UNCHANGED <<faults, overtaken, misplaced, refused>>
    <2>1. \A x : Suspect(x)' => Suspect(x)
      BY <1>1, <1>3 DEF Suspect
    <2>2. Explained' >= Explained
      BY <1>3, SuspectsFinite DEF Explained
    <2> QED
      BY <1>2, <2>1, <2>2, CountStep
  <1>4. CASE stored' = stored /\ Explained' = Explained + 1
    <2>1. \A x : Suspect(x)' => Suspect(x) \/ x = object
      BY <1>1, <1>4 DEF Suspect
    <2>2. Explained' >= Explained + 1
      BY <1>4, SuspectsFinite
    <2> QED
      BY <1>2, <2>1, <2>2, CountStep
  <1> QED
    BY <1>3, <1>4

Stored == TypeOK /\ TypeOK' /\ Ownership /\ RowsNameFiles /\ Counted

LEMMA UpdateKeyRows ==
    ASSUME Stored, NEW r \in Requests, UpdateKey(r)
    PROVE  RowsNameFiles' /\ Counted'
  <1> DEFINE h == req[r].holder  new == req[r].new  old == req[r].old
  <1> USE DEF Stored
  <1> req[r] \in Request
    BY DEF TypeOK
  <1>1. /\ req[r] \in Replacing /\ h \in Holders /\ old \in Objects \cup {None}
        /\ req[r].pc = "update"
    BY Shape DEF UpdateKey, At
  <1>2. Fresh(r) = {new} /\ Leaving(r) = {old} /\ InHand(r) = {new}
    BY <1>1 DEF Fresh, Leaving, InHand
  <1>3. /\ key' = [key EXCEPT ![h] = new] /\ req' = [req EXCEPT ![r] = Idle]
        /\ UNCHANGED <<listed, stored, torn, faults, misplaced, refused>>
        /\ overtaken' = IF key[h] = old THEN overtaken ELSE overtaken + 1
    BY DEF UpdateKey, End, history, store
  <1>4. /\ \A q \in Requests \ {r} : Leaving(q)' = Leaving(q) /\ InHand(q)' = InHand(q)
        /\ Leaving(r)' = {} /\ InHand(r)' = {}
    BY <1>3, EndStep
  <1>5. new \in stored /\ ~Known(new) /\ new \in Objects
    BY <1>2 DEF Ownership, FreshApart, TypeOK
  <1> HIDE DEF h, new, old
  <1>6. \A x \in Named' : x \in Named \/ x = new
    BY <1>1, <1>3 DEF Named, TypeOK
  <1>7. \A x \in Named : x \in Named' \/ x = key[h]
    BY <1>1, <1>3 DEF Named, TypeOK
  <1>8. new \in Named'
    BY <1>1, <1>3 DEF Named, TypeOK
  <1>9. ASSUME old # None PROVE old \notin Named'
    <2>1. old \in Objects /\ OfHolder(h, old) /\ Known(old)
      BY <1>1, <1>9 DEF OfHolder, Uploads, Known, h, old
    <2>2. \A g \in Holders : key'[g] # old
      <3>1. \A g \in Holders \ {h} : key[g] # old
        BY <1>1, <1>9, <2>1 DEF Ownership, Owned, OfHolder
      <3> QED
        BY <1>1, <1>3, <1>5, <2>1, <3>1 DEF TypeOK
    <2>3. \A f \in listed : f.object # old
      BY <1>1, <2>1 DEF Ownership, Owned, OfFile, TypeOK
    <2> QED
      BY <1>3, <2>2, <2>3 DEF Named
  <1>10. RowsNameFiles'
    BY <1>2, <1>3, <1>4, <1>5, <1>6, <1>9, RowsStep
  <1>11. \A x : Suspect(x)' => Suspect(x) \/ x = key[h]
    BY <1>2, <1>3, <1>4, <1>7, <1>8 DEF Suspect
  <1>12. ASSUME key[h] = old, NEW x, Suspect(x)' PROVE Suspect(x)
    BY <1>2, <1>3, <1>11, <1>12 DEF Suspect
  <1>13. CASE key[h] = old
    <2>1. Explained' >= Explained
      BY <1>3, <1>13, SuspectsFinite DEF Explained
    <2> QED
      BY <1>10, <1>12, <1>13, <2>1, CountStep
  <1>14. CASE key[h] # old
    <2>1. Explained' >= Explained + 1
      BY <1>3, <1>14, SuspectsFinite DEF Explained, TypeOK
    <2> QED
      BY <1>10, <1>11, <2>1, CountStep
  <1> QED
    BY <1>13, <1>14

LEMMA DeleteFileRowRows ==
    ASSUME Stored, NEW r \in Requests, DeleteFileRow(r)
    PROVE  RowsNameFiles' /\ Counted'
  <1> DEFINE f == req[r].file
  <1> USE DEF Stored
  <1> req[r] \in Request
    BY DEF TypeOK
  <1>1. req[r] \in Detaching /\ req[r].pc = "unlist"
    BY Shape DEF DeleteFileRow, At
  <1>2. f \in File /\ OfFile(f) /\ f.object \in Objects
    BY <1>1, DetachingKnown
  <1>3. Leaving(r) = {f.object} /\ InHand(r) = {f.object}
    BY <1>1 DEF Leaving, InHand
  <1>4. /\ listed' = listed \ {f} /\ req' = [req EXCEPT ![r] = Idle]
        /\ UNCHANGED <<key, stored, torn, faults, overtaken, misplaced, refused>>
    BY DEF DeleteFileRow, End, history, store
  <1>5. /\ \A q \in Requests \ {r} : Leaving(q)' = Leaving(q) /\ InHand(q)' = InHand(q)
        /\ Leaving(r)' = {} /\ InHand(r)' = {}
    BY <1>4, EndStep
  <1> HIDE DEF f
  <1>6. Named' \subseteq Named /\ \A x \in Named : x \in Named' \/ x = f.object
    BY <1>4 DEF Named
  <1>7. f.object \notin Named'
    <2>1. \A g \in listed' : g.object # f.object
      BY <1>2, <1>4 DEF Ownership, Owned, OfFile, TypeOK
    <2>2. \A h \in Holders : key[h] # f.object
      BY <1>2 DEF Ownership, Owned, OfHolder, Objects
    <2> QED
      BY <1>4, <2>1, <2>2 DEF Named
  <1>8. RowsNameFiles'
    BY <1>3, <1>4, <1>5, <1>6, <1>7, RowsStep
  <1>9. \A x : Suspect(x)' => Suspect(x)
    BY <1>3, <1>4, <1>5, <1>6 DEF Suspect
  <1>10. Explained' >= Explained
    BY <1>4, SuspectsFinite DEF Explained
  <1> QED
    BY <1>8, <1>9, <1>10, CountStep

LEMMA StopRows ==
    ASSUME Stored, NEW r \in Requests, Stop(r)
    PROVE  RowsNameFiles' /\ Counted'
  <1> USE DEF Stored
  <1> req[r] \in Request
    BY DEF TypeOK
  <1>1. /\ req' = [req EXCEPT ![r] = Idle] /\ faults' = faults + 1
        /\ UNCHANGED <<key, listed, stored, overtaken, misplaced, refused>>
    BY DEF Stop, End, Fault, database, store
  <1>2. /\ \A q \in Requests \ {r} : Leaving(q)' = Leaving(q) /\ InHand(q)' = InHand(q)
        /\ Leaving(r)' = {} /\ InHand(r)' = {}
    BY <1>1, EndStep
  <1>3. Named' = Named
    BY <1>1 DEF Named
  <1>4. torn \subseteq torn' /\ \A x \in Leaving(r) : x \in torn' \/ x = None
    <2>1. CASE req[r].pc \in {"upload", "update"}
      <3>1. torn' = torn \cup ({req[r].old} \ {None})
        BY <2>1 DEF Stop, At
      <3>2. Leaving(r) = {req[r].old}
        BY <2>1 DEF Leaving
      <3> QED
        BY <3>1, <3>2
    <2>2. CASE req[r].pc = "unlist"
      <3>1. torn' = torn \cup {req[r].file.object}
        BY <2>2 DEF Stop, At
      <3>2. Leaving(r) = {req[r].file.object}
        BY <2>2 DEF Leaving
      <3> QED
        BY <3>1, <3>2
    <2>3. CASE req[r].pc \notin {"upload", "update", "unlist"}
      <3>1. torn' = torn
        BY <2>3 DEF Stop, At
      <3>2. Leaving(r) = {}
        BY <2>3 DEF Leaving
      <3> QED
        BY <3>1, <3>2
    <2> QED
      BY <2>1, <2>2, <2>3
  <1>5. RowsNameFiles'
    BY <1>1, <1>2, <1>3, <1>4, RowsStep
  <1>6. PICK y : InHand(r) \subseteq {y}
    BY DEF InHand
  <1>7. \A x : Suspect(x)' => Suspect(x) \/ x = y
    BY <1>1, <1>2, <1>3, <1>6 DEF Suspect
  <1>8. Explained' >= Explained + 1
    BY <1>1, SuspectsFinite DEF Explained, TypeOK
  <1> QED
    BY <1>5, <1>7, <1>8, CountStep

LEMMA HolderRows ==
    ASSUME Stored, NEW r \in Requests,
           (\E h \in Holders : ReadHolder(r, h)) \/ DeleteOld(r) \/ UploadNew(r)
    PROVE  RowsNameFiles' /\ Counted'
  <1> USE DEF Stored, database, store, history
  <1>1. ASSUME NEW h \in Holders, ReadHolder(r, h) PROVE RowsNameFiles' /\ Counted'
    <2> DEFINE x == [pc |-> IF key[h] = None THEN "upload" ELSE "delete",
                     holder |-> h, old |-> key[h], new |-> None]
    <2>1. /\ req' = [req EXCEPT ![r] = x] /\ req[r].pc = "idle"
          /\ UNCHANGED <<key, listed, stored, torn, faults, overtaken, misplaced, refused>>
      BY <1>1 DEF ReadHolder, At
    <2>2. (x.pc = "upload" /\ x.old = None) \/ x.pc = "delete"
      OBVIOUS
    <2> HIDE DEF x
    <2>3. Leaving(r)' \subseteq {None}
      <3>1. \A q \in Requests : req'[q] = IF q = r THEN x ELSE req[q]
        BY <2>1 DEF TypeOK
      <3> QED
        BY <2>2, <3>1 DEF Leaving
    <2>4. Leaving(r) = {} /\ InHand(r) = {}
      BY <2>1 DEF Leaving, InHand
    <2>5. \A q \in Requests \ {r} : Leaving(q)' = Leaving(q) /\ InHand(q)' = InHand(q)
      BY <2>1, OthersStep
    <2> QED
      BY <2>1, <2>3, <2>4, <2>5, QuietStep
  <1>2. CASE DeleteOld(r)
    <2> DEFINE x == [req[r] EXCEPT !.pc = "upload"]
    <2>1. /\ req' = [req EXCEPT ![r] = x] /\ req[r].pc = "delete"
          /\ UNCHANGED <<key, listed, torn, overtaken, misplaced, refused>>
          /\ deleteFile(req[r].old)
      BY <1>2 DEF DeleteOld, At, Goto
    <2>2. x.pc = "upload" /\ x.old = req[r].old
      BY <2>1, Shape DEF TypeOK, Replacing
    <2>3. Leaving(r) = {} /\ InHand(r) = {req[r].old}
      BY <2>1 DEF Leaving, InHand
    <2> HIDE DEF x
    <2>4. /\ \A q \in Requests \ {r} : Leaving(q)' = Leaving(q) /\ InHand(q)' = InHand(q)
          /\ Leaving(r)' = {req[r].old}
      BY <2>1, <2>2, OthersStep
    <2>5. \/ stored' = stored \ {req[r].old} /\ UNCHANGED <<faults, overtaken, misplaced, refused>>
          \/ stored' = stored /\ Explained' = Explained + 1
      <3>1. {faults, overtaken, misplaced, refused} \subseteq Nat
        BY BoundsAssumption DEF TypeOK
      <3> QED
        BY <2>1, <3>1 DEF deleteFile, Fault, Explained
    <2> QED
      BY <2>1, <2>3, <2>4, <2>5, DeleteStep
  <1>3. CASE UploadNew(r)
    <2>1. PICK new \in Objects :
              uploadFile(new) /\ req' = [req EXCEPT ![r] = [req[r] EXCEPT !.pc = "update", !.new = new]]
      BY <1>3 DEF UploadNew
    <2> DEFINE x == [req[r] EXCEPT !.pc = "update", !.new = new]
    <2>2. /\ req[r].pc = "upload" /\ req' = [req EXCEPT ![r] = x]
          /\ UNCHANGED <<key, listed, torn, faults, overtaken, misplaced, refused>>
      BY <1>3, <2>1 DEF UploadNew, At
    <2>3. x.pc = "update" /\ x.old = req[r].old /\ x.new = new
      BY <2>2, Shape DEF TypeOK, Replacing
    <2>4. Leaving(r) = {req[r].old} /\ InHand(r) = {}
      BY <2>2 DEF Leaving, InHand
    <2> HIDE DEF x
    <2>5. /\ \A q \in Requests \ {r} : Leaving(q)' = Leaving(q) /\ InHand(q)' = InHand(q)
          /\ Leaving(r)' = {req[r].old} /\ InHand(r)' = {new}
      BY <2>2, <2>3, OthersStep
    <2> QED
      BY <2>1, <2>2, <2>4, <2>5, UploadStep
  <1> QED
    BY <1>1, <1>2, <1>3

LEMMA FilesRows ==
    ASSUME Stored, NEW r \in Requests,
           \/ \E e \in Entities : Attach(r, e)
           \/ \E f \in listed : ReadFile(r, f)
           \/ InsertFile(r) \/ RemoveObject(r)
    PROVE  RowsNameFiles' /\ Counted'
  <1> USE DEF Stored, database, store, history
  <1>1. ASSUME NEW e \in Entities, Attach(r, e) PROVE RowsNameFiles' /\ Counted'
    <2>1. PICK new \in Objects :
              /\ uploadFile(new)
              /\ req' = [req EXCEPT ![r] = [pc |-> "insert", file |-> [object |-> new, entity |-> e]]]
      BY <1>1 DEF Attach
    <2> DEFINE x == [pc |-> "insert", file |-> [object |-> new, entity |-> e]]
    <2>2. /\ req[r].pc = "idle" /\ req' = [req EXCEPT ![r] = x]
          /\ UNCHANGED <<key, listed, torn, faults, overtaken, misplaced, refused>>
      BY <1>1, <2>1 DEF Attach, At
    <2>3. x.pc = "insert" /\ x.file.object = new
      OBVIOUS
    <2>4. Leaving(r) = {} /\ InHand(r) = {}
      BY <2>2 DEF Leaving, InHand
    <2> HIDE DEF x
    <2>5. /\ \A q \in Requests \ {r} : Leaving(q)' = Leaving(q) /\ InHand(q)' = InHand(q)
          /\ Leaving(r)' = {} /\ InHand(r)' = {new}
      BY <2>2, <2>3, OthersStep
    <2> QED
      BY <2>1, <2>2, <2>4, <2>5, UploadStep
  <1>2. ASSUME NEW f \in listed, ReadFile(r, f) PROVE RowsNameFiles' /\ Counted'
    <2> DEFINE x == [pc |-> "remove", file |-> f]
    <2>1. /\ req' = [req EXCEPT ![r] = x] /\ req[r].pc = "idle" /\ x.pc = "remove"
          /\ UNCHANGED <<key, listed, stored, torn, faults, overtaken, misplaced, refused>>
      BY <1>2 DEF ReadFile, At
    <2>2. Leaving(r) = {} /\ InHand(r) = {}
      BY <2>1 DEF Leaving, InHand
    <2> HIDE DEF x
    <2>3. /\ \A q \in Requests \ {r} : Leaving(q)' = Leaving(q) /\ InHand(q)' = InHand(q)
          /\ Leaving(r)' = {}
      BY <2>1, OthersStep
    <2> QED
      BY <2>1, <2>2, <2>3, QuietStep
  <1>3. CASE InsertFile(r)
    <2>1. /\ req[r].pc = "insert" /\ req' = [req EXCEPT ![r] = Idle]
          /\ UNCHANGED <<key, stored, torn, faults, overtaken, misplaced>>
      BY <1>3 DEF InsertFile, At, End
    <2>2. Leaving(r) = {} /\ InHand(r) = {req[r].file.object} /\ Fresh(r) = {req[r].file.object}
      BY <2>1 DEF Leaving, InHand, Fresh
    <2>3. req[r].file.object \in stored
      BY <2>2 DEF Ownership, FreshApart
    <2>4. CASE listed' = listed \cup {req[r].file} /\ UNCHANGED refused
      <3>1. Named' = Named \cup {req[r].file.object}
        BY <2>1, <2>4 DEF Named
      <3>2. UNCHANGED <<stored, torn, faults, overtaken, misplaced, refused>>
        BY <2>1, <2>4
      <3> QED
        BY <2>1, <2>2, <2>3, <3>1, <3>2, EndStep, NamedStep
    <2>5. CASE refused' = refused + 1 /\ UNCHANGED listed
      <3>1. /\ \A q \in Requests \ {r} : Leaving(q)' = Leaving(q) /\ InHand(q)' = InHand(q)
            /\ Leaving(r)' = {} /\ InHand(r)' = {}
        BY <2>1, EndStep
      <3>2. Explained' = Explained + 1
        <4>1. {faults, overtaken, misplaced, refused} \subseteq Nat
          BY BoundsAssumption DEF TypeOK
        <4> QED
          BY <2>1, <2>5, <4>1 DEF Explained
      <3>3. UNCHANGED <<key, listed, stored, torn>>
        BY <2>1, <2>5
      <3> QED
        BY <2>2, <3>1, <3>2, <3>3, LooseStep
    <2> QED
      BY <1>3, <2>4, <2>5 DEF InsertFile
  <1>4. CASE RemoveObject(r)
    <2> DEFINE x == [req[r] EXCEPT !.pc = "unlist"]
    <2>1. /\ req' = [req EXCEPT ![r] = x] /\ req[r].pc = "remove"
          /\ UNCHANGED <<key, listed, torn, overtaken, refused>>
      BY <1>4 DEF RemoveObject, At, Goto
    <2>2. x.pc = "unlist" /\ x.file = req[r].file
      BY <2>1, Shape DEF TypeOK, Detaching
    <2>3. Leaving(r) = {} /\ InHand(r) = {req[r].file.object}
      BY <2>1 DEF Leaving, InHand
    <2> HIDE DEF x
    <2>4. /\ \A q \in Requests \ {r} : Leaving(q)' = Leaving(q) /\ InHand(q)' = InHand(q)
          /\ Leaving(r)' = {req[r].file.object}
      BY <2>1, <2>2, OthersStep
    <2>5. \/ /\ stored' = stored \ {req[r].file.object}
             /\ UNCHANGED <<faults, overtaken, misplaced, refused>>
          \/ stored' = stored /\ Explained' = Explained + 1
      <3>1. {faults, overtaken, misplaced, refused} \subseteq Nat
        BY BoundsAssumption DEF TypeOK
      <3>2. CASE deleteFile(req[r].file.object) /\ UNCHANGED misplaced
        BY <2>1, <3>1, <3>2 DEF deleteFile, Fault, Explained
      <3>3. CASE misplaced' = misplaced + 1 /\ UNCHANGED <<store, faults>>
        BY <2>1, <3>1, <3>3 DEF Explained
      <3> QED
        BY <1>4, <3>2, <3>3 DEF RemoveObject
    <2>6. UNCHANGED <<key, listed, torn>>
      BY <2>1
    <2> QED
      BY <2>3, <2>4, <2>5, <2>6, DeleteStep
  <1> QED
    BY <1>1, <1>2, <1>3, <1>4

LEMMA OrderRows ==
    ASSUME Stored, NEW r \in Requests, (\E o \in Orders : ReadOrder(r, o)) \/ MoveOrder(r)
    PROVE  RowsNameFiles' /\ Counted'
  <1> USE DEF Stored, database, store, history
  <1>1. ASSUME NEW o \in Orders, ReadOrder(r, o) PROVE RowsNameFiles' /\ Counted'
    <2>1. PICK s \in GIG_ORDER_TRANSITIONS[status[o]] :
              req' = [req EXCEPT ![r] = [pc |-> "move", order |-> o, to |-> s]]
      BY <1>1 DEF ReadOrder
    <2> DEFINE x == [pc |-> "move", order |-> o, to |-> s]
    <2>2. /\ req[r].pc = "idle" /\ req' = [req EXCEPT ![r] = x] /\ x.pc = "move"
          /\ UNCHANGED <<key, listed, stored, torn, faults, overtaken, misplaced, refused>>
      BY <1>1, <2>1 DEF ReadOrder, At
    <2>3. Leaving(r) = {} /\ InHand(r) = {}
      BY <2>2 DEF Leaving, InHand
    <2> HIDE DEF x
    <2>4. /\ \A q \in Requests \ {r} : Leaving(q)' = Leaving(q) /\ InHand(q)' = InHand(q)
          /\ Leaving(r)' = {}
      BY <2>2, OthersStep
    <2> QED
      BY <2>2, <2>3, <2>4, QuietStep
  <1>2. CASE MoveOrder(r)
    <2>1. /\ req[r].pc = "move" /\ req' = [req EXCEPT ![r] = Idle]
          /\ UNCHANGED <<key, listed, stored, torn, faults, overtaken, misplaced, refused>>
      BY <1>2 DEF MoveOrder, At, End
    <2>2. Leaving(r) = {} /\ InHand(r) = {}
      BY <2>1 DEF Leaving, InHand
    <2> QED
      BY <2>1, <2>2, EndStep, QuietStep
  <1> QED
    BY <1>1, <1>2

LEMMA RowsInvariance ==
    TypeOK /\ TypeOK' /\ Ownership /\ RowsNameFiles /\ Counted /\ [Next]_vars
        => RowsNameFiles' /\ Counted'
  <1> SUFFICES ASSUME Stored, [Next]_vars PROVE RowsNameFiles' /\ Counted'
    BY DEF Stored
  <1>1. CASE UNCHANGED vars
    BY <1>1 DEF vars, database, store, history, Stored, RowsNameFiles, Named, Leaving, Counted,
                Suspects, Suspect, InHand, Explained
  <1>2. ASSUME NEW o \in Orders, Sweep(o) PROVE RowsNameFiles' /\ Counted'
    BY <1>2 DEF Sweep, store, Stored, RowsNameFiles, Named, Leaving, Counted, Suspects, Suspect,
                InHand, Explained
  <1>3. CASE Next
    BY <1>2, <1>3, HolderRows, UpdateKeyRows, FilesRows, DeleteFileRowRows, OrderRows, StopRows
       DEF Next, Continue
  <1> QED
    BY <1>1, <1>3

LEMMA LeftoversAreSuspects == TypeOK /\ Counted => LeftoversAccountedFor
  <1> SUFFICES ASSUME TypeOK, Counted PROVE LeftoversAccountedFor
    OBVIOUS
  <1>1. IsFiniteSet(Suspects) /\ Explained \in Nat
    BY SuspectsFinite
  <1>2. Leftover \subseteq Suspects
    BY DEF Leftover, Suspects, Suspect
  <1>3. Cardinality(Leftover) <= Cardinality(Suspects) /\ IsFiniteSet(Leftover)
    BY <1>1, <1>2, FS_Subset
  <1>4. \A S : IsFiniteSet(S) => Cardinality(S) \in Nat
    BY FS_CardinalityType
  <1> QED
    BY <1>1, <1>3, <1>4 DEF Counted, LeftoversAccountedFor, Explained

\* However many requests replace, attach, delete and stop at once, a row without its
\* object and an object without a row are owed to a fault, an overtaken upload, the
\* files API looking in the wrong bucket or a row the database refused.
THEOREM RowsMatch == Spec => []StoreMatchesRows
  <1>1. Init => Ownership /\ RowsNameFiles /\ Counted
    <2> SUFFICES ASSUME Init PROVE Ownership /\ RowsNameFiles /\ Counted
      OBVIOUS
    <2>1. \A r \in Requests : req[r].pc = "idle" /\ req[r] \notin Replacing /\ req[r] \notin Detaching
      BY DEF Init, Idle, Replacing, Detaching
    <2>2. /\ \A h \in Holders, x \in Objects : ~OfHolder(h, x)
          /\ \A f \in File : ~OfFile(f)
          /\ \A r \in Requests : Fresh(r) = {}
      BY <2>1 DEF Init, OfHolder, OfFile, Uploads, Fresh, Objects
    <2>3. Ownership
      BY <2>2, FileTypes DEF Init, Ownership, Owned, FreshApart, Bounded, Known
    <2>4. RowsNameFiles
      BY DEF Init, RowsNameFiles, Named
    <2>5. Suspects = {}
      BY DEF Init, Suspects
    <2>6. Counted
      BY <2>5, FS_EmptySet DEF Counted, Init, Explained
    <2> QED
      BY <2>3, <2>4, <2>6
  <1>2. RowsNameFiles /\ LeftoversAccountedFor => StoreMatchesRows
    BY DEF StoreMatchesRows
  <1> QED
    BY <1>1, <1>2, InitType, TypeInvariance, OwnershipInvariance, RowsInvariance,
       LeftoversAreSuspects, PTL DEF Spec
=============================================================================
