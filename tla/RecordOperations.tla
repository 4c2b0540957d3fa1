--------------------------- MODULE RecordOperations ---------------------------
(***************************************************************************)
(* The functions that write the records of one table: an edit or archival  *)
(* of a record, a plain creation, the bulk update of a Table's selected    *)
(* rows, and the Builder's update and creation, which the owner confirms   *)
(* after a review; and the publication of a configuration beside them.     *)
(*                                                                         *)
(* Each is one READ COMMITTED transaction.  It locks the business's head,  *)
(* the table's row (object_definitions) and records, in the order of its   *)
(* statements, keeps each lock to its end, and its writes appear when it   *)
(* commits.  A record's updated_at is the start of the transaction that    *)
(* wrote it, hence known by that transaction.  A confirmation is sent by a *)
(* double click or again after a lost answer as readily as once.           *)
(***************************************************************************)
EXTENDS Naturals, FiniteSets

CONSTANTS
    Calls,          \* executions of the functions
    Confirmations,  \* what an owner reviewed: a signed token, a selection
    Records,        \* records of the table, by id
    Present,        \* those that are there at first
    Fields,
    LastRevision,   \* bound: publications
    Head, Object,   \* the rows of the business's head and of the table
    Nobody          \* writer of the first rows, confirmation of a plain call

ASSUME RecordsAssumption ==
    /\ Records \subseteq Nat /\ Present \subseteq Records
    /\ LastRevision \in Nat
    /\ Nobody \notin Calls \cup Confirmations \cup Fields
    /\ Head # Object /\ {Head, Object} \cap Records = {}

VARIABLES
    records,        \* committed rows of the table
    head,           \* head_revision of business_configuration_heads
    confirmations,  \* what was read for a review
    calls,          \* the transactions
    holds           \* the row locks of each: [row, mode]

vars == <<records, head, confirmations, calls, holds>>

Writer == Calls \cup {Nobody}
Row ==
    [status: {"absent", "active", "archived"},
     updated: Writer,               \* updated_at
     data: [Fields -> Writer]]      \* data_json: who wrote which field
Confirmed == {"bulk", "update", "create"}
Kinds == Confirmed \cup {"edit", "add", "publish"}
Confirmation ==
    [stage: {"none", "head", "ready"},
     kind: Confirmed,
     targets: SUBSET Records,
     field: Fields \cup {Nobody},
     revision: Nat,
     seen: [Records -> Row]]
Call ==
    [place: {"idle", "head", "record", "object", "commit", "over"},
     kind: Kinds,
     by: Confirmations \cup {Nobody},
     targets: SUBSET Records,
     field: Fields \cup {Nobody},   \* the patch
     status: {"same", "active", "archived"},    \* requested_record_status
     found: [Records -> Row]]       \* the rows it has locked, as it read them
Lock == [row: Records \cup {Head, Object}, mode: {"share", "update"}]

TypeOK ==
    /\ records \in [Records -> Row]
    /\ head \in Nat
    /\ confirmations \in [Confirmations -> Confirmation]
    /\ calls \in [Calls -> Call]
    /\ holds \in [Calls -> SUBSET Lock]

At(c, place, kinds) == calls[c].place = place /\ calls[c].kind \in kinds
Review(c) == confirmations[calls[c].by]

-----------------------------------------------------------------------------
(* Locks. *)

Excludes(d, row, mode) ==
    \E lock \in holds[d] : lock.row = row /\ ~(mode = "share" /\ lock.mode = "share")
Free(c, row, mode) == \A d \in Calls \ {c} : ~Excludes(d, row, mode)

\* The records it has still to lock.
Left(c) == {r \in calls[c].targets : [row |-> r, mode |-> "update"] \notin holds[c]}

Goes(c, place) == calls' = [calls EXCEPT ![c].place = place]
Locks(c, row, mode) == holds' = [holds EXCEPT ![c] = @ \cup {[row |-> row, mode |-> mode]}]

NewRow(r) ==
    [status |-> IF r \in Present THEN "active" ELSE "absent",
     updated |-> Nobody, data |-> [f \in Fields |-> Nobody]]
NoCall(place) ==
    [place |-> place, kind |-> "edit", by |-> Nobody, targets |-> {}, field |-> Nobody,
     status |-> "same", found |-> [r \in Records |-> NewRow(r)]]

\* A transaction releases its locks when it ends; without a commit nothing of it
\* is left.
Ends(c) ==
    calls' = [calls EXCEPT ![c] = NoCall("over")] /\ holds' = [holds EXCEPT ![c] = {}]

-----------------------------------------------------------------------------
(* What an owner reviews. *)

\* A creation is reviewed against the digest of all records of the table.
Reviewed(review, r) == review.kind = "create" \/ r \in review.targets

\* The functions that prepare a review read the head and find the record, and read
\* it, or the table's records, in a later statement, without looking at its status
\* again.  A bulk update has its rows from one load of the Table, and no head.
ReadHead(v, kind, targets, field) ==
    /\ confirmations[v].stage = "none"
    /\ \A r \in targets : records[r].status = "active"
    /\ CASE kind = "bulk" -> targets # {}
         [] kind = "update" -> Cardinality(targets) = 1
         [] kind = "create" -> targets = {}
    /\ confirmations' = [confirmations EXCEPT ![v] =
          [@ EXCEPT !.stage = "head", !.kind = kind, !.targets = targets,
                    !.field = field, !.revision = head]]
    /\ UNCHANGED <<records, head, calls, holds>>

ReadRecords(v) ==
    /\ confirmations[v].stage = "head"
    /\ confirmations[v].kind = "bulk" =>
          \A r \in confirmations[v].targets : records[r].status = "active"
    /\ confirmations' = [confirmations EXCEPT ![v].stage = "ready",
          ![v].seen = [r \in Records |-> IF Reviewed(confirmations[v], r) THEN records[r]
                                                     ELSE NewRow(r)]]
    /\ UNCHANGED <<records, head, calls, holds>>

-----------------------------------------------------------------------------
(* A call begins. *)

First(kind) ==
    CASE kind \in {"update", "create", "publish"} -> "head"
      [] kind \in {"bulk", "edit"} -> "record"
      [] kind = "add" -> "object"

\* Bounds: rows that calls under way may create, and publications.
Running(kinds) ==
    {c \in Calls : calls[c].kind \in kinds /\ calls[c].place \notin {"idle", "over"}}
Room == Cardinality(Running({"add", "create"}))
            < Cardinality({r \in Records : records[r].status = "absent"})

Begins(c, kind, by, targets, field, status) ==
    /\ calls[c].place = "idle"
    /\ calls' = [calls EXCEPT ![c] =
          [@ EXCEPT !.place = First(kind), !.kind = kind, !.by = by, !.targets = targets,
                    !.field = field, !.status = status]]
    /\ UNCHANGED <<records, head, confirmations, holds>>

Confirm(c, v) ==
    LET review == confirmations[v]
    IN  /\ review.stage = "ready"
        /\ review.kind = "create" => Room
        /\ Begins(c, review.kind, v, review.targets, review.field, "same")

\* A patch, or an archival or restoration.
Edit(c, r, field, status) ==
    /\ records[r].status # "absent"
    /\ field = Nobody <=> status # "same"
    /\ Begins(c, "edit", Nobody, {r}, field, status)

Add(c, field) == Room /\ Begins(c, "add", Nobody, {}, field, "same")

Publish(c) ==
    /\ head + Cardinality(Running({"publish"})) < LastRevision
    /\ Begins(c, "publish", Nobody, {}, Nobody, "same")

-----------------------------------------------------------------------------
(* The statements. *)

\* A confirmed operation holds the head it was reviewed under.
ShareHead(c) ==
    /\ At(c, "head", {"update", "create"})
    /\ Free(c, Head, "share")
    /\ IF head = Review(c).revision
       THEN /\ Goes(c, IF calls[c].kind = "update" THEN "record" ELSE "object")
            /\ Locks(c, Head, "share")
       ELSE Ends(c)
    /\ UNCHANGED <<records, head, confirmations>>

\* A publication that leaves the table alone writes the head only.
LockHead(c) ==
    /\ At(c, "head", {"publish"})
    /\ Free(c, Head, "update") /\ Locks(c, Head, "update")
    /\ Goes(c, "object") \/ Goes(c, "commit")
    /\ UNCHANGED <<records, head, confirmations>>

\* The selection is locked as it was sent.
MutIsNext(c, r) == r \in Left(c)
\* ORDER BY record_id.
IsNext(c, r) == r \in Left(c) /\ \A s \in Left(c) : r <= s

\* The record is read without FOR UPDATE.
MutRecordFree(c, r) == TRUE
RecordFree(c, r) == Free(c, r, "update")

\* A bulk or confirmed update refuses a record that is not as it was reviewed.
Unchanged(c, r) ==
    calls[c].by # Nobody =>
        records[r].status = "active" /\ records[r].updated = Review(c).seen[r].updated

LockRecord(c, r) ==
    /\ At(c, "record", {"edit", "bulk", "update"})
    /\ IsNext(c, r)
    /\ RecordFree(c, r)
    /\ IF Unchanged(c, r)
       THEN /\ calls' = [calls EXCEPT ![c].place = "object", ![c].found[r] = records[r]]
            /\ Locks(c, r, "update")
       ELSE Ends(c)
    /\ UNCHANGED <<records, head, confirmations>>

\* The trigger records_validate, in the INSERT or the UPDATE of a record.
ShareObject(c) ==
    /\ At(c, "object", {"edit", "add", "bulk", "update"})
    /\ Free(c, Object, "share") /\ Locks(c, Object, "share")
    /\ Goes(c, IF Left(c) = {} THEN "commit" ELSE "record")
    /\ UNCHANGED <<records, head, confirmations>>

\* FOR SHARE would let two confirmed creations compare the same records.
MutObjectMode == "share"
ObjectMode == "update"

\* A confirmed creation compares all records of the table, which its lock keeps.
LockObject(c) ==
    /\ At(c, "object", {"create", "publish"})
    /\ Free(c, Object, ObjectMode)
    /\ IF calls[c].kind = "create" => records = Review(c).seen
       THEN Goes(c, "commit") /\ Locks(c, Object, ObjectMode)
       ELSE Ends(c)
    /\ UNCHANGED <<records, head, confirmations>>

-----------------------------------------------------------------------------
(* What a commit makes visible. *)

Patched(c, data) ==
    [f \in Fields |-> IF f = calls[c].field THEN c ELSE data[f]]

\* data_json || patch, on the row that was read; only an edit asks for a status.
Rewritten(c, r) ==
    LET row == calls[c].found[r]
    IN  [status |-> IF calls[c].status = "same" THEN row.status ELSE calls[c].status,
         updated |-> c,
         data |-> Patched(c, row.data)]

Created(c, r) ==
    [status |-> "active", updated |-> c, data |-> Patched(c, records[r].data)]

CommitUpdate(c) ==
    /\ At(c, "commit", {"edit", "bulk", "update"})
    /\ records' = [r \in Records |->
          IF r \in calls[c].targets THEN Rewritten(c, r) ELSE records[r]]
    /\ UNCHANGED head

CommitCreation(c) ==
    /\ At(c, "commit", {"add", "create"})
    /\ \E r \in Records :
          records[r].status = "absent" /\ records' = [records EXCEPT ![r] = Created(c, r)]
    /\ UNCHANGED head

CommitPublication(c) ==
    /\ At(c, "commit", {"publish"})
    /\ head' = head + 1
    /\ UNCHANGED records

Commit(c) ==
    /\ CommitUpdate(c) \/ CommitCreation(c) \/ CommitPublication(c)
    /\ Ends(c)
    /\ UNCHANGED confirmations

\* It raises, or its connection dies: nothing of it is left.
Abort(c) ==
    /\ calls[c].place \in {"head", "record", "object", "commit"}
    /\ Ends(c)
    /\ UNCHANGED <<records, head, confirmations>>

-----------------------------------------------------------------------------
Init ==
    /\ records = [r \in Records |-> NewRow(r)]
    /\ head = 0
    /\ confirmations = [v \in Confirmations |->
          [stage |-> "none", kind |-> "update", targets |-> {},
           field |-> Nobody, revision |-> 0,
           seen |-> [r \in Records |-> NewRow(r)]]]
    /\ calls = [c \in Calls |-> NoCall("idle")]
    /\ holds = [c \in Calls |-> {}]

\* The next statement of a transaction that need not wait.
Proceed(c) ==
    \/ ShareHead(c) \/ LockHead(c)
    \/ \E r \in Records : LockRecord(c, r)
    \/ ShareObject(c) \/ LockObject(c)
    \/ Commit(c)

Next ==
    \/ \E v \in Confirmations :
          \/ \E kind \in Confirmed, targets \in SUBSET Records, field \in Fields :
                ReadHead(v, kind, targets, field)
          \/ ReadRecords(v)
    \/ \E c \in Calls :
          \/ \E v \in Confirmations : Confirm(c, v)
          \/ \E r \in Records, field \in Fields \cup {Nobody}, 
             status \in {"same", "active", "archived"} :
                Edit(c, r, field, status)
          \/ \E field \in Fields : Add(c, field)
          \/ Publish(c)
          \/ Proceed(c)
          \/ Abort(c)

Spec == Init /\ [][Next]_vars

-----------------------------------------------------------------------------
(* Properties. *)

Writes(c, r) == records'[r].updated = c /\ records[r].updated # c

\* What a confirmed operation or a bulk update writes replaces what its owner
\* reviewed: records none of which was written since, for a creation all of the
\* table's, and, where the review named it, the same configuration.
ReviewedIsReplaced ==
    [][\A c \in Calls : calls[c].by # Nobody /\ (\E r \in Records : Writes(c, r)) =>
          /\ \A r \in Records : Reviewed(Review(c), r) =>
                records[r] = Review(c).seen[r]
          /\ calls[c].kind # "bulk" => head = Review(c).revision]_vars

\* Of what others have written to a record a commit changes only the field it
\* patches, and the status only when it was asked to.
FieldsAreKept ==
    [][\A r \in Records : records[r].status # "absent" =>
          /\ \A f \in Fields : records'[r].data[f] # records[r].data[f] =>
                \E c \in Calls : Writes(c, r) /\ calls[c].field = f
          /\ records'[r].status # records[r].status =>
                \E c \in Calls : Writes(c, r) /\ calls[c].status # "same"]_vars

\* The locks of which a call's next statement needs one: the head, the next record,
\* the table's row.
Needs(c) ==
    {lock \in Lock :
        \/ /\ At(c, "head", {"update", "create", "publish"}) /\ lock.row = Head
           /\ lock.mode = IF calls[c].kind = "publish" THEN "update" ELSE "share"
        \/ /\ At(c, "record", {"edit", "bulk", "update"}) /\ lock.row \in Records
           /\ IsNext(c, lock.row) /\ lock.mode = "update"
        \/ /\ At(c, "object", Kinds) /\ lock.row = Object
           /\ lock.mode = IF calls[c].kind \in {"create", "publish"} THEN ObjectMode ELSE "share"}
WaitsFor(c, S) ==
    /\ Needs(c) # {}
    /\ \A lock \in Needs(c) : \E d \in S \ {c} : Excludes(d, lock.row, lock.mode)

\* No transactions ever wait for each other in a ring, whatever rows each holds: one
\* that does not commit next has a statement to go on with, and of any that are under
\* way one waits for none of the others.
NoDeadlock ==
    /\ \A c \in Running(Kinds) : calls[c].place # "commit" => Needs(c) # {}
    /\ \A S \in SUBSET Running(Kinds) :
          IsFiniteSet(S) /\ S # {} => \E c \in S : ~WaitsFor(c, S)

-----------------------------------------------------------------------------
(* What the safety properties rest on. *)

Has(c, row, mode) == [row |-> row, mode |-> mode] \in holds[c]

\* No two transactions hold locks that exclude each other.
LocksAgree ==
    \A c, d \in Calls : c # d =>
        \A lock \in holds[c], other \in holds[d] :
            lock.row = other.row => lock.mode = "share" /\ other.mode = "share"

\* A confirmed call does what was reviewed; an edit is of a record that is there.
DoesWhatWasAsked(c) ==
    LET call == calls[c]
    IN  /\ call.kind \in Confirmed => call.by # Nobody
        /\ call.by # Nobody =>
              /\ Review(c).stage = "ready" /\ call.kind = Review(c).kind
              /\ call.targets = Review(c).targets
        /\ call.kind = "edit" => \A r \in call.targets : records[r].status # "absent"

\* A record that is locked is as the call read it, and as its review saw it.
KeepsRecord(c, r) ==
    /\ r \in calls[c].targets
    /\ calls[c].found[r] = records[r]
    /\ records[r].status # "absent"
    /\ calls[c].by # Nobody => records[r].updated = Review(c).seen[r].updated

\* What a call has locked by the time it gets to a place.
HoldsHead(c) ==
    \/ At(c, "record", {"update"}) \/ At(c, "object", {"update", "create"})
    \/ At(c, "commit", {"update", "create"})
HoldsTable(c) == At(c, "commit", {"edit", "add", "bulk", "update"})
HoldsWhatItNeeds(c) ==
    /\ calls[c].place = "idle" => holds[c] = {}
    /\ \A r \in Records : Has(c, r, "update") => KeepsRecord(c, r)
    /\ HoldsHead(c) => Has(c, Head, "share") /\ head = Review(c).revision
    /\ At(c, "object", {"publish"}) \/ At(c, "commit", {"publish"}) => Has(c, Head, "update")
    /\ HoldsTable(c) => Has(c, Object, "share") /\ Left(c) = {}
    /\ At(c, "commit", {"create"}) =>
          Has(c, Object, "update") /\ records = Review(c).seen

\* What a call has not committed nobody has seen.
Unwritten(c) ==
    calls[c].place # "over" => \A r \in Records :
        /\ records[r].updated # c
        /\ \A v \in Confirmations : confirmations[v].seen[r].updated # c

\* updated_at tells the versions of a record apart.
UpdatedTells ==
    \A v \in Confirmations, r \in Records :
        /\ confirmations[v].stage = "ready" /\ Reviewed(confirmations[v], r)
        /\ confirmations[v].seen[r].updated = records[r].updated
        => confirmations[v].seen[r] = records[r]

IInv ==
    /\ TypeOK /\ LocksAgree /\ UpdatedTells
    /\ \A c \in Calls : DoesWhatWasAsked(c) /\ HoldsWhatItNeeds(c) /\ Unwritten(c)

-----------------------------------------------------------------------------
(* What NoDeadlock rests on: an order of locking. *)

\* A call locks the head before anything else, records in their order, the table's
\* row exclusively only as its last lock, and never with a record.
LocksInOrder(c) ==
    \A lock \in holds[c] :
        /\ calls[c].place \in {"record", "object", "commit"}
        /\ lock.row \in Records =>
              /\ calls[c].kind \in {"edit", "bulk", "update"}
              /\ \A s \in Left(c) : lock.row < s
        /\ lock.row = Object /\ lock.mode = "share" =>
              calls[c].kind \notin {"create", "publish"}
        /\ lock.row = Object /\ lock.mode = "update" => calls[c].place = "commit"

\* What a call has still to lock where it locks a record: a record.
Targeted(v) ==
    confirmations[v].stage # "none" /\ confirmations[v].kind \in {"bulk", "update"} =>
        confirmations[v].targets # {}
HasNext(c) ==
    /\ calls[c].place = "head" =>
          /\ calls[c].kind \in {"update", "create", "publish"}
          /\ calls[c].kind = "update" => calls[c].targets # {}
    /\ calls[c].place = "record" => calls[c].kind \in {"edit", "bulk", "update"} /\ Left(c) # {}
    /\ calls[c].place = "object" /\ calls[c].kind = "add" => calls[c].targets = {}

LInv ==
    /\ TypeOK
    /\ \A v \in Confirmations : Targeted(v)
    /\ \A c \in Calls : LocksInOrder(c) /\ HasNext(c)
=============================================================================
