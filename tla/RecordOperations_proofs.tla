------------------------ MODULE RecordOperations_proofs ------------------------
(***************************************************************************)
(* For any number of calls, confirmations, records, fields and             *)
(* publications: IInv is an inductive invariant of the functions that      *)
(* write a table's records.                                                *)
(***************************************************************************)
EXTENDS RecordOperations, TLAPS, FiniteSetTheorems, WellFoundedInduction

LEMMA Constants ==
  /\ Nobody \notin Calls /\ Nobody \notin Confirmations /\ Nobody \notin Fields
  /\ Head # Object /\ Head \notin Records /\ Object \notin Records
  /\ LastRevision \in Nat
BY RecordsAssumption

-----------------------------------------------------------------------------
(* Types. *)

LEMMA NewRowType == \A r \in Records : NewRow(r) \in Row
BY DEF NewRow, Row, Writer

LEMMA NoCallType ==
  ASSUME NEW place \in {"idle", "over"}
  PROVE  NoCall(place) \in Call
<1>1. [r \in Records |-> NewRow(r)] \in [Records -> Row]
  BY NewRowType
<1>. QED BY <1>1 DEF NoCall, Call, Kinds, Confirmed

LEMMA EndsType ==
  ASSUME TypeOK, NEW c \in Calls, Ends(c)
  PROVE  calls' \in [Calls -> Call] /\ holds' \in [Calls -> SUBSET Lock]
BY NoCallType DEF TypeOK, Ends

LEMMA GoesType ==
  ASSUME TypeOK, NEW c \in Calls,
         NEW place \in {"idle", "head", "record", "object", "commit", "over"},
         Goes(c, place)
  PROVE  calls' \in [Calls -> Call]
<1>1. calls[c] \in Call
  BY DEF TypeOK
<1>2. calls' = [calls EXCEPT ![c] = [calls[c] EXCEPT !.place = place]]
  BY DEF TypeOK, Goes
<1>3. [calls[c] EXCEPT !.place = place] \in Call
  BY <1>1 DEF Call
<1>. QED BY <1>2, <1>3 DEF TypeOK

LEMMA LocksType ==
  ASSUME TypeOK, NEW c \in Calls, NEW row \in Records \cup {Head, Object},
         NEW mode \in {"share", "update"}, Locks(c, row, mode)
  PROVE  holds' \in [Calls -> SUBSET Lock]
BY DEF TypeOK, Locks, Lock

LEMMA BeginsType ==
  ASSUME TypeOK, NEW c \in Calls, NEW kind \in Kinds, NEW by \in Confirmations \cup {Nobody},
         NEW targets \in SUBSET Records, NEW field \in Fields \cup {Nobody},
         NEW status \in {"same", "active", "archived"},
         Begins(c, kind, by, targets, field, status)
  PROVE  TypeOK'
<1>1. First(kind) \in {"head", "record", "object"}
  BY DEF Kinds, Confirmed, First
<1>2. calls[c] \in Call
  BY DEF TypeOK
<1>3. [calls[c] EXCEPT !.place = First(kind), !.kind = kind, !.by = by, !.targets = targets,
                       !.field = field, !.status = status] \in Call
  BY <1>1, <1>2 DEF Call
<1>4. calls' \in [Calls -> Call]
  BY <1>3 DEF TypeOK, Begins
<1>. QED BY <1>4 DEF TypeOK, Begins

LEMMA ReadHeadType ==
  ASSUME TypeOK, NEW v \in Confirmations, NEW kind \in Confirmed,
         NEW targets \in SUBSET Records, NEW field \in Fields,
         ReadHead(v, kind, targets, field)
  PROVE  TypeOK'
<1>1. confirmations[v] \in Confirmation
  BY DEF TypeOK
<1>2. [confirmations[v] EXCEPT !.stage = "head", !.kind = kind, !.targets = targets,
                    !.field = field, !.revision = head] \in Confirmation
  BY <1>1 DEF TypeOK, Confirmation
<1>. QED BY <1>2 DEF TypeOK, ReadHead

LEMMA ReadRecordsType ==
  ASSUME TypeOK, NEW v \in Confirmations, ReadRecords(v)
  PROVE  TypeOK'
<1>. DEFINE seen == [r \in Records |-> IF Reviewed(confirmations[v], r) THEN records[r]
                                       ELSE NewRow(r)]
<1>1. seen \in [Records -> Row]
  BY NewRowType DEF TypeOK
<1>2. confirmations[v] \in Confirmation
  BY DEF TypeOK
<1>3. confirmations' = [confirmations EXCEPT ![v] =
                          [confirmations[v] EXCEPT !.stage = "ready", !.seen = seen]]
  BY DEF ReadRecords, TypeOK, Confirmation
<1>4. [confirmations[v] EXCEPT !.stage = "ready", !.seen = seen] \in Confirmation
  BY <1>1, <1>2 DEF Confirmation
<1>. QED BY <1>3, <1>4 DEF TypeOK, ReadRecords

LEMMA LockRecordType ==
  ASSUME TypeOK, NEW c \in Calls, NEW r \in Records, LockRecord(c, r)
  PROVE  TypeOK'
<1>1. CASE Unchanged(c, r)
  <2>1. calls[c] \in Call /\ records[r] \in Row
    BY DEF TypeOK
  <2>2. calls' = [calls EXCEPT ![c] =
          [calls[c] EXCEPT !.place = "object", !.found = [calls[c].found EXCEPT ![r] = records[r]]]]
    BY <1>1, <2>1 DEF LockRecord, TypeOK, Call
  <2>3. [calls[c] EXCEPT !.place = "object",
                 !.found = [calls[c].found EXCEPT ![r] = records[r]]] \in Call
    BY <2>1 DEF Call
  <2>. QED BY <1>1, <2>2, <2>3, LocksType DEF LockRecord, TypeOK
<1>2. CASE ~Unchanged(c, r)
  BY <1>2, EndsType DEF LockRecord, TypeOK
<1>. QED BY <1>1, <1>2

LEMMA PatchedType ==
  ASSUME TypeOK, NEW c \in Calls, NEW data \in [Fields -> Writer]
  PROVE  Patched(c, data) \in [Fields -> Writer]
BY DEF Patched, Writer

LEMMA CommitType ==
  ASSUME TypeOK, NEW c \in Calls, Commit(c)
  PROVE  TypeOK'
<1>1. calls[c] \in Call
  BY DEF TypeOK
<1>2. CASE CommitUpdate(c)
  <2>1. ASSUME NEW r \in Records
        PROVE  Rewritten(c, r) \in Row
    <3>1. calls[c].found[r] \in Row
      BY <1>1 DEF Call
    <3>2. Patched(c, calls[c].found[r].data) \in [Fields -> Writer]
      BY <3>1, PatchedType DEF Row
    <3>. QED BY <1>1, <3>1, <3>2 DEF Rewritten, Row, Call, Writer
  <2>. QED BY <1>2, <2>1, EndsType DEF TypeOK, Commit, CommitUpdate
<1>3. CASE CommitCreation(c)
  <2>1. ASSUME NEW r \in Records
        PROVE  Created(c, r) \in Row
    <3>1. Patched(c, records[r].data) \in [Fields -> Writer]
      BY PatchedType DEF Row, TypeOK
    <3>. QED BY <3>1 DEF Created, Row, Writer
  <2>. QED BY <1>3, <2>1, EndsType DEF TypeOK, Commit, CommitCreation
<1>4. CASE CommitPublication(c)
  BY <1>4, EndsType DEF TypeOK, Commit, CommitPublication
<1>. QED BY <1>2, <1>3, <1>4 DEF Commit

LEMMA Typing ==
  ASSUME TypeOK, [Next]_vars
  PROVE  TypeOK'
<1>1. ASSUME NEW v \in Confirmations,
             \/ \E kind \in Confirmed, targets \in SUBSET Records, field \in Fields :
                   ReadHead(v, kind, targets, field)
             \/ ReadRecords(v)
      PROVE  TypeOK'
  BY <1>1, ReadHeadType, ReadRecordsType
<1>2. ASSUME NEW c \in Calls, NEW v \in Confirmations, Confirm(c, v)
      PROVE  TypeOK'
  <2>1. confirmations[v] \in Confirmation
    BY DEF TypeOK
  <2>. QED BY <1>2, <2>1, BeginsType DEF Confirm, Confirmation, Kinds
<1>3. ASSUME NEW c \in Calls, NEW r \in Records, NEW field \in Fields \cup {Nobody},
             NEW status \in {"same", "active", "archived"}, Edit(c, r, field, status)
      PROVE  TypeOK'
  BY <1>3, BeginsType DEF Edit, Kinds
<1>4. ASSUME NEW c \in Calls, NEW field \in Fields, Add(c, field)
      PROVE  TypeOK'
  BY <1>4, BeginsType DEF Add, Kinds
<1>5. ASSUME NEW c \in Calls, Publish(c)
      PROVE  TypeOK'
  BY <1>5, BeginsType DEF Publish, Kinds
<1>6. ASSUME NEW c \in Calls, ShareHead(c)
      PROVE  TypeOK'
  BY <1>6, GoesType, LocksType, EndsType DEF ShareHead, TypeOK
<1>7. ASSUME NEW c \in Calls, LockHead(c)
      PROVE  TypeOK'
  BY <1>7, GoesType, LocksType DEF LockHead, TypeOK
<1>8. ASSUME NEW c \in Calls, ShareObject(c)
      PROVE  TypeOK'
  BY <1>8, GoesType, LocksType DEF ShareObject, TypeOK
<1>9. ASSUME NEW c \in Calls, LockObject(c)
      PROVE  TypeOK'
  BY <1>9, GoesType, LocksType, EndsType DEF LockObject, ObjectMode, TypeOK
<1>10. ASSUME NEW c \in Calls, Abort(c)
       PROVE  TypeOK'
  BY <1>10, EndsType DEF Abort, TypeOK
<1>11. CASE UNCHANGED vars
  BY <1>11 DEF TypeOK, vars
<1>. QED
  BY <1>1, <1>2, <1>3, <1>4, <1>5, <1>6, <1>7, <1>8, <1>9, <1>10, <1>11,
     LockRecordType, CommitType DEF Next, Proceed

-----------------------------------------------------------------------------
(* The steps of one call before its commit. *)

\* What a step of c leaves of the other calls.
OthersStay(c) ==
  \A d \in Calls \ {c} : calls'[d] = calls[d] /\ holds'[d] = holds[d]

\* A call that leaves the rows alone keeps the invariant if it does so for itself and
\* takes only locks that are free.
LEMMA CallStep ==
  ASSUME IInv, TypeOK', NEW c \in Calls, OthersStay(c),
         UNCHANGED <<records, head, confirmations>>,
         \A lock \in holds'[c] : lock \in holds[c] \/ Free(c, lock.row, lock.mode),
         calls[c].place = "over" => calls'[c].place = "over",
         DoesWhatWasAsked(c)', HoldsWhatItNeeds(c)'
  PROVE  IInv'
<1>1. LocksAgree'
  <2>. SUFFICES ASSUME NEW d \in Calls, NEW e \in Calls, d # e,
                       NEW lock \in holds'[d], NEW other \in holds'[e],
                       lock.row = other.row
                PROVE  lock.mode = "share" /\ other.mode = "share"
    BY DEF LocksAgree
  <2>1. CASE lock \in holds[d] /\ other \in holds[e]
    BY <2>1 DEF IInv, LocksAgree
  <2>2. CASE lock \notin holds[d]
    <3>1. d = c /\ other \in holds[e]
      BY <2>2 DEF OthersStay
    <3>. QED BY <2>2, <3>1 DEF Free, Excludes
  <2>3. CASE other \notin holds[e]
    <3>1. e = c /\ lock \in holds[d]
      BY <2>3 DEF OthersStay
    <3>. QED BY <2>3, <3>1 DEF Free, Excludes
  <2>. QED BY <2>1, <2>2, <2>3
<1>2. UpdatedTells'
  BY DEF IInv, UpdatedTells, Reviewed
<1>3. ASSUME NEW d \in Calls
      PROVE  DoesWhatWasAsked(d)' /\ HoldsWhatItNeeds(d)' /\ Unwritten(d)'
  <2>1. CASE d = c
    BY <2>1 DEF IInv, Unwritten
  <2>2. CASE d # c
    <3>1. calls'[d] = calls[d] /\ holds'[d] = holds[d]
      BY <2>2 DEF OthersStay
    <3>2. DoesWhatWasAsked(d) /\ HoldsWhatItNeeds(d) /\ Unwritten(d)
      BY DEF IInv
    <3>3. Review(d)' = Review(d)
      BY <3>1 DEF Review
    <3>4. DoesWhatWasAsked(d)'
      BY <3>1, <3>2, <3>3 DEF DoesWhatWasAsked
    <3>5. /\ \A place, kinds : At(d, place, kinds)' <=> At(d, place, kinds)
          /\ \A row, mode : Has(d, row, mode)' <=> Has(d, row, mode)
          /\ Left(d)' = Left(d)
      BY <3>1 DEF At, Has, Left
    <3>6. \A r \in Records : KeepsRecord(d, r)' <=> KeepsRecord(d, r)
      BY <3>1, <3>3 DEF KeepsRecord
    <3>7. HoldsWhatItNeeds(d)'
      BY <3>1, <3>2, <3>3, <3>5, <3>6 DEF HoldsWhatItNeeds, HoldsHead, HoldsTable
    <3>8. Unwritten(d)'
      BY <3>1, <3>2 DEF Unwritten
    <3>. QED BY <3>4, <3>7, <3>8
  <2>. QED BY <2>1, <2>2
<1>. QED BY <1>1, <1>2, <1>3 DEF IInv

LEMMA Over ==
  ASSUME TypeOK, NEW c \in Calls, Ends(c)
  PROVE  /\ OthersStay(c)
         /\ calls'[c] = NoCall("over") /\ holds'[c] = {}
         /\ DoesWhatWasAsked(c)' /\ HoldsWhatItNeeds(c)'
<1>1. OthersStay(c) /\ calls'[c] = NoCall("over") /\ holds'[c] = {}
  BY DEF Ends, OthersStay, TypeOK
<1>. QED
  BY <1>1 DEF DoesWhatWasAsked, HoldsWhatItNeeds, Review, At, Has, HoldsHead, HoldsTable,
     NoCall, Confirmed

LEMMA EndsStep ==
  ASSUME IInv, TypeOK', NEW c \in Calls, Ends(c), UNCHANGED <<records, head, confirmations>>
  PROVE  IInv'
<1>1. NoCall("over").place = "over"
  BY DEF NoCall
<1>. QED BY <1>1, Over, CallStep DEF IInv

LEMMA BeginsStep ==
  ASSUME IInv, TypeOK', NEW c \in Calls, NEW kind \in Kinds,
         NEW by \in Confirmations \cup {Nobody},
         NEW targets \in SUBSET Records, NEW field, NEW status,
         Begins(c, kind, by, targets, field, status),
         kind \in Confirmed => by # Nobody,
         by # Nobody => /\ confirmations[by].stage = "ready" /\ kind = confirmations[by].kind
                        /\ targets = confirmations[by].targets,
         kind = "edit" => \A r \in targets : records[r].status # "absent"
  PROVE  IInv'
<1>1. /\ calls[c].place = "idle" /\ holds[c] = {}
      /\ UNCHANGED <<records, head, confirmations, holds>>
  BY DEF Begins, IInv, HoldsWhatItNeeds
<1>2. calls'[c] = [calls[c] EXCEPT !.place = First(kind), !.kind = kind, !.by = by,
                     !.targets = targets, !.field = field, !.status = status]
  BY DEF Begins, IInv, TypeOK
<1>3. calls[c] \in Call
  BY DEF IInv, TypeOK
<1>4. /\ calls'[c].place = First(kind) /\ calls'[c].kind = kind /\ calls'[c].by = by
      /\ calls'[c].targets = targets
  BY <1>2, <1>3 DEF Call
<1>5. OthersStay(c)
  BY <1>1 DEF Begins, OthersStay, IInv, TypeOK
<1>6. DoesWhatWasAsked(c)'
  BY <1>1, <1>4 DEF DoesWhatWasAsked, Review
<1>7. HoldsWhatItNeeds(c)'
  BY <1>1, <1>4 DEF HoldsWhatItNeeds, At, Has, HoldsHead, HoldsTable, First, Kinds, Confirmed
<1>. QED BY <1>1, <1>5, <1>6, <1>7, CallStep

\* What a lock statement does to its call.
LEMMA LocksOn ==
  ASSUME TypeOK, NEW c \in Calls, NEW row, NEW mode, Locks(c, row, mode)
  PROVE  holds'[c] = holds[c] \cup {[row |-> row, mode |-> mode]}
BY DEF TypeOK, Locks

LEMMA GoesOn ==
  ASSUME TypeOK, NEW c \in Calls, NEW place, Goes(c, place)
  PROVE  /\ calls'[c].place = place /\ calls'[c].kind = calls[c].kind
         /\ calls'[c].by = calls[c].by /\ calls'[c].targets = calls[c].targets
         /\ calls'[c].found = calls[c].found
<1>1. calls[c] \in Call
  BY DEF TypeOK
<1>2. calls'[c] = [calls[c] EXCEPT !.place = place]
  BY DEF TypeOK, Goes
<1>. QED BY <1>1, <1>2 DEF Call

LEMMA OthersGoOn ==
  ASSUME TypeOK, NEW c \in Calls, NEW place, Goes(c, place),
         NEW row, NEW mode, Locks(c, row, mode)
  PROVE  OthersStay(c)
BY DEF TypeOK, Goes, Locks, OthersStay

\* A call that locks the head or the table, and is where it may be with that.
LEMMA GoesStep ==
  ASSUME IInv, TypeOK', NEW c \in Calls, NEW place, Goes(c, place),
         NEW row \in {Head, Object}, NEW mode, Locks(c, row, mode), Free(c, row, mode),
         calls[c].place \notin {"idle", "over"}, place # "idle",
         UNCHANGED <<records, head, confirmations>>,
         HoldsHead(c)' => Has(c, Head, "share")' /\ head = Review(c).revision,
         At(c, "object", {"publish"})' \/ At(c, "commit", {"publish"})'
             => Has(c, Head, "update")',
         HoldsTable(c)' => Has(c, Object, "share")' /\ Left(c) = {},
         At(c, "commit", {"create"})' =>
             Has(c, Object, "update")' /\ records = Review(c).seen
  PROVE  IInv'
<1>. USE DEF IInv
<1>1. /\ OthersStay(c)
      /\ calls'[c].place = place /\ calls'[c].kind = calls[c].kind
      /\ calls'[c].by = calls[c].by /\ calls'[c].targets = calls[c].targets
      /\ calls'[c].found = calls[c].found
      /\ holds'[c] = holds[c] \cup {[row |-> row, mode |-> mode]}
  BY GoesOn, LocksOn, OthersGoOn
<1>2. DoesWhatWasAsked(c) /\ HoldsWhatItNeeds(c)
  OBVIOUS
<1>3. Review(c)' = Review(c)
  BY <1>1 DEF Review
<1>4. DoesWhatWasAsked(c)'
  BY <1>1, <1>2, <1>3 DEF DoesWhatWasAsked
<1>5. \A r \in Records : Has(c, r, "update")' <=> Has(c, r, "update")
  BY <1>1, Constants DEF Has
<1>6. \A r \in Records : KeepsRecord(c, r)' <=> KeepsRecord(c, r)
  BY <1>1, <1>3 DEF KeepsRecord
<1>7. calls[c].targets \subseteq Records
  BY DEF TypeOK, Call
<1>8. Left(c)' = Left(c)
  BY <1>1, <1>5, <1>7 DEF Left, Has
<1>9. HoldsWhatItNeeds(c)'
  BY <1>1, <1>2, <1>3, <1>5, <1>6, <1>8 DEF HoldsWhatItNeeds
<1>10. \A lock \in holds'[c] : lock \in holds[c] \/ Free(c, lock.row, lock.mode)
  BY <1>1
<1>. QED BY <1>1, <1>4, <1>9, <1>10, CallStep

LEMMA ShareHeadStep ==
  ASSUME IInv, TypeOK', NEW c \in Calls, ShareHead(c)
  PROVE  IInv'
<1>1. CASE head = Review(c).revision
  <2>. DEFINE place == IF calls[c].kind = "update" THEN "record" ELSE "object"
  <2>1. Goes(c, place) /\ Locks(c, Head, "share")
    BY <1>1 DEF ShareHead
  <2>2. /\ calls'[c].place = place /\ calls'[c].kind = calls[c].kind
        /\ holds'[c] = holds[c] \cup {[row |-> Head, mode |-> "share"]}
    <3>1. TypeOK
      BY DEF IInv
    <3>2. Locks(c, Head, "share")
      BY <2>1
    <3>. QED BY <2>1, <3>1, <3>2, GoesOn, LocksOn
  <2>3. Has(c, Head, "share")'
    BY <2>2 DEF Has
  <2>11. HoldsHead(c)' => Has(c, Head, "share")' /\ head = Review(c).revision
    BY <1>1, <2>3
  <2>12. At(c, "object", {"publish"})' \/ At(c, "commit", {"publish"})' => Has(c, Head, "update")'
    BY <2>2 DEF At, ShareHead
  <2>13. HoldsTable(c)' => Has(c, Object, "share")' /\ Left(c) = {}
    BY <2>2 DEF At, HoldsTable, ShareHead
  <2>14. At(c, "commit", {"create"})' => Has(c, Object, "update")' /\ records = Review(c).seen
    BY <2>2 DEF At, ShareHead
  <2>15. /\ Free(c, Head, "share") /\ calls[c].place \notin {"idle", "over"}
         /\ UNCHANGED <<records, head, confirmations>>
    BY DEF ShareHead, At
  <2>. QED BY <2>1, <2>11, <2>12, <2>13, <2>14, <2>15, GoesStep
<1>2. CASE head # Review(c).revision
  BY <1>2, EndsStep DEF ShareHead
<1>. QED BY <1>1, <1>2

LEMMA LockHeadStep ==
  ASSUME IInv, TypeOK', NEW c \in Calls, LockHead(c)
  PROVE  IInv'
<1>1. PICK place \in {"object", "commit"} : Goes(c, place)
  BY DEF LockHead
<1>2. /\ calls'[c].place = place /\ calls'[c].kind = calls[c].kind
      /\ holds'[c] = holds[c] \cup {[row |-> Head, mode |-> "update"]}
  <2>1. TypeOK
    BY DEF IInv
  <2>2. Locks(c, Head, "update")
    BY <1>1 DEF LockHead
  <2>. QED BY <1>1, <2>1, <2>2, GoesOn, LocksOn
<1>3. Has(c, Head, "update")'
  BY <1>2 DEF Has
<1>4. Locks(c, Head, "update")
  BY DEF LockHead
<1>11. HoldsHead(c)' => Has(c, Head, "share")' /\ head = Review(c).revision
  BY <1>2 DEF At, HoldsHead, LockHead
<1>12. At(c, "object", {"publish"})' \/ At(c, "commit", {"publish"})' => Has(c, Head, "update")'
  BY <1>3
<1>13. HoldsTable(c)' => Has(c, Object, "share")' /\ Left(c) = {}
  BY <1>2 DEF At, HoldsTable, LockHead
<1>14. At(c, "commit", {"create"})' => Has(c, Object, "update")' /\ records = Review(c).seen
  BY <1>2 DEF At, LockHead
<1>15. /\ Free(c, Head, "update") /\ calls[c].place \notin {"idle", "over"}
       /\ UNCHANGED <<records, head, confirmations>>
  BY DEF LockHead, At
<1>. QED BY <1>1, <1>4, <1>11, <1>12, <1>13, <1>14, <1>15, GoesStep

LEMMA ShareObjectStep ==
  ASSUME IInv, TypeOK', NEW c \in Calls, ShareObject(c)
  PROVE  IInv'
<1>. DEFINE place == IF Left(c) = {} THEN "commit" ELSE "record"
<1>1. Goes(c, place) /\ Locks(c, Object, "share")
  BY DEF ShareObject
<1>2. /\ calls'[c].place = place /\ calls'[c].kind = calls[c].kind
      /\ holds'[c] = holds[c] \cup {[row |-> Object, mode |-> "share"]}
  <2>1. TypeOK
    BY DEF IInv
  <2>2. Locks(c, Object, "share")
    BY <1>1
  <2>. QED BY <1>1, <2>1, <2>2, GoesOn, LocksOn
<1>3. HoldsHead(c)' => Has(c, Head, "share")' /\ head = Review(c).revision
  BY <1>2 DEF IInv, HoldsWhatItNeeds, HoldsHead, At, Has, ShareObject
<1>11. HoldsHead(c)' => Has(c, Head, "share")' /\ head = Review(c).revision
  BY <1>3
<1>12. At(c, "object", {"publish"})' \/ At(c, "commit", {"publish"})' => Has(c, Head, "update")'
  BY <1>2 DEF At, ShareObject
<1>13. HoldsTable(c)' => Has(c, Object, "share")' /\ Left(c) = {}
  BY <1>2 DEF At, Has, HoldsTable, ShareObject
<1>14. At(c, "commit", {"create"})' => Has(c, Object, "update")' /\ records = Review(c).seen
  BY <1>2 DEF At, ShareObject
<1>15. /\ Free(c, Object, "share") /\ calls[c].place \notin {"idle", "over"}
       /\ UNCHANGED <<records, head, confirmations>>
  BY DEF ShareObject, At
<1>. QED BY <1>1, <1>11, <1>12, <1>13, <1>14, <1>15, GoesStep

LEMMA LockObjectStep ==
  ASSUME IInv, TypeOK', NEW c \in Calls, LockObject(c)
  PROVE  IInv'
<1>1. CASE calls[c].kind = "create" => records = Review(c).seen
  <2>1. Goes(c, "commit") /\ Locks(c, Object, "update")
    BY <1>1 DEF LockObject, ObjectMode
  <2>2. /\ calls'[c].place = "commit" /\ calls'[c].kind = calls[c].kind
        /\ holds'[c] = holds[c] \cup {[row |-> Object, mode |-> "update"]}
    <3>1. TypeOK
      BY DEF IInv
    <3>2. Locks(c, Object, "update")
      BY <2>1
    <3>. QED BY <2>1, <3>1, <3>2, GoesOn, LocksOn
  <2>3. /\ HoldsHead(c)' => Has(c, Head, "share")' /\ head = Review(c).revision
        /\ At(c, "commit", {"publish"})' => Has(c, Head, "update")'
    BY <2>2 DEF IInv, HoldsWhatItNeeds, HoldsHead, At, Has, LockObject
  <2>11. HoldsHead(c)' => Has(c, Head, "share")' /\ head = Review(c).revision
    BY <2>3
  <2>12. At(c, "object", {"publish"})' \/ At(c, "commit", {"publish"})' => Has(c, Head, "update")'
    BY <2>2, <2>3 DEF At
  <2>13. HoldsTable(c)' => Has(c, Object, "share")' /\ Left(c) = {}
    BY <2>2 DEF At, HoldsTable, LockObject
  <2>14. At(c, "commit", {"create"})' => Has(c, Object, "update")' /\ records = Review(c).seen
    BY <1>1, <2>2 DEF At, Has, LockObject
  <2>15. /\ Free(c, Object, "update") /\ calls[c].place \notin {"idle", "over"}
         /\ UNCHANGED <<records, head, confirmations>>
    BY DEF LockObject, At, ObjectMode
  <2>. QED BY <2>1, <2>11, <2>12, <2>13, <2>14, <2>15, GoesStep
<1>2. CASE ~(calls[c].kind = "create" => records = Review(c).seen)
  BY <1>2, EndsStep DEF LockObject
<1>. QED BY <1>1, <1>2

LEMMA LockRecordStep ==
  ASSUME IInv, TypeOK', NEW c \in Calls, NEW r \in Records, LockRecord(c, r)
  PROVE  IInv'
<1>0. TypeOK /\ DoesWhatWasAsked(c) /\ HoldsWhatItNeeds(c) /\ calls[c] \in Call
  BY DEF IInv, TypeOK
<1>1. CASE Unchanged(c, r)
  <2>. DEFINE found == [calls[c].found EXCEPT ![r] = records[r]]
  <2>1. /\ calls' = [calls EXCEPT ![c] = [calls[c] EXCEPT !.place = "object", !.found = found]]
        /\ holds' = [holds EXCEPT ![c] = holds[c] \cup {[row |-> r, mode |-> "update"]}]
    BY <1>0, <1>1 DEF LockRecord, Locks, TypeOK, Call
  <2>2. /\ calls'[c] = [calls[c] EXCEPT !.place = "object", !.found = found]
        /\ holds'[c] = holds[c] \cup {[row |-> r, mode |-> "update"]}
        /\ OthersStay(c)
    BY <1>0, <2>1 DEF TypeOK, OthersStay
  <2>3. /\ calls'[c].place = "object" /\ calls'[c].kind = calls[c].kind
        /\ calls'[c].by = calls[c].by /\ calls'[c].targets = calls[c].targets
        /\ calls'[c].found = found
    BY <1>0, <2>2 DEF Call
  <2>4. /\ calls[c].place = "record" /\ calls[c].kind \in {"edit", "bulk", "update"}
        /\ r \in calls[c].targets /\ Free(c, r, "update")
        /\ UNCHANGED <<records, head, confirmations>>
    BY DEF LockRecord, At, IsNext, Left, RecordFree
  <2>5. Review(c)' = Review(c)
    BY <2>3, <2>4 DEF Review
  <2>6. DoesWhatWasAsked(c)'
    BY <1>0, <2>3, <2>4, <2>5 DEF DoesWhatWasAsked
  <2>7. ASSUME NEW s \in Records, Has(c, s, "update")'
        PROVE  KeepsRecord(c, s)'
    <3>1. CASE s = r
      <4>1. calls[c].found \in [Records -> Row]
        BY <1>0 DEF Call
      <4>2. calls'[c].found[s] = records[s]
        BY <2>3, <3>1, <4>1
      <4>3. records[s].status # "absent"
        BY <1>0, <1>1, <2>4, <3>1 DEF Unchanged, DoesWhatWasAsked, Confirmed
      <4>. QED
        BY <1>1, <2>3, <2>4, <2>5, <3>1, <4>2, <4>3 DEF KeepsRecord, Unchanged
    <3>2. CASE s # r
      <4>1. Has(c, s, "update")
        BY <2>2, <2>7, <3>2 DEF Has
      <4>2. KeepsRecord(c, s)
        BY <1>0, <4>1 DEF HoldsWhatItNeeds
      <4>3. calls'[c].found[s] = calls[c].found[s]
        BY <1>0, <2>3, <3>2 DEF Call
      <4>. QED BY <2>3, <2>4, <2>5, <4>2, <4>3 DEF KeepsRecord
    <3>. QED BY <3>1, <3>2
  <2>8. HoldsHead(c)' => Has(c, Head, "share")' /\ head = Review(c).revision
    BY <1>0, <2>2, <2>3, <2>4 DEF HoldsWhatItNeeds, HoldsHead, At, Has
  <2>9. HoldsWhatItNeeds(c)'
    BY <2>3, <2>4, <2>5, <2>7, <2>8 DEF HoldsWhatItNeeds, HoldsTable, At
  <2>. QED BY <2>2, <2>4, <2>6, <2>9, CallStep
<1>2. CASE ~Unchanged(c, r)
  BY <1>2, EndsStep DEF LockRecord
<1>. QED BY <1>1, <1>2

-----------------------------------------------------------------------------
(* A review. *)

\* A confirmation that is not ready yet is nobody's.
LEMMA ReviewStep ==
  ASSUME IInv, TypeOK', NEW v \in Confirmations, confirmations[v].stage # "ready",
         UNCHANGED <<records, head, calls, holds>>,
         \A w \in Confirmations \ {v} : confirmations'[w] = confirmations[w],
         \A r \in Records :
            \/ confirmations'[v].seen[r].updated \in {confirmations[v].seen[r].updated, Nobody}
            \/ confirmations'[v].seen[r] = records[r],
         confirmations'[v].stage = "ready" =>
            \A r \in Records : Reviewed(confirmations'[v], r) =>
                confirmations'[v].seen[r] = records[r]
  PROVE  IInv'
<1>1. LocksAgree'
  BY DEF IInv, LocksAgree
<1>2. UpdatedTells'
  BY DEF IInv, UpdatedTells
<1>3. ASSUME NEW c \in Calls
      PROVE  DoesWhatWasAsked(c)' /\ HoldsWhatItNeeds(c)' /\ Unwritten(c)'
  <2>1. DoesWhatWasAsked(c) /\ HoldsWhatItNeeds(c) /\ Unwritten(c) /\ calls[c] \in Call
    BY DEF IInv, TypeOK
  <2>2. calls[c].by # Nobody => Review(c)' = Review(c)
    BY <2>1 DEF DoesWhatWasAsked, Review, Call
  <2>3. DoesWhatWasAsked(c)'
    BY <2>1, <2>2 DEF DoesWhatWasAsked
  <2>4. /\ \A place, kinds : At(c, place, kinds)' <=> At(c, place, kinds)
        /\ \A row, mode : Has(c, row, mode)' <=> Has(c, row, mode)
        /\ Left(c)' = Left(c)
    BY DEF At, Has, Left
  <2>5. \A r \in Records : KeepsRecord(c, r)' <=> KeepsRecord(c, r)
    BY <2>2 DEF KeepsRecord
  <2>6. HoldsHead(c) \/ At(c, "commit", {"create"}) => Review(c)' = Review(c)
    BY <2>1, <2>2 DEF HoldsHead, At, DoesWhatWasAsked, Confirmed
  <2>7. HoldsWhatItNeeds(c)'
    BY <2>1, <2>4, <2>5, <2>6 DEF HoldsWhatItNeeds, HoldsHead, HoldsTable
  <2>8. Unwritten(c)'
    BY <2>1, Constants DEF Unwritten
  <2>. QED BY <2>3, <2>7, <2>8
<1>. QED BY <1>1, <1>2, <1>3 DEF IInv

LEMMA ReadHeadStep ==
  ASSUME IInv, TypeOK', NEW v \in Confirmations, NEW kind, NEW targets, NEW field,
         ReadHead(v, kind, targets, field)
  PROVE  IInv'
<1>1. confirmations[v] \in Confirmation /\ confirmations \in [Confirmations -> Confirmation]
  BY DEF IInv, TypeOK
<1>2. confirmations'[v] = [confirmations[v] EXCEPT !.stage = "head", !.kind = kind,
         !.targets = targets, !.field = field, !.revision = head]
  BY <1>1 DEF ReadHead
<1>3. confirmations'[v].stage = "head" /\ confirmations'[v].seen = confirmations[v].seen
  BY <1>1, <1>2 DEF Confirmation
<1>4. \A w \in Confirmations \ {v} : confirmations'[w] = confirmations[w]
  BY <1>1 DEF ReadHead
<1>. QED BY <1>3, <1>4, ReviewStep DEF ReadHead

LEMMA ReadRecordsStep ==
  ASSUME IInv, TypeOK', NEW v \in Confirmations, ReadRecords(v)
  PROVE  IInv'
<1>. DEFINE seen == [r \in Records |-> IF Reviewed(confirmations[v], r) THEN records[r]
                                       ELSE NewRow(r)]
<1>1. confirmations[v] \in Confirmation /\ confirmations \in [Confirmations -> Confirmation]
  BY DEF IInv, TypeOK
<1>2. confirmations' = [confirmations EXCEPT ![v] =
                          [confirmations[v] EXCEPT !.stage = "ready", !.seen = seen]]
  BY <1>1 DEF ReadRecords, Confirmation
<1>3. confirmations'[v] = [confirmations[v] EXCEPT !.stage = "ready", !.seen = seen]
  BY <1>1, <1>2
<1>4. /\ confirmations'[v].seen = seen
      /\ confirmations'[v].kind = confirmations[v].kind
      /\ confirmations'[v].targets = confirmations[v].targets
  BY <1>1, <1>3 DEF Confirmation
<1>5. \A w \in Confirmations \ {v} : confirmations'[w] = confirmations[w]
  BY <1>1, <1>2
<1>6. \A r \in Records : Reviewed(confirmations'[v], r) => seen[r] = records[r]
  BY <1>4 DEF Reviewed
<1>7. \A r \in Records : seen[r] = records[r] \/ seen[r].updated = Nobody
  BY DEF NewRow
<1>. QED BY <1>4, <1>5, <1>6, <1>7, ReviewStep DEF ReadRecords

-----------------------------------------------------------------------------
(* A commit. *)

\* What a commit changes, and by which locks it may.
Changed(c, r) ==
  /\ records'[r].updated = c /\ records'[r].status # "absent"
  /\ Has(c, r, "update") \/ records[r].status = "absent"

LEMMA CommitFacts ==
  ASSUME IInv, NEW c \in Calls, Commit(c)
  PROVE  /\ Ends(c) /\ UNCHANGED confirmations
         /\ calls[c].place = "commit"
         /\ \A r \in Records : records'[r] = records[r] \/ Changed(c, r)
         /\ head' = head \/ Has(c, Head, "update")
         /\ records' = records \/ Has(c, Object, "share") \/ Has(c, Object, "update")
<1>1. TypeOK /\ HoldsWhatItNeeds(c) /\ calls[c] \in Call
  BY DEF IInv, TypeOK
<1>2. Ends(c) /\ UNCHANGED confirmations /\ calls[c].place = "commit"
  BY DEF Commit, CommitUpdate, CommitCreation, CommitPublication, At
<1>3. CASE CommitUpdate(c)
  <2>1. HoldsTable(c)
    BY <1>3 DEF CommitUpdate, HoldsTable, At
  <2>2. Has(c, Object, "share") /\ Left(c) = {} /\ head' = head
    BY <1>1, <1>3, <2>1 DEF HoldsWhatItNeeds, CommitUpdate
  <2>3. ASSUME NEW r \in Records, r \in calls[c].targets
        PROVE  Changed(c, r)
    <3>1. Has(c, r, "update")
      BY <2>2, <2>3 DEF Left, Has
    <3>2. KeepsRecord(c, r)
      BY <1>1, <3>1 DEF HoldsWhatItNeeds
    <3>3. records'[r] = Rewritten(c, r)
      BY <1>3, <2>3 DEF CommitUpdate
    <3>4. Rewritten(c, r).updated = c /\ Rewritten(c, r).status # "absent"
      BY <1>1, <3>2 DEF Rewritten, KeepsRecord, Call
    <3>. QED BY <3>1, <3>3, <3>4 DEF Changed
  <2>4. \A r \in Records : records'[r] = records[r] \/ Changed(c, r)
    BY <1>3, <2>3 DEF CommitUpdate
  <2>. QED BY <1>2, <2>2, <2>4
<1>4. CASE CommitCreation(c)
  <2>1. PICK r \in Records :
          records[r].status = "absent" /\ records' = [records EXCEPT ![r] = Created(c, r)]
    BY <1>4 DEF CommitCreation
  <2>2. records'[r].updated = c /\ records'[r].status # "absent"
    BY <1>1, <2>1 DEF Created, TypeOK
  <2>3. \A s \in Records : records'[s] = records[s] \/ Changed(c, s)
    BY <1>1, <2>1, <2>2 DEF TypeOK, Changed
  <2>4. Has(c, Object, "share") \/ Has(c, Object, "update")
    BY <1>1, <1>4 DEF CommitCreation, HoldsWhatItNeeds, HoldsTable, At
  <2>. QED BY <1>2, <1>4, <2>3, <2>4 DEF CommitCreation
<1>5. CASE CommitPublication(c)
  BY <1>1, <1>2, <1>5 DEF CommitPublication, HoldsWhatItNeeds, At
<1>. QED BY <1>3, <1>4, <1>5 DEF Commit

LEMMA CommitStep ==
  ASSUME IInv, TypeOK', NEW c \in Calls, Commit(c)
  PROVE  IInv'
<1>1. /\ Ends(c) /\ UNCHANGED confirmations
      /\ calls[c].place = "commit"
      /\ \A r \in Records : records'[r] = records[r] \/ Changed(c, r)
      /\ head' = head \/ Has(c, Head, "update")
      /\ records' = records \/ Has(c, Object, "share") \/ Has(c, Object, "update")
  BY CommitFacts
<1>2. /\ OthersStay(c)
      /\ calls'[c] = NoCall("over") /\ holds'[c] = {}
      /\ DoesWhatWasAsked(c)' /\ HoldsWhatItNeeds(c)'
  BY <1>1, Over DEF IInv
<1>3. LocksAgree'
  <2>. SUFFICES ASSUME NEW d \in Calls, NEW e \in Calls, d # e,
                       NEW lock \in holds'[d], NEW other \in holds'[e],
                       lock.row = other.row
                PROVE  lock.mode = "share" /\ other.mode = "share"
    BY DEF LocksAgree
  <2>1. lock \in holds[d] /\ other \in holds[e]
    BY <1>2 DEF OthersStay
  <2>. QED BY <2>1 DEF IInv, LocksAgree
<1>4. \A r \in Records, v \in Confirmations : confirmations[v].seen[r].updated # c
  BY <1>1 DEF IInv, Unwritten
<1>5. UpdatedTells'
  <2>. SUFFICES ASSUME NEW v \in Confirmations, NEW r \in Records,
                       confirmations[v].stage = "ready", Reviewed(confirmations[v], r),
                       confirmations[v].seen[r].updated = records'[r].updated
                PROVE  confirmations[v].seen[r] = records'[r]
    BY <1>1 DEF UpdatedTells, Reviewed
  <2>. QED BY <1>1, <1>4 DEF IInv, UpdatedTells, Changed
<1>6. ASSUME NEW d \in Calls \ {c}
      PROVE  DoesWhatWasAsked(d)' /\ HoldsWhatItNeeds(d)' /\ Unwritten(d)'
  <2>1. /\ DoesWhatWasAsked(d) /\ HoldsWhatItNeeds(d) /\ Unwritten(d)
        /\ calls'[d] = calls[d] /\ holds'[d] = holds[d] /\ calls[d] \in Call
    BY <1>2 DEF IInv, OthersStay, TypeOK
  <2>2. Review(d)' = Review(d)
    BY <1>1, <2>1 DEF Review
  <2>3. \A r \in Records : records[r].status # "absent" => records'[r].status # "absent"
    BY <1>1 DEF Changed
  <2>4. DoesWhatWasAsked(d)'
    <3>1. calls[d].targets \subseteq Records
      BY <2>1 DEF Call
    <3>. QED BY <2>1, <2>2, <2>3, <3>1 DEF DoesWhatWasAsked
  <2>5. /\ \A place, kinds : At(d, place, kinds)' <=> At(d, place, kinds)
        /\ \A row, mode : Has(d, row, mode)' <=> Has(d, row, mode)
        /\ Left(d)' = Left(d)
    BY <2>1 DEF At, Has, Left
  <2>6. \A row : ~ (Has(c, row, "update") /\ (Has(d, row, "share") \/ Has(d, row, "update")))
    BY <1>6 DEF IInv, LocksAgree, Has
  <2>7. \A row : ~ (Has(c, row, "share") /\ Has(d, row, "update"))
    BY <1>6 DEF IInv, LocksAgree, Has
  <2>8. ASSUME NEW r \in Records, Has(d, r, "update")
        PROVE  KeepsRecord(d, r)'
    <3>1. KeepsRecord(d, r)
      BY <2>1, <2>8 DEF HoldsWhatItNeeds
    <3>2. records'[r] = records[r]
      BY <1>1, <2>6, <2>8, <3>1 DEF Changed, KeepsRecord
    <3>. QED BY <2>1, <2>2, <3>1, <3>2 DEF KeepsRecord
  <2>9. HoldsHead(d) => head' = head
    BY <1>1, <2>1, <2>6 DEF HoldsWhatItNeeds
  <2>10. At(d, "commit", {"create"}) => records' = records
    BY <1>1, <2>1, <2>6, <2>7 DEF HoldsWhatItNeeds
  <2>11. HoldsWhatItNeeds(d)'
    BY <2>1, <2>2, <2>5, <2>8, <2>9, <2>10 DEF HoldsWhatItNeeds, HoldsHead, HoldsTable
  <2>12. Unwritten(d)'
    BY <1>1, <1>6, <2>1 DEF Unwritten, Changed
  <2>. QED BY <2>4, <2>11, <2>12
<1>7. Unwritten(c)'
  BY <1>2 DEF Unwritten, NoCall
<1>. QED BY <1>2, <1>3, <1>5, <1>6, <1>7 DEF IInv

-----------------------------------------------------------------------------
(* The invariant. *)

LEMMA Initially == Init => IInv
<1>. SUFFICES ASSUME Init
              PROVE  IInv
  OBVIOUS
<1>1. TypeOK
  <2>1. [r \in Records |-> NewRow(r)] \in [Records -> Row]
    BY NewRowType
  <2>2. holds \in [Calls -> SUBSET Lock]
    BY DEF Init
  <2>. QED BY <2>1, <2>2, NoCallType DEF TypeOK, Init, Confirmation, Confirmed
<1>2. \A c \in Calls : calls[c] = NoCall("idle") /\ holds[c] = {}
  BY DEF Init
<1>3. LocksAgree
  BY <1>2 DEF LocksAgree
<1>4. UpdatedTells
  BY DEF Init, UpdatedTells
<1>5. ASSUME NEW c \in Calls
      PROVE  DoesWhatWasAsked(c) /\ HoldsWhatItNeeds(c) /\ Unwritten(c)
  <2>0. /\ calls[c].place = "idle" /\ calls[c].kind = "edit" /\ calls[c].by = Nobody
        /\ calls[c].targets = {} /\ holds[c] = {}
    <3>1. calls[c] = NoCall("idle") /\ holds[c] = {}
      BY <1>2
    <3>. QED BY <3>1 DEF NoCall
  <2>1. DoesWhatWasAsked(c)
    BY <2>0 DEF DoesWhatWasAsked, Confirmed
  <2>2. HoldsWhatItNeeds(c)
    BY <2>0 DEF HoldsWhatItNeeds, HoldsHead, HoldsTable, At, Has
  <2>3. Unwritten(c)
    BY Constants DEF Init, Unwritten, NewRow
  <2>. QED BY <2>1, <2>2, <2>3
<1>. QED BY <1>1, <1>3, <1>4, <1>5 DEF IInv

LEMMA Step == IInv /\ [Next]_vars => IInv'
<1>. SUFFICES ASSUME IInv, [Next]_vars
              PROVE  IInv'
  OBVIOUS
<1>0. TypeOK' /\ TypeOK
  BY Typing DEF IInv
<1>1. ASSUME NEW c \in Calls, NEW v \in Confirmations, Confirm(c, v)
      PROVE  IInv'
  <2>1. confirmations[v] \in Confirmation
    BY <1>0 DEF TypeOK
  <2>2. /\ confirmations[v].kind \in Confirmed /\ confirmations[v].targets \in SUBSET Records
        /\ v # Nobody /\ confirmations[v].kind \in Kinds
    BY <2>1, Constants DEF Confirmation, Kinds
  <2>3. /\ confirmations[v].stage = "ready"
        /\ Begins(c, confirmations[v].kind, v, confirmations[v].targets,
                  confirmations[v].field, "same")
    BY <1>1 DEF Confirm
  <2>4. confirmations[v].kind # "edit"
    BY <2>2 DEF Confirmed
  <2>. QED BY <1>0, <2>2, <2>3, <2>4, BeginsStep
<1>2. ASSUME NEW c \in Calls, NEW r \in Records, NEW field \in Fields \cup {Nobody},
             NEW status \in {"same", "active", "archived"}, Edit(c, r, field, status)
      PROVE  IInv'
  BY <1>0, <1>2, BeginsStep DEF Edit, Kinds, Confirmed
<1>3. ASSUME NEW c \in Calls, NEW field \in Fields, Add(c, field)
      PROVE  IInv'
  BY <1>0, <1>3, BeginsStep DEF Add, Kinds, Confirmed
<1>4. ASSUME NEW c \in Calls, Publish(c)
      PROVE  IInv'
  BY <1>0, <1>4, BeginsStep DEF Publish, Kinds, Confirmed
<1>5. ASSUME NEW c \in Calls, Proceed(c)
      PROVE  IInv'
  BY <1>0, <1>5, ShareHeadStep, LockHeadStep, LockRecordStep, ShareObjectStep, LockObjectStep,
     CommitStep DEF Proceed
<1>6. ASSUME NEW c \in Calls, Abort(c)
      PROVE  IInv'
  BY <1>0, <1>6, EndsStep DEF Abort
<1>7. ASSUME NEW v \in Confirmations,
             \/ \E kind \in Confirmed, targets \in SUBSET Records, field \in Fields :
                   ReadHead(v, kind, targets, field)
             \/ ReadRecords(v)
      PROVE  IInv'
  BY <1>0, <1>7, ReadHeadStep, ReadRecordsStep
<1>8. CASE UNCHANGED vars
  <2>1. ASSUME NEW c \in Calls
        PROVE  IInv'
    <3>1. OthersStay(c) /\ UNCHANGED vars
      BY <1>8 DEF OthersStay, vars
    <3>2. DoesWhatWasAsked(c) /\ HoldsWhatItNeeds(c)
      BY DEF IInv
    <3>3. /\ \A place, kinds : At(c, place, kinds)' <=> At(c, place, kinds)
          /\ \A row, mode : Has(c, row, mode)' <=> Has(c, row, mode)
          /\ Left(c)' = Left(c) /\ Review(c)' = Review(c)
      BY <1>8 DEF At, Has, Left, Review, vars
    <3>4. \A r \in Records : KeepsRecord(c, r)' <=> KeepsRecord(c, r)
      BY <1>8, <3>3 DEF KeepsRecord, vars
    <3>5. DoesWhatWasAsked(c)' /\ HoldsWhatItNeeds(c)'
      BY <1>8, <3>2, <3>3, <3>4
      DEF DoesWhatWasAsked, HoldsWhatItNeeds, HoldsHead, HoldsTable, vars
    <3>. QED BY <1>0, <1>8, <3>1, <3>5, CallStep DEF vars
  <2>2. CASE Calls = {}
    BY <1>0, <1>8, <2>2 DEF IInv, LocksAgree, UpdatedTells, Reviewed, vars
  <2>. QED BY <2>1, <2>2
<1>. QED BY <1>1, <1>2, <1>3, <1>4, <1>5, <1>6, <1>7, <1>8 DEF Next

(* The inductive invariant holds in every reachable state: locks agree, what a call   *)
(* has locked is as it read it and as its owner saw it, and nobody has seen what it   *)
(* has not committed.                                                                 *)
THEOREM Invariance == Spec => []IInv
BY Initially, Step, PTL DEF Spec

(* Rows, reviews, calls and locks stay in their types. *)
THEOREM TypeCorrect == Spec => []TypeOK
<1>1. IInv => TypeOK
  BY DEF IInv
<1>. QED BY <1>1, Invariance, PTL

-----------------------------------------------------------------------------
(* What steps may do to the records. *)

LEMMA OnlyCommitsWrite ==
  ASSUME [Next]_vars
  PROVE  records' = records \/ \E d \in Calls : Commit(d)
BY DEF Next, vars, Proceed, ReadHead, ReadRecords, Confirm, Edit, Add, Publish, Begins, Abort,
   ShareHead, LockHead, LockRecord, ShareObject, LockObject

LEMMA WritesByCommit ==
  ASSUME IInv, [Next]_vars, NEW c \in Calls, NEW r \in Records, Writes(c, r)
  PROVE  Commit(c) /\ calls[c].place = "commit"
<1>1. PICK d \in Calls : Commit(d)
  BY OnlyCommitsWrite DEF Writes
<1>2. calls[d].place = "commit" /\ (records'[r] = records[r] \/ Changed(d, r))
  BY <1>1, CommitFacts
<1>. QED BY <1>1, <1>2 DEF Changed, Writes

LEMMA Replaces ==
  ASSUME IInv, [Next]_vars, NEW c \in Calls, calls[c].by # Nobody,
         NEW s \in Records, Writes(c, s)
  PROVE  /\ \A r \in Records : Reviewed(Review(c), r) => records[r] = Review(c).seen[r]
         /\ calls[c].kind # "bulk" => head = Review(c).revision
<1>1. Commit(c) /\ calls[c].place = "commit"
  BY WritesByCommit
<1>2. DoesWhatWasAsked(c) /\ HoldsWhatItNeeds(c) /\ TypeOK /\ UpdatedTells /\ calls[c] \in Call
  BY DEF IInv, TypeOK
<1>3. /\ calls[c].by \in Confirmations /\ Review(c).stage = "ready"
      /\ calls[c].kind = Review(c).kind /\ calls[c].targets = Review(c).targets
      /\ Review(c) \in Confirmation
  BY <1>2 DEF DoesWhatWasAsked, Review, Call, TypeOK
<1>4. calls[c].kind \in Confirmed
  BY <1>3 DEF Confirmation
<1>5. calls[c].kind # "bulk" => head = Review(c).revision
  BY <1>1, <1>2, <1>4 DEF HoldsWhatItNeeds, HoldsHead, At, Confirmed
<1>6. CASE calls[c].kind = "create"
  <2>1. records = Review(c).seen
    BY <1>1, <1>2, <1>6 DEF HoldsWhatItNeeds, At
  <2>. QED BY <1>5, <2>1
<1>7. CASE calls[c].kind # "create"
  <2>1. Left(c) = {}
    BY <1>1, <1>2, <1>4, <1>7 DEF HoldsWhatItNeeds, HoldsTable, At, Confirmed
  <2>2. ASSUME NEW r \in Records, Reviewed(Review(c), r)
        PROVE  records[r] = Review(c).seen[r]
    <3>1. r \in calls[c].targets
      BY <1>3, <1>7, <2>2 DEF Reviewed
    <3>2. Has(c, r, "update")
      BY <2>1, <3>1 DEF Left, Has
    <3>3. records[r].updated = Review(c).seen[r].updated
      BY <1>2, <3>2 DEF HoldsWhatItNeeds, KeepsRecord
    <3>. QED BY <1>2, <1>3, <2>2, <3>3 DEF UpdatedTells, Review
  <2>. QED BY <1>5, <2>2
<1>. QED BY <1>6, <1>7

(* What a confirmed operation or a bulk update writes replaces what its owner         *)
(* reviewed, under the configuration of the review, however often and beside whatever *)
(* else it is sent.                                                                   *)
THEOREM ReviewedReplaced == Spec => ReviewedIsReplaced
<1>1. IInv /\ [Next]_vars =>
        [\A c \in Calls : calls[c].by # Nobody /\ (\E r \in Records : Writes(c, r)) =>
            /\ \A r \in Records : Reviewed(Review(c), r) => records[r] = Review(c).seen[r]
            /\ calls[c].kind # "bulk" => head = Review(c).revision]_vars
  BY Replaces
<1>. QED BY <1>1, Invariance, PTL DEF Spec, ReviewedIsReplaced

LEMMA Keeps ==
  ASSUME IInv, [Next]_vars, NEW r \in Records, records[r].status # "absent"
  PROVE  /\ \A f \in Fields : records'[r].data[f] # records[r].data[f] =>
               \E c \in Calls : Writes(c, r) /\ calls[c].field = f
         /\ records'[r].status # records[r].status =>
               \E c \in Calls : Writes(c, r) /\ calls[c].status # "same"
<1>1. CASE records' = records
  BY <1>1
<1>2. ASSUME NEW c \in Calls, Commit(c), records' # records
      PROVE  \/ records'[r] = records[r]
             \/ /\ Writes(c, r)
                /\ \A f \in Fields : f # calls[c].field => records'[r].data[f] = records[r].data[f]
                /\ calls[c].status = "same" => records'[r].status = records[r].status
  <2>1. /\ TypeOK /\ HoldsWhatItNeeds(c) /\ Unwritten(c) /\ calls[c] \in Call
        /\ calls[c].place = "commit"
    BY <1>2, CommitFacts DEF IInv, TypeOK
  <2>2. CASE CommitUpdate(c) /\ r \in calls[c].targets
    <3>1. HoldsTable(c)
      BY <2>2 DEF CommitUpdate, HoldsTable, At
    <3>2. Has(c, r, "update")
      BY <2>1, <2>2, <3>1 DEF HoldsWhatItNeeds, Left, Has
    <3>3. calls[c].found[r] = records[r]
      BY <2>1, <3>2 DEF HoldsWhatItNeeds, KeepsRecord
    <3>4. records'[r] = Rewritten(c, r)
      BY <2>2 DEF CommitUpdate
    <3>5. records[r].updated # c
      BY <2>1 DEF Unwritten
    <3>. QED BY <3>3, <3>4, <3>5 DEF Rewritten, Patched, Writes
  <2>3. CASE CommitUpdate(c) /\ r \notin calls[c].targets
    BY <2>3 DEF CommitUpdate
  <2>4. CASE CommitCreation(c)
    BY <2>1, <2>4 DEF CommitCreation, TypeOK
  <2>5. CASE CommitPublication(c)
    BY <1>2, <2>5 DEF CommitPublication
  <2>. QED BY <1>2, <2>2, <2>3, <2>4, <2>5 DEF Commit
<1>. QED BY <1>1, <1>2, OnlyCommitsWrite

(* No commit undoes what another has written to a record: it changes the field it     *)
(* patches, and the status if it was asked to.                                        *)
THEOREM FieldsKept == Spec => FieldsAreKept
<1>1. IInv /\ [Next]_vars =>
        [\A r \in Records : records[r].status # "absent" =>
            /\ \A f \in Fields : records'[r].data[f] # records[r].data[f] =>
                  \E c \in Calls : Writes(c, r) /\ calls[c].field = f
            /\ records'[r].status # records[r].status =>
                  \E c \in Calls : Writes(c, r) /\ calls[c].status # "same"]_vars
  BY Keeps
<1>. QED BY <1>1, Invariance, PTL DEF Spec, FieldsAreKept

-----------------------------------------------------------------------------
(* The order of locking. *)

\* A call that takes no lock, or ends.
LEMMA OrderStays ==
  ASSUME LInv, TypeOK', UNCHANGED confirmations, NEW c \in Calls, OthersStay(c),
         LocksInOrder(c)', HasNext(c)'
  PROVE  LInv'
<1>1. ASSUME NEW d \in Calls, d # c
      PROVE  LocksInOrder(d)' /\ HasNext(d)'
  <2>1. /\ calls'[d] = calls[d] /\ holds'[d] = holds[d]
        /\ LocksInOrder(d) /\ HasNext(d)
    BY <1>1 DEF OthersStay, LInv
  <2>2. Left(d)' = Left(d)
    BY <2>1 DEF Left
  <2>. QED BY <2>1, <2>2 DEF LocksInOrder, HasNext
<1>2. \A v \in Confirmations : Targeted(v)'
  BY DEF LInv, Targeted
<1>. QED BY <1>1, <1>2 DEF LInv

LEMMA OrderEnds ==
  ASSUME LInv, TypeOK', UNCHANGED confirmations, NEW c \in Calls, Ends(c)
  PROVE  LInv'
<1>1. OthersStay(c) /\ holds'[c] = {} /\ calls'[c].place = "over"
  BY Over DEF LInv, Ends, NoCall, TypeOK
<1>2. LocksInOrder(c)' /\ HasNext(c)'
  BY <1>1 DEF LocksInOrder, HasNext
<1>. QED BY <1>1, <1>2, OrderStays

LEMMA OrderBegins ==
  ASSUME LInv, TypeOK', NEW c \in Calls, NEW kind, NEW by, NEW targets, NEW field,
         NEW status, Begins(c, kind, by, targets, field, status), kind \in Kinds,
         kind \in {"bulk", "update", "edit"} => targets # {},
         kind = "add" => targets = {}
  PROVE  LInv'
<1>1. calls[c].place = "idle" /\ holds' = holds /\ LocksInOrder(c)
  BY DEF Begins, LInv
<1>2. holds'[c] = {}
  BY <1>1 DEF LocksInOrder
<1>3. OthersStay(c)
  BY <1>1 DEF Begins, OthersStay, LInv, TypeOK
<1>4. LocksInOrder(c)'
  BY <1>2 DEF LocksInOrder
<1>5. /\ calls'[c].place = First(kind) /\ calls'[c].kind = kind
      /\ calls'[c].targets = targets
  BY DEF Begins, LInv, TypeOK, Call
<1>6. Left(c)' = targets
  BY <1>2, <1>5 DEF Left
<1>7. HasNext(c)'
  BY <1>5, <1>6 DEF HasNext, First, Kinds, Confirmed
<1>. QED BY <1>3, <1>4, <1>7, OrderStays DEF Begins

\* A call that locks the head or the table on its way.
LEMMA OrderGoes ==
  ASSUME LInv, TypeOK', UNCHANGED confirmations, NEW c \in Calls,
         NEW place \in {"record", "object", "commit"}, Goes(c, place),
         place = "record" => calls[c].kind \in {"edit", "bulk", "update"} /\ Left(c) # {},
         place = "object" => calls[c].kind # "add",
         NEW row \in {Head, Object}, NEW mode, Locks(c, row, mode),
         row = Object => /\ mode = "share" => calls[c].kind \notin {"create", "publish"}
                         /\ mode = "update" => place = "commit",
         \A lock \in holds[c] : lock.row = Object /\ lock.mode = "update" => place = "commit"
  PROVE  LInv'
<1>1. TypeOK /\ LocksInOrder(c) /\ calls[c] \in Call
  BY DEF LInv, TypeOK
<1>2. /\ calls'[c].place = place /\ calls'[c].kind = calls[c].kind
      /\ calls'[c].targets = calls[c].targets
      /\ holds'[c] = holds[c] \cup {[row |-> row, mode |-> mode]}
      /\ OthersStay(c)
  BY <1>1, GoesOn, LocksOn, OthersGoOn
<1>3. calls[c].targets \subseteq Records
  BY <1>1 DEF Call
<1>4. Left(c)' = Left(c)
  BY <1>2, <1>3, Constants DEF Left
<1>5. LocksInOrder(c)'
  <2>. SUFFICES ASSUME NEW lock \in holds'[c]
                PROVE  /\ lock.row \in Records =>
                             /\ calls'[c].kind \in {"edit", "bulk", "update"}
                             /\ \A s \in Left(c)' : lock.row < s
                       /\ lock.row = Object /\ lock.mode = "share" =>
                             calls'[c].kind \notin {"create", "publish"}
                       /\ lock.row = Object /\ lock.mode = "update" => place = "commit"
    BY <1>2 DEF LocksInOrder
  <2>1. CASE lock \in holds[c]
    BY <1>1, <1>2, <1>4, <2>1 DEF LocksInOrder
  <2>2. CASE lock = [row |-> row, mode |-> mode]
    BY <1>2, <2>2, Constants
  <2>. QED BY <1>2, <2>1, <2>2
<1>6. HasNext(c)'
  BY <1>2, <1>4 DEF HasNext
<1>. QED BY <1>2, <1>5, <1>6, OrderStays

\* The next record is greater than those that are locked, and less than those left.
LEMMA OrderLocks ==
  ASSUME LInv, TypeOK', UNCHANGED confirmations, NEW c \in Calls, NEW r \in Records,
         LockRecord(c, r)
  PROVE  LInv'
<1>0. TypeOK /\ LocksInOrder(c) /\ calls[c] \in Call /\ Records \subseteq Nat
  BY RecordsAssumption DEF LInv, TypeOK
<1>1. CASE Unchanged(c, r)
  <2>. DEFINE found == [calls[c].found EXCEPT ![r] = records[r]]
  <2>1. /\ calls' = [calls EXCEPT ![c] = [calls[c] EXCEPT !.place = "object", !.found = found]]
        /\ holds' = [holds EXCEPT ![c] = holds[c] \cup {[row |-> r, mode |-> "update"]}]
    BY <1>0, <1>1 DEF LockRecord, Locks, TypeOK, Call
  <2>2. /\ calls'[c] = [calls[c] EXCEPT !.place = "object", !.found = found]
        /\ holds'[c] = holds[c] \cup {[row |-> r, mode |-> "update"]}
        /\ OthersStay(c)
    BY <1>0, <2>1 DEF TypeOK, OthersStay
  <2>3. /\ calls'[c].place = "object" /\ calls'[c].kind = calls[c].kind
        /\ calls'[c].targets = calls[c].targets
    BY <1>0, <2>2 DEF Call
  <2>4. /\ calls[c].place = "record" /\ calls[c].kind \in {"edit", "bulk", "update"}
        /\ r \in Left(c) /\ \A s \in Left(c) : r <= s
    BY DEF LockRecord, At, IsNext
  <2>5. Left(c)' = Left(c) \ {r}
    BY <2>2, <2>3 DEF Left
  <2>6. Left(c) \subseteq Nat
    BY <1>0 DEF Left, Call
  <2>7. LocksInOrder(c)'
    <3>. SUFFICES ASSUME NEW lock \in holds'[c]
                  PROVE  /\ lock.row \in Records => \A s \in Left(c)' : lock.row < s
                         /\ lock.row = Object /\ lock.mode = "share" =>
                               calls[c].kind \notin {"create", "publish"}
                         /\ ~(lock.row = Object /\ lock.mode = "update")
      BY <2>3, <2>4 DEF LocksInOrder
    <3>1. CASE lock \in holds[c]
      BY <1>0, <2>4, <2>5, <3>1 DEF LocksInOrder
    <3>2. CASE lock = [row |-> r, mode |-> "update"]
      <4>1. lock.row = r /\ r # Object
        BY <3>2, Constants
      <4>2. \A s \in Left(c)' : r < s
        BY <1>0, <2>4, <2>5, <2>6
      <4>. QED BY <2>4, <4>1, <4>2
    <3>. QED BY <2>2, <3>1, <3>2
  <2>8. HasNext(c)'
    BY <2>3, <2>4 DEF HasNext
  <2>. QED BY <2>2, <2>7, <2>8, OrderStays
<1>2. CASE ~Unchanged(c, r)
  BY <1>2, OrderEnds DEF LockRecord
<1>. QED BY <1>1, <1>2

LEMMA OrderProceeds ==
  ASSUME LInv, TypeOK', NEW c \in Calls, Proceed(c)
  PROVE  LInv'
<1>0. LocksInOrder(c) /\ HasNext(c) /\ calls[c] \in Call
  BY DEF LInv, TypeOK
<1>1. CASE ShareHead(c)
  <2>1. CASE Ends(c)
    BY <1>1, <2>1, OrderEnds DEF ShareHead
  <2>2. CASE ~Ends(c)
    <3>. DEFINE place == IF calls[c].kind = "update" THEN "record" ELSE "object"
    <3>1. /\ Goes(c, place) /\ Locks(c, Head, "share") /\ calls[c].place = "head"
          /\ place \in {"record", "object", "commit"}
          /\ calls[c].kind \in {"update", "create"}
      BY <1>1, <2>2 DEF ShareHead, At
    <3>2. holds[c] = {}
      BY <1>0, <3>1 DEF LocksInOrder
    <3>3. Left(c) = calls[c].targets
      BY <3>2 DEF Left
    <3>4. place = "record" => calls[c].kind = "update" /\ Left(c) # {}
      BY <1>0, <3>1, <3>3 DEF HasNext
    <3>5. UNCHANGED confirmations
      BY <1>1 DEF ShareHead
    <3>. HIDE DEF place
    <3>. QED BY <3>1, <3>2, <3>4, <3>5, Constants, OrderGoes
  <2>. QED BY <2>1, <2>2
<1>2. CASE LockHead(c)
  <2>1. PICK place \in {"object", "commit"} : Goes(c, place)
    BY <1>2 DEF LockHead
  <2>2. /\ Locks(c, Head, "update") /\ calls[c].place = "head"
        /\ calls[c].kind = "publish" /\ UNCHANGED confirmations
    BY <1>2 DEF LockHead, At
  <2>. QED BY <1>0, <2>1, <2>2, Constants, OrderGoes DEF LocksInOrder
<1>3. CASE \E r \in Records : LockRecord(c, r)
  BY <1>3, OrderLocks DEF LockRecord
<1>4. CASE ShareObject(c)
  <2>. DEFINE place == IF Left(c) = {} THEN "commit" ELSE "record"
  <2>1. /\ Goes(c, place) /\ Locks(c, Object, "share") /\ calls[c].place = "object"
        /\ calls[c].kind \in {"edit", "add", "bulk", "update"}
        /\ place \in {"commit", "record"} /\ (place = "record" => Left(c) # {})
        /\ UNCHANGED confirmations
    BY <1>4 DEF ShareObject, At
  <2>2. calls[c].kind = "add" => Left(c) = {}
    BY <1>0, <2>1 DEF HasNext, Left
  <2>. HIDE DEF place
  <2>. QED BY <1>0, <2>1, <2>2, OrderGoes DEF LocksInOrder
<1>5. CASE LockObject(c)
  <2>1. CASE Ends(c)
    BY <1>5, <2>1, OrderEnds DEF LockObject
  <2>2. CASE ~Ends(c)
    <3>1. /\ Goes(c, "commit") /\ Locks(c, Object, "update") /\ calls[c].place = "object"
          /\ UNCHANGED confirmations
      BY <1>5, <2>2 DEF LockObject, At, ObjectMode
    <3>. QED BY <1>0, <3>1, OrderGoes DEF LocksInOrder
  <2>. QED BY <2>1, <2>2
<1>6. CASE Commit(c)
  BY <1>6, OrderEnds DEF Commit
<1>. QED BY <1>1, <1>2, <1>3, <1>4, <1>5, <1>6 DEF Proceed

LEMMA OrderKept == LInv /\ [Next]_vars => LInv'
<1>. SUFFICES ASSUME LInv, [Next]_vars
              PROVE  LInv'
  OBVIOUS
<1>0. TypeOK'
  BY Typing DEF LInv
<1>1. ASSUME UNCHANGED <<calls, holds>>, \A v \in Confirmations : Targeted(v)'
      PROVE  LInv'
  <2>1. \A c \in Calls : Left(c)' = Left(c)
    BY <1>1 DEF Left
  <2>. QED BY <1>0, <1>1, <2>1 DEF LInv, LocksInOrder, HasNext
<1>2. CASE UNCHANGED vars
  BY <1>1, <1>2 DEF LInv, Targeted, vars
<1>3. ASSUME NEW v \in Confirmations, NEW kind \in Confirmed,
             NEW targets \in SUBSET Records, NEW field, ReadHead(v, kind, targets, field)
      PROVE  LInv'
  <2>1. kind \in {"bulk", "update"} => targets # {}
    <3>1. CASE kind = "bulk"
      BY <1>3, <3>1 DEF ReadHead
    <3>2. CASE kind = "update"
      <4>1. Cardinality(targets) = 1
        BY <1>3, <3>2 DEF ReadHead
      <4>. QED BY <4>1, FS_EmptySet
    <3>. QED BY <3>1, <3>2
  <2>2. confirmations'[v].kind = kind /\ confirmations'[v].targets = targets
    BY <1>3 DEF ReadHead, LInv, TypeOK, Confirmation
  <2>3. \A w \in Confirmations \ {v} : confirmations'[w] = confirmations[w]
    BY <1>3 DEF ReadHead, LInv, TypeOK
  <2>4. \A w \in Confirmations : Targeted(w)'
    BY <2>1, <2>2, <2>3 DEF Targeted, LInv
  <2>. QED BY <1>1, <1>3, <2>4 DEF ReadHead
<1>4. ASSUME NEW v \in Confirmations, ReadRecords(v)
      PROVE  LInv'
  <2>1. /\ confirmations'[v].kind = confirmations[v].kind
        /\ confirmations'[v].targets = confirmations[v].targets
        /\ confirmations[v].stage # "none"
    BY <1>4 DEF ReadRecords, LInv, TypeOK, Confirmation
  <2>2. \A w \in Confirmations \ {v} : confirmations'[w] = confirmations[w]
    BY <1>4 DEF ReadRecords, LInv, TypeOK
  <2>3. \A w \in Confirmations : Targeted(w)'
    BY <2>1, <2>2 DEF Targeted, LInv
  <2>. QED BY <1>1, <1>4, <2>3 DEF ReadRecords
<1>5. ASSUME NEW c \in Calls, NEW v \in Confirmations, Confirm(c, v)
      PROVE  LInv'
  <2>1. Targeted(v) /\ confirmations[v].kind \in Confirmed
    BY DEF LInv, TypeOK, Confirmation
  <2>2. confirmations[v].stage = "ready"
    BY <1>5 DEF Confirm
  <2>. QED BY <1>0, <1>5, <2>1, <2>2, OrderBegins DEF Confirm, Targeted, Kinds, Confirmed
<1>6. ASSUME NEW c \in Calls, NEW r \in Records, NEW field, NEW status,
             Edit(c, r, field, status)
      PROVE  LInv'
  BY <1>0, <1>6, OrderBegins DEF Edit, Kinds
<1>7. ASSUME NEW c \in Calls, NEW field, Add(c, field)
      PROVE  LInv'
  BY <1>0, <1>7, OrderBegins DEF Add, Kinds
<1>8. ASSUME NEW c \in Calls, Publish(c)
      PROVE  LInv'
  BY <1>0, <1>8, OrderBegins DEF Publish, Kinds
<1>9. ASSUME NEW c \in Calls, Abort(c)
      PROVE  LInv'
  BY <1>0, <1>9, OrderEnds DEF Abort
<1>. QED
  BY <1>0, <1>2, <1>3, <1>4, <1>5, <1>6, <1>7, <1>8, <1>9, OrderProceeds DEF Next

LEMMA OrderFirst == Init => LInv
<1>. SUFFICES ASSUME Init
              PROVE  LInv
  OBVIOUS
<1>1. \A c \in Calls : holds[c] = {} /\ calls[c].place = "idle"
  BY DEF Init, NoCall
<1>2. \A v \in Confirmations : Targeted(v)
  BY DEF Init, Targeted
<1>. QED BY <1>1, <1>2, Initially DEF LInv, IInv, LocksInOrder, HasNext

\* How far a call has come.
Stage(c) ==
  CASE calls[c].place = "head" -> 0
    [] calls[c].place = "object" /\ calls[c].kind \in {"create", "publish"} -> 1
    [] calls[c].place = "record" -> 2
    [] calls[c].place = "object" /\ calls[c].kind \notin {"create", "publish"} -> 3
    [] OTHER -> 4

\* A call is before another that it can wait for.
Before(c, d) ==
  \/ Stage(c) < Stage(d)
  \/ Stage(c) = 2 /\ Stage(d) = 2 /\ \E r \in Left(c) : \A s \in Left(d) : r < s

LEMMA StageType == \A c : Stage(c) \in 0..4
BY DEF Stage

LEMMA BeforeOrders ==
  ASSUME TypeOK, NEW c \in Calls, NEW d \in Calls, NEW e \in Calls
  PROVE  ~Before(c, c) /\ (Before(c, d) /\ Before(d, e) => Before(c, e))
<1>1. Left(c) \subseteq Nat /\ Left(d) \subseteq Nat /\ Left(e) \subseteq Nat
  BY RecordsAssumption DEF Left, TypeOK, Call
<1>2. Stage(c) \in 0..4 /\ Stage(d) \in 0..4 /\ Stage(e) \in 0..4
  BY StageType
<1>3. ~Before(c, c)
  BY <1>1, <1>2 DEF Before
<1>4. ASSUME Before(c, d), Before(d, e)
      PROVE  Before(c, e)
  <2>1. CASE Stage(c) < Stage(d) \/ Stage(d) < Stage(e)
    BY <1>2, <1>4, <2>1 DEF Before
  <2>2. CASE ~(Stage(c) < Stage(d) \/ Stage(d) < Stage(e))
    <3>1. PICK r \in Left(c) : \A s \in Left(d) : r < s
      BY <1>4, <2>2 DEF Before
    <3>2. PICK q \in Left(d) : \A s \in Left(e) : q < s
      BY <1>4, <2>2 DEF Before
    <3>3. r < q /\ r \in Nat /\ q \in Nat
      BY <1>1, <3>1
    <3>4. \A s \in Left(e) : r < s
      BY <1>1, <3>2, <3>3
    <3>5. Stage(c) = 2 /\ Stage(e) = 2
      BY <1>4, <2>2 DEF Before
    <3>. QED BY <3>4, <3>5 DEF Before
  <2>. QED BY <2>1, <2>2
<1>. QED BY <1>3, <1>4

\* Who excludes a lock that a call needs is ahead of it.
LEMMA WaitsAhead ==
  ASSUME LInv, NEW c \in Calls, NEW d \in Calls, NEW lock \in Needs(c),
         Excludes(d, lock.row, lock.mode)
  PROVE  Before(c, d)
<1>1. PICK held \in holds[d] :
         held.row = lock.row /\ ~(lock.mode = "share" /\ held.mode = "share")
  BY DEF Excludes
<1>2. LocksInOrder(d) /\ calls[d].place \in {"record", "object", "commit"}
  BY <1>1 DEF LInv, LocksInOrder
<1>3. held \in Lock /\ lock \in Lock
  BY <1>1 DEF LInv, TypeOK, Needs
<1>4. CASE calls[c].place = "head"
  <2>1. Stage(c) = 0
    BY <1>4 DEF Stage
  <2>2. Stage(d) # 0 /\ Stage(d) \in 0..4
    BY <1>2 DEF Stage
  <2>. QED BY <2>1, <2>2 DEF Before
<1>5. CASE calls[c].place = "record"
  <2>1. lock.row \in Records /\ lock.row \in Left(c)
    BY <1>5 DEF Needs, IsNext, At
  <2>2. /\ calls[d].kind \in {"edit", "bulk", "update"}
        /\ \A s \in Left(d) : lock.row < s
    BY <1>1, <1>2, <2>1 DEF LocksInOrder
  <2>3. Stage(c) = 2
    BY <1>5 DEF Stage
  <2>4. Stage(d) \in {2, 3, 4}
    BY <1>2, <2>2 DEF Stage
  <2>. QED BY <2>1, <2>2, <2>3, <2>4 DEF Before
<1>6. CASE calls[c].place = "object" /\ calls[c].kind \in {"create", "publish"}
  <2>1. lock.row = Object
    BY <1>6 DEF Needs, At
  <2>2. Stage(c) = 1
    BY <1>6 DEF Stage
  <2>3. held.mode = "share" => calls[d].kind \notin {"create", "publish"}
    BY <1>1, <1>2, <2>1 DEF LocksInOrder
  <2>4. held.mode = "update" => calls[d].place = "commit"
    BY <1>1, <1>2, <2>1 DEF LocksInOrder
  <2>5. held.mode \in {"share", "update"}
    BY <1>3 DEF Lock
  <2>6. Stage(d) \in {2, 3, 4}
    BY <1>2, <2>3, <2>4, <2>5 DEF Stage
  <2>. QED BY <2>2, <2>6 DEF Before
<1>7. CASE calls[c].place = "object" /\ calls[c].kind \notin {"create", "publish"}
  <2>1. lock.row = Object /\ lock.mode = "share"
    BY <1>7 DEF Needs, At
  <2>2. held.mode = "update"
    BY <1>1, <1>3, <2>1 DEF Lock
  <2>3. calls[d].place = "commit"
    BY <1>1, <1>2, <2>1, <2>2 DEF LocksInOrder
  <2>4. Stage(c) = 3 /\ Stage(d) = 4
    BY <1>7, <2>3 DEF Stage
  <2>. QED BY <2>4 DEF Before
<1>8. calls[c].place \in {"head", "record", "object"}
  BY DEF Needs, At
<1>. QED BY <1>4, <1>5, <1>6, <1>7, <1>8

\* Of finitely many calls one has none of the others ahead of it.
LEMMA SomeoneIsAhead ==
  ASSUME TypeOK, NEW S \in SUBSET Calls, IsFiniteSet(S), S # {}
  PROVE  \E c \in S : \A d \in S : ~Before(c, d)
<1>. DEFINE Ahead(c) == {d \in S : Before(c, d)}
            All == {Ahead(c) : c \in S}
            R == StrictSubsetOrdering(S)
<1>1. IsWellFoundedOn(R, SUBSET S)
  BY FS_StrictSubsetOrderingWellFounded, FS_FiniteSubsetsOfFinite
<1>2. All \subseteq SUBSET S /\ All # {}
  OBVIOUS
<1>3. PICK least \in All : \A other \in All : <<other, least>> \notin R
  <2>. HIDE DEF R, All
  <2>. QED BY <1>1, <1>2, WFMin
<1>4. PICK c \in S : least = Ahead(c)
  OBVIOUS
<1>5. ASSUME NEW d \in S, Before(c, d)
      PROVE  FALSE
  <2>1. Ahead(d) \subseteq Ahead(c)
    BY <1>5, BeforeOrders
  <2>2. d \in Ahead(c) /\ d \notin Ahead(d)
    BY <1>5, BeforeOrders
  <2>3. <<Ahead(d), Ahead(c)>> \in R
    BY <2>1, <2>2 DEF StrictSubsetOrdering
  <2>. QED BY <1>3, <1>4, <2>3
<1>. QED BY <1>5

\* Numbers have a least one.
LEMMA Least ==
  ASSUME NEW S \in SUBSET Nat, S # {}
  PROVE  \E r \in S : \A s \in S : r <= s
<1>1. PICK n \in S : TRUE
  OBVIOUS
<1>. DEFINE Up(r) == 0..r
            All == {Up(r) : r \in {s \in S : s <= n}}
            R == StrictSubsetOrdering(0..n)
<1>2. IsWellFoundedOn(R, SUBSET (0..n))
  <2>1. IsFiniteSet(0..n)
    BY <1>1, FS_Interval
  <2>. QED BY <2>1, FS_FiniteSubsetsOfFinite, FS_StrictSubsetOrderingWellFounded
<1>3. All \subseteq SUBSET (0..n) /\ All # {}
  OBVIOUS
<1>4. PICK least \in All : \A other \in All : <<other, least>> \notin R
  <2>. HIDE DEF R, All
  <2>. QED BY <1>2, <1>3, WFMin
<1>5. PICK r \in S : r <= n /\ least = Up(r)
  OBVIOUS
<1>6. ASSUME NEW s \in S, s < r
      PROVE  FALSE
  <2>1. s <= n /\ s \in Nat /\ r \in Nat
    BY <1>5, <1>6
  <2>2. Up(s) \subseteq Up(r) /\ r \notin Up(s) /\ r \in Up(r) /\ Up(r) \subseteq 0..n
    BY <1>5, <1>6, <2>1
  <2>3. Up(s) \in All
    BY <2>1
  <2>4. <<Up(s), Up(r)>> \in R
    BY <2>2 DEF StrictSubsetOrdering
  <2>. QED BY <1>4, <1>5, <2>3, <2>4
<1>. QED BY <1>6

\* A call that does not commit next has a statement to go on with.
LEMMA GoesOnWith ==
  ASSUME LInv, NEW c \in Running(Kinds), calls[c].place # "commit"
  PROVE  Needs(c) # {}
<1>1. /\ c \in Calls /\ calls[c].kind \in Kinds
      /\ calls[c].place \in {"head", "record", "object"}
  BY DEF Running, LInv, TypeOK, Call
<1>2. HasNext(c)
  BY <1>1 DEF LInv
<1>3. CASE calls[c].place = "head"
  <2>. DEFINE mode == IF calls[c].kind = "publish" THEN "update" ELSE "share"
  <2>1. [row |-> Head, mode |-> mode] \in Needs(c)
    BY <1>2, <1>3 DEF HasNext, Needs, Lock, At
  <2>. QED BY <2>1
<1>4. CASE calls[c].place = "record"
  <2>1. Left(c) # {} /\ Left(c) \subseteq Nat /\ Left(c) \subseteq Records
    BY <1>1, <1>2, <1>4, RecordsAssumption DEF HasNext, Left, LInv, TypeOK, Call
  <2>2. PICK r \in Left(c) : \A s \in Left(c) : r <= s
    BY <2>1, Least
  <2>3. [row |-> r, mode |-> "update"] \in Needs(c)
    BY <1>2, <1>4, <2>1, <2>2 DEF HasNext, Needs, Lock, At, IsNext
  <2>. QED BY <2>3
<1>5. CASE calls[c].place = "object"
  <2>. DEFINE mode == IF calls[c].kind \in {"create", "publish"} THEN ObjectMode ELSE "share"
  <2>1. [row |-> Object, mode |-> mode] \in Needs(c)
    BY <1>1, <1>5 DEF Needs, Lock, At, ObjectMode
  <2>. QED BY <2>1
<1>. QED BY <1>1, <1>3, <1>4, <1>5

(* The record functions and a publication never deadlock, whatever records they       *)
(* lock: until it commits a call has a statement to go on with, and it waits for a    *)
(* row only while it comes before the row's holder in one order.                      *)
THEOREM NobodyDeadlocks == Spec => []NoDeadlock
<1>1. ASSUME LInv, NEW S \in SUBSET Running(Kinds), IsFiniteSet(S), S # {}
      PROVE  \E c \in S : ~WaitsFor(c, S)
  <2>1. S \subseteq Calls
    BY DEF Running
  <2>2. PICK c \in S : \A d \in S : ~Before(c, d)
    BY <1>1, <2>1, SomeoneIsAhead DEF LInv
  <2>3. ASSUME WaitsFor(c, S)
        PROVE  FALSE
    <3>1. PICK lock \in Needs(c) : \E d \in S \ {c} : Excludes(d, lock.row, lock.mode)
      BY <2>3 DEF WaitsFor
    <3>. QED BY <1>1, <2>1, <2>2, <3>1, WaitsAhead
  <2>. QED BY <2>3
<1>2. LInv => NoDeadlock
  BY <1>1, GoesOnWith DEF NoDeadlock
<1>. QED BY <1>2, OrderFirst, OrderKept, PTL DEF Spec
=============================================================================
