------------------------ MODULE ConfigurationLifecycle ------------------------
(***************************************************************************)
(* The configuration engine of one business: immutable versions, the head  *)
(* that names the active one, change sets under review, the live           *)
(* projection the runtime reads, the direct Table facades and Undo, and    *)
(* the operational records whose data must keep fitting the live fields.   *)
(*                                                                         *)
(* One action is one database transaction, except the direct facades and   *)
(* Undo: they run several lifecycle functions in one transaction that      *)
(* holds the head row, and records of other transactions commit between    *)
(* their statements, so each of their statements is a step of its own.     *)
(*                                                                         *)
(* Row locks are read off the transactions in progress (HeadShareable,     *)
(* HeadFree).  A record write holds FOR SHARE on its table row, and a      *)
(* projection updates that row from its first statement to its commit, so  *)
(* projecting and committing are one step and a record write is another.   *)
(***************************************************************************)
EXTENDS Naturals, Sequences, FiniteSets

CONSTANTS
  Tables,        \* keys of object_definitions
  ColumnKeys,    \* keys of field_definitions within a table
  Types,         \* field types (with their settings)
  ShortText,     \* the type of the column a new table starts with
  Edits,         \* operation lists a client may send
  Baselines,     \* projections a business may have at its baseline
  ChangeIds,     \* ids of change sets, and of the entities they allocate
  BaseId,        \* id of every entity that exists at the baseline
  RecordIds,
  Sessions,      \* database sessions that run direct facades and Undo
  MaxVersions,   \* bound on published versions
  None

Columns  == Tables \X ColumnKeys
Entities == Tables \union Columns

-------------------------------------------------------------------------------
(* Snapshots: what every table and column is, or that it is not defined.    *)

Entity == [id     : ChangeIds \union {BaseId, None},
           active : BOOLEAN,
           type   : Types \union {None}]

Absent == [id |-> None, active |-> FALSE, type |-> None]

Snapshots == [Entities -> Entity]

Present(snapshot, x) == snapshot[x].id # None

\* An edit names the entities it sets; ids are never the client's to choose.
IsEdit(edit) ==
  /\ DOMAIN edit \subseteq Entities
  /\ \A x \in DOMAIN edit : edit[x] \in [active : BOOLEAN, type : Types \union {None}]

ASSUME ConfigurationAssumption ==
  /\ None \notin ChangeIds \union {BaseId}
  /\ None \notin Tables
  /\ None \notin Types
  /\ ShortText \in Types
  /\ BaseId \notin ChangeIds
  /\ MaxVersions \in Nat
  /\ \A edit \in Edits : IsEdit(edit)
  /\ Baselines \subseteq Snapshots

\* A column belongs to a table the snapshot defines.
ColumnsHaveTables(snapshot) ==
  \A c \in Columns : Present(snapshot, c) => Present(snapshot, c[1])

\* Mutant: every set entity is allocated anew.
MutMaterialize(base, edit, change) ==
  [x \in Entities |->
     IF x \in DOMAIN edit
     THEN [id |-> change, active |-> edit[x].active, type |-> edit[x].type]
     ELSE base[x]]

\* configuration_materialize_candidate_v1: an entity that exists keeps its id,
\* a new one takes the id the change set allocated.
Materialize(base, edit, change) ==
  [x \in Entities |->
     IF x \in DOMAIN edit
     THEN [id     |-> IF Present(base, x) THEN base[x].id ELSE change,
           active |-> edit[x].active,
           type   |-> edit[x].type]
     ELSE base[x]]

\* Mutant: what was defined after the target stays active.
MutRollbackCandidate(current, historical) ==
  [x \in Entities |-> IF Present(historical, x) THEN historical[x] ELSE current[x]]

\* configuration_rollback_candidate_v1: what the target defines is restored,
\* what was defined later is archived, and nothing is deleted.
RollbackCandidate(current, historical) ==
  [x \in Entities |->
     IF Present(historical, x)
     THEN historical[x]
     ELSE [current[x] EXCEPT !.active = FALSE]]

RollbackIdentitiesMatch(current, historical) ==
  \A x \in Entities :
    Present(historical, x) => current[x].id = historical[x].id

\* The direct facades accept an edit only in the exact shape of its action.
DirectActions == {"create_table", "add_column", "change_column_type", "archive_column"}

ActionShape(action, base, edit) ==
  CASE action = "create_table" ->
         \E t \in Tables, k \in ColumnKeys :
           /\ DOMAIN edit = {t, <<t, k>>}
           /\ edit[t].active /\ edit[<<t, k>>].active
           /\ edit[<<t, k>>].type = ShortText
    [] action = "add_column" ->
         \E c \in Columns :
           /\ DOMAIN edit = {c} /\ edit[c].active
           /\ ~Present(base, c) /\ base[c[1]].active
    [] action = "change_column_type" ->
         \E c \in Columns :
           /\ DOMAIN edit = {c} /\ edit[c].active
           /\ Present(base, c) /\ base[c].active /\ base[c[1]].active
    [] action = "archive_column" ->
         \E c \in Columns :
           /\ DOMAIN edit = {c} /\ ~edit[c].active /\ edit[c].type = base[c].type
           /\ Present(base, c) /\ base[c].active
    [] OTHER -> FALSE

-------------------------------------------------------------------------------
(* Records: the table a record is in and the value of each column.  A value  *)
(* is named by the type it was written as: it fits a column of that type.    *)

NoRecord == [table |-> None, data |-> [c \in Columns |-> None]]

RecordSet == [table : Tables \union {None},
              data  : [Columns -> Types \union {None}]]

\* assert_valid_graph_record_data over the fields of a snapshot: every stored
\* key is a defined field, and fits it while the field is active.
Fits(record, snapshot) ==
  \A c \in Columns :
    record.data[c] # None =>
      /\ Present(snapshot, c)
      /\ snapshot[c].active => record.data[c] = snapshot[c].type

-------------------------------------------------------------------------------
VARIABLES versions, head, live, changeSets, records, txn

vars == <<versions, head, live, changeSets, records, txn>>

Statuses     == {"proposed", "validated", "applied", "rejected", "conflicted", "abandoned"}
OpenStatuses == {"proposed", "validated"}

NoEdit == [x \in {} |-> None]

NoChange == [status |-> "none", kind |-> "change", action |-> "reviewed", edit |-> NoEdit,
             base |-> 0, revision |-> 0, target |-> 0,
             candidate |-> [x \in Entities |-> Absent], applied |-> 0]

ChangeSet == [status    : Statuses \union {"none"},
              kind      : {"change", "rollback"},
              action    : DirectActions \union {"reviewed", "undo"},
              edit      : Edits \union {NoEdit},
              base      : Nat,       \* base_version_id
              revision  : Nat,       \* base_head_revision
              target    : Nat,       \* rollback_target_version_id
              candidate : Snapshots,
              applied   : Nat]       \* applied_version_id

Version == [number   : Nat,
            kind     : {"baseline", "change", "rollback"},
            parent   : Nat,
            restored : Nat,          \* restored_from_version_id
            source   : ChangeIds \union {None},
            snapshot : Snapshots]

NoTxn == [pc |-> "idle", change |-> None, cs |-> NoChange]

Txn == [pc     : {"idle", "proposed", "prepared", "validated"},
        change : ChangeIds \union {None},
        cs     : ChangeSet]

TypeOK ==
  /\ versions \in Seq(Version)
  /\ head \in [active : 1..Len(versions), revision : Nat]
  /\ live \in Snapshots
  /\ changeSets \in [ChangeIds -> ChangeSet]
  /\ records \in [RecordIds -> RecordSet]
  /\ txn \in [Sessions -> Txn]

\* initialize_business_configuration_baseline, run when the business is created.
Init ==
  /\ live \in Baselines
  /\ versions = <<[number |-> 1, kind |-> "baseline", parent |-> 0, restored |-> 0,
                   source |-> None, snapshot |-> live]>>
  /\ head = [active |-> 1, revision |-> 1]
  /\ changeSets = [c \in ChangeIds |-> NoChange]
  /\ records = [r \in RecordIds |-> NoRecord]
  /\ txn = [s \in Sessions |-> NoTxn]

Active == versions[head.active]

-------------------------------------------------------------------------------
(* Row locks on the head, and the checks every lifecycle function repeats.  *)

\* FOR SHARE is granted unless a transaction holds FOR UPDATE.
HeadShareable == \A s \in Sessions : txn[s].pc \in {"idle", "proposed"}

\* FOR UPDATE is granted to a request, or to session s, when no other holds a lock.
HeadFree      == \A s \in Sessions : txn[s].pc = "idle"
HeadFreeFor(s) == \A other \in Sessions \ {s} : txn[other].pc = "idle"

\* gen_random_uuid: a new change set has an id no other has.
Unused(c) ==
  /\ changeSets[c].status = "none"
  /\ \A s \in Sessions : txn[s].change # c

Stale(cs) == cs.base # head.active \/ cs.revision # head.revision

\* assert_configuration_projection_matches_v1
InSync == live = Active.snapshot

\* The bound on versions; a direct request starts only with room to publish.
Room == Len(versions) < MaxVersions

\* replay_configuration_change_set_v1: the candidate, recomputed from its inputs.
Replay(cs, c) ==
  IF cs.kind = "rollback"
  THEN RollbackCandidate(versions[cs.base].snapshot, versions[cs.target].snapshot)
  ELSE Materialize(versions[cs.base].snapshot, cs.edit, c)

Replays(cs, c) ==
  /\ cs.kind = "rollback" =>
       /\ versions[cs.target].number < versions[cs.base].number
       /\ RollbackIdentitiesMatch(versions[cs.base].snapshot, versions[cs.target].snapshot)
  /\ cs.candidate = Replay(cs, c)

\* Mutant: records of a table the candidate archives are not revalidated.
MutCompatible(snapshot) ==
  \A r \in RecordIds :
    records[r].table # None /\ snapshot[records[r].table].active => Fits(records[r], snapshot)

\* The sandbox and the projection revalidate every record of every field set.
Compatible(snapshot) ==
  \A r \in RecordIds : records[r].table # None => Fits(records[r], snapshot)

\* A change set against the current head.
NewChange(kind, action, edit, target, candidate) ==
  [status |-> "proposed", kind |-> kind, action |-> action, edit |-> edit,
   base |-> head.active, revision |-> head.revision, target |-> target,
   candidate |-> candidate, applied |-> 0]

SetStatus(c, status) ==
  changeSets' = [changeSets EXCEPT ![c].status = status]

\* A proposal on the current head: what propose_configuration_change computes.
Proposal(c, action, edit) ==
  NewChange("change", action, edit, 0, Materialize(Active.snapshot, edit, c))

Proposable(cs) ==
  /\ InSync
  /\ ColumnsHaveTables(cs.candidate)
  /\ cs.candidate # Active.snapshot

\* Mutant: the target's snapshot is taken as it is, without what came later.
MutRollback(action, v) ==
  NewChange("rollback", action, NoEdit, v, versions[v].snapshot)

\* A rollback to version v: what prepare_configuration_rollback computes.
Rollback(action, v) ==
  NewChange("rollback", action, NoEdit, v,
            RollbackCandidate(Active.snapshot, versions[v].snapshot))

Preparable(cs) ==
  /\ Active.number = head.revision /\ InSync
  /\ versions[cs.target].number < Active.number
  /\ RollbackIdentitiesMatch(Active.snapshot, versions[cs.target].snapshot)
  /\ cs.candidate # Active.snapshot

-------------------------------------------------------------------------------
(* Reviewed changes: each is one transaction.                               *)

ProposeConfigurationChange(c, edit) ==
  /\ HeadShareable /\ Unused(c)
  /\ Proposable(Proposal(c, "reviewed", edit))
  /\ changeSets' = [changeSets EXCEPT ![c] = Proposal(c, "reviewed", edit)]
  /\ UNCHANGED <<versions, head, live, records, txn>>

PrepareConfigurationRollback(c, v) ==
  /\ HeadShareable /\ Unused(c)
  /\ Preparable(Rollback("reviewed", v))
  /\ changeSets' = [changeSets EXCEPT ![c] = Rollback("reviewed", v)]
  /\ UNCHANGED <<versions, head, live, records, txn>>

ValidateConfigurationChange(c) ==
  /\ HeadFree
  /\ changeSets[c].status = "proposed"
  /\ \/ /\ Stale(changeSets[c])
        /\ SetStatus(c, "conflicted")
     \/ /\ ~Stale(changeSets[c])
        /\ Replays(changeSets[c], c) /\ InSync
        /\ SetStatus(c, IF Compatible(changeSets[c].candidate) THEN "validated" ELSE "rejected")
  /\ UNCHANGED <<versions, head, live, records, txn>>

\* Mutant: the head is not compared with the base again.
MutApplicable(cs, c) == InSync /\ Replays(cs, c)

\* The checks of apply_configuration_change before it projects the candidate.
Applicable(cs, c) ==
  /\ ~Stale(cs)
  /\ versions[cs.base].number = head.revision
  /\ InSync
  /\ Replays(cs, c)

NextVersion(cs, c) ==
  [number   |-> versions[cs.base].number + 1,
   kind     |-> cs.kind,
   parent   |-> cs.base,
   restored |-> cs.target,
   source   |-> c,
   snapshot |-> cs.candidate]

NextHead == [active |-> Len(versions) + 1, revision |-> head.revision + 1]

\* Project the candidate, append the version, advance the head, close the set.
Publish(cs, c) ==
  /\ Room
  /\ Compatible(cs.candidate)
  /\ live' = cs.candidate
  /\ versions' = Append(versions, NextVersion(cs, c))
  /\ head' = NextHead
  /\ changeSets' = [changeSets EXCEPT ![c] =
       [cs EXCEPT !.status = "applied", !.applied = Len(versions) + 1]]

ApplyConfigurationChange(c) ==
  /\ HeadFree
  /\ changeSets[c].status = "validated"
  /\ \/ /\ Stale(changeSets[c])
        /\ SetStatus(c, "conflicted")
        /\ UNCHANGED <<versions, head, live>>
     \/ /\ Applicable(changeSets[c], c)
        /\ Publish(changeSets[c], c)
     \/ /\ Applicable(changeSets[c], c)
        /\ ~Compatible(changeSets[c].candidate)
        /\ SetStatus(c, "rejected")
        /\ UNCHANGED <<versions, head, live>>
  /\ UNCHANGED <<records, txn>>

\* Mutant: any change set may be abandoned.
MutAbandonConfigurationChangeSet(c) ==
  /\ changeSets[c].status # "none"
  /\ SetStatus(c, "abandoned")
  /\ UNCHANGED <<versions, head, live, records, txn>>

\* Takes no lock on the head, so it may run beside any transaction.
AbandonConfigurationChangeSet(c) ==
  /\ changeSets[c].status = "proposed"
  /\ SetStatus(c, "abandoned")
  /\ UNCHANGED <<versions, head, live, records, txn>>

-------------------------------------------------------------------------------
(* Direct Table changes and Undo: one transaction, one step per lifecycle   *)
(* function it calls.  Its change set is invisible until it commits.        *)

StartTxn(s, pc, c, cs) ==
  /\ txn' = [txn EXCEPT ![s] = [pc |-> pc, change |-> c, cs |-> cs]]
  /\ UNCHANGED <<versions, head, live, changeSets, records>>

EndTxn(s) == txn' = [txn EXCEPT ![s] = NoTxn]

\* propose_configuration_change and the action's shape check, FOR SHARE held.
BeginDirect(s, c, action, edit) ==
  /\ txn[s].pc = "idle"
  /\ HeadShareable /\ Unused(c) /\ Room
  /\ Proposable(Proposal(c, action, edit))
  /\ ActionShape(action, Active.snapshot, edit)
  /\ StartTxn(s, "proposed", c, Proposal(c, action, edit))

\* No record uses what the change set of the active version created.
UndoUnused(source) ==
  /\ source.action = "create_table" =>
       \A r \in RecordIds : records[r].table \notin DOMAIN source.edit
  /\ source.action = "add_column" =>
       \A r \in RecordIds, column \in Columns :
         /\ Present(Active.snapshot, column)
         /\ \E added \in DOMAIN source.edit : added[2] = column[2]
         => records[r].data[column] = None

\* undo_direct_configuration_change up to its rollback, FOR UPDATE held: the
\* active version must be a direct change whose effect no record uses.
\* An archived column fails the shape check and cannot be undone.
BeginUndo(s, c) ==
  /\ txn[s].pc = "idle"
  /\ HeadFree /\ Unused(c) /\ Room
  /\ Active.kind = "change" /\ Active.parent # 0 /\ Active.source # None
  /\ LET source == changeSets[Active.source] IN
       /\ source.action \in DirectActions \ {"archive_column"}
       /\ ActionShape(source.action, versions[Active.parent].snapshot, source.edit)
       /\ UndoUnused(source)
  /\ Preparable(Rollback("undo", Active.parent))
  /\ StartTxn(s, "prepared", c, Rollback("undo", Active.parent))

\* validate_configuration_change; anything but "validated" aborts.
ValidateInTxn(s) ==
  LET cs == txn[s].cs IN
  /\ txn[s].pc \in {"proposed", "prepared"}
  /\ HeadFreeFor(s)
  /\ IF ~Stale(cs) /\ Replays(cs, txn[s].change) /\ InSync /\ Compatible(cs.candidate)
     THEN txn' = [txn EXCEPT ![s].pc = "validated"]
     ELSE EndTxn(s)
  /\ UNCHANGED <<versions, head, live, changeSets, records>>

\* Mutant: a refused application commits its rejected change set.
MutApplyInTxn(s) ==
  LET cs == txn[s].cs c == txn[s].change IN
  /\ txn[s].pc = "validated"
  /\ \/ Applicable(cs, c) /\ Publish(cs, c)
     \/ /\ ~(Applicable(cs, c) /\ Compatible(cs.candidate))
        /\ changeSets' = [changeSets EXCEPT ![c] = [cs EXCEPT !.status = "rejected"]]
        /\ UNCHANGED <<versions, head, live>>
  /\ EndTxn(s)
  /\ UNCHANGED records

\* apply_configuration_change and the commit; anything but "applied" aborts.
ApplyInTxn(s) ==
  LET cs == txn[s].cs IN
  /\ txn[s].pc = "validated"
  /\ \/ /\ Applicable(cs, txn[s].change)
        /\ Publish(cs, txn[s].change)
     \/ /\ ~(Applicable(cs, txn[s].change) /\ Compatible(cs.candidate))
        /\ UNCHANGED <<versions, head, live, changeSets>>
  /\ EndTxn(s)
  /\ UNCHANGED records

\* A cancelled statement, a timeout or a lost server: everything is undone.
AbortTxn(s) ==
  /\ txn[s].pc # "idle"
  /\ EndTxn(s)
  /\ UNCHANGED <<versions, head, live, changeSets, records>>

\* Mutant: only an Undo is ever chosen as the victim.
MutDetectDeadlock(s) ==
  /\ txn[s].pc = "prepared"
  /\ ~HeadFreeFor(s)
  /\ EndTxn(s)
  /\ UNCHANGED <<versions, head, live, changeSets, records>>

\* Two sessions hold FOR SHARE and both wait for FOR UPDATE: the database
\* makes one of them the victim.
DetectDeadlock(s) ==
  /\ txn[s].pc = "proposed"
  /\ ~HeadFreeFor(s)
  /\ EndTxn(s)
  /\ UNCHANGED <<versions, head, live, changeSets, records>>

-------------------------------------------------------------------------------
(* Records: they lock their table's row, never the head.                    *)

WritableColumns(t) ==
  {c \in Columns : c[1] = t /\ Present(live, c) /\ live[c].active}

CreateGraphRecord(r, t, filled) ==
  /\ records[r].table = None
  /\ Present(live, t) /\ live[t].active
  /\ filled \subseteq WritableColumns(t)
  /\ records' = [records EXCEPT ![r] =
       [table |-> t, data |-> [c \in Columns |-> IF c \in filled THEN live[c].type ELSE None]]]
  /\ UNCHANGED <<versions, head, live, changeSets, txn>>

\* Fills or blanks one column; the whole record is validated again.
UpdateGraphRecord(r, c) ==
  /\ c \in WritableColumns(records[r].table)
  /\ live[c[1]].active
  /\ \E value \in {live[c].type, None} :
       records' = [records EXCEPT ![r].data[c] = value]
  /\ Fits(records'[r], live)
  /\ UNCHANGED <<versions, head, live, changeSets, txn>>

-------------------------------------------------------------------------------
Review(c) ==
  \/ \E edit \in Edits : ProposeConfigurationChange(c, edit)
  \/ \E v \in 1..Len(versions) : PrepareConfigurationRollback(c, v)
  \/ ValidateConfigurationChange(c)
  \/ ApplyConfigurationChange(c)
  \/ AbandonConfigurationChangeSet(c)

Begin(s) ==
  \E c \in ChangeIds :
    \/ \E action \in DirectActions, edit \in Edits : BeginDirect(s, c, action, edit)
    \/ BeginUndo(s, c)

\* What the database does on its own for a transaction in progress.
Continue(s) == ValidateInTxn(s) \/ ApplyInTxn(s) \/ DetectDeadlock(s)

WriteRecord(r) ==
  \/ \E t \in Tables, filled \in SUBSET Columns : CreateGraphRecord(r, t, filled)
  \/ \E c \in Columns : UpdateGraphRecord(r, c)

Next ==
  \/ \E c \in ChangeIds : Review(c)
  \/ \E s \in Sessions : Begin(s) \/ Continue(s) \/ AbortTxn(s)
  \/ \E r \in RecordIds : WriteRecord(r)

Spec == Init /\ [][Next]_vars

\* A running transaction is never left waiting: the database runs its next
\* statement, or ends it.
FairSpec == Spec /\ \A s \in Sessions : WF_vars(Continue(s))

-------------------------------------------------------------------------------
(* Properties.                                                              *)

\* Versions are numbered without a gap, each one follows its predecessor, and
\* the head names the newest: no two publications ever start from one base.
HistoryLinear ==
  /\ \A i \in 1..Len(versions) : versions[i].number = i /\ versions[i].parent = i - 1
  /\ head.active = Len(versions) /\ head.revision = Len(versions)

\* What the runtime reads is the active version, so the check that guards
\* propose, validate and apply never fails for a business.
LiveMatchesHead == InSync

\* Every version after the baseline carries exactly what one applied change
\* set was reviewed to do, on exactly the version it was reviewed against, and
\* every applied change set has such a version.
AppliedIsPublished ==
  /\ \A i \in 2..Len(versions) :
       LET cs == changeSets[versions[i].source] IN
         /\ versions[i].source # None
         /\ cs.status = "applied" /\ cs.applied = i
         /\ cs.base = i - 1 /\ cs.kind = versions[i].kind
         /\ cs.candidate = versions[i].snapshot
  /\ \A c \in ChangeIds :
       changeSets[c].status = "applied" =>
         /\ changeSets[c].applied \in 2..Len(versions)
         /\ versions[changeSets[c].applied].source = c

\* A table or column keeps the id it was first published with, through every
\* change, archive, rollback and Undo.
IdentityStable ==
  \A i, j \in 1..Len(versions) : \A x \in Entities :
    i <= j /\ Present(versions[i].snapshot, x) =>
      versions[j].snapshot[x].id = versions[i].snapshot[x].id

\* The replay of an open change set gives its candidate again: the replay
\* mismatch, target and identity errors are unreachable.
OpenChangesReplay ==
  \A c \in ChangeIds :
    changeSets[c].status \in OpenStatuses => Replays(changeSets[c], c)

\* Every record fits the fields that are live, whatever was published between
\* its writes and whatever was written between validation and application.
RecordsFitLive == \A r \in RecordIds : Fits(records[r], live)

\* A rollback brings back everything its target defined and archives the rest.
RollbackRestores ==
  \A i \in 1..Len(versions) :
    versions[i].kind = "rollback" =>
      /\ versions[i].restored \in 1..(i - 1)
      /\ \A x \in Entities :
           LET target == versions[versions[i].restored].snapshot IN
             IF Present(target, x)
             THEN versions[i].snapshot[x] = target[x]
             ELSE ~versions[i].snapshot[x].active

\* The inductive invariant: the properties above, and what they rest on.  A
\* change set under review and one in a transaction refer to versions that
\* exist and change something, a transaction's change set is its own and not yet visible, and a
\* record that was never created is blank.
Based(cs) ==
  /\ cs.base \in 1..Len(versions)
  /\ cs.candidate # versions[cs.base].snapshot
  /\ cs.kind = "rollback" => cs.target \in 1..Len(versions)

OpenChangesBased ==
  \A c \in ChangeIds : changeSets[c].status \in OpenStatuses => Based(changeSets[c])

TxnsIsolated ==
  \A s \in Sessions :
    txn[s].pc # "idle" =>
      /\ txn[s].change \in ChangeIds
      /\ changeSets[txn[s].change].status = "none"
      /\ Based(txn[s].cs)
      /\ \A other \in Sessions \ {s} :
           txn[other].pc # "idle" => txn[other].change # txn[s].change

BlankRecords == \A r \in RecordIds : records[r].table = None => records[r] = NoRecord

IInv ==
  /\ TypeOK
  /\ HistoryLinear
  /\ LiveMatchesHead
  /\ AppliedIsPublished
  /\ IdentityStable
  /\ OpenChangesBased
  /\ OpenChangesReplay
  /\ TxnsIsolated
  /\ BlankRecords
  /\ RecordsFitLive
  /\ RollbackRestores

\* A change set only moves forward, keeps what was reviewed, and a closed one
\* never changes again; versions are never rewritten.
MayBecome(old, new) ==
  \/ old = "none" /\ new \in {"proposed", "applied"}
  \/ old = "proposed" /\ new \in {"validated", "rejected", "conflicted", "abandoned"}
  \/ old = "validated" /\ new \in {"applied", "rejected", "conflicted"}

MovesOn(old, new) ==
  /\ old.status = new.status \/ MayBecome(old.status, new.status)
  /\ old.status # "none" =>
       new = [old EXCEPT !.status = new.status, !.applied = new.applied]
  /\ old.status \notin OpenStatuses \union {"none"} => new = old

LifecycleStep ==
  /\ \A c \in ChangeIds : MovesOn(changeSets[c], changeSets'[c])
  /\ Len(versions) <= Len(versions')
  /\ \A i \in 1..Len(versions) : versions'[i] = versions[i]

ChangeSetLifecycle == [][LifecycleStep]_vars

\* A direct request or an Undo publishes in full or leaves no trace, wherever in
\* its transaction it fails or is ended.
AllOrNothingStep ==
  \A s \in Sessions :
    txn[s].pc # "idle" /\ txn'[s].pc = "idle" =>
      \/ UNCHANGED <<versions, head, live, changeSets>>
      \/ /\ Len(versions') = Len(versions) + 1
         /\ versions' = Append(versions, versions'[Len(versions) + 1])
         /\ live' = versions'[Len(versions) + 1].snapshot
         /\ head'.active = Len(versions) + 1
         /\ changeSets'[txn[s].change].status = "applied"

AllOrNothing == [][AllOrNothingStep]_vars

\* Every direct change and every Undo answers, even when two of them hold the
\* head's lock in share mode and both wait to update it.
DirectRequestEnds ==
  \A s \in Sessions : txn[s].pc # "idle" ~> txn[s].pc = "idle"

\* "Undo of create_table is unavailable once the created Object has any Record,
\* and Undo of add_column is unavailable once the added Field has a meaningful
\* value in any Record" (docs/configuration-mutation-boundary.md): the step that
\* publishes an Undo archives no table or column a record uses.
UsedBy(r, x) == records[r].table = x \/ (x \in Columns /\ records[r].data[x] # None)

UndoSparesRecordsStep ==
  \A x \in Entities :
    /\ Len(versions') > Len(versions)
    /\ changeSets'[versions'[Len(versions')].source].action = "undo"
    /\ live[x].active /\ ~live'[x].active
    => \A r \in RecordIds : ~UsedBy(r, x)

UndoSparesRecords == [][UndoSparesRecordsStep]_vars

\* The lifecycle implements the promise of ConfigurationHistory.
Published == [i \in 1..Len(versions) |-> versions[i].snapshot]

UnderReview ==
  {[change |-> c, base |-> changeSets[c].base, candidate |-> changeSets[c].candidate] :
     c \in {d \in ChangeIds : changeSets[d].status \in OpenStatuses}}

Promise == INSTANCE ConfigurationHistory WITH history <- Published, pending <- UnderReview

ImplementsHistory == Promise!History
===============================================================================
