--------------------- MODULE ConfigurationLifecycle_proofs ---------------------
(***************************************************************************)
(* For every set of tables, columns, types, edits, change sets, records    *)
(* and sessions: IInv is an inductive invariant of the lifecycle, so every *)
(* safety property of ConfigurationLifecycle holds.                        *)
(***************************************************************************)
EXTENDS ConfigurationLifecycle, TLAPS

-------------------------------------------------------------------------------
(* Candidates are snapshots that keep the identities of their base.         *)

LEMMA MaterializeType ==
  ASSUME NEW base \in Snapshots, NEW edit \in Edits, NEW c \in ChangeIds
  PROVE  Materialize(base, edit, c) \in Snapshots
<1>1. \A x \in Entities : base[x] \in Entity
  BY DEF Snapshots
<1>2. ASSUME NEW x \in Entities
      PROVE  Materialize(base, edit, c)[x] \in Entity
  <2>1. CASE x \in DOMAIN edit
    <3>1. edit[x] \in [active : BOOLEAN, type : Types \union {None}]
      BY <2>1, ConfigurationAssumption DEF IsEdit
    <3>. QED BY <1>1, <2>1, <3>1 DEF Materialize, Entity
  <2>2. CASE x \notin DOMAIN edit
    BY <1>1, <2>2 DEF Materialize
  <2>. QED BY <2>1, <2>2
<1>. QED BY <1>2 DEF Snapshots, Materialize

LEMMA RollbackCandidateType ==
  ASSUME NEW current \in Snapshots, NEW historical \in Snapshots
  PROVE  RollbackCandidate(current, historical) \in Snapshots
<1>1. \A x \in Entities : current[x] \in Entity /\ historical[x] \in Entity
  BY DEF Snapshots
<1>2. \A x \in Entities : [current[x] EXCEPT !.active = FALSE] \in Entity
  BY <1>1 DEF Entity
<1>. QED BY <1>1, <1>2 DEF RollbackCandidate, Snapshots

LEMMA MaterializeKeepsIds ==
  ASSUME NEW base \in Snapshots, NEW edit, NEW c \in ChangeIds,
         NEW x \in Entities, Present(base, x)
  PROVE  Materialize(base, edit, c)[x].id = base[x].id
BY DEF Materialize, Present

LEMMA RollbackKeepsIds ==
  ASSUME NEW current \in Snapshots, NEW historical \in Snapshots,
         RollbackIdentitiesMatch(current, historical), NEW x \in Entities
  PROVE  RollbackCandidate(current, historical)[x].id = current[x].id
<1>1. current[x] \in Entity /\ historical[x] \in Entity
  BY DEF Snapshots
<1>. QED BY <1>1 DEF RollbackCandidate, RollbackIdentitiesMatch, Entity

-------------------------------------------------------------------------------
(* The initial states satisfy the invariant.                                *)

LEMMA NoTxnType == NoChange \in ChangeSet /\ NoTxn \in Txn
<1>1. [x \in Entities |-> Absent] \in Snapshots
  BY DEF Snapshots, Absent, Entity
<1>2. NoChange \in ChangeSet
  BY <1>1 DEF NoChange, ChangeSet
<1>. QED BY <1>2 DEF NoTxn, Txn

LEMMA InitInvariant == Init => IInv
<1>. SUFFICES ASSUME Init PROVE IInv
  OBVIOUS
<1>1. live \in Snapshots
  BY ConfigurationAssumption DEF Init
<1>2. Len(versions) = 1
  BY DEF Init
<1>3. /\ versions[1].number = 1 /\ versions[1].parent = 0
      /\ versions[1].kind = "baseline" /\ versions[1].snapshot = live
  BY DEF Init
<1>5. NoRecord \in RecordSet
  BY DEF NoRecord, RecordSet
<1>7. TypeOK
  <2>1. versions \in Seq(Version)
    BY <1>1 DEF Init, Version
  <2>. QED BY <1>1, <1>2, <1>5, <2>1, NoTxnType DEF TypeOK, Init
<1>8. HistoryLinear
  BY <1>2, <1>3 DEF HistoryLinear, Init
<1>9. LiveMatchesHead
  BY <1>3 DEF LiveMatchesHead, InSync, Active, Init
<1>10. AppliedIsPublished
  BY <1>2 DEF AppliedIsPublished, Init, NoChange
<1>11. IdentityStable
  BY <1>2 DEF IdentityStable
<1>12. OpenChangesBased /\ OpenChangesReplay
  BY DEF OpenChangesBased, OpenChangesReplay, OpenStatuses, Init, NoChange
<1>13. TxnsIsolated
  BY DEF TxnsIsolated, Init, NoTxn
<1>14. BlankRecords
  BY DEF BlankRecords, Init
<1>15. RecordsFitLive
  BY DEF RecordsFitLive, Fits, NoRecord, Init
<1>16. RollbackRestores
  BY <1>2, <1>3 DEF RollbackRestores
<1>. QED
  BY <1>7, <1>8, <1>9, <1>10, <1>11, <1>12, <1>13, <1>14, <1>15, <1>16 DEF IInv

-------------------------------------------------------------------------------
(* The head, and what a proposal and a rollback on it are.                  *)

LEMMA HeadIsNewest ==
  ASSUME IInv
  PROVE  /\ Len(versions) \in Nat \ {0}
         /\ head = [active |-> Len(versions), revision |-> Len(versions)]
         /\ Active = versions[Len(versions)]
         /\ \A i \in 1..Len(versions) : /\ versions[i] \in Version
                                        /\ versions[i].number = i
                                        /\ versions[i].snapshot \in Snapshots
<1>1. \A i \in 1..Len(versions) : versions[i] \in Version
  BY DEF IInv, TypeOK
<1>. QED BY <1>1 DEF IInv, TypeOK, HistoryLinear, Active, Version

LEMMA ProposalSound ==
  ASSUME IInv, NEW c \in ChangeIds, NEW edit \in Edits,
         NEW action \in DirectActions \union {"reviewed"},
         Proposable(Proposal(c, action, edit))
  PROVE  LET cs == Proposal(c, action, edit) IN
           /\ cs \in ChangeSet
           /\ cs.status = "proposed" /\ cs.action = action
           /\ Based(cs)
           /\ Replays(cs, c)
<1>. DEFINE cs == Proposal(c, action, edit)
            candidate == Materialize(Active.snapshot, edit, c)
<1>1. cs = [status |-> "proposed", kind |-> "change", action |-> action, edit |-> edit,
            base |-> head.active, revision |-> head.revision, target |-> 0,
            candidate |-> candidate, applied |-> 0]
  BY DEF Proposal, NewChange
<1>2. candidate \in Snapshots
  BY HeadIsNewest, MaterializeType
<1>. HIDE DEF candidate
<1>3. cs \in ChangeSet
  BY <1>1, <1>2, HeadIsNewest DEF ChangeSet, Statuses
<1>4. Based(cs)
  BY <1>1, HeadIsNewest DEF Based, Proposable, Preparable, Active
<1>5. cs.candidate = Replay(cs, c)
  BY <1>1 DEF Replay, candidate, Active
<1>. QED BY <1>1, <1>3, <1>4, <1>5 DEF Replays

LEMMA RollbackSound ==
  ASSUME IInv, NEW c \in ChangeIds, NEW v \in 1..Len(versions),
         NEW action \in {"reviewed", "undo"}, Preparable(Rollback(action, v))
  PROVE  LET cs == Rollback(action, v) IN
           /\ cs \in ChangeSet
           /\ cs.status = "proposed" /\ cs.action = action
           /\ Based(cs)
           /\ Replays(cs, c)
<1>. DEFINE cs == Rollback(action, v)
            candidate == RollbackCandidate(Active.snapshot, versions[v].snapshot)
<1>1. cs = [status |-> "proposed", kind |-> "rollback", action |-> action, edit |-> NoEdit,
            base |-> head.active, revision |-> head.revision, target |-> v,
            candidate |-> candidate, applied |-> 0]
  BY DEF Rollback, NewChange
<1>2. candidate \in Snapshots
  BY HeadIsNewest, RollbackCandidateType
<1>. HIDE DEF candidate
<1>3. cs \in ChangeSet
  BY <1>1, <1>2, HeadIsNewest DEF ChangeSet, Statuses
<1>4. Based(cs)
  BY <1>1, HeadIsNewest DEF Based, Proposable, Preparable, Active
<1>5. cs.candidate = Replay(cs, c)
  BY <1>1 DEF Replay, candidate, Active
<1>6. /\ versions[cs.target].number < versions[cs.base].number
      /\ RollbackIdentitiesMatch(versions[cs.base].snapshot, versions[cs.target].snapshot)
  BY <1>1 DEF Preparable, Active
<1>. QED BY <1>1, <1>3, <1>4, <1>5, <1>6 DEF Replays

\* A candidate on the newest version keeps every identity of it.
LEMMA CandidateKeepsIds ==
  ASSUME IInv, NEW c \in ChangeIds, NEW cs \in ChangeSet, Based(cs), Replays(cs, c),
         cs.base = Len(versions), NEW x \in Entities,
         Present(versions[Len(versions)].snapshot, x)
  PROVE  cs.candidate[x].id = versions[Len(versions)].snapshot[x].id
<1>1. CASE cs.kind = "rollback"
  <2>1. cs.target \in 1..Len(versions)
    BY <1>1 DEF Based
  <2>. QED BY <1>1, <2>1, HeadIsNewest, RollbackKeepsIds DEF Replays, Replay
<1>2. CASE cs.kind # "rollback"
  BY <1>2, HeadIsNewest, MaterializeKeepsIds DEF Replays, Replay
<1>. QED BY <1>1, <1>2

-------------------------------------------------------------------------------
(* Four kinds of step.  A change set moves; nothing is published.           *)

LEMMA ChangeSetStep ==
  ASSUME IInv, NEW c \in ChangeIds, NEW cs \in ChangeSet,
         changeSets' = [changeSets EXCEPT ![c] = cs],
         cs.status # "applied", changeSets[c].status # "applied",
         cs.status \in OpenStatuses => Based(cs) /\ Replays(cs, c),
         \A s \in Sessions : txn[s].pc # "idle" => txn[s].change # c,
         UNCHANGED <<versions, head, live, records, txn>>
  PROVE  IInv'
<1>1. changeSets \in [ChangeIds -> ChangeSet]
  BY DEF IInv, TypeOK
<1>2. changeSets' \in [ChangeIds -> ChangeSet]
  BY <1>1
<1>3. \A d \in ChangeIds : changeSets'[d] = IF d = c THEN cs ELSE changeSets[d]
  BY <1>1
<1>4. TypeOK'
  BY <1>2 DEF IInv, TypeOK
<1>5. HistoryLinear' /\ IdentityStable' /\ BlankRecords' /\ RollbackRestores'
  BY DEF IInv, HistoryLinear, IdentityStable, BlankRecords, RollbackRestores
<1>6. LiveMatchesHead' /\ RecordsFitLive'
  BY DEF IInv, LiveMatchesHead, InSync, Active, RecordsFitLive
<1>7. AppliedIsPublished'
  <2>1. ASSUME NEW i \in 2..Len(versions)
        PROVE  versions[i].source \in ChangeIds /\ versions[i].source # c
    <3>1. versions[i].source \in ChangeIds \union {None}
      BY <2>1, HeadIsNewest DEF Version
    <3>. QED BY <2>1, <3>1 DEF IInv, AppliedIsPublished
  <2>. QED BY <1>3, <2>1 DEF IInv, AppliedIsPublished
<1>8. OpenChangesBased'
  BY <1>3 DEF IInv, OpenChangesBased, Based
<1>9. OpenChangesReplay'
  <2>. SUFFICES ASSUME NEW d \in ChangeIds, changeSets'[d].status \in OpenStatuses
                PROVE  Replays(changeSets[d], d)' 
    BY DEF OpenChangesReplay
  <2>1. Replays(changeSets'[d], d)
    BY <1>3 DEF IInv, OpenChangesReplay
  <2>. QED BY <2>1 DEF Replays, Replay
<1>10. TxnsIsolated'
  <2>. SUFFICES ASSUME NEW s \in Sessions, txn[s].pc # "idle"
                PROVE  /\ txn[s].change \in ChangeIds
                       /\ changeSets'[txn[s].change].status = "none"
                       /\ Based(txn[s].cs)
                       /\ \A other \in Sessions \ {s} :
                            txn[other].pc # "idle" => txn[other].change # txn[s].change
    BY DEF TxnsIsolated, Based
  <2>. QED BY <1>3 DEF IInv, TxnsIsolated
<1>. QED
  BY <1>4, <1>5, <1>6, <1>7, <1>8, <1>9, <1>10 DEF IInv

(* A transaction starts, goes on or ends; nothing it did is visible.        *)

LEMMA TxnStep ==
  ASSUME IInv, NEW s \in Sessions, NEW t \in Txn,
         txn' = [txn EXCEPT ![s] = t],
         t.pc # "idle" =>
           /\ t.change \in ChangeIds
           /\ changeSets[t.change].status = "none"
           /\ Based(t.cs)
           /\ \A other \in Sessions \ {s} :
                txn[other].pc # "idle" => txn[other].change # t.change,
         UNCHANGED <<versions, head, live, changeSets, records>>
  PROVE  IInv'
<1>1. txn \in [Sessions -> Txn]
  BY DEF IInv, TypeOK
<1>2. \A other \in Sessions : txn'[other] = IF other = s THEN t ELSE txn[other]
  BY <1>1
<1>3. TypeOK'
  BY <1>1 DEF IInv, TypeOK
<1>4. HistoryLinear' /\ IdentityStable' /\ BlankRecords' /\ RollbackRestores'
  BY DEF IInv, HistoryLinear, IdentityStable, BlankRecords, RollbackRestores
<1>5. LiveMatchesHead' /\ RecordsFitLive' /\ AppliedIsPublished'
  BY DEF IInv, LiveMatchesHead, InSync, Active, RecordsFitLive, AppliedIsPublished
<1>6. OpenChangesBased' /\ OpenChangesReplay'
  BY DEF IInv, OpenChangesBased, Based, OpenChangesReplay, Replays, Replay
<1>7. TxnsIsolated'
  <2>. SUFFICES ASSUME NEW one \in Sessions, txn'[one].pc # "idle"
                PROVE  /\ txn'[one].change \in ChangeIds
                       /\ changeSets[txn'[one].change].status = "none"
                       /\ Based(txn'[one].cs)
                       /\ \A other \in Sessions \ {one} :
                            txn'[other].pc # "idle" => txn'[other].change # txn'[one].change
    BY DEF TxnsIsolated, Based
  <2>. QED BY <1>2 DEF IInv, TxnsIsolated
<1>. QED
  BY <1>3, <1>4, <1>5, <1>6, <1>7 DEF IInv

(* A record is written; it fits what is live.                               *)

LEMMA RecordStep ==
  ASSUME IInv, NEW r \in RecordIds, NEW record \in RecordSet,
         records' = [records EXCEPT ![r] = record],
         record.table # None, Fits(record, live),
         UNCHANGED <<versions, head, live, changeSets, txn>>
  PROVE  IInv'
<1>1. records \in [RecordIds -> RecordSet]
  BY DEF IInv, TypeOK
<1>2. \A q \in RecordIds : records'[q] = IF q = r THEN record ELSE records[q]
  BY <1>1
<1>3. TypeOK'
  BY <1>1 DEF IInv, TypeOK
<1>4. HistoryLinear' /\ IdentityStable' /\ AppliedIsPublished'
  BY DEF IInv, HistoryLinear, IdentityStable, AppliedIsPublished
<1>9. RollbackRestores'
  BY DEF IInv, RollbackRestores
<1>5. LiveMatchesHead' /\ TxnsIsolated'
  BY DEF IInv, LiveMatchesHead, InSync, Active, TxnsIsolated, Based
<1>6. OpenChangesBased' /\ OpenChangesReplay'
  BY DEF IInv, OpenChangesBased, Based, OpenChangesReplay, Replays, Replay
<1>7. BlankRecords'
  BY <1>2 DEF IInv, BlankRecords
<1>8. RecordsFitLive'
  BY <1>2 DEF IInv, RecordsFitLive
<1>. QED
  BY <1>3, <1>4, <1>5, <1>6, <1>7, <1>8, <1>9 DEF IInv

(* A candidate is published on the version it was reviewed against.         *)

LEMMA PublishStep ==
  ASSUME IInv, NEW c \in ChangeIds, NEW cs \in ChangeSet, Based(cs),
         Applicable(cs, c), Publish(cs, c),
         changeSets[c].status # "applied",
         txn' \in [Sessions -> Txn],
         \A s \in Sessions : txn'[s].pc # "idle" => txn'[s] = txn[s] /\ txn[s].change # c,
         UNCHANGED records
  PROVE  IInv'
<1>. DEFINE n == Len(versions)
            newest == versions[n]
            next == NextVersion(cs, c)
<1>1. /\ n \in Nat \ {0}
      /\ head = [active |-> n, revision |-> n]
      /\ \A i \in 1..n : versions[i] \in Version /\ versions[i].number = i
                         /\ versions[i].snapshot \in Snapshots
      /\ versions \in Seq(Version) /\ live \in Snapshots
      /\ changeSets \in [ChangeIds -> ChangeSet]
      /\ records \in [RecordIds -> RecordSet]
  BY HeadIsNewest DEF IInv, TypeOK
<1>2. cs.base = n
  BY <1>1 DEF Applicable, Stale
<1>3. next = [number |-> n + 1, kind |-> cs.kind, parent |-> n, restored |-> cs.target,
              source |-> c, snapshot |-> cs.candidate]
  BY <1>1, <1>2 DEF NextVersion
<1>4. next \in Version
  BY <1>1, <1>3 DEF ChangeSet, Version
<1>. HIDE DEF next
<1>5. /\ versions' \in Seq(Version) /\ Len(versions') = n + 1
      /\ \A i \in 1..n : versions'[i] = versions[i]
      /\ versions'[n + 1] = next
  BY <1>1, <1>4 DEF Publish, next
<1>6. /\ head' = [active |-> n + 1, revision |-> n + 1]
      /\ live' = cs.candidate
  BY <1>1 DEF Publish, NextHead
<1>7. /\ changeSets' \in [ChangeIds -> ChangeSet]
      /\ \A d \in ChangeIds \ {c} : changeSets'[d] = changeSets[d]
      /\ changeSets'[c] = [cs EXCEPT !.status = "applied", !.applied = n + 1]
  <2>1. [cs EXCEPT !.status = "applied", !.applied = n + 1] \in ChangeSet
    <3>1. n + 1 \in Nat /\ "applied" \in Statuses
      BY <1>1 DEF Statuses
    <3>. HIDE DEF n
    <3>. QED BY <3>1, Zenon DEF ChangeSet
  <2>. QED BY <1>1, <2>1 DEF Publish
<1>8. /\ changeSets'[c].status = "applied" /\ changeSets'[c].applied = n + 1
      /\ changeSets'[c].base = n /\ changeSets'[c].kind = cs.kind
      /\ changeSets'[c].candidate = cs.candidate
  BY <1>2, <1>7 DEF ChangeSet
<1>9. TypeOK'
  BY <1>1, <1>5, <1>6, <1>7 DEF TypeOK, ChangeSet
<1>10. HistoryLinear'
  BY <1>1, <1>3, <1>5, <1>6 DEF IInv, HistoryLinear
<1>11. LiveMatchesHead'
  BY <1>3, <1>5, <1>6 DEF LiveMatchesHead, InSync, Active
<1>12. AppliedIsPublished'
  <2>1. \A i \in 2..n : versions[i].source # c
    BY <1>1 DEF IInv, AppliedIsPublished
  <2>2. c # None
    BY ConfigurationAssumption
  <2>3. \A i \in 2..n : versions[i].source \in ChangeIds
    BY <1>1 DEF Version, IInv, AppliedIsPublished
  <2>4. ASSUME NEW i \in 2..(n + 1)
        PROVE  LET ds == changeSets'[versions'[i].source] IN
                 /\ versions'[i].source # None
                 /\ ds.status = "applied" /\ ds.applied = i
                 /\ ds.base = i - 1 /\ ds.kind = versions'[i].kind
                 /\ ds.candidate = versions'[i].snapshot
    <3>1. CASE i = n + 1
      BY <1>1, <1>3, <1>5, <1>8, <2>2, <3>1
    <3>2. CASE i # n + 1
      <4>1. i \in 2..n /\ versions'[i] = versions[i]
        BY <1>1, <1>5, <3>2
      <4>2. changeSets'[versions[i].source] = changeSets[versions[i].source]
        BY <1>7, <2>1, <2>3, <4>1
      <4>. QED BY <4>1, <4>2 DEF IInv, AppliedIsPublished
    <3>. QED BY <3>1, <3>2
  <2>5. ASSUME NEW d \in ChangeIds, changeSets'[d].status = "applied"
        PROVE  /\ changeSets'[d].applied \in 2..(n + 1)
               /\ versions'[changeSets'[d].applied].source = d
    <3>1. CASE d = c
      BY <1>1, <1>3, <1>5, <1>8, <3>1
    <3>2. CASE d # c
      BY <1>1, <1>5, <1>7, <2>5, <3>2 DEF IInv, AppliedIsPublished
    <3>. QED BY <3>1, <3>2
  <2>. QED BY <1>5, <2>4, <2>5 DEF AppliedIsPublished
<1>13. \A x \in Entities : Present(newest.snapshot, x) => next.snapshot[x].id = newest.snapshot[x].id
  BY <1>2, <1>3, CandidateKeepsIds DEF Applicable
<1>14. IdentityStable'
  <2>. SUFFICES ASSUME NEW i \in 1..(n + 1), NEW j \in 1..(n + 1), NEW x \in Entities,
                       i <= j, Present(versions'[i].snapshot, x)
                PROVE  versions'[j].snapshot[x].id = versions'[i].snapshot[x].id
    BY <1>5 DEF IdentityStable, Present
  <2>1. CASE j # n + 1
    BY <1>1, <1>5, <2>1 DEF IInv, IdentityStable
  <2>2. CASE j = n + 1 /\ i = n + 1
    BY <2>2
  <2>3. CASE j = n + 1 /\ i # n + 1
    <3>1. i \in 1..n /\ n \in 1..n /\ i <= n /\ Present(versions[i].snapshot, x)
      BY <1>1, <1>5, <2>3
    <3>2. newest.snapshot[x].id = versions[i].snapshot[x].id
      BY <3>1 DEF IInv, IdentityStable
    <3>3. Present(newest.snapshot, x)
      BY <3>1, <3>2 DEF Present
    <3>. QED BY <1>5, <1>13, <2>3, <3>1, <3>2, <3>3
  <2>. QED BY <2>1, <2>2, <2>3
<1>15. OpenChangesBased' /\ OpenChangesReplay'
  <2>. SUFFICES ASSUME NEW d \in ChangeIds, changeSets'[d].status \in OpenStatuses
                PROVE  Based(changeSets[d])' /\ Replays(changeSets[d], d)'
    BY DEF OpenChangesBased, OpenChangesReplay
  <2>1. d # c
    BY <1>8 DEF OpenStatuses
  <2>2. changeSets'[d] = changeSets[d]
    BY <1>7, <2>1
  <2>3. Based(changeSets[d]) /\ Replays(changeSets[d], d)
    BY <2>2 DEF IInv, OpenChangesBased, OpenChangesReplay
  <2>4. /\ versions'[changeSets[d].base] = versions[changeSets[d].base]
        /\ changeSets[d].kind = "rollback" =>
             versions'[changeSets[d].target] = versions[changeSets[d].target]
    BY <1>5, <2>3 DEF Based
  <2>5. Based(changeSets[d])'
    BY <1>1, <1>5, <2>2, <2>3 DEF Based
  <2>6. Replays(changeSets[d], d)'
    BY <2>2, <2>3, <2>4 DEF Replays, Replay
  <2>. QED BY <2>5, <2>6
<1>16. TxnsIsolated'
  <2>. SUFFICES ASSUME NEW s \in Sessions, txn'[s].pc # "idle"
                PROVE  /\ txn'[s].change \in ChangeIds
                       /\ changeSets'[txn'[s].change].status = "none"
                       /\ Based(txn[s].cs)'
                       /\ \A other \in Sessions \ {s} :
                            txn'[other].pc # "idle" => txn'[other].change # txn'[s].change
    BY DEF TxnsIsolated
  <2>1. txn'[s] = txn[s] /\ txn[s].change # c
    OBVIOUS
  <2>2. /\ txn[s].change \in ChangeIds /\ changeSets[txn[s].change].status = "none"
        /\ Based(txn[s].cs)
    BY <2>1 DEF IInv, TxnsIsolated
  <2>3. Based(txn[s].cs)'
    BY <1>1, <1>5, <2>1, <2>2 DEF Based
  <2>. QED BY <1>7, <2>1, <2>2, <2>3 DEF IInv, TxnsIsolated
<1>17. BlankRecords'
  BY DEF IInv, BlankRecords
<1>18. RecordsFitLive'
  <2>. SUFFICES ASSUME NEW r \in RecordIds PROVE Fits(records[r], live')
    BY DEF RecordsFitLive
  <2>1. CASE records[r].table # None
    BY <1>6, <2>1 DEF Publish, Compatible
  <2>2. CASE records[r].table = None
    BY <2>2 DEF IInv, BlankRecords, Fits, NoRecord
  <2>. QED BY <2>1, <2>2
<1>19. ASSUME NEW i \in 1..(n + 1), versions'[i].kind = "rollback"
       PROVE  /\ versions'[i].restored \in 1..(i - 1)
              /\ \A x \in Entities :
                   LET target == versions'[versions'[i].restored].snapshot IN
                     IF Present(target, x)
                     THEN versions'[i].snapshot[x] = target[x]
                     ELSE ~versions'[i].snapshot[x].active
  <2>1. CASE i = n + 1
    <3>1. cs.kind = "rollback" /\ cs.target \in 1..n
      BY <1>3, <1>5, <1>19, <2>1 DEF Based
    <3>2. /\ cs.candidate = RollbackCandidate(newest.snapshot, versions[cs.target].snapshot)
          /\ cs.target < n
      BY <1>1, <1>2, <3>1 DEF Applicable, Replays, Replay
    <3>3. ASSUME NEW x \in Entities
          PROVE  IF Present(versions[cs.target].snapshot, x)
                 THEN cs.candidate[x] = versions[cs.target].snapshot[x]
                 ELSE ~cs.candidate[x].active
      <4>1. newest.snapshot[x] \in Entity
        BY <1>1 DEF Snapshots
      <4>. QED BY <3>2, <4>1 DEF RollbackCandidate, Entity
    <3>. QED BY <1>1, <1>3, <1>5, <2>1, <3>1, <3>2, <3>3
  <2>2. CASE i # n + 1
    <3>1. i \in 1..n /\ versions'[i] = versions[i]
      BY <1>1, <1>5, <2>2
    <3>2. versions[i].restored \in 1..(i - 1)
      BY <1>19, <3>1 DEF IInv, RollbackRestores
    <3>3. versions'[versions[i].restored] = versions[versions[i].restored]
      BY <1>1, <1>5, <3>1, <3>2
    <3>. QED BY <1>19, <3>1, <3>2, <3>3 DEF IInv, RollbackRestores
  <2>. QED BY <2>1, <2>2
<1>20. RollbackRestores'
  BY <1>5, <1>19 DEF RollbackRestores, Present
<1>. QED
  BY <1>9, <1>10, <1>11, <1>12, <1>14, <1>15, <1>16, <1>17, <1>18, <1>20 DEF IInv

-------------------------------------------------------------------------------
(* Each action is one of the four kinds of step.                            *)

\* Setting a status keeps everything else of a change set.
LEMMA SetStatusStep ==
  ASSUME IInv, NEW c \in ChangeIds, changeSets[c].status \in OpenStatuses,
         NEW status \in {"validated", "rejected", "conflicted", "abandoned"},
         SetStatus(c, status),
         UNCHANGED <<versions, head, live, records, txn>>
  PROVE  IInv'
<1>. DEFINE old == changeSets[c]
            cs == [old EXCEPT !.status = status]
<1>1. old \in ChangeSet
  BY DEF IInv, TypeOK
<1>2. cs \in ChangeSet
  BY <1>1 DEF ChangeSet, Statuses
<1>3. changeSets' = [changeSets EXCEPT ![c] = cs]
  BY DEF SetStatus
<1>4. /\ cs.status = status /\ cs.base = old.base /\ cs.target = old.target
      /\ cs.kind = old.kind /\ cs.edit = old.edit /\ cs.candidate = old.candidate
  BY <1>1 DEF ChangeSet
<1>5. Based(old) /\ Replays(old, c)
  BY DEF IInv, OpenChangesBased, OpenChangesReplay
<1>. HIDE DEF cs
<1>6. Based(cs)
  BY <1>4, <1>5 DEF Based
<1>7. Replays(cs, c)
  BY <1>4, <1>5 DEF Replays, Replay
<1>8. \A s \in Sessions : txn[s].pc # "idle" => txn[s].change # c
  BY DEF IInv, TxnsIsolated, OpenStatuses
<1>9. cs.status # "applied" /\ old.status # "applied"
  BY <1>4 DEF OpenStatuses
<1>. QED BY <1>2, <1>3, <1>6, <1>7, <1>8, <1>9, ChangeSetStep

\* Giving up a transaction, or validating it, keeps its change set.
LEMMA EndTxnStep ==
  ASSUME IInv, NEW s \in Sessions, EndTxn(s),
         UNCHANGED <<versions, head, live, changeSets, records>>
  PROVE  IInv'
<1>2. txn' = [txn EXCEPT ![s] = NoTxn]
  BY DEF EndTxn
<1>3. NoTxn.pc = "idle"
  BY DEF NoTxn
<1>. QED BY NoTxnType, <1>2, <1>3, TxnStep

LEMMA StartTxnStep ==
  ASSUME IInv, NEW s \in Sessions, NEW c \in ChangeIds, NEW cs \in ChangeSet,
         NEW pc \in {"proposed", "prepared"},
         Unused(c), Based(cs), StartTxn(s, pc, c, cs)
  PROVE  IInv'
<1>. DEFINE t == [pc |-> pc, change |-> c, cs |-> cs]
<1>1. t \in Txn /\ t.pc = pc /\ t.change = c /\ t.cs = cs
  BY DEF Txn
<1>2. txn' = [txn EXCEPT ![s] = t]
  BY DEF StartTxn
<1>3. changeSets[c].status = "none" /\ \A other \in Sessions : txn[other].change # c
  BY DEF Unused
<1>4. UNCHANGED <<versions, head, live, changeSets, records>>
  BY DEF StartTxn
<1>. HIDE DEF t
<1>. QED BY <1>1, <1>2, <1>3, <1>4, TxnStep

LEMMA ReviewStep ==
  ASSUME IInv, NEW c \in ChangeIds, Review(c)
  PROVE  IInv'
<1>1. ASSUME NEW edit \in Edits, ProposeConfigurationChange(c, edit)
      PROVE  IInv'
  <2>. DEFINE cs == Proposal(c, "reviewed", edit)
  <2>1. /\ cs \in ChangeSet /\ cs.status = "proposed" /\ Based(cs) /\ Replays(cs, c)
    BY <1>1, ProposalSound DEF ProposeConfigurationChange
  <2>. HIDE DEF cs
  <2>2. /\ changeSets' = [changeSets EXCEPT ![c] = cs]
        /\ changeSets[c].status = "none" /\ \A s \in Sessions : txn[s].change # c
        /\ UNCHANGED <<versions, head, live, records, txn>>
    BY <1>1 DEF ProposeConfigurationChange, Unused, cs
  <2>. QED BY <2>1, <2>2, ChangeSetStep
<1>2. ASSUME NEW v \in 1..Len(versions), PrepareConfigurationRollback(c, v)
      PROVE  IInv'
  <2>. DEFINE cs == Rollback("reviewed", v)
  <2>1. /\ cs \in ChangeSet /\ cs.status = "proposed" /\ Based(cs) /\ Replays(cs, c)
    BY <1>2, RollbackSound DEF PrepareConfigurationRollback
  <2>. HIDE DEF cs
  <2>2. /\ changeSets' = [changeSets EXCEPT ![c] = cs]
        /\ changeSets[c].status = "none" /\ \A s \in Sessions : txn[s].change # c
        /\ UNCHANGED <<versions, head, live, records, txn>>
    BY <1>2 DEF PrepareConfigurationRollback, Unused, cs
  <2>. QED BY <2>1, <2>2, ChangeSetStep
<1>3. ASSUME ValidateConfigurationChange(c)
      PROVE  IInv'
  <2>1. changeSets[c].status \in OpenStatuses
    BY <1>3 DEF ValidateConfigurationChange, OpenStatuses
  <2>2. PICK status \in {"validated", "rejected", "conflicted"} : SetStatus(c, status)
    BY <1>3 DEF ValidateConfigurationChange
  <2>3. UNCHANGED <<versions, head, live, records, txn>>
    BY <1>3 DEF ValidateConfigurationChange
  <2>. QED BY <2>1, <2>2, <2>3, SetStatusStep
<1>4. ASSUME ApplyConfigurationChange(c)
      PROVE  IInv'
  <2>1. changeSets[c] \in ChangeSet /\ txn \in [Sessions -> Txn]
    BY DEF IInv, TypeOK
  <2>2. changeSets[c].status = "validated" /\ UNCHANGED <<records, txn>>
    BY <1>4 DEF ApplyConfigurationChange
  <2>3. changeSets[c].status \in OpenStatuses
    BY <2>2 DEF OpenStatuses
  <2>4. CASE Applicable(changeSets[c], c) /\ Publish(changeSets[c], c)
    <3>1. Based(changeSets[c])
      BY <2>3 DEF IInv, OpenChangesBased
    <3>2. \A s \in Sessions : txn'[s].pc # "idle" => txn'[s] = txn[s] /\ txn[s].change # c
      BY <2>2 DEF IInv, TxnsIsolated
    <3>. QED BY <2>1, <2>2, <2>4, <3>1, <3>2, PublishStep
  <2>5. CASE \E status \in {"conflicted", "rejected"} :
               SetStatus(c, status) /\ UNCHANGED <<versions, head, live>>
    BY <2>2, <2>3, <2>5, SetStatusStep
  <2>. QED BY <1>4, <2>4, <2>5 DEF ApplyConfigurationChange
<1>5. ASSUME AbandonConfigurationChangeSet(c)
      PROVE  IInv'
  <2>1. /\ changeSets[c].status \in OpenStatuses /\ SetStatus(c, "abandoned")
        /\ UNCHANGED <<versions, head, live, records, txn>>
    BY <1>5 DEF AbandonConfigurationChangeSet, OpenStatuses
  <2>. QED BY <2>1, SetStatusStep
<1>. QED BY <1>1, <1>2, <1>3, <1>4, <1>5 DEF Review

LEMMA SessionStep ==
  ASSUME IInv, NEW s \in Sessions, Begin(s) \/ Continue(s) \/ AbortTxn(s)
  PROVE  IInv'
<1>1. txn[s] \in Txn /\ txn \in [Sessions -> Txn]
  BY DEF IInv, TypeOK
<1>2. txn[s].pc # "idle" =>
        /\ txn[s].change \in ChangeIds
        /\ changeSets[txn[s].change].status = "none"
        /\ Based(txn[s].cs)
        /\ \A other \in Sessions \ {s} :
             txn[other].pc # "idle" => txn[other].change # txn[s].change
  BY DEF IInv, TxnsIsolated
<1>3. ASSUME NEW c \in ChangeIds, NEW action \in DirectActions, NEW edit \in Edits,
             BeginDirect(s, c, action, edit)
      PROVE  IInv'
  <2>. DEFINE cs == Proposal(c, action, edit)
  <2>1. cs \in ChangeSet /\ Based(cs)
    BY <1>3, ProposalSound DEF BeginDirect
  <2>. HIDE DEF cs
  <2>2. Unused(c) /\ StartTxn(s, "proposed", c, cs)
    BY <1>3 DEF BeginDirect, cs
  <2>. QED BY <2>1, <2>2, StartTxnStep
<1>4. ASSUME NEW c \in ChangeIds, BeginUndo(s, c)
      PROVE  IInv'
  <2>. DEFINE cs == Rollback("undo", Active.parent)
  <2>1. Unused(c) /\ StartTxn(s, "prepared", c, cs) /\ Preparable(cs)
    BY <1>4 DEF BeginUndo
  <2>2. Active.parent \in 1..Len(versions)
    <3>1. Active.parent = Len(versions) - 1
      BY HeadIsNewest DEF IInv, HistoryLinear
    <3>2. Active.parent # 0
      BY <1>4 DEF BeginUndo
    <3>. QED BY <3>1, <3>2, HeadIsNewest
  <2>3. cs \in ChangeSet /\ Based(cs)
    BY <2>1, <2>2, RollbackSound
  <2>. HIDE DEF cs
  <2>. QED BY <2>1, <2>3, StartTxnStep
<1>5. ASSUME ValidateInTxn(s)
      PROVE  IInv'
  <2>1. UNCHANGED <<versions, head, live, changeSets, records>> /\ txn[s].pc # "idle"
    BY <1>5 DEF ValidateInTxn
  <2>2. CASE EndTxn(s)
    BY <2>1, <2>2, EndTxnStep
  <2>3. CASE txn' = [txn EXCEPT ![s].pc = "validated"]
    <3>. DEFINE old == txn[s]
                t == [old EXCEPT !.pc = "validated"]
    <3>1. t \in Txn /\ t.change = old.change /\ t.cs = old.cs
      BY <1>1 DEF Txn
    <3>2. txn' = [txn EXCEPT ![s] = t]
      BY <2>3
    <3>. HIDE DEF t
    <3>. QED BY <1>2, <2>1, <3>1, <3>2, TxnStep
  <2>. QED BY <1>5, <2>2, <2>3 DEF ValidateInTxn
<1>6. ASSUME ApplyInTxn(s)
      PROVE  IInv'
  <2>. DEFINE cs == txn[s].cs
              c == txn[s].change
  <2>1. txn[s].pc # "idle" /\ EndTxn(s) /\ UNCHANGED records
    BY <1>6 DEF ApplyInTxn
  <2>2. CASE UNCHANGED <<versions, head, live, changeSets>>
    BY <2>1, <2>2, EndTxnStep
  <2>3. CASE Applicable(cs, c) /\ Publish(cs, c)
    <3>1. cs \in ChangeSet /\ c \in ChangeIds /\ Based(cs)
      BY <1>1, <1>2, <2>1 DEF Txn
    <3>2. changeSets[c].status # "applied"
      BY <1>2, <2>1
    <3>3. txn' \in [Sessions -> Txn]
      BY <1>1, NoTxnType, <2>1 DEF EndTxn
    <3>4. \A other \in Sessions :
            txn'[other].pc # "idle" => txn'[other] = txn[other] /\ txn[other].change # c
      BY <1>1, <1>2, <2>1 DEF EndTxn, NoTxn
    <3>. HIDE DEF cs, c
    <3>. QED BY <2>1, <2>3, <3>1, <3>2, <3>3, <3>4, PublishStep
  <2>. QED BY <1>6, <2>2, <2>3 DEF ApplyInTxn
<1>7. ASSUME DetectDeadlock(s) \/ AbortTxn(s)
      PROVE  IInv'
  <2>1. EndTxn(s) /\ UNCHANGED <<versions, head, live, changeSets, records>>
    BY <1>7 DEF DetectDeadlock, AbortTxn
  <2>. QED BY <2>1, EndTxnStep
<1>. QED BY <1>3, <1>4, <1>5, <1>6, <1>7 DEF Begin, Continue

LEMMA WriteStep ==
  ASSUME IInv, NEW r \in RecordIds, WriteRecord(r)
  PROVE  IInv'
<1>1. records \in [RecordIds -> RecordSet] /\ live \in Snapshots
  BY DEF IInv, TypeOK
<1>2. \A c \in Columns : live[c].type \in Types \union {None}
  BY <1>1 DEF Snapshots, Entities, Entity
<1>3. ASSUME NEW t \in Tables, NEW filled \in SUBSET Columns, CreateGraphRecord(r, t, filled)
      PROVE  IInv'
  <2>. DEFINE record == [table |-> t,
                         data  |-> [c \in Columns |-> IF c \in filled THEN live[c].type ELSE None]]
  <2>1. record \in RecordSet /\ record.table # None
    BY <1>2, ConfigurationAssumption DEF RecordSet
  <2>2. Fits(record, live)
    BY <1>3 DEF Fits, CreateGraphRecord, WritableColumns
  <2>3. /\ records' = [records EXCEPT ![r] = record]
        /\ UNCHANGED <<versions, head, live, changeSets, txn>>
    BY <1>3 DEF CreateGraphRecord
  <2>. HIDE DEF record
  <2>. QED BY <2>1, <2>2, <2>3, RecordStep
<1>4. ASSUME NEW c \in Columns, UpdateGraphRecord(r, c)
      PROVE  IInv'
  <2>. DEFINE old == records[r]
  <2>1. PICK value \in {live[c].type, None} : records' = [records EXCEPT ![r].data[c] = value]
    BY <1>4 DEF UpdateGraphRecord
  <2>. DEFINE record == [old EXCEPT !.data[c] = value]
  <2>2. old \in RecordSet /\ value \in Types \union {None}
    BY <1>1, <1>2, <2>1
  <2>3. record \in RecordSet /\ record.table = old.table
    BY <2>2 DEF RecordSet
  <2>4. records' = [records EXCEPT ![r] = record] /\ records'[r] = record
    BY <1>1, <2>1
  <2>5. old.table # None
    BY <1>4, ConfigurationAssumption DEF UpdateGraphRecord, WritableColumns, Columns
  <2>6. Fits(record, live) /\ UNCHANGED <<versions, head, live, changeSets, txn>>
    BY <1>4, <2>4 DEF UpdateGraphRecord
  <2>. HIDE DEF record, old
  <2>. QED BY <2>3, <2>4, <2>5, <2>6, RecordStep
<1>. QED BY <1>3, <1>4 DEF WriteRecord

-------------------------------------------------------------------------------
(* The safety theorems.                                                     *)

LEMMA StutterStep == IInv /\ UNCHANGED vars => IInv'
<1>. SUFFICES ASSUME IInv, UNCHANGED vars PROVE IInv'
  OBVIOUS
<1>1. UNCHANGED <<versions, head, live, changeSets, records>> /\ txn' = txn
  BY DEF vars
<1>2. (TypeOK /\ HistoryLinear /\ LiveMatchesHead)'
  BY <1>1 DEF IInv, TypeOK, HistoryLinear, LiveMatchesHead, InSync, Active
<1>3. (AppliedIsPublished /\ IdentityStable)'
  BY <1>1 DEF IInv, AppliedIsPublished, IdentityStable
<1>4. (OpenChangesBased /\ OpenChangesReplay /\ TxnsIsolated)'
  BY <1>1 DEF IInv, OpenChangesBased, Based, OpenChangesReplay, Replays, Replay, TxnsIsolated
<1>5. (BlankRecords /\ RecordsFitLive)'
  BY <1>1 DEF IInv, BlankRecords, RecordsFitLive
<1>6. RollbackRestores'
  BY <1>1 DEF IInv, RollbackRestores
<1>. QED BY <1>2, <1>3, <1>4, <1>5, <1>6 DEF IInv

\* IInv holds in every reachable state of the lifecycle.
THEOREM Invariance == Spec => []IInv
<1>1. IInv /\ [Next]_vars => IInv'
  <2>. SUFFICES ASSUME IInv, [Next]_vars PROVE IInv'
    OBVIOUS
  <2>1. ASSUME NEW c \in ChangeIds, Review(c) PROVE IInv'
    BY <2>1, ReviewStep
  <2>2. ASSUME NEW s \in Sessions, Begin(s) \/ Continue(s) \/ AbortTxn(s) PROVE IInv'
    BY <2>2, SessionStep
  <2>3. ASSUME NEW r \in RecordIds, WriteRecord(r) PROVE IInv'
    BY <2>3, WriteStep
  <2>4. CASE UNCHANGED vars
    BY <2>4, StutterStep
  <2>. QED BY <2>1, <2>2, <2>3, <2>4 DEF Next
<1>. QED BY InitInvariant, <1>1, PTL DEF Spec

\* Every variable keeps its type.
THEOREM TypeCorrect == Spec => []TypeOK
<1>1. IInv => TypeOK
  BY DEF IInv
<1>. QED BY Invariance, <1>1, PTL

\* Publications form one line: no lost update, whatever sessions interleave.
THEOREM LinearHistory == Spec => [](HistoryLinear /\ AppliedIsPublished /\ LiveMatchesHead)
<1>1. IInv => HistoryLinear /\ AppliedIsPublished /\ LiveMatchesHead
  BY DEF IInv
<1>. QED BY Invariance, <1>1, PTL

\* Identities survive every change, rollback and Undo.
THEOREM StableIdentities == Spec => []IdentityStable
<1>1. IInv => IdentityStable
  BY DEF IInv
<1>. QED BY Invariance, <1>1, PTL

\* A rollback or an Undo, published however much later, gives what its target holds.
THEOREM RestoringRollback == Spec => []RollbackRestores
<1>1. IInv => RollbackRestores
  BY DEF IInv
<1>. QED BY Invariance, <1>1, PTL

\* A reviewed change never fails its replay, so it is applied, refused for its
\* records or found out of date, and nothing else.
THEOREM ReplayNeverFails == Spec => []OpenChangesReplay
<1>1. IInv => OpenChangesReplay
  BY DEF IInv
<1>. QED BY Invariance, <1>1, PTL

\* Records fit the live fields, although they are written under no head lock.
THEOREM RecordsStayValid == Spec => []RecordsFitLive
<1>1. IInv => RecordsFitLive
  BY DEF IInv
<1>. QED BY Invariance, <1>1, PTL

-------------------------------------------------------------------------------
(***************************************************************************)
(* What a step of the lifecycle may do: the action properties and the      *)
(* implementation of ConfigurationHistory, from the invariant above.       *)
(***************************************************************************)
-------------------------------------------------------------------------------
(* Every step is quiet, moves one change set, or publishes one.             *)

Quiet == UNCHANGED <<versions, head, live, changeSets>>

\* A change set that is not published starts, is validated or is closed.
Reviews(c) ==
  /\ UNCHANGED <<versions, head, live, txn>>
  /\ \E cs \in ChangeSet :
       /\ changeSets' = [changeSets EXCEPT ![c] = cs]
       /\ MovesOn(changeSets[c], cs)
       /\ changeSets[c].status = "none" =>
            cs.status = "proposed" /\ Based(cs) /\ Replays(cs, c) /\ ~Stale(cs)
       /\ changeSets[c].status # "none" => changeSets[c].status \in OpenStatuses

\* A change set under review, or in a transaction that ends, is published.
Publishes(cs, c) ==
  /\ Applicable(cs, c) /\ Publish(cs, c) /\ Based(cs)
  /\ \/ cs = changeSets[c] /\ cs.status = "validated" /\ txn' = txn
     \/ changeSets[c].status = "none" /\
        \E s \in Sessions : txn[s].change = c /\ txn' = [txn EXCEPT ![s] = NoTxn]

LEMMA SetStatusReviews ==
  ASSUME IInv, NEW c \in ChangeIds,
         NEW status \in {"validated", "rejected", "conflicted", "abandoned"},
         MayBecome(changeSets[c].status, status), SetStatus(c, status),
         changeSets[c].status \in OpenStatuses,
         UNCHANGED <<versions, head, live, txn>>
  PROVE  Reviews(c)
<1>. DEFINE old == changeSets[c]
            cs == [old EXCEPT !.status = status]
<1>1. old \in ChangeSet
  BY DEF IInv, TypeOK
<1>2. cs \in ChangeSet /\ cs.status = status /\ cs.applied = old.applied
  BY <1>1 DEF ChangeSet, Statuses
<1>3. cs = [old EXCEPT !.status = cs.status, !.applied = cs.applied]
  BY <1>1, <1>2 DEF ChangeSet
<1>4. changeSets' = [changeSets EXCEPT ![c] = cs]
  BY DEF SetStatus
<1>. HIDE DEF cs
<1>5. MovesOn(old, cs)
  BY <1>2, <1>3 DEF MovesOn
<1>. QED BY <1>2, <1>4, <1>5 DEF Reviews, OpenStatuses

LEMMA ReviewIs ==
  ASSUME IInv, NEW c \in ChangeIds, Review(c)
  PROVE  Reviews(c) \/ (Publishes(changeSets[c], c) /\ changeSets[c] \in ChangeSet)
<1>1. ASSUME NEW cs \in ChangeSet, cs.status = "proposed", Based(cs), Replays(cs, c), ~Stale(cs),
             Unused(c), changeSets' = [changeSets EXCEPT ![c] = cs],
             UNCHANGED <<versions, head, live, records, txn>>
      PROVE  Reviews(c)
  <2>1. MovesOn(changeSets[c], cs) /\ changeSets[c].status = "none"
    BY <1>1 DEF MovesOn, MayBecome, Unused, OpenStatuses
  <2>. QED BY <1>1, <2>1 DEF Reviews
<1>2. ASSUME NEW edit \in Edits, ProposeConfigurationChange(c, edit)
      PROVE  Reviews(c)
  <2>. DEFINE cs == Proposal(c, "reviewed", edit)
  <2>1. /\ cs \in ChangeSet /\ cs.status = "proposed" /\ Based(cs) /\ Replays(cs, c)
    BY <1>2, ProposalSound DEF ProposeConfigurationChange
  <2>2. ~Stale(cs)
    BY DEF Stale, Proposal, NewChange
  <2>. HIDE DEF cs
  <2>. QED BY <1>1, <1>2, <2>1, <2>2 DEF ProposeConfigurationChange, cs
<1>3. ASSUME NEW v \in 1..Len(versions), PrepareConfigurationRollback(c, v)
      PROVE  Reviews(c)
  <2>. DEFINE cs == Rollback("reviewed", v)
  <2>1. /\ cs \in ChangeSet /\ cs.status = "proposed" /\ Based(cs) /\ Replays(cs, c)
    BY <1>3, RollbackSound DEF PrepareConfigurationRollback
  <2>2. ~Stale(cs)
    BY DEF Stale, Rollback, NewChange
  <2>. HIDE DEF cs
  <2>. QED BY <1>1, <1>3, <2>1, <2>2 DEF PrepareConfigurationRollback, cs
<1>4. ASSUME ValidateConfigurationChange(c)
      PROVE  Reviews(c)
  <2>1. PICK status \in {"validated", "rejected", "conflicted"} : SetStatus(c, status)
    BY <1>4 DEF ValidateConfigurationChange
  <2>. QED
    BY <1>4, <2>1, SetStatusReviews DEF ValidateConfigurationChange, MayBecome, OpenStatuses
<1>5. ASSUME ApplyConfigurationChange(c)
      PROVE  Reviews(c) \/ (Publishes(changeSets[c], c) /\ changeSets[c] \in ChangeSet)
  <2>1. changeSets[c].status = "validated" /\ txn' = txn /\ changeSets[c] \in ChangeSet
    BY <1>5 DEF ApplyConfigurationChange, IInv, TypeOK
  <2>2. CASE Applicable(changeSets[c], c) /\ Publish(changeSets[c], c)
    <3>1. Based(changeSets[c])
      BY <2>1 DEF IInv, OpenChangesBased, OpenStatuses
    <3>. QED BY <2>1, <2>2, <3>1 DEF Publishes
  <2>3. CASE \E status \in {"conflicted", "rejected"} :
               SetStatus(c, status) /\ UNCHANGED <<versions, head, live>>
    BY <2>1, <2>3, SetStatusReviews DEF MayBecome, OpenStatuses
  <2>. QED BY <1>5, <2>2, <2>3 DEF ApplyConfigurationChange
<1>6. ASSUME AbandonConfigurationChangeSet(c)
      PROVE  Reviews(c)
  BY <1>6, SetStatusReviews DEF AbandonConfigurationChangeSet, MayBecome, OpenStatuses
<1>. QED BY <1>2, <1>3, <1>4, <1>5, <1>6 DEF Review

LEMMA SessionIs ==
  ASSUME IInv, NEW s \in Sessions, Begin(s) \/ Continue(s) \/ AbortTxn(s)
  PROVE  \/ Quiet
         \/ /\ txn[s].change \in ChangeIds /\ txn[s].cs \in ChangeSet
            /\ Publishes(txn[s].cs, txn[s].change)
<1>1. CASE Begin(s)
  BY <1>1 DEF Begin, BeginDirect, BeginUndo, StartTxn, Quiet
<1>2. CASE ValidateInTxn(s) \/ DetectDeadlock(s) \/ AbortTxn(s)
  BY <1>2 DEF ValidateInTxn, DetectDeadlock, AbortTxn, Quiet
<1>3. CASE ApplyInTxn(s)
  <2>1. /\ txn[s].pc # "idle" /\ txn' = [txn EXCEPT ![s] = NoTxn]
        /\ Quiet \/ (Applicable(txn[s].cs, txn[s].change) /\ Publish(txn[s].cs, txn[s].change))
    BY <1>3 DEF ApplyInTxn, EndTxn, Quiet
  <2>2. txn[s].change \in ChangeIds /\ changeSets[txn[s].change].status = "none" /\ Based(txn[s].cs)
    BY <2>1 DEF IInv, TxnsIsolated
  <2>3. txn[s].cs \in ChangeSet
    BY DEF IInv, TypeOK, Txn
  <2>. QED BY <2>1, <2>2, <2>3 DEF Publishes
<1>. QED BY <1>1, <1>2, <1>3 DEF Continue

LEMMA StepIs ==
  ASSUME IInv, [Next]_vars
  PROVE  \/ Quiet
         \/ \E c \in ChangeIds : Reviews(c)
         \/ \E c \in ChangeIds, cs \in ChangeSet : Publishes(cs, c)
<1>1. ASSUME NEW r \in RecordIds, WriteRecord(r) PROVE Quiet
  BY <1>1 DEF WriteRecord, CreateGraphRecord, UpdateGraphRecord, Quiet
<1>2. CASE UNCHANGED vars
  BY <1>2 DEF vars, Quiet
<1>. QED BY <1>1, <1>2, ReviewIs, SessionIs DEF Next

\* What publishing does, field by field.
LEMMA PublishDoes ==
  ASSUME IInv, NEW c \in ChangeIds, NEW cs \in ChangeSet, Publishes(cs, c)
  PROVE  /\ cs.base = Len(versions)
         /\ versions' = Append(versions, NextVersion(cs, c))
         /\ Len(versions') = Len(versions) + 1
         /\ \A i \in 1..Len(versions) : versions'[i] = versions[i]
         /\ versions'[Len(versions) + 1] = NextVersion(cs, c)
         /\ versions'[Len(versions) + 1].snapshot = cs.candidate
         /\ live' = cs.candidate
         /\ head'.active = Len(versions) + 1
         /\ changeSets' = [changeSets EXCEPT ![c] =
              [cs EXCEPT !.status = "applied", !.applied = Len(versions) + 1]]
         /\ changeSets'[c].status = "applied"
         /\ changeSets[c].status \in {"none", "validated"}
<1>1. /\ versions \in Seq(Version) /\ Len(versions) \in Nat \ {0}
      /\ head = [active |-> Len(versions), revision |-> Len(versions)]
      /\ changeSets \in [ChangeIds -> ChangeSet]
  BY HeadIsNewest DEF IInv, TypeOK
<1>2. cs.base = Len(versions)
  BY <1>1 DEF Publishes, Applicable, Stale
<1>. DEFINE next == NextVersion(cs, c)
<1>3. next \in Version /\ next.snapshot = cs.candidate
  BY <1>2, HeadIsNewest DEF NextVersion, Version, ChangeSet
<1>. HIDE DEF next
<1>4. versions' = Append(versions, next)
  BY DEF Publishes, Publish, next
<1>5. /\ Len(versions') = Len(versions) + 1
      /\ \A i \in 1..Len(versions) : versions'[i] = versions[i]
      /\ versions'[Len(versions) + 1] = next
  BY <1>1, <1>3, <1>4
<1>6. /\ live' = cs.candidate /\ head'.active = Len(versions) + 1
      /\ changeSets' = [changeSets EXCEPT ![c] =
           [cs EXCEPT !.status = "applied", !.applied = Len(versions) + 1]]
  BY <1>1 DEF Publishes, Publish, NextHead
<1>7. [cs EXCEPT !.status = "applied", !.applied = Len(versions) + 1].status = "applied"
  BY DEF ChangeSet
<1>8. changeSets'[c].status = "applied"
  BY <1>1, <1>6, <1>7
<1>9. changeSets[c].status \in {"none", "validated"}
  BY DEF Publishes
<1>. QED BY <1>2, <1>3, <1>4, <1>5, <1>6, <1>8, <1>9 DEF next

-------------------------------------------------------------------------------
(* The action properties.                                                   *)

LEMMA LifecycleMoves == IInv /\ [Next]_vars => LifecycleStep
<1>. SUFFICES ASSUME IInv, [Next]_vars PROVE LifecycleStep
  OBVIOUS
<1>1. changeSets \in [ChangeIds -> ChangeSet] /\ Len(versions) \in Nat
  BY HeadIsNewest DEF IInv, TypeOK
<1>2. \A d \in ChangeIds : changeSets'[d] = changeSets[d] => MovesOn(changeSets[d], changeSets'[d])
  BY <1>1 DEF MovesOn, ChangeSet
<1>3. CASE Quiet
  BY <1>2, <1>3 DEF Quiet, LifecycleStep
<1>4. ASSUME NEW c \in ChangeIds, Reviews(c) PROVE LifecycleStep
  <2>1. PICK cs \in ChangeSet : changeSets' = [changeSets EXCEPT ![c] = cs]
                                /\ MovesOn(changeSets[c], cs)
    BY <1>4 DEF Reviews
  <2>2. \A d \in ChangeIds : MovesOn(changeSets[d], changeSets'[d])
    BY <1>1, <1>2, <2>1
  <2>3. UNCHANGED versions
    BY <1>4 DEF Reviews
  <2>. QED BY <2>2, <2>3 DEF LifecycleStep
<1>5. ASSUME NEW c \in ChangeIds, NEW cs \in ChangeSet, Publishes(cs, c) PROVE LifecycleStep
  <2>1. /\ Len(versions') = Len(versions) + 1
        /\ \A i \in 1..Len(versions) : versions'[i] = versions[i]
        /\ changeSets' = [changeSets EXCEPT ![c] =
             [cs EXCEPT !.status = "applied", !.applied = Len(versions) + 1]]
    BY <1>5, PublishDoes
  <2>. DEFINE new == [cs EXCEPT !.status = "applied", !.applied = Len(versions) + 1]
  <2>2. new.status = "applied" /\ new.applied = Len(versions) + 1
    BY DEF ChangeSet
  <2>5. MovesOn(changeSets[c], new)
    <3>1. CASE changeSets[c].status = "none"
      <4>. HIDE DEF new
      <4>1. MayBecome(changeSets[c].status, new.status)
        BY <2>2, <3>1 DEF MayBecome
      <4>2. changeSets[c].status \in OpenStatuses \union {"none"}
        BY <3>1
      <4>. QED BY <3>1, <4>1, <4>2, Zenon DEF MovesOn
    <3>2. CASE cs = changeSets[c] /\ cs.status = "validated"
      <4>1. new = [changeSets[c] EXCEPT !.status = new.status, !.applied = new.applied]
        BY <2>2, <3>2
      <4>. HIDE DEF new
      <4>2. MayBecome(changeSets[c].status, new.status)
        BY <2>2, <3>2 DEF MayBecome
      <4>3. changeSets[c].status \in OpenStatuses \union {"none"}
        BY <3>2 DEF OpenStatuses
      <4>. QED BY <4>1, <4>2, <4>3, Zenon DEF MovesOn
    <3>. QED BY <1>5, <3>1, <3>2 DEF Publishes
  <2>. HIDE DEF new
  <2>6. \A d \in ChangeIds : changeSets'[d] = IF d = c THEN new ELSE changeSets[d]
    BY <1>1, <2>1 DEF new
  <2>7. \A d \in ChangeIds : MovesOn(changeSets[d], changeSets'[d])
    BY <1>2, <2>5, <2>6
  <2>. QED BY <1>1, <2>1, <2>7 DEF LifecycleStep
<1>. QED BY <1>3, <1>4, <1>5, StepIs

\* A closed change set, a reviewed payload and a version never change.
THEOREM LifecycleForward == Spec => ChangeSetLifecycle
BY Invariance, LifecycleMoves, PTL DEF Spec, ChangeSetLifecycle

LEMMA DirectStep == IInv /\ [Next]_vars => AllOrNothingStep
<1>. SUFFICES ASSUME IInv, [Next]_vars, NEW s \in Sessions,
                     txn[s].pc # "idle", txn'[s].pc = "idle"
              PROVE  \/ Quiet
                     \/ /\ Len(versions') = Len(versions) + 1
                        /\ versions' = Append(versions, versions'[Len(versions) + 1])
                        /\ live' = versions'[Len(versions) + 1].snapshot
                        /\ head'.active = Len(versions) + 1
                        /\ changeSets'[txn[s].change].status = "applied"
  BY DEF AllOrNothingStep, Quiet
<1>1. txn \in [Sessions -> Txn] /\ versions \in Seq(Version)
  BY DEF IInv, TypeOK
<1>2. ASSUME NEW c \in ChangeIds, Reviews(c) PROVE FALSE
  BY <1>2 DEF Reviews
<1>3. ASSUME NEW c \in ChangeIds, NEW cs \in ChangeSet, Publishes(cs, c)
      PROVE  /\ Len(versions') = Len(versions) + 1
             /\ versions' = Append(versions, versions'[Len(versions) + 1])
             /\ live' = versions'[Len(versions) + 1].snapshot
             /\ head'.active = Len(versions) + 1
             /\ changeSets'[txn[s].change].status = "applied"
  <2>1. txn[s].change = c
    BY <1>1, <1>3 DEF Publishes
  <2>. QED BY <1>3, <2>1, PublishDoes
<1>. QED BY <1>2, <1>3, StepIs

\* A direct change or Undo publishes in full or leaves no trace.
THEOREM DirectIsAtomic == Spec => AllOrNothing
BY Invariance, DirectStep, PTL DEF Spec, AllOrNothing

-------------------------------------------------------------------------------
(* The implementation of ConfigurationHistory.                              *)

LEMMA InitMaps == Init => Promise!Start
<1>. SUFFICES ASSUME Init PROVE Promise!Start
  OBVIOUS
<1>1. live \in Snapshots
  BY ConfigurationAssumption DEF Init
<1>2. Published = <<live>>
  BY DEF Init, Published
<1>3. UnderReview = {}
  BY DEF Init, UnderReview, NoChange, OpenStatuses
<1>. QED BY <1>1, <1>2, <1>3 DEF Promise!Start

\* The entry of a change set under review.
Entry(c, cs) == [change |-> c, base |-> cs.base, candidate |-> cs.candidate]

\* A candidate on the newest version may follow it.
LEMMA CandidateMayFollow ==
  ASSUME IInv, NEW c \in ChangeIds, NEW cs \in ChangeSet, Based(cs), Replays(cs, c),
         cs.base = Len(versions)
  PROVE  Len(Published) = Len(versions) /\ Promise!MayFollow(cs.candidate)
<1>1. Len(versions) \in Nat \ {0}
  BY HeadIsNewest
<1>2. Len(Published) = Len(versions) /\ Published[Len(versions)] = versions[Len(versions)].snapshot
  BY <1>1 DEF Published
<1>3. cs.candidate \in Snapshots /\ cs.candidate # versions[Len(versions)].snapshot
  BY DEF ChangeSet, Based
<1>4. Promise!KeepsIdentities(versions[Len(versions)].snapshot, cs.candidate)
  BY CandidateKeepsIds DEF Promise!KeepsIdentities, Present
<1>. QED BY <1>2, <1>3, <1>4 DEF Promise!MayFollow

LEMMA QuietMaps == Quiet => UNCHANGED Promise!hvars
BY DEF Quiet, Promise!hvars, Published, UnderReview

LEMMA ReviewMaps ==
  ASSUME IInv, NEW c \in ChangeIds, Reviews(c)
  PROVE  [Promise!Advance]_(Promise!hvars)
<1>1. changeSets \in [ChangeIds -> ChangeSet]
  BY DEF IInv, TypeOK
<1>2. PICK cs \in ChangeSet :
        /\ changeSets' = [changeSets EXCEPT ![c] = cs]
        /\ MovesOn(changeSets[c], cs)
        /\ changeSets[c].status = "none" =>
             cs.status = "proposed" /\ Based(cs) /\ Replays(cs, c) /\ ~Stale(cs)
        /\ changeSets[c].status # "none" => changeSets[c].status \in OpenStatuses
  BY DEF Reviews
<1>3. UNCHANGED Published
  BY DEF Reviews, Published
<1>4. \A d \in ChangeIds : changeSets'[d] = IF d = c THEN cs ELSE changeSets[d]
  BY <1>1, <1>2
<1>. DEFINE p == Entry(c, cs)
<1>5. UnderReview = {Entry(d, changeSets[d]) :
                       d \in {e \in ChangeIds : changeSets[e].status \in OpenStatuses}}
  BY DEF UnderReview, Entry
<1>6. UnderReview' = {Entry(d, changeSets'[d]) :
                        d \in {e \in ChangeIds : changeSets'[e].status \in OpenStatuses}}
  BY DEF UnderReview, Entry
<1>7. CASE changeSets[c].status = "none"
  <2>1. cs.base = Len(versions) /\ cs.status \in OpenStatuses
    BY <1>2, <1>7, HeadIsNewest DEF Stale, OpenStatuses
  <2>2. UnderReview' = UnderReview \union {p}
    BY <1>4, <1>5, <1>6, <1>7, <2>1 DEF OpenStatuses
  <2>3. p.base = Len(Published) /\ Promise!MayFollow(p.candidate)
    BY <1>2, <1>7, <2>1, CandidateMayFollow DEF Entry
  <2>4. Promise!Offer(p)
    BY <1>3, <2>2, <2>3 DEF Promise!Offer
  <2>. QED BY <2>2, <2>4 DEF Promise!Advance
<1>8. CASE changeSets[c].status \in OpenStatuses
  <2>1. cs.base = changeSets[c].base /\ cs.candidate = changeSets[c].candidate
    BY <1>1, <1>2, <1>8 DEF MovesOn, OpenStatuses, ChangeSet
  <2>2. Entry(c, changeSets[c]) = p /\ p \in UnderReview
    BY <1>5, <1>8, <2>1 DEF Entry
  <2>3. CASE cs.status \in OpenStatuses
    <3>1. UnderReview' = UnderReview
      BY <1>4, <1>5, <1>6, <1>8, <2>2, <2>3
    <3>. QED BY <1>3, <3>1 DEF Promise!hvars
  <2>4. CASE cs.status \notin OpenStatuses
    <3>1. \A d \in ChangeIds \ {c} : Entry(d, changeSets[d]) # p
      BY DEF Entry
    <3>2. UnderReview' = UnderReview \ {p}
      BY <1>4, <1>5, <1>6, <2>2, <2>4, <3>1
    <3>3. Promise!Close(p)
      BY <1>3, <3>2 DEF Promise!Close
    <3>. QED BY <2>2, <3>3 DEF Promise!Advance
  <2>. QED BY <2>3, <2>4
<1>. QED BY <1>2, <1>7, <1>8

LEMMA PublishMaps ==
  ASSUME IInv, NEW c \in ChangeIds, NEW cs \in ChangeSet, Publishes(cs, c)
  PROVE  Promise!Advance
<1>1. /\ changeSets \in [ChangeIds -> ChangeSet]
      /\ Len(versions) \in Nat \ {0} /\ versions \in Seq(Version)
  BY HeadIsNewest DEF IInv, TypeOK
<1>. DEFINE new == [cs EXCEPT !.status = "applied", !.applied = Len(versions) + 1]
            p == Entry(c, cs)
<1>2. /\ cs.base = Len(versions) /\ Based(cs) /\ Replays(cs, c)
  BY PublishDoes DEF Publishes, Applicable
<1>3. Len(Published) = Len(versions) /\ Promise!MayFollow(cs.candidate)
  BY <1>2, CandidateMayFollow
<1>4. Published' = Append(Published, cs.candidate)
  <2>1. /\ Len(versions') = Len(versions) + 1
        /\ \A i \in 1..Len(versions) : versions'[i] = versions[i]
        /\ versions'[Len(versions) + 1].snapshot = cs.candidate
    BY PublishDoes
  <2>2. Published' = [i \in 1..(Len(versions) + 1) |-> versions'[i].snapshot]
    BY <2>1 DEF Published
  <2>3. Published \in Seq(Snapshots) /\ cs.candidate \in Snapshots
    BY HeadIsNewest DEF Published, ChangeSet
  <2>. QED BY <1>1, <1>3, <2>1, <2>2, <2>3 DEF Published
<1>5. \A d \in ChangeIds : changeSets'[d] = IF d = c THEN changeSets'[c] ELSE changeSets[d]
  BY <1>1, PublishDoes
<1>6. changeSets'[c].status \notin OpenStatuses
  BY PublishDoes DEF OpenStatuses
<1>7. UnderReview = {Entry(d, changeSets[d]) :
                       d \in {e \in ChangeIds : changeSets[e].status \in OpenStatuses}}
  BY DEF UnderReview, Entry
<1>8. UnderReview' = {Entry(d, changeSets'[d]) :
                        d \in {e \in ChangeIds : changeSets'[e].status \in OpenStatuses}}
  BY DEF UnderReview, Entry
<1>9. CASE changeSets[c].status = "none"
  <2>1. UnderReview' = UnderReview
    BY <1>5, <1>6, <1>7, <1>8, <1>9 DEF OpenStatuses
  <2>2. Published'[Len(Published')] = cs.candidate
    BY <1>1, <1>3, <1>4 DEF Published
  <2>3. Promise!PublishAtOnce(cs.candidate)
    BY <1>3, <1>4, <2>1 DEF Promise!PublishAtOnce
  <2>. QED BY <2>2, <2>3 DEF Promise!Advance
<1>10. CASE cs = changeSets[c] /\ cs.status = "validated"
  <2>1. p \in UnderReview
    BY <1>7, <1>10 DEF OpenStatuses
  <2>2. \A d \in ChangeIds \ {c} : Entry(d, changeSets[d]) # p
    BY DEF Entry
  <2>3. UnderReview' = UnderReview \ {p}
    BY <1>5, <1>6, <1>7, <1>8, <1>10, <2>2
  <2>4. p.base = Len(Published) /\ p.candidate = cs.candidate
    BY <1>2, <1>3 DEF Entry
  <2>. HIDE DEF p
  <2>5. Promise!Publish(p)
    BY <1>3, <1>4, <2>3, <2>4 DEF Promise!Publish
  <2>. QED BY <2>1, <2>5 DEF Promise!Advance
<1>. QED BY <1>9, <1>10 DEF Publishes

\* The lifecycle implements ConfigurationHistory: every published snapshot was
\* offered against the one it replaces and keeps its identities.
THEOREM Implementation == Spec => ImplementsHistory
<1>1. IInv /\ [Next]_vars => [Promise!Advance]_(Promise!hvars)
  BY StepIs, QuietMaps, ReviewMaps, PublishMaps
<1>. QED BY InitMaps, Invariance, <1>1, PTL DEF Spec, ImplementsHistory, Promise!History
===============================================================================
