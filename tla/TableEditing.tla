----------------------------- MODULE TableEditing -----------------------------
(***************************************************************************)
(* A Table in the workbench: cells are edited in place, each edit is saved *)
(* at once, and the rows are loaded again when the edits have settled.     *)
(*                                                                         *)
(* Three layers hold the rows: the server, the workspace around the editor *)
(* (what was last loaded) and the editor (what is shown, with edits that   *)
(* are not saved yet on top).  Edits wait in CellWriteQueue for each       *)
(* other; every call of the page, an edit's included, waits in the         *)
(* router's queue.                                                         *)
(*                                                                         *)
(* A value stands for the moment it was entered: later ones are larger.    *)
(***************************************************************************)
EXTENDS Naturals, Sequences

CONSTANTS
    Rows, Columns,
    MaxEntries,     \* bound: values entered, by anyone
    MaxCalls        \* bound: calls other than edits and loads

ASSUME BoundsAssumption == MaxEntries \in Nat /\ MaxCalls \in Nat

VARIABLES
    stored,         \* the records
    loaded,         \* loadedTable: what the workspace last loaded
    shown,          \* table: what the editor shows
    attempted,      \* attemptedCells: value, and what was shown before
    pending,        \* pendingSaves
    failed,         \* failedCells
    writes,         \* CellWriteQueue, first the edit that is being saved
    router,         \* the calls of the page, in the order they were made
    pendingWrites,  \* the workspace was told that edits are not settled
    timer,          \* a load is scheduled
    loading,        \* loadingPage
    entered,        \* the last value entered
    calls,          \* how many other calls were made
    current,        \* history: values since this editor's last accepted one
    accepted,       \* history: values of this editor that were stored
    wanted,         \* history: this editor's last edit of a cell, or 0
    reloaded        \* history: the last load that was awaited succeeded

editor == <<shown, attempted, pending, failed, writes>>
workspace == <<loaded, pendingWrites, timer, loading>>
past == <<current, accepted>>
vars == <<stored, editor, workspace, router, entered, calls, past, wanted,
          reloaded>>

Cells == Rows \X Columns
Values == 0..MaxEntries
Row(cell) == {cell[1]} \X Columns
Unsaved == DOMAIN attempted

\* What a call does not say yet, or never says, is NoCell, 0 or NoRows.
NoCell == <<>>
NoRows == <<>>
AnyCall ==
    [kind: {"write", "load", "more", "open", "paste", "structure", "refresh"},
     stage: {"queued", "answered"},
     live: BOOLEAN,                 \* a load's answer will be used
     cell: Cells \cup {NoCell}, value: Values,
     ok: BOOLEAN, rows: [Cells -> Values] \cup {NoRows}]

TypeOK ==
    /\ stored \in [Cells -> Values] /\ loaded \in [Cells -> Values]
    /\ shown \in [Cells -> Values]
    /\ Unsaved \subseteq Cells
    /\ \A cell \in Unsaved : attempted[cell] \in [value: Values, previous: Values]
    /\ pending \subseteq Unsaved /\ failed \subseteq Unsaved
    /\ writes \in Seq([cell: Cells, value: Values, latest: BOOLEAN])
    /\ router \in Seq(AnyCall)
    /\ pendingWrites \in BOOLEAN /\ timer \in BOOLEAN /\ loading \in BOOLEAN
    /\ entered \in Values /\ calls \in 0..MaxCalls
    /\ current \in [Cells -> SUBSET Values] /\ accepted \subseteq Values
    /\ wanted \in [Cells -> Values]
    /\ reloaded \in BOOLEAN

-----------------------------------------------------------------------------
(* Calls. *)

Without(f, cell) == [c \in DOMAIN f \ {cell} |-> f[c]]
\* replaceCell for every attempted value.
Replay(rows, edits) ==
    [cell \in Cells |-> IF cell \in DOMAIN edits THEN edits[cell].value ELSE rows[cell]]
Replaced(rows, row, with) == [cell \in Cells |-> IF cell \in row THEN with[cell] ELSE rows[cell]]

Ask(kind) ==
    [kind |-> kind, stage |-> "queued", live |-> TRUE,
     cell |-> NoCell, value |-> 0, ok |-> FALSE, rows |-> NoRows]
AskOf(kind, cell) == [Ask(kind) EXCEPT !.cell = cell]
WriteCall == Ask("write")

Loads == {"load", "more"}
\* requestVersion has moved: the answer of a load under way will be dropped.
Superseded(queue) ==
    [n \in DOMAIN queue |-> IF queue[n].kind \in Loads
                            THEN [queue[n] EXCEPT !.live = FALSE] ELSE queue[n]]

\* The workspace's effect runs again: nothing is loaded while edits are not
\* settled, and a load is scheduled when they are.
Scheduled(queue) ==
    /\ timer' = ~pendingWrites'
    /\ router' = Superseded(queue)
\* The effect does not depend on refreshVersion.
MutRefreshed(queue) == router' = queue /\ UNCHANGED timer
\* refreshRecords(), or another search.  While edits wait the effect does nothing.
Refreshed(queue) ==
    IF pendingWrites /\ pendingWrites' THEN router' = queue /\ UNCHANGED timer
    ELSE Scheduled(queue)

-----------------------------------------------------------------------------
(* The editor. *)

\* commitCell(): the newest edit of a cell is the one whose answer counts.
Save(cell, value, previous) ==
    /\ attempted' = [c \in Unsaved \cup {cell} |->
                        IF c = cell THEN [value |-> value, previous |-> previous]
                        ELSE attempted[c]]
    /\ pending' = pending \cup {cell}
    /\ failed' = failed \ {cell}
    /\ shown' = [shown EXCEPT ![cell] = value]
    /\ writes' = Append([n \in DOMAIN writes |->
                            IF writes[n].cell = cell
                            THEN [writes[n] EXCEPT !.latest = FALSE] ELSE writes[n]],
                        [cell |-> cell, value |-> value, latest |-> TRUE])
    /\ pendingWrites' = TRUE
    /\ Scheduled(IF writes = <<>> THEN Append(router, WriteCall) ELSE router)
    /\ wanted' = [wanted EXCEPT ![cell] = value]

Edit(cell) ==
    /\ entered < MaxEntries
    /\ entered' = entered + 1
    /\ Save(cell, entered + 1, shown[cell])
    /\ UNCHANGED <<stored, loaded, loading, calls, past, reloaded>>

Retry(cell) ==
    /\ cell \in failed
    /\ Save(cell, attempted[cell].value, attempted[cell].previous)
    /\ UNCHANGED <<stored, loaded, loading, entered, calls, past, reloaded>>

\* "Discard edit" does not load the rows again.
MutDiscard(cell) ==
    /\ cell \in failed
    /\ attempted' = Without(attempted, cell)
    /\ failed' = failed \ {cell}
    /\ shown' = [shown EXCEPT ![cell] = attempted[cell].previous]
    /\ wanted' = [wanted EXCEPT ![cell] = 0]
    /\ UNCHANGED <<pendingWrites, timer, router, stored, pending, writes, loaded,
                   loading, entered, calls, past, reloaded>>

Discard(cell) ==
    /\ cell \in failed
    /\ attempted' = Without(attempted, cell)
    /\ failed' = failed \ {cell}
    /\ shown' = [shown EXCEPT ![cell] = attempted[cell].previous]
    /\ wanted' = [wanted EXCEPT ![cell] = 0]
    /\ IF Unsaved' = {} /\ pending = {}
       THEN pendingWrites' = FALSE /\ Refreshed(router)
       ELSE UNCHANGED <<pendingWrites, timer, router>>
    /\ UNCHANGED <<stored, pending, writes, loaded, loading, entered, calls,
                   past, reloaded>>

\* A record is opened; the Table's setup is changed, with no edit waiting;
\* another control of the page refreshes the route.
Call(call) ==
    /\ calls < MaxCalls
    /\ calls' = calls + 1
    /\ router' = Append(router, call)
    /\ UNCHANGED <<stored, editor, workspace, past, wanted, reloaded>>
Open(cell) == Call(AskOf("open", cell)) /\ UNCHANGED entered
ChangeStructure == pending = {} /\ Unsaved = {} /\ Call(Ask("structure")) /\ UNCHANGED entered
RefreshRoute == Call(Ask("refresh")) /\ UNCHANGED entered

\* A paste, or the Delete key: it does not wait in CellWriteQueue.
Paste(cell) ==
    /\ entered < MaxEntries
    /\ entered' = entered + 1
    /\ Call([AskOf("paste", cell) EXCEPT !.value = entered + 1])

-----------------------------------------------------------------------------
(* The workspace. *)

LoadPage(kind) ==
    /\ router' = Append(Superseded(router), Ask(kind))
    /\ loading' = TRUE

Load ==
    /\ timer
    /\ timer' = FALSE
    /\ LoadPage("load")
    /\ UNCHANGED <<stored, editor, loaded, pendingWrites, entered, calls, past,
                   wanted, reloaded>>

LoadMore ==
    /\ ~loading /\ ~pendingWrites /\ calls < MaxCalls
    /\ calls' = calls + 1
    /\ LoadPage("more")
    /\ UNCHANGED <<stored, editor, loaded, pendingWrites, timer, entered, past,
                   wanted, reloaded>>

Search ==
    /\ ~pendingWrites /\ calls < MaxCalls
    /\ calls' = calls + 1
    /\ pendingWrites' = pendingWrites
    /\ Scheduled(router)
    /\ UNCHANGED <<stored, editor, loaded, loading, entered, past, wanted,
                   reloaded>>

-----------------------------------------------------------------------------
(* The server. *)

\* A paste that failed although it was stored shows its error, and no more.
Put(cell, value, told) ==
    /\ stored' = [stored EXCEPT ![cell] = value]
    /\ current' = [current EXCEPT ![cell] = (IF told THEN {} ELSE @) \cup {value}]
    /\ accepted' = accepted \cup {value}

\* What the first call of the router writes, if it writes.
Written ==
    IF router[1].kind = "write" THEN Head(writes) ELSE router[1]
Writes == {"write", "paste"}

\* The call takes effect, and reads what is then stored; it can fail before,
\* and its answer can be lost after.
Serve ==
    /\ router # <<>> /\ router[1].stage = "queued"
    /\ \E done \in BOOLEAN, ok \in BOOLEAN :
        /\ ok => done
        /\ IF done /\ router[1].kind \in Writes
           THEN Put(Written.cell, Written.value, ok \/ router[1].kind = "write")
           ELSE UNCHANGED <<stored, past>>
        /\ router' = [router EXCEPT ![1] =
              [@ EXCEPT !.stage = "answered", !.ok = ok, !.rows = stored']]
    /\ UNCHANGED <<editor, workspace, entered, calls, wanted, reloaded>>

\* Someone else writes a cell.
Elsewhere(cell) ==
    /\ entered < MaxEntries
    /\ entered' = entered + 1
    /\ stored' = [stored EXCEPT ![cell] = entered + 1]
    /\ current' = [current EXCEPT ![cell] = @ \cup {entered + 1}]
    /\ UNCHANGED <<accepted, editor, workspace, router, calls, wanted, reloaded>>

-----------------------------------------------------------------------------
(* Answers. *)

Answered(kind) == router # <<>> /\ router[1].stage = "answered" /\ router[1].kind = kind
Answer == router[1]

\* The next edit is sent.
Continue == IF Len(writes) > 1 THEN Append(Tail(router), WriteCall) ELSE Tail(router)

\* An answer counts for whatever the cell's newest edit is.
MutSettles(write) == TRUE
\* An answer counts only for the edit it belongs to.
Settles(write) == write.latest

Saved(cell) ==
    /\ attempted' = Without(attempted, cell)
    /\ pending' = pending \ {cell}
    /\ shown' = Replay(Replaced(shown, Row(cell), Answer.rows), attempted')
    /\ UNCHANGED failed
    /\ IF pending' = {}
       THEN /\ pendingWrites' = (Unsaved' # {})
            /\ IF Unsaved' = {} THEN Refreshed(Continue)
               ELSE router' = Continue /\ UNCHANGED timer
       ELSE router' = Continue /\ UNCHANGED <<pendingWrites, timer>>

NotSaved(cell) ==
    /\ pending' = pending \ {cell}
    /\ failed' = failed \cup {cell}
    /\ router' = Continue
    /\ UNCHANGED <<attempted, shown, pendingWrites, timer>>

WriteAnswered ==
    /\ Answered("write")
    /\ writes' = Tail(writes)
    /\ LET write == Head(writes)
       IN  \/ Settles(write) /\ Answer.ok /\ Saved(write.cell)
           \/ Settles(write) /\ ~Answer.ok /\ NotSaved(write.cell)
           \/ /\ ~Settles(write)
              /\ router' = Continue
              /\ UNCHANGED <<attempted, shown, pending, failed, pendingWrites, timer>>
    /\ UNCHANGED <<stored, loaded, loading, entered, calls, past, wanted, reloaded>>

\* The editor is given an adapter over `rows': edits that are not saved stay.
Adapter(rows) ==
    /\ loaded' = rows
    /\ shown' = Replay(rows, attempted)

LoadAnswered ==
    /\ Answered("load")
    /\ router' = Tail(router)
    /\ IF Answer.live
       THEN /\ loading' = FALSE
            /\ reloaded' = Answer.ok
            /\ IF Answer.ok THEN Adapter(Answer.rows) ELSE UNCHANGED <<loaded, shown>>
       ELSE UNCHANGED <<loading, reloaded, loaded, shown>>
    /\ UNCHANGED <<stored, attempted, pending, failed, writes, pendingWrites, timer,
                   entered, calls, past, wanted>>

\* More rows are put behind those that were loaded before.
MoreAnswered ==
    /\ Answered("more")
    /\ router' = Tail(router)
    /\ loading' = (loading /\ ~Answer.live)
    /\ IF Answer.live /\ Answer.ok THEN Adapter(loaded) ELSE UNCHANGED <<loaded, shown>>
    /\ UNCHANGED <<stored, attempted, pending, failed, writes, pendingWrites, timer,
                   entered, calls, past, wanted, reloaded>>

\* The route is rendered again: its rows are not used, and loaded anew.
RouteRefreshed ==
    /\ Answered("refresh")
    /\ Adapter(loaded)
    /\ UNCHANGED <<stored, attempted, pending, failed, writes, pendingWrites, loading,
                   entered, calls, past, wanted, reloaded>>
    /\ Refreshed(Tail(router))

\* The record's row is shown as it was read, and so is the whole Table after a
\* change of its setup.
OpenAnswered ==
    /\ Answered("open")
    /\ router' = Tail(router)
    /\ shown' = IF Answer.ok THEN Replaced(shown, Row(Answer.cell), Answer.rows) ELSE shown
    /\ UNCHANGED <<stored, attempted, pending, failed, writes, workspace, entered,
                   calls, past, wanted, reloaded>>

StructureAnswered ==
    /\ Answered("structure")
    /\ IF Answer.ok
       THEN /\ shown' = Answer.rows
            /\ router' = Append(Tail(router), Ask("refresh"))
       ELSE router' = Tail(router) /\ UNCHANGED shown
    /\ UNCHANGED <<stored, attempted, pending, failed, writes, workspace, entered,
                   calls, past, wanted, reloaded>>

PasteAnswered ==
    /\ Answered("paste")
    /\ UNCHANGED <<stored, attempted, pending, failed, writes, loaded, pendingWrites,
                   loading, entered, calls, past, wanted, reloaded>>
    /\ IF Answer.ok
       THEN /\ shown' = Replaced(shown, Row(Answer.cell), Answer.rows)
            /\ Refreshed(Tail(router))
       ELSE router' = Tail(router) /\ UNCHANGED <<shown, timer>>

-----------------------------------------------------------------------------
Init ==
    /\ stored = [cell \in Cells |-> 0] /\ loaded = stored /\ shown = stored
    /\ attempted = <<>> /\ pending = {} /\ failed = {}
    /\ writes = <<>> /\ router = <<>>
    /\ pendingWrites = FALSE /\ timer = TRUE /\ loading = FALSE
    /\ entered = 0 /\ calls = 0
    /\ current = [cell \in Cells |-> {0}] /\ accepted = {} /\ wanted = stored
    /\ reloaded = TRUE

Machinery ==
    \/ Load \/ Serve
    \/ WriteAnswered \/ LoadAnswered \/ MoreAnswered \/ RouteRefreshed
    \/ OpenAnswered \/ StructureAnswered \/ PasteAnswered

Users ==
    \/ \E cell \in Cells :
          Edit(cell) \/ Retry(cell) \/ Discard(cell) \/ Open(cell) \/ Paste(cell)
          \/ Elsewhere(cell)
    \/ ChangeStructure \/ RefreshRoute \/ LoadMore \/ Search

Next == Machinery \/ Users

Spec == Init /\ [][Next]_vars

\* Timers fire, and a call is answered, if only with an error.
FairSpec == Spec /\ WF_vars(Machinery)

-----------------------------------------------------------------------------
(* Properties. *)

\* No edit is lost: a cell's newest edit is stored, or the editor still holds
\* it and shows that it is on its way or has failed, unless it was discarded.
EditsAreKept ==
    \A cell \in Cells : wanted[cell] # 0 =>
        \/ wanted[cell] \in accepted
        \/ /\ cell \in pending \cup failed
           /\ attempted[cell].value = wanted[cell]

AtRest == router = <<>> /\ ~timer /\ Unsaved = {}

\* Once edits have settled and nothing is under way, a cell shows what the
\* server has held since this editor's last write of it, unless a reload failed.
RestShowsTheServer ==
    AtRest /\ reloaded => \A cell \in Cells : shown[cell] \in current[cell]

\* Each edit is answered, and once none is waiting the workspace loads the rows
\* again: it never keeps a row from before this editor's own writes, unless the
\* reload failed (production-table-workspace.tsx:245).
Outdated == \E cell \in Cells : loaded[cell] \notin current[cell]
CatchesUp ==
    /\ \A cell \in Cells : cell \in pending ~> cell \notin pending
    /\ (Outdated /\ Unsaved = {}) ~> (~Outdated \/ Unsaved # {} \/ ~reloaded)
-----------------------------------------------------------------------------
(* What makes EditsAreKept and RestShowsTheServer inductive. *)

\* The newest edit of a cell is the one that counts: there is one, it is what
\* the cell was last told, and the queue ends with such an edit.
NewestCounts ==
    /\ \A n \in DOMAIN writes : writes[n].latest =>
            writes[n].cell \in pending /\ writes[n].value = wanted[writes[n].cell]
    /\ \A m, n \in DOMAIN writes :
            writes[m].latest /\ writes[n].latest /\ writes[m].cell = writes[n].cell => m = n
    /\ writes # <<>> => writes[Len(writes)].latest
    /\ pending \cap failed = {}
    /\ \A cell \in Unsaved : attempted[cell].value = wanted[cell]

\* The queue has one call at a time in the router's queue, for its first edit.
OneWrite ==
    /\ \A n \in DOMAIN router : router[n].kind = "write" =>
            /\ writes # <<>>
            /\ router[n].stage = "answered" /\ router[n].ok => writes[1].value \in accepted
    /\ \A m, n \in DOMAIN router :
            router[m].kind = "write" /\ router[n].kind = "write" => m = n

\* The rows of an answer are the server's since this editor's last write.
IsCurrent(rows) == \A cell \in Cells : rows[cell] \in current[cell]
AnswersAreCurrent ==
    /\ IsCurrent(stored)
    /\ \A n \in DOMAIN router :
            /\ router[n].stage = "answered" =>
                    n = 1 /\ router[n].rows \in [Cells -> Values] /\ IsCurrent(router[n].rows)
            /\ router[n].kind \in {"open", "paste"} => router[n].cell \in Cells

\* The workspace awaits at most one load, and none while edits are not settled.
Awaited(n) == router[n].kind \in Loads /\ router[n].live
OneLoad ==
    /\ pendingWrites <=> Unsaved # {}
    /\ pendingWrites => ~timer
    /\ \A n \in DOMAIN router : Awaited(n) => loading /\ ~pendingWrites
    /\ \A m, n \in DOMAIN router : Awaited(m) /\ Awaited(n) => m = n

\* With no edit unsaved and no load to come, both layers have caught up, or are
\* about to be told of a paste.
Coming == timer \/ \E n \in DOMAIN router : router[n].kind = "load" /\ router[n].live
Pasted == router # <<>> /\ router[1].kind = "paste" /\ router[1].stage = "answered" /\ router[1].ok
CaughtUp ==
    ~pendingWrites /\ reloaded /\ ~Coming /\ ~Pasted => IsCurrent(loaded) /\ IsCurrent(shown)

IInv == /\ TypeOK /\ NewestCounts /\ OneWrite /\ AnswersAreCurrent /\ OneLoad
        /\ CaughtUp /\ EditsAreKept
=============================================================================
