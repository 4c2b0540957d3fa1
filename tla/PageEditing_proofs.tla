--------------------------- MODULE PageEditing_proofs ---------------------------
(***************************************************************************)
(* For every set of titles and layouts, and any number of versions and     *)
(* edits: IInv is an inductive invariant of the page editor, "Saved" is    *)
(* shown only over a draft that some version holds, an unsaved draft is    *)
(* replaced only by its owner, a stopped save waits for the owner, and     *)
(* nothing goes ahead over a draft the server does not have.               *)
(***************************************************************************)
EXTENDS PageEditing, TLAPS

-------------------------------------------------------------------------------
(* The invariant in parts, by who changes them. *)

Statuses == {"saved", "unsaved", "saving"} \cup Stopped
Waiters == SUBSET {"leave", "checklist", "save"}

History == pages \in Seq(Drafts) /\ Latest \in Versions

Baseline ==
    /\ candidate \in Drafts /\ acknowledged \in Drafts
    /\ base \in 1..Latest
    /\ BaselineAccepted

Shown ==
    /\ loaded \in 1..Latest
    /\ conflict \in 0..Latest /\ payload \in 0..Latest /\ kept \in 0..Latest
    /\ asked \in BOOLEAN
    /\ edits \in 0..MaxEdits

Saving ==
    /\ status \in Statuses /\ blocked \in {"no"} \cup Stopped
    /\ timer \in BOOLEAN
    /\ request \in {Idle} \cup Requests /\ Told(request)
    /\ flushes \in Waiters
    /\ LiveIsFree
    /\ status = "saved" => ~Dirty /\ blocked = "no"

Beside ==
    /\ checklist \in {Idle} \cup Checklists /\ Told(checklist)
    /\ place \in {"editor", "leaving", "gone"}

LEMMA Parts == IInv <=> History /\ Baseline /\ Shown /\ Saving /\ Beside
<1>1. status = "saved" /\ ~Dirty /\ BaselineAccepted => Accepted(candidate)
  BY DEF Dirty, BaselineAccepted, Accepted
<1>. QED
  BY <1>1 DEF IInv, TypeOK, SavedIsAccepted, History, Baseline, Shown, Saving,
     Beside, Statuses, Waiters

LEMMA PartsAfter == History' /\ Baseline' /\ Shown' /\ Saving' /\ Beside' => IInv'
<1>1. status' = "saved" /\ ~Dirty' /\ BaselineAccepted' => Accepted(candidate)'
  BY DEF Dirty, BaselineAccepted, Accepted
<1>. QED
  BY <1>1 DEF IInv, TypeOK, SavedIsAccepted, History, Baseline, Shown, Saving,
     Beside, Statuses, Waiters

\* What a step may not do: resume a stopped save, go ahead over a draft that is
\* not acknowledged, or replace the candidate.
Resumes ==
    blocked # "no" /\ (Sends \/ (blocked' = "no" /\ candidate' # acknowledged'))
GoesAhead ==
    \/ place = "editor" /\ place' = "leaving"
    \/ checklist = Idle /\ checklist' # Idle

-------------------------------------------------------------------------------
(* Calls. *)

LEMMA IdleIsNone ==
  /\ Idle.stage = "none"
  /\ \A r \in Requests : r # Idle /\ r.stage \in {"queued", "answered"}
  /\ \A r \in Checklists : r # Idle /\ r.stage \in {"queued", "answered"}
BY DEF Idle, Requests, Checklists

LEMMA IdleIsTold == Told(Idle)
BY IdleIsNone DEF Told

\* A save as it is sent.
LEMMA SentIsRequest ==
  ASSUME BoundsAssumption, NEW content \in Drafts, NEW baseline \in Drafts,
         NEW version \in Versions, asked' \in BOOLEAN
  PROVE  /\ Sent(content, baseline, version) \in Requests
         /\ Sent(content, baseline, version).stage = "queued"
BY DEF Sent, Requests, Results, Versions

\* A checklist as it is asked for.
LEMMA AskedIsChecklist ==
  ASSUME BoundsAssumption, NEW version \in Versions, NEW behind \in BOOLEAN
  PROVE  LET asking == [stage |-> "queued", base |-> version, behind |-> behind,
                        result |-> "none", version |-> 0]
         IN  asking \in Checklists /\ asking.stage = "queued"
BY DEF Checklists, Results, Versions

\* A superseded save is the same save, and its answer will not count.
LEMMA SupersededIsDead ==
  ASSUME request \in {Idle} \cup Requests
  PROVE  /\ Superseded \in {Idle} \cup Requests
         /\ Superseded.stage = request.stage
         /\ Superseded # Idle <=> InFlight
         /\ InFlight => ~Superseded.live /\ Superseded.result = request.result
                        /\ Superseded.version = request.version
<1>1. CASE request = Idle
  BY <1>1 DEF Superseded, InFlight
<1>2. CASE request \in Requests
  <2>1. InFlight
    BY <1>2, IdleIsNone DEF InFlight
  <2>2. Superseded = [request EXCEPT !.live = FALSE]
    BY <2>1 DEF Superseded
  <2>3. Superseded \in Requests /\ ~Superseded.live
        /\ Superseded.stage = request.stage
        /\ Superseded.result = request.result
        /\ Superseded.version = request.version
    BY <1>2, <2>2 DEF Requests
  <2>. QED BY <2>1, <2>3, IdleIsNone
<1>. QED BY <1>1, <1>2

LEMMA SupersededIsTold ==
  ASSUME request \in {Idle} \cup Requests, Told(request)
  PROVE  Told(Superseded)
BY SupersededIsDead, IdleIsNone, IdleIsTold DEF Told, InFlight

-------------------------------------------------------------------------------
(* What the coordinator's methods leave behind. *)

\* Where navigation and the checklist go ahead, the draft is acknowledged.
LEMMA FinishPart ==
  ASSUME BoundsAssumption, Beside, NEW who, NEW clean \in BOOLEAN,
         base' \in Versions, asked' \in BOOLEAN, pages' = pages,
         Finish(who, clean)
  PROVE  Beside' /\ (GoesAhead => clean)
<1>1. place' \in {"editor", "leaving", "gone"} /\ (place' # place => clean)
  BY DEF Finish, Beside
<1>2. /\ checklist' \in {Idle} \cup Checklists /\ Told(checklist)'
      /\ checklist' # checklist => clean
  <2>1. CASE "checklist" \in who /\ clean
    <3>. DEFINE asking == [stage |-> "queued", base |-> base', behind |-> asked',
                           result |-> "none", version |-> 0]
    <3>1. checklist' = asking
      BY <2>1 DEF Finish
    <3>2. asking \in Checklists /\ asking.stage = "queued"
      BY AskedIsChecklist
    <3>. QED BY <2>1, <3>1, <3>2 DEF Told
  <2>2. CASE ~("checklist" \in who /\ clean)
    <3>1. checklist' = checklist
      BY <2>2 DEF Finish
    <3>. QED BY <3>1 DEF Beside, Told, Latest
  <2>. QED BY <2>1, <2>2
<1>. QED BY <1>1, <1>2 DEF Beside, GoesAhead

\* A flush drains what is dirty unless saving is stopped, or goes on.
LEMMA DrainPart ==
  ASSUME BoundsAssumption, Beside, History', Baseline', pages' = pages,
         asked' \in BOOLEAN, timer' \in BOOLEAN, blocked' \in {"no"} \cup Stopped,
         NEW who \in Waiters, NEW calm \in Statuses,
         calm = "saved" => blocked' = "no",
         Drain(who, calm)
  PROVE  /\ Saving' /\ Beside'
         /\ blocked' # "no" => request' = Idle
         /\ GoesAhead => candidate' = acknowledged'
<1>1. base' \in Versions /\ candidate' \in Drafts /\ acknowledged' \in Drafts
  BY DEF Baseline, History, Versions, BoundsAssumption
<1>2. CASE blocked' = "no" /\ candidate' # acknowledged'
  <2>1. /\ request' = Sent(candidate', acknowledged', base')
        /\ status' = "saving" /\ flushes' = who /\ Abandon
    BY <1>2 DEF Drain
  <2>2. request' \in Requests /\ request'.stage = "queued"
    BY <1>1, <2>1, SentIsRequest
  <2>3. Told(request)' /\ LiveIsFree'
    BY <1>2, <2>2 DEF Told, LiveIsFree
  <2>4. Beside' /\ ~GoesAhead
    BY <2>1 DEF Beside, Abandon, Told, Latest, GoesAhead
  <2>. QED BY <1>2, <2>1, <2>2, <2>3, <2>4 DEF Saving, Statuses
<1>3. CASE ~(blocked' = "no" /\ candidate' # acknowledged')
  <2>1. /\ request' = Idle
        /\ status' = IF blocked' = "no" THEN "saved" ELSE calm
        /\ flushes' = {}
        /\ Finish(who, candidate' = acknowledged')
    BY <1>3 DEF Drain
  <2>2. Told(request)' /\ LiveIsFree'
    BY <2>1, IdleIsTold, IdleIsNone DEF Told, LiveIsFree, InFlight
  <2>3. Beside' /\ (GoesAhead => candidate' = acknowledged')
    BY <1>1, <2>1, FinishPart
  <2>4. status' \in Statuses /\ (status' = "saved" => ~Dirty' /\ blocked' = "no")
    BY <1>3, <2>1 DEF Statuses, Dirty
  <2>. QED BY <2>1, <2>2, <2>3, <2>4 DEF Saving, Waiters
<1>. QED BY <1>2, <1>3

\* flush() waits for the request in flight, or drains at once.
LEMMA FlushPart ==
  ASSUME BoundsAssumption, Saving, Beside, History', Baseline', pages' = pages,
         asked' \in BOOLEAN, blocked' \in {"no", blocked},
         candidate' = candidate, acknowledged' = acknowledged,
         NEW who \in {"leave", "checklist", "save"}, NEW calm \in Statuses,
         calm = "saved" => ~Dirty /\ blocked' = "no",
         Flush(who, calm)
  PROVE  /\ Saving' /\ Beside'
         /\ blocked' # "no" => ~Sends
         /\ GoesAhead => candidate' = acknowledged'
<1>1. timer' \in BOOLEAN /\ blocked' \in {"no"} \cup Stopped
  BY DEF Flush, Saving
<1>2. CASE InFlight
  <2>1. /\ flushes' = flushes \cup {who} /\ status' = calm
        /\ request' = request /\ Abandon
    BY <1>2 DEF Flush
  <2>2. Told(request)' /\ LiveIsFree' /\ flushes' \in Waiters
    BY <2>1 DEF Saving, Told, LiveIsFree, Latest, InFlight, Waiters
  <2>3. Beside' /\ ~GoesAhead /\ ~Sends
    BY <2>1 DEF Beside, Abandon, Told, Latest, GoesAhead, Sends
  <2>4. status' = "saved" => ~Dirty' /\ blocked' = "no"
    BY <2>1 DEF Dirty
  <2>. QED BY <1>1, <2>1, <2>2, <2>3, <2>4 DEF Saving
<1>3. CASE ~InFlight
  <2>1. Drain({who}, calm)
    BY <1>3 DEF Flush
  <2>2. {who} \in Waiters
    BY DEF Waiters
  <2>. QED BY <1>1, <2>1, <2>2, DrainPart DEF Sends
<1>. QED BY <1>2, <1>3

\* A canonical draft is acknowledged; what was in flight does not count.
LEMMA AcknowledgePart ==
  ASSUME Saving, pages' = pages, NEW canonical, Acknowledge(canonical)
  PROVE  Saving' /\ candidate' = canonical /\ acknowledged' = canonical /\ ~Sends
<1>1. request' = Superseded
  BY DEF Acknowledge
<1>2. request' \in {Idle} \cup Requests /\ request'.stage = request.stage
      /\ (request' # Idle => ~request'.live)
  BY <1>1, SupersededIsDead DEF Saving
<1>3. Told(request)'
  BY <1>1, SupersededIsTold DEF Saving, Told, Latest
<1>4. LiveIsFree' /\ ~Sends
  BY <1>2 DEF LiveIsFree, InFlight, Sends
<1>. QED BY <1>2, <1>3, <1>4 DEF Acknowledge, Saving, Statuses, Dirty

LEMMA BlockPart ==
  ASSUME Saving, pages' = pages, Block("stale")
  PROVE  Saving' /\ ~Sends /\ blocked' = "stale"
<1>1. request' = Superseded
  BY DEF Block
<1>2. request' \in {Idle} \cup Requests /\ request'.stage = request.stage
      /\ (request' # Idle => ~request'.live)
  BY <1>1, SupersededIsDead DEF Saving
<1>3. Told(request)'
  BY <1>1, SupersededIsTold DEF Saving, Told, Latest
<1>4. LiveIsFree' /\ ~Sends
  BY <1>2 DEF LiveIsFree, InFlight, Sends
<1>. QED BY <1>2, <1>3, <1>4 DEF Block, Saving, Statuses, Stopped

LEMMA RebasePart ==
  ASSUME Saving, pages' = pages, candidate' = candidate,
         acknowledged' = acknowledged, Rebase
  PROVE  Saving' /\ ~Sends /\ (blocked # "no" /\ blocked' = "no" => blocked = "stale")
<1>1. request' = request /\ blocked' \in {"no", blocked} /\ timer' \in BOOLEAN
  BY DEF Rebase, Saving
<1>2. Told(request)' /\ LiveIsFree' /\ ~Sends
  BY <1>1 DEF Saving, Told, LiveIsFree, Latest, InFlight, Sends
<1>3. status' \in Statuses /\ (status' = "saved" => ~Dirty' /\ blocked' = "no")
  BY DEF Rebase, Saving, Statuses, Dirty
<1>. QED BY <1>1, <1>2, <1>3 DEF Rebase, Saving

-------------------------------------------------------------------------------
(* The parts that a step leaves alone. *)

LEMMA HistoryStays ==
  ASSUME History, pages' = pages
  PROVE  History'
BY DEF History, Latest

LEMMA BaselineStays ==
  ASSUME Baseline, pages' = pages, candidate' \in Drafts,
         acknowledged' = acknowledged, base' \in 1..Latest
  PROVE  Baseline'
BY DEF Baseline, BaselineAccepted, Latest

LEMMA ShownStays ==
  ASSUME Shown, pages' = pages, UNCHANGED <<loaded, payload>>,
         conflict' \in 0..Latest, kept' \in 0..Latest, asked' \in BOOLEAN,
         edits' \in 0..MaxEdits
  PROVE  Shown'
BY DEF Shown, Latest

LEMMA BesideStays ==
  ASSUME Beside, pages' = pages, UNCHANGED <<checklist, place>>
  PROVE  Beside' /\ ~GoesAhead
BY DEF Beside, Told, Latest, GoesAhead

LEMMA SavingStays ==
  ASSUME Saving, pages' = pages,
         UNCHANGED <<status, blocked, request, flushes, candidate, acknowledged>>,
         timer' \in BOOLEAN
  PROVE  Saving' /\ ~Sends
BY DEF Saving, Told, Latest, LiveIsFree, InFlight, Dirty, Sends

-------------------------------------------------------------------------------
(* The owner's steps. *)

LEMMA EditStep ==
  ASSUME BoundsAssumption, IInv, NEW content \in Drafts, Edit(content)
  PROVE  IInv' /\ ~Resumes /\ ~GoesAhead
<1>. History /\ Baseline /\ Shown /\ Saving /\ Beside
  BY Parts
<1>1. History'
  BY HistoryStays DEF Edit, server
<1>2. Baseline'
  BY BaselineStays DEF Edit, server, Baseline
<1>3. Shown'
  BY ShownStays DEF Edit, server, route, Shown, BoundsAssumption
<1>4. Beside' /\ ~GoesAhead
  BY BesideStays DEF Edit, server
<1>5. /\ request' \in {Idle} \cup Requests
      /\ request'.stage = request.stage
      /\ request' # Idle <=> InFlight
      /\ InFlight => request'.live = request.live
                     /\ request'.result = request.result
                     /\ request'.version = request.version
  <2>1. CASE InFlight
    <3>1. request \in Requests /\ request' = [request EXCEPT !.touched = TRUE]
      BY <2>1 DEF Edit, Saving, InFlight
    <3>2. request' \in Requests /\ request'.stage = request.stage
          /\ request'.live = request.live /\ request'.result = request.result
          /\ request'.version = request.version
      BY <3>1 DEF Requests
    <3>. QED BY <2>1, <3>2, IdleIsNone
  <2>2. CASE ~InFlight
    <3>1. request' = request
      BY <2>2 DEF Edit
    <3>. QED BY <2>2, <3>1 DEF InFlight, Saving
  <2>. QED BY <2>1, <2>2
<1>6. Told(request)'
  BY <1>5, IdleIsNone DEF Edit, server, Saving, Told, Latest, InFlight
<1>7. ~Sends
  BY <1>5 DEF Sends
<1>8. /\ blocked' \in {"no", blocked} /\ status' \in Statuses
      /\ status' = "saved" => ~Dirty' /\ blocked' = "no"
      /\ blocked # "no" /\ blocked' = "no" => candidate' = acknowledged'
      /\ timer' \in BOOLEAN
  <2>1. CASE content # acknowledged
    BY <2>1 DEF Edit, Saving, Statuses, Stopped
  <2>2. CASE content = acknowledged
    BY <2>2 DEF Edit, Saving, Statuses, Dirty
  <2>. QED BY <2>1, <2>2
<1>9. LiveIsFree'
  BY <1>5, <1>8 DEF LiveIsFree, InFlight, Saving
<1>10. Saving'
  BY <1>5, <1>6, <1>8, <1>9 DEF Saving, Edit
<1>. QED BY <1>1, <1>2, <1>3, <1>4, <1>7, <1>8, <1>10, PartsAfter DEF Resumes

LEMMA AskFlushStep ==
  ASSUME BoundsAssumption, IInv, NEW who \in {"leave", "checklist", "save"},
         AskFlush(who)
  PROVE  IInv' /\ ~Resumes /\ (GoesAhead => candidate' = acknowledged')
         /\ UNCHANGED <<pages, candidate>> /\ BaselineAccepted
<1>. History /\ Baseline /\ Shown /\ Saving /\ Beside
  BY Parts
<1>1. UNCHANGED <<pages, candidate, acknowledged, base, blocked, conflict, loaded,
                  asked, payload, edits, kept>>
      /\ Flush(who, status)
  BY DEF AskFlush, server, draft, route
<1>2. History' /\ Baseline' /\ Shown'
  BY <1>1, HistoryStays, BaselineStays, ShownStays DEF Baseline, Shown
<1>3. /\ Saving' /\ Beside'
      /\ blocked' # "no" => ~Sends
      /\ GoesAhead => candidate' = acknowledged'
  BY <1>1, <1>2, FlushPart DEF Saving, Shown
<1>. QED BY <1>1, <1>2, <1>3, PartsAfter DEF Resumes, Baseline

\* retry() leaves the invariant in place, whatever the base was moved to.
LEMMA RetryPart ==
  ASSUME BoundsAssumption, Saving, Beside, History', Baseline', pages' = pages,
         asked' \in BOOLEAN, candidate' = candidate, acknowledged' = acknowledged,
         Retry
  PROVE  Saving' /\ Beside' /\ (GoesAhead => candidate' = acknowledged')
<1>1. blocked' = "no"
  BY DEF Retry
<1>2. CASE Dirty
  <2>. DEFINE calm == IF InFlight THEN "saving" ELSE "unsaved"
  <2>1. Flush("save", calm)
    BY <1>2 DEF Retry
  <2>2. calm \in Statuses /\ calm # "saved"
    BY DEF Statuses
  <2>. HIDE DEF calm
  <2>. QED BY <1>1, <2>1, <2>2, FlushPart
<1>3. CASE ~Dirty
  <2>1. status' = "saved" /\ UNCHANGED <<timer, request, flushes>> /\ Abandon
    BY <1>3 DEF Retry
  <2>2. Saving'
    BY <1>1, <1>3, <2>1 DEF Saving, Told, Latest, LiveIsFree, InFlight, Dirty, Statuses
  <2>3. Beside' /\ ~GoesAhead
    BY <2>1, BesideStays DEF Abandon
  <2>. QED BY <2>2, <2>3
<1>. QED BY <1>2, <1>3

LEMMA TryAgainStep ==
  ASSUME BoundsAssumption, IInv, TryAgain
  PROVE  IInv' /\ (GoesAhead => candidate' = acknowledged')
         /\ UNCHANGED <<pages, candidate>> /\ BaselineAccepted
<1>. History /\ Baseline /\ Shown /\ Saving /\ Beside
  BY Parts
<1>1. UNCHANGED <<pages, candidate, acknowledged, base, conflict, loaded, asked,
                  payload, edits, kept>>
      /\ Retry
  BY DEF TryAgain, server, draft, route
<1>2. History' /\ Baseline' /\ Shown'
  BY <1>1, HistoryStays, BaselineStays, ShownStays DEF Baseline, Shown
<1>3. Saving' /\ Beside' /\ (GoesAhead => candidate' = acknowledged')
  BY <1>1, <1>2, RetryPart DEF Shown
<1>. QED BY <1>1, <1>2, <1>3, PartsAfter DEF Baseline

LEMMA KeepMineStep ==
  ASSUME BoundsAssumption, IInv, KeepMine
  PROVE  IInv' /\ (GoesAhead => candidate' = acknowledged')
         /\ UNCHANGED <<pages, candidate>> /\ BaselineAccepted
<1>. History /\ Baseline /\ Shown /\ Saving /\ Beside
  BY Parts
<1>1. UNCHANGED <<pages, candidate, acknowledged, loaded, asked, payload, edits>>
      /\ Retry /\ base' = conflict /\ kept' = conflict /\ conflict' = 0
  BY DEF KeepMine, server, route
<1>2. conflict \in 1..Latest /\ Latest \in Nat
  BY DEF KeepMine, Shown, History, Versions, BoundsAssumption
<1>3. History' /\ Baseline' /\ Shown'
  BY <1>1, <1>2, HistoryStays, BaselineStays, ShownStays DEF Baseline, Shown
<1>4. Saving' /\ Beside' /\ (GoesAhead => candidate' = acknowledged')
  BY <1>1, <1>3, RetryPart DEF Shown
<1>. QED BY <1>1, <1>3, <1>4, PartsAfter DEF Baseline

\* A canonical draft is what some version holds.
LEMMA BaselineMoves ==
  ASSUME History, pages' = pages, NEW v \in 1..Latest,
         candidate' \in Drafts, acknowledged' = pages[v], base' \in 1..Latest
  PROVE  Baseline' /\ pages[v] \in Drafts
BY DEF History, Baseline, BaselineAccepted, Latest

LEMMA UseLatestStep ==
  ASSUME BoundsAssumption, IInv, UseLatest
  PROVE  IInv' /\ ~Resumes /\ ~GoesAhead
<1>. History /\ Baseline /\ Shown /\ Saving /\ Beside
  BY Parts
<1>1. /\ UNCHANGED <<pages, loaded, asked, payload, edits, kept, checklist, place>>
      /\ Acknowledge(pages[conflict]) /\ base' = conflict /\ conflict' = 0
  BY DEF UseLatest, server, route
<1>2. conflict \in 1..Latest /\ Latest \in Nat
  BY DEF UseLatest, Shown, History, Versions, BoundsAssumption
<1>3. /\ Saving' /\ candidate' = pages[conflict] /\ acknowledged' = pages[conflict]
      /\ ~Sends
  BY <1>1, AcknowledgePart
<1>4. pages[conflict] \in Drafts
  BY <1>2 DEF History, Latest
<1>5. History' /\ Baseline' /\ Shown' /\ Beside' /\ ~GoesAhead
  BY <1>1, <1>2, <1>3, <1>4, HistoryStays, BaselineMoves, ShownStays, BesideStays
     DEF Shown
<1>. QED BY <1>3, <1>5, PartsAfter DEF Resumes

LEMMA UnmountStep ==
  ASSUME BoundsAssumption, IInv, Unmount
  PROVE  IInv' /\ ~Resumes /\ ~GoesAhead /\ candidate' = candidate
<1>. History /\ Baseline /\ Shown /\ Saving /\ Beside
  BY Parts
<1>1. /\ UNCHANGED <<pages, candidate, acknowledged, base, conflict, status,
                    blocked, flushes, checklist, loaded, asked, payload, edits, kept>>
      /\ timer' = FALSE /\ request' = Superseded
      /\ place = "leaving" /\ place' = "gone"
  BY DEF Unmount, server, draft, route
<1>2. History' /\ Baseline' /\ Shown'
  BY <1>1, HistoryStays, BaselineStays, ShownStays DEF Baseline, Shown
<1>3. request' \in {Idle} \cup Requests /\ request'.stage = request.stage
      /\ (request' # Idle => ~request'.live)
  BY <1>1, SupersededIsDead DEF Saving
<1>4. Told(request)'
  BY <1>1, SupersededIsTold DEF Saving, Told, Latest
<1>5. LiveIsFree' /\ ~Sends
  BY <1>3 DEF LiveIsFree, InFlight, Sends
<1>6. Saving'
  BY <1>1, <1>3, <1>4, <1>5 DEF Saving, Dirty
<1>7. Beside' /\ ~GoesAhead
  BY <1>1 DEF Beside, Told, Latest, GoesAhead
<1>. QED BY <1>1, <1>2, <1>5, <1>6, <1>7, PartsAfter DEF Resumes

-------------------------------------------------------------------------------
(* Publications. *)

\* The history grows by at most one version, and keeps the others.
Grows ==
    /\ History' /\ Latest <= Latest'
    /\ \A v \in 1..Latest : v \in 1..Latest' /\ pages'[v] = pages[v]

LEMMA PublishPart ==
  ASSUME BoundsAssumption, History, NEW content \in Drafts,
         \/ pages' = pages
         \/ Latest < MaxVersions /\ pages' = Append(pages, content)
  PROVE  Grows
<1>1. Latest \in 1..MaxVersions /\ pages \in Seq(Drafts)
  BY DEF History, Versions
<1>2. CASE pages' = pages
  BY <1>1, <1>2, BoundsAssumption DEF Grows, History, Latest
<1>3. CASE Latest < MaxVersions /\ pages' = Append(pages, content)
  <2>1. pages' \in Seq(Drafts) /\ Len(pages') = Latest + 1
        /\ \A v \in 1..Latest : pages'[v] = pages[v]
    BY <1>1, <1>3 DEF Latest
  <2>2. Latest' = Latest + 1 /\ Latest' \in Versions
    BY <1>1, <1>3, <2>1, BoundsAssumption DEF Latest, Versions
  <2>3. \A v \in 1..Latest : v \in 1..Latest'
    BY <1>1, <2>2, BoundsAssumption
  <2>. QED BY <1>1, <2>1, <2>2, <2>3, BoundsAssumption DEF Grows, History
<1>. QED BY <1>2, <1>3

\* Whoever looks at older versions sees them as they were.
LEMMA BaselineGrows ==
  ASSUME Baseline, Grows, UNCHANGED draft
  PROVE  Baseline'
BY DEF Baseline, BaselineAccepted, Grows, draft

LEMMA ShownGrows ==
  ASSUME BoundsAssumption, History, Shown, Grows,
         UNCHANGED <<loaded, conflict, payload, kept, edits>>, asked' \in BOOLEAN
  PROVE  Shown'
<1>1. Latest \in Nat /\ Latest' \in Nat
  BY BoundsAssumption DEF History, Grows, Versions
<1>. QED BY <1>1 DEF Shown, Grows

LEMMA ToldGrows ==
  ASSUME NEW call, Told(call), Grows
  PROVE  call.stage = "answered" =>
           /\ call.result # "none"
           /\ call.result = "success" => call.version \in 1..Latest'
BY DEF Told, Grows

LEMMA SavingGrows ==
  ASSUME Saving, Grows,
         UNCHANGED <<candidate, acknowledged, status, blocked, timer, request, flushes>>
  PROVE  Saving' /\ ~Sends
<1>1. Told(request)'
  BY ToldGrows DEF Saving, Told
<1>. QED BY <1>1 DEF Saving, LiveIsFree, InFlight, Dirty, Sends

LEMMA BesideGrows ==
  ASSUME Beside, Grows, UNCHANGED <<checklist, place>>
  PROVE  Beside' /\ ~GoesAhead
<1>1. Told(checklist)'
  BY ToldGrows DEF Beside, Told
<1>. QED BY <1>1 DEF Beside, GoesAhead

\* A call that is answered is the same call.
LEMMA AnswerIsRequest ==
  ASSUME NEW call \in Requests, NEW result \in Results, NEW version \in 0..MaxVersions
  PROVE  /\ Answer(call, result, version) \in Requests
         /\ Answer(call, result, version).stage = "answered"
         /\ Answer(call, result, version).result = result
         /\ Answer(call, result, version).version = version
         /\ Answer(call, result, version).live = call.live
BY DEF Answer, Requests

LEMMA AnswerIsChecklist ==
  ASSUME NEW call \in Checklists, NEW result \in Results, NEW version \in 0..MaxVersions
  PROVE  /\ Answer(call, result, version) \in Checklists
         /\ Answer(call, result, version).stage = "answered"
         /\ Answer(call, result, version).result = result
         /\ Answer(call, result, version).version = version
BY DEF Answer, Checklists

\* An answer is told of the history it is given with.
Tells(result, version) ==
    /\ result \in Results \ {"none"} /\ version \in 0..MaxVersions
    /\ result = "success" => version \in 1..Latest'

LEMMA FailureTells ==
  ASSUME BoundsAssumption
  PROVE  Tells("stale", 0) /\ Tells("error", 0)
BY DEF Tells, Results, Stopped

LEMMA SuccessTells ==
  ASSUME BoundsAssumption, History, NEW content, Latest < MaxVersions,
         pages' = Append(pages, content)
  PROVE  Tells("success", Latest + 1)
<1>1. Latest \in 1..MaxVersions /\ Latest' = Latest + 1
  BY DEF History, Versions, Latest
<1>. QED BY <1>1, BoundsAssumption DEF Tells, Results

\* What is published has a title and a layout.
LEMMA NewestIsDraft ==
  ASSUME BoundsAssumption, History
  PROVE  pages[Latest] \in Drafts
<1>1. Latest \in 1..Len(pages)
  BY BoundsAssumption DEF History, Versions, Latest
<1>. QED BY <1>1 DEF History

LEMMA SavedIsDraft ==
  ASSUME BoundsAssumption, History, NEW call \in Requests
  PROVE  Saved(call) \in Drafts
<1>1. call.content \in Drafts /\ pages[Latest] \in Drafts
  BY NewestIsDraft DEF Requests
<1>. QED BY <1>1 DEF Saved, Drafts

LEMMA ServeSaveStep ==
  ASSUME BoundsAssumption, IInv, ServeSave
  PROVE  IInv' /\ ~Resumes /\ ~GoesAhead /\ candidate' = candidate
<1>. History /\ Baseline /\ Shown /\ Saving /\ Beside
  BY Parts
<1>1. request \in Requests
  BY IdleIsNone DEF ServeSave, Reached, Saving
<1>2. Saved(request) \in Drafts
  BY <1>1, SavedIsDraft
<1>3. /\ \E result, version : Tells(result, version)
                              /\ request' = Answer(request, result, version)
      /\ \/ pages' = pages
         \/ Latest < MaxVersions /\ pages' = Append(pages, Saved(request))
  BY FailureTells, SuccessTells DEF ServeSave, Apply
<1>4. Grows
  BY <1>2, <1>3, PublishPart
<1>5. PICK result, version : Tells(result, version)
                             /\ request' = Answer(request, result, version)
  BY <1>3
<1>6. /\ request' \in Requests /\ request'.stage = "answered"
      /\ request'.live = request.live /\ Told(request)'
  BY <1>1, <1>5, AnswerIsRequest DEF Tells, Told
<1>7. History' /\ Baseline' /\ Shown' /\ Beside' /\ ~GoesAhead
  BY <1>4, BaselineGrows, ShownGrows, BesideGrows DEF ServeSave, route, Grows, Shown
<1>8. Saving' /\ ~Sends
  BY <1>1, <1>6, IdleIsNone
     DEF ServeSave, draft, Saving, LiveIsFree, InFlight, Dirty, Sends
<1>. QED BY <1>7, <1>8, PartsAfter DEF Resumes, ServeSave, draft

LEMMA ServeChecklistStep ==
  ASSUME BoundsAssumption, IInv, ServeChecklist
  PROVE  IInv' /\ ~Resumes /\ ~GoesAhead /\ candidate' = candidate
<1>. History /\ Baseline /\ Shown /\ Saving /\ Beside
  BY Parts
<1>1. checklist \in Checklists
  BY IdleIsNone DEF ServeChecklist, Reached, Beside
<1>2. PICK layout \in Layouts :
            Apply(checklist, [pages[Latest] EXCEPT !.layout = layout])
  BY DEF ServeChecklist
<1>. DEFINE content == [pages[Latest] EXCEPT !.layout = layout]
<1>3. content \in Drafts /\ Apply(checklist, content)
  BY <1>2, NewestIsDraft DEF Drafts
<1>. HIDE DEF content
<1>4. /\ \E result, version : Tells(result, version)
                              /\ checklist' = Answer(checklist, result, version)
      /\ \/ pages' = pages
         \/ Latest < MaxVersions /\ pages' = Append(pages, content)
  BY <1>3, FailureTells, SuccessTells DEF Apply
<1>5. Grows
  BY <1>3, <1>4, PublishPart
<1>6. PICK result, version : Tells(result, version)
                             /\ checklist' = Answer(checklist, result, version)
  BY <1>4
<1>7. checklist' \in Checklists /\ Told(checklist)'
  BY <1>1, <1>6, AnswerIsChecklist DEF Tells, Told
<1>8. History' /\ Baseline' /\ Shown' /\ Saving' /\ ~Sends
  BY <1>5, BaselineGrows, ShownGrows, SavingGrows
     DEF ServeChecklist, route, coordinator, draft, Grows, Shown
<1>9. Beside' /\ ~GoesAhead
  BY <1>1, <1>7, IdleIsNone DEF ServeChecklist, Beside, GoesAhead
<1>. QED BY <1>8, <1>9, PartsAfter DEF Resumes, ServeChecklist, draft, coordinator

LEMMA PublishStep ==
  ASSUME BoundsAssumption, IInv, Publish
  PROVE  IInv' /\ ~Resumes /\ ~GoesAhead /\ candidate' = candidate
<1>. History /\ Baseline /\ Shown /\ Saving /\ Beside
  BY Parts
<1>1. Grows
  BY PublishPart DEF Publish
<1>2. History' /\ Baseline' /\ Shown' /\ Saving' /\ ~Sends /\ Beside' /\ ~GoesAhead
  BY <1>1, BaselineGrows, ShownGrows, SavingGrows, BesideGrows
     DEF Publish, route, coordinator, draft, Grows, Shown
<1>. QED BY <1>2, PartsAfter DEF Resumes, Publish, draft, coordinator

-------------------------------------------------------------------------------
(* Timers and answers. *)

LEMMA TimerFiresStep ==
  ASSUME BoundsAssumption, IInv, TimerFires
  PROVE  IInv' /\ ~Resumes /\ ~GoesAhead /\ candidate' = candidate
<1>. History /\ Baseline /\ Shown /\ Saving /\ Beside
  BY Parts
<1>1. /\ UNCHANGED <<pages, candidate, acknowledged, base, conflict, blocked,
                    flushes, checklist, loaded, asked, payload, place, edits, kept>>
      /\ timer' = FALSE
  BY DEF TimerFires, server, draft, route
<1>2. History' /\ Baseline' /\ Shown' /\ Beside' /\ ~GoesAhead
  BY <1>1, HistoryStays, BaselineStays, ShownStays, BesideStays DEF Baseline, Shown
<1>3. CASE blocked = "no" /\ Dirty /\ ~InFlight
  <2>1. request' = Sent(candidate, acknowledged, base) /\ status' = "saving"
    BY <1>3 DEF TimerFires
  <2>2. base \in Versions /\ asked' \in BOOLEAN
    BY <1>1, BoundsAssumption DEF Baseline, Shown, History, Versions
  <2>3. request' \in Requests /\ request'.stage = "queued"
    BY <2>1, <2>2, SentIsRequest DEF Baseline
  <2>4. Saving'
    BY <1>1, <1>3, <2>1, <2>3 DEF Saving, Told, LiveIsFree, Statuses
  <2>. QED BY <1>1, <1>2, <1>3, <2>4, PartsAfter DEF Resumes
<1>4. CASE ~(blocked = "no" /\ Dirty /\ ~InFlight)
  <2>1. UNCHANGED <<request, status>>
    BY <1>4 DEF TimerFires
  <2>2. Saving' /\ ~Sends
    BY <1>1, <2>1, SavingStays
  <2>. QED BY <1>1, <1>2, <2>2, PartsAfter DEF Resumes
<1>. QED BY <1>3, <1>4

\* The answer of a live save.
LEMMA SettlePart ==
  ASSUME BoundsAssumption, History, Saving, Beside, pages' = pages,
         request \in Requests, request.live,
         NEW v \in 1..Latest, v = request.version,
         NEW newer \in BOOLEAN, NEW content \in Drafts,
         ~newer => content = Canonical,
         Settle(content, v, newer)
  PROVE  /\ Baseline' /\ Saving' /\ Beside'
         /\ candidate' = content /\ blocked' = "no" /\ asked' = TRUE /\ conflict' = 0
         /\ GoesAhead => candidate' = acknowledged' /\ Accepted(candidate')
<1>1. /\ acknowledged' = pages[v] /\ candidate' = content /\ base' = v
      /\ asked' = TRUE /\ blocked' = blocked /\ conflict' = 0
  BY DEF Settle, Canonical
<1>2. Baseline' /\ History'
  BY <1>1, BaselineMoves, HistoryStays
<1>3. Accepted(acknowledged')
  BY <1>1 DEF Accepted
<1>4. blocked' = "no"
  BY <1>1, IdleIsNone DEF Saving, LiveIsFree, InFlight
<1>5. CASE flushes # {}
  <2>1. timer' = FALSE /\ Drain(flushes, "unsaved")
    BY <1>5 DEF Settle
  <2>2. /\ Saving' /\ Beside'
        /\ GoesAhead => candidate' = acknowledged'
    BY <1>1, <1>2, <1>4, <2>1, DrainPart DEF Saving, Statuses
  <2>. QED BY <1>1, <1>2, <1>3, <1>4, <2>2
<1>6. CASE flushes = {}
  <2>1. /\ timer' = (timer \/ newer)
        /\ status' = IF newer THEN "unsaved" ELSE "saved"
        /\ request' = Idle /\ flushes' = flushes /\ Abandon
    BY <1>6 DEF Settle
  <2>2. Told(request)' /\ LiveIsFree'
    BY <2>1, IdleIsNone, IdleIsTold DEF Told, LiveIsFree, InFlight
  <2>3. status' = "saved" => ~Dirty'
    BY <1>1, <2>1 DEF Dirty, Canonical
  <2>4. Saving'
    BY <1>4, <2>1, <2>2, <2>3 DEF Saving, Statuses
  <2>5. Beside' /\ ~GoesAhead
    BY <2>1, BesideStays DEF Abandon
  <2>. QED BY <1>1, <1>2, <1>4, <2>4, <2>5
<1>. QED BY <1>5, <1>6

LEMMA AcknowledgedStep ==
  ASSUME BoundsAssumption, IInv, request.stage = "answered", request.live,
         request.result = "success", Acknowledged,
         UNCHANGED <<server, loaded, payload, edits, kept>>
  PROVE  /\ IInv' /\ ~Resumes
         /\ GoesAhead => candidate' = acknowledged' /\ Accepted(candidate')
         /\ candidate' # candidate => ~request.touched
<1>. History /\ Baseline /\ Shown /\ Saving /\ Beside
  BY Parts
<1>. DEFINE content == IF Newer THEN candidate ELSE Canonical
<1>1. request \in Requests /\ request.version \in 1..Latest /\ pages' = pages
  BY IdleIsNone DEF Saving, Told, server
<1>2. Canonical \in Drafts
  BY <1>1 DEF Canonical, History, Latest
<1>3. content \in Drafts /\ (~Newer => content = Canonical)
  BY <1>2 DEF Baseline
<1>4. Settle(content, request.version, Newer)
  BY DEF Acknowledged
<1>5. Newer \in BOOLEAN
  BY <1>1 DEF Newer, Requests
<1>6. content # candidate => ~request.touched
  BY <1>1 DEF Newer, Requests
<1>. HIDE DEF content
<1>7. /\ Baseline' /\ Saving' /\ Beside'
      /\ candidate' = content /\ blocked' = "no" /\ asked' = TRUE /\ conflict' = 0
      /\ GoesAhead => candidate' = acknowledged' /\ Accepted(candidate')
  BY <1>1, <1>3, <1>4, <1>5, SettlePart
<1>8. History'
  BY <1>1, HistoryStays
<1>9. Shown'
  BY <1>1, <1>7, BoundsAssumption DEF Shown, Latest, History, Versions
<1>10. ~Resumes
  BY <1>1, IdleIsNone DEF Resumes, Saving, LiveIsFree, InFlight
<1>. QED BY <1>6, <1>7, <1>8, <1>9, <1>10, PartsAfter

LEMMA FailedStep ==
  ASSUME BoundsAssumption, IInv, request.stage = "answered",
         request.result # "success", Failed,
         UNCHANGED <<server, loaded, payload, edits, kept>>
  PROVE  IInv' /\ ~Resumes /\ ~GoesAhead /\ candidate' = candidate
<1>. History /\ Baseline /\ Shown /\ Saving /\ Beside
  BY Parts
<1>1. /\ UNCHANGED <<pages, candidate, acknowledged, base, conflict, loaded,
                    payload, edits, kept, timer, place, checklist>>
      /\ blocked' = request.result /\ status' = request.result
      /\ request' = Idle /\ flushes' = {}
      /\ asked' \in BOOLEAN
  BY DEF Failed, Abandon, server, draft, Shown
<1>2. request.result \in Stopped
  BY IdleIsNone DEF Saving, Told, Requests, Results
<1>3. History' /\ Baseline' /\ Shown' /\ Beside' /\ ~GoesAhead
  BY <1>1, HistoryStays, BaselineStays, ShownStays, BesideStays DEF Baseline, Shown
<1>4. Told(request)' /\ LiveIsFree' /\ ~Sends
  BY <1>1, IdleIsNone, IdleIsTold DEF Told, LiveIsFree, InFlight, Sends
<1>5. Saving'
  BY <1>1, <1>2, <1>4 DEF Saving, Statuses, Waiters, Stopped
<1>6. blocked' # "no"
  BY <1>1, <1>2 DEF Stopped
<1>. QED BY <1>1, <1>3, <1>4, <1>5, <1>6, PartsAfter DEF Resumes

LEMMA DroppedStep ==
  ASSUME BoundsAssumption, IInv, Dropped,
         UNCHANGED <<server, loaded, payload, edits, kept>>
  PROVE  /\ IInv' /\ ~Resumes
         /\ GoesAhead => candidate' = acknowledged' /\ Accepted(candidate')
         /\ candidate' = candidate
<1>. History /\ Baseline /\ Shown /\ Saving /\ Beside
  BY Parts
<1>1. /\ UNCHANGED <<pages, candidate, acknowledged, base, conflict, loaded,
                    payload, edits, kept, blocked>>
      /\ asked' \in BOOLEAN
  BY DEF Dropped, server, draft, Shown
<1>2. History' /\ Baseline' /\ Shown'
  BY <1>1, HistoryStays, BaselineStays, ShownStays DEF Baseline, Shown
<1>3. CASE flushes # {} /\ place # "gone"
  <2>1. timer' = FALSE /\ Drain(flushes, status)
    BY <1>3 DEF Dropped
  <2>2. /\ Saving' /\ Beside'
        /\ blocked' # "no" => request' = Idle
        /\ GoesAhead => candidate' = acknowledged'
    BY <1>1, <1>2, <2>1, DrainPart DEF Saving
  <2>3. candidate = acknowledged => Accepted(candidate)
    BY DEF Baseline, BaselineAccepted, Accepted
  <2>. QED BY <1>1, <1>2, <2>2, <2>3, PartsAfter DEF Resumes, Sends
<1>4. CASE ~(flushes # {} /\ place # "gone")
  <2>1. request' = Idle /\ flushes' = {} /\ UNCHANGED <<timer, status, place, checklist>>
    BY <1>4 DEF Dropped, Abandon
  <2>2. Told(request)' /\ LiveIsFree' /\ ~Sends
    BY <2>1, IdleIsNone, IdleIsTold DEF Told, LiveIsFree, InFlight, Sends
  <2>3. Saving'
    BY <1>1, <2>1, <2>2 DEF Saving, Waiters, Dirty
  <2>4. Beside' /\ ~GoesAhead
    BY <1>1, <2>1, BesideStays
  <2>. QED BY <1>1, <1>2, <2>2, <2>3, <2>4, PartsAfter DEF Resumes
<1>. QED BY <1>3, <1>4

LEMMA SaveAnsweredStep ==
  ASSUME BoundsAssumption, IInv, SaveAnswered
  PROVE  /\ IInv' /\ ~Resumes
         /\ GoesAhead => candidate' = acknowledged' /\ Accepted(candidate')
         /\ candidate' # candidate => request.live /\ ~request.touched
<1>1. request.stage = "answered" /\ UNCHANGED <<server, loaded, payload, edits, kept>>
  BY DEF SaveAnswered
<1>2. CASE request.live /\ request.result = "success" /\ Acknowledged
  BY <1>1, <1>2, AcknowledgedStep
<1>3. CASE request.live /\ request.result # "success" /\ Failed
  BY <1>1, <1>3, FailedStep
<1>4. CASE ~request.live /\ Dropped
  BY <1>1, <1>4, DroppedStep
<1>. QED BY <1>2, <1>3, <1>4 DEF SaveAnswered

LEMMA ChecklistAnsweredStep ==
  ASSUME BoundsAssumption, IInv, ChecklistAnswered
  PROVE  IInv' /\ ~Resumes /\ ~GoesAhead
<1>. History /\ Baseline /\ Shown /\ Saving /\ Beside
  BY Parts
<1>1. /\ checklist.stage = "answered" /\ checklist' = Idle
      /\ UNCHANGED <<pages, conflict, loaded, payload, place, edits, kept>>
  BY DEF ChecklistAnswered, server
<1>2. Beside' /\ ~GoesAhead
  BY <1>1, IdleIsTold, IdleIsNone DEF Beside, GoesAhead, Told
<1>3. CASE checklist.result = "success"
  <2>1. checklist.version \in 1..Latest
    BY <1>1, <1>3, IdleIsNone DEF Beside, Told
  <2>2. /\ Acknowledge(pages[checklist.version]) /\ base' = checklist.version
        /\ asked' = TRUE
    BY <1>3 DEF ChecklistAnswered
  <2>3. /\ Saving' /\ ~Sends /\ candidate' = pages[checklist.version]
        /\ acknowledged' = candidate'
    BY <1>1, <2>2, AcknowledgePart
  <2>4. pages[checklist.version] \in Drafts
    BY <2>1 DEF History, Latest
  <2>5. History' /\ Baseline' /\ Shown'
    BY <1>1, <2>1, <2>2, <2>3, <2>4, HistoryStays, BaselineMoves, ShownStays DEF Shown
  <2>. QED BY <1>2, <2>3, <2>5, PartsAfter DEF Resumes
<1>4. CASE checklist.result # "success"
  <2>1. UNCHANGED <<candidate, acknowledged, base, status, blocked, timer, request,
                    flushes, asked>>
    BY <1>4 DEF ChecklistAnswered, draft, coordinator
  <2>2. History' /\ Baseline' /\ Shown' /\ Saving' /\ ~Sends
    BY <1>1, <2>1, HistoryStays, BaselineStays, ShownStays, SavingStays
       DEF Baseline, Shown, Saving
  <2>. QED BY <1>2, <2>1, <2>2, PartsAfter DEF Resumes
<1>. QED BY <1>3, <1>4

-------------------------------------------------------------------------------
(* The route. *)

LEMMA AskRefreshStep ==
  ASSUME BoundsAssumption, IInv, AskRefresh
  PROVE  IInv' /\ ~Resumes /\ ~GoesAhead /\ candidate' = candidate
<1>. History /\ Baseline /\ Shown /\ Saving /\ Beside
  BY Parts
<1>1. /\ UNCHANGED <<pages, candidate, acknowledged, base, conflict, status, blocked,
                    timer, request, flushes, checklist, loaded, payload, place,
                    edits, kept>>
      /\ asked' = TRUE
  BY DEF AskRefresh, server, draft, coordinator
<1>2. /\ History' /\ Baseline' /\ Shown' /\ Saving' /\ Beside'
      /\ ~Sends /\ ~GoesAhead
  BY <1>1, HistoryStays, BaselineStays, ShownStays, SavingStays, BesideStays
     DEF Baseline, Shown, Saving
<1>. QED BY <1>1, <1>2, PartsAfter DEF Resumes

\* A call that is sent, or was sent already, is the same call.
LEMMA SentNowIsRequest ==
  ASSUME NEW call \in {Idle} \cup Requests
  PROVE  /\ SentNow(call) \in {Idle} \cup Requests
         /\ SentNow(call) = Idle <=> call = Idle
         /\ SentNow(call).stage = call.stage
         /\ call # Idle => /\ SentNow(call).live = call.live
                           /\ SentNow(call).result = call.result
                           /\ SentNow(call).version = call.version
<1>1. CASE call.stage = "queued"
  <2>1. call \in Requests
    BY <1>1, IdleIsNone
  <2>2. SentNow(call) = [call EXCEPT !.behind = FALSE]
    BY <1>1 DEF SentNow
  <2>3. /\ SentNow(call) \in Requests /\ SentNow(call).stage = call.stage
        /\ SentNow(call).live = call.live
        /\ SentNow(call).result = call.result
        /\ SentNow(call).version = call.version
    BY <2>1, <2>2 DEF Requests
  <2>. QED BY <2>1, <2>3, IdleIsNone
<1>2. CASE call.stage # "queued"
  <2>1. SentNow(call) = call
    BY <1>2 DEF SentNow
  <2>. QED BY <2>1
<1>. QED BY <1>1, <1>2

LEMMA SentNowIsChecklist ==
  ASSUME NEW call \in {Idle} \cup Checklists
  PROVE  /\ SentNow(call) \in {Idle} \cup Checklists
         /\ SentNow(call) = Idle <=> call = Idle
         /\ SentNow(call).stage = call.stage
         /\ call # Idle => /\ SentNow(call).result = call.result
                           /\ SentNow(call).version = call.version
<1>1. CASE call.stage = "queued"
  <2>1. call \in Checklists
    BY <1>1, IdleIsNone
  <2>2. SentNow(call) = [call EXCEPT !.behind = FALSE]
    BY <1>1 DEF SentNow
  <2>3. /\ SentNow(call) \in Checklists /\ SentNow(call).stage = call.stage
        /\ SentNow(call).result = call.result
        /\ SentNow(call).version = call.version
    BY <2>1, <2>2 DEF Checklists
  <2>. QED BY <2>1, <2>3, IdleIsNone
<1>2. CASE call.stage # "queued"
  <2>1. SentNow(call) = call
    BY <1>2 DEF SentNow
  <2>. QED BY <2>1
<1>. QED BY <1>1, <1>2

LEMMA RenderStep ==
  ASSUME BoundsAssumption, IInv, Render
  PROVE  IInv' /\ ~Resumes /\ ~GoesAhead /\ candidate' = candidate
<1>. History /\ Baseline /\ Shown /\ Saving /\ Beside
  BY Parts
<1>1. /\ UNCHANGED <<pages, candidate, acknowledged, base, conflict, status, blocked,
                    timer, flushes, loaded, place, edits, kept>>
      /\ asked' = FALSE /\ payload' = Latest
      /\ request' = SentNow(request) /\ checklist' = SentNow(checklist)
  BY DEF Render, server, draft
<1>2. History' /\ Baseline'
  BY <1>1, HistoryStays, BaselineStays DEF Baseline
<1>3. Shown'
  <2>1. Latest \in Nat /\ Latest' = Latest
    BY <1>1, BoundsAssumption DEF History, Versions, Latest
  <2>2. Latest \in 0..Latest
    BY <2>1
  <2>3. asked' \in BOOLEAN /\ edits' \in 0..MaxEdits
    BY <1>1 DEF Shown
  <2>. QED BY <1>1, <2>1, <2>2, <2>3 DEF Shown
<1>4. /\ request' \in {Idle} \cup Requests /\ request'.stage = request.stage
      /\ request' = Idle <=> request = Idle
      /\ request # Idle => request'.live = request.live
                           /\ request'.result = request.result
                           /\ request'.version = request.version
  BY <1>1, SentNowIsRequest DEF Saving
<1>5. Told(request)' /\ LiveIsFree' /\ ~Sends
  BY <1>1, <1>4, IdleIsNone DEF Saving, Told, Latest, LiveIsFree, InFlight, Sends
<1>6. Saving'
  BY <1>1, <1>4, <1>5 DEF Saving, Dirty
<1>7. /\ checklist' \in {Idle} \cup Checklists /\ checklist'.stage = checklist.stage
      /\ checklist' = Idle <=> checklist = Idle
      /\ checklist # Idle => checklist'.result = checklist.result
                             /\ checklist'.version = checklist.version
  BY <1>1, SentNowIsChecklist DEF Beside
<1>8. Beside' /\ ~GoesAhead
  BY <1>1, <1>7, IdleIsNone DEF Beside, Told, Latest, GoesAhead
<1>. QED BY <1>1, <1>2, <1>3, <1>5, <1>6, <1>8, PartsAfter DEF Resumes

\* A payload moves the base, resumes a stale save over an unchanged Page, is a
\* conflict, or is shown when nothing is unsaved.
LEMMA ConsideredPart ==
  ASSUME BoundsAssumption, History, Baseline, Saving, payload \in 1..Latest,
         conflict \in 0..Latest, pages' = pages, Considered
  PROVE  /\ Baseline' /\ Saving' /\ conflict' \in 0..Latest
         /\ Resumes => blocked = "stale" /\ pages[payload] = acknowledged
         /\ candidate' # candidate => ~Dirty /\ ~InFlight
<1>. Latest \in Nat
  BY BoundsAssumption DEF History, Versions
<1>1. CASE InFlight /\ ~Dirty /\ base' = payload /\ KeepEditing /\ UNCHANGED coordinator
  <2>1. Saving' /\ ~Sends /\ Baseline'
    BY <1>1, SavingStays, BaselineStays DEF KeepEditing, coordinator, Saving, Baseline
  <2>. QED BY <1>1, <2>1 DEF Resumes, KeepEditing, coordinator
<1>2. CASE Dirty /\ payload = base /\ KeepEditing /\ UNCHANGED <<base, coordinator>>
  <2>1. Saving' /\ ~Sends /\ Baseline'
    BY <1>2, SavingStays, BaselineStays DEF KeepEditing, coordinator, Saving, Baseline
  <2>. QED BY <1>2, <2>1 DEF Resumes, KeepEditing, coordinator
<1>3. CASE Dirty /\ payload # base /\ pages[payload] = acknowledged
           /\ base' = payload /\ KeepEditing /\ Rebase
  <2>1. Saving' /\ ~Sends /\ (blocked # "no" /\ blocked' = "no" => blocked = "stale")
    BY <1>3, RebasePart DEF KeepEditing
  <2>2. Baseline'
    BY <1>3, BaselineStays DEF KeepEditing, Baseline
  <2>. QED BY <1>3, <2>1, <2>2 DEF Resumes, KeepEditing
<1>4. CASE Dirty /\ payload # base /\ pages[payload] # acknowledged
           /\ conflict' = payload /\ Block("stale") /\ UNCHANGED draft
  <2>1. Saving' /\ ~Sends /\ blocked' = "stale"
    <3>1. UNCHANGED <<candidate, acknowledged>>
      BY <1>4 DEF draft
    <3>. QED BY <1>4, BlockPart
  <2>2. Baseline'
    BY <1>4, BaselineStays DEF draft, Baseline
  <2>. QED BY <1>4, <2>1, <2>2 DEF Resumes, draft
<1>5. CASE ~InFlight /\ ~Dirty /\ base' = payload /\ Acknowledge(pages[payload])
           /\ UNCHANGED conflict
  <2>1. /\ Saving' /\ candidate' = pages[payload] /\ acknowledged' = pages[payload]
        /\ ~Sends
    BY <1>5, AcknowledgePart
  <2>2. pages[payload] \in Drafts
    BY DEF History, Latest
  <2>3. Baseline'
    BY <1>5, <2>1, <2>2, BaselineMoves
  <2>. QED BY <1>5, <2>1, <2>3 DEF Resumes
<1>. QED BY <1>1, <1>2, <1>3, <1>4, <1>5 DEF Considered

LEMMA DeliverStep ==
  ASSUME BoundsAssumption, IInv, Deliver
  PROVE  /\ IInv' /\ ~GoesAhead
         /\ Resumes => blocked = "stale" /\ pages[payload] = acknowledged
         /\ candidate' # candidate => ~Dirty /\ ~InFlight
<1>. History /\ Baseline /\ Shown /\ Saving /\ Beside
  BY Parts
<1>1. /\ UNCHANGED <<pages, asked, checklist, place, edits, kept>>
      /\ payload' = 0 /\ loaded' = payload /\ payload # 0
  BY DEF Deliver, server
<1>2. payload \in 1..Latest /\ conflict \in 0..Latest /\ Latest \in Nat
  BY <1>1, BoundsAssumption DEF Shown, History, Versions
<1>3. History' /\ Beside' /\ ~GoesAhead
  BY <1>1, HistoryStays, BesideStays
<1>4. /\ Baseline' /\ Saving' /\ conflict' \in 0..Latest
      /\ Resumes => blocked = "stale" /\ pages[payload] = acknowledged
      /\ candidate' # candidate => ~Dirty /\ ~InFlight
  <2>1. CASE payload # loaded /\ Considered
    BY <1>1, <1>2, <2>1, ConsideredPart
  <2>2. CASE UNCHANGED <<draft, conflict, coordinator>>
    <3>1. Saving' /\ ~Sends /\ Baseline'
      BY <1>1, <2>2, SavingStays, BaselineStays DEF draft, coordinator, Saving, Baseline
    <3>. QED BY <1>2, <2>2, <3>1 DEF Resumes, draft, coordinator
  <2>. QED BY <2>1, <2>2 DEF Deliver
<1>5. Shown'
  BY <1>1, <1>2, <1>4 DEF Shown, Latest
<1>. QED BY <1>3, <1>4, <1>5, PartsAfter

-------------------------------------------------------------------------------
(* Theorems. *)

LEMMA Initially == BoundsAssumption /\ Init => IInv
<1>. SUFFICES ASSUME BoundsAssumption, Init PROVE IInv
  OBVIOUS
<1>1. PICK d \in Drafts : pages = <<d>>
  BY DEF Init
<1>2. pages \in Seq(Drafts) /\ Latest = 1 /\ pages[1] = d
  BY <1>1 DEF Latest
<1>3. History
  BY <1>2, BoundsAssumption DEF History, Versions
<1>4. Baseline
  <2>1. 1 \in 1..Latest /\ pages[1] = acknowledged
    BY <1>2 DEF Init
  <2>2. BaselineAccepted
    BY <2>1 DEF BaselineAccepted
  <2>. QED BY <1>2, <2>1, <2>2 DEF Init, Baseline
<1>5. Shown
  <2>1. 1 \in 1..Latest /\ 0 \in 0..Latest /\ 0 \in 0..MaxEdits
    BY <1>2, BoundsAssumption
  <2>2. asked \in BOOLEAN
    BY DEF Init
  <2>. QED BY <2>1, <2>2 DEF Init, Shown
<1>6. Saving /\ Beside
  BY IdleIsTold DEF Init, Saving, Beside, LiveIsFree, InFlight, Dirty, Statuses, Waiters
<1>. QED BY <1>3, <1>4, <1>5, <1>6, Parts

LEMMA Stuttering ==
  ASSUME IInv, UNCHANGED vars
  PROVE  IInv'
<1>. History /\ Baseline /\ Shown /\ Saving /\ Beside
  BY Parts
<1>1. UNCHANGED <<pages, candidate, acknowledged, base, conflict, status, blocked,
                  timer, request, flushes, checklist, loaded, asked, payload, place,
                  edits, kept>>
  BY DEF vars, server, draft, coordinator, route
<1>2. History' /\ Baseline' /\ Shown' /\ Saving' /\ Beside'
  BY <1>1, HistoryStays, BaselineStays, ShownStays, SavingStays, BesideStays
     DEF Baseline, Shown, Saving
<1>. QED BY <1>2, PartsAfter

LEMMA Inductive == BoundsAssumption /\ IInv /\ [Next]_vars => IInv'
<1>. SUFFICES ASSUME BoundsAssumption, IInv, [Next]_vars PROVE IInv'
  OBVIOUS
<1>1. CASE Machinery
  BY <1>1, TimerFiresStep, ServeSaveStep, SaveAnsweredStep, ServeChecklistStep,
     ChecklistAnsweredStep, RenderStep, DeliverStep, UnmountStep DEF Machinery
<1>2. CASE Owner
  BY <1>2, EditStep, AskFlushStep, TryAgainStep, KeepMineStep, UseLatestStep DEF Owner
<1>3. CASE Publish \/ AskRefresh
  BY <1>3, PublishStep, AskRefreshStep
<1>4. CASE UNCHANGED vars
  BY <1>4, Stuttering
<1>. QED BY <1>1, <1>2, <1>3, <1>4 DEF Next

\* The editor, its coordinator, the router and the server agree in every state
\* on what is saved, stopped and in flight, whatever order their events come in.
THEOREM Invariance == Spec => []IInv
<1>. USE BoundsAssumption
<1>1. Init => IInv
  BY Initially
<1>2. IInv /\ [Next]_vars => IInv'
  BY Inductive
<1>. QED BY <1>1, <1>2, PTL DEF Spec

\* Drafts, versions, calls and statuses stay in their types.
THEOREM TypeCorrect == Spec => []TypeOK
<1>1. IInv => TypeOK
  BY DEF IInv
<1>. QED BY <1>1, Invariance, PTL

\* "Saved" is shown only over a draft that some version holds (page-save-coordinator,
\* #applyStatus), however many answers were superseded before.
THEOREM SavedIsTrue == Spec => []SavedIsAccepted
<1>1. IInv => SavedIsAccepted
  BY DEF IInv
<1>. QED BY <1>1, Invariance, PTL

\* No refresh of the route and no answer to an older save replaces an unsaved draft.
THEOREM UnsavedStays == Spec => UnsavedIsKept
<1>. DEFINE Kept == candidate' # candidate =>
                      \/ edits' # edits
                      \/ UseLatest
                      \/ ~Dirty /\ ~InFlight
                      \/ SaveAnswered /\ request.live /\ ~request.touched
                      \/ ChecklistAnswered
<1>1. BoundsAssumption /\ IInv /\ [Next]_vars => [Kept]_vars
  <2>. SUFFICES ASSUME BoundsAssumption, IInv, Next PROVE Kept
    OBVIOUS
  <2>1. CASE Machinery
    BY <2>1, TimerFiresStep, ServeSaveStep, SaveAnsweredStep, ServeChecklistStep,
       RenderStep, DeliverStep, UnmountStep DEF Machinery
  <2>2. CASE Owner
    <3>1. ASSUME NEW d \in Drafts, Edit(d) PROVE edits' # edits
      BY <3>1 DEF Edit, IInv, TypeOK
    <3>. QED BY <2>2, <3>1, AskFlushStep, TryAgainStep, KeepMineStep DEF Owner
  <2>3. CASE Publish \/ AskRefresh
    BY <2>3, PublishStep, AskRefreshStep
  <2>. QED BY <2>1, <2>2, <2>3 DEF Next
<1>. HIDE DEF Kept
<1>2. IInv /\ [Next]_vars => [Kept]_vars
  BY <1>1, BoundsAssumption
<1>3. Spec => [][Kept]_vars
  BY <1>2, Invariance, PTL DEF Spec
<1>. QED BY <1>3 DEF UnsavedIsKept, Kept

\* After an error or a conflict nothing is sent until the owner asks for it, but
\* for a stale save over a Page that a refresh shows unchanged.
THEOREM StoppedWaits == Spec => StoppedIsHeld
<1>. DEFINE Held == blocked # "no" /\ (Sends \/ (blocked' = "no" /\ candidate' # acknowledged'))
                      => \/ TryAgain \/ KeepMine
                         \/ Deliver /\ blocked = "stale" /\ pages[payload] = acknowledged
<1>1. BoundsAssumption /\ IInv /\ [Next]_vars => [Held]_vars
  <2>. SUFFICES ASSUME BoundsAssumption, IInv, Next, Resumes
                PROVE  \/ TryAgain \/ KeepMine
                       \/ Deliver /\ blocked = "stale" /\ pages[payload] = acknowledged
    BY DEF Resumes
  <2>1. CASE Machinery
    BY <2>1, TimerFiresStep, ServeSaveStep, SaveAnsweredStep, ServeChecklistStep,
       ChecklistAnsweredStep, RenderStep, DeliverStep, UnmountStep DEF Machinery
  <2>2. CASE Owner
    BY <2>2, EditStep, AskFlushStep, UseLatestStep DEF Owner
  <2>3. CASE Publish \/ AskRefresh
    BY <2>3, PublishStep, AskRefreshStep
  <2>. QED BY <2>1, <2>2, <2>3 DEF Next
<1>. HIDE DEF Held
<1>2. IInv /\ [Next]_vars => [Held]_vars
  BY <1>1, BoundsAssumption
<1>3. Spec => [][Held]_vars
  BY <1>2, Invariance, PTL DEF Spec
<1>. QED BY <1>3 DEF StoppedIsHeld, Held

\* Navigation and the checklist go ahead only over a draft that the server has.
THEOREM FlushedBefore == Spec => FlushedFirst
<1>. DEFINE Cleared == \/ place = "editor" /\ place' = "leaving"
                       \/ checklist = Idle /\ checklist' # Idle
                       => candidate' = acknowledged' /\ Accepted(candidate')
<1>1. BoundsAssumption /\ IInv /\ [Next]_vars => [Cleared]_vars
  <2>. SUFFICES ASSUME BoundsAssumption, IInv, Next, GoesAhead
                PROVE  candidate' = acknowledged' /\ Accepted(candidate')
    BY DEF GoesAhead
  <2>1. CASE Machinery
    BY <2>1, TimerFiresStep, ServeSaveStep, SaveAnsweredStep, ServeChecklistStep,
       ChecklistAnsweredStep, RenderStep, DeliverStep, UnmountStep DEF Machinery
  <2>2. ASSUME candidate' = acknowledged', UNCHANGED <<candidate, acknowledged>>,
               BaselineAccepted
        PROVE  Accepted(candidate')
    BY <2>2 DEF BaselineAccepted, Accepted
  <2>3. ASSUME AskFlush("leave") \/ AskFlush("checklist") \/ AskFlush("save")
               \/ TryAgain \/ KeepMine
        PROVE  UNCHANGED acknowledged
    BY <2>3 DEF AskFlush, TryAgain, KeepMine, draft
  <2>4. CASE Owner
    BY <2>2, <2>3, <2>4, EditStep, AskFlushStep, TryAgainStep, KeepMineStep, UseLatestStep
       DEF Owner
  <2>5. CASE Publish \/ AskRefresh
    BY <2>5, PublishStep, AskRefreshStep
  <2>. QED BY <2>1, <2>4, <2>5 DEF Next
<1>. HIDE DEF Cleared
<1>2. IInv /\ [Next]_vars => [Cleared]_vars
  BY <1>1, BoundsAssumption
<1>3. Spec => [][Cleared]_vars
  BY <1>2, Invariance, PTL DEF Spec
<1>. QED BY <1>3 DEF FlushedFirst, Cleared
================================================================================
