------------------------------ MODULE PageEditing ------------------------------
(***************************************************************************)
(* One owner edits a Page in the document editor while others publish.     *)
(*                                                                         *)
(* The editor keeps a candidate and the baseline the server last accepted. *)
(* A serial coordinator saves the candidate after a pause, one request at  *)
(* a time; each save names the configuration head it was made against and  *)
(* the server refuses one whose head has moved.  Meanwhile the route is    *)
(* rendered anew, and the payload can arrive while a save is on its way.   *)
(*                                                                         *)
(* What happens when an answer arrives (the editor's continuation, the     *)
(* coordinator's, and those of the flushes that waited) runs in one go,    *)
(* before any other event, and is one action here.                         *)
(***************************************************************************)
EXTENDS Naturals, Sequences

CONSTANTS
    Titles, Layouts,    \* of the Page, up to pageDraftEquals
    MaxVersions,    \* bound: configuration versions
    MaxEdits        \* bound: edits of the owner

ASSUME BoundsAssumption == MaxVersions \in Nat \ {0} /\ MaxEdits \in Nat

VARIABLES
    pages,          \* the Page's content in each configuration version
    candidate,      \* candidateRef, and the coordinator's #candidate
    acknowledged,   \* acknowledgedDraftRef, and #acknowledged
    base,           \* currentnessRef: the version the next save names
    loaded,         \* loadedCurrentness: the last route payload considered
    conflict,       \* the version the conflict panel shows, or 0
    status,         \* the coordinator's #status
    blocked,        \* #blocked, or "no"
    timer,          \* a save is scheduled
    request,        \* the save in flight
    flushes,        \* who waits in flush(): "leave", "checklist", "save"
    checklist,      \* the checklist action in flight
    asked,          \* the route was asked to render again
    payload,        \* the version a rendered route shows, or 0
    place,          \* "editor", "leaving" (navigation pushed), "gone"
    edits,          \* how often the owner has edited
    kept            \* the version "Keep my version" was last chosen over

server == <<pages>>
draft == <<candidate, acknowledged, base>>
coordinator == <<status, blocked, timer, request, flushes>>
route == <<loaded, asked, payload>>
vars == <<server, draft, conflict, coordinator, checklist, route, place,
          edits, kept>>

Drafts == [title: Titles, layout: Layouts]
Versions == 1..MaxVersions
Latest == Len(pages)
Dirty == candidate # acknowledged       \* hasUnacknowledgedWork, hasLocalDraft
Stopped == {"error", "stale"}
Idle == [stage |-> "none"]
\* performPageSave: the title travels only when it differs from the baseline.
Sent(content, baseline, version) ==
    [stage |-> "queued", content |-> content, base |-> version,
     retitle |-> content.title # baseline.title,
     touched |-> FALSE, live |-> TRUE, behind |-> asked',
     result |-> "none", version |-> 0]

InFlight == request # Idle

Results == {"none", "success"} \cup Stopped
Requests ==
    [stage: {"queued", "answered"}, content: Drafts, base: Versions,
     retitle: BOOLEAN, touched: BOOLEAN, live: BOOLEAN, behind: BOOLEAN,
     result: Results, version: 0..MaxVersions]
Checklists ==
    [stage: {"queued", "answered"}, base: Versions, behind: BOOLEAN,
     result: Results, version: 0..MaxVersions]

TypeOK ==
    /\ pages \in Seq(Drafts) /\ Latest \in Versions
    /\ candidate \in Drafts /\ acknowledged \in Drafts
    /\ base \in 1..Latest /\ loaded \in 1..Latest
    /\ conflict \in 0..Latest /\ payload \in 0..Latest /\ kept \in 0..Latest
    /\ status \in {"saved", "unsaved", "saving"} \cup Stopped
    /\ blocked \in {"no"} \cup Stopped
    /\ timer \in BOOLEAN /\ asked \in BOOLEAN
    /\ request \in {Idle} \cup Requests
    /\ flushes \in SUBSET {"leave", "checklist", "save"}
    /\ checklist \in {Idle} \cup Checklists
    /\ place \in {"editor", "leaving", "gone"}
    /\ edits \in 0..MaxEdits

-----------------------------------------------------------------------------
(* What the coordinator's methods do, as parts of actions. *)

\* The continuation of flush() for everyone in `who', once nothing is left to
\* save or saving is blocked: navigation is pushed, and a checklist created,
\* only over a candidate that is acknowledged.
Finish(who, clean) ==
    /\ place' = IF "leave" \in who /\ clean THEN "leaving" ELSE place
    /\ checklist' = IF "checklist" \in who /\ clean
                    THEN [stage |-> "queued", base |-> base', behind |-> asked',
                          result |-> "none", version |-> 0]
                    ELSE checklist
Abandon == UNCHANGED <<place, checklist>>

\* The loop ends with the request it waited for.
MutDrain(who, calm) ==
    /\ request' = Idle
    /\ status' = calm
    /\ flushes' = {}
    /\ Finish(who, TRUE)

\* The loop of flush() after no request is in flight any more: drain what is
\* dirty, or finish.
Drain(who, calm) ==
    IF blocked' = "no" /\ candidate' # acknowledged'
    THEN /\ request' = Sent(candidate', acknowledged', base')
         /\ status' = "saving"
         /\ flushes' = who
         /\ Abandon
    ELSE /\ request' = Idle
         /\ status' = IF blocked' = "no" THEN "saved" ELSE calm
         /\ flushes' = {}
         /\ Finish(who, candidate' = acknowledged')

\* flush(), called when blocked' and the draft are settled.
Flush(who, calm) ==
    /\ timer' = FALSE
    /\ IF InFlight
       THEN /\ flushes' = flushes \cup {who}
            /\ status' = calm
            /\ UNCHANGED request
            /\ Abandon
       ELSE Drain({who}, calm)

\* A request whose answer will be discarded: #requestEpoch has moved.
Superseded == IF InFlight THEN [request EXCEPT !.live = FALSE] ELSE request

\* acknowledge(): a canonical draft replaces the candidate.
Acknowledge(canonical) ==
    /\ candidate' = canonical
    /\ acknowledged' = canonical
    /\ blocked' = "no"
    /\ timer' = FALSE
    /\ status' = "saved"
    /\ request' = Superseded
    /\ UNCHANGED flushes

Block(reason) ==
    /\ blocked' = reason
    /\ timer' = FALSE
    /\ status' = reason
    /\ request' = Superseded
    /\ UNCHANGED flushes

\* A refresh resumes a failed save too.
MutRebase ==
    /\ blocked' = "no"
    /\ status' = IF blocked # "no" THEN "unsaved" ELSE status
    /\ timer' = TRUE
    /\ UNCHANGED <<request, flushes>>

\* rebase(): only a stale save is resumed.
Rebase ==
    /\ blocked' = IF blocked = "stale" THEN "no" ELSE blocked
    /\ status' = IF blocked = "stale" THEN "unsaved" ELSE status
    /\ timer' = (timer \/ blocked' = "no")
    /\ UNCHANGED <<request, flushes>>

-----------------------------------------------------------------------------
(* The owner. *)

\* update() with a new draft.  Back at the baseline it clears a stopped save,
\* unless an answer is still to come.
Edit(content) ==
    /\ place # "gone" /\ edits < MaxEdits
    /\ content # candidate
    /\ edits' = edits + 1
    /\ candidate' = content
    /\ request' = IF InFlight THEN [request EXCEPT !.touched = TRUE] ELSE request
    /\ IF content # acknowledged
       THEN /\ blocked' = blocked
            /\ status' = IF blocked # "no" THEN blocked
                         ELSE IF InFlight THEN "saving" ELSE "unsaved"
            /\ timer' = (timer \/ blocked = "no")
       ELSE /\ blocked' = IF InFlight THEN blocked ELSE "no"
            /\ status' = IF InFlight THEN "saving" ELSE "saved"
            /\ UNCHANGED timer
    /\ UNCHANGED <<server, acknowledged, base, conflict, flushes, checklist,
                   route, place, kept>>

\* Cmd-S, a link or a lifecycle action, the checklist form.
AskFlush(who) ==
    /\ place = "editor" /\ who \notin flushes
    /\ who = "checklist" => checklist = Idle
    /\ UNCHANGED <<server, draft, blocked, conflict, route, edits, kept>>
    /\ Flush(who, status)

\* retry(): behind "Try again" and "Keep my version".
Retry ==
    /\ blocked' = "no"
    /\ IF Dirty
       THEN Flush("save", IF InFlight THEN "saving" ELSE "unsaved")
       ELSE status' = "saved" /\ UNCHANGED <<timer, request, flushes>> /\ Abandon

TryAgain ==
    /\ place = "editor" /\ status = "error" /\ conflict = 0
    /\ UNCHANGED <<server, draft, conflict, route, edits, kept>>
    /\ Retry

KeepMine ==
    /\ place = "editor" /\ conflict # 0
    /\ base' = conflict
    /\ kept' = conflict
    /\ conflict' = 0
    /\ UNCHANGED <<server, candidate, acknowledged, route, edits>>
    /\ Retry

UseLatest ==
    /\ place = "editor" /\ conflict # 0
    /\ Acknowledge(pages[conflict])
    /\ base' = conflict
    /\ conflict' = 0
    /\ UNCHANGED <<server, checklist, route, place, edits, kept>>

\* The new page is shown: dispose().
Unmount ==
    /\ place = "leaving"
    /\ place' = "gone"
    /\ timer' = FALSE
    /\ request' = Superseded
    /\ UNCHANGED <<server, draft, conflict, status, blocked, flushes, checklist,
                   route, edits, kept>>

-----------------------------------------------------------------------------
(* A save and its answer. *)

\* The scheduled callback after a quiet time or the longest wait: #runSave,
\* which joins a request that is in flight.
TimerFires ==
    /\ timer
    /\ timer' = FALSE
    /\ UNCHANGED <<server, draft, conflict, blocked, flushes, checklist, route,
                   place, edits, kept>>
    /\ IF blocked = "no" /\ Dirty /\ ~InFlight
       THEN /\ request' = Sent(candidate, acknowledged, base)
            /\ status' = "saving"
       ELSE UNCHANGED <<request, status>>

\* The router runs what it was asked in order: an action is sent once the
\* refresh that was asked before it is rendered.
Reached(call) == call.stage = "queued" /\ ~call.behind
SentNow(call) == IF call.stage = "queued" THEN [call EXCEPT !.behind = FALSE] ELSE call
Answer(call, result, version) ==
    [call EXCEPT !.stage = "answered", !.result = result, !.version = version]

\* applyDirectPageAction: the change is published over the head it was made
\* against, unless that has moved.  The call can fail, and its answer be lost.
Apply(call, content) ==
    \/ /\ call.base # Latest
       /\ call' = Answer(call, "stale", 0)
       /\ UNCHANGED pages
    \/ /\ call.base = Latest /\ Latest < MaxVersions /\ content # pages[Latest]
       /\ pages' = Append(pages, content)
       /\ \/ call' = Answer(call, "success", Latest + 1)
          \/ call' = Answer(call, "error", 0)
    \/ /\ call' = Answer(call, "error", 0)
       /\ UNCHANGED pages

\* save_page_layout without a title keeps the title that is there.
Saved(call) ==
    [title |-> IF call.retitle THEN call.content.title ELSE pages[Latest].title,
     layout |-> call.content.layout]

ServeSave ==
    /\ Reached(request)
    /\ Apply(request, Saved(request))
    /\ UNCHANGED <<draft, conflict, status, blocked, timer, flushes, checklist,
                   route, place, edits, kept>>

\* The answer of a live save: the baseline moves to it, and what is `newer' is
\* drained by a flush that waited, or scheduled.
Canonical == pages[request.version]
Settle(content, version, newer) ==
    /\ acknowledged' = Canonical
    /\ candidate' = content
    /\ base' = version
    /\ conflict' = 0
    /\ asked' = TRUE        \* revalidatePath
    /\ UNCHANGED blocked
    /\ IF flushes # {}
       THEN timer' = FALSE /\ Drain(flushes, "unsaved")
       ELSE /\ timer' = (timer \/ newer)
            /\ status' = IF newer THEN "unsaved" ELSE "saved"
            /\ request' = Idle
            /\ UNCHANGED flushes /\ Abandon

\* A draft the owner has changed since the request stays.
Newer == request.touched /\ candidate # Canonical

\* An old answer clears newer edits.
MutAcknowledged == Settle(Canonical, request.version, Newer)
\* A newer draft is called saved, and waits for the next edit.
MutAcknowledgedIdle ==
    Settle(IF Newer THEN candidate ELSE Canonical, request.version, FALSE)
Acknowledged ==
    Settle(IF Newer THEN candidate ELSE Canonical, request.version, Newer)

\* A failed save stops saving, and whoever waited for it.
Failed ==
    /\ blocked' = request.result
    /\ status' = request.result
    /\ asked' = (asked \/ request.result = "stale")
    /\ request' = Idle
    /\ flushes' = {}
    /\ Abandon
    /\ UNCHANGED <<draft, conflict, timer>>

\* The flushes that waited for a dropped answer are not told.
MutDropped ==
    /\ asked' = (asked \/ (request.result = "stale" /\ place # "gone"))
    /\ request' = Idle
    /\ UNCHANGED <<draft, conflict, blocked, timer, status, flushes>> /\ Abandon

\* The answer of a superseded save is dropped, but a stale one still asks for
\* a refresh, and the flushes that waited go on.
Dropped ==
    /\ asked' = (asked \/ (request.result = "stale" /\ place # "gone"))
    /\ UNCHANGED <<draft, conflict, blocked>>
    /\ IF flushes # {} /\ place # "gone"
       THEN timer' = FALSE /\ Drain(flushes, status)
       ELSE /\ request' = Idle
            /\ flushes' = {}
            /\ UNCHANGED <<timer, status>> /\ Abandon

SaveAnswered ==
    /\ request.stage = "answered"
    /\ payload = 0
    /\ \/ request.live /\ request.result = "success" /\ Acknowledged
       \/ request.live /\ request.result # "success" /\ Failed
       \/ ~request.live /\ Dropped
    /\ UNCHANGED <<server, loaded, payload, edits, kept>>

-----------------------------------------------------------------------------
(* The checklist form: a block, and perhaps a Table, made by the server. *)

ServeChecklist ==
    /\ Reached(checklist)
    /\ \E layout \in Layouts \ {pages[Latest].layout} :
            Apply(checklist, [pages[Latest] EXCEPT !.layout = layout])
    /\ UNCHANGED <<draft, conflict, coordinator, route, place, edits, kept>>

ChecklistAnswered ==
    /\ checklist.stage = "answered" /\ place # "gone"
    /\ payload = 0
    /\ checklist' = Idle
    /\ IF checklist.result = "success"
       THEN /\ Acknowledge(pages[checklist.version])
            /\ base' = checklist.version
            /\ asked' = TRUE
       ELSE UNCHANGED <<draft, coordinator, asked>>
    /\ UNCHANGED <<server, conflict, loaded, payload, place, edits, kept>>

-----------------------------------------------------------------------------
(* Other people, and the route. *)

\* Someone publishes: another version of this Page, or something else.
Publish ==
    /\ Latest < MaxVersions
    /\ \E content \in Drafts : pages' = Append(pages, content)
    /\ UNCHANGED <<draft, conflict, coordinator, checklist, route, place, edits,
                   kept>>

\* "Reload latest setup", or another control of the workspace that refreshes.
AskRefresh ==
    /\ place = "editor" /\ ~asked
    /\ asked' = TRUE
    /\ UNCHANGED <<server, draft, conflict, coordinator, checklist, loaded,
                   payload, place, edits, kept>>

\* A refresh that was asked after an action is rendered after its answer.
Render ==
    /\ asked /\ payload = 0 /\ place # "gone"
    /\ \A call \in {request, checklist} : call.stage # "none" => call.behind
    /\ asked' = FALSE
    /\ payload' = Latest
    /\ request' = SentNow(request)
    /\ checklist' = SentNow(checklist)
    /\ UNCHANGED <<server, draft, conflict, status, blocked, timer, flushes,
                   loaded, place, edits, kept>>

\* The editor's effect on a payload it has not considered.
KeepEditing == UNCHANGED <<candidate, acknowledged, conflict>>
Considered ==
    \* A request is settling and nothing is unsaved: only the currentness moves.
    \/ /\ InFlight /\ ~Dirty
       /\ base' = payload
       /\ KeepEditing /\ UNCHANGED coordinator
    \* The answer to an own save, behind newer edits.
    \/ /\ Dirty /\ payload = base
       /\ KeepEditing /\ UNCHANGED <<base, coordinator>>
    \* Only the head moved: the Page is still the baseline.
    \/ /\ Dirty /\ payload # base /\ pages[payload] = acknowledged
       /\ base' = payload
       /\ KeepEditing /\ Rebase
    \* The Page changed under an unsaved draft.
    \/ /\ Dirty /\ payload # base /\ pages[payload] # acknowledged
       /\ conflict' = payload
       /\ Block("stale")
       /\ UNCHANGED draft
    \* Nothing is unsaved: the latest Page is shown.
    \/ /\ ~InFlight /\ ~Dirty
       /\ base' = payload
       /\ Acknowledge(pages[payload])
       /\ UNCHANGED conflict

Deliver ==
    /\ payload # 0 /\ place # "gone"
    /\ payload' = 0
    /\ loaded' = payload
    /\ \/ payload # loaded /\ Considered
       \/ payload = loaded /\ UNCHANGED <<draft, conflict, coordinator>>
    /\ UNCHANGED <<server, asked, checklist, place, edits, kept>>

-----------------------------------------------------------------------------
Init ==
    /\ pages \in {<<d>> : d \in Drafts}
    /\ candidate = pages[1] /\ acknowledged = pages[1]
    /\ base = 1 /\ loaded = 1 /\ conflict = 0 /\ kept = 0
    /\ status = "saved" /\ blocked = "no" /\ timer = FALSE
    /\ request = Idle /\ flushes = {} /\ checklist = Idle
    /\ asked = FALSE /\ payload = 0
    /\ place = "editor" /\ edits = 0

\* What the browser, the router and the server do by themselves.
Machinery ==
    \/ TimerFires \/ ServeSave \/ SaveAnswered
    \/ ServeChecklist \/ ChecklistAnswered
    \/ Render \/ Deliver \/ Unmount

Owner ==
    \/ \E d \in Drafts : Edit(d)
    \/ \E who \in {"leave", "checklist", "save"} : AskFlush(who)
    \/ TryAgain \/ KeepMine \/ UseLatest

Next == Machinery \/ Owner \/ Publish \/ AskRefresh

Spec == Init /\ [][Next]_vars

\* Timers fire, the browser's tasks run, and a call ends, if only by failing.
Fairness ==
    /\ WF_vars(TimerFires) /\ WF_vars(ServeSave) /\ WF_vars(SaveAnswered)
    /\ WF_vars(ServeChecklist) /\ WF_vars(ChecklistAnswered)
    /\ WF_vars(Render) /\ WF_vars(Deliver)

FairSpec == Spec /\ Fairness

-----------------------------------------------------------------------------
(* What holds in every state, and the properties rest on. *)

\* The baseline is what some version holds.
BaselineAccepted == \E v \in 1..Latest : pages[v] = acknowledged

\* A save whose answer will count is not in flight while saving is stopped.
LiveIsFree == InFlight /\ request.live => blocked = "no"

\* An answer tells a version that there is, or why there is none.
Told(call) ==
    call.stage = "answered" =>
        /\ call.result # "none"
        /\ call.result = "success" => call.version \in 1..Latest

-----------------------------------------------------------------------------
(* Properties. *)

Accepted(content) == \E v \in 1..Latest : pages[v] = content

\* "Saved" is shown only over a draft that some version holds and with nothing
\* stopped, whatever answers, refreshes and choices came before.
SavedIsAccepted ==
    status = "saved" => ~Dirty /\ blocked = "no" /\ Accepted(candidate)

\* The inductive invariant.
IInv ==
    /\ TypeOK /\ BaselineAccepted /\ LiveIsFree
    /\ Told(request) /\ Told(checklist)
    /\ SavedIsAccepted

\* An unsaved draft, one changed back to the baseline during a save included, is
\* replaced only by the owner's edit or choice, by the answer to a save that sent
\* it as it is, or by a checklist that was asked for; never by a refresh, nor by
\* the answer to an older save.
UnsavedIsKept ==
    [][candidate' # candidate =>
         \/ edits' # edits
         \/ UseLatest
         \/ ~Dirty /\ ~InFlight
         \/ SaveAnswered /\ request.live /\ ~request.touched
         \/ ChecklistAnswered]_vars

Sends == request' # Idle /\ request'.stage = "queued" /\ request.stage # "queued"

\* After an error or a conflict an unsaved draft is neither sent nor released
\* until the owner asks for it; only a stale save is resumed, by a refresh that
\* shows the Page unchanged.
StoppedIsHeld ==
    [][blocked # "no" /\ (Sends \/ (blocked' = "no" /\ candidate' # acknowledged'))
         => \/ TryAgain \/ KeepMine
            \/ Deliver /\ blocked = "stale" /\ pages[payload] = acknowledged]_vars

\* Navigation, and a checklist, go ahead only over a draft the server has,
\* with no edit left behind.
FlushedFirst ==
    [][\/ place = "editor" /\ place' = "leaving"
       \/ checklist = Idle /\ checklist' # Idle
       => candidate' = acknowledged' /\ Accepted(candidate')]_vars

\* A flush ends, so that navigation is never barred for good.
FlushEnds == flushes # {} ~> (flushes = {} \/ place = "gone")

Unsaved ==
    /\ Dirty \/ (InFlight /\ candidate # request.content)
    /\ blocked = "no" /\ place # "gone"
Shadowed == InFlight /\ ~request.live
Underway == timer \/ (InFlight /\ request.live)

\* An edit is saved or visibly stopped in the end, unless a superseded save was
\* still in flight.
EditsAreSaved == (Unsaved /\ Underway /\ ~Shadowed) ~> (~Unsaved \/ Shadowed)

\* "Keeping your draft saves it over the latest Page as a new revision.": what
\* the owner chose to keep is what the Page then is.
KeptIsKept ==
    [][SaveAnswered /\ request.live /\ request.result = "success"
        /\ request.base = kept
        => pages[request.version] = request.content]_vars
=============================================================================
