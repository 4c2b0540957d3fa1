--------------------------- MODULE TableEditing_proofs ---------------------------
(***************************************************************************)
(* For any number of rows, columns, values and calls: IInv is an inductive *)
(* invariant of a Table's editor, the workspace around it and the calls    *)
(* that are under way.                                                     *)
(***************************************************************************)
EXTENDS TableEditing, TLAPS

-----------------------------------------------------------------------------
(* Calls in the router's queue. *)

\* A call is the one it was, but for whether its answer is still awaited.
Like(c, was) ==
  /\ c.kind = was.kind /\ c.stage = was.stage /\ c.ok = was.ok
  /\ c.cell = was.cell /\ c.rows = was.rows

LEMMA Unawaited ==
  ASSUME NEW call \in AnyCall
  PROVE  LET gone == [call EXCEPT !.live = FALSE]
         IN  gone \in AnyCall /\ Like(gone, call) /\ gone.live = FALSE
BY DEF AnyCall, Like

LEMMA SupersededIs ==
  ASSUME NEW queue \in Seq(AnyCall)
  PROVE  /\ Superseded(queue) \in Seq(AnyCall)
         /\ Len(Superseded(queue)) = Len(queue)
         /\ \A n \in 1..Len(queue) :
               /\ Like(Superseded(queue)[n], queue[n])
               /\ queue[n].kind \notin Loads => Superseded(queue)[n] = queue[n]
               /\ queue[n].kind \in Loads => Superseded(queue)[n].live = FALSE
<1>. DEFINE after == Superseded(queue)
<1>1. /\ DOMAIN queue = 1..Len(queue) /\ Len(queue) \in Nat
      /\ \A n \in 1..Len(queue) : queue[n] \in AnyCall
  OBVIOUS
<1>2. after = [n \in 1..Len(queue) |->
                 IF queue[n].kind \in Loads THEN [queue[n] EXCEPT !.live = FALSE] ELSE queue[n]]
  BY <1>1 DEF Superseded
<1>3. ASSUME NEW n \in 1..Len(queue)
      PROVE  /\ after[n] \in AnyCall
             /\ Like(after[n], queue[n])
             /\ queue[n].kind \notin Loads => after[n] = queue[n]
             /\ queue[n].kind \in Loads => after[n].live = FALSE
  <2>1. CASE queue[n].kind \in Loads
    <3>1. after[n] = [queue[n] EXCEPT !.live = FALSE]
      BY <1>2, <2>1
    <3>. QED
      BY <1>1, <2>1, <3>1, Unawaited
  <2>2. CASE queue[n].kind \notin Loads
    <3>1. after[n] = queue[n]
      BY <1>2, <2>2
    <3>. QED
      BY <1>1, <2>2, <3>1 DEF Like
  <2>. QED
    BY <2>1, <2>2
<1>. HIDE DEF after
<1>4. after \in [1..Len(queue) -> AnyCall]
  BY <1>2, <1>3
<1>5. after \in Seq(AnyCall) /\ Len(after) = Len(queue)
  BY <1>1, <1>4
<1>. QED
  BY <1>3, <1>5 DEF after

LEMMA AskIs ==
  ASSUME NEW kind \in {"write", "load", "more", "open", "paste", "structure", "refresh"}
  PROVE  /\ Ask(kind) \in AnyCall
         /\ Ask(kind).kind = kind /\ Ask(kind).stage = "queued" /\ Ask(kind).live = TRUE
BY BoundsAssumption DEF Ask, AnyCall, Values

LEMMA AskOfIs ==
  ASSUME NEW kind \in {"open", "paste"}, NEW cell \in Cells
  PROVE  /\ AskOf(kind, cell) \in AnyCall
         /\ AskOf(kind, cell).kind = kind /\ AskOf(kind, cell).stage = "queued"
         /\ AskOf(kind, cell).cell = cell
<1>1. /\ Ask(kind) \in AnyCall /\ Ask(kind).kind = kind /\ Ask(kind).stage = "queued"
  BY AskIs
<1>. QED
  BY <1>1 DEF AskOf, AnyCall

\* The queue without its first call if d = 1, and with `call' behind it if k = 1.
Passes(after, queue, d, k, call) ==
  /\ after \in Seq(AnyCall)
  /\ d <= Len(queue)
  /\ Len(after) = Len(queue) - d + k
  /\ \A n \in 1..(Len(queue) - d) : Like(after[n], queue[n + d])
  /\ k = 1 => after[Len(after)] = call
\* No load is superseded, or every one is.
LiveOn(after, queue, d) ==
  \A n \in 1..(Len(queue) - d) : after[n].live = queue[n + d].live
Dropped(after, queue, d) ==
  \A n \in 1..(Len(queue) - d) : queue[n + d].kind \in Loads => after[n].live = FALSE

LEMMA SamePasses ==
  ASSUME NEW queue \in Seq(AnyCall), NEW call
  PROVE  Passes(queue, queue, 0, 0, call) /\ LiveOn(queue, queue, 0)
BY DEF Passes, LiveOn, Like

LEMMA TailPasses ==
  ASSUME NEW queue \in Seq(AnyCall), queue # <<>>, NEW call
  PROVE  Passes(Tail(queue), queue, 1, 0, call) /\ LiveOn(Tail(queue), queue, 1)
BY DEF Passes, LiveOn, Like

LEMMA AppendPasses ==
  ASSUME NEW queue \in Seq(AnyCall), NEW after, NEW d \in {0, 1}, NEW call \in AnyCall,
         Passes(after, queue, d, 0, call)
  PROVE  /\ Passes(Append(after, call), queue, d, 1, call)
         /\ LiveOn(after, queue, d) => LiveOn(Append(after, call), queue, d)
         /\ Dropped(after, queue, d) => Dropped(Append(after, call), queue, d)
<1>1. /\ after \in Seq(AnyCall) /\ Len(after) = Len(queue) - d /\ d <= Len(queue)
      /\ Len(queue) \in Nat /\ Len(after) \in Nat
  BY DEF Passes
<1>2. /\ Append(after, call) \in Seq(AnyCall)
      /\ Len(Append(after, call)) = Len(after) + 1
      /\ Append(after, call)[Len(after) + 1] = call
      /\ \A n \in 1..Len(after) : Append(after, call)[n] = after[n]
  BY <1>1
<1>. QED
  BY <1>1, <1>2 DEF Passes, LiveOn, Dropped

LEMMA SupersededPasses ==
  ASSUME NEW queue \in Seq(AnyCall), NEW after, NEW d \in {0, 1}, NEW k \in {0, 1},
         NEW call \in AnyCall, call.kind \notin Loads, Passes(after, queue, d, k, call)
  PROVE  /\ Passes(Superseded(after), queue, d, k, call)
         /\ Dropped(Superseded(after), queue, d)
<1>1. /\ after \in Seq(AnyCall) /\ Len(after) = Len(queue) - d + k /\ d <= Len(queue)
      /\ Len(queue) \in Nat /\ Len(after) \in Nat
  BY DEF Passes
<1>2. /\ Superseded(after) \in Seq(AnyCall) /\ Len(Superseded(after)) = Len(after)
      /\ \A n \in 1..Len(after) :
               /\ Like(Superseded(after)[n], after[n])
               /\ after[n].kind \notin Loads => Superseded(after)[n] = after[n]
               /\ after[n].kind \in Loads => Superseded(after)[n].live = FALSE
  BY <1>1, SupersededIs
<1>3. ASSUME NEW n \in 1..(Len(queue) - d)
      PROVE  /\ Like(Superseded(after)[n], queue[n + d])
             /\ queue[n + d].kind \in Loads => Superseded(after)[n].live = FALSE
  <2>1. n \in 1..Len(after)
    BY <1>1
  <2>2. Like(after[n], queue[n + d])
    BY DEF Passes
  <2>. QED
    BY <1>2, <2>1, <2>2 DEF Like
<1>4. k = 1 => Superseded(after)[Len(after)] = call
  BY <1>1, <1>2 DEF Passes
<1>. QED
  BY <1>1, <1>2, <1>3, <1>4 DEF Passes, Dropped

-----------------------------------------------------------------------------
(* What a step does to the router's queue, and what it leaves of the parts of *)
(* the invariant that are about it.                                           *)

Step(d, k, call) == Passes(router', router, d, k, call)
Grows == \A cell \in Cells : current[cell] \subseteq current'[cell]

Entry == [cell: Cells, value: Values, latest: BOOLEAN]

LEMMA Calls ==
  ASSUME IInv
  PROVE  /\ router \in Seq(AnyCall) /\ Len(router) \in Nat /\ DOMAIN router = 1..Len(router)
         /\ \A n \in DOMAIN router : router[n] \in AnyCall
         /\ writes \in Seq(Entry)
         /\ Len(writes) \in Nat /\ DOMAIN writes = 1..Len(writes)
BY DEF IInv, TypeOK, Entry

\* A call after the step is one of those before it, or the new one.
LEMMA Origin ==
  ASSUME IInv, NEW d \in {0, 1}, NEW k \in {0, 1}, NEW call, Step(d, k, call),
         NEW n \in DOMAIN router'
  PROVE  /\ n \in Nat \ {0}
         /\ \/ /\ n \in 1..(Len(router) - d) /\ n + d \in DOMAIN router
               /\ Like(router'[n], router[n + d])
            \/ k = 1 /\ n = Len(router') /\ n = Len(router) - d + 1 /\ router'[n] = call
<1>1. /\ Len(router) \in Nat /\ DOMAIN router = 1..Len(router)
      /\ d <= Len(router)
      /\ router' \in Seq(AnyCall) /\ Len(router') = Len(router) - d + k
      /\ \A i \in 1..(Len(router) - d) : Like(router'[i], router[i + d])
      /\ k = 1 => router'[Len(router')] = call
  BY Calls DEF Step, Passes
<1>2. n \in 1..Len(router') /\ Len(router') \in Nat
  BY <1>1
<1>3. CASE n \in 1..(Len(router) - d)
  BY <1>1, <1>2, <1>3
<1>4. CASE n \notin 1..(Len(router) - d)
  BY <1>1, <1>2, <1>4
<1>. QED
  BY <1>3, <1>4

LEMMA AnswersStay ==
  ASSUME IInv, NEW d \in {0, 1}, NEW k \in {0, 1}, NEW call, Step(d, k, call),
         k = 1 => call.stage = "queued" /\ (call.kind \in {"open", "paste"} => call.cell \in Cells),
         Grows, IsCurrent(stored)'
  PROVE  AnswersAreCurrent'
<1>1. IsCurrent(stored)'
  OBVIOUS
<1>2. ASSUME NEW n \in DOMAIN router'
      PROVE  /\ router'[n].stage = "answered" =>
                   n = 1 /\ router'[n].rows \in [Cells -> Values]
                   /\ \A cell \in Cells : router'[n].rows[cell] \in current'[cell]
             /\ router'[n].kind \in {"open", "paste"} => router'[n].cell \in Cells
  <2>1. CASE k = 1 /\ router'[n] = call
    BY <2>1
  <2>2. CASE n + d \in DOMAIN router /\ Like(router'[n], router[n + d]) /\ n \in Nat \ {0}
    <3>1. router[n + d].stage = "answered" =>
            n + d = 1 /\ router[n + d].rows \in [Cells -> Values] /\ IsCurrent(router[n + d].rows)
      BY <2>2 DEF IInv, AnswersAreCurrent
    <3>2. router[n + d].kind \in {"open", "paste"} => router[n + d].cell \in Cells
      BY <2>2 DEF IInv, AnswersAreCurrent
    <3>3. n + d = 1 => n = 1
      BY <2>2
    <3>. QED
      BY <2>2, <3>1, <3>2, <3>3 DEF Like, IsCurrent, Grows
  <2>. QED
    BY <2>1, <2>2, Origin
<1>. QED
  BY <1>1, <1>2 DEF AnswersAreCurrent, IsCurrent

\* The calls that save edits, in a step that asks for no other.
LEMMA WriteStays ==
  ASSUME IInv, NEW d \in {0, 1}, NEW k \in {0, 1}, NEW call, Step(d, k, call),
         k = 1 => call.kind # "write",
         writes # <<>> => writes' # <<>> /\ writes'[1].value = writes[1].value,
         accepted' = accepted
  PROVE  OneWrite'
<1>1. ASSUME NEW n \in DOMAIN router', router'[n].kind = "write"
      PROVE  /\ n + d \in DOMAIN router /\ Like(router'[n], router[n + d])
             /\ router[n + d].kind = "write" /\ n \in Nat
  BY <1>1, Origin DEF Like
<1>2. ASSUME NEW n \in DOMAIN router', router'[n].kind = "write"
      PROVE  /\ writes' # <<>>
             /\ router'[n].stage = "answered" /\ router'[n].ok => writes'[1].value \in accepted'
  BY <1>1, <1>2 DEF IInv, OneWrite, Like
<1>3. ASSUME NEW m \in DOMAIN router', NEW n \in DOMAIN router',
             router'[m].kind = "write", router'[n].kind = "write"
      PROVE  m = n
  <2>1. m + d = n + d /\ m \in Nat /\ n \in Nat
    BY <1>1, <1>3 DEF IInv, OneWrite
  <2>. QED
    BY <2>1
<1>. QED
  BY <1>2, <1>3 DEF OneWrite

\* The queue of edits has none before the step, or its call leaves.
LEMMA WriteBegins ==
  ASSUME IInv, NEW d \in {0, 1}, Step(d, 1, WriteCall),
         \A n \in DOMAIN router : router[n].kind = "write" => d = 1 /\ n = 1,
         writes' # <<>>
  PROVE  OneWrite'
<1>1. ASSUME NEW n \in DOMAIN router', router'[n].kind = "write"
      PROVE  n = Len(router') /\ router'[n].stage = "queued"
  <2>1. CASE n + d \in DOMAIN router /\ Like(router'[n], router[n + d]) /\ n \in Nat \ {0}
    BY <1>1, <2>1 DEF Like
  <2>2. CASE n = Len(router') /\ router'[n] = WriteCall
    BY <2>2, AskIs DEF WriteCall
  <2>. QED
    BY <2>1, <2>2, Origin
<1>. QED
  BY <1>1 DEF OneWrite

LEMMA WriteEnds ==
  ASSUME IInv, NEW k \in {0, 1}, NEW call, Step(1, k, call), router[1].kind = "write",
         k = 1 => call.kind # "write"
  PROVE  OneWrite'
<1>1. ASSUME NEW n \in DOMAIN router', router'[n].kind = "write"
      PROVE  FALSE
  <2>1. n + 1 \in DOMAIN router /\ Like(router'[n], router[n + 1]) /\ n \in Nat \ {0}
    BY <1>1, Origin
  <2>2. router[n + 1].kind = "write" /\ 1 \in DOMAIN router
    BY <1>1, <2>1, Calls DEF Like
  <2>3. n + 1 = 1
    BY <2>1, <2>2 DEF IInv, OneWrite
  <2>. QED
    BY <2>1, <2>3
<1>. QED
  BY <1>1 DEF OneWrite

\* Loads that are awaited: a step leaves them, or supersedes them.
LEMMA LoadsStay ==
  ASSUME IInv, NEW d \in {0, 1}, NEW k \in {0, 1}, NEW call, Step(d, k, call),
         k = 1 => call.kind \notin Loads, LiveOn(router', router, d),
         \/ UNCHANGED <<pendingWrites, loading>>
         \/ d = 1 /\ Awaited(1) /\ pendingWrites' = pendingWrites
  PROVE  /\ \A n \in DOMAIN router' : Awaited(n)' => loading' /\ ~pendingWrites'
         /\ \A m, n \in DOMAIN router' : Awaited(m)' /\ Awaited(n)' => m = n
<1>1. ASSUME NEW n \in DOMAIN router', Awaited(n)'
      PROVE  n + d \in DOMAIN router /\ Awaited(n + d) /\ n \in Nat \ {0}
  <2>1. n \in Nat \ {0} /\ n \in 1..(Len(router) - d) /\ n + d \in DOMAIN router
        /\ Like(router'[n], router[n + d])
    BY <1>1, Origin DEF Awaited
  <2>. QED
    BY <1>1, <2>1 DEF Awaited, Like, LiveOn
<1>2. ASSUME d = 1, Awaited(1), NEW n \in DOMAIN router', Awaited(n)'
      PROVE  FALSE
  <2>1. n + 1 \in DOMAIN router /\ Awaited(n + 1) /\ n \in Nat \ {0} /\ 1 \in DOMAIN router
    BY <1>1, <1>2, Calls
  <2>2. n + 1 = 1
    BY <1>2, <2>1 DEF IInv, OneLoad
  <2>. QED
    BY <2>1, <2>2
<1>3. ASSUME NEW n \in DOMAIN router', Awaited(n)'
      PROVE  loading' /\ ~pendingWrites'
  BY <1>1, <1>2, <1>3 DEF IInv, OneLoad
<1>4. ASSUME NEW m \in DOMAIN router', NEW n \in DOMAIN router', Awaited(m)', Awaited(n)'
      PROVE  m = n
  <2>1. m + d = n + d /\ m \in Nat /\ n \in Nat
    BY <1>1, <1>4 DEF IInv, OneLoad
  <2>. QED
    BY <2>1
<1>. QED
  BY <1>3, <1>4

LEMMA LoadsDrop ==
  ASSUME IInv, NEW d \in {0, 1}, NEW k \in {0, 1}, NEW call, Step(d, k, call),
         Dropped(router', router, d),
         k = 1 /\ call.kind \in Loads => loading' /\ ~pendingWrites'
  PROVE  /\ \A n \in DOMAIN router' : Awaited(n)' => loading' /\ ~pendingWrites'
         /\ \A m, n \in DOMAIN router' : Awaited(m)' /\ Awaited(n)' => m = n
<1>1. ASSUME NEW n \in DOMAIN router', Awaited(n)'
      PROVE  k = 1 /\ n = Len(router') /\ router'[n] = call
  <2>1. CASE n \in 1..(Len(router) - d) /\ Like(router'[n], router[n + d])
    BY <1>1, <2>1 DEF Dropped, Like, Awaited
  <2>. QED
    BY <2>1, Origin
<1>2. ASSUME NEW n \in DOMAIN router', Awaited(n)'
      PROVE  loading' /\ ~pendingWrites'
  BY <1>1, <1>2 DEF Awaited
<1>. QED
  BY <1>1, <1>2

\* A load that was to come still is, when the call that leaves is no load.
LEMMA ComingStays ==
  ASSUME IInv, NEW d \in {0, 1}, NEW k \in {0, 1}, NEW call, Step(d, k, call),
         LiveOn(router', router, d), timer' = timer,
         d = 1 => ~(router[1].kind = "load" /\ router[1].live)
  PROVE  Coming => Coming'
<1>. SUFFICES ASSUME NEW n \in DOMAIN router, router[n].kind = "load", router[n].live
              PROVE  \E m \in DOMAIN router' : router'[m].kind = "load" /\ router'[m].live
  BY DEF Coming
<1>1. /\ Len(router) \in Nat /\ DOMAIN router = 1..Len(router) /\ d <= Len(router)
      /\ router' \in Seq(AnyCall) /\ Len(router') = Len(router) - d + k
  BY Calls DEF Step, Passes
<1>2. n - d \in 1..(Len(router) - d) /\ n - d + d = n
  <2>1. n # d
    BY <1>1
  <2>. QED
    BY <1>1, <2>1
<1>3. n - d \in DOMAIN router'
  BY <1>1, <1>2
<1>4. Like(router'[n - d], router[n]) /\ router'[n - d].live = router[n].live
  BY <1>2 DEF Step, Passes, LiveOn
<1>. QED
  BY <1>3, <1>4 DEF Like

\* What is not superseded stays what it is, at the head too.
LEMMA PastedStays ==
  ASSUME IInv, NEW k \in {0, 1}, NEW call, Step(0, k, call)
  PROVE  Pasted => Pasted'
<1>. SUFFICES ASSUME Pasted PROVE Pasted'
  OBVIOUS
<1>1. Len(router) \in Nat \ {0}
  BY Calls DEF Pasted
<1>2. router' \in Seq(AnyCall) /\ Len(router') \in Nat \ {0} /\ Like(router'[1], router[1 + 0])
  BY <1>1 DEF Step, Passes
<1>3. router' # <<>> /\ Like(router'[1], router[1])
  BY <1>2
<1>. QED
  BY <1>3 DEF Pasted, Like

-----------------------------------------------------------------------------
(* Rows, and the answer that is taken. *)

Table == [Cells -> Values]

LEMMA ReplayIs ==
  ASSUME TypeOK, NEW rows \in Table
  PROVE  /\ Replay(rows, attempted) \in Table
         /\ Unsaved = {} => Replay(rows, attempted) = rows
<1>1. \A cell \in Unsaved : attempted[cell].value \in Values
  BY DEF TypeOK
<1>. QED
  BY <1>1 DEF Replay, Table, Unsaved

LEMMA ReplacedIs ==
  ASSUME NEW rows \in Table, NEW with \in Table, NEW row
  PROVE  /\ Replaced(rows, row, with) \in Table
         /\ IsCurrent(rows) /\ IsCurrent(with) => IsCurrent(Replaced(rows, row, with))
BY DEF Replaced, Table, IsCurrent

LEMMA AnswerIs ==
  ASSUME IInv, NEW kind, Answered(kind)
  PROVE  /\ router # <<>> /\ 1 \in DOMAIN router /\ Len(router) \in Nat \ {0}
         /\ router[1] \in AnyCall /\ router[1].kind = kind
         /\ router[1].stage = "answered"
         /\ router[1].rows \in Table /\ IsCurrent(router[1].rows)
         /\ router[1].kind \in {"open", "paste"} => router[1].cell \in Cells
<1>1. router # <<>> /\ router[1].stage = "answered" /\ router[1].kind = kind
  BY DEF Answered
<1>2. Len(router) \in Nat \ {0} /\ 1 \in DOMAIN router /\ router[1] \in AnyCall
  BY <1>1, Calls
<1>. QED
  BY <1>1, <1>2 DEF IInv, AnswersAreCurrent, Table

-----------------------------------------------------------------------------
(* Steps that neither save nor drop an edit. *)

LEMMA EditsStay ==
  ASSUME NewestCounts, EditsAreKept, UNCHANGED <<attempted, pending, failed, writes, wanted, accepted>>
  PROVE  NewestCounts' /\ EditsAreKept'
<1>1. NewestCounts'
  BY DEF NewestCounts, Unsaved
<1>2. EditsAreKept'
  BY DEF EditsAreKept
<1>. QED
  BY <1>1, <1>2

AwaitedOnce ==
  /\ \A n \in DOMAIN router : Awaited(n) => loading /\ ~pendingWrites
  /\ \A m, n \in DOMAIN router : Awaited(m) /\ Awaited(n) => m = n

LEMMA QuietStep ==
  ASSUME IInv, TypeOK', NEW d \in {0, 1}, NEW k \in {0, 1}, NEW call, Step(d, k, call),
         k = 1 => /\ call.stage = "queued" /\ call.kind # "write"
                  /\ call.kind \in {"open", "paste"} => call.cell \in Cells,
         UNCHANGED <<stored, attempted, pending, failed, writes, wanted, past, pendingWrites>>,
         pendingWrites => ~timer', AwaitedOnce', CaughtUp'
  PROVE  IInv'
<1>1. current' = current /\ accepted' = accepted
  BY DEF past
<1>2. NewestCounts' /\ EditsAreKept'
  BY <1>1, EditsStay DEF IInv
<1>3. OneWrite'
  BY <1>1, WriteStays
<1>4. AnswersAreCurrent'
  <2>1. IsCurrent(stored)'
    BY <1>1 DEF IInv, AnswersAreCurrent, IsCurrent
  <2>. QED
    BY <1>1, <2>1, AnswersStay DEF Grows
<1>5. OneLoad'
  BY DEF IInv, OneLoad, AwaitedOnce, Unsaved
<1>. QED
  BY <1>2, <1>3, <1>4, <1>5 DEF IInv

\* A call is made.
LEMMA CallStep ==
  ASSUME IInv, NEW call \in AnyCall, Call(call), entered' \in Values,
         call.stage = "queued", call.kind \notin Loads \cup {"write"},
         call.kind \in {"open", "paste"} => call.cell \in Cells
  PROVE  IInv'
<1>1. /\ router' = Append(router, call) /\ calls' \in 0..MaxCalls
      /\ UNCHANGED <<stored, attempted, pending, failed, writes, wanted, past, pendingWrites>>
      /\ UNCHANGED <<shown, loaded, timer, loading, reloaded, current, accepted>>
  BY BoundsAssumption DEF Call, IInv, TypeOK, editor, workspace, past
<1>2. router \in Seq(AnyCall) /\ Passes(router, router, 0, 0, call) /\ LiveOn(router, router, 0)
  BY Calls, SamePasses
<1>3. Step(0, 1, call) /\ LiveOn(router', router, 0)
  BY <1>1, <1>2, AppendPasses DEF Step
<1>4. router' \in Seq(AnyCall)
  BY <1>3 DEF Step, Passes
<1>5. TypeOK'
  BY <1>1, <1>4 DEF IInv, TypeOK, Unsaved
<1>6. AwaitedOnce'
  BY <1>1, <1>3, LoadsStay DEF AwaitedOnce
<1>7. CaughtUp'
  <2>1. Coming => Coming'
    BY <1>1, <1>3, ComingStays
  <2>2. Pasted => Pasted'
    BY <1>3, PastedStays
  <2>. QED
    BY <1>1, <2>1, <2>2 DEF IInv, CaughtUp, IsCurrent
<1>8. pendingWrites => ~timer'
  BY <1>1 DEF IInv, OneLoad
<1>. QED
  BY <1>1, <1>3, <1>5, <1>6, <1>7, <1>8, QuietStep

LEMMA UserCallStep ==
  ASSUME IInv,
         \/ \E cell \in Cells : Open(cell) \/ Paste(cell)
         \/ ChangeStructure \/ RefreshRoute
  PROVE  IInv'
<1>1. entered \in Values
  BY DEF IInv, TypeOK
<1>2. ASSUME NEW cell \in Cells, Open(cell) PROVE IInv'
  BY <1>1, <1>2, AskOfIs, CallStep DEF Open, Loads
<1>3. ASSUME NEW cell \in Cells, Paste(cell) PROVE IInv'
  <2>. DEFINE call == [AskOf("paste", cell) EXCEPT !.value = entered + 1]
  <2>1. entered + 1 \in Values /\ entered' \in Values /\ Call(call)
    BY <1>1, <1>3, BoundsAssumption DEF Paste, Values
  <2>2. /\ call \in AnyCall /\ call.kind = "paste" /\ call.stage = "queued"
        /\ call.cell = cell
    BY <2>1, AskOfIs DEF AnyCall
  <2>. HIDE DEF call
  <2>. QED
    BY <2>1, <2>2, CallStep DEF Loads
<1>4. CASE ChangeStructure
  BY <1>1, <1>4, AskIs, CallStep DEF ChangeStructure, Loads
<1>5. CASE RefreshRoute
  BY <1>1, <1>5, AskIs, CallStep DEF RefreshRoute, Loads
<1>. QED
  BY <1>2, <1>3, <1>4, <1>5

\* A load begins: the timer fires, or more rows are asked for.
LEMMA LoadPageIs ==
  ASSUME IInv, NEW kind \in Loads, LoadPage(kind)
  PROVE  /\ Step(0, 1, Ask(kind)) /\ Dropped(router', router, 0)
         /\ router' \in Seq(AnyCall) /\ loading'
         /\ Ask(kind) \in AnyCall /\ Ask(kind).kind = kind /\ Ask(kind).stage = "queued"
         /\ Ask(kind).live = TRUE
<1>1. Ask(kind) \in AnyCall /\ Ask(kind).kind = kind /\ Ask(kind).stage = "queued"
      /\ Ask(kind).live = TRUE
  BY AskIs DEF Loads
<1>2. router' = Append(Superseded(router), Ask(kind)) /\ loading'
  BY DEF LoadPage
<1>3. Ask("refresh") \in AnyCall /\ Ask("refresh").kind \notin Loads
  BY AskIs DEF Loads
<1>4. router \in Seq(AnyCall) /\ Passes(router, router, 0, 0, Ask("refresh"))
  BY Calls, SamePasses
<1>5. Passes(Superseded(router), router, 0, 0, Ask("refresh"))
      /\ Dropped(Superseded(router), router, 0)
  BY <1>3, <1>4, SupersededPasses
<1>6. Passes(Superseded(router), router, 0, 0, Ask(kind))
  BY <1>5 DEF Passes
<1>7. Step(0, 1, Ask(kind)) /\ Dropped(router', router, 0)
  BY <1>1, <1>2, <1>4, <1>5, <1>6, AppendPasses DEF Step
<1>. QED
  BY <1>1, <1>2, <1>7 DEF Step, Passes

LEMMA LoadStep ==
  ASSUME IInv, Load
  PROVE  IInv'
<1>1. /\ timer /\ timer' = FALSE /\ LoadPage("load") /\ "load" \in Loads
      /\ UNCHANGED <<stored, attempted, pending, failed, writes, wanted, past, pendingWrites>>
      /\ UNCHANGED <<shown, loaded, reloaded, current, accepted, entered, calls>>
  BY DEF Load, editor, past, Loads
<1>2. /\ Step(0, 1, Ask("load")) /\ Dropped(router', router, 0)
      /\ router' \in Seq(AnyCall) /\ loading' /\ loading' = TRUE
      /\ Ask("load").kind = "load" /\ Ask("load").stage = "queued" /\ Ask("load").live = TRUE
  BY <1>1, LoadPageIs DEF LoadPage
<1>3. ~pendingWrites
  BY <1>1 DEF IInv, OneLoad
<1>4. TypeOK'
  BY <1>1, <1>2 DEF IInv, TypeOK, Unsaved
<1>5. AwaitedOnce'
  BY <1>1, <1>2, <1>3, LoadsDrop DEF AwaitedOnce
<1>6. Coming'
  <2>1. router' \in Seq(AnyCall) /\ Len(router') = Len(router) + 1 /\ Len(router) \in Nat
        /\ router'[Len(router')] = Ask("load")
    BY <1>2, Calls DEF Step, Passes
  <2>2. Len(router') \in DOMAIN router'
    BY <2>1
  <2>. QED
    BY <1>2, <2>1, <2>2 DEF Coming
<1>. QED
  BY <1>1, <1>2, <1>4, <1>5, <1>6, QuietStep DEF CaughtUp

LEMMA LoadMoreStep ==
  ASSUME IInv, LoadMore
  PROVE  IInv'
<1>1. /\ ~loading /\ ~pendingWrites /\ calls' \in 0..MaxCalls
      /\ LoadPage("more") /\ "more" \in Loads
      /\ UNCHANGED <<stored, attempted, pending, failed, writes, wanted, past, pendingWrites>>
      /\ UNCHANGED <<shown, loaded, timer, reloaded, current, accepted, entered>>
  BY BoundsAssumption DEF LoadMore, editor, past, Loads, IInv, TypeOK
<1>2. /\ Step(0, 1, Ask("more")) /\ Dropped(router', router, 0)
      /\ router' \in Seq(AnyCall) /\ loading' /\ loading' = TRUE
      /\ Ask("more").kind = "more" /\ Ask("more").stage = "queued"
  BY <1>1, LoadPageIs DEF LoadPage
<1>3. TypeOK'
  BY <1>1, <1>2 DEF IInv, TypeOK, Unsaved
<1>4. AwaitedOnce'
  BY <1>1, <1>2, LoadsDrop DEF AwaitedOnce
<1>5. Coming => Coming'
  BY <1>1 DEF IInv, OneLoad, Coming, Awaited, Loads
<1>6. Pasted => Pasted'
  BY <1>2, PastedStays
<1>7. CaughtUp'
  BY <1>1, <1>5, <1>6 DEF IInv, CaughtUp, IsCurrent
<1>. QED
  BY <1>1, <1>2, <1>3, <1>4, <1>7, QuietStep

-----------------------------------------------------------------------------
(* The workspace's effect runs. *)

LEMMA ScheduledIs ==
  ASSUME IInv, NEW queue, NEW d \in {0, 1}, NEW k \in {0, 1}, NEW call \in AnyCall,
         call.kind \notin Loads, Passes(queue, router, d, k, call),
         pendingWrites' \in BOOLEAN, Scheduled(queue)
  PROVE  /\ Step(d, k, call) /\ router' \in Seq(AnyCall)
         /\ timer' \in BOOLEAN /\ (pendingWrites' => ~timer')
         /\ AwaitedOnce' /\ CaughtUp'
<1>1. router' = Superseded(queue) /\ timer' = ~pendingWrites'
  BY DEF Scheduled
<1>2. router \in Seq(AnyCall)
  BY Calls
<1>3. Passes(Superseded(queue), router, d, k, call) /\ Dropped(Superseded(queue), router, d)
  BY <1>2, SupersededPasses
<1>4. Step(d, k, call) /\ Dropped(router', router, d)
  BY <1>1, <1>3 DEF Step
<1>5. AwaitedOnce'
  BY <1>4, LoadsDrop DEF AwaitedOnce
<1>6. timer' \in BOOLEAN /\ (pendingWrites' <=> ~timer')
  BY <1>1
<1>7. CaughtUp'
  BY <1>6 DEF CaughtUp, Coming
<1>. QED
  BY <1>4, <1>5, <1>6, <1>7 DEF Step, Passes

LEMMA RefreshedIs ==
  ASSUME IInv, NEW queue, NEW d \in {0, 1}, NEW call \in AnyCall,
         call.kind \notin Loads, Passes(queue, router, d, 0, call), LiveOn(queue, router, d),
         pendingWrites' = pendingWrites, loading' = loading, Refreshed(queue)
  PROVE  /\ Step(d, 0, call) /\ router' \in Seq(AnyCall)
         /\ timer' \in BOOLEAN /\ (pendingWrites' => ~timer')
         /\ AwaitedOnce' /\ CaughtUp'
<1>1. pendingWrites \in BOOLEAN /\ timer \in BOOLEAN
  BY DEF IInv, TypeOK
<1>2. CASE pendingWrites
  <2>1. router' = queue /\ timer' = timer
    BY <1>2 DEF Refreshed
  <2>2. Step(d, 0, call) /\ LiveOn(router', router, d)
    BY <2>1 DEF Step
  <2>3. AwaitedOnce'
    BY <2>2, LoadsStay DEF AwaitedOnce
  <2>4. CaughtUp'
    BY <1>2 DEF CaughtUp
  <2>5. pendingWrites' => ~timer'
    BY <2>1 DEF IInv, OneLoad
  <2>. QED
    BY <1>1, <2>1, <2>2, <2>3, <2>4, <2>5 DEF Step, Passes
<1>3. CASE ~pendingWrites
  <2>1. Scheduled(queue)
    BY <1>3 DEF Refreshed
  <2>. QED
    BY <1>1, <2>1, ScheduledIs
<1>. QED
  BY <1>2, <1>3

\* A call of no importance, for where none is added.
Other == Ask("refresh")
LEMMA OtherIs == Other \in AnyCall /\ Other.kind \notin Loads /\ Other.kind = "refresh"
                 /\ Other.stage = "queued"
BY AskIs DEF Other, Loads

LEMMA SearchStep ==
  ASSUME IInv, Search
  PROVE  IInv'
<1>1. /\ calls' \in 0..MaxCalls /\ pendingWrites' = pendingWrites /\ Scheduled(router)
      /\ UNCHANGED <<stored, attempted, pending, failed, writes, wanted, past, pendingWrites>>
      /\ UNCHANGED <<shown, loaded, loading, reloaded, current, accepted, entered>>
      /\ pendingWrites' \in BOOLEAN
  BY BoundsAssumption DEF Search, editor, past, IInv, TypeOK
<1>2. Passes(router, router, 0, 0, Other)
  BY Calls, SamePasses
<1>3. /\ Step(0, 0, Other) /\ router' \in Seq(AnyCall)
      /\ timer' \in BOOLEAN /\ (pendingWrites' => ~timer')
      /\ AwaitedOnce' /\ CaughtUp'
  BY <1>1, <1>2, OtherIs, ScheduledIs
<1>4. TypeOK'
  BY <1>1, <1>3 DEF IInv, TypeOK, Unsaved
<1>. QED
  BY <1>1, <1>3, <1>4, QuietStep

-----------------------------------------------------------------------------
(* Answers other than to an edit. *)

LEMMA TailIs ==
  ASSUME IInv, router # <<>>, router' = Tail(router)
  PROVE  Step(1, 0, Other) /\ LiveOn(router', router, 1) /\ router' \in Seq(AnyCall)
BY Calls, TailPasses DEF Step, Passes

LEMMA LoadAnsweredStep ==
  ASSUME IInv, LoadAnswered
  PROVE  IInv'
<1>1. /\ Answered("load") /\ router' = Tail(router)
      /\ UNCHANGED <<stored, attempted, pending, failed, writes, wanted, past, pendingWrites>>
      /\ UNCHANGED <<timer, current, accepted, entered, calls>>
  BY DEF LoadAnswered, past
<1>2. /\ router # <<>> /\ 1 \in DOMAIN router /\ router[1] \in AnyCall
      /\ router[1].kind = "load"
      /\ router[1].rows \in Table /\ IsCurrent(router[1].rows)
  BY <1>1, AnswerIs
<1>3. Step(1, 0, Other) /\ LiveOn(router', router, 1) /\ router' \in Seq(AnyCall)
  BY <1>1, <1>2, TailIs
<1>4. pendingWrites => ~timer'
  BY <1>1 DEF IInv, OneLoad
<1>5. CASE ~router[1].live
  <2>1. UNCHANGED <<loading, reloaded, loaded, shown>>
    BY <1>5 DEF LoadAnswered, Answer
  <2>2. TypeOK'
    BY <1>1, <1>3, <2>1 DEF IInv, TypeOK, Unsaved
  <2>3. AwaitedOnce'
    BY <1>1, <1>3, <2>1, LoadsStay DEF AwaitedOnce
  <2>4. Coming => Coming'
    BY <1>1, <1>3, <1>5, ComingStays
  <2>5. ~Pasted
    BY <1>2 DEF Pasted
  <2>6. CaughtUp'
    BY <1>1, <2>1, <2>4, <2>5 DEF IInv, CaughtUp, IsCurrent
  <2>. QED
    BY <1>1, <1>3, <1>4, <2>2, <2>3, <2>6, QuietStep
<1>6. CASE router[1].live
  <2>1. /\ loading' = FALSE /\ reloaded' = router[1].ok
        /\ IF router[1].ok THEN Adapter(router[1].rows) ELSE UNCHANGED <<loaded, shown>>
    BY <1>6 DEF LoadAnswered, Answer
  <2>2. Awaited(1)
    BY <1>2, <1>6 DEF Awaited, Loads
  <2>3. Unsaved = {}
    BY <1>2, <2>2 DEF IInv, OneLoad
  <2>4. router[1].ok => loaded' = router[1].rows /\ shown' = router[1].rows
    BY <1>2, <2>1, <2>3, ReplayIs DEF Adapter, IInv
  <2>5. TypeOK'
    <3>1. loaded' \in Table /\ shown' \in Table
      BY <1>2, <2>1, <2>4 DEF IInv, TypeOK, Table
    <3>2. reloaded' \in BOOLEAN /\ loading' \in BOOLEAN
      BY <1>2, <2>1 DEF AnyCall
    <3>. QED
      BY <1>1, <1>3, <3>1, <3>2 DEF IInv, TypeOK, Unsaved, Table
  <2>6. AwaitedOnce'
    BY <1>1, <1>3, <2>2, LoadsStay DEF AwaitedOnce
  <2>7. CaughtUp'
    BY <1>1, <1>2, <2>1, <2>4 DEF CaughtUp, IsCurrent
  <2>. QED
    BY <1>1, <1>3, <1>4, <2>5, <2>6, <2>7, QuietStep
<1>. QED
  BY <1>5, <1>6

LEMMA MoreAnsweredStep ==
  ASSUME IInv, MoreAnswered
  PROVE  IInv'
<1>1. /\ Answered("more") /\ router' = Tail(router)
      /\ loading' = (loading /\ ~router[1].live)
      /\ IF router[1].live /\ router[1].ok THEN Adapter(loaded) ELSE UNCHANGED <<loaded, shown>>
      /\ UNCHANGED <<stored, attempted, pending, failed, writes, wanted, past, pendingWrites>>
      /\ UNCHANGED <<timer, current, accepted, entered, calls, reloaded>>
  BY DEF MoreAnswered, past, Answer
<1>2. /\ router # <<>> /\ 1 \in DOMAIN router /\ router[1] \in AnyCall
      /\ router[1].kind = "more"
      /\ loading \in BOOLEAN /\ loaded \in Table /\ shown \in Table
  BY <1>1, AnswerIs DEF IInv, TypeOK, Table
<1>3. Step(1, 0, Other) /\ LiveOn(router', router, 1) /\ router' \in Seq(AnyCall)
  BY <1>1, <1>2, TailIs
<1>4. pendingWrites => ~timer'
  BY <1>1 DEF IInv, OneLoad
<1>5. router[1].live => Unsaved = {} /\ Awaited(1)
  BY <1>2 DEF IInv, OneLoad, Awaited, Loads
<1>6. loaded' = loaded /\ shown' \in {shown, loaded}
  BY <1>1, <1>2, <1>5, ReplayIs DEF Adapter, IInv
<1>7. TypeOK'
  BY <1>1, <1>2, <1>3, <1>6 DEF IInv, TypeOK, Unsaved, Table
<1>8. AwaitedOnce'
  <2>1. CASE router[1].live
    BY <1>1, <1>3, <1>5, <2>1, LoadsStay DEF AwaitedOnce
  <2>2. CASE ~router[1].live
    <3>1. loading' = loading
      BY <1>1, <1>2, <2>2
    <3>. QED
      BY <1>1, <1>3, <3>1, LoadsStay DEF AwaitedOnce
  <2>. QED
    BY <2>1, <2>2
<1>9. CaughtUp'
  <2>1. Coming => Coming'
    BY <1>1, <1>2, <1>3, ComingStays
  <2>2. ~Pasted
    BY <1>2 DEF Pasted
  <2>. QED
    BY <1>1, <1>6, <2>1, <2>2 DEF IInv, CaughtUp, IsCurrent
<1>. QED
  BY <1>1, <1>3, <1>4, <1>7, <1>8, <1>9, QuietStep

LEMMA RouteRefreshedStep ==
  ASSUME IInv, RouteRefreshed
  PROVE  IInv'
<1>1. /\ Answered("refresh") /\ Adapter(loaded) /\ Refreshed(Tail(router))
      /\ UNCHANGED <<stored, attempted, pending, failed, writes, wanted, past, pendingWrites>>
      /\ UNCHANGED <<loading, current, accepted, entered, calls, reloaded>>
  BY DEF RouteRefreshed, past
<1>2. router # <<>> /\ loaded \in Table
  BY <1>1, AnswerIs DEF IInv, TypeOK, Table
<1>3. Passes(Tail(router), router, 1, 0, Other) /\ LiveOn(Tail(router), router, 1)
  BY <1>2, Calls, TailPasses
<1>4. /\ Step(1, 0, Other) /\ router' \in Seq(AnyCall)
      /\ timer' \in BOOLEAN /\ (pendingWrites' => ~timer')
      /\ AwaitedOnce' /\ CaughtUp'
  BY <1>1, <1>3, OtherIs, RefreshedIs
<1>5. loaded' = loaded /\ shown' \in Table
  BY <1>1, <1>2, ReplayIs DEF Adapter, IInv
<1>6. TypeOK'
  BY <1>1, <1>2, <1>4, <1>5 DEF IInv, TypeOK, Unsaved, Table
<1>. QED
  BY <1>1, <1>4, <1>6, QuietStep

LEMMA OpenAnsweredStep ==
  ASSUME IInv, OpenAnswered
  PROVE  IInv'
<1>1. /\ Answered("open") /\ router' = Tail(router)
      /\ shown' = IF router[1].ok
                  THEN Replaced(shown, Row(router[1].cell), router[1].rows) ELSE shown
      /\ UNCHANGED <<stored, attempted, pending, failed, writes, wanted, past, pendingWrites>>
      /\ UNCHANGED <<loaded, timer, loading, current, accepted, entered, calls, reloaded>>
  BY DEF OpenAnswered, past, Answer, workspace
<1>2. /\ router # <<>> /\ router[1].kind = "open" /\ shown \in Table
      /\ router[1].rows \in Table /\ IsCurrent(router[1].rows)
  BY <1>1, AnswerIs DEF IInv, TypeOK, Table
<1>3. Step(1, 0, Other) /\ LiveOn(router', router, 1) /\ router' \in Seq(AnyCall)
  BY <1>1, <1>2, TailIs
<1>4. pendingWrites => ~timer'
  BY <1>1 DEF IInv, OneLoad
<1>5. shown' \in Table /\ (IsCurrent(shown) => IsCurrent(shown'))
  BY <1>1, <1>2, ReplacedIs
<1>6. TypeOK'
  BY <1>1, <1>3, <1>5 DEF IInv, TypeOK, Unsaved, Table
<1>7. AwaitedOnce'
  BY <1>1, <1>3, LoadsStay DEF AwaitedOnce
<1>8. CaughtUp'
  <2>1. Coming => Coming'
    BY <1>1, <1>2, <1>3, ComingStays
  <2>2. ~Pasted
    BY <1>2 DEF Pasted
  <2>. QED
    BY <1>1, <1>5, <2>1, <2>2 DEF IInv, CaughtUp, IsCurrent
<1>. QED
  BY <1>1, <1>3, <1>4, <1>6, <1>7, <1>8, QuietStep

LEMMA StructureAnsweredStep ==
  ASSUME IInv, StructureAnswered
  PROVE  IInv'
<1>1. /\ Answered("structure")
      /\ \/ router' = Append(Tail(router), Other) /\ shown' = router[1].rows
         \/ router' = Tail(router) /\ shown' = shown
      /\ UNCHANGED <<stored, attempted, pending, failed, writes, wanted, past, pendingWrites>>
      /\ UNCHANGED <<loaded, timer, loading, current, accepted, entered, calls, reloaded>>
  BY DEF StructureAnswered, past, Answer, workspace, Other
<1>2. /\ router # <<>> /\ router[1].kind = "structure" /\ shown \in Table
      /\ router[1].rows \in Table /\ IsCurrent(router[1].rows)
  BY <1>1, AnswerIs DEF IInv, TypeOK, Table
<1>3. Passes(Tail(router), router, 1, 0, Other) /\ LiveOn(Tail(router), router, 1)
  BY <1>2, Calls, TailPasses
<1>4. PICK k \in {0, 1} : Step(1, k, Other) /\ LiveOn(router', router, 1)
  <2>1. CASE router' = Tail(router)
    BY <1>3, <2>1 DEF Step
  <2>2. CASE router' = Append(Tail(router), Other)
    BY <1>3, <2>2, Calls, OtherIs, AppendPasses DEF Step
  <2>. QED
    BY <1>1, <2>1, <2>2
<1>5. pendingWrites => ~timer'
  BY <1>1 DEF IInv, OneLoad
<1>6. shown' \in Table /\ (IsCurrent(shown) => IsCurrent(shown'))
  BY <1>1, <1>2
<1>7. TypeOK'
  BY <1>1, <1>4, <1>6 DEF IInv, TypeOK, Unsaved, Table, Step, Passes
<1>8. AwaitedOnce'
  BY <1>1, <1>4, OtherIs, LoadsStay DEF AwaitedOnce
<1>9. CaughtUp'
  <2>1. Coming => Coming'
    BY <1>1, <1>2, <1>4, ComingStays
  <2>2. ~Pasted
    BY <1>2 DEF Pasted
  <2>. QED
    BY <1>1, <1>6, <2>1, <2>2 DEF IInv, CaughtUp, IsCurrent
<1>. QED
  BY <1>1, <1>4, <1>5, <1>7, <1>8, <1>9, OtherIs, QuietStep

LEMMA PasteAnsweredStep ==
  ASSUME IInv, PasteAnswered
  PROVE  IInv'
<1>1. /\ Answered("paste")
      /\ UNCHANGED <<stored, attempted, pending, failed, writes, wanted, past, pendingWrites>>
      /\ UNCHANGED <<loaded, loading, current, accepted, entered, calls, reloaded>>
  BY DEF PasteAnswered, past
<1>2. /\ router # <<>> /\ router[1].kind = "paste" /\ router[1].stage = "answered"
      /\ shown \in Table /\ router[1].rows \in Table
  BY <1>1, AnswerIs DEF IInv, TypeOK, Table
<1>3. CASE router[1].ok
  <2>1. /\ shown' = Replaced(shown, Row(router[1].cell), router[1].rows)
        /\ Refreshed(Tail(router))
    BY <1>3 DEF PasteAnswered, Answer
  <2>2. shown' \in Table
    BY <1>2, <2>1, ReplacedIs
  <2>3. Passes(Tail(router), router, 1, 0, Other) /\ LiveOn(Tail(router), router, 1)
    BY <1>2, Calls, TailPasses
  <2>4. /\ Step(1, 0, Other) /\ router' \in Seq(AnyCall)
        /\ timer' \in BOOLEAN /\ (pendingWrites' => ~timer')
        /\ AwaitedOnce' /\ CaughtUp'
    BY <1>1, <2>1, <2>3, OtherIs, RefreshedIs
  <2>5. TypeOK'
    BY <1>1, <2>2, <2>4 DEF IInv, TypeOK, Unsaved, Table
  <2>. QED
    BY <1>1, <2>4, <2>5, QuietStep
<1>4. CASE ~router[1].ok
  <2>1. router' = Tail(router) /\ UNCHANGED <<shown, timer>>
    BY <1>4 DEF PasteAnswered, Answer
  <2>2. Step(1, 0, Other) /\ LiveOn(router', router, 1) /\ router' \in Seq(AnyCall)
    BY <1>2, <2>1, TailIs
  <2>3. pendingWrites => ~timer'
    BY <2>1 DEF IInv, OneLoad
  <2>4. TypeOK'
    BY <1>1, <2>1, <2>2 DEF IInv, TypeOK, Unsaved
  <2>5. AwaitedOnce'
    BY <1>1, <2>2, LoadsStay DEF AwaitedOnce
  <2>6. CaughtUp'
    <3>1. Coming => Coming'
      BY <1>2, <2>1, <2>2, ComingStays
    <3>2. ~Pasted
      BY <1>4 DEF Pasted
    <3>. QED
      BY <1>1, <2>1, <3>1, <3>2 DEF IInv, CaughtUp, IsCurrent
  <2>. QED
    BY <1>1, <2>2, <2>3, <2>4, <2>5, <2>6, QuietStep
<1>. QED
  BY <1>3, <1>4

-----------------------------------------------------------------------------
(* The records change. *)

LEMMA ElsewhereStep ==
  ASSUME IInv, NEW cell \in Cells, Elsewhere(cell)
  PROVE  IInv'
<1>1. /\ entered + 1 \in Values /\ entered' = entered + 1
      /\ stored' = [stored EXCEPT ![cell] = entered + 1]
      /\ current' = [current EXCEPT ![cell] = @ \cup {entered + 1}]
      /\ UNCHANGED <<attempted, pending, failed, writes, wanted, accepted, pendingWrites>>
      /\ UNCHANGED <<shown, loaded, timer, loading, router, calls, reloaded>>
  BY BoundsAssumption DEF Elsewhere, editor, workspace, IInv, TypeOK, Values
<1>2. stored \in Table /\ current \in [Cells -> SUBSET Values]
  BY DEF IInv, TypeOK, Table
<1>3. Grows
  BY <1>1, <1>2 DEF Grows
<1>4. IsCurrent(stored)'
  BY <1>1, <1>2 DEF IInv, AnswersAreCurrent, IsCurrent, Table
<1>5. stored' \in Table /\ current' \in [Cells -> SUBSET Values]
  BY <1>1, <1>2 DEF Table
<1>6. TypeOK'
  BY <1>1, <1>5 DEF IInv, TypeOK, Unsaved, Table
<1>7. Step(0, 0, Other) /\ LiveOn(router', router, 0)
  BY <1>1, Calls, SamePasses DEF Step
<1>8. NewestCounts' /\ EditsAreKept'
  BY <1>1, EditsStay DEF IInv
<1>9. OneWrite'
  BY <1>1 DEF IInv, OneWrite
<1>10. AnswersAreCurrent'
  BY <1>3, <1>4, <1>7, AnswersStay
<1>11. OneLoad'
  BY <1>1 DEF IInv, OneLoad, Unsaved, Awaited
<1>12. CaughtUp'
  BY <1>1, <1>3 DEF IInv, CaughtUp, Coming, Pasted, IsCurrent, Grows
<1>. QED
  BY <1>6, <1>8, <1>9, <1>10, <1>11, <1>12 DEF IInv

LEMMA Queue ==
  ASSUME NEW S, NEW queue \in Seq(S), queue # <<>>
  PROVE  /\ Len(queue) \in Nat \ {0} /\ DOMAIN queue = 1..Len(queue)
         /\ queue[1] \in S /\ Head(queue) = queue[1]
         /\ Tail(queue) \in Seq(S) /\ Len(Tail(queue)) = Len(queue) - 1
         /\ \A n \in 1..(Len(queue) - 1) : Tail(queue)[n] = queue[n + 1]
OBVIOUS

\* While an edit's call is under way the workspace knows of unsaved edits.
LEMMA WriteIsKnown ==
  ASSUME IInv, NEW n \in DOMAIN router, router[n].kind = "write"
  PROVE  writes # <<>> /\ writes[1] \in Entry
         /\ Head(writes) = writes[1] /\ Len(writes) \in Nat \ {0} /\ pendingWrites
<1>1. writes # <<>>
  BY DEF IInv, OneWrite
<1>2. /\ Len(writes) \in Nat \ {0} /\ Len(writes) \in DOMAIN writes /\ 1 \in DOMAIN writes
      /\ writes[1] \in Entry
      /\ Head(writes) = writes[1]
  BY <1>1, Calls, Queue
<1>3. writes[Len(writes)].cell \in pending
  BY <1>1, <1>2 DEF IInv, NewestCounts
<1>4. pendingWrites
  BY <1>3 DEF IInv, TypeOK, OneLoad
<1>. QED
  BY <1>1, <1>2, <1>4

\* What the first call does to the records.
LEMMA ServedRecords ==
  ASSUME IInv, router # <<>>, router[1].stage = "queued",
         NEW done \in BOOLEAN, NEW ok \in BOOLEAN, ok => done,
         IF done /\ router[1].kind \in Writes
         THEN Put(Written.cell, Written.value, ok \/ router[1].kind = "write")
         ELSE UNCHANGED <<stored, past>>
  PROVE  /\ stored' \in Table /\ current' \in [Cells -> SUBSET Values]
         /\ accepted' \subseteq Values /\ accepted \subseteq accepted'
         /\ IsCurrent(stored)'
         /\ router[1].kind = "write" /\ ok => writes[1].value \in accepted'
         /\ router[1].kind = "write" \/ (router[1].kind = "paste" /\ ok) \/ Grows
<1>1. /\ 1 \in DOMAIN router /\ router[1] \in AnyCall
      /\ stored \in Table /\ current \in [Cells -> SUBSET Values]
      /\ accepted \subseteq Values /\ IsCurrent(stored)
  BY Calls DEF IInv, TypeOK, Table, AnswersAreCurrent
<1>2. CASE ~(done /\ router[1].kind \in Writes)
  <2>1. stored' = stored /\ current' = current /\ accepted' = accepted
    BY <1>2 DEF past
  <2>2. router[1].kind = "write" => ~ok
    BY <1>2 DEF Writes
  <2>. QED
    BY <1>1, <2>1, <2>2 DEF IsCurrent, Grows
<1>3. CASE done /\ router[1].kind \in Writes
  <2>. DEFINE cell == Written.cell
              value == Written.value
              told == ok \/ router[1].kind = "write"
  <2>1. /\ cell \in Cells /\ value \in Values
        /\ router[1].kind = "write" => value = writes[1].value
    <3>1. CASE router[1].kind = "write"
      BY <1>1, <3>1, WriteIsKnown DEF Written, Entry
    <3>2. CASE router[1].kind = "paste"
      BY <1>1, <3>2 DEF Written, IInv, AnswersAreCurrent, AnyCall
    <3>. QED
      BY <1>3, <3>1, <3>2 DEF Writes
  <2>2. /\ stored' = [stored EXCEPT ![cell] = value]
        /\ current' = [current EXCEPT ![cell] = (IF told THEN {} ELSE @) \cup {value}]
        /\ accepted' = accepted \cup {value}
    BY <1>3 DEF Put
  <2>3. ~told \/ router[1].kind = "write" \/ (router[1].kind = "paste" /\ ok)
    BY <1>3 DEF Writes
  <2>. HIDE DEF cell, value, told
  <2>4. stored' \in Table /\ current' \in [Cells -> SUBSET Values]
    BY <1>1, <2>1, <2>2 DEF Table
  <2>5. \A c \in Cells : stored'[c] \in current'[c]
    BY <1>1, <2>1, <2>2 DEF IsCurrent, Table
  <2>6. ~told => Grows
    BY <1>1, <2>1, <2>2 DEF Grows
  <2>. QED
    BY <1>1, <2>1, <2>2, <2>3, <2>4, <2>5, <2>6 DEF IsCurrent
<1>. QED
  BY <1>2, <1>3

LEMMA ServeStep ==
  ASSUME IInv, Serve
  PROVE  IInv'
<1>1. PICK done \in BOOLEAN, ok \in BOOLEAN :
        /\ ok => done
        /\ IF done /\ router[1].kind \in Writes
           THEN Put(Written.cell, Written.value, ok \/ router[1].kind = "write")
           ELSE UNCHANGED <<stored, past>>
        /\ router' = [router EXCEPT ![1] =
              [router[1] EXCEPT !.stage = "answered", !.ok = ok, !.rows = stored']]
  BY DEF Serve
<1>2. /\ router # <<>> /\ router[1].stage = "queued"
      /\ UNCHANGED <<attempted, pending, failed, writes, wanted, pendingWrites>>
      /\ UNCHANGED <<shown, loaded, timer, loading, entered, calls, reloaded>>
  BY DEF Serve, editor, workspace
<1>3. /\ 1 \in DOMAIN router /\ router[1] \in AnyCall /\ router \in Seq(AnyCall)
      /\ Len(router) \in Nat \ {0} /\ DOMAIN router = 1..Len(router)
  BY <1>2, Calls
<1>4. /\ stored' \in Table /\ current' \in [Cells -> SUBSET Values]
      /\ accepted' \subseteq Values /\ accepted \subseteq accepted'
      /\ IsCurrent(stored)'
      /\ router[1].kind = "write" /\ ok => writes[1].value \in accepted'
      /\ router[1].kind = "write" \/ (router[1].kind = "paste" /\ ok) \/ Grows
  BY <1>1, <1>2, ServedRecords
<1>. DEFINE served == [router[1] EXCEPT !.stage = "answered", !.ok = ok, !.rows = stored']
<1>5. /\ served \in AnyCall /\ served.kind = router[1].kind /\ served.stage = "answered"
      /\ served.ok = ok /\ served.rows = stored' /\ served.cell = router[1].cell
      /\ served.live = router[1].live
  BY <1>3, <1>4 DEF AnyCall, Table
<1>. HIDE DEF served
<1>6. /\ router' \in Seq(AnyCall) /\ DOMAIN router' = DOMAIN router
      /\ router' # <<>>
      /\ router'[1] = served /\ \A n \in DOMAIN router : n # 1 => router'[n] = router[n]
  BY <1>1, <1>3, <1>5 DEF served
<1>7. \A n \in DOMAIN router :
        router'[n].kind = router[n].kind /\ router'[n].live = router[n].live
        /\ router'[n].cell = router[n].cell
  BY <1>5, <1>6
<1>8. TypeOK'
  BY <1>2, <1>4, <1>6 DEF IInv, TypeOK, Unsaved, Table
<1>9. NewestCounts' /\ EditsAreKept'
  <2>1. NewestCounts'
    BY <1>2 DEF IInv, NewestCounts, Unsaved
  <2>2. EditsAreKept'
    BY <1>2, <1>4 DEF IInv, EditsAreKept
  <2>. QED
    BY <2>1, <2>2
<1>10. OneWrite'
  <2>1. ASSUME NEW n \in DOMAIN router', router'[n].kind = "write"
        PROVE  /\ writes' # <<>>
               /\ router'[n].stage = "answered" /\ router'[n].ok =>
                     writes'[1].value \in accepted'
    <3>1. CASE n = 1
      BY <1>2, <1>4, <1>5, <1>6, <1>7, <2>1, <3>1 DEF IInv, OneWrite
    <3>2. CASE n # 1
      BY <1>2, <1>4, <1>6, <2>1, <3>2 DEF IInv, OneWrite
    <3>. QED
      BY <3>1, <3>2
  <2>2. \A m, n \in DOMAIN router' :
            router'[m].kind = "write" /\ router'[n].kind = "write" => m = n
    BY <1>6, <1>7 DEF IInv, OneWrite
  <2>. QED
    BY <2>1, <2>2 DEF OneWrite
<1>11. AnswersAreCurrent'
  <2>1. ASSUME NEW n \in DOMAIN router'
        PROVE  /\ router'[n].stage = "answered" =>
                    n = 1 /\ router'[n].rows \in [Cells -> Values]
                    /\ \A cell \in Cells : router'[n].rows[cell] \in current'[cell]
               /\ router'[n].kind \in {"open", "paste"} => router'[n].cell \in Cells
    <3>1. router'[n].kind \in {"open", "paste"} => router'[n].cell \in Cells
      BY <1>6, <1>7 DEF IInv, AnswersAreCurrent
    <3>2. CASE n = 1
      BY <1>4, <1>5, <1>6, <3>1, <3>2 DEF IsCurrent, Table
    <3>3. CASE n # 1
      BY <1>6, <3>1, <3>3 DEF IInv, AnswersAreCurrent
    <3>. QED
      BY <3>2, <3>3
  <2>. QED
    BY <1>4, <2>1 DEF AnswersAreCurrent, IsCurrent
<1>12. OneLoad'
  <2>1. \A n \in DOMAIN router' : n \in DOMAIN router /\ (Awaited(n)' <=> Awaited(n))
    BY <1>6, <1>7 DEF Awaited
  <2>. QED
    BY <1>2, <2>1 DEF IInv, OneLoad, Unsaved
<1>13. CaughtUp'
  <2>. SUFFICES ASSUME ~pendingWrites, reloaded, ~Coming', ~Pasted'
                PROVE  IsCurrent(loaded)' /\ IsCurrent(shown)'
    BY <1>2 DEF CaughtUp
  <2>1. ~Coming
    BY <1>2, <1>6, <1>7 DEF Coming
  <2>2. ~Pasted
    BY <1>2 DEF Pasted
  <2>3. router[1].kind # "write"
    BY <1>3, WriteIsKnown
  <2>4. ~(router[1].kind = "paste" /\ ok)
    BY <1>5, <1>6 DEF Pasted
  <2>5. Grows
    BY <1>4, <2>3, <2>4
  <2>. QED
    BY <1>2, <2>1, <2>2, <2>5 DEF IInv, CaughtUp, IsCurrent, Grows
<1>. QED
  BY <1>8, <1>9, <1>10, <1>11, <1>12, <1>13 DEF IInv

-----------------------------------------------------------------------------
(* An edit is entered, tried again or given up. *)

\* The edits of a cell that are no longer its newest.
Marked(cell) ==
  [n \in DOMAIN writes |->
      IF writes[n].cell = cell THEN [writes[n] EXCEPT !.latest = FALSE] ELSE writes[n]]

LEMMA MarkedIs ==
  ASSUME IInv, NEW cell
  PROVE  /\ Marked(cell) \in Seq(Entry) /\ Len(Marked(cell)) = Len(writes)
         /\ \A n \in 1..Len(writes) :
               /\ Marked(cell)[n].cell = writes[n].cell
               /\ Marked(cell)[n].value = writes[n].value
               /\ Marked(cell)[n].latest <=> writes[n].latest /\ writes[n].cell # cell
<1>. DEFINE after == Marked(cell)
<1>1. /\ writes \in Seq(Entry) /\ Len(writes) \in Nat /\ DOMAIN writes = 1..Len(writes)
      /\ \A n \in 1..Len(writes) : writes[n] \in Entry
  BY Calls
<1>2. ASSUME NEW n \in 1..Len(writes)
      PROVE  /\ after[n] \in Entry
             /\ after[n].cell = writes[n].cell /\ after[n].value = writes[n].value
             /\ after[n].latest <=> writes[n].latest /\ writes[n].cell # cell
  <2>1. after[n] = IF writes[n].cell = cell
                   THEN [writes[n] EXCEPT !.latest = FALSE] ELSE writes[n]
    BY <1>1 DEF Marked
  <2>2. writes[n] \in Entry
    BY <1>1
  <2>. QED
    BY <2>1, <2>2 DEF Entry
<1>3. after = [n \in 1..Len(writes) |-> after[n]]
  BY <1>1 DEF Marked
<1>. HIDE DEF after
<1>4. after \in [1..Len(writes) -> Entry]
  BY <1>2, <1>3
<1>5. after \in Seq(Entry) /\ Len(after) = Len(writes)
  BY <1>1, <1>4
<1>. QED
  BY <1>2, <1>5 DEF after

LEMMA SaveStep ==
  ASSUME IInv, NEW cell \in Cells, NEW value \in Values, NEW previous \in Values,
         Save(cell, value, previous), entered' \in Values,
         UNCHANGED <<stored, loaded, loading, calls, past, reloaded>>
  PROVE  IInv'
<1>. DEFINE newest == [cell |-> cell, value |-> value, latest |-> TRUE]
            queue == IF writes = <<>> THEN Append(router, WriteCall) ELSE router
<1>1. /\ attempted' = [c \in Unsaved \cup {cell} |->
                        IF c = cell THEN [value |-> value, previous |-> previous]
                        ELSE attempted[c]]
      /\ pending' = pending \cup {cell} /\ failed' = failed \ {cell}
      /\ shown' = [shown EXCEPT ![cell] = value]
      /\ writes' = Append(Marked(cell), newest)
      /\ pendingWrites' = TRUE /\ Scheduled(queue)
      /\ wanted' = [wanted EXCEPT ![cell] = value]
      /\ current' = current /\ accepted' = accepted
  BY DEF Save, Marked, past
<1>2. /\ Unsaved' = Unsaved \cup {cell}
      /\ attempted'[cell] = [value |-> value, previous |-> previous]
      /\ \A c \in Unsaved : c # cell => attempted'[c] = attempted[c]
  BY <1>1 DEF Unsaved
<1>3. /\ writes \in Seq(Entry) /\ Len(writes) \in Nat /\ DOMAIN writes = 1..Len(writes)
      /\ wanted \in Table /\ shown \in Table
  BY Calls DEF IInv, TypeOK, Table
<1>4. newest \in Entry /\ newest.cell = cell /\ newest.value = value /\ newest.latest
  BY DEF Entry
<1>5. /\ Marked(cell) \in Seq(Entry) /\ Len(Marked(cell)) = Len(writes)
      /\ \A n \in 1..Len(writes) :
            /\ Marked(cell)[n].cell = writes[n].cell
            /\ Marked(cell)[n].value = writes[n].value
            /\ Marked(cell)[n].latest <=> writes[n].latest /\ writes[n].cell # cell
  BY MarkedIs
<1>. HIDE DEF newest
<1>6. /\ writes' \in Seq(Entry) /\ writes' # <<>> /\ Len(writes') = Len(writes) + 1
      /\ DOMAIN writes' = 1..(Len(writes) + 1)
      /\ writes'[Len(writes) + 1] = newest
      /\ \A n \in 1..Len(writes) : writes'[n] = Marked(cell)[n]
  BY <1>1, <1>3, <1>4, <1>5
<1>7. WriteCall \in AnyCall /\ WriteCall.kind = "write" /\ WriteCall.kind \notin Loads
      /\ WriteCall.stage = "queued"
  BY AskIs DEF WriteCall, Loads
<1>8. router \in Seq(AnyCall) /\ Passes(router, router, 0, 0, WriteCall)
  BY Calls, SamePasses
<1>9. /\ \E k \in {0, 1} : Step(0, k, WriteCall)
      /\ router' \in Seq(AnyCall)
      /\ timer' \in BOOLEAN /\ (pendingWrites' => ~timer')
      /\ AwaitedOnce' /\ CaughtUp' /\ OneWrite'
  <2>1. CASE writes = <<>>
    <3>1. Passes(queue, router, 0, 1, WriteCall)
      BY <1>7, <1>8, <2>1, AppendPasses
    <3>. HIDE DEF queue
    <3>2. /\ Step(0, 1, WriteCall) /\ router' \in Seq(AnyCall)
          /\ timer' \in BOOLEAN /\ (pendingWrites' => ~timer')
          /\ AwaitedOnce' /\ CaughtUp'
      BY <1>1, <1>7, <3>1, ScheduledIs
    <3>3. \A n \in DOMAIN router : router[n].kind # "write"
      BY <2>1 DEF IInv, OneWrite
    <3>4. OneWrite'
      BY <1>6, <3>2, <3>3, WriteBegins
    <3>. QED
      BY <3>2, <3>4
  <2>2. CASE writes # <<>>
    <3>1. Passes(queue, router, 0, 0, WriteCall)
      BY <1>8, <2>2
    <3>. HIDE DEF queue
    <3>2. /\ Step(0, 0, WriteCall) /\ router' \in Seq(AnyCall)
          /\ timer' \in BOOLEAN /\ (pendingWrites' => ~timer')
          /\ AwaitedOnce' /\ CaughtUp'
      BY <1>1, <1>7, <3>1, ScheduledIs
    <3>3. writes' # <<>> /\ writes'[1].value = writes[1].value
      <4>1. 1 \in 1..Len(writes)
        BY <1>3, <2>2
      <4>. QED
        BY <1>5, <1>6, <4>1
    <3>4. OneWrite'
      BY <1>1, <3>2, <3>3, WriteStays
    <3>. QED
      BY <3>2, <3>4
  <2>. QED
    BY <2>1, <2>2
<1>. HIDE DEF queue
<1>10. TypeOK'
  <2>1. shown' \in Table /\ wanted' \in Table
    BY <1>1, <1>3 DEF Table
  <2>2. \A c \in Unsaved' : attempted'[c] \in [value: Values, previous: Values]
    BY <1>2 DEF IInv, TypeOK
  <2>3. Unsaved' \subseteq Cells /\ pending' \subseteq Unsaved' /\ failed' \subseteq Unsaved'
    BY <1>1, <1>2 DEF IInv, TypeOK
  <2>. QED
    BY <1>1, <1>6, <1>9, <2>1, <2>2, <2>3 DEF IInv, TypeOK, Table, Entry
<1>11. NewestCounts'
  <2>1. ASSUME NEW n \in DOMAIN writes', writes'[n].latest
        PROVE  /\ writes'[n].cell \in pending' /\ writes'[n].value = wanted'[writes'[n].cell]
               /\ n = Len(writes) + 1 \/ (n \in DOMAIN writes /\ writes[n].latest
                                          /\ writes'[n].cell = writes[n].cell
                                          /\ writes[n].cell # cell)
    <3>1. CASE n = Len(writes) + 1
      BY <1>1, <1>3, <1>4, <1>6, <3>1 DEF Table
    <3>2. CASE n \in 1..Len(writes)
      <4>1. /\ writes[n].latest /\ writes[n].cell # cell
            /\ writes'[n].cell = writes[n].cell /\ writes'[n].value = writes[n].value
        BY <1>5, <1>6, <2>1, <3>2
      <4>2. writes[n].cell \in pending /\ writes[n].value = wanted[writes[n].cell]
        BY <1>3, <3>2, <4>1 DEF IInv, NewestCounts
      <4>3. writes[n].cell \in Cells
        BY <4>2 DEF IInv, TypeOK
      <4>. QED
        BY <1>1, <1>3, <3>2, <4>1, <4>2, <4>3 DEF Table
    <3>. QED
      BY <1>3, <1>6, <3>1, <3>2
  <2>2. ASSUME NEW m \in DOMAIN writes', NEW n \in DOMAIN writes',
               writes'[m].latest, writes'[n].latest, writes'[m].cell = writes'[n].cell
        PROVE  m = n
    <3>1. writes'[Len(writes) + 1].cell = cell
      BY <1>4, <1>6
    <3>. QED
      BY <2>1, <2>2, <3>1 DEF IInv, NewestCounts
  <2>3. writes'[Len(writes')].latest
    BY <1>4, <1>6
  <2>4. pending' \cap failed' = {}
    BY <1>1 DEF IInv, NewestCounts
  <2>5. \A c \in Unsaved' : attempted'[c].value = wanted'[c]
    BY <1>1, <1>2, <1>3 DEF IInv, NewestCounts, TypeOK, Table
  <2>. QED
    BY <2>1, <2>2, <2>3, <2>4, <2>5 DEF NewestCounts
<1>12. EditsAreKept'
  BY <1>1, <1>2, <1>3 DEF IInv, EditsAreKept, TypeOK, Table
<1>13. AnswersAreCurrent'
  <2>1. IsCurrent(stored)'
    BY <1>1 DEF IInv, AnswersAreCurrent, IsCurrent
  <2>. QED
    BY <1>1, <1>7, <1>9, <2>1, AnswersStay DEF Grows
<1>14. OneLoad'
  BY <1>1, <1>2, <1>9 DEF OneLoad, AwaitedOnce
<1>. QED
  BY <1>9, <1>10, <1>11, <1>12, <1>13, <1>14 DEF IInv

LEMMA EditStep ==
  ASSUME IInv, NEW cell \in Cells, Edit(cell) \/ Retry(cell)
  PROVE  IInv'
<1>1. CASE Edit(cell)
  <2>1. entered + 1 \in Values /\ entered' \in Values /\ shown[cell] \in Values
    BY <1>1, BoundsAssumption DEF Edit, IInv, TypeOK, Values
  <2>. QED
    BY <1>1, <2>1, SaveStep DEF Edit
<1>2. CASE Retry(cell)
  <2>1. cell \in Unsaved
    BY <1>2 DEF Retry, IInv, TypeOK
  <2>2. /\ attempted[cell].value \in Values /\ attempted[cell].previous \in Values
        /\ entered' \in Values
    BY <1>2, <2>1 DEF Retry, IInv, TypeOK
  <2>. QED
    BY <1>2, <2>2, SaveStep DEF Retry
<1>. QED
  BY <1>1, <1>2

LEMMA DiscardStep ==
  ASSUME IInv, NEW cell \in Cells, Discard(cell)
  PROVE  IInv'
<1>1. /\ cell \in failed /\ cell \in Unsaved /\ cell \notin pending
      /\ attempted' = Without(attempted, cell)
      /\ failed' = failed \ {cell}
      /\ shown' = [shown EXCEPT ![cell] = attempted[cell].previous]
      /\ wanted' = [wanted EXCEPT ![cell] = 0]
      /\ IF Unsaved' = {} /\ pending = {}
         THEN pendingWrites' = FALSE /\ Refreshed(router)
         ELSE UNCHANGED <<pendingWrites, timer, router>>
      /\ UNCHANGED <<stored, pending, writes, loaded, loading, entered, calls, current,
                     accepted, reloaded>>
  BY DEF Discard, past, IInv, TypeOK, NewestCounts
<1>2. /\ Unsaved' = Unsaved \ {cell}
      /\ \A c \in Unsaved' : attempted'[c] = attempted[c]
  BY <1>1 DEF Without, Unsaved
<1>3. /\ pendingWrites = TRUE /\ wanted \in Table /\ shown \in Table
      /\ attempted[cell].previous \in Values /\ 0 \in Values
  BY <1>1, BoundsAssumption DEF IInv, TypeOK, OneLoad, Table, Values
<1>4. pending' \subseteq Unsaved' /\ failed' \subseteq Unsaved' /\ Unsaved' \subseteq Cells
  BY <1>1, <1>2 DEF IInv, TypeOK
<1>5. /\ Step(0, 0, Other) /\ router' \in Seq(AnyCall)
      /\ timer' \in BOOLEAN /\ (pendingWrites' => ~timer')
      /\ AwaitedOnce' /\ CaughtUp'
      /\ pendingWrites' \in BOOLEAN /\ (pendingWrites' <=> Unsaved' # {})
  <2>1. CASE Unsaved' = {} /\ pending = {}
    <3>1. pendingWrites' = FALSE /\ Scheduled(router)
      BY <1>1, <1>3, <2>1 DEF Refreshed
    <3>2. Passes(router, router, 0, 0, Other)
      BY Calls, SamePasses
    <3>3. /\ Step(0, 0, Other) /\ router' \in Seq(AnyCall)
          /\ timer' \in BOOLEAN /\ (pendingWrites' => ~timer')
          /\ AwaitedOnce' /\ CaughtUp'
      BY <3>1, <3>2, OtherIs, ScheduledIs
    <3>. QED
      BY <2>1, <3>1, <3>3
  <2>2. CASE ~(Unsaved' = {} /\ pending = {})
    <3>1. UNCHANGED <<pendingWrites, timer, router, loading>>
      BY <1>1, <2>2
    <3>2. Step(0, 0, Other)
      BY <3>1, Calls, SamePasses DEF Step
    <3>3. AwaitedOnce'
      BY <3>1 DEF IInv, OneLoad, AwaitedOnce, Awaited
    <3>4. CaughtUp'
      BY <1>3, <3>1 DEF CaughtUp
    <3>5. Unsaved' # {}
      BY <1>1, <1>4, <2>2
    <3>. QED
      BY <1>3, <3>1, <3>2, <3>3, <3>4, <3>5 DEF IInv, TypeOK, OneLoad
  <2>. QED
    BY <2>1, <2>2
<1>6. TypeOK'
  <2>1. shown' \in Table /\ wanted' \in Table
    BY <1>1, <1>3 DEF Table
  <2>2. \A c \in Unsaved' : attempted'[c] \in [value: Values, previous: Values]
    BY <1>2 DEF IInv, TypeOK
  <2>. QED
    BY <1>1, <1>4, <1>5, <2>1, <2>2 DEF IInv, TypeOK, Table
<1>7. NewestCounts'
  <2>1. \A n \in DOMAIN writes : writes[n].latest =>
           /\ writes[n].cell \in pending /\ writes[n].cell # cell
           /\ writes[n].value = wanted'[writes[n].cell]
    BY <1>1, <1>3 DEF IInv, NewestCounts, TypeOK, Table
  <2>2. \A c \in Unsaved' : attempted'[c].value = wanted'[c]
    BY <1>1, <1>2, <1>3 DEF IInv, NewestCounts, TypeOK, Table
  <2>. QED
    BY <1>1, <2>1, <2>2 DEF IInv, NewestCounts
<1>8. EditsAreKept'
  <2>. SUFFICES ASSUME NEW c \in Cells, wanted'[c] # 0
                PROVE  \/ wanted'[c] \in accepted'
                       \/ /\ c \in pending' \cup failed'
                          /\ attempted'[c].value = wanted'[c]
    BY DEF EditsAreKept
  <2>1. c # cell /\ wanted'[c] = wanted[c]
    BY <1>1, <1>3 DEF Table
  <2>. QED
    BY <1>1, <1>2, <1>4, <2>1 DEF IInv, EditsAreKept
<1>9. OneWrite'
  BY <1>1, <1>5, OtherIs, WriteStays
<1>10. AnswersAreCurrent'
  <2>1. IsCurrent(stored)'
    BY <1>1 DEF IInv, AnswersAreCurrent, IsCurrent
  <2>. QED
    BY <1>1, <1>5, <2>1, AnswersStay DEF Grows
<1>11. OneLoad'
  BY <1>5 DEF OneLoad, AwaitedOnce
<1>. QED
  BY <1>5, <1>6, <1>7, <1>8, <1>9, <1>10, <1>11 DEF IInv

-----------------------------------------------------------------------------
(* The answer to an edit. *)

\* What holds before each outcome.
LEMMA WriteAnswerIs ==
  ASSUME IInv, WriteAnswered
  PROVE  /\ router # <<>> /\ router[1].kind = "write" /\ router[1].rows \in Table
         /\ 1 \in DOMAIN router /\ router[1] \in AnyCall
         /\ writes # <<>> /\ writes \in Seq(Entry) /\ Head(writes) = writes[1]
         /\ Len(writes) \in Nat \ {0} /\ 1 \in DOMAIN writes /\ writes[1] \in Entry
         /\ writes' = Tail(writes) /\ pendingWrites = TRUE
         /\ router[1].ok => writes[1].value \in accepted
         /\ UNCHANGED <<stored, loaded, loading, entered, calls, past, wanted, reloaded>>
<1>1. Answered("write") /\ writes' = Tail(writes)
      /\ UNCHANGED <<stored, loaded, loading, entered, calls, past, wanted, reloaded>>
  BY DEF WriteAnswered
<1>2. /\ router # <<>> /\ 1 \in DOMAIN router /\ router[1] \in AnyCall
      /\ router[1].kind = "write"
      /\ router[1].rows \in Table /\ router[1].stage = "answered"
  BY <1>1, AnswerIs
<1>3. /\ writes # <<>> /\ writes[1] \in Entry /\ Head(writes) = writes[1]
      /\ Len(writes) \in Nat \ {0} /\ pendingWrites
  BY <1>2, WriteIsKnown
<1>4. router[1].ok => writes[1].value \in accepted
  BY <1>2 DEF IInv, OneWrite
<1>5. 1 \in DOMAIN writes /\ writes \in Seq(Entry) /\ pendingWrites = TRUE
  BY <1>3, Calls DEF IInv, TypeOK
<1>. QED
  BY <1>1, <1>2, <1>3, <1>4, <1>5

LEMMA ContinueIs ==
  ASSUME IInv, WriteAnswered
  PROVE  \E k \in {0, 1} :
            /\ Passes(Continue, router, 1, k, WriteCall)
            /\ LiveOn(Continue, router, 1)
            /\ k = 1 <=> Tail(writes) # <<>>
<1>1. /\ router # <<>> /\ router \in Seq(AnyCall)
      /\ writes # <<>> /\ writes \in Seq(Entry) /\ Len(writes) \in Nat \ {0}
  BY WriteAnswerIs, Calls
<1>2. WriteCall \in AnyCall
  BY AskIs DEF WriteCall
<1>3. Passes(Tail(router), router, 1, 0, WriteCall) /\ LiveOn(Tail(router), router, 1)
  BY <1>1, TailPasses
<1>4. Len(Tail(writes)) = Len(writes) - 1 /\ Tail(writes) \in Seq(Entry)
  BY <1>1, Queue
<1>5. CASE Len(writes) > 1
  <2>1. Continue = Append(Tail(router), WriteCall)
    BY <1>5 DEF Continue
  <2>2. Tail(writes) # <<>>
    <3>1. Len(Tail(writes)) # 0
      BY <1>1, <1>4, <1>5
    <3>2. Len(<<>>) = 0
      OBVIOUS
    <3>. QED
      BY <3>1, <3>2, Zenon
  <2>. QED
    BY <1>1, <1>2, <1>3, <2>1, <2>2, AppendPasses
<1>6. CASE ~(Len(writes) > 1)
  <2>1. Continue = Tail(router)
    BY <1>6 DEF Continue
  <2>2. Tail(writes) = <<>>
    BY <1>1, <1>4, <1>6
  <2>. QED
    BY <1>3, <2>1, <2>2
<1>. QED
  BY <1>5, <1>6

\* Whatever the outcome, the queues go on together.
LEMMA ContinueStep ==
  ASSUME IInv, WriteAnswered, TypeOK', NewestCounts', EditsAreKept',
         \/ router' = Continue /\ UNCHANGED <<pendingWrites, timer>> /\ Unsaved' # {}
         \/ pendingWrites' = FALSE /\ Scheduled(Continue) /\ Unsaved' = {}
  PROVE  IInv'
<1>1. /\ pendingWrites = TRUE /\ writes' = Tail(writes) /\ router[1].kind = "write"
      /\ 1 \in DOMAIN router
      /\ UNCHANGED <<stored, loading, past, accepted, current>>
  BY WriteAnswerIs DEF past
<1>2. PICK k \in {0, 1} : /\ Passes(Continue, router, 1, k, WriteCall)
                          /\ LiveOn(Continue, router, 1)
                          /\ k = 1 <=> writes' # <<>>
  BY <1>1, ContinueIs
<1>3. WriteCall \in AnyCall /\ WriteCall.kind = "write" /\ WriteCall.kind \notin Loads
      /\ WriteCall.stage = "queued"
  BY AskIs DEF WriteCall, Loads
<1>4. /\ Step(1, k, WriteCall) /\ AwaitedOnce' /\ CaughtUp'
      /\ pendingWrites' => ~timer'
      /\ pendingWrites' <=> Unsaved' # {}
  <2>1. CASE router' = Continue /\ UNCHANGED <<pendingWrites, timer>> /\ Unsaved' # {}
    <3>1. Step(1, k, WriteCall) /\ LiveOn(router', router, 1)
      BY <1>2, <2>1 DEF Step
    <3>2. AwaitedOnce'
      BY <1>1, <1>3, <2>1, <3>1, LoadsStay DEF AwaitedOnce
    <3>3. CaughtUp'
      BY <1>1, <2>1 DEF CaughtUp
    <3>. QED
      BY <1>1, <2>1, <3>1, <3>2, <3>3 DEF IInv, OneLoad
  <2>2. CASE pendingWrites' = FALSE /\ Scheduled(Continue) /\ Unsaved' = {}
    BY <1>2, <1>3, <2>2, ScheduledIs
  <2>. QED
    BY <2>1, <2>2
<1>5. OneWrite'
  <2>1. CASE k = 1
    <3>1. \A n \in DOMAIN router : router[n].kind = "write" => n = 1
      BY <1>1 DEF IInv, OneWrite
    <3>. QED
      BY <1>2, <1>4, <2>1, <3>1, WriteBegins
  <2>2. CASE k = 0
    BY <1>1, <1>4, <2>2, WriteEnds
  <2>. QED
    BY <2>1, <2>2
<1>6. AnswersAreCurrent'
  <2>1. IsCurrent(stored)'
    BY <1>1 DEF IInv, AnswersAreCurrent, IsCurrent
  <2>. QED
    BY <1>1, <1>3, <1>4, <2>1, AnswersStay DEF Grows
<1>7. OneLoad'
  BY <1>4 DEF OneLoad, AwaitedOnce
<1>. QED
  BY <1>4, <1>5, <1>6, <1>7 DEF IInv

\* The edits behind the first keep their place.
LEMMA TailCounts ==
  ASSUME IInv, WriteAnswered
  PROVE  /\ writes' \in Seq(Entry) /\ DOMAIN writes' = 1..(Len(writes) - 1)
         /\ \A n \in DOMAIN writes' : writes'[n] = writes[n + 1] /\ n + 1 \in DOMAIN writes
         /\ \A n \in DOMAIN writes' : writes'[n].latest =>
               /\ writes'[n].cell \in pending
               /\ writes'[n].value = wanted[writes'[n].cell]
               /\ writes[1].latest => writes'[n].cell # writes[1].cell
         /\ \A m, n \in DOMAIN writes' :
               writes'[m].latest /\ writes'[n].latest /\ writes'[m].cell = writes'[n].cell
                 => m = n
         /\ writes' # <<>> => writes'[Len(writes')].latest
<1>1. /\ writes \in Seq(Entry) /\ Len(writes) \in Nat \ {0} /\ DOMAIN writes = 1..Len(writes)
      /\ writes # <<>> /\ writes' = Tail(writes)
  BY WriteAnswerIs, Calls
<1>2. /\ writes' \in Seq(Entry) /\ Len(writes') = Len(writes) - 1
      /\ \A n \in 1..(Len(writes) - 1) : writes'[n] = writes[n + 1]
  BY <1>1, Queue
<1>3. DOMAIN writes' = 1..(Len(writes) - 1)
  BY <1>2
<1>4. \A n \in DOMAIN writes' : writes'[n] = writes[n + 1] /\ n + 1 \in DOMAIN writes /\ n \in Nat \ {0}
  BY <1>1, <1>2, <1>3
<1>5. ASSUME NEW n \in DOMAIN writes', writes'[n].latest
      PROVE  /\ writes'[n].cell \in pending
             /\ writes'[n].value = wanted[writes'[n].cell]
             /\ writes[1].latest => writes'[n].cell # writes[1].cell
  <2>1. writes[n + 1].latest /\ n + 1 \in DOMAIN writes /\ n + 1 # 1 /\ 1 \in DOMAIN writes
    BY <1>1, <1>4, <1>5
  <2>. QED
    BY <1>4, <2>1 DEF IInv, NewestCounts
<1>6. ASSUME NEW m \in DOMAIN writes', NEW n \in DOMAIN writes',
             writes'[m].latest, writes'[n].latest, writes'[m].cell = writes'[n].cell
      PROVE  m = n
  <2>1. m + 1 = n + 1 /\ m \in Nat /\ n \in Nat
    BY <1>4, <1>6 DEF IInv, NewestCounts
  <2>. QED
    BY <2>1
<1>7. writes' # <<>> => writes'[Len(writes')].latest
  <2>. SUFFICES ASSUME writes' # <<>> PROVE writes'[Len(writes')].latest
    OBVIOUS
  <2>1. Len(writes') \in DOMAIN writes' /\ Len(writes') + 1 = Len(writes)
    BY <1>1, <1>2
  <2>2. writes'[Len(writes')] = writes[Len(writes)]
    BY <1>4, <2>1
  <2>. QED
    BY <1>1, <2>2 DEF IInv, NewestCounts
<1>. QED
  BY <1>2, <1>3, <1>4, <1>5, <1>6, <1>7

LEMMA SavedStep ==
  ASSUME IInv, WriteAnswered, writes[1].latest, router[1].ok, Saved(writes[1].cell)
  PROVE  IInv'
<1>. DEFINE cell == writes[1].cell
<1>1. /\ writes[1] \in Entry /\ 1 \in DOMAIN writes
      /\ router[1].rows \in Table /\ pendingWrites = TRUE
      /\ writes[1].value \in accepted
      /\ UNCHANGED <<stored, loaded, loading, entered, calls, past, wanted, reloaded,
                     accepted, current>>
  BY WriteAnswerIs DEF past
<1>2. /\ cell \in pending /\ cell \in Unsaved /\ cell \in Cells /\ cell \notin failed
      /\ writes[1].value = wanted[cell]
  BY <1>1 DEF IInv, NewestCounts, TypeOK
<1>3. /\ attempted' = Without(attempted, cell)
      /\ pending' = pending \ {cell} /\ failed' = failed
      /\ shown' = Replay(Replaced(shown, Row(cell), router[1].rows), attempted')
      /\ IF pending' = {}
         THEN /\ pendingWrites' = (Unsaved' # {})
              /\ IF Unsaved' = {} THEN Refreshed(Continue)
                 ELSE router' = Continue /\ UNCHANGED timer
         ELSE router' = Continue /\ UNCHANGED <<pendingWrites, timer>>
  BY DEF Saved, Answer
<1>. HIDE DEF cell
<1>4. /\ Unsaved' = Unsaved \ {cell}
      /\ \A c \in Unsaved' : attempted'[c] = attempted[c]
  BY <1>3 DEF Without, Unsaved
<1>5. /\ Unsaved' \subseteq Cells /\ pending' \subseteq Unsaved' /\ failed' \subseteq Unsaved'
      /\ \A c \in Unsaved' : attempted'[c] \in [value: Values, previous: Values]
  BY <1>2, <1>3, <1>4 DEF IInv, TypeOK
<1>6. \/ router' = Continue /\ UNCHANGED <<pendingWrites, timer>> /\ Unsaved' # {}
      \/ pendingWrites' = FALSE /\ Scheduled(Continue) /\ Unsaved' = {}
  <2>1. CASE Unsaved' = {}
    <3>1. pending' = {} /\ pendingWrites' = FALSE /\ Refreshed(Continue)
      BY <1>3, <1>5, <2>1
    <3>. QED
      BY <1>1, <2>1, <3>1 DEF Refreshed
  <2>2. CASE Unsaved' # {}
    BY <1>1, <1>3, <2>2
  <2>. QED
    BY <2>1, <2>2
<1>7. shown' \in Table
  <2>1. Replaced(shown, Row(cell), router[1].rows) \in Table
    BY <1>1, ReplacedIs DEF IInv, TypeOK, Table
  <2>2. \A c \in DOMAIN attempted' : attempted'[c].value \in Values
    BY <1>5 DEF Unsaved
  <2>. QED
    BY <1>3, <2>1, <2>2 DEF Replay, Table
<1>8. router' \in Seq(AnyCall) /\ timer' \in BOOLEAN /\ pendingWrites' \in BOOLEAN
  <2>1. Continue \in Seq(AnyCall)
    BY ContinueIs DEF Passes
  <2>2. Superseded(Continue) \in Seq(AnyCall)
    BY <2>1, SupersededIs
  <2>. QED
    BY <1>1, <1>6, <2>1, <2>2 DEF Scheduled, IInv, TypeOK
<1>9. TypeOK'
  BY <1>1, <1>5, <1>7, <1>8, TailCounts DEF IInv, TypeOK, Table, Entry
<1>10. NewestCounts'
  <2>1. \A n \in DOMAIN writes' : writes'[n].latest =>
            writes'[n].cell \in pending' /\ writes'[n].value = wanted'[writes'[n].cell]
    BY <1>1, <1>3, TailCounts DEF cell
  <2>2. pending' \cap failed' = {}
    BY <1>3 DEF IInv, NewestCounts
  <2>3. \A c \in Unsaved' : attempted'[c].value = wanted'[c]
    BY <1>1, <1>4 DEF IInv, NewestCounts
  <2>. QED
    BY <2>1, <2>2, <2>3, TailCounts DEF NewestCounts
<1>11. EditsAreKept'
  <2>. SUFFICES ASSUME NEW c \in Cells, wanted[c] # 0, c # cell
                PROVE  \/ wanted[c] \in accepted
                       \/ /\ c \in pending' \cup failed'
                          /\ attempted'[c].value = wanted[c]
    BY <1>1, <1>2 DEF EditsAreKept
  <2>. QED
    BY <1>3, <1>4, <1>5 DEF IInv, EditsAreKept
<1>. QED
  BY <1>6, <1>9, <1>10, <1>11, ContinueStep

LEMMA NotSavedStep ==
  ASSUME IInv, WriteAnswered, writes[1].latest, NotSaved(writes[1].cell)
  PROVE  IInv'
<1>. DEFINE cell == writes[1].cell
<1>1. /\ writes[1] \in Entry /\ 1 \in DOMAIN writes
      /\ UNCHANGED <<stored, loaded, loading, entered, calls, past, wanted, reloaded,
                     accepted, current>>
  BY WriteAnswerIs DEF past
<1>2. cell \in pending /\ cell \in Unsaved /\ cell \notin failed
  BY <1>1 DEF IInv, NewestCounts, TypeOK
<1>3. /\ pending' = pending \ {cell} /\ failed' = failed \cup {cell}
      /\ router' = Continue
      /\ UNCHANGED <<attempted, shown, pendingWrites, timer>>
  BY DEF NotSaved
<1>4. Unsaved' = Unsaved /\ Unsaved' # {}
  BY <1>2, <1>3 DEF Unsaved
<1>5. router' \in Seq(AnyCall)
  BY <1>3, ContinueIs DEF Passes
<1>. HIDE DEF cell
<1>6. pending' \subseteq Unsaved' /\ failed' \subseteq Unsaved'
  BY <1>2, <1>3, <1>4 DEF IInv, TypeOK
<1>7. TypeOK'
  BY <1>1, <1>3, <1>4, <1>5, <1>6, TailCounts DEF IInv, TypeOK, Entry
<1>8. NewestCounts'
  <2>1. \A n \in DOMAIN writes' : writes'[n].latest =>
            writes'[n].cell \in pending' /\ writes'[n].value = wanted'[writes'[n].cell]
    BY <1>1, <1>3, TailCounts DEF cell
  <2>2. pending' \cap failed' = {}
    BY <1>3 DEF IInv, NewestCounts
  <2>3. \A c \in Unsaved' : attempted'[c].value = wanted'[c]
    BY <1>1, <1>3, <1>4 DEF IInv, NewestCounts
  <2>. QED
    BY <2>1, <2>2, <2>3, TailCounts DEF NewestCounts
<1>9. EditsAreKept'
  BY <1>1, <1>3 DEF IInv, EditsAreKept
<1>. QED
  BY <1>3, <1>4, <1>7, <1>8, <1>9, ContinueStep

\* A newer edit of the cell waits behind it.
LEMMA OvertakenStep ==
  ASSUME IInv, WriteAnswered, ~writes[1].latest, router' = Continue,
         UNCHANGED <<attempted, shown, pending, failed, pendingWrites, timer>>
  PROVE  IInv'
<1>1. /\ pendingWrites = TRUE
      /\ UNCHANGED <<stored, loaded, loading, entered, calls, past, wanted, reloaded,
                     accepted, current>>
  BY WriteAnswerIs DEF past
<1>2. Unsaved' = Unsaved /\ Unsaved' # {}
  BY <1>1 DEF Unsaved, IInv, OneLoad
<1>3. router' \in Seq(AnyCall)
  BY ContinueIs DEF Passes
<1>4. TypeOK'
  BY <1>1, <1>2, <1>3, TailCounts DEF IInv, TypeOK, Entry
<1>5. NewestCounts'
  <2>1. \A n \in DOMAIN writes' : writes'[n].latest =>
            writes'[n].cell \in pending' /\ writes'[n].value = wanted'[writes'[n].cell]
    BY <1>1, TailCounts
  <2>. QED
    BY <1>1, <1>2, <2>1, TailCounts DEF IInv, NewestCounts
<1>6. EditsAreKept'
  BY <1>1 DEF IInv, EditsAreKept
<1>. QED
  BY <1>2, <1>4, <1>5, <1>6, ContinueStep

LEMMA WriteAnsweredStep ==
  ASSUME IInv, WriteAnswered
  PROVE  IInv'
<1>1. Head(writes) = writes[1]
  BY WriteAnswerIs
<1>2. \/ writes[1].latest /\ router[1].ok /\ Saved(writes[1].cell)
      \/ writes[1].latest /\ NotSaved(writes[1].cell)
      \/ /\ ~writes[1].latest /\ router' = Continue
         /\ UNCHANGED <<attempted, shown, pending, failed, pendingWrites, timer>>
  BY <1>1 DEF WriteAnswered, Settles, Answer
<1>. QED
  BY <1>2, SavedStep, NotSavedStep, OvertakenStep

-----------------------------------------------------------------------------
(* Theorems. *)

LEMMA InitInvariant == Init => IInv
<1>. SUFFICES ASSUME Init PROVE IInv
  OBVIOUS
<1>1. 0 \in Values
  BY BoundsAssumption DEF Values
<1>2. Unsaved = {}
  BY DEF Init, Unsaved
<1>3. TypeOK
  <2>1. /\ stored \in Table /\ loaded \in Table /\ shown \in Table /\ wanted \in Table
        /\ current \in [Cells -> SUBSET Values]
    BY <1>1 DEF Init, Table
  <2>2. writes \in Seq([cell: Cells, value: Values, latest: BOOLEAN]) /\ router \in Seq(AnyCall)
    BY DEF Init
  <2>3. /\ pendingWrites \in BOOLEAN /\ timer \in BOOLEAN /\ loading \in BOOLEAN
        /\ reloaded \in BOOLEAN
    BY DEF Init
  <2>4. entered \in Values /\ calls \in 0..MaxCalls /\ accepted \subseteq Values
    BY <1>1, BoundsAssumption DEF Init
  <2>5. pending = {} /\ failed = {}
    BY DEF Init
  <2>. QED
    BY <1>2, <2>1, <2>2, <2>3, <2>4, <2>5 DEF TypeOK, Table
<1>4. NewestCounts /\ OneWrite
  BY <1>2 DEF Init, NewestCounts, OneWrite
<1>5. AnswersAreCurrent /\ CaughtUp
  BY DEF Init, AnswersAreCurrent, CaughtUp, Coming, IsCurrent
<1>6. OneLoad
  BY <1>2 DEF Init, OneLoad
<1>7. EditsAreKept
  BY DEF Init, EditsAreKept
<1>. QED
  BY <1>3, <1>4, <1>5, <1>6, <1>7 DEF IInv

LEMMA NextInvariant == IInv /\ [Next]_vars => IInv'
<1>. SUFFICES ASSUME IInv, [Next]_vars PROVE IInv'
  OBVIOUS
<1>1. CASE UNCHANGED vars
  BY <1>1 DEF vars, editor, workspace, past, IInv, TypeOK, NewestCounts, OneWrite,
       AnswersAreCurrent, OneLoad, CaughtUp, EditsAreKept, Unsaved, Awaited, Coming, Pasted,
       IsCurrent
<1>2. CASE Machinery
  BY <1>2, LoadStep, ServeStep, WriteAnsweredStep, LoadAnsweredStep, MoreAnsweredStep,
       RouteRefreshedStep, OpenAnsweredStep, StructureAnsweredStep, PasteAnsweredStep
     DEF Machinery
<1>3. ASSUME NEW cell \in Cells,
             Edit(cell) \/ Retry(cell) \/ Discard(cell) \/ Elsewhere(cell)
      PROVE  IInv'
  BY <1>3, EditStep, DiscardStep, ElsewhereStep
<1>4. CASE (\E cell \in Cells : Open(cell) \/ Paste(cell)) \/ ChangeStructure \/ RefreshRoute
  BY <1>4, UserCallStep
<1>5. CASE LoadMore \/ Search
  BY <1>5, LoadMoreStep, SearchStep
<1>. QED
  BY <1>1, <1>2, <1>3, <1>4, <1>5 DEF Next, Users

\* Editor, workspace, both queues and the records stay in step.
THEOREM Invariance == Spec => []IInv
<1>. QED
  BY InitInvariant, NextInvariant, PTL DEF Spec

\* Every variable of the workbench stays in its type.
THEOREM TypeCorrect == Spec => []TypeOK
<1>1. IInv => TypeOK
  BY DEF IInv
<1>. QED
  BY <1>1, Invariance, PTL

\* A cell's newest edit is stored, or the editor holds it as on its way or as
\* failed: no answer, reload, paste or other control of the page loses it.
THEOREM NoEditIsLost == Spec => []EditsAreKept
<1>1. IInv => EditsAreKept
  BY DEF IInv
<1>. QED
  BY <1>1, Invariance, PTL

\* When nothing is under way and no edit is unsaved, each cell shows what the
\* server has held since this editor's last write of it, unless a reload failed.
THEOREM ShownIsCurrent == Spec => []RestShowsTheServer
<1>1. IInv => RestShowsTheServer
  <2>. SUFFICES ASSUME IInv, AtRest, reloaded PROVE \A cell \in Cells : shown[cell] \in current[cell]
    BY DEF RestShowsTheServer
  <2>1. router = <<>> /\ ~timer /\ ~pendingWrites
    BY DEF AtRest, IInv, OneLoad
  <2>2. ~Coming /\ ~Pasted
    BY <2>1 DEF Coming, Pasted
  <2>. QED
    BY <2>1, <2>2 DEF IInv, CaughtUp, IsCurrent
<1>. QED
  BY <1>1, Invariance, PTL
=============================================================================
