--------------------------- MODULE Acquisition_proofs ---------------------------
(***************************************************************************)
(* For any number of requests, session tokens, attempts, refinements and   *)
(* days: IInv is an inductive invariant of the journey before sign-up.     *)
(***************************************************************************)
EXTENDS Acquisition, FiniteSetTheorems, TLAPS

LEMMA Limits ==
  AttemptLimit \in Nat /\ DailyLimit \in Nat /\ RefinementLimit \in Nat /\ LastDay \in Nat
BY LimitsAssumption

\* What a request leaves of the others, and what its end leaves of it.
OthersStay(r) == \A q \in Requests \ {r} : requests'[q] = requests[q]
Ended(r) ==
  /\ requests'[r].stage = "over"
  /\ \/ requests'[r].token = Nothing
     \/ /\ requests'[r].token = requests[r].token
        /\ requests'[r].attempt = requests[r].attempt

-----------------------------------------------------------------------------
(* A request ends, or rows change for another reason. *)

\* What may happen to a row: it is scrubbed, its candidate replaced by one that
\* starts afresh, or by the refinement that read its predecessor.
Refines(r, t) ==
  /\ r \in Requests /\ Generates(r) /\ requests[r].kind = "refine"
  /\ requests[r].token = t
  /\ requests[r].attempt = sessions[t].attempts
  /\ requests'[r].stage = "over"
RowMoves(r, t) ==
  /\ sessions'[t].status = "absent" <=> sessions[t].status = "absent"
  /\ sessions'[t].attempts = sessions[t].attempts
  /\ \/ /\ sessions'[t].refined = sessions[t].refined
        /\ \/ sessions'[t].proposal = sessions[t].proposal
           \/ sessions'[t].proposal = Nothing
           \/ sessions'[t].proposal.refinements = {}
     \/ sessions'[t].refined = sessions[t].refined + 1 /\ Refines(r, t)

LEMMA RowStep ==
  ASSUME IInv, NEW r, TypeOK',
         OthersStay(r),
         requests'[r] = requests[r] \/ Ended(r),
         \/ cookie' \in {cookie, Nothing}
         \/ cookie' \in Tokens /\ sessions[cookie'].status # "absent",
         \A t \in Tokens : RowMoves(r, t),
         NothingIsKept', BuiltIsClaimed'
  PROVE  IInv'
<1>. USE DEF IInv
<1>1. \A q \in Requests :
        \/ requests'[q] = requests[q]
        \/ q = r /\ Ended(r)
  BY DEF OthersStay
<1>2. \A q \in Requests : requests[q] \in Request /\ requests'[q] \in Request
  BY DEF TypeOK
<1>3. \A t \in Tokens : sessions[t] \in Session /\ sessions'[t] \in Session
  BY DEF TypeOK
<1>4. RequestsInOrder'
  BY <1>1 DEF RequestsInOrder, Ended, Live
<1>5. FreshTokens'
  <2>. SUFFICES ASSUME NEW t \in Tokens, sessions'[t].status = "absent"
                PROVE  /\ cookie' # t
                       /\ \A p \in Requests : requests'[p].token = t =>
                             /\ requests'[p].attempt = 0
                             /\ requests'[p].stage \in {"addressed", "over"}
                       /\ \A p, q \in Requests :
                             requests'[p].token = t /\ requests'[q].token = t => p = q
    BY DEF FreshTokens
  <2>1. sessions[t].status = "absent"
    BY DEF RowMoves
  <2>2. Nothing # t
    BY LimitsAssumption
  <2>3. \A p \in Requests : requests'[p].token = t => requests[p].token = t
    BY <1>1, <2>2 DEF Ended
  <2>4. cookie' # t
    BY <2>1, <2>2 DEF FreshTokens
  <2>5. \A p \in Requests : requests'[p].token = t =>
          requests'[p].attempt = 0 /\ requests'[p].stage \in {"addressed", "over"}
    BY <1>1, <2>1, <2>2, <2>3 DEF Ended, FreshTokens
  <2>. QED
    BY <2>1, <2>3, <2>4, <2>5 DEF FreshTokens
<1>6. AttemptsDiffer'
  <2>1. \A q \in Requests : requests'[q].token \in Tokens =>
          requests'[q].attempt <= sessions'[requests'[q].token].attempts
    BY <1>1, LimitsAssumption DEF AttemptsDiffer, RowMoves, Ended
  <2>2. \A q \in Requests : Generates(q)' => Generates(q) /\ requests'[q] = requests[q]
    BY <1>1 DEF Generates, Is, Ended
  <2>. QED
    BY <2>1, <2>2 DEF AttemptsDiffer
<1>7. ASSUME NEW q \in Requests,
             requests'[q].kind = "refine", requests'[q].stage \in Live
      PROVE  Covered(q)'
  <2>1. requests'[q] = requests[q]
    BY <1>1, <1>7 DEF Ended, Live
  <2>. DEFINE t == requests[q].token
              now == sessions[t]
              then == sessions'[t]
              Still == /\ requests[q].stage # "working" /\ now.status # "absent" =>
                              requests[q].counted <= now.refined /\ Covers(q, now)
                       /\ requests[q].stage = "working" /\ now.attempts = requests[q].attempt =>
                              Covers(q, now)
              Kept == then.refined = requests[q].counted /\ then.proposal # Nothing =>
                        then.proposal.refinements \subseteq requests[q].seen.refinements
              Then == /\ requests[q].stage # "working" /\ then.status # "absent" =>
                              requests[q].counted <= then.refined /\ Kept
                      /\ requests[q].stage = "working" /\ then.attempts = requests[q].attempt =>
                              Kept
  <2>. SUFFICES Then
    BY <2>1 DEF Covered, Covers
  <2>2. t \in Tokens
    BY <1>7, <2>1 DEF RequestsInOrder
  <2>3. requests[q].counted \in Nat /\ now.refined \in Nat
    BY <1>2, <1>3, <2>2, Limits DEF Request, Session
  <2>4. Still
    BY <1>7, <2>1 DEF RefinementsCover, Covered
  <2>5. RowMoves(r, t)
    BY <2>2
  <2>6. /\ then.status = "absent" <=> now.status = "absent"
        /\ then.attempts = now.attempts
        /\ \/ then.refined = now.refined /\ then.proposal = now.proposal
           \/ then.proposal = Nothing
           \/ then.refined = now.refined /\ then.proposal.refinements = {}
           \/ then.refined = now.refined + 1 /\ Refines(r, t)
        /\ then.refined \in {now.refined, now.refined + 1}
    BY <2>5 DEF RowMoves
  <2>7. CASE then.refined = now.refined + 1 /\ Refines(r, t)
    <3>1. requests[q].stage = "working" => requests[q].attempt # now.attempts
      <4>. SUFFICES ASSUME requests[q].stage = "working", requests[q].attempt = now.attempts
                    PROVE  FALSE
        OBVIOUS
      <4>1. Generates(q) /\ Generates(r) /\ r \in Requests
        BY <1>7, <2>1, <2>7 DEF Generates, Is, Refines
      <4>2. q = r
        BY <2>7, <4>1 DEF AttemptsDiffer, Refines
      <4>. QED
        BY <1>7, <2>7, <4>2 DEF Refines, Live
    <3>2. requests[q].stage # "working" /\ then.status # "absent" =>
            requests[q].counted < then.refined
      BY <2>3, <2>4, <2>6, <2>7
    <3>. QED
      BY <2>3, <2>6, <3>1, <3>2
  <2>8. CASE then.refined = now.refined /\ then.proposal = now.proposal
    BY <2>4, <2>6, <2>8 DEF Covers
  <2>9. CASE then.proposal = Nothing
    BY <2>3, <2>4, <2>6, <2>9
  <2>10. CASE then.refined = now.refined /\ then.proposal.refinements = {}
    BY <2>3, <2>4, <2>6, <2>10
  <2>. QED
    BY <2>6, <2>7, <2>8, <2>9, <2>10
<1>8. RefinementsCover'
  BY <1>7 DEF RefinementsCover, Covered
<1>. QED
  BY <1>4, <1>5, <1>6, <1>8

-----------------------------------------------------------------------------
(* What the helpers do to a request and to a row. *)

LEMMA EndEffect ==
  ASSUME TypeOK, NEW r \in Requests, NEW told \in {"done", "failed", "unknown"}, End(r, told)
  PROVE  /\ requests' \in [Requests -> Request]
         /\ OthersStay(r) /\ Ended(r)
         /\ requests'[r].told = told
<1>1. requests[r] \in Request
  BY DEF TypeOK
<1>2. /\ requests'[r] \in Request
      /\ requests'[r].stage = "over" /\ requests'[r].told = told
      /\ requests'[r].token = requests[r].token
      /\ requests'[r].attempt = requests[r].attempt
  BY <1>1 DEF End, TypeOK, Request
<1>3. OthersStay(r)
  BY DEF End, TypeOK, OthersStay
<1>4. requests' \in [Requests -> Request]
  BY <1>2, <1>3 DEF End, TypeOK, OthersStay
<1>. QED
  BY <1>2, <1>3, <1>4 DEF Ended

LEMMA ScrubEffect ==
  ASSUME NEW row \in Session, NEW status \in {"expired", "claimed"}
  PROVE  /\ Scrub(row, status) \in Session
         /\ Scrub(row, status).status = status
         /\ Scrub(row, status).attempts = row.attempts
         /\ Scrub(row, status).refined = row.refined
         /\ Scrub(row, status).proposal = Nothing
         /\ Scrub(row, status).clarification = "none"
         /\ Scrub(row, status).accepted = Nothing
BY DEF Scrub, Session, MaybeCandidate

LEMMA ExpiredEffect ==
  ASSUME NEW row \in Session
  PROVE  /\ Expired(row) \in Session
         /\ \/ Expired(row) = row
            \/ /\ row.status = "active"
               /\ Expired(row).status = "expired"
               /\ Expired(row).attempts = row.attempts
               /\ Expired(row).refined = row.refined
               /\ Expired(row).proposal = Nothing
               /\ Expired(row).clarification = "none"
               /\ Expired(row).accepted = Nothing
BY ScrubEffect DEF Expired

-----------------------------------------------------------------------------
(* The initial states. *)

LEMMA InitInvariant == Init => IInv
<1>. SUFFICES ASSUME Init PROVE IInv
  OBVIOUS
<1>1. Absent \in Session
  BY Limits DEF Absent, Session, MaybeCandidate
<1>2. TypeOK
  <2>1. \A r \in Requests : requests[r] \in Request
    BY Limits DEF Init, Request, MaybeCandidate, Kinds
  <2>2. requests \in [Requests -> Request]
    BY <2>1 DEF Init
  <2>. QED
    BY <1>1, <2>2, Limits DEF Init, TypeOK, MaybeCandidate
<1>3. NothingIsKept /\ BuiltIsClaimed
  BY DEF Init, NothingIsKept, BuiltIsClaimed, Absent
<1>4. RequestsInOrder /\ AttemptsDiffer /\ RefinementsCover
  BY LimitsAssumption DEF Init, RequestsInOrder, AttemptsDiffer, RefinementsCover,
       Covered, Generates, Is, Live
<1>5. FreshTokens
  BY LimitsAssumption DEF Init, FreshTokens
<1>. QED
  BY <1>2, <1>3, <1>4, <1>5 DEF IInv

-----------------------------------------------------------------------------
(* Requests that end without a write, and the clock. *)

LEMMA RowsStay ==
  ASSUME IInv, sessions' = sessions, built' = built, NEW r
  PROVE  /\ NothingIsKept' /\ BuiltIsClaimed'
         /\ \A t \in Tokens : RowMoves(r, t)
BY DEF IInv, NothingIsKept, BuiltIsClaimed, RowMoves

LEMMA FailStep ==
  ASSUME IInv, NEW r \in Requests, Fail(r)
  PROVE  IInv'
<1>1. TypeOK /\ End(r, "failed")
  BY DEF IInv, Fail
<1>2. TypeOK'
  BY <1>1, EndEffect DEF Fail, TypeOK
<1>. QED
  BY <1>1, <1>2, EndEffect, RowsStay, RowStep DEF Fail

LEMMA LoseStep ==
  ASSUME IInv, NEW r \in Requests, Lose(r)
  PROVE  IInv'
<1>1. TypeOK /\ requests[r] \in Request
  BY DEF IInv, TypeOK
<1>2. /\ requests'[r] \in Request
      /\ requests'[r].stage = "over" /\ requests'[r].token = Nothing
  <2>. DEFINE dropped == [requests[r] EXCEPT !.stage = "over", !.token = Nothing, !.seen = Nothing,
                                            !.attempt = 0, !.counted = 0]
  <2>1. requests'[r] = dropped
    BY <1>1 DEF Lose, TypeOK
  <2>2. Nothing \in MaybeCandidate /\ 0 \in 0..AttemptLimit /\ 0 \in 0..RefinementLimit
    BY Limits DEF MaybeCandidate
  <2>3. dropped \in Request /\ dropped.token = Nothing
    BY <1>1, <2>2 DEF Request
  <2>4. dropped.stage = "over"
    BY <1>1 DEF Request
  <2>. QED
    BY <2>1, <2>3, <2>4
<1>3. OthersStay(r)
  BY <1>1 DEF Lose, TypeOK, OthersStay
<1>4. TypeOK'
  BY <1>1, <1>2, <1>3 DEF Lose, TypeOK, OthersStay
<1>. QED
  BY <1>2, <1>3, <1>4, RowsStay, RowStep DEF Lose, Ended

LEMMA AnswerStep ==
  ASSUME IInv, NEW r \in Requests, Answer(r)
  PROVE  IInv'
<1>1. TypeOK /\ requests[r] \in Request
  BY DEF IInv, TypeOK
<1>2. /\ requests'[r] \in Request
      /\ requests'[r].stage = "over" /\ requests'[r].token = Nothing
  <2>. DEFINE dropped == [requests[r] EXCEPT !.token = Nothing, !.seen = Nothing,
                                            !.attempt = 0, !.counted = 0]
  <2>1. requests'[r] = dropped
    BY <1>1 DEF Answer, TypeOK
  <2>2. Nothing \in MaybeCandidate /\ 0 \in 0..AttemptLimit /\ 0 \in 0..RefinementLimit
    BY Limits DEF MaybeCandidate
  <2>3. dropped \in Request /\ dropped.token = Nothing
    BY <1>1, <2>2 DEF Request
  <2>4. dropped.stage = "over"
    BY <1>1 DEF Answer, Request
  <2>. QED
    BY <2>1, <2>3, <2>4
<1>3. OthersStay(r)
  BY <1>1 DEF Answer, TypeOK, OthersStay
<1>4. \/ cookie' \in {cookie, Nothing}
      \/ cookie' \in Tokens /\ sessions[cookie'].status # "absent"
  <2>1. requests[r].token \in Tokens
    BY <1>1 DEF Answer, Request
  <2>2. requests[r].attempt > 0 => sessions[requests[r].token].status # "absent"
    BY <1>1, <2>1 DEF IInv, FreshTokens
  <2>3. \/ cookie' = requests[r].token /\ requests[r].attempt > 0
        \/ cookie' = Nothing
        \/ cookie' = cookie
    BY DEF Answer
  <2>. QED
    BY <2>1, <2>2, <2>3
<1>5. TypeOK'
  BY <1>1, <1>2, <1>3, <1>4 DEF Answer, TypeOK, OthersStay
<1>. QED
  BY <1>2, <1>3, <1>4, <1>5, RowsStay, RowStep DEF Answer, Ended

LEMMA NewDayStep ==
  ASSUME IInv, NewDay
  PROVE  IInv'
<1>1. TypeOK'
  BY Limits DEF IInv, NewDay, TypeOK
<1>2. OthersStay(Nothing) /\ requests'[Nothing] = requests[Nothing] /\ cookie' = cookie
  BY DEF NewDay, OthersStay
<1>3. NothingIsKept' /\ BuiltIsClaimed' /\ \A t \in Tokens : RowMoves(Nothing, t)
  BY RowsStay DEF NewDay
<1>. QED
  BY <1>1, <1>2, <1>3, RowStep

-----------------------------------------------------------------------------
(* One row changes. *)

\* The row of one token is replaced, by one that a step may leave.
Replaces(r, t, row) ==
  /\ t \in Tokens /\ row \in Session
  /\ sessions' = [sessions EXCEPT ![t] = row]
  /\ row.status = "absent" <=> sessions[t].status = "absent"
  /\ row.attempts = sessions[t].attempts
  /\ \/ /\ row.refined = sessions[t].refined
        /\ \/ row.proposal \in {sessions[t].proposal, Nothing}
           \/ row.proposal.refinements = {}
     \/ row.refined = sessions[t].refined + 1 /\ Refines(r, t)
  /\ row.status # "active" =>
        row.proposal = Nothing /\ row.clarification = "none" /\ row.accepted = Nothing

LEMMA ReplaceStep ==
  ASSUME IInv, NEW r, NEW t, NEW row, Replaces(r, t, row),
         OthersStay(r), requests'[r] = requests[r] \/ Ended(r),
         requests' \in [Requests -> Request],
         cookie' = cookie, day' = day,
         UNCHANGED <<quota, reserved>>,
         acceptances' \in [Tokens -> SUBSET Candidate],
         built' \in [Tokens -> MaybeCandidate],
         \A u \in Tokens \ {t} : built'[u] = built[u],
         built'[t] # Nothing <=> row.status = "claimed"
  PROVE  IInv'
<1>1. TypeOK
  BY DEF IInv
<1>2. /\ t \in Tokens /\ row \in Session
      /\ sessions'[t] = row
      /\ \A u \in Tokens \ {t} : sessions'[u] = sessions[u]
      /\ sessions' \in [Tokens -> Session]
  BY <1>1 DEF Replaces, TypeOK
<1>3. TypeOK'
  BY <1>1, <1>2 DEF TypeOK
<1>4. \A u \in Tokens : RowMoves(r, u)
  <2>1. RowMoves(r, t)
    BY <1>2 DEF Replaces, RowMoves
  <2>2. \A u \in Tokens \ {t} : RowMoves(r, u)
    BY <1>2 DEF RowMoves
  <2>. QED
    BY <2>1, <2>2
<1>5. NothingIsKept'
  BY <1>2 DEF IInv, NothingIsKept, Replaces
<1>6. BuiltIsClaimed'
  BY <1>2 DEF IInv, BuiltIsClaimed
<1>. QED
  BY <1>3, <1>4, <1>5, <1>6, RowStep

LEMMA LapseStep ==
  ASSUME IInv, NEW t \in Tokens, Lapse(t)
  PROVE  IInv'
<1>. DEFINE row == [sessions[t] EXCEPT !.lapsed = TRUE]
<1>1. TypeOK /\ sessions[t] \in Session
  BY DEF IInv, TypeOK
<1>2. /\ row \in Session /\ row.status = sessions[t].status
      /\ row.attempts = sessions[t].attempts /\ row.refined = sessions[t].refined
      /\ row.proposal = sessions[t].proposal
  BY <1>1 DEF Session
<1>3. sessions[t].status = "active"
  BY DEF Lapse, Usable
<1>4. sessions' = [sessions EXCEPT ![t] = row]
  BY DEF Lapse
<1>5. Replaces(Nothing, t, row)
  BY <1>2, <1>3, <1>4 DEF Replaces
<1>6. /\ OthersStay(Nothing) /\ requests'[Nothing] = requests[Nothing]
      /\ requests' \in [Requests -> Request]
      /\ cookie' = cookie /\ day' = day /\ UNCHANGED <<quota, reserved>>
      /\ acceptances' \in [Tokens -> SUBSET Candidate]
      /\ built' \in [Tokens -> MaybeCandidate] /\ built' = built
  BY <1>1 DEF Lapse, OthersStay, TypeOK
<1>7. built'[t] = Nothing
  BY <1>3, <1>6 DEF IInv, BuiltIsClaimed
<1>. QED
  BY <1>2, <1>3, <1>5, <1>6, <1>7, ReplaceStep

LEMMA LoadLapsedStep ==
  ASSUME IInv, LoadLapsed
  PROVE  IInv'
<1>. DEFINE row == Expired(sessions[cookie])
<1>1. TypeOK /\ cookie \in Tokens /\ sessions[cookie] \in Session
  BY DEF IInv, TypeOK, LoadLapsed
<1>2. /\ sessions[cookie].status = "active"
      /\ sessions' = [sessions EXCEPT ![cookie] = row]
  BY DEF LoadLapsed, Row
<1>3. /\ row \in Session /\ row.status = "expired"
      /\ row.attempts = sessions[cookie].attempts
      /\ row.refined = sessions[cookie].refined
      /\ row.proposal = Nothing /\ row.clarification = "none" /\ row.accepted = Nothing
  BY <1>1, ScrubEffect DEF LoadLapsed, Row, Expired
<1>4. Replaces(Nothing, cookie, row)
  BY <1>1, <1>2, <1>3 DEF Replaces
<1>5. built[cookie] = Nothing
  BY <1>1, <1>2 DEF IInv, BuiltIsClaimed
<1>6. /\ OthersStay(Nothing) /\ requests'[Nothing] = requests[Nothing]
      /\ requests' \in [Requests -> Request]
      /\ cookie' = cookie /\ day' = day /\ UNCHANGED <<quota, reserved>>
      /\ acceptances' \in [Tokens -> SUBSET Candidate]
      /\ built' \in [Tokens -> MaybeCandidate] /\ built' = built
  BY <1>1 DEF LoadLapsed, OthersStay, TypeOK
<1>. QED
  BY <1>3, <1>4, <1>5, <1>6, ReplaceStep

\* What is refused when it is loaded touches no row but one that has lapsed.
LEMMA RefuseAtLoadStep ==
  ASSUME IInv, NEW r \in Requests, NEW kind \in Kinds, Refuse(r, kind)
  PROVE  IInv'
<1>1. /\ TypeOK /\ requests[r] \in Request
      /\ requests[r].stage = "unsent" /\ requests[r].token = Nothing
      /\ \A t \in Tokens : sessions[t] \in Session
  BY DEF IInv, TypeOK, RequestsInOrder, Refuse, Is
<1>2. \A t \in Tokens : /\ sessions'[t] \in Session
                        /\ \/ sessions'[t] = sessions[t]
                           \/ /\ sessions[t].status = "active"
                              /\ sessions'[t].status = "expired"
                              /\ sessions'[t].attempts = sessions[t].attempts
                              /\ sessions'[t].refined = sessions[t].refined
                              /\ sessions'[t].proposal = Nothing
                              /\ sessions'[t].clarification = "none"
                              /\ sessions'[t].accepted = Nothing
  BY <1>1, ExpiredEffect DEF Refuse
<1>. DEFINE refused == [requests[r] EXCEPT !.stage = "over", !.kind = kind, !.told = "gone"]
<1>3. refused \in Request /\ refused.stage = "over" /\ refused.token = Nothing
  BY <1>1 DEF Request
<1>4. requests' = [requests EXCEPT ![r] = refused]
  BY DEF Refuse
<1>. HIDE DEF refused
<1>5. requests' \in [Requests -> Request] /\ OthersStay(r) /\ Ended(r)
  BY <1>1, <1>3, <1>4 DEF TypeOK, OthersStay, Ended
<1>6. sessions' \in [Tokens -> Session]
  BY <1>2 DEF Refuse
<1>7. TypeOK' /\ cookie' = cookie
  BY <1>1, <1>5, <1>6 DEF Refuse, TypeOK
<1>8. \A t \in Tokens : RowMoves(r, t)
  BY <1>2 DEF RowMoves
<1>9. built' = built
  BY DEF Refuse
<1>10. NothingIsKept' /\ BuiltIsClaimed'
  BY <1>2, <1>9 DEF IInv, NothingIsKept, BuiltIsClaimed
<1>. QED
  BY <1>5, <1>7, <1>8, <1>10, RowStep

-----------------------------------------------------------------------------
(* A request that writes ends, with the write or without. *)

LEMMA WriteStep ==
  ASSUME IInv, NEW r \in Requests, NEW row, Write(r, row),
         requests[r].stage = "working",
         UNCHANGED <<quota, cookie, day, reserved, acceptances, built>>,
         Current(r) =>
            LET old == sessions[requests[r].token]
            IN  /\ row \in Session
                /\ row.status = old.status /\ row.attempts = old.attempts
                /\ \/ /\ row.refined = old.refined
                      /\ \/ row.proposal \in {old.proposal, Nothing}
                         \/ row.proposal.refinements = {}
                   \/ row.refined = old.refined + 1 /\ requests[r].kind = "refine"
  PROVE  IInv'
<1>. DEFINE t == requests[r].token
<1>1. TypeOK /\ t \in Tokens
  BY DEF IInv, RequestsInOrder, Live
<1>2. /\ acceptances' \in [Tokens -> SUBSET Candidate]
      /\ built' \in [Tokens -> MaybeCandidate]
  BY <1>1 DEF TypeOK
<1>3. CASE Current(r)
  <2>1. End(r, "done") /\ sessions' = [sessions EXCEPT ![t] = row]
    BY <1>3 DEF Write
  <2>2. /\ requests' \in [Requests -> Request] /\ OthersStay(r) /\ Ended(r)
    BY <1>1, <2>1, EndEffect
  <2>3. sessions[t].status = "active" /\ sessions[t].attempts = requests[r].attempt
    BY <1>3 DEF Current
  <2>4. row.refined = sessions[t].refined + 1 /\ requests[r].kind = "refine" => Refines(r, t)
    BY <2>2, <2>3 DEF Refines, Generates, Is, Ended
  <2>5. Replaces(r, t, row)
    BY <1>1, <1>3, <2>1, <2>3, <2>4 DEF Replaces
  <2>6. /\ \A u \in Tokens \ {t} : built'[u] = built[u]
        /\ built'[t] # Nothing <=> row.status = "claimed"
    BY <1>1, <1>3, <2>3 DEF IInv, BuiltIsClaimed
  <2>. HIDE DEF t
  <2>. QED
    BY <1>2, <2>2, <2>5, <2>6, ReplaceStep
<1>4. CASE ~Current(r)
  <2>1. End(r, "failed") /\ sessions' = sessions
    BY <1>4 DEF Write
  <2>2. requests' \in [Requests -> Request] /\ OthersStay(r) /\ Ended(r)
    BY <1>1, <2>1, EndEffect
  <2>3. TypeOK'
    BY <1>1, <2>1, <2>2 DEF TypeOK
  <2>. QED
    BY <2>1, <2>2, <2>3, RowsStay, RowStep
<1>. QED
  BY <1>3, <1>4

LEMMA AskStep ==
  ASSUME IInv, NEW r \in Requests, Ask(r)
  PROVE  IInv'
<1>. DEFINE old == sessions[requests[r].token]
            row == [old EXCEPT !.proposal = Nothing, !.clarification = "awaiting"]
<1>1. TypeOK /\ requests[r].stage = "working" /\ old \in Session
  BY DEF IInv, RequestsInOrder, Live, TypeOK, Ask, Is
<1>2. Nothing \in MaybeCandidate
  BY DEF MaybeCandidate
<1>3. /\ row \in Session /\ row.status = old.status /\ row.attempts = old.attempts
      /\ row.refined = old.refined /\ row.proposal = Nothing
  BY <1>1, <1>2 DEF Session
<1>4. Write(r, row)
  BY DEF Ask
<1>. HIDE DEF row
<1>. QED
  BY <1>1, <1>3, <1>4, WriteStep DEF Ask

LEMMA ProposeStep ==
  ASSUME IInv, NEW r \in Requests, Propose(r)
  PROVE  IInv'
<1>. DEFINE old == sessions[requests[r].token]
            refines == requests[r].kind = "refine"
            candidate ==
              [by |-> r, attempt |-> requests[r].attempt,
               refinements |-> IF refines THEN requests[r].seen.refinements \cup {r} ELSE {}]
            count == IF refines THEN requests[r].counted + 1 ELSE old.refined
            row == [old EXCEPT !.proposal = candidate, !.clarification = "complete",
                               !.refined = count]
<1>1. /\ TypeOK /\ requests[r].stage = "working" /\ old \in Session
      /\ requests[r] \in Request
      /\ refines => requests[r].seen \in Candidate /\ requests[r].counted < RefinementLimit
  BY DEF IInv, RequestsInOrder, Live, TypeOK, Propose, Is
<1>2. candidate \in Candidate /\ candidate \in MaybeCandidate
  BY <1>1 DEF Candidate, MaybeCandidate, Request
<1>3. count \in 0..RefinementLimit
  BY <1>1, Limits DEF Request, Session
<1>4. ~refines => candidate.refinements = {}
  OBVIOUS
<1>5. Current(r) /\ refines => count = old.refined + 1
  BY DEF Current
<1>6. Write(r, row)
  BY DEF Propose
<1>7. ~refines => count = old.refined
  OBVIOUS
<1>. HIDE DEF candidate, count
<1>8. /\ row \in Session /\ row.status = old.status /\ row.attempts = old.attempts
      /\ row.refined = count /\ row.proposal = candidate
  BY <1>1, <1>2, <1>3 DEF Session
<1>. HIDE DEF row
<1>. QED
  BY <1>1, <1>4, <1>5, <1>6, <1>7, <1>8, WriteStep DEF Propose

LEMMA AcceptStep ==
  ASSUME IInv, NEW r \in Requests, Accept(r)
  PROVE  IInv'
<1>. DEFINE t == requests[r].token
            row == [sessions[t] EXCEPT !.accepted = requests[r].seen]
<1>1. /\ TypeOK /\ t \in Tokens /\ sessions[t] \in Session
      /\ requests[r].seen \in Candidate
  BY DEF IInv, RequestsInOrder, Live, TypeOK, Accept, Is
<1>2. CASE sessions[t].status = "active"
  <2>1. /\ sessions' = [sessions EXCEPT ![t].accepted = requests[r].seen]
        /\ acceptances' = [acceptances EXCEPT ![t] = @ \cup {requests[r].seen}]
        /\ End(r, "done")
        /\ UNCHANGED <<quota, cookie, day, reserved, built>>
    BY <1>2 DEF Accept
  <2>2. requests' \in [Requests -> Request] /\ OthersStay(r) /\ Ended(r)
    BY <1>1, <2>1, EndEffect
  <2>3. /\ row \in Session /\ row.status = sessions[t].status
        /\ row.attempts = sessions[t].attempts /\ row.refined = sessions[t].refined
        /\ row.proposal = sessions[t].proposal
    BY <1>1 DEF Session, MaybeCandidate
  <2>4. sessions' = [sessions EXCEPT ![t] = row]
    BY <2>1
  <2>. HIDE DEF row
  <2>5. Replaces(r, t, row)
    BY <1>1, <1>2, <2>3, <2>4 DEF Replaces
  <2>6. /\ acceptances' \in [Tokens -> SUBSET Candidate]
        /\ built' \in [Tokens -> MaybeCandidate]
    BY <1>1, <2>1 DEF TypeOK
  <2>7. built'[t] = Nothing
    BY <1>1, <1>2, <2>1 DEF IInv, BuiltIsClaimed
  <2>. QED
    BY <1>2, <2>1, <2>2, <2>3, <2>5, <2>6, <2>7, ReplaceStep
<1>3. CASE sessions[t].status # "active"
  <2>1. End(r, "failed") /\ sessions' = sessions
        /\ UNCHANGED <<quota, cookie, day, reserved, built, acceptances>>
    BY <1>3 DEF Accept
  <2>2. requests' \in [Requests -> Request] /\ OthersStay(r) /\ Ended(r)
    BY <1>1, <2>1, EndEffect
  <2>3. TypeOK'
    BY <1>1, <2>1, <2>2 DEF TypeOK
  <2>. QED
    BY <2>1, <2>2, <2>3, RowsStay, RowStep
<1>. QED
  BY <1>2, <1>3

LEMMA ClaimStep ==
  ASSUME IInv, NEW r \in Requests, Claim(r)
  PROVE  IInv'
<1>. DEFINE t == requests[r].token
            row == Scrub(sessions[t], "claimed")
<1>1. TypeOK /\ t \in Tokens /\ sessions[t] \in Session
  BY DEF IInv, RequestsInOrder, Live, TypeOK, Claim, Is
<1>2. UNCHANGED <<quota, cookie, day, reserved, acceptances>>
  BY DEF Claim
<1>3. CASE /\ Claimable(sessions[t])
           /\ sessions' = [sessions EXCEPT ![t] = row]
           /\ built' = [built EXCEPT ![t] = sessions[t].proposal]
           /\ EndClaim(r, "done")
  <2>1. requests' \in [Requests -> Request] /\ OthersStay(r) /\ Ended(r)
    BY <1>1, <1>3, EndEffect DEF EndClaim
  <2>2. /\ row \in Session /\ row.status = "claimed"
        /\ row.attempts = sessions[t].attempts /\ row.refined = sessions[t].refined
        /\ row.proposal = Nothing /\ row.clarification = "none" /\ row.accepted = Nothing
    BY <1>1, ScrubEffect
  <2>3. sessions[t].status = "active"
    BY <1>3 DEF Claimable, Usable
  <2>4. Replaces(r, t, row)
    BY <1>1, <1>3, <2>2, <2>3 DEF Replaces
  <2>5. /\ acceptances' \in [Tokens -> SUBSET Candidate]
        /\ built' \in [Tokens -> MaybeCandidate]
    BY <1>1, <1>2, <1>3 DEF TypeOK, Session
  <2>6. \A u \in Tokens \ {t} : built'[u] = built[u]
    BY <1>1, <1>3 DEF TypeOK
  <2>7. built'[t] # Nothing
    BY <1>1, <1>3 DEF TypeOK, Claimable
  <2>. HIDE DEF row, t
  <2>. QED
    BY <1>2, <2>1, <2>2, <2>4, <2>5, <2>6, <2>7, ReplaceStep
<1>4. CASE /\ EndClaim(r, "done") \/ EndClaim(r, "failed")
           /\ UNCHANGED <<sessions, built>>
  <2>1. requests' \in [Requests -> Request] /\ OthersStay(r) /\ Ended(r)
    BY <1>1, <1>4, EndEffect DEF EndClaim
  <2>2. TypeOK'
    BY <1>1, <1>2, <1>4, <2>1 DEF TypeOK
  <2>. QED
    BY <1>2, <1>4, <2>1, <2>2, RowsStay, RowStep
<1>. QED
  BY <1>3, <1>4 DEF Claim

-----------------------------------------------------------------------------
(* An attempt is reserved, or refused. *)

LEMMA RefuseStep ==
  ASSUME IInv, NEW r \in Requests, End(r, "failed"),
         sessions' = [t \in Tokens |-> Expired(sessions[t])],
         UNCHANGED <<quota, cookie, day, reserved, acceptances, built>>
  PROVE  IInv'
<1>1. TypeOK /\ \A t \in Tokens : sessions[t] \in Session
  BY DEF IInv, TypeOK
<1>2. \A t \in Tokens :
        /\ sessions'[t] = Expired(sessions[t]) /\ sessions'[t] \in Session
        /\ \/ sessions'[t] = sessions[t]
           \/ /\ sessions[t].status = "active" /\ sessions'[t].status = "expired"
              /\ sessions'[t].attempts = sessions[t].attempts
              /\ sessions'[t].refined = sessions[t].refined
              /\ sessions'[t].proposal = Nothing /\ sessions'[t].clarification = "none"
              /\ sessions'[t].accepted = Nothing
  BY <1>1, ExpiredEffect
<1>3. requests' \in [Requests -> Request] /\ OthersStay(r) /\ Ended(r)
  BY <1>1, EndEffect
<1>4. sessions' \in [Tokens -> Session]
  BY <1>2
<1>5. TypeOK'
  BY <1>1, <1>3, <1>4 DEF TypeOK
<1>6. \A t \in Tokens : RowMoves(r, t)
  BY <1>2 DEF RowMoves
<1>7. NothingIsKept' /\ BuiltIsClaimed'
  BY <1>2 DEF IInv, NothingIsKept, BuiltIsClaimed
<1>. QED
  BY <1>3, <1>5, <1>6, <1>7, RowStep

Grants(r) ==
  LET swept == [t \in Tokens |-> Expired(sessions[t])]
      token == requests[r].token
      row == swept[token]
  IN  /\ row.status \in {"absent", "active"} /\ row.attempts < AttemptLimit
      /\ sessions' = [swept EXCEPT ![token] =
            [row EXCEPT !.status = "active", !.attempts = row.attempts + 1,
                        !.accepted = Nothing]]
      /\ requests' = [requests EXCEPT ![r].stage = "working",
                                      ![r].attempt = row.attempts + 1]

LEMMA GrantStep ==
  ASSUME IInv, NEW r \in Requests, Is(r, "addressed", {"create", "refine"}), Grants(r),
         quota < DailyLimit, quota' = quota + 1,
         reserved' = [reserved EXCEPT ![r] = day + 1],
         UNCHANGED <<cookie, day, acceptances, built>>
  PROVE  IInv'
<1>. DEFINE t == requests[r].token
            old == Expired(sessions[t])
            row == [old EXCEPT !.status = "active", !.attempts = old.attempts + 1,
                               !.accepted = Nothing]
            granted == [requests[r] EXCEPT !.stage = "working",
                                           !.attempt = old.attempts + 1]
<1>1. /\ TypeOK /\ t \in Tokens /\ requests[r] \in Request
      /\ \A u \in Tokens : sessions[u] \in Session
  BY DEF IInv, RequestsInOrder, Live, TypeOK, Is
<1>2. \A u \in Tokens :
        /\ Expired(sessions[u]) \in Session
        /\ \/ Expired(sessions[u]) = sessions[u]
           \/ /\ sessions[u].status = "active" /\ Expired(sessions[u]).status = "expired"
              /\ Expired(sessions[u]).attempts = sessions[u].attempts
              /\ Expired(sessions[u]).refined = sessions[u].refined
              /\ Expired(sessions[u]).proposal = Nothing
              /\ Expired(sessions[u]).clarification = "none"
              /\ Expired(sessions[u]).accepted = Nothing
  BY <1>1, ExpiredEffect
<1>3. /\ old \in Session /\ old.status \in {"absent", "active"}
      /\ old.attempts \in Nat /\ old.attempts < AttemptLimit
  BY <1>1, <1>2, Limits DEF Session, Grants
<1>4. old = sessions[t]
  BY <1>1, <1>2, <1>3
<1>5. /\ \A u \in Tokens \ {t} : sessions'[u] = Expired(sessions[u])
      /\ sessions'[t] = row
      /\ sessions' = [u \in Tokens |-> sessions'[u]]
  <2>. DEFINE swept == [u \in Tokens |-> Expired(sessions[u])]
  <2>1. sessions' = [swept EXCEPT ![t] =
            [swept[t] EXCEPT !.status = "active", !.attempts = swept[t].attempts + 1,
                             !.accepted = Nothing]]
    BY DEF Grants
  <2>2. swept[t] = old
    BY <1>1
  <2>3. sessions' = [swept EXCEPT ![t] = row]
    BY <2>1, <2>2
  <2>. HIDE DEF row, old
  <2>. QED
    BY <1>1, <2>3
<1>6. Nothing \in MaybeCandidate /\ old.attempts + 1 \in 0..AttemptLimit
  BY <1>3, Limits DEF MaybeCandidate
<1>7. /\ row \in Session /\ row.status = "active" /\ row.attempts = old.attempts + 1
      /\ row.refined = old.refined /\ row.proposal = old.proposal
  BY <1>3, <1>6 DEF Session
<1>8. requests'[r] = granted /\ OthersStay(r)
      /\ requests' = [q \in Requests |-> requests'[q]]
  BY <1>1 DEF TypeOK, OthersStay, Grants
<1>9. /\ granted \in Request /\ granted.stage = "working"
      /\ granted.attempt = old.attempts + 1
      /\ granted.kind = requests[r].kind /\ granted.token = t
      /\ granted.seen = requests[r].seen /\ granted.counted = requests[r].counted
      /\ granted.told = requests[r].told
  BY <1>1, <1>6 DEF Request
<1>. HIDE DEF row, granted, old
<1>10. TypeOK'
  <2>1. sessions' \in [Tokens -> Session]
    BY <1>2, <1>5, <1>7
  <2>2. requests' \in [Requests -> Request]
    BY <1>1, <1>8, <1>9 DEF OthersStay, TypeOK
  <2>3. quota' \in 0..DailyLimit /\ reserved' \in [Requests -> 0..(LastDay + 1)]
    BY <1>1, Limits DEF TypeOK
  <2>. QED
    BY <1>1, <2>1, <2>2, <2>3 DEF TypeOK
<1>11. NothingIsKept'
  BY <1>2, <1>5, <1>7 DEF IInv, NothingIsKept
<1>12. RequestsInOrder'
  BY <1>1, <1>8, <1>9 DEF IInv, RequestsInOrder, OthersStay, Live, Is
<1>13. FreshTokens'
  <2>1. \A u \in Tokens : sessions'[u].status = "absent" =>
          u # t /\ sessions[u].status = "absent"
    BY <1>2, <1>5, <1>7
  <2>2. \A q \in Requests : requests'[q].token = requests[q].token
    BY <1>8, <1>9 DEF OthersStay
  <2>3. \A q \in Requests : requests[q].token # t => requests'[q] = requests[q]
    BY <1>8 DEF OthersStay
  <2>. QED
    BY <2>1, <2>2, <2>3 DEF IInv, FreshTokens
<1>14. AttemptsDiffer'
  <2>1. \A q \in Requests : requests'[q].token = requests[q].token
    BY <1>8, <1>9 DEF OthersStay
  <2>2. \A u \in Tokens : /\ sessions[u].attempts \in Nat
                          /\ u # t => sessions'[u].attempts = sessions[u].attempts
    BY <1>1, <1>2, <1>5, Limits DEF Session
  <2>3. /\ sessions'[t].attempts = sessions[t].attempts + 1
        /\ requests'[r].attempt = sessions[t].attempts + 1
    BY <1>4, <1>5, <1>7, <1>8, <1>9
  <2>4. \A q \in Requests : requests[q].attempt \in Nat
    BY <1>1, Limits DEF TypeOK, Request
  <2>5. \A q \in Requests : requests'[q].token \in Tokens =>
          requests'[q].attempt <= sessions'[requests'[q].token].attempts
    <3>. SUFFICES ASSUME NEW q \in Requests, requests[q].token \in Tokens
                  PROVE  requests'[q].attempt <= sessions'[requests[q].token].attempts
      BY <2>1
    <3>1. CASE q = r
      BY <2>2, <2>3, <3>1
    <3>2. CASE q # r
      BY <1>8, <2>2, <2>3, <2>4, <3>2 DEF IInv, AttemptsDiffer, OthersStay
    <3>. QED
      BY <3>1, <3>2
  <2>6. \A q \in Requests \ {r} :
          Generates(q)' /\ requests'[q].token = t => requests'[q].attempt # requests'[r].attempt
    BY <1>1, <1>8, <2>2, <2>3, <2>4 DEF IInv, AttemptsDiffer, OthersStay, Generates, Is
  <2>7. \A q \in Requests \ {r} : requests'[q] = requests[q]
    BY <1>8 DEF OthersStay
  <2>8. \A p, q \in Requests :
            Generates(p)' /\ Generates(q)' /\ requests'[p].token = requests'[q].token
            /\ requests'[p].attempt = requests'[q].attempt => p = q
    <3>. SUFFICES ASSUME NEW p \in Requests, NEW q \in Requests, p # q,
                         Generates(p)', Generates(q)',
                         requests'[p].token = requests'[q].token,
                         requests'[p].attempt = requests'[q].attempt
                  PROVE  FALSE
      OBVIOUS
    <3>1. CASE p = r \/ q = r
      BY <2>1, <2>6, <3>1
    <3>2. CASE p # r /\ q # r
      BY <2>7, <3>2 DEF IInv, AttemptsDiffer, Generates, Is
    <3>. QED
      BY <3>1, <3>2
  <2>. QED
    BY <2>5, <2>8 DEF AttemptsDiffer
<1>15. RefinementsCover'
  <2>. SUFFICES ASSUME NEW q \in Requests PROVE Covered(q)'
    BY DEF RefinementsCover
  <2>1. SUFFICES ASSUME requests'[q].kind = "refine", requests'[q].stage \in Live
                 PROVE  Covered(q)'
    BY DEF Covered
  <2>2. CASE q = r
    <3>1. sessions[t].status = "absent" => sessions[t].proposal = Nothing
      BY <1>1 DEF IInv, NothingIsKept
    <3>2. Covers(r, sessions[t]) \/ sessions[t].proposal = Nothing
      BY <1>8, <1>9, <2>1, <2>2, <3>1 DEF IInv, RefinementsCover, Covered, Is, Live
    <3>3. Covers(r, sessions[requests[r].token])'
      BY <1>4, <1>5, <1>7, <1>8, <1>9, <3>2 DEF Covers
    <3>. QED
      BY <1>8, <1>9, <2>2, <3>3 DEF Covered
  <2>3. CASE q # r
    <3>. DEFINE u == requests[q].token
    <3>1. requests'[q] = requests[q] /\ u \in Tokens
      BY <1>8, <2>1, <2>3 DEF OthersStay, IInv, RequestsInOrder
    <3>2. /\ sessions'[u].refined = sessions[u].refined
          /\ sessions'[u].proposal \in {sessions[u].proposal, Nothing}
      BY <1>1, <1>2, <1>4, <1>5, <1>7, <3>1
    <3>3. Covered(q)
      BY <3>1 DEF IInv, RefinementsCover
    <3>4. requests[q].stage = "working" =>
            \/ sessions'[u].attempts = sessions[u].attempts
            \/ sessions'[u].attempts # requests[q].attempt
      <4>1. CASE u = t
        <5>1. sessions'[u].attempts = sessions[u].attempts + 1 /\ sessions[u].attempts \in Nat
          BY <1>3, <1>4, <1>5, <1>7, <4>1
        <5>2. requests[q].attempt <= sessions[u].attempts /\ requests[q].attempt \in Nat
          BY <1>1, <3>1, Limits DEF IInv, AttemptsDiffer, TypeOK, Request
        <5>. QED
          BY <5>1, <5>2
      <4>2. CASE u # t
        BY <1>2, <1>5, <3>1, <4>2
      <4>. QED
        BY <4>1, <4>2
    <3>5. requests[q].stage # "working" => sessions[u].status # "absent" \/ u # t
      BY <2>3, <3>1 DEF IInv, FreshTokens
    <3>6. u # t => (sessions'[u].status = "absent" <=> sessions[u].status = "absent")
      BY <1>2, <1>5, <3>1
    <3>. QED
      BY <2>1, <3>1, <3>2, <3>3, <3>4, <3>5, <3>6 DEF Covered, Covers
  <2>. QED
    BY <2>2, <2>3
<1>16. BuiltIsClaimed'
  <2>1. sessions'[t].status = "active"
    BY <1>5, <1>7
  <2>2. built[t] = Nothing
    BY <1>1, <1>3, <1>4 DEF IInv, BuiltIsClaimed
  <2>3. \A u \in Tokens \ {t} :
          sessions'[u].status = "claimed" <=> sessions[u].status = "claimed"
    BY <1>2, <1>5
  <2>. HIDE DEF t
  <2>. QED
    BY <2>1, <2>2, <2>3 DEF IInv, BuiltIsClaimed
<1>. QED
  BY <1>10, <1>11, <1>12, <1>13, <1>14, <1>15, <1>16 DEF IInv

LEMMA ReserveStep ==
  ASSUME IInv, NEW r \in Requests, Reserve(r)
  PROVE  IInv'
<1>1. TypeOK /\ requests[r].token \in Tokens
  BY DEF IInv, RequestsInOrder, Live, Reserve, Is
<1>. DEFINE swept == [t \in Tokens |-> Expired(sessions[t])]
            granted == /\ swept[requests[r].token].status \in {"absent", "active"}
                       /\ swept[requests[r].token].attempts < AttemptLimit
                       /\ QuotaLeft
<1>2. CASE granted
  BY <1>2, GrantStep DEF Reserve, QuotaLeft, Grants
<1>3. CASE ~granted
  BY <1>3, RefuseStep DEF Reserve
<1>. QED
  BY <1>2, <1>3

-----------------------------------------------------------------------------
(* A request is sent, or given its token: no row changes. *)

\* The request r holds `token', which is in use or nobody else's, and has not
\* reserved.
LEMMA SendingStep ==
  ASSUME IInv, NEW r \in Requests, NEW token \in Tokens,
         requests' \in [Requests -> Request], OthersStay(r),
         UNCHANGED <<sessions, quota, cookie, day, reserved, acceptances, built>>,
         requests'[r].token = token,
         requests'[r].stage \in Live, requests'[r].told = "nothing",
         requests'[r].attempt <= sessions[token].attempts,
         requests'[r].stage \in {"loaded", "addressed"} => requests'[r].attempt = 0,
         requests'[r].stage = "loaded" => requests'[r].kind = "refine",
         requests'[r].stage = "working" => requests'[r].kind \notin {"create", "refine"},
         requests'[r].kind \in {"refine", "accept"} => requests'[r].seen \in Candidate,
         requests'[r].kind = "refine" => requests'[r].counted < RefinementLimit,
         sessions[token].status = "absent" =>
            /\ requests'[r].stage = "addressed"
            /\ \A q \in Requests \ {r} : requests[q].token # token,
         sessions[token].status # "absent" /\ requests'[r].kind = "refine" =>
            requests'[r].counted <= sessions[token].refined /\ Covers(r, sessions[token])'
  PROVE  IInv'
<1>1. \A q \in Requests \ {r} : requests'[q] = requests[q]
  BY DEF OthersStay
<1>2. TypeOK'
  BY DEF IInv, TypeOK
<1>3. NothingIsKept' /\ BuiltIsClaimed'
  BY RowsStay
<1>4. RequestsInOrder'
  BY <1>1 DEF IInv, RequestsInOrder, Live
<1>5. FreshTokens'
  BY <1>1 DEF IInv, FreshTokens
<1>6. AttemptsDiffer'
  <2>1. \A q \in Requests : Generates(q)' => q # r /\ Generates(q)
    BY <1>1 DEF Generates, Is
  <2>2. \A q \in Requests : requests'[q].token \in Tokens =>
          requests'[q].attempt <= sessions'[requests'[q].token].attempts
    BY <1>1 DEF IInv, AttemptsDiffer
  <2>. QED
    BY <1>1, <2>1, <2>2 DEF IInv, AttemptsDiffer
<1>7. RefinementsCover'
  <2>1. ASSUME NEW q \in Requests \ {r} PROVE Covered(q)'
    <3>1. Covered(q) /\ requests'[q] = requests[q]
      BY <1>1 DEF IInv, RefinementsCover
    <3>. QED
      BY <3>1 DEF Covered, Covers
  <2>2. Covered(r)'
    BY DEF Covered
  <2>. QED
    BY <2>1, <2>2 DEF RefinementsCover
<1>. QED
  BY <1>2, <1>3, <1>4, <1>5, <1>6, <1>7 DEF IInv

LEMMA Moved ==
  ASSUME TypeOK, NEW r \in Requests, NEW request \in Request,
         requests' = [requests EXCEPT ![r] = request]
  PROVE  requests' \in [Requests -> Request] /\ OthersStay(r) /\ requests'[r] = request
BY DEF TypeOK, OthersStay

LEMMA SendStep ==
  ASSUME IInv, NEW r \in Requests, NEW kind \in Kinds, Send(r, kind)
  PROVE  IInv'
<1>. DEFINE stage == IF kind = "refine" THEN "loaded" ELSE "working"
            attempt == IF kind = "answer" THEN Row.attempts ELSE 0
            sent == [requests[r] EXCEPT !.stage = stage, !.kind = kind, !.token = cookie,
                                        !.seen = Row.proposal, !.counted = Row.refined,
                                        !.attempt = attempt]
<1>1. /\ TypeOK /\ requests[r] \in Request /\ requests[r].stage = "unsent"
      /\ cookie \in Tokens /\ Row \in Session /\ Row = sessions[cookie]
      /\ Row.status = "active" /\ kind # "create"
  BY DEF IInv, TypeOK, Send, Is, Ready, Usable, Row
<1>2. /\ kind \in {"refine", "accept"} => Row.proposal \in Candidate
      /\ kind = "refine" => Row.refined < RefinementLimit
  BY <1>1 DEF Send, Ready, Session, MaybeCandidate
<1>3. requests[r].told = "nothing"
  BY <1>1 DEF IInv, RequestsInOrder
<1>4. /\ stage \in {"loaded", "working"} /\ attempt \in 0..AttemptLimit
      /\ attempt <= Row.attempts
      /\ stage = "loaded" <=> kind = "refine"
      /\ stage = "loaded" => attempt = 0
      /\ Row.proposal \in MaybeCandidate /\ Row.refined \in 0..RefinementLimit
  BY <1>1, Limits DEF Session
<1>5. requests' = [requests EXCEPT ![r] = sent]
  BY DEF Send
<1>. HIDE DEF stage, attempt
<1>6. /\ sent \in Request /\ sent.stage = stage /\ sent.kind = kind
      /\ sent.token = cookie /\ sent.seen = Row.proposal /\ sent.counted = Row.refined
      /\ sent.attempt = attempt /\ sent.told = requests[r].told
  BY <1>1, <1>4 DEF Request
<1>. HIDE DEF sent
<1>7. /\ requests' \in [Requests -> Request] /\ OthersStay(r) /\ requests'[r] = sent
  BY <1>1, <1>5, <1>6, Moved
<1>8. UNCHANGED <<sessions, quota, cookie, day, reserved, acceptances, built>>
  BY DEF Send
<1>9. kind = "refine" =>
        requests'[r].counted <= sessions[cookie].refined /\ Covers(r, sessions[cookie])'
  BY <1>1, <1>4, <1>6, <1>7, <1>8, Limits DEF Covers
<1>10. requests'[r].stage \in Live
  BY <1>4, <1>6, <1>7 DEF Live
<1>. QED
  BY <1>1, <1>2, <1>3, <1>4, <1>6, <1>7, <1>8, <1>9, <1>10, SendingStep

LEMMA SendCreateStep ==
  ASSUME IInv, NEW r \in Requests, NEW token \in Tokens, SendCreate(r, token)
  PROVE  IInv'
<1>. DEFINE sent == [requests[r] EXCEPT !.stage = "addressed", !.kind = "create",
                                        !.token = token]
<1>1. /\ TypeOK /\ requests[r] \in Request /\ requests[r].stage = "unsent"
  BY DEF IInv, TypeOK, SendCreate, Is
<1>2. requests[r].told = "nothing" /\ requests[r].attempt = 0
  BY <1>1 DEF IInv, RequestsInOrder
<1>3. requests' = [requests EXCEPT ![r] = sent]
  BY DEF SendCreate
<1>4. /\ sent \in Request /\ sent.stage = "addressed" /\ sent.kind = "create"
      /\ sent.token = token /\ sent.attempt = requests[r].attempt
      /\ sent.told = requests[r].told
  BY <1>1 DEF Request, Kinds
<1>. HIDE DEF sent
<1>5. requests' \in [Requests -> Request] /\ OthersStay(r) /\ requests'[r] = sent
  BY <1>1, <1>3, <1>4, Moved
<1>6. UNCHANGED <<sessions, quota, cookie, day, reserved, acceptances, built>>
  BY DEF SendCreate
<1>7. sessions[token].status = "absent" =>
        \A q \in Requests \ {r} : requests[q].token # token
  BY DEF SendCreate, Address, Usable
<1>8. sent.attempt <= sessions[token].attempts
  BY <1>1, <1>2, <1>4, Limits DEF TypeOK, Session
<1>9. requests'[r].stage \in Live
  BY <1>4, <1>5 DEF Live
<1>. QED
  BY <1>2, <1>4, <1>5, <1>6, <1>7, <1>8, <1>9, SendingStep

LEMMA AddressRefinementStep ==
  ASSUME IInv, NEW r \in Requests, NEW token \in Tokens, AddressRefinement(r, token)
  PROVE  IInv'
<1>. DEFINE sent == [requests[r] EXCEPT !.stage = "addressed", !.token = token]
<1>1. /\ TypeOK /\ requests[r] \in Request
      /\ requests[r].stage = "loaded" /\ requests[r].kind = "refine"
      /\ requests[r].token \in Tokens
  BY DEF IInv, TypeOK, AddressRefinement, Is, RequestsInOrder, Live
<1>2. /\ requests[r].told = "nothing" /\ requests[r].attempt = 0
      /\ requests[r].seen \in Candidate /\ requests[r].counted < RefinementLimit
  BY <1>1 DEF IInv, RequestsInOrder, Live
<1>3. requests' = [requests EXCEPT ![r] = sent]
  BY <1>1 DEF AddressRefinement, TypeOK
<1>4. /\ sent \in Request /\ sent.stage = "addressed" /\ sent.kind = "refine"
      /\ sent.token = token /\ sent.attempt = requests[r].attempt
      /\ sent.told = requests[r].told
      /\ sent.seen = requests[r].seen /\ sent.counted = requests[r].counted
  BY <1>1 DEF Request
<1>. HIDE DEF sent
<1>5. requests' \in [Requests -> Request] /\ OthersStay(r) /\ requests'[r] = sent
  BY <1>1, <1>3, <1>4, Moved
<1>6. UNCHANGED <<sessions, quota, cookie, day, reserved, acceptances, built>>
  BY DEF AddressRefinement
<1>7. \/ token = requests[r].token
      \/ /\ sessions[token].status = "absent"
         /\ \A q \in Requests \ {r} : requests[q].token # token
  BY DEF AddressRefinement, Address
<1>8. sessions[requests[r].token].status # "absent"
  BY <1>1 DEF IInv, FreshTokens
<1>9. Covered(r)
  BY DEF IInv, RefinementsCover
<1>10. sessions[token].status # "absent" =>
         requests'[r].counted <= sessions[token].refined /\ Covers(r, sessions[token])'
  BY <1>1, <1>4, <1>5, <1>6, <1>7, <1>8, <1>9 DEF Covered, Covers, Live
<1>11. sent.attempt <= sessions[token].attempts
  BY <1>1, <1>2, <1>4, Limits DEF TypeOK, Session
<1>12. requests'[r].stage \in Live
  BY <1>4, <1>5 DEF Live
<1>. QED
  BY <1>2, <1>4, <1>5, <1>6, <1>7, <1>8, <1>10, <1>11, <1>12, SendingStep

-----------------------------------------------------------------------------
(* Every step keeps the invariant. *)

LEMMA NextInvariant == IInv /\ [Next]_vars => IInv'
<1>. SUFFICES ASSUME IInv, [Next]_vars PROVE IInv'
  OBVIOUS
<1>1. CASE UNCHANGED vars
  <2>1. TypeOK' /\ OthersStay(Nothing)
    BY <1>1 DEF IInv, TypeOK, vars, OthersStay
  <2>2. sessions' = sessions /\ built' = built /\ cookie' = cookie /\ requests' = requests
    BY <1>1 DEF vars
  <2>. QED
    BY <2>1, <2>2, RowsStay, RowStep
<1>2. ASSUME NEW r \in Requests, NEW kind \in Kinds, Send(r, kind) \/ Refuse(r, kind)
      PROVE  IInv'
  BY <1>2, SendStep, RefuseAtLoadStep
<1>3. ASSUME NEW r \in Requests, NEW token \in Tokens,
             SendCreate(r, token) \/ AddressRefinement(r, token)
      PROVE  IInv'
  BY <1>3, SendCreateStep, AddressRefinementStep
<1>4. ASSUME NEW r \in Requests, Reserve(r) PROVE IInv'
  BY <1>4, ReserveStep
<1>5. ASSUME NEW r \in Requests, Ask(r) \/ Propose(r) \/ Fail(r) PROVE IInv'
  BY <1>5, AskStep, ProposeStep, FailStep
<1>6. ASSUME NEW r \in Requests, Accept(r) \/ Claim(r) PROVE IInv'
  BY <1>6, AcceptStep, ClaimStep
<1>7. ASSUME NEW r \in Requests, Answer(r) \/ Lose(r) PROVE IInv'
  BY <1>7, AnswerStep, LoseStep
<1>8. ASSUME NEW token \in Tokens, Lapse(token) PROVE IInv'
  BY <1>8, LapseStep
<1>9. CASE LoadLapsed \/ NewDay
  BY <1>9, LoadLapsedStep, NewDayStep
<1>. QED
  BY <1>1, <1>2, <1>3, <1>4, <1>5, <1>6, <1>7, <1>8, <1>9 DEF Next

-----------------------------------------------------------------------------
(* Theorems. *)

\* Rows, requests and their histories stay in step, whatever interleaves.
THEOREM Invariance == Spec => []IInv
<1>. QED
  BY InitInvariant, NextInvariant, PTL DEF Spec

\* Every variable of the journey stays in its type.
THEOREM TypeCorrect == Spec => []TypeOK
<1>1. IInv => TypeOK
  BY DEF IInv
<1>. QED
  BY <1>1, Invariance, PTL

\* A session that expired or was claimed keeps no candidate, question or
\* acceptance, also when a candidate is generated and written late.
THEOREM NothingStays == Spec => []NothingIsKept
<1>1. IInv => NothingIsKept
  BY DEF IInv
<1>. QED
  BY <1>1, Invariance, PTL

-----------------------------------------------------------------------------
(* What a step may do to the candidates that are there. *)

ProposalsStay == \A t \in Tokens : sessions'[t].proposal \in {sessions[t].proposal, Nothing}

LEMMA OneRow ==
  ASSUME TypeOK, NEW t \in Tokens, NEW row, sessions' = [sessions EXCEPT ![t] = row],
         row.proposal \in {sessions[t].proposal, Nothing}
  PROVE  ProposalsStay
BY DEF TypeOK, ProposalsStay

LEMMA OnlyProposals ==
  ASSUME IInv, Next, \A r \in Requests : ~Propose(r)
  PROVE  ProposalsStay
<1>1. /\ TypeOK /\ \A t \in Tokens : sessions[t] \in Session
      /\ \A r \in Requests : requests[r].stage = "working" => requests[r].token \in Tokens
  BY DEF IInv, TypeOK, RequestsInOrder, Live
<1>2. CASE sessions' = sessions
  BY <1>2 DEF ProposalsStay
<1>3. ASSUME NEW r \in Requests, Reserve(r) PROVE ProposalsStay
  <2>. DEFINE swept == [t \in Tokens |-> Expired(sessions[t])]
              token == requests[r].token
              row == [swept[token] EXCEPT !.status = "active",
                         !.attempts = swept[token].attempts + 1, !.accepted = Nothing]
  <2>1. \A t \in Tokens : swept[t].proposal \in {sessions[t].proposal, Nothing}
    BY <1>1, ScrubEffect, ExpiredEffect DEF Expired, Session
  <2>2. sessions' = swept \/ sessions' = [swept EXCEPT ![token] = row]
    BY <1>3 DEF Reserve
  <2>3. token \in Tokens
    BY <1>3, <1>1 DEF IInv, RequestsInOrder, Reserve, Is, Live
  <2>4. row.proposal = swept[token].proposal
    <3>1. swept[token] \in Session
      BY <1>1, <2>3, ExpiredEffect
    <3>. QED
      BY <3>1 DEF Session
  <2>. HIDE DEF row
  <2>. QED
    BY <2>1, <2>2, <2>3, <2>4 DEF ProposalsStay
<1>4. ASSUME NEW r \in Requests, Ask(r) PROVE ProposalsStay
  <2>. DEFINE t == requests[r].token
              row == [sessions[t] EXCEPT !.proposal = Nothing, !.clarification = "awaiting"]
  <2>1. t \in Tokens /\ sessions[t] \in Session
    BY <1>1, <1>4 DEF Ask, Is
  <2>2. row.proposal = Nothing
    BY <2>1 DEF Session
  <2>3. sessions' = sessions \/ sessions' = [sessions EXCEPT ![t] = row]
    BY <1>4 DEF Ask, Write
  <2>. QED
    BY <1>1, <1>2, <2>1, <2>2, <2>3, OneRow
<1>5. ASSUME NEW r \in Requests, Accept(r) PROVE ProposalsStay
  <2>. DEFINE t == requests[r].token
              row == [sessions[t] EXCEPT !.accepted = requests[r].seen]
  <2>1. t \in Tokens /\ sessions[t] \in Session
    BY <1>1, <1>5 DEF Accept, Is
  <2>2. row.proposal = sessions[t].proposal
    BY <2>1 DEF Session
  <2>3. sessions' = sessions \/ sessions' = [sessions EXCEPT ![t] = row]
    BY <1>5 DEF Accept
  <2>. QED
    BY <1>1, <1>2, <2>1, <2>2, <2>3, OneRow
<1>6. ASSUME NEW r \in Requests, Claim(r) PROVE ProposalsStay
  <2>. DEFINE t == requests[r].token
              row == Scrub(sessions[t], "claimed")
  <2>1. t \in Tokens /\ sessions[t] \in Session
    BY <1>1, <1>6 DEF Claim, Is
  <2>2. row.proposal = Nothing
    BY <2>1 DEF Session, Scrub
  <2>3. sessions' = sessions \/ sessions' = [sessions EXCEPT ![t] = row]
    BY <1>6 DEF Claim
  <2>. QED
    BY <1>1, <1>2, <2>1, <2>2, <2>3, OneRow
<1>7. ASSUME NEW t \in Tokens, Lapse(t) PROVE ProposalsStay
  <2>. DEFINE row == [sessions[t] EXCEPT !.lapsed = TRUE]
  <2>1. row.proposal = sessions[t].proposal
    BY <1>1 DEF Session
  <2>2. sessions' = [sessions EXCEPT ![t] = row]
    BY <1>7 DEF Lapse
  <2>. QED
    BY <1>1, <2>1, <2>2, OneRow
<1>8. CASE LoadLapsed
  <2>. DEFINE row == Expired(sessions[cookie])
  <2>1. cookie \in Tokens /\ sessions[cookie] \in Session
    BY <1>1, <1>8 DEF LoadLapsed, TypeOK
  <2>2. row.proposal \in {sessions[cookie].proposal, Nothing}
    BY <2>1 DEF Session, Expired, Scrub
  <2>3. sessions' = [sessions EXCEPT ![cookie] = row]
    BY <1>8 DEF LoadLapsed
  <2>. QED
    BY <1>1, <2>1, <2>2, <2>3, OneRow
<1>9. ASSUME NEW r \in Requests,
             \/ \E kind \in Kinds : Send(r, kind)
             \/ \E token \in Tokens : SendCreate(r, token) \/ AddressRefinement(r, token)
             \/ Fail(r) \/ Answer(r) \/ Lose(r)
      PROVE  sessions' = sessions
  BY <1>9 DEF Send, SendCreate, AddressRefinement, Fail, Answer, Lose
<1>10. NewDay => sessions' = sessions
  BY DEF NewDay
<1>11. ASSUME NEW r \in Requests, NEW kind \in Kinds, Refuse(r, kind) PROVE ProposalsStay
  <2>1. \A t \in Tokens : sessions'[t].proposal \in {sessions[t].proposal, Nothing}
    BY <1>1, <1>11, ExpiredEffect DEF Refuse
  <2>. QED
    BY <2>1 DEF ProposalsStay
<1>. QED
  BY <1>2, <1>3, <1>4, <1>5, <1>6, <1>7, <1>8, <1>9, <1>10, <1>11 DEF Next

\* The refinement that is written has seen what its predecessor contains.
LEMMA ProposalKeeps ==
  ASSUME IInv, NEW r \in Requests, Propose(r), NEW t \in Tokens,
         sessions[t].proposal # Nothing, sessions'[t].proposal # Nothing,
         sessions'[t].proposal.refinements # {}
  PROVE  sessions[t].proposal.refinements \subseteq sessions'[t].proposal.refinements
<1>. DEFINE token == requests[r].token
            refines == requests[r].kind = "refine"
            candidate ==
              [by |-> r, attempt |-> requests[r].attempt,
               refinements |-> IF refines THEN requests[r].seen.refinements \cup {r} ELSE {}]
            row == [sessions[token] EXCEPT
                      !.proposal = candidate, !.clarification = "complete",
                      !.refined = IF refines THEN requests[r].counted + 1 ELSE @]
<1>1. /\ TypeOK /\ requests[r].stage = "working" /\ token \in Tokens
      /\ sessions[token] \in Session
  BY DEF IInv, RequestsInOrder, Live, TypeOK, Propose, Is
<1>2. row.proposal = candidate
  BY <1>1 DEF Session
<1>3. Write(r, row)
  BY DEF Propose
<1>4. CASE ~Current(r) \/ t # token
  <2>1. sessions'[t] = sessions[t]
    BY <1>3, <1>4, <1>1 DEF Write, TypeOK
  <2>. QED
    BY <2>1
<1>5. CASE Current(r) /\ t = token
  <2>1. sessions'[t] = row
    BY <1>3, <1>5, <1>1 DEF Write, TypeOK
  <2>2. sessions'[t].proposal = candidate
    BY <1>2, <2>1
  <2>3. refines
    BY <2>2
  <2>4. Covers(r, sessions[t])
    BY <1>1, <1>5, <2>3 DEF IInv, RefinementsCover, Covered, Current, Live
  <2>5. sessions[t].refined = requests[r].counted
    BY <1>5, <2>3 DEF Current
  <2>. QED
    BY <2>2, <2>3, <2>4, <2>5 DEF Covers
<1>. QED
  BY <1>4, <1>5

LEMMA RefinementsStep ==
  ASSUME IInv, [Next]_vars, NEW t \in Tokens,
         sessions[t].proposal # Nothing, sessions'[t].proposal # Nothing,
         sessions'[t].proposal.refinements # {}
  PROVE  sessions[t].proposal.refinements \subseteq sessions'[t].proposal.refinements
<1>1. CASE UNCHANGED vars
  BY <1>1 DEF vars
<1>2. CASE \E r \in Requests : Propose(r)
  BY <1>2, ProposalKeeps
<1>3. CASE Next /\ \A r \in Requests : ~Propose(r)
  BY <1>3, OnlyProposals DEF ProposalsStay
<1>. QED
  BY <1>1, <1>2, <1>3

\* A claim that is worked on is told something by its own step alone.
LEMMA TellsItself ==
  ASSUME IInv, [Next]_vars, NEW r \in Requests, Is(r, "working", {"claim"}), ~Claim(r)
  PROVE  requests'[r].told = "nothing"
<1>1. /\ TypeOK /\ requests[r].stage = "working" /\ requests[r].kind = "claim"
      /\ requests[r].told = "nothing" /\ requests[r].token \in Tokens
      /\ requests[r] \in Request
  BY DEF IInv, TypeOK, RequestsInOrder, Live, Is
<1>2. CASE requests' = requests
  BY <1>1, <1>2
<1>3. ASSUME NEW q \in Requests, NEW told, End(q, told), q # r
      PROVE  requests'[r].told = "nothing"
  BY <1>1, <1>3 DEF End, TypeOK
<1>4. ASSUME NEW q \in Requests, Ask(q) \/ Propose(q) \/ Fail(q) \/ Accept(q) \/ Claim(q)
      PROVE  requests'[r].told = "nothing"
  <2>1. q # r
    BY <1>1, <1>4 DEF Is, Ask, Propose, Fail, Accept
  <2>2. \E told : End(q, told)
    BY <1>4 DEF Ask, Propose, Fail, Accept, Claim, EndClaim, Write
  <2>. QED
    BY <2>1, <2>2, <1>3
<1>5. ASSUME NEW q \in Requests, Reserve(q) PROVE requests'[r].told = "nothing"
  <2>1. q # r
    BY <1>1, <1>5 DEF Reserve, Is
  <2>2. \/ End(q, "failed")
        \/ \E n : requests' = [requests EXCEPT ![q].stage = "working", ![q].attempt = n]
    BY <1>5 DEF Reserve
  <2>. QED
    BY <1>1, <1>3, <2>1, <2>2 DEF TypeOK
<1>6. ASSUME NEW q \in Requests, NEW kind \in Kinds, Send(q, kind) \/ Refuse(q, kind)
      PROVE  requests'[r].told = "nothing"
  BY <1>1, <1>6 DEF Send, Refuse, Is, TypeOK
<1>7. ASSUME NEW q \in Requests, NEW token \in Tokens,
             SendCreate(q, token) \/ AddressRefinement(q, token)
      PROVE  requests'[r].told = "nothing"
  BY <1>1, <1>7 DEF SendCreate, AddressRefinement, Is, TypeOK
<1>8. ASSUME NEW q \in Requests, Answer(q) PROVE requests'[r].told = "nothing"
  BY <1>1, <1>8 DEF Answer, TypeOK
<1>9. ASSUME NEW q \in Requests, Lose(q) PROVE requests'[r].told = "nothing"
  <2>1. requests'[r].told = requests[r].told
    BY <1>1, <1>9 DEF Lose, TypeOK, Request
  <2>. QED
    BY <1>1, <2>1
<1>10. ASSUME (\E token \in Tokens : Lapse(token)) \/ LoadLapsed \/ NewDay \/ UNCHANGED vars
       PROVE  requests' = requests
  BY <1>10 DEF Lapse, LoadLapsed, NewDay, vars
<1>. QED
  BY <1>2, <1>4, <1>5, <1>6, <1>7, <1>8, <1>9, <1>10 DEF Next

\* What an answered claim is told is so.
LEMMA ClaimTells ==
  ASSUME IInv, NEW r \in Requests, Claim(r), requests'[r].told \in {"done", "failed"}
  PROVE  requests'[r].told = "done" <=> built'[requests[r].token] # Nothing
<1>. DEFINE t == requests[r].token
            row == sessions[t]
<1>1. TypeOK /\ t \in Tokens /\ row \in Session
  BY DEF IInv, RequestsInOrder, Live, TypeOK, Claim, Is
<1>2. built[t] # Nothing <=> Replayed(row)
  BY <1>1 DEF IInv, BuiltIsClaimed, Replayed
<1>3. ASSUME NEW told \in {"done", "failed"}, EndClaim(r, told)
      PROVE  requests'[r].told = told
  BY <1>1, <1>3, EndEffect DEF EndClaim
<1>4. CASE Replayed(row) /\ EndClaim(r, "done") /\ built' = built
  BY <1>2, <1>3, <1>4
<1>5. CASE /\ ~Replayed(row) /\ Claimable(row) /\ EndClaim(r, "done")
           /\ built' = [built EXCEPT ![t] = row.proposal]
  BY <1>1, <1>3, <1>5 DEF TypeOK, Claimable
<1>6. CASE ~Replayed(row) /\ EndClaim(r, "failed") /\ built' = built
  BY <1>2, <1>3, <1>6
<1>. QED
  BY <1>4, <1>5, <1>6 DEF Claim

\* A session's business is made once.
LEMMA BuiltOnce ==
  ASSUME IInv, [Next]_vars, NEW t \in Tokens, built[t] # Nothing
  PROVE  built'[t] = built[t]
<1>1. sessions[t].status = "claimed"
  BY DEF IInv, BuiltIsClaimed
<1>2. ASSUME NEW r \in Requests, Claim(r)
      PROVE  built'[t] = built[t]
  <2>1. \/ built' = built
        \/ /\ ~Replayed(sessions[requests[r].token])
           /\ built' = [built EXCEPT ![requests[r].token] = sessions[requests[r].token].proposal]
    BY <1>2 DEF Claim
  <2>. QED
    BY <1>1, <2>1 DEF Replayed, IInv, TypeOK
<1>3. CASE \A r \in Requests : ~Claim(r)
  <2>1. built' = built
    BY <1>3 DEF Next, vars, Send, Refuse, SendCreate, AddressRefinement, Reserve, Ask,
       Propose, Fail, Accept, Answer, Lose, Lapse, LoadLapsed, NewDay
  <2>. QED
    BY <2>1
<1>. QED
  BY <1>2, <1>3

\* A refinement contains every refinement of the candidate it replaces: of two
\* sent side by side the one that is written second is refused.
THEOREM RefinementsBuild == Spec => RefinementsAreKept
<1>. DEFINE Kept ==
       \A token \in Tokens :
         LET before == sessions[token].proposal
             after == sessions'[token].proposal
         IN  before # Nothing /\ after # Nothing /\ after.refinements # {} =>
                before.refinements \subseteq after.refinements
<1>1. IInv /\ [Next]_vars => [Kept]_vars
  BY RefinementsStep
<1>2. RefinementsAreKept <=> [][Kept]_vars
  BY DEF RefinementsAreKept
<1>. HIDE DEF Kept
<1>. QED
  BY <1>1, <1>2, Invariance, PTL DEF Spec

\* The claims of one session that found it when they loaded it make one business, and
\* those that the function answers are told that it was created if and only if it was.
THEOREM ClaimsAreOne == Spec => ClaimsAgree
<1>. DEFINE Agree ==
       /\ \A r \in Requests :
            Is(r, "working", {"claim"}) /\ requests'[r].told \in {"done", "failed"} =>
                (requests'[r].told = "done" <=> built'[requests[r].token] # Nothing)
       /\ \A token \in Tokens : built[token] # Nothing => built'[token] = built[token]
<1>1. IInv /\ [Next]_vars => [Agree]_vars
  <2>. SUFFICES ASSUME IInv, [Next]_vars
                PROVE  Agree
    OBVIOUS
  <2>1. ASSUME NEW r \in Requests, Is(r, "working", {"claim"}),
               requests'[r].told \in {"done", "failed"}
        PROVE  requests'[r].told = "done" <=> built'[requests[r].token] # Nothing
    BY <2>1, TellsItself, ClaimTells
  <2>. QED
    BY <2>1, BuiltOnce
<1>2. ClaimsAgree <=> [][Agree]_vars
  BY DEF ClaimsAgree
<1>. HIDE DEF Agree
<1>. QED
  BY <1>1, <1>2, Invariance, PTL DEF Spec
-----------------------------------------------------------------------------
(* Attempts and reservations are counted together. *)

LEMMA CountedSets ==
  ASSUME IInv, QInv
  PROVE  /\ IsFiniteSet(Attempts) /\ IsFiniteSet(Reservations)
         /\ \A d \in Nat : IsFiniteSet(ReservedOn(d))
         /\ Cardinality(Attempts) \in Nat
         /\ Cardinality(Reservations) \in Nat
         /\ \A d \in Nat : Cardinality(ReservedOn(d)) \in Nat
<1>1. IsFiniteSet(1..AttemptLimit)
  BY Limits, FS_Interval
<1>2. IsFiniteSet(Tokens \X (1..AttemptLimit))
  BY <1>1, LimitsAssumption, FS_Product
<1>3. Attempts \in SUBSET (Tokens \X (1..AttemptLimit))
  BY DEF Attempts
<1>4. IsFiniteSet(Attempts)
  BY <1>2, <1>3, FS_Subset
<1>5. /\ Reservations \in SUBSET Requests
      /\ \A d \in Nat : ReservedOn(d) \in SUBSET Requests
  BY DEF Reservations, ReservedOn
<1>6. IsFiniteSet(Reservations) /\ \A d \in Nat : IsFiniteSet(ReservedOn(d))
  BY <1>5, LimitsAssumption, FS_Subset
<1>. QED
  BY <1>4, <1>6, FS_CardinalityType

\* A step that reserves nothing: rows keep their attempts, and no request goes
\* back to where it was before it reserved.
Uncounted ==
  /\ \A t \in Tokens : sessions'[t].attempts = sessions[t].attempts
  /\ \A r \in Requests :
        requests'[r].stage \in {"unsent", "loaded", "addressed"} =>
            requests[r].stage \in {"unsent", "loaded", "addressed"}

LEMMA UncountedStep ==
  ASSUME IInv, QInv, Uncounted, UNCHANGED <<quota, day, reserved>>
  PROVE  QInv'
<1>1. Attempts' = Attempts
  BY DEF Attempts, Uncounted
<1>2. Reservations' = Reservations /\ \A d : ReservedOn(d)' = ReservedOn(d)
  BY DEF Reservations, ReservedOn
<1>3. ReservedOnce'
  BY DEF QInv, ReservedOnce, Uncounted
<1>4. quota' = Cardinality(ReservedOn(day)')
  BY <1>2 DEF QInv, QuotaHeld
<1>5. \A d \in 0..day' : Cardinality(ReservedOn(d)') <= DailyLimit
  BY <1>2 DEF QInv, QuotaHeld
<1>6. Cardinality(Attempts') = Cardinality(Reservations')
  BY <1>1, <1>2 DEF QInv, QuotaHeld
<1>7. ReservedOn(day)' = {r \in Requests : reserved'[r] = day' + 1}
  BY DEF ReservedOn
<1>. QED
  BY <1>2, <1>3, <1>4, <1>5, <1>6 DEF QInv, QuotaHeld, ReservedOn

LEMMA NewDayCounts ==
  ASSUME IInv, QInv, NewDay
  PROVE  QInv'
<1>1. /\ day \in Nat /\ day' = day + 1 /\ quota' = 0
      /\ UNCHANGED <<sessions, requests, reserved>>
      /\ \A r \in Requests : reserved[r] \in Nat
  BY Limits DEF IInv, TypeOK, NewDay
<1>2. Attempts' = Attempts /\ Reservations' = Reservations
  BY <1>1 DEF Attempts, Reservations
<1>3. ReservedOnce'
  BY <1>1 DEF QInv, ReservedOnce
<1>4. {r \in Requests : reserved'[r] = day' + 1} = {}
  BY <1>1 DEF QInv, ReservedOnce
<1>5. quota' = Cardinality(ReservedOn(day)')
  BY <1>1, <1>4, FS_EmptySet DEF ReservedOn
<1>6. \A d \in 0..day' : Cardinality({r \in Requests : reserved'[r] = d + 1}) <= DailyLimit
  <2>. SUFFICES ASSUME NEW d \in 0..day'
                PROVE  Cardinality({r \in Requests : reserved'[r] = d + 1}) <= DailyLimit
    OBVIOUS
  <2>1. CASE d = day'
    BY <2>1, <1>4, FS_EmptySet, Limits
  <2>2. CASE d \in 0..day
    BY <2>2, <1>1 DEF QInv, QuotaHeld, ReservedOn
  <2>. QED
    BY <1>1, <2>1, <2>2
<1>. QED
  BY <1>2, <1>3, <1>5, <1>6 DEF QInv, QuotaHeld, ReservedOn

\* A reservation that is granted is one more of both.
LEMMA GrantCounts ==
  ASSUME IInv, QInv, NEW r \in Requests, Is(r, "addressed", {"create", "refine"}), Grants(r),
         QuotaLeft, quota' = quota + 1,
         reserved' = [reserved EXCEPT ![r] = day + 1],
         day' = day
  PROVE  QInv'
<1>. DEFINE t == requests[r].token
            old == Expired(sessions[t])
            pair == <<t, old.attempts + 1>>
<1>1. /\ TypeOK /\ t \in Tokens /\ requests[r].stage = "addressed"
      /\ \A u \in Tokens : sessions[u] \in Session /\ Expired(sessions[u]) \in Session
      /\ \A u \in Tokens : Expired(sessions[u]).attempts = sessions[u].attempts
      /\ day \in Nat /\ quota \in Nat
      /\ \A q \in Requests : reserved[q] \in Nat
  BY ExpiredEffect, Limits DEF IInv, TypeOK, RequestsInOrder, Live, Is
<1>2. /\ sessions[t].attempts \in Nat /\ sessions[t].attempts < AttemptLimit
      /\ old.attempts = sessions[t].attempts
  <2>1. old.attempts < AttemptLimit
    BY <1>1 DEF Grants
  <2>2. sessions[t].attempts \in Nat
    BY <1>1, Limits DEF Session
  <2>. QED
    BY <1>1, <2>1, <2>2
<1>3. /\ sessions'[t].attempts = sessions[t].attempts + 1
      /\ \A u \in Tokens \ {t} : sessions'[u].attempts = sessions[u].attempts
  <2>. DEFINE swept == [u \in Tokens |-> Expired(sessions[u])]
              row == [old EXCEPT !.status = "active", !.attempts = old.attempts + 1,
                                 !.accepted = Nothing]
  <2>1. sessions' = [swept EXCEPT ![t] =
            [swept[t] EXCEPT !.status = "active", !.attempts = swept[t].attempts + 1,
                             !.accepted = Nothing]]
    BY DEF Grants
  <2>2. swept[t] = old
    BY <1>1
  <2>3. sessions' = [swept EXCEPT ![t] = row]
    BY <2>1, <2>2
  <2>4. row.attempts = old.attempts + 1
    BY <1>1 DEF Session
  <2>. HIDE DEF row, old
  <2>. QED
    BY <1>1, <1>2, <2>3, <2>4
<1>. HIDE DEF old
<1>4. Attempts' = Attempts \cup {pair} /\ pair \notin Attempts
  <2>1. pair \notin Attempts
    BY <1>2 DEF Attempts
  <2>2. pair \in Tokens \X (1..AttemptLimit)
    BY <1>1, <1>2, Limits
  <2>3. \A u \in Tokens, n \in 1..AttemptLimit :
           n <= sessions'[u].attempts <=> n <= sessions[u].attempts \/ <<u, n>> = pair
    <3>. SUFFICES ASSUME NEW u \in Tokens, NEW n \in 1..AttemptLimit
                  PROVE  n <= sessions'[u].attempts <=>
                            n <= sessions[u].attempts \/ (u = t /\ n = sessions[t].attempts + 1)
      BY <1>2
    <3>1. n \in Nat
      BY Limits
    <3>. QED
      BY <1>2, <1>3, <3>1
  <2>4. \A x : x \in Attempts' <=>
          \E u \in Tokens, n \in 1..AttemptLimit : x = <<u, n>> /\ n <= sessions'[u].attempts
    BY DEF Attempts
  <2>5. \A x : x \in Attempts <=>
          \E u \in Tokens, n \in 1..AttemptLimit : x = <<u, n>> /\ n <= sessions[u].attempts
    BY DEF Attempts
  <2>. HIDE DEF pair
  <2>6. \A x : x \in Attempts' => x \in Attempts \cup {pair}
    BY <2>3, <2>4, <2>5
  <2>7. \A x : x \in Attempts \cup {pair} => x \in Attempts'
    <3>1. \A x : x \in Attempts => x \in Attempts'
      BY <2>3, <2>4, <2>5
    <3>2. pair \in Attempts'
      BY <2>2, <2>3, <2>4
    <3>. QED
      BY <3>1, <3>2
  <2>. QED
    BY <2>1, <2>6, <2>7
<1>5. reserved[r] = 0
  BY <1>1 DEF QInv, ReservedOnce
<1>6. /\ reserved'[r] = day + 1
      /\ \A q \in Requests \ {r} : reserved'[q] = reserved[q]
  BY <1>1 DEF TypeOK
<1>7. Reservations' = Reservations \cup {r} /\ r \notin Reservations
  BY <1>1, <1>5, <1>6 DEF Reservations
<1>8. /\ {q \in Requests : reserved'[q] = day + 1} = ReservedOn(day) \cup {r}
      /\ r \notin ReservedOn(day)
  BY <1>1, <1>5, <1>6 DEF ReservedOn
<1>9. \A d \in Nat : d # day => {q \in Requests : reserved'[q] = d + 1} = ReservedOn(d)
  BY <1>1, <1>5, <1>6 DEF ReservedOn
<1>10. ReservedOnce'
  <2>1. \A q \in Requests \ {r} : requests'[q] = requests[q]
    BY <1>1 DEF Grants, TypeOK
  <2>2. requests'[r].stage = "working"
    <3>. DEFINE n == Expired(sessions[requests[r].token]).attempts + 1
    <3>1. requests' = [requests EXCEPT ![r] =
             [requests[r] EXCEPT !.stage = "working", !.attempt = n]]
      BY <1>1 DEF Grants, TypeOK
    <3>2. requests'[r] = [requests[r] EXCEPT !.stage = "working", !.attempt = n]
      BY <1>1, <3>1 DEF TypeOK
    <3>. HIDE DEF n
    <3>. QED
      BY <1>1, <3>2 DEF TypeOK, Request
  <2>. QED
    BY <1>1, <1>6, <2>1, <2>2 DEF QInv, ReservedOnce
<1>11. /\ Cardinality(Attempts') = Cardinality(Attempts) + 1
       /\ Cardinality(Reservations') = Cardinality(Reservations) + 1
       /\ Cardinality(ReservedOn(day) \cup {r}) = Cardinality(ReservedOn(day)) + 1
  BY <1>1, <1>4, <1>7, <1>8, CountedSets, FS_AddElement
<1>12. Cardinality({q \in Requests : reserved'[q] = day + 1}) = quota + 1
  BY <1>8, <1>11 DEF QInv, QuotaHeld
<1>13. quota + 1 <= DailyLimit
  BY <1>1, Limits DEF QuotaLeft
<1>14. \A d \in 0..day : Cardinality({q \in Requests : reserved'[q] = d + 1}) <= DailyLimit
  <2>. SUFFICES ASSUME NEW d \in 0..day
                PROVE  Cardinality({q \in Requests : reserved'[q] = d + 1}) <= DailyLimit
    OBVIOUS
  <2>1. CASE d = day
    BY <2>1, <1>12, <1>13
  <2>2. CASE d # day
    <3>1. d \in Nat
      OBVIOUS
    <3>2. {q \in Requests : reserved'[q] = d + 1} = ReservedOn(d)
      BY <2>2, <3>1, <1>9
    <3>3. Cardinality(ReservedOn(d)) <= DailyLimit
      BY DEF QInv, QuotaHeld
    <3>. QED
      BY <3>2, <3>3
  <2>. QED
    BY <2>1, <2>2
<1>15. Cardinality(Attempts') = Cardinality(Reservations')
  BY <1>11 DEF QInv, QuotaHeld
<1>. QED
  BY <1>10, <1>12, <1>14, <1>15 DEF QInv, QuotaHeld, ReservedOn

\* The row of one token is replaced, with its attempts.
LEMMA OneRowCounts ==
  ASSUME TypeOK, NEW t \in Tokens, NEW row, sessions' = [sessions EXCEPT ![t] = row],
         row.attempts = sessions[t].attempts
  PROVE  \A u \in Tokens : sessions'[u].attempts = sessions[u].attempts
BY DEF TypeOK

LEMMA EndCounts ==
  ASSUME IInv, QInv, NEW r \in Requests,
         NEW told \in {"done", "failed", "unknown"}, End(r, told),
         \A t \in Tokens : sessions'[t].attempts = sessions[t].attempts,
         UNCHANGED <<quota, day, reserved>>
  PROVE  QInv'
<1>1. requests'[r].stage = "over" /\ OthersStay(r)
  BY EndEffect DEF IInv, Ended
<1>2. Uncounted
  BY <1>1 DEF Uncounted, OthersStay
<1>. QED
  BY <1>2, UncountedStep

LEMMA WriteCounts ==
  ASSUME IInv, QInv, NEW r \in Requests, requests[r].token \in Tokens,
         NEW row, row.attempts = sessions[requests[r].token].attempts, Write(r, row),
         UNCHANGED <<quota, day, reserved>>
  PROVE  QInv'
<1>1. End(r, "done") \/ End(r, "failed")
  BY DEF Write
<1>2. \A t \in Tokens : sessions'[t].attempts = sessions[t].attempts
  BY OneRowCounts DEF Write, IInv
<1>. QED
  BY <1>1, <1>2, EndCounts

LEMMA WorkCounts ==
  ASSUME IInv, QInv, NEW r \in Requests,
         Ask(r) \/ Propose(r) \/ Fail(r) \/ Accept(r) \/ Claim(r)
  PROVE  QInv'
<1>. DEFINE t == requests[r].token
<1>1. /\ TypeOK /\ t \in Tokens /\ sessions[t] \in Session
      /\ UNCHANGED <<quota, day, reserved>>
  BY DEF IInv, TypeOK, RequestsInOrder, Live, Ask, Propose, Fail, Accept, Claim, Is
<1>2. CASE Ask(r)
  <2>. DEFINE row == [sessions[t] EXCEPT !.proposal = Nothing, !.clarification = "awaiting"]
  <2>1. row.attempts = sessions[t].attempts
    BY <1>1 DEF Session
  <2>2. Write(r, row)
    BY <1>2 DEF Ask
  <2>. QED
    BY <1>1, <2>1, <2>2, WriteCounts
<1>3. CASE Propose(r)
  <2>1. PICK row : Write(r, row) /\ row.attempts = sessions[t].attempts
    <3>. DEFINE refines == requests[r].kind = "refine"
                candidate ==
                  [by |-> r, attempt |-> requests[r].attempt,
                   refinements |->
                      IF refines THEN requests[r].seen.refinements \cup {r} ELSE {}]
                next == [sessions[t] EXCEPT
                          !.proposal = candidate, !.clarification = "complete",
                          !.refined = IF refines THEN requests[r].counted + 1 ELSE @]
    <3>1. next.attempts = sessions[t].attempts
      BY <1>1 DEF Session
    <3>2. Write(r, next)
      BY <1>3 DEF Propose
    <3>. HIDE DEF next
    <3>. QED
      BY <3>1, <3>2
  <2>. QED
    BY <1>1, <2>1, WriteCounts
<1>4. CASE Fail(r)
  BY <1>1, <1>4, EndCounts DEF Fail
<1>5. CASE Accept(r)
  <2>. DEFINE row == [sessions[t] EXCEPT !.accepted = requests[r].seen]
  <2>1. row.attempts = sessions[t].attempts
    BY <1>1 DEF Session
  <2>2. sessions' = sessions \/ sessions' = [sessions EXCEPT ![t] = row]
    BY <1>5 DEF Accept
  <2>3. \A u \in Tokens : sessions'[u].attempts = sessions[u].attempts
    BY <1>1, <2>1, <2>2, OneRowCounts
  <2>4. End(r, "done") \/ End(r, "failed")
    BY <1>5 DEF Accept
  <2>. QED
    BY <1>1, <2>3, <2>4, EndCounts
<1>6. CASE Claim(r)
  <2>. DEFINE row == Scrub(sessions[t], "claimed")
  <2>1. row.attempts = sessions[t].attempts
    BY <1>1, ScrubEffect
  <2>2. sessions' = sessions \/ sessions' = [sessions EXCEPT ![t] = row]
    BY <1>6 DEF Claim
  <2>. HIDE DEF row
  <2>3. \A u \in Tokens : sessions'[u].attempts = sessions[u].attempts
    BY <1>1, <2>1, <2>2, OneRowCounts
  <2>4. \E told \in {"done", "failed", "unknown"} : End(r, told)
    BY <1>6 DEF Claim, EndClaim
  <2>. QED
    BY <1>1, <2>3, <2>4, EndCounts
<1>. QED
  BY <1>2, <1>3, <1>4, <1>5, <1>6

LEMMA ReserveCounts ==
  ASSUME IInv, QInv, NEW r \in Requests, Reserve(r)
  PROVE  QInv'
<1>1. Is(r, "addressed", {"create", "refine"}) /\ day' = day
  BY DEF Reserve
<1>2. CASE /\ Grants(r) /\ QuotaLeft
           /\ quota' = quota + 1 /\ reserved' = [reserved EXCEPT ![r] = day + 1]
  BY <1>1, <1>2, GrantCounts
<1>3. CASE /\ sessions' = [t \in Tokens |-> Expired(sessions[t])]
           /\ End(r, "failed")
           /\ UNCHANGED <<quota, reserved>>
  <2>1. \A t \in Tokens : sessions'[t].attempts = sessions[t].attempts
    BY <1>3, ExpiredEffect DEF IInv, TypeOK
  <2>. QED
    BY <1>1, <1>3, <2>1, EndCounts
<1>. QED
  BY <1>2, <1>3 DEF Reserve, Grants

LEMMA SendingCounts ==
  ASSUME IInv, QInv, NEW r \in Requests,
         \/ \E kind \in Kinds : Send(r, kind)
         \/ \E token \in Tokens : SendCreate(r, token) \/ AddressRefinement(r, token)
         \/ Answer(r) \/ Lose(r)
  PROVE  QInv'
<1>1. /\ sessions' = sessions /\ UNCHANGED <<quota, day, reserved>>
      /\ TypeOK /\ requests[r] \in Request
  BY DEF Send, SendCreate, AddressRefinement, Answer, Lose, IInv, TypeOK
<1>2. \A q \in Requests \ {r} : requests'[q] = requests[q]
  BY <1>1 DEF Send, SendCreate, AddressRefinement, Answer, Lose, TypeOK
<1>3. requests'[r].stage \in {"unsent", "loaded", "addressed"} =>
        requests[r].stage \in {"unsent", "loaded", "addressed"}
  <2>1. CASE requests[r].stage \in {"unsent", "loaded", "addressed"}
    BY <2>1
  <2>2. CASE requests[r].stage \notin {"unsent", "loaded", "addressed"}
    <3>1. Answer(r) \/ Lose(r)
      BY <2>2 DEF Send, SendCreate, AddressRefinement, Is
    <3>2. CASE Answer(r)
      BY <1>1, <2>2, <3>2 DEF Answer, TypeOK, Request
    <3>3. CASE Lose(r)
      <4>. DEFINE dropped == [requests[r] EXCEPT !.stage = "over", !.token = Nothing,
                                 !.seen = Nothing, !.attempt = 0, !.counted = 0]
      <4>1. requests'[r] = dropped
        BY <1>1, <3>3 DEF Lose, TypeOK
      <4>2. dropped.stage = "over"
        BY <1>1 DEF Request
      <4>. QED
        BY <4>1, <4>2
    <3>. QED
      BY <3>1, <3>2, <3>3
  <2>. QED
    BY <2>1, <2>2
<1>4. Uncounted
  BY <1>1, <1>2, <1>3 DEF Uncounted
<1>. QED
  BY <1>1, <1>4, UncountedStep

LEMMA LapseCounts ==
  ASSUME IInv, QInv, (\E t \in Tokens : Lapse(t)) \/ LoadLapsed
  PROVE  QInv'
<1>1. TypeOK /\ requests' = requests /\ UNCHANGED <<quota, day, reserved>>
  BY DEF IInv, Lapse, LoadLapsed
<1>2. \A u \in Tokens : sessions'[u].attempts = sessions[u].attempts
  <2>1. ASSUME NEW t \in Tokens, Lapse(t)
        PROVE  \A u \in Tokens : sessions'[u].attempts = sessions[u].attempts
    BY <1>1, <2>1 DEF Lapse, TypeOK, Session
  <2>2. CASE LoadLapsed
    <3>1. /\ cookie \in Tokens /\ sessions[cookie] \in Session
          /\ sessions' = [sessions EXCEPT ![cookie] = Expired(sessions[cookie])]
      BY <1>1, <2>2 DEF LoadLapsed, TypeOK
    <3>2. Expired(sessions[cookie]).attempts = sessions[cookie].attempts
      BY <3>1, ExpiredEffect
    <3>. QED
      BY <1>1, <3>1, <3>2, OneRowCounts
  <2>. QED
    BY <2>1, <2>2
<1>3. Uncounted
  BY <1>1, <1>2 DEF Uncounted
<1>. QED
  BY <1>1, <1>3, UncountedStep

LEMMA RefuseAtLoadCounts ==
  ASSUME IInv, QInv, NEW r \in Requests, NEW kind \in Kinds, Refuse(r, kind)
  PROVE  QInv'
<1>1. /\ TypeOK /\ requests[r].stage = "unsent" /\ requests[r] \in Request
      /\ UNCHANGED <<quota, day, reserved>>
  BY DEF IInv, TypeOK, Refuse, Is
<1>2. \A t \in Tokens : sessions'[t].attempts = sessions[t].attempts
  BY <1>1, ExpiredEffect DEF Refuse, TypeOK
<1>3. \A q \in Requests \ {r} : requests'[q] = requests[q]
  BY <1>1 DEF Refuse, TypeOK
<1>4. Uncounted
  BY <1>1, <1>2, <1>3 DEF Uncounted
<1>. QED
  BY <1>1, <1>4, UncountedStep

LEMMA InitCounts == Init => QInv
<1>. SUFFICES ASSUME Init PROVE QInv
  OBVIOUS
<1>1. ReservedOnce
  BY DEF Init, ReservedOnce
<1>2. Reservations = {} /\ \A d \in Nat : ReservedOn(d) = {}
  BY DEF Init, Reservations, ReservedOn
<1>3. Attempts = {}
  BY Limits DEF Init, Attempts, Absent
<1>4. quota = 0 /\ day = 0
  BY DEF Init
<1>. QED
  BY <1>1, <1>2, <1>3, <1>4, FS_EmptySet, Limits DEF QInv, QuotaHeld

LEMMA CountsStep == IInv /\ QInv /\ [Next]_vars => QInv'
<1>. SUFFICES ASSUME IInv, QInv, [Next]_vars PROVE QInv'
  OBVIOUS
<1>1. CASE UNCHANGED vars
  BY <1>1, UncountedStep DEF vars, Uncounted
<1>. QED
  BY <1>1, SendingCounts, RefuseAtLoadCounts, ReserveCounts, WorkCounts, LapseCounts,
     NewDayCounts DEF Next

\* Every attempt a session has was counted on the day it was reserved, no day
\* counts more than DailyLimit, and the counter shows what today's came to,
\* however many requests race for the last one.
THEOREM QuotaIsHeld == Spec => []QuotaHeld
<1>1. QInv => QuotaHeld
  BY DEF QInv
<1>. QED
  BY <1>1, InitCounts, CountsStep, Invariance, PTL DEF Spec
================================================================================
