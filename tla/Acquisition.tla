------------------------------ MODULE Acquisition ------------------------------
(***************************************************************************)
(* The /start journey before sign-up: a visitor describes a business, is   *)
(* asked questions, sees a candidate workspace, refines it, accepts it and *)
(* claims it as a business.                                                *)
(*                                                                         *)
(* The journey's state is one row per session token, which the visitor's   *)
(* cookie names, and one counter per network and day.  Each request reads  *)
(* the row, may reserve an attempt, generates for as long as the provider  *)
(* takes, and writes under a condition; another tab, a double click or a   *)
(* reload runs a second request in between.  A claim is one transaction:   *)
(* what it publishes is ConfigurationLifecycle's.                          *)
(***************************************************************************)
EXTENDS Naturals, FiniteSets

CONSTANTS
    Tokens,             \* session tokens, drawn when a session starts
    Requests,           \* form submissions, each sent once
    AttemptLimit,       \* ACQUISITION_SESSION_ATTEMPT_LIMIT
    DailyLimit,         \* ACQUISITION_DAILY_ATTEMPT_LIMIT
    RefinementLimit,    \* ACQUISITION_SUCCESSFUL_REFINEMENT_LIMIT
    LastDay,            \* bound: days that pass
    Nothing             \* no candidate, no token

ASSUME LimitsAssumption ==
    /\ {AttemptLimit, DailyLimit, RefinementLimit, LastDay} \subseteq Nat
    /\ Nothing \notin Tokens
    /\ IsFiniteSet(Tokens) /\ IsFiniteSet(Requests)

VARIABLES
    sessions,       \* anonymous_build_sessions
    quota,          \* anonymous_build_daily_quotas: today's attempts
    cookie,         \* the token the browser sends
    requests,       \* the requests, as far as they have come
    day,
    reserved,       \* history: the day each reservation was counted on
    acceptances,    \* history: candidates the owner accepted, per session
    built           \* history: the candidate a session's business was made of

vars == <<sessions, quota, cookie, requests, day, reserved, acceptances, built>>

Kinds == {"create", "answer", "refine", "accept", "claim"}
\* A candidate is known by the request that made it, its revision by the
\* attempt; `refinements' are the requests whose changes it contains.
Candidate == [by: Requests, attempt: 0..AttemptLimit, refinements: SUBSET Requests]
MaybeCandidate == Candidate \cup {Nothing}

Session ==
    [status: {"absent", "active", "expired", "claimed"},
     lapsed: BOOLEAN,               \* expires_at has passed
     attempts: 0..AttemptLimit,
     refined: 0..RefinementLimit,   \* successful_refinement_count
     proposal: MaybeCandidate,
     clarification: {"none", "awaiting", "complete"},
     accepted: MaybeCandidate]      \* accepted_candidate_checksum

Request ==
    [stage: {"unsent", "loaded", "addressed", "working", "over"},
     kind: Kinds,
     token: Tokens \cup {Nothing},
     seen: MaybeCandidate,          \* the candidate that was read
     counted: 0..RefinementLimit,   \* the refinements that were read
     attempt: 0..AttemptLimit,
     \* what the visitor is shown: "gone" if the session is no longer there to work on,
     \* "unknown" an error where the server got no answer from the database
     told: {"nothing", "done", "failed", "gone", "unknown"}]

TypeOK ==
    /\ sessions \in [Tokens -> Session]
    /\ quota \in 0..DailyLimit
    /\ cookie \in Tokens \cup {Nothing}
    /\ requests \in [Requests -> Request]
    /\ day \in 0..LastDay
    /\ reserved \in [Requests -> 0..(LastDay + 1)]
    /\ acceptances \in [Tokens -> SUBSET Candidate]
    /\ built \in [Tokens -> MaybeCandidate]

-----------------------------------------------------------------------------
(* The row. *)

Absent ==
    [status |-> "absent", lapsed |-> FALSE, attempts |-> 0, refined |-> 0,
     proposal |-> Nothing, clarification |-> "none", accepted |-> Nothing]

Usable(row) == row.status = "active" /\ ~row.lapsed

\* The row leaves the active state: what the visitor wrote and got is removed,
\* and the trigger removes the acceptance.
Scrub(row, status) ==
    [row EXCEPT !.status = status, !.proposal = Nothing, !.clarification = "none",
                !.accepted = Nothing]

Expired(row) == IF row.status = "active" /\ row.lapsed THEN Scrub(row, "expired") ELSE row

Row == sessions[cookie]

-----------------------------------------------------------------------------
(* A request is sent. *)

Is(r, stage, kinds) == requests[r].stage = stage /\ requests[r].kind \in kinds
\* It ends; whether the browser gets the answer shows at Answer.
End(r, told) == requests' = [requests EXCEPT ![r].stage = "over", ![r].told = told]

\* reserveAttempt() keeps the session the request came with if it can, and else
\* draws a token.
Address(sent, token) ==
    IF sent # Nothing /\ Usable(sessions[sent]) THEN token = sent
    ELSE sessions[token].status = "absent" /\ \A r \in Requests : requests[r].token # token

\* loadAcquisitionSession() finds a session, and the form's own conditions hold.
Ready(kind) ==
    /\ cookie # Nothing /\ Usable(Row)
    /\ CASE kind = "answer" -> Row.clarification = "awaiting"
         [] kind = "refine" ->
               Row.proposal # Nothing /\ Row.clarification # "none"
               /\ Row.refined < RefinementLimit
         [] kind = "accept" -> Row.proposal # Nothing
         [] kind = "claim" -> Row.proposal # Nothing /\ Row.accepted = Row.proposal

Send(r, kind) ==
    /\ Is(r, "unsent", Kinds) /\ kind # "create"
    /\ Ready(kind)
    /\ requests' = [requests EXCEPT ![r] =
          [@ EXCEPT !.stage = IF kind = "refine" THEN "loaded" ELSE "working",
                    !.kind = kind, !.token = cookie, !.seen = Row.proposal,
                    !.counted = Row.refined,
                    !.attempt = IF kind = "answer" THEN Row.attempts ELSE 0]]
    /\ UNCHANGED <<sessions, quota, cookie, day, reserved, acceptances, built>>

\* It finds none, or they do not hold, and nothing is asked of the database but to
\* expire a session whose time has passed.
Refuse(r, kind) ==
    /\ Is(r, "unsent", Kinds) /\ kind # "create"
    /\ ~Ready(kind)
    /\ sessions' = [token \in Tokens |->
          IF token = cookie THEN Expired(sessions[token]) ELSE sessions[token]]
    /\ requests' = [requests EXCEPT ![r] =
          [@ EXCEPT !.stage = "over", !.kind = kind, !.told = "gone"]]
    /\ UNCHANGED <<quota, cookie, day, reserved, acceptances, built>>

SendCreate(r, token) ==
    /\ Is(r, "unsent", Kinds)
    /\ Address(cookie, token)
    /\ requests' = [requests EXCEPT ![r] =
          [@ EXCEPT !.stage = "addressed", !.kind = "create", !.token = token]]
    /\ UNCHANGED <<sessions, quota, cookie, day, reserved, acceptances, built>>

\* A refinement reads the session a second time, to reserve.
AddressRefinement(r, token) ==
    /\ Is(r, "loaded", {"refine"})
    /\ Address(requests[r].token, token)
    /\ requests' = [requests EXCEPT ![r].stage = "addressed", ![r].token = token]
    /\ UNCHANGED <<sessions, quota, cookie, day, reserved, acceptances, built>>

\* A page is opened after the session's time.
LoadLapsed ==
    /\ cookie # Nothing /\ Row.status = "active" /\ Row.lapsed
    /\ sessions' = [sessions EXCEPT ![cookie] = Expired(@)]
    /\ UNCHANGED <<quota, cookie, requests, day, reserved, acceptances, built>>

-----------------------------------------------------------------------------
(* reserve_anonymous_build_attempt. *)

\* The upsert lets one more pass.
MutQuotaLeft == quota <= DailyLimit
QuotaLeft == quota < DailyLimit

Reserve(r) ==
    /\ Is(r, "addressed", {"create", "refine"})
    /\ LET token == requests[r].token
           swept == [t \in Tokens |-> Expired(sessions[t])]
           row == swept[token]
       IN  IF /\ row.status \in {"absent", "active"}
              /\ row.attempts < AttemptLimit
              /\ QuotaLeft
           THEN /\ quota' = quota + 1
                /\ sessions' = [swept EXCEPT ![token] =
                      [row EXCEPT !.status = "active", !.attempts = row.attempts + 1,
                                  !.accepted = Nothing]]
                /\ requests' = [requests EXCEPT ![r].stage = "working",
                                                ![r].attempt = row.attempts + 1]
                /\ reserved' = [reserved EXCEPT ![r] = day + 1]
           ELSE /\ sessions' = swept
                /\ End(r, "failed")
                /\ UNCHANGED <<quota, reserved>>
    /\ UNCHANGED <<cookie, day, acceptances, built>>

-----------------------------------------------------------------------------
(* What a request writes. *)

\* A refinement does not compare successful_refinement_count.
MutCurrent(r) ==
    LET row == sessions[requests[r].token]
    IN  row.status = "active" /\ row.attempts = requests[r].attempt
\* The write does not ask whether the session is active.
MutCurrentStatus(r) ==
    LET row == sessions[requests[r].token]
    IN  row.attempts = requests[r].attempt
        /\ (requests[r].kind = "refine" => row.refined = requests[r].counted)
\* The row is still as the request left it.
Current(r) ==
    LET row == sessions[requests[r].token]
    IN  /\ row.status = "active"
        /\ row.attempts = requests[r].attempt
        /\ requests[r].kind = "refine" => row.refined = requests[r].counted

Write(r, row) ==
    IF Current(r)
    THEN sessions' = [sessions EXCEPT ![requests[r].token] = row] /\ End(r, "done")
    ELSE UNCHANGED sessions /\ End(r, "failed")

\* writeClarificationState(): there is something to ask first.
Ask(r) ==
    /\ Is(r, "working", {"create", "answer"})
    /\ Write(r, [sessions[requests[r].token] EXCEPT
                    !.proposal = Nothing, !.clarification = "awaiting"])
    /\ UNCHANGED <<quota, cookie, day, reserved, acceptances, built>>

\* writeProposal(): a refinement is reconciled with the candidate it read.
Propose(r) ==
    /\ Is(r, "working", {"create", "answer", "refine"})
    /\ LET refines == requests[r].kind = "refine"
           candidate ==
              [by |-> r, attempt |-> requests[r].attempt,
               refinements |-> IF refines THEN requests[r].seen.refinements \cup {r} ELSE {}]
       IN  Write(r, [sessions[requests[r].token] EXCEPT
                        !.proposal = candidate, !.clarification = "complete",
                        !.refined = IF refines THEN requests[r].counted + 1 ELSE @])
    /\ UNCHANGED <<quota, cookie, day, reserved, acceptances, built>>

\* Nothing usable was generated.
Fail(r) ==
    /\ Is(r, "working", {"create", "answer", "refine"})
    /\ End(r, "failed")
    /\ UNCHANGED <<sessions, quota, cookie, day, reserved, acceptances, built>>

\* acceptAcquisitionSetup(): the candidate that was read is the accepted one.
Accept(r) ==
    /\ Is(r, "working", {"accept"})
    /\ LET token == requests[r].token
       IN  IF sessions[token].status = "active"
           THEN /\ sessions' = [sessions EXCEPT ![token].accepted = requests[r].seen]
                /\ acceptances' = [acceptances EXCEPT ![token] = @ \cup {requests[r].seen}]
                /\ End(r, "done")
           ELSE UNCHANGED <<sessions, acceptances>> /\ End(r, "failed")
    /\ UNCHANGED <<quota, cookie, day, reserved, built>>

\* A session that was claimed is refused like one that has expired.
MutReplayed(row) == FALSE
\* claim_anonymous_build_session: a second claim is given the first one's business.
Replayed(row) == row.status = "claimed"

Claimable(row) == Usable(row) /\ row.accepted # Nothing /\ row.proposal # Nothing

\* The function's answer may not reach the server, which then reports an error.
EndClaim(r, told) == End(r, told) \/ End(r, "unknown")

\* The business is made and its configuration applied, or all is undone.
Claim(r) ==
    /\ Is(r, "working", {"claim"})
    /\ LET token == requests[r].token
           row == sessions[token]
       IN  \/ Replayed(row) /\ EndClaim(r, "done") /\ UNCHANGED <<sessions, built>>
           \/ /\ ~Replayed(row) /\ Claimable(row)
              /\ sessions' = [sessions EXCEPT ![token] = Scrub(@, "claimed")]
              /\ built' = [built EXCEPT ![token] = row.proposal]
              /\ EndClaim(r, "done")
           \/ ~Replayed(row) /\ EndClaim(r, "failed") /\ UNCHANGED <<sessions, built>>
    /\ UNCHANGED <<quota, cookie, day, reserved, acceptances>>

-----------------------------------------------------------------------------
(* The browser, and time. *)

\* The answer arrives: it sets the cookie of the session that was reserved, and
\* a claim's removes it.
Answer(r) ==
    /\ requests[r].stage = "over" /\ requests[r].token # Nothing
    /\ cookie' = CASE requests[r].kind \in {"create", "refine"} /\ requests[r].attempt > 0 ->
                         requests[r].token
                   [] requests[r].kind = "claim" /\ requests[r].told = "done" -> Nothing
                   [] OTHER -> cookie
    /\ requests' = [requests EXCEPT ![r].token = Nothing, ![r].seen = Nothing,
                                    ![r].attempt = 0, ![r].counted = 0]
    /\ UNCHANGED <<sessions, quota, day, reserved, acceptances, built>>

\* The server dies, or its answer is lost.
Lose(r) ==
    /\ requests[r].stage \notin {"unsent"} /\ requests[r].token # Nothing
    /\ requests' = [requests EXCEPT ![r] =
          [@ EXCEPT !.stage = "over", !.token = Nothing, !.seen = Nothing,
                    !.attempt = 0, !.counted = 0]]
    /\ UNCHANGED <<sessions, quota, cookie, day, reserved, acceptances, built>>

Lapse(token) ==
    /\ Usable(sessions[token])
    /\ sessions' = [sessions EXCEPT ![token].lapsed = TRUE]
    /\ UNCHANGED <<quota, cookie, requests, day, reserved, acceptances, built>>

NewDay ==
    /\ day < LastDay
    /\ day' = day + 1
    /\ quota' = 0
    /\ UNCHANGED <<sessions, cookie, requests, reserved, acceptances, built>>

-----------------------------------------------------------------------------
Init ==
    /\ sessions = [token \in Tokens |-> Absent]
    /\ quota = 0 /\ cookie = Nothing /\ day = 0
    /\ requests = [r \in Requests |->
          [stage |-> "unsent", kind |-> "create", token |-> Nothing, seen |-> Nothing,
           counted |-> 0, attempt |-> 0, told |-> "nothing"]]
    /\ reserved = [r \in Requests |-> 0]
    /\ acceptances = [token \in Tokens |-> {}]
    /\ built = [token \in Tokens |-> Nothing]

Next ==
    \/ \E r \in Requests :
          \/ \E kind \in Kinds : Send(r, kind) \/ Refuse(r, kind)
          \/ \E token \in Tokens : SendCreate(r, token) \/ AddressRefinement(r, token)
          \/ Reserve(r)
          \/ Ask(r) \/ Propose(r) \/ Fail(r)
          \/ Accept(r) \/ Claim(r)
          \/ Answer(r) \/ Lose(r)
    \/ \E token \in Tokens : Lapse(token)
    \/ LoadLapsed \/ NewDay

Spec == Init /\ [][Next]_vars

-----------------------------------------------------------------------------
(* Properties. *)

\* A refinement builds on the candidate it replaces, as far as that was refined:
\* of two refinements sent side by side the second to be written is refused,
\* and no counted refinement is lost (service.ts:878).
RefinementsAreKept ==
    [][\A token \in Tokens :
         LET before == sessions[token].proposal
             after == sessions'[token].proposal
         IN  before # Nothing /\ after # Nothing /\ after.refinements # {} =>
                before.refinements \subseteq after.refinements]_vars

\* A row that is no longer active keeps nothing of the visitor's, also when a
\* candidate that was generated meanwhile is written late (service.ts:874).
NothingIsKept ==
    \A token \in Tokens : LET row == sessions[token] IN
        row.status # "active" =>
            row.proposal = Nothing /\ row.clarification = "none" /\ row.accepted = Nothing

\* The claims of one session that found it when they loaded it, in two tabs or by a
\* double click, agree: they make one business, each that the function answers is told
\* that it was created if it was, and that nothing was created only if that is so.
ClaimsAgree ==
    [][/\ \A r \in Requests :
            Is(r, "working", {"claim"}) /\ requests'[r].told \in {"done", "failed"} =>
                (requests'[r].told = "done" <=> built'[requests[r].token] # Nothing)
       /\ \A token \in Tokens : built[token] # Nothing => built'[token] = built[token]]_vars

\* Each attempt of each session was counted on the day it was reserved, and no
\* day counts more than the limit, whichever cookies the attempts came with.
ReservedOn(d) == {r \in Requests : reserved[r] = d + 1}
Reservations == {r \in Requests : reserved[r] # 0}
Attempts == {a \in Tokens \X (1..AttemptLimit) : a[2] <= sessions[a[1]].attempts}
QuotaHeld ==
    /\ quota = Cardinality(ReservedOn(day))
    /\ \A d \in 0..day : Cardinality(ReservedOn(d)) <= DailyLimit
    /\ Cardinality(Attempts) = Cardinality(Reservations)

\* "The exact server-derived candidate selected by the owner for signup/claim".
ClaimIsAccepted ==
    \A token \in Tokens : built[token] # Nothing => built[token] \in acceptances[token]
-----------------------------------------------------------------------------
(* What makes NothingIsKept, ClaimsAgree and RefinementsAreKept inductive. *)

Live == {"loaded", "addressed", "working"}

\* A request that is not over has told nothing, has a token once it was sent and
\* an attempt only once it was counted, and has read what it is about to use.
RequestsInOrder ==
    \A r \in Requests : LET q == requests[r] IN
        /\ q.stage # "over" => q.told = "nothing"
        /\ q.stage \in Live => q.token \in Tokens
        /\ q.stage = "unsent" => q.token = Nothing
        /\ q.stage \in {"unsent", "loaded", "addressed"} => q.attempt = 0
        /\ q.stage = "loaded" => q.kind = "refine"
        /\ q.stage \in Live /\ q.kind \in {"refine", "accept"} => q.seen \in Candidate
        /\ q.stage \in Live /\ q.kind = "refine" => q.counted < RefinementLimit

\* A token that names no row yet is known to the request that drew it alone.
FreshTokens ==
    \A token \in Tokens : sessions[token].status = "absent" =>
        /\ cookie # token
        /\ \A r \in Requests : requests[r].token = token =>
                requests[r].attempt = 0 /\ requests[r].stage \in {"addressed", "over"}
        /\ \A r, q \in Requests :
                requests[r].token = token /\ requests[q].token = token => r = q

\* Of the requests that reserved an attempt no two write under the same one.
Generates(r) == Is(r, "working", {"create", "refine"})
AttemptsDiffer ==
    /\ \A r \in Requests : requests[r].token \in Tokens =>
            requests[r].attempt <= sessions[requests[r].token].attempts
    /\ \A r, q \in Requests :
            Generates(r) /\ Generates(q) /\ requests[r].token = requests[q].token
            /\ requests[r].attempt = requests[q].attempt => r = q

\* A refinement that can still be written has seen every refinement of the
\* candidate that is there.
Covers(r, row) ==
    row.refined = requests[r].counted /\ row.proposal # Nothing =>
        row.proposal.refinements \subseteq requests[r].seen.refinements
Covered(r) ==
    requests[r].kind = "refine" /\ requests[r].stage \in Live =>
        LET row == sessions[requests[r].token]
        IN  /\ requests[r].stage # "working" /\ row.status # "absent" =>
                    requests[r].counted <= row.refined /\ Covers(r, row)
            /\ requests[r].stage = "working" /\ row.attempts = requests[r].attempt =>
                    Covers(r, row)
RefinementsCover == \A r \in Requests : Covered(r)

BuiltIsClaimed ==
    \A token \in Tokens : built[token] # Nothing <=> sessions[token].status = "claimed"

IInv == /\ TypeOK /\ NothingIsKept /\ RequestsInOrder /\ FreshTokens
        /\ AttemptsDiffer /\ RefinementsCover /\ BuiltIsClaimed

\* What QuotaHeld needs besides: a request reserves once, on a day that was.
ReservedOnce ==
    \A r \in Requests :
        /\ reserved[r] <= day + 1
        /\ requests[r].stage \in {"unsent", "loaded", "addressed"} => reserved[r] = 0
QInv == ReservedOnce /\ QuotaHeld
=============================================================================
