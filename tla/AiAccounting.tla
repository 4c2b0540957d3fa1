---------------------------- MODULE AiAccounting ----------------------------
(***************************************************************************)
(* The budget around one Business's AI executions.  An orchestrator in a   *)
(* server process (business-execution.ts) reserves the worst case of an    *)
(* execution in PostgreSQL, lets the executor (execution.ts) call a        *)
(* provider up to MaxAttempts times, and settles the reservation to what   *)
(* was used.  Both database calls may be answered late or never, the       *)
(* settlement is sent at most twice, and the process may die at any step.  *)
(*                                                                         *)
(* The code keeps three like dimensions (input tokens, output tokens and   *)
(* their cost, which grows with them) and compares each with its own       *)
(* limit; here one amount, "tokens", stands for each of them.  Keys,       *)
(* labels, rates, outcome codes and the checks of role and membership are  *)
(* left out.  The branch for an execution id that already has a run is     *)
(* left out too: the orchestrator draws a fresh id and reserves it once.   *)
(***************************************************************************)
EXTENDS Naturals, FiniteSets, Functions

CONSTANTS
    Executions,     \* execution ids, one orchestrator call each
    Nobody,         \* no execution holds the settings row
    LastDay,        \* bound on UTC days
    MaxAttempts,    \* policy.maxAttempts
    PerAttempt,     \* policy.maxBillableInputTokens, maxOutputTokens
    MaxUse,         \* bound on what one attempt really consumes
    MaxAggregate,   \* MAX_AGGREGATE_TOKENS
    SettingsRows    \* the settings an administrator chooses between

ASSUME NobodyAssumption == Nobody \notin Executions
ASSUME BoundsAssumption ==
    /\ MaxAttempts \in 1..5 /\ PerAttempt \in Nat \ {0}
    /\ MaxUse \in Nat /\ MaxAggregate \in Nat /\ LastDay \in Nat
ASSUME SettingsAssumption ==
    SettingsRows \subseteq
        [enabled: BOOLEAN, requestLimit: Nat \ {0}, tokenLimit: Nat \ {0}]

VARIABLES
    today,      \* the UTC date of a database statement that starts now
    settings,   \* the business_ai_settings row
    rowLock,    \* the reservation that holds that row FOR UPDATE
    runs,       \* ai_execution_runs, by id
    reserve,    \* the reserve call of an execution, on the database's side
    settles,    \* settle calls on their way to the database
    replies,    \* answers to settle calls
    pc,         \* where the orchestrator of an execution is
    accounting, \* the executor's MutableAccounting
    asked,      \* the settlement the orchestrator asks for
    try,        \* settleWithRetry's attempt
    answer,     \* what the caller of execute() got
    using,      \* what the running attempt consumes (no code keeps this,
    spent,      \* nor what all attempts so far consume, nor which executions
    lavish      \* had an attempt beyond PerAttempt)

database == <<today, settings, rowLock, runs>>
calls == <<reserve, settles, replies>>
process == <<pc, accounting, asked, try, answer>>
provider == <<using, spent, lavish>>
vars == <<database, calls, process, provider>>

-----------------------------------------------------------------------------
(* Rows, calls and the arithmetic of a reservation. *)

\* deriveAiReservationEnvelope
ReservedTokens == PerAttempt * MaxAttempts

Settlement == [status: {"succeeded", "failed", "cancelled"}, tokens: Nat,
               reported: BOOLEAN, complete: BOOLEAN, attempts: Nat]
Unsettled == [status |-> "reserved", tokens |-> 0, reported |-> FALSE,
              complete |-> FALSE, attempts |-> 0]
\* A row; "none" is no row.  settlement holds the columns a settlement call
\* sets, limits the settings it was admitted under (no column keeps them).
Run == [status: {"none", "reserved", "succeeded", "failed", "cancelled"},
        usage_day: Nat, charged: Nat, overrun: BOOLEAN,
        settlement: Settlement \cup {Unsettled},
        requestLimit: Nat, tokenLimit: Nat]
NoRun == [status |-> "none", usage_day |-> 0, charged |-> 0,
          overrun |-> FALSE, settlement |-> Unsettled,
          requestLimit |-> 0, tokenLimit |-> 0]

Fresh == [attemptsStarted |-> 0, tokens |-> 0,
          usageReported |-> FALSE, usageComplete |-> TRUE]
Accounting == [attemptsStarted: Nat, tokens: Nat,
               usageReported: BOOLEAN, usageComplete: BOOLEAN]

\* What a run weighs in the daily sums, and the runs that weigh.
Weight(run) == CASE run.status = "reserved" -> ReservedTokens
                 [] run.status \in {"succeeded", "failed"} -> run.charged
                 [] OTHER -> 0
Counted(day) == {e \in Executions :
                    /\ runs[e].usage_day = day
                    /\ runs[e].status \in {"reserved", "succeeded", "failed"}}
Weights == [e \in Executions |-> Weight(runs[e])]
UsedTokens(day) == SumFunctionOnSet(Weights, Counted(day))

WithinBudget(day) ==
    /\ Cardinality(Counted(day)) + 1 <= settings.requestLimit
    /\ UsedTokens(day) + ReservedTokens <= settings.tokenLimit

-----------------------------------------------------------------------------
(* The database. *)

Midnight ==
    /\ today < LastDay
    /\ today' = today + 1
    /\ UNCHANGED <<settings, rowLock, runs, calls, process, provider>>

UpdateSettings ==
    /\ rowLock = Nobody
    /\ \E row \in SettingsRows \ {settings} : settings' = row
    /\ UNCHANGED <<today, rowLock, runs, calls, process, provider>>

\* reserve_business_ai_execution up to its limits: the settings row is
\* locked, then the switch and the day's sums decide.
MutCanLock == TRUE  \* the sums are read without FOR UPDATE
CanLock == rowLock = Nobody
CheckBudget(e) ==
    /\ reserve[e].phase = "waiting"
    /\ CanLock
    /\ IF settings.enabled /\ WithinBudget(reserve[e].day)
       THEN /\ rowLock' = e
            /\ reserve' = [reserve EXCEPT ![e].phase = "admitted"]
       ELSE /\ reserve' = [reserve EXCEPT ![e].phase =
                    IF settings.enabled THEN "ai_budget_exceeded"
                    ELSE "ai_disabled"]
            /\ UNCHANGED rowLock
    /\ UNCHANGED <<today, settings, runs, settles, replies, process, provider>>

InsertRun(e) ==
    /\ reserve[e].phase = "admitted"
    /\ runs' = [runs EXCEPT ![e] =
            [status |-> "reserved", usage_day |-> reserve[e].day,
             charged |-> 0, overrun |-> FALSE, settlement |-> Unsettled,
             requestLimit |-> settings.requestLimit,
             tokenLimit |-> settings.tokenLimit]]
    /\ reserve' = [reserve EXCEPT ![e].phase = "reserved"]
    /\ rowLock' = Nobody
    /\ UNCHANGED <<today, settings, settles, replies, process, provider>>

\* The reserving transaction dies with its connection.
AbortReserve(e) ==
    /\ reserve[e].phase \in {"waiting", "admitted"}
    /\ reserve' = [reserve EXCEPT ![e].phase = "aborted"]
    /\ rowLock' = IF rowLock = e THEN Nobody ELSE rowLock
    /\ UNCHANGED <<today, settings, runs, settles, replies, process, provider>>

\* The checks settle_business_ai_execution makes before it reads the run.
Acceptable(s) ==
    /\ IF s.status = "cancelled"
       THEN s.attempts = 0 /\ s.complete /\ s.reported /\ s.tokens = 0
       ELSE s.attempts \in 1..5
    /\ s.complete => s.reported

Charge(s) == CASE s.status = "cancelled" -> 0
               [] s.status # "cancelled" /\ s.complete -> s.tokens
               [] OTHER -> IF s.tokens > ReservedTokens THEN s.tokens
                           ELSE ReservedTokens

Settled(run, s) ==
    [run EXCEPT !.status = s.status, !.settlement = s, !.charged = Charge(s),
                !.overrun = s.tokens > ReservedTokens]

\* No test of the run's status: a second call adds its charge again.
MutSettle(e, n) ==
    LET s == asked[e]
    IN /\ <<e, n>> \in settles
       /\ Acceptable(s)
       /\ runs' = [runs EXCEPT ![e] =
                      [Settled(@, s) EXCEPT !.charged = @ + runs[e].charged]]
       /\ settles' = settles \ {<<e, n>>}
       /\ replies' = replies \cup
                {[execution |-> e, try |-> n, accepted |-> TRUE]}
       /\ UNCHANGED <<today, settings, rowLock, reserve, process, provider>>

\* settle_business_ai_execution: a settled run answers the same request as
\* before and refuses any other.
Settle(e, n) ==
    LET s == asked[e]
        open == Acceptable(s) /\ runs[e].status = "reserved"
        again == Acceptable(s) /\ runs[e].settlement = s
    IN /\ <<e, n>> \in settles
       /\ runs' = IF open THEN [runs EXCEPT ![e] = Settled(@, s)] ELSE runs
       /\ settles' = settles \ {<<e, n>>}
       /\ replies' = replies \cup
                {[execution |-> e, try |-> n, accepted |-> open \/ again]}
       /\ UNCHANGED <<today, settings, rowLock, reserve, process, provider>>

LoseSettle(e, n) ==
    /\ <<e, n>> \in settles
    /\ settles' = settles \ {<<e, n>>}
    /\ UNCHANGED <<database, reserve, replies, process, provider>>

-----------------------------------------------------------------------------
(* The orchestrator and the executor. *)

End(e, outcome) ==
    /\ pc' = [pc EXCEPT ![e] = "done"]
    /\ answer' = [answer EXCEPT ![e] = outcome]
\* What the executor keeps goes with it.
Forget(e) ==
    /\ accounting' = [accounting EXCEPT ![e] = Fresh]
    /\ using' = [using EXCEPT ![e] = 0]

\* prepare(), then readSettings() and its check.
ReadSettings(e) ==
    /\ pc[e] = "start"
    /\ \/ settings.enabled /\ pc' = [pc EXCEPT ![e] = "ready"]
          /\ UNCHANGED answer
       \/ ~settings.enabled /\ End(e, "ai_disabled")
       \/ End(e, "ai_accounting_unavailable")
    /\ UNCHANGED <<database, calls, accounting, asked, try, provider>>

\* The usage day is that of the statement's start, before it waits.
CallReserve(e) ==
    /\ pc[e] = "ready"
    /\ pc' = [pc EXCEPT ![e] = "reserving"]
    /\ reserve' = [reserve EXCEPT ![e] = [phase |-> "waiting", day |-> today]]
    /\ UNCHANGED <<database, settles, replies, accounting, asked, try, answer,
                   provider>>

ReserveAnswered(e) ==
    /\ pc[e] = "reserving"
    /\ \/ /\ reserve[e].phase = "reserved"
          /\ pc' = [pc EXCEPT ![e] = "invoking"]
          /\ UNCHANGED answer
       \/ /\ reserve[e].phase \in {"ai_budget_exceeded", "ai_disabled"}
          /\ End(e, reserve[e].phase)
    /\ UNCHANGED <<database, calls, accounting, asked, try, provider>>

\* No answer: the reservation may still be made, or made already.
ReserveUnanswered(e) ==
    /\ pc[e] = "reserving"
    /\ End(e, "ai_accounting_unavailable")
    /\ UNCHANGED <<database, calls, accounting, asked, try, provider>>

\* One turn of the attempt loop.  The tokens count as spent from its start:
\* the provider may go on after a timeout or the death of this process.
Invoke(e) ==
    /\ pc[e] = "invoking"
    /\ \E use \in 0..MaxUse :
          /\ using' = [using EXCEPT ![e] = use]
          /\ spent' = [spent EXCEPT ![e] = @ + use]
          /\ lavish' = IF use > PerAttempt THEN lavish \cup {e} ELSE lavish
    /\ accounting' = [accounting EXCEPT ![e].attemptsStarted = @ + 1]
    /\ pc' = [pc EXCEPT ![e] = "invoked"]
    /\ UNCHANGED <<database, calls, asked, try, answer>>

\* addUsage; a sum beyond MaxAggregate is reported, not added, and throws.
Overflows(acc, use, reported) == reported /\ acc.tokens + use > MaxAggregate
\* Usage counts as complete once any attempt reports it.
MutAddUsage(acc, use, reported) ==
    [acc EXCEPT !.tokens = IF reported THEN @ + use ELSE @,
                !.usageReported = @ \/ reported,
                !.usageComplete = acc.usageReported \/ reported]
AddUsage(acc, use, reported) ==
    [attemptsStarted |-> acc.attemptsStarted,
     tokens |-> IF reported /\ ~Overflows(acc, use, reported)
                THEN acc.tokens + use ELSE acc.tokens,
     usageReported |-> acc.usageReported \/ reported,
     usageComplete |-> /\ acc.usageComplete /\ reported
                       /\ ~Overflows(acc, use, reported)]

SettlementRequest(status, acc) ==
    IF status = "cancelled"
    THEN [status |-> status, tokens |-> 0, reported |-> TRUE,
          complete |-> TRUE, attempts |-> 0]
    ELSE [status |-> status,
          tokens |-> IF acc.usageReported THEN acc.tokens ELSE 0,
          reported |-> acc.usageReported, complete |-> acc.usageComplete,
          attempts |-> acc.attemptsStarted]

AskSettlement(e, status, acc) ==
    /\ asked' = [asked EXCEPT ![e] = SettlementRequest(status, acc)]
    /\ try' = [try EXCEPT ![e] = 1]
    /\ settles' = settles \cup {<<e, 1>>}
    /\ pc' = [pc EXCEPT ![e] = "settling"]
    /\ Forget(e)

\* executePrepared refuses a preparation it does not know, before any attempt.
RefusePrepared(e) ==
    /\ pc[e] = "invoking"
    /\ accounting[e].attemptsStarted = 0
    /\ AskSettlement(e, "cancelled", accounting[e])
    /\ UNCHANGED <<database, reserve, replies, answer, spent, lavish>>

\* The attempt ends.  Output that passes every check ends the execution.  So
\* does a failure: output that does not pass, a provider error, a timeout or
\* anything else thrown (the last two never report usage).  A retryable
\* provider error with an attempt left starts the next turn instead.
EndAttempt(e) ==
    /\ pc[e] = "invoked"
    /\ \E reported \in BOOLEAN :
         LET acc == AddUsage(accounting[e], using[e], reported)
             over == Overflows(accounting[e], using[e], reported)
         IN \/ ~over /\ AskSettlement(e, "succeeded", acc)
            \/ AskSettlement(e, "failed", acc)
            \/ /\ ~over /\ acc.attemptsStarted < MaxAttempts
               /\ accounting' = [accounting EXCEPT ![e] = acc]
               /\ using' = [using EXCEPT ![e] = 0]
               /\ pc' = [pc EXCEPT ![e] = "invoking"]
               /\ UNCHANGED <<asked, try, settles>>
    /\ UNCHANGED <<database, reserve, replies, answer, spent, lavish>>

\* settleWithRetry, then what execute() returns or throws.
SettleAccepted(e) ==
    /\ pc[e] = "settling"
    /\ [execution |-> e, try |-> try[e], accepted |-> TRUE] \in replies
    /\ End(e, IF asked[e].status = "succeeded" THEN "output"
              ELSE "execution_error")
    /\ UNCHANGED <<database, calls, accounting, asked, try, provider>>

\* The output is returned although its settlement failed.
MutSettleFailsOpen(e) ==
    /\ pc[e] = "settling"
    /\ End(e, IF asked[e].status = "succeeded" THEN "output"
              ELSE "ai_accounting_failed")
    /\ UNCHANGED <<database, calls, accounting, asked, try, provider>>
\* Settlement is retried until it succeeds.
MutSettleFailsForever(e) ==
    /\ pc[e] = "settling"
    /\ try' = [try EXCEPT ![e] = 3 - try[e]]
    /\ settles' = settles \cup {<<e, 3 - try[e]>>}
    /\ UNCHANGED <<pc, answer>>
    /\ UNCHANGED <<database, reserve, replies, accounting, asked, provider>>
\* An attempt to settle is refused, or has no answer: it may still arrive.
SettleFails(e) ==
    /\ pc[e] = "settling"
    /\ IF try[e] = 1
       THEN /\ try' = [try EXCEPT ![e] = 2]
            /\ settles' = settles \cup {<<e, 2>>}
            /\ UNCHANGED <<pc, answer>>
       ELSE /\ End(e, "ai_accounting_failed")
            /\ UNCHANGED <<try, settles>>
    /\ UNCHANGED <<database, reserve, replies, accounting, asked, provider>>

Crash(e) ==
    /\ pc[e] \notin {"start", "done"}
    /\ End(e, "crashed")
    /\ Forget(e)
    /\ UNCHANGED <<database, calls, asked, try, spent, lavish>>

-----------------------------------------------------------------------------

Init ==
    /\ today = 0
    /\ settings \in SettingsRows
    /\ rowLock = Nobody
    /\ runs = [e \in Executions |-> NoRun]
    /\ reserve = [e \in Executions |-> [phase |-> "none", day |-> 0]]
    /\ settles = {}
    /\ replies = {}
    /\ pc = [e \in Executions |-> "start"]
    /\ accounting = [e \in Executions |-> Fresh]
    /\ asked = [e \in Executions |-> Unsettled]
    /\ try = [e \in Executions |-> 0]
    /\ answer = [e \in Executions |-> "none"]
    /\ using = [e \in Executions |-> 0]
    /\ spent = [e \in Executions |-> 0]
    /\ lavish = {}

Orchestrate(e) ==
    \/ ReadSettings(e) \/ CallReserve(e)
    \/ ReserveAnswered(e) \/ ReserveUnanswered(e)
    \/ Invoke(e) \/ RefusePrepared(e) \/ EndAttempt(e)
    \/ SettleAccepted(e) \/ SettleFails(e)

Serve(e) ==
    \/ CheckBudget(e) \/ InsertRun(e) \/ AbortReserve(e)
    \/ \E n \in 1..2 : Settle(e, n) \/ LoseSettle(e, n)

Next ==
    \/ Midnight \/ UpdateSettings
    \/ \E e \in Executions : Orchestrate(e) \/ Serve(e) \/ Crash(e)

Spec == Init /\ [][Next]_vars

\* The server keeps running what it began; every wait of it ends, with an
\* answer or without (an attempt by its timer, a database call by the HTTP
\* client's), so some step of Orchestrate stays enabled until it is done.
FairSpec == Spec /\ \A e \in Executions : WF_vars(Orchestrate(e))

-----------------------------------------------------------------------------
(* Properties. *)

TypeOK ==
    /\ today \in 0..LastDay
    /\ settings \in SettingsRows
    /\ rowLock \in Executions \cup {Nobody}
    /\ runs \in [Executions -> Run]
    /\ reserve \in [Executions -> [phase: {"none", "waiting", "admitted",
            "reserved", "aborted", "ai_budget_exceeded", "ai_disabled"},
            day: 0..LastDay]]
    /\ settles \subseteq Executions \X (1..2)
    /\ replies \subseteq
            [execution: Executions, try: 1..2, accepted: BOOLEAN]
    /\ pc \in [Executions -> {"start", "ready", "reserving", "invoking",
            "invoked", "settling", "done"}]
    /\ accounting \in [Executions -> Accounting]
    /\ asked \in [Executions -> Settlement \cup {Unsettled}]
    /\ try \in [Executions -> 0..2]
    /\ answer \in [Executions -> {"none", "output", "execution_error",
            "ai_disabled", "ai_budget_exceeded", "ai_accounting_unavailable",
            "ai_accounting_failed", "crashed"}]
    /\ using \in [Executions -> Nat] /\ spent \in [Executions -> Nat]
    /\ lavish \subseteq Executions

(* Whatever interleaves, fails or dies, the tokens a provider consumed are
   held against the Business: by the reservation while the run is open, by
   the charge once it is settled - even when usage was reported for some
   attempts only, timed out, or overflowed the sum.  Only an attempt that
   consumes more than the policy says it can escapes this. *)
SpendIsCovered ==
    \A e \in Executions :
        spent[e] > 0 =>
            /\ runs[e].status # "none"
            /\ e \notin lavish => Weight(runs[e]) >= spent[e]

(* Complete usage is charged as it was across all attempts, an overrun
   included, not clamped, and once, although a settlement may arrive twice or
   after its retry: the ledger and the provider's meter agree. *)
UsageIsExact ==
    \A e \in Executions :
        /\ runs[e].status \in {"succeeded", "failed"}
        /\ runs[e].settlement.complete
        => runs[e].charged = spent[e]

(* A day's reservations and charges, overruns apart, never exceed the widest
   limits one of that day's reservations was admitted under, although
   reservations race, settings change, and days end while a reserve call
   waits for the settings row. *)
OfDay(day) == {e \in Executions : runs[e].status # "none" /\ runs[e].usage_day = day}
\* Of the weights no more than was reserved.
Capped == [e \in Executions |-> IF Weights[e] > ReservedTokens THEN ReservedTokens
                                ELSE Weights[e]]
BudgetHeld ==
    \A day \in 0..LastDay : OfDay(day) # {} =>
        /\ \E e \in OfDay(day) :
              SumFunctionOnSet(Capped, Counted(day)) <= runs[e].tokenLimit
        /\ \E e \in OfDay(day) : Cardinality(Counted(day)) <= runs[e].requestLimit

(* What the caller is told is what the ledger says: output is returned only
   for a run settled as succeeded, an execution error only for one settled as
   failed or cancelled, and a refusal leaves no run behind. *)
AnswersAreHonest ==
    \A e \in Executions :
        /\ answer[e] = "output" => runs[e].status = "succeeded"
        /\ answer[e] = "execution_error" =>
                runs[e].status \in {"failed", "cancelled"}
        /\ answer[e] \in {"ai_disabled", "ai_budget_exceeded"} =>
                runs[e].status = "none"

(* Every execution that began ends with an answer: attempts and settlement
   retries are bounded. *)
ExecutionEnds ==
    \A e \in Executions : (pc[e] = "ready") ~> (pc[e] = "done")

-----------------------------------------------------------------------------
(* What makes the invariants inductive. *)

\* A run is there from the moment its reservation is committed; the settings row
\* is locked by whoever was admitted.
ReservationMade(e) ==
    /\ runs[e].status # "none" <=> reserve[e].phase = "reserved"
    /\ pc[e] \in {"start", "ready"} => reserve[e].phase = "none"
    /\ pc[e] \in {"invoking", "invoked"} =>
          reserve[e].phase = "reserved" /\ runs[e].status = "reserved"
    /\ reserve[e].phase = "admitted" <=> rowLock = e

\* What the executor has added up is what the attempts consumed, as far as it is
\* complete, and within what the reservation allows for the attempts so far.
Metered(e) ==
    LET acc == accounting[e] IN
    /\ spent[e] > 0 => reserve[e].phase = "reserved"
    /\ e \notin lavish => spent[e] <= ReservedTokens
    /\ pc[e] \in {"start", "ready", "reserving"} => acc = Fresh /\ spent[e] = 0
    /\ pc[e] \in {"start", "ready", "reserving", "invoking"} => using[e] = 0
    /\ pc[e] = "invoking" => acc.attemptsStarted < MaxAttempts
    /\ pc[e] \in {"invoking", "invoked"} =>
          /\ acc.attemptsStarted \in 0..MaxAttempts
          /\ acc.attemptsStarted = 0 => spent[e] = 0
          /\ acc.usageComplete => acc.tokens + using[e] = spent[e]
          /\ e \notin lavish => spent[e] <= PerAttempt * acc.attemptsStarted
    /\ pc[e] = "invoked" => acc.attemptsStarted > 0

\* A settlement is asked for once the attempts are over, and says of them what
\* was counted.
IsAsked(e) == asked[e].status # "reserved"
AskedAsMetered(e) ==
    /\ IsAsked(e) =>
          /\ pc[e] \in {"settling", "done"} /\ reserve[e].phase = "reserved"
          /\ asked[e].status = "cancelled" => spent[e] = 0
          /\ asked[e].complete => asked[e].tokens = spent[e]
    /\ pc[e] = "settling" => IsAsked(e)
    /\ \A n \in 1..2 : <<e, n>> \in settles => IsAsked(e)

\* A run is settled as was asked, and whoever is told so is right.
SettledAsAsked(e) ==
    /\ runs[e].status \in {"none", "reserved"} => runs[e].settlement = Unsettled
    /\ runs[e].status \notin {"none", "reserved"} =>
          /\ runs[e].settlement = asked[e] /\ runs[e].status = asked[e].status
          /\ runs[e].charged = Charge(asked[e])
    /\ \A n \in 1..2 : [execution |-> e, try |-> n, accepted |-> TRUE] \in replies =>
          IsAsked(e) /\ runs[e].status = asked[e].status
Told(e) ==
    /\ answer[e] # "none" <=> pc[e] = "done"
    /\ answer[e] \in {"output", "execution_error"} =>
          /\ IsAsked(e) /\ runs[e].status = asked[e].status
          /\ answer[e] = "output" <=> asked[e].status = "succeeded"
    /\ answer[e] \in {"ai_disabled", "ai_budget_exceeded"} =>
          reserve[e].phase \in {"none", "ai_disabled", "ai_budget_exceeded"}

\* What was admitted under the lock still fits when the run is inserted: another
\* run may be settled meanwhile, and be charged for more than it had reserved, but
\* none is inserted, and the limits stay.
AdmittedFits(e) ==
    reserve[e].phase = "admitted" =>
        LET day == reserve[e].day
        IN  /\ Cardinality(Counted(day)) + 1 <= settings.requestLimit
            /\ SumFunctionOnSet(Capped, Counted(day)) + ReservedTokens
                  <= settings.tokenLimit

Kept(e) ==
    /\ ReservationMade(e) /\ Metered(e) /\ AskedAsMetered(e)
    /\ SettledAsAsked(e) /\ Told(e)

IInv ==
    /\ TypeOK
    /\ \A e \in Executions : Kept(e) /\ AdmittedFits(e)
    /\ \A day \in 0..LastDay : IsFiniteSet(Counted(day))
    /\ BudgetHeld
=============================================================================
