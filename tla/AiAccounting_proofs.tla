-------------------------- MODULE AiAccounting_proofs --------------------------
(***************************************************************************)
(* For any number of executions, attempts, tokens, settings and days: IInv *)
(* is an inductive invariant of the budget around AI executions.           *)
(***************************************************************************)
EXTENDS AiAccounting, Integers, FiniteSetTheorems, TLAPS

-----------------------------------------------------------------------------
(* A sum over a finite set counts units, so that facts about sums are facts *)
(* about cardinalities.                                                     *)

\* Induction over the subsets of a finite set, for a set of them.
LEMMA SubsetInduction ==
  ASSUME NEW S, IsFiniteSet(S), NEW P,
         \A T \in SUBSET S : (\A U \in SUBSET T : U # T => U \in P) => T \in P
  PROVE  S \in P
<1>. DEFINE Bad == (SUBSET S) \ P
            R == StrictSubsetOrdering(S)
<1>1. IsWellFoundedOn(R, SUBSET S)
  BY FS_StrictSubsetOrderingWellFounded, FS_FiniteSubsetsOfFinite
<1>. SUFFICES ASSUME S \notin P PROVE FALSE
  OBVIOUS
<1>2. PICK T \in Bad : \A U \in Bad : <<U, T>> \notin R
  <2>1. Bad \subseteq SUBSET S /\ Bad # {}
    OBVIOUS
  <2>. HIDE DEF R, Bad
  <2>. QED BY <1>1, <2>1, WFMin
<1>3. ASSUME NEW U \in SUBSET T, U # T PROVE U \in P
  BY <1>2, <1>3 DEF StrictSubsetOrdering
<1>. QED BY <1>2, <1>3

\* One unit for each of the amounts f gives to the members of S.
Units(f, S) == {unit \in S \X Nat : unit[2] < f[unit[1]]}

LEMMA UnitsOfMore ==
  ASSUME NEW f, NEW S, NEW x, x \notin S, f[x] \in Nat, IsFiniteSet(Units(f, S))
  PROVE  /\ IsFiniteSet(Units(f, S \cup {x}))
         /\ Cardinality(Units(f, S \cup {x})) = Cardinality(Units(f, S)) + f[x]
<1>. DEFINE more == {x} \X (0 .. f[x] - 1)
<1>1. Units(f, S \cup {x}) = Units(f, S) \cup more /\ Units(f, S) \cap more = {}
  BY DEF Units
<1>2. IsFiniteSet(more) /\ Cardinality(more) = f[x]
  <2>1. IsFiniteSet({x}) /\ Cardinality({x}) = 1
    BY FS_Singleton
  <2>2. IsFiniteSet(0 .. f[x] - 1) /\ Cardinality(0 .. f[x] - 1) = f[x]
    BY FS_Interval
  <2>3. Cardinality(more) = 1 * f[x] /\ IsFiniteSet(more)
    BY <2>1, <2>2, FS_Product
  <2>. HIDE DEF more
  <2>. QED BY <2>3
<1>3. Cardinality(Units(f, S)) \in Nat
  BY FS_CardinalityType
<1>. HIDE DEF more
<1>4. Cardinality(Units(f, S) \cap more) = 0
  BY <1>1, FS_EmptySet
<1>5. /\ IsFiniteSet(Units(f, S) \cup more)
      /\ Cardinality(Units(f, S) \cup more)
           = Cardinality(Units(f, S)) + Cardinality(more) - Cardinality(Units(f, S) \cap more)
  BY <1>2, FS_Union
<1>6. Cardinality(Units(f, S \cup {x})) = Cardinality(Units(f, S)) + f[x] - 0
  BY <1>1, <1>2, <1>4, <1>5, Zenon
<1>7. IsFiniteSet(Units(f, S \cup {x}))
  BY <1>1, <1>5, Zenon
<1>. QED BY <1>3, <1>6, <1>7

LEMMA UnitsAreFinite ==
  ASSUME NEW f, NEW S, IsFiniteSet(S), \A x \in S : f[x] \in Nat
  PROVE  IsFiniteSet(Units(f, S))
<1>. DEFINE P == {T \in SUBSET S : IsFiniteSet(Units(f, T))}
<1>1. ASSUME NEW T \in SUBSET S, \A U \in SUBSET T : U # T => U \in P
      PROVE  T \in P
  <2>1. CASE T = {}
    BY <2>1, FS_EmptySet DEF Units
  <2>2. ASSUME NEW x \in T PROVE T \in P
    <3>1. T = (T \ {x}) \cup {x} /\ T \ {x} \in P
      BY <1>1
    <3>. QED BY <3>1, UnitsOfMore
  <2>. QED BY <2>1, <2>2
<1>. HIDE DEF P
<1>2. S \in P
  BY <1>1, SubsetInduction
<1>. QED BY <1>2 DEF P

LEMMA SumIsCount ==
  ASSUME NEW f, NEW S, IsFiniteSet(S), \A x \in S : f[x] \in Nat
  PROVE  SumFunctionOnSet(f, S) = Cardinality(Units(f, S))
<1>. DEFINE one(T) == CHOOSE x \in T : TRUE
            Step(h) == [T \in SUBSET S |->
                          IF T = {} THEN 0 ELSE f[one(T)] + h[T \ {one(T)}]]
            count == [T \in SUBSET S |-> Cardinality(Units(f, T))]
            sum == CHOOSE h : h = Step(h)
<1>1. SumFunctionOnSet(f, S) = sum[S]
  BY DEF SumFunctionOnSet, FoldFunctionOnSet, MapThenFoldSet
<1>2. ASSUME NEW T \in SUBSET S, T # {}
      PROVE  /\ one(T) \in T /\ T \ {one(T)} \in SUBSET S
             /\ count[T] = f[one(T)] + count[T \ {one(T)}]
  <2>1. one(T) \in T
    BY <1>2
  <2>. HIDE DEF one
  <2>2. T = (T \ {one(T)}) \cup {one(T)} /\ IsFiniteSet(Units(f, T \ {one(T)}))
    BY <2>1, UnitsAreFinite, FS_Subset
  <2>3. Cardinality(Units(f, T)) = Cardinality(Units(f, T \ {one(T)})) + f[one(T)]
    BY <2>1, <2>2, UnitsOfMore
  <2>4. Cardinality(Units(f, T \ {one(T)})) \in Nat
    BY <2>2, FS_CardinalityType
  <2>. QED BY <2>1, <2>3, <2>4
<1>3. count[{}] = 0
  BY FS_EmptySet DEF Units
<1>4. count = Step(count)
  <2>. HIDE DEF one
  <2>1. ASSUME NEW T \in SUBSET S PROVE count[T] = Step(count)[T]
    BY <1>2, <1>3
  <2>. QED BY <2>1
<1>5. sum = Step(sum)
  <2>. HIDE DEF Step, count
  <2>. QED BY <1>4
<1>6. S \in {T \in SUBSET S : sum[T] = count[T]}
  <2>. DEFINE P == {T \in SUBSET S : sum[T] = count[T]}
  <2>. HIDE DEF sum, count, one
  <2>1. ASSUME NEW T \in SUBSET S, \A U \in SUBSET T : U # T => U \in P
        PROVE  T \in P
    <3>1. CASE T = {}
      BY <3>1, <1>5, <1>3
    <3>2. CASE T # {}
      <4>1. T \ {one(T)} \in P
        BY <2>1, <3>2, <1>2
      <4>2. sum[T] = f[one(T)] + sum[T \ {one(T)}]
        BY <3>2, <1>5
      <4>. QED BY <4>1, <4>2, <3>2, <1>2
    <3>. QED BY <3>1, <3>2
  <2>. HIDE DEF P
  <2>2. S \in P
    BY <2>1, SubsetInduction
  <2>. QED BY <2>2 DEF P
<1>. QED BY <1>1, <1>6

LEMMA SumType ==
  ASSUME NEW f, NEW S, IsFiniteSet(S), \A x \in S : f[x] \in Nat
  PROVE  SumFunctionOnSet(f, S) \in Nat
BY SumIsCount, UnitsAreFinite, FS_CardinalityType

LEMMA SumOfMore ==
  ASSUME NEW f, NEW S, IsFiniteSet(S), \A x \in S : f[x] \in Nat,
         NEW y, y \notin S, f[y] \in Nat
  PROVE  SumFunctionOnSet(f, S \cup {y}) = SumFunctionOnSet(f, S) + f[y]
<1>1. SumFunctionOnSet(f, S) = Cardinality(Units(f, S)) /\ IsFiniteSet(Units(f, S))
  BY SumIsCount, UnitsAreFinite
<1>2. IsFiniteSet(S \cup {y}) /\ \A x \in S \cup {y} : f[x] \in Nat
  BY FS_AddElement
<1>3. SumFunctionOnSet(f, S \cup {y}) = Cardinality(Units(f, S \cup {y}))
  BY <1>2, SumIsCount
<1>4. Cardinality(Units(f, S \cup {y})) = Cardinality(Units(f, S)) + f[y]
  BY <1>1, UnitsOfMore
<1>. QED BY <1>1, <1>3, <1>4

\* A sum does not grow with fewer, smaller amounts.
LEMMA SumOfLess ==
  ASSUME NEW f, NEW g, NEW S, NEW T, IsFiniteSet(T), S \subseteq T,
         \A x \in S : f[x] \in Nat /\ f[x] <= g[x],
         \A x \in T : g[x] \in Nat
  PROVE  SumFunctionOnSet(f, S) <= SumFunctionOnSet(g, T)
<1>1. IsFiniteSet(S)
  BY FS_Subset
<1>2. Units(f, S) \in SUBSET Units(g, T)
  BY DEF Units
<1>3. IsFiniteSet(Units(g, T))
  BY UnitsAreFinite
<1>4. Cardinality(Units(f, S)) <= Cardinality(Units(g, T))
  BY <1>2, <1>3, FS_Subset
<1>. QED BY <1>1, <1>4, SumIsCount

-----------------------------------------------------------------------------
(* Types. *)

LEMMA Bounds ==
  /\ MaxAttempts \in 1..5 /\ PerAttempt \in Nat \ {0} /\ ReservedTokens \in Nat
  /\ MaxUse \in Nat /\ MaxAggregate \in Nat /\ LastDay \in Nat
  /\ Nobody \notin Executions
<1>1. MaxAttempts \in {1, 2, 3, 4, 5} /\ PerAttempt \in Nat
  BY BoundsAssumption
<1>2. ReservedTokens \in Nat
  BY <1>1 DEF ReservedTokens
<1>. QED BY <1>2, BoundsAssumption, NobodyAssumption

\* Another attempt has room for what one may consume.
LEMMA OneMore ==
  ASSUME NEW n \in 0..(MaxAttempts - 1), NEW used \in Nat, NEW use \in 0..PerAttempt,
         used <= PerAttempt * n
  PROVE  used + use <= PerAttempt * (n + 1) /\ PerAttempt * (n + 1) <= ReservedTokens
<1>1. n \in {0, 1, 2, 3, 4} /\ n + 1 <= MaxAttempts
  BY Bounds
<1>2. MaxAttempts \in {1, 2, 3, 4, 5} /\ PerAttempt \in Nat
  BY Bounds
<1>. QED BY <1>1, <1>2 DEF ReservedTokens

LEMMA AddUsageType ==
  ASSUME NEW acc \in Accounting, NEW use \in Nat, NEW reported \in BOOLEAN
  PROVE  AddUsage(acc, use, reported) \in Accounting
BY DEF AddUsage, Accounting, Overflows

LEMMA RequestType ==
  ASSUME NEW acc \in Accounting, NEW status \in {"succeeded", "failed", "cancelled"}
  PROVE  SettlementRequest(status, acc) \in Settlement
BY DEF SettlementRequest, Settlement, Accounting

LEMMA ChargeType ==
  ASSUME NEW s \in Settlement \cup {Unsettled}
  PROVE  Charge(s) \in Nat
BY Bounds DEF Charge, Settlement, Unsettled

LEMMA SettledType ==
  ASSUME NEW run \in Run, NEW s \in Settlement
  PROVE  Settled(run, s) \in Run
<1>1. Charge(s) \in Nat /\ (s.tokens > ReservedTokens) \in BOOLEAN
  BY ChargeType
<1>2. s.status \in {"none", "reserved", "succeeded", "failed", "cancelled"}
  BY DEF Settlement
<1>. QED BY <1>1, <1>2 DEF Settled, Run

LEMMA WeightType ==
  ASSUME NEW run \in Run
  PROVE  Weight(run) \in Nat
BY Bounds DEF Weight, Run

LEMMA TypeMeans ==
  ASSUME TypeOK, NEW e \in Executions
  PROVE  /\ runs[e] \in Run /\ accounting[e] \in Accounting
         /\ asked[e] \in Settlement \cup {Unsettled}
         /\ using[e] \in Nat /\ spent[e] \in Nat
         /\ reserve[e].day \in 0..LastDay
BY DEF TypeOK

LEMMA AskType ==
  ASSUME TypeOK, NEW e \in Executions, NEW status \in {"succeeded", "failed", "cancelled"},
         NEW acc \in Accounting, AskSettlement(e, status, acc),
         UNCHANGED <<database, reserve, replies, answer, spent, lavish>>
  PROVE  TypeOK'
<1>1. SettlementRequest(status, acc) \in Settlement
  BY RequestType
<1>2. Fresh \in Accounting
  BY DEF Fresh, Accounting
<1>. QED BY <1>1, <1>2 DEF AskSettlement, Forget, TypeOK, database

LEMMA ServeType ==
  ASSUME TypeOK, NEW e \in Executions, Serve(e)
  PROVE  TypeOK'
<1>1. CASE CheckBudget(e)
  BY <1>1 DEF CheckBudget, TypeOK, process, provider
<1>2. CASE InsertRun(e)
  <2>1. runs'[e] \in Run /\ runs' \in [Executions -> Run]
    <3>1. settings.requestLimit \in Nat /\ settings.tokenLimit \in Nat
      BY SettingsAssumption DEF TypeOK
    <3>2. reserve[e].day \in Nat
      BY Bounds DEF TypeOK
    <3>. QED BY <1>2, <3>1, <3>2 DEF InsertRun, Run, TypeOK
  <2>. QED BY <1>2, <2>1 DEF InsertRun, TypeOK, process, provider
<1>3. CASE AbortReserve(e)
  BY <1>3 DEF AbortReserve, TypeOK, process, provider
<1>4. ASSUME NEW n \in 1..2, Settle(e, n) PROVE TypeOK'
  <2>1. runs' \in [Executions -> Run]
    <3>1. CASE Acceptable(asked[e]) /\ runs[e].status = "reserved"
      <4>1. asked[e] \in Settlement
        BY <3>1, TypeMeans DEF Acceptable, Unsettled
      <4>. QED BY <1>4, <3>1, <4>1, SettledType DEF Settle, TypeOK
    <3>. QED BY <1>4, <3>1 DEF Settle, TypeOK
  <2>2. \E accepted \in BOOLEAN :
          replies' = replies \cup {[execution |-> e, try |-> n, accepted |-> accepted]}
    BY <1>4 DEF Settle
  <2>3. replies' \subseteq [execution: Executions, try: 1..2, accepted: BOOLEAN]
    BY <2>2 DEF TypeOK
  <2>. QED BY <1>4, <2>1, <2>3 DEF Settle, TypeOK, process, provider
<1>5. ASSUME NEW n \in 1..2, LoseSettle(e, n) PROVE TypeOK'
  BY <1>5 DEF LoseSettle, TypeOK, database, process, provider
<1>. QED BY <1>1, <1>2, <1>3, <1>4, <1>5 DEF Serve

LEMMA OrchestrateType ==
  ASSUME TypeOK, NEW e \in Executions, Orchestrate(e) \/ Crash(e)
  PROVE  TypeOK'
<1>1. CASE ReadSettings(e)
  BY <1>1 DEF ReadSettings, End, TypeOK, database, calls, provider
<1>2. CASE CallReserve(e)
  BY <1>2 DEF CallReserve, TypeOK, database, provider
<1>3. CASE ReserveAnswered(e)
  BY <1>3 DEF ReserveAnswered, End, TypeOK, database, calls, provider
<1>4. CASE ReserveUnanswered(e)
  BY <1>4 DEF ReserveUnanswered, End, TypeOK, database, calls, provider
<1>5. CASE Invoke(e)
  <2>1. accounting' \in [Executions -> Accounting]
    BY <1>5 DEF Invoke, TypeOK, Accounting
  <2>2. using' \in [Executions -> Nat] /\ spent' \in [Executions -> Nat]
        /\ lavish' \subseteq Executions
    BY <1>5, Bounds DEF Invoke, TypeOK
  <2>. QED BY <1>5, <2>1, <2>2 DEF Invoke, TypeOK, database, calls
<1>6. CASE RefusePrepared(e)
  BY <1>6, AskType, TypeMeans DEF RefusePrepared
<1>7. CASE EndAttempt(e)
  <2>1. PICK reported \in BOOLEAN :
          LET acc == AddUsage(accounting[e], using[e], reported)
          IN  \/ AskSettlement(e, "succeeded", acc) \/ AskSettlement(e, "failed", acc)
              \/ /\ accounting' = [accounting EXCEPT ![e] = acc]
                 /\ using' = [using EXCEPT ![e] = 0]
                 /\ pc' = [pc EXCEPT ![e] = "invoking"]
                 /\ UNCHANGED <<asked, try, settles>>
    BY <1>7 DEF EndAttempt
  <2>2. AddUsage(accounting[e], using[e], reported) \in Accounting
    BY AddUsageType, TypeMeans
  <2>3. UNCHANGED <<database, reserve, replies, answer, spent, lavish>>
    BY <1>7 DEF EndAttempt
  <2>. QED BY <2>1, <2>2, <2>3, AskType DEF TypeOK, database
<1>8. CASE SettleAccepted(e)
  BY <1>8 DEF SettleAccepted, End, TypeOK, database, calls, provider
<1>9. CASE SettleFails(e)
  <2>1. CASE try[e] = 1
    BY <1>9, <2>1 DEF SettleFails, TypeOK, database, provider
  <2>2. CASE try[e] # 1
    BY <1>9, <2>2 DEF SettleFails, End, TypeOK, database, provider
  <2>. QED BY <2>1, <2>2
<1>10. CASE Crash(e)
  <2>1. Fresh \in Accounting
    BY DEF Fresh, Accounting
  <2>. QED BY <1>10, <2>1 DEF Crash, End, Forget, TypeOK, database, calls
<1>. QED
  BY <1>1, <1>2, <1>3, <1>4, <1>5, <1>6, <1>7, <1>8, <1>9, <1>10 DEF Orchestrate

LEMMA Typing ==
  ASSUME TypeOK, [Next]_vars
  PROVE  TypeOK'
<1>1. CASE Midnight
  BY <1>1, Bounds DEF Midnight, TypeOK, calls, process, provider
<1>2. CASE UpdateSettings
  BY <1>2 DEF UpdateSettings, TypeOK, calls, process, provider
<1>3. CASE UNCHANGED vars
  BY <1>3 DEF TypeOK, vars, database, calls, process, provider
<1>. QED BY <1>1, <1>2, <1>3, ServeType, OrchestrateType DEF Next

-----------------------------------------------------------------------------
(* What holds of one execution. *)

\* What a step leaves of an execution.
Stays(d) ==
  /\ runs'[d] = runs[d] /\ reserve'[d] = reserve[d] /\ pc'[d] = pc[d]
  /\ accounting'[d] = accounting[d] /\ asked'[d] = asked[d] /\ answer'[d] = answer[d]
  /\ using'[d] = using[d] /\ spent'[d] = spent[d]
  /\ d \in lavish' <=> d \in lavish
  /\ rowLock' = d <=> rowLock = d
  /\ \A n \in 1..2 : <<d, n>> \in settles' <=> <<d, n>> \in settles
  /\ \A n \in 1..2 : [execution |-> d, try |-> n, accepted |-> TRUE] \in replies'
                    <=> [execution |-> d, try |-> n, accepted |-> TRUE] \in replies

LEMMA StaysKept ==
  ASSUME NEW d \in Executions, Kept(d), Stays(d)
  PROVE  Kept(d)'
<1>1. ReservationMade(d)'
  BY DEF Kept, Stays, ReservationMade
<1>2. Metered(d)'
  BY DEF Kept, Stays, Metered
<1>3. AskedAsMetered(d)'
  BY DEF Kept, Stays, AskedAsMetered, IsAsked
<1>4. SettledAsAsked(d)'
  BY DEF Kept, Stays, SettledAsAsked, IsAsked
<1>5. Told(d)'
  BY DEF Kept, Stays, Told, IsAsked
<1>. QED BY <1>1, <1>2, <1>3, <1>4, <1>5 DEF Kept

\* The steps of one execution leave the others alone.
LEMMA OthersStay ==
  ASSUME TypeOK, NEW e \in Executions, Orchestrate(e) \/ Serve(e) \/ Crash(e),
         NEW d \in Executions, d # e,
         rowLock' # rowLock => rowLock # d /\ rowLock' # d
  PROVE  Stays(d)
<1>1. CASE Serve(e)
  <2>1. CASE CheckBudget(e) \/ InsertRun(e) \/ AbortReserve(e)
    BY <2>1 DEF CheckBudget, InsertRun, AbortReserve, TypeOK, process, provider, Stays
  <2>2. ASSUME NEW n \in 1..2, Settle(e, n) PROVE Stays(d)
    BY <2>2 DEF Settle, TypeOK, process, provider, Stays
  <2>3. ASSUME NEW n \in 1..2, LoseSettle(e, n) PROVE Stays(d)
    BY <2>3 DEF LoseSettle, TypeOK, database, process, provider, Stays
  <2>. QED BY <1>1, <2>1, <2>2, <2>3 DEF Serve
<1>2. CASE ReadSettings(e) \/ CallReserve(e) \/ ReserveAnswered(e) \/ ReserveUnanswered(e)
  BY <1>2 DEF ReadSettings, CallReserve, ReserveAnswered, ReserveUnanswered, End, TypeOK,
     database, calls, provider, Stays
<1>3. CASE Invoke(e)
  BY <1>3 DEF Invoke, TypeOK, database, calls, Stays
<1>4. CASE RefusePrepared(e)
  BY <1>4 DEF RefusePrepared, AskSettlement, Forget, TypeOK, database, Stays
<1>5. CASE EndAttempt(e)
  BY <1>5 DEF EndAttempt, AskSettlement, Forget, TypeOK, database, Stays
<1>6. CASE SettleAccepted(e) \/ SettleFails(e)
  BY <1>6 DEF SettleAccepted, SettleFails, End, TypeOK, database, calls, provider, Stays
<1>7. CASE Crash(e)
  BY <1>7 DEF Crash, End, Forget, TypeOK, database, calls, Stays
<1>. QED BY <1>1, <1>2, <1>3, <1>4, <1>5, <1>6, <1>7 DEF Orchestrate

LEMMA ReservationSteps ==
  ASSUME TypeOK, NEW e \in Executions, Kept(e),
         \/ CheckBudget(e) \/ InsertRun(e) \/ AbortReserve(e)
         \/ ReadSettings(e) \/ CallReserve(e) \/ ReserveAnswered(e) \/ ReserveUnanswered(e)
  PROVE  Kept(e)'
<1>. USE DEF Kept
<1>1. CASE CheckBudget(e)
  <2>1. /\ rowLock = Nobody /\ reserve[e].phase = "waiting"
        /\ \/ rowLock' = e /\ reserve'[e].phase = "admitted"
           \/ rowLock' = rowLock /\ reserve'[e].phase \in {"ai_budget_exceeded", "ai_disabled"}
    BY <1>1 DEF CheckBudget, CanLock, TypeOK
  <2>2. UNCHANGED <<runs, settles, replies, pc, accounting, asked, answer, using, spent, lavish>>
    BY <1>1 DEF CheckBudget, process, provider
  <2>3. ReservationMade(e)' /\ Metered(e)'
    BY <2>1, <2>2, Bounds DEF ReservationMade, Metered
  <2>4. AskedAsMetered(e)' /\ SettledAsAsked(e)' /\ Told(e)'
    BY <2>1, <2>2 DEF ReservationMade, AskedAsMetered, SettledAsAsked, Told, IsAsked
  <2>. QED BY <2>3, <2>4
<1>2. CASE InsertRun(e)
  <2>1. /\ reserve[e].phase = "admitted" /\ reserve'[e].phase = "reserved"
        /\ rowLock' = Nobody
        /\ runs'[e].status = "reserved" /\ runs'[e].settlement = Unsettled
    BY <1>2 DEF InsertRun, TypeOK
  <2>2. UNCHANGED <<settles, replies, pc, accounting, asked, answer, using, spent, lavish>>
    BY <1>2 DEF InsertRun, process, provider
  <2>3. ReservationMade(e)' /\ Metered(e)'
    BY <2>1, <2>2, Bounds DEF ReservationMade, Metered
  <2>4. AskedAsMetered(e)' /\ SettledAsAsked(e)' /\ Told(e)'
    BY <2>1, <2>2 DEF ReservationMade, AskedAsMetered, SettledAsAsked, Told, IsAsked
  <2>. QED BY <2>3, <2>4
<1>3. CASE AbortReserve(e)
  <2>1. /\ reserve[e].phase \in {"waiting", "admitted"} /\ reserve'[e].phase = "aborted"
        /\ rowLock' # e
    BY <1>3, Bounds DEF AbortReserve, TypeOK
  <2>2. UNCHANGED <<runs, settles, replies, pc, accounting, asked, answer, using, spent, lavish>>
    BY <1>3 DEF AbortReserve, process, provider
  <2>3. ReservationMade(e)' /\ Metered(e)'
    BY <2>1, <2>2 DEF ReservationMade, Metered
  <2>4. AskedAsMetered(e)' /\ SettledAsAsked(e)' /\ Told(e)'
    BY <2>1, <2>2 DEF ReservationMade, AskedAsMetered, SettledAsAsked, Told, IsAsked
  <2>. QED BY <2>3, <2>4
<1>4. CASE ReadSettings(e)
  <2>1. /\ pc[e] = "start"
        /\ \/ pc'[e] = "ready" /\ answer'[e] = answer[e]
           \/ pc'[e] = "done" /\ answer'[e] \in {"ai_disabled", "ai_accounting_unavailable"}
    BY <1>4 DEF ReadSettings, End, TypeOK
  <2>2. UNCHANGED <<rowLock, runs, reserve, settles, replies, accounting, asked, using, spent,
                    lavish>>
    BY <1>4 DEF ReadSettings, database, calls, provider
  <2>. QED
    BY <2>1, <2>2 DEF ReservationMade, Metered, AskedAsMetered, SettledAsAsked, Told, IsAsked
<1>5. CASE CallReserve(e)
  <2>1. pc[e] = "ready" /\ pc'[e] = "reserving" /\ reserve'[e].phase = "waiting"
    BY <1>5 DEF CallReserve, TypeOK
  <2>2. UNCHANGED <<rowLock, runs, settles, replies, accounting, asked, answer, using, spent,
                    lavish>>
    BY <1>5 DEF CallReserve, database, provider
  <2>. QED
    BY <2>1, <2>2 DEF ReservationMade, Metered, AskedAsMetered, SettledAsAsked, Told, IsAsked
<1>6. CASE ReserveAnswered(e)
  <2>1. /\ pc[e] = "reserving"
        /\ \/ reserve[e].phase = "reserved" /\ pc'[e] = "invoking" /\ answer'[e] = answer[e]
           \/ /\ reserve[e].phase \in {"ai_budget_exceeded", "ai_disabled"}
              /\ pc'[e] = "done" /\ answer'[e] = reserve[e].phase
    BY <1>6 DEF ReserveAnswered, End, TypeOK
  <2>2. UNCHANGED <<rowLock, runs, reserve, settles, replies, accounting, asked, using, spent,
                    lavish>>
    BY <1>6 DEF ReserveAnswered, database, calls, provider
  <2>3. ~IsAsked(e)
    BY <2>1 DEF AskedAsMetered
  <2>4. runs[e].status \in {"none", "reserved"}
    BY <2>3, TypeMeans DEF SettledAsAsked, IsAsked, Run
  <2>5. Metered(e)'
    <3>1. accounting'[e] = Fresh /\ spent'[e] = 0 /\ using'[e] = 0
      BY <2>1, <2>2 DEF Metered
    <3>2. /\ accounting'[e].attemptsStarted = 0 /\ accounting'[e].tokens = 0
          /\ accounting'[e].attemptsStarted < MaxAttempts /\ 0 \in 0..MaxAttempts
          /\ PerAttempt * 0 = 0 /\ 0 <= ReservedTokens
      BY <3>1, Bounds DEF Fresh
    <3>. QED BY <2>1, <3>1, <3>2 DEF Metered
  <2>. QED
    BY <2>1, <2>2, <2>3, <2>4, <2>5
    DEF ReservationMade, AskedAsMetered, SettledAsAsked, Told, IsAsked
<1>7. CASE ReserveUnanswered(e)
  <2>1. /\ pc[e] = "reserving" /\ pc'[e] = "done"
        /\ answer'[e] = "ai_accounting_unavailable"
    BY <1>7 DEF ReserveUnanswered, End, TypeOK
  <2>2. UNCHANGED <<rowLock, runs, reserve, settles, replies, accounting, asked, using, spent,
                    lavish>>
    BY <1>7 DEF ReserveUnanswered, database, calls, provider
  <2>. QED
    BY <2>1, <2>2 DEF ReservationMade, Metered, AskedAsMetered, SettledAsAsked, Told, IsAsked
<1>. QED BY <1>1, <1>2, <1>3, <1>4, <1>5, <1>6, <1>7

LEMMA InvokeStep ==
  ASSUME TypeOK, NEW e \in Executions, Kept(e), Invoke(e)
  PROVE  Kept(e)'
<1>. DEFINE acc == accounting[e]
<1>1. /\ pc[e] = "invoking" /\ pc'[e] = "invoked"
      /\ reserve[e].phase = "reserved" /\ runs[e].status = "reserved"
      /\ using[e] = 0 /\ acc.attemptsStarted \in 0..(MaxAttempts - 1)
  BY Bounds DEF Invoke, TypeOK, Kept, ReservationMade, Metered
<1>2. UNCHANGED <<rowLock, runs, reserve, settles, replies, asked, answer>>
  BY DEF Invoke, database, calls
<1>3. PICK use \in 0..MaxUse :
        /\ using'[e] = use /\ spent'[e] = spent[e] + use
        /\ lavish' = IF use > PerAttempt THEN lavish \cup {e} ELSE lavish
  BY DEF Invoke, TypeOK
<1>4. /\ accounting'[e].attemptsStarted = acc.attemptsStarted + 1
      /\ accounting'[e].tokens = acc.tokens
      /\ accounting'[e].usageComplete = acc.usageComplete
  BY DEF Invoke, TypeOK, Accounting
<1>5. acc \in Accounting /\ spent[e] \in Nat /\ use \in Nat
  BY TypeMeans, Bounds
<1>6. Metered(e)'
  <2>1. /\ acc.attemptsStarted + 1 \in 0..MaxAttempts /\ acc.attemptsStarted + 1 > 0
    BY <1>1, Bounds
  <2>2. acc.usageComplete => acc.tokens + use = spent[e] + use
    BY <1>1, <1>5 DEF Kept, Metered, Accounting
  <2>3. ASSUME e \notin lavish'
        PROVE  /\ spent[e] + use <= PerAttempt * (acc.attemptsStarted + 1)
               /\ spent[e] + use <= ReservedTokens
    <3>1. e \notin lavish /\ use \in 0..PerAttempt
      BY <1>3, <1>5, <2>3, Bounds
    <3>2. spent[e] <= PerAttempt * acc.attemptsStarted
      BY <1>1, <3>1 DEF Kept, Metered
    <3>3. /\ spent[e] + use <= PerAttempt * (acc.attemptsStarted + 1)
          /\ PerAttempt * (acc.attemptsStarted + 1) <= ReservedTokens
      BY <1>1, <1>5, <3>1, <3>2, OneMore
    <3>4. PerAttempt * (acc.attemptsStarted + 1) \in Int /\ ReservedTokens \in Int
      BY <1>1, Bounds
    <3>. HIDE DEF acc
    <3>. QED BY <1>5, <3>3, <3>4
  <2>. QED BY <1>1, <1>2, <1>3, <1>4, <2>1, <2>2, <2>3 DEF Metered
<1>7. ReservationMade(e)' /\ AskedAsMetered(e)' /\ SettledAsAsked(e)' /\ Told(e)'
  BY <1>1, <1>2 DEF Kept, ReservationMade, AskedAsMetered, SettledAsAsked, Told, IsAsked
<1>. QED BY <1>6, <1>7 DEF Kept

\* What a settlement is asked for.
LEMMA AskStep ==
  ASSUME TypeOK, NEW e \in Executions, Kept(e),
         NEW status \in {"succeeded", "failed", "cancelled"},
         NEW acc \in Accounting, AskSettlement(e, status, acc),
         UNCHANGED <<database, reserve, replies, answer, spent, lavish>>,
         pc[e] \in {"invoking", "invoked"},
         status = "cancelled" => spent[e] = 0,
         status # "cancelled" /\ acc.usageComplete =>
            acc.usageReported /\ acc.tokens = spent[e]
  PROVE  Kept(e)'
<1>1. /\ pc'[e] = "settling" /\ asked'[e] = SettlementRequest(status, acc)
      /\ accounting'[e] = Fresh /\ using'[e] = 0
      /\ UNCHANGED <<rowLock, runs, reserve, replies, answer, spent, lavish>>
  BY DEF AskSettlement, Forget, TypeOK, database
<1>2. /\ asked'[e].status = status
      /\ asked'[e].complete => asked'[e].tokens = spent[e]
  <2>1. CASE status = "cancelled"
    BY <1>1, <2>1 DEF SettlementRequest
  <2>2. CASE status # "cancelled"
    BY <1>1, <2>2 DEF SettlementRequest
  <2>. QED BY <2>1, <2>2
<1>3. reserve[e].phase = "reserved" /\ runs[e].status = "reserved" /\ answer[e] = "none"
  BY DEF Kept, ReservationMade, Told
<1>4. ReservationMade(e)' /\ Metered(e)'
  BY <1>1, <1>3 DEF Kept, ReservationMade, Metered
<1>5. AskedAsMetered(e)'
  BY <1>1, <1>2, <1>3 DEF AskedAsMetered, IsAsked
<1>6. ~IsAsked(e)
  BY DEF Kept, AskedAsMetered
<1>7. SettledAsAsked(e)' /\ Told(e)'
  BY <1>1, <1>3, <1>6 DEF Kept, SettledAsAsked, Told
<1>. QED BY <1>4, <1>5, <1>7 DEF Kept

LEMMA EndAttemptStep ==
  ASSUME TypeOK, NEW e \in Executions, Kept(e), EndAttempt(e)
  PROVE  Kept(e)'
<1>1. pc[e] = "invoked" /\ UNCHANGED <<database, reserve, replies, answer, spent, lavish>>
  BY DEF EndAttempt
<1>2. PICK reported \in BOOLEAN :
        LET acc == AddUsage(accounting[e], using[e], reported)
        IN  \/ AskSettlement(e, "succeeded", acc) \/ AskSettlement(e, "failed", acc)
            \/ /\ acc.attemptsStarted < MaxAttempts
               /\ accounting' = [accounting EXCEPT ![e] = acc]
               /\ using' = [using EXCEPT ![e] = 0]
               /\ pc' = [pc EXCEPT ![e] = "invoking"]
               /\ UNCHANGED <<asked, try, settles>>
  BY DEF EndAttempt
<1>. DEFINE acc == AddUsage(accounting[e], using[e], reported)
<1>3. acc \in Accounting /\ accounting[e] \in Accounting /\ using[e] \in Nat /\ spent[e] \in Nat
  BY AddUsageType, TypeMeans
<1>4. /\ acc.attemptsStarted = accounting[e].attemptsStarted
      /\ acc.usageComplete => acc.usageReported /\ acc.tokens = spent[e]
  BY <1>1, <1>3 DEF AddUsage, Kept, Metered
<1>. HIDE DEF acc
<1>5. CASE AskSettlement(e, "succeeded", acc) \/ AskSettlement(e, "failed", acc)
  BY <1>1, <1>3, <1>4, <1>5, AskStep
<1>6. CASE /\ acc.attemptsStarted < MaxAttempts
           /\ accounting' = [accounting EXCEPT ![e] = acc]
           /\ using' = [using EXCEPT ![e] = 0]
           /\ pc' = [pc EXCEPT ![e] = "invoking"]
           /\ UNCHANGED <<asked, try, settles>>
  <2>1. accounting'[e] = acc /\ using'[e] = 0 /\ pc'[e] = "invoking"
    BY <1>6 DEF TypeOK
  <2>2. UNCHANGED <<rowLock, runs, reserve, settles, replies, asked, answer, spent, lavish>>
    BY <1>1, <1>6 DEF database
  <2>3. acc.usageComplete => acc.tokens + 0 = spent[e]
    BY <1>3, <1>4 DEF Accounting
  <2>4. Metered(e)'
    BY <1>1, <1>4, <1>6, <2>1, <2>2, <2>3 DEF Kept, Metered
  <2>5. ReservationMade(e)' /\ AskedAsMetered(e)' /\ SettledAsAsked(e)' /\ Told(e)'
    BY <1>1, <2>1, <2>2 DEF Kept, ReservationMade, AskedAsMetered, SettledAsAsked, Told, IsAsked
  <2>. QED BY <2>4, <2>5 DEF Kept
<1>. QED BY <1>2, <1>5, <1>6 DEF acc

LEMMA RefusePreparedStep ==
  ASSUME TypeOK, NEW e \in Executions, Kept(e), RefusePrepared(e)
  PROVE  Kept(e)'
<1>1. /\ pc[e] = "invoking" /\ accounting[e].attemptsStarted = 0
      /\ AskSettlement(e, "cancelled", accounting[e])
      /\ UNCHANGED <<database, reserve, replies, answer, spent, lavish>>
  BY DEF RefusePrepared
<1>2. spent[e] = 0
  BY <1>1 DEF Kept, Metered
<1>. QED BY <1>1, <1>2, AskStep, TypeMeans

LEMMA SettleStep ==
  ASSUME TypeOK, NEW e \in Executions, Kept(e), NEW n \in 1..2,
         Settle(e, n) \/ LoseSettle(e, n)
  PROVE  Kept(e)'
<1>1. /\ <<e, n>> \in settles /\ settles' = settles \ {<<e, n>>}
      /\ UNCHANGED <<rowLock, reserve, pc, accounting, asked, answer, using, spent, lavish>>
  BY DEF Settle, LoseSettle, database, process, provider
<1>2. /\ IsAsked(e) /\ reserve[e].phase = "reserved" /\ runs[e].status # "none"
      /\ asked[e] \in Settlement /\ runs[e] \in Run
  BY <1>1, TypeMeans DEF Kept, AskedAsMetered, ReservationMade, IsAsked, Unsettled
<1>3. pc[e] \in {"settling", "done"}
  BY <1>2 DEF Kept, AskedAsMetered
<1>4. CASE Settle(e, n) /\ Acceptable(asked[e]) /\ runs[e].status = "reserved"
  <2>1. runs'[e] = Settled(runs[e], asked[e])
    BY <1>4 DEF Settle, TypeOK
  <2>2. /\ runs'[e].status = asked[e].status /\ runs'[e].settlement = asked[e]
        /\ runs'[e].charged = Charge(asked[e])
    BY <1>2, <2>1 DEF Settled, Run
  <2>3. asked[e].status \in {"succeeded", "failed", "cancelled"}
    BY <1>2 DEF Settlement
  <2>. QED
    BY <1>1, <1>2, <1>3, <2>2, <2>3
    DEF Kept, ReservationMade, Metered, AskedAsMetered, SettledAsAsked, Told, IsAsked
<1>5. CASE LoseSettle(e, n) \/ ~(Acceptable(asked[e]) /\ runs[e].status = "reserved")
  <2>1. runs' = runs
    BY <1>5 DEF Settle, LoseSettle, database
  <2>2. \A m \in 1..2 : [execution |-> e, try |-> m, accepted |-> TRUE] \in replies'
           => runs[e].status = asked[e].status
    <3>1. ASSUME runs[e].settlement = asked[e] PROVE runs[e].status = asked[e].status
      BY <1>2, <3>1 DEF Kept, SettledAsAsked, IsAsked, Unsettled
    <3>2. CASE LoseSettle(e, n)
      BY <3>2 DEF LoseSettle, Kept, SettledAsAsked
    <3>3. CASE Settle(e, n) /\ ~(Acceptable(asked[e]) /\ runs[e].status = "reserved")
      <4>1. replies' = replies \cup {[execution |-> e, try |-> n, accepted |->
                Acceptable(asked[e]) /\ runs[e].settlement = asked[e]]}
        BY <3>3 DEF Settle
      <4>. QED BY <3>1, <4>1 DEF Kept, SettledAsAsked
    <3>. QED BY <1>5, <3>2, <3>3
  <2>3. ReservationMade(e)' /\ Metered(e)' /\ AskedAsMetered(e)'
    BY <1>1, <1>2, <1>3, <2>1 DEF Kept, ReservationMade, Metered, AskedAsMetered, IsAsked
  <2>4. SettledAsAsked(e)' /\ Told(e)'
    BY <1>1, <1>2, <2>1, <2>2 DEF Kept, SettledAsAsked, Told, IsAsked
  <2>. QED BY <2>3, <2>4 DEF Kept
<1>. QED BY <1>4, <1>5

\* The orchestrator learns of the settlement, or stops waiting for it.
LEMMA EndSteps ==
  ASSUME TypeOK, NEW e \in Executions, Kept(e),
         SettleAccepted(e) \/ SettleFails(e) \/ Crash(e)
  PROVE  Kept(e)'
<1>1. UNCHANGED <<rowLock, runs, reserve, replies, asked, spent, lavish>>
  BY DEF SettleAccepted, SettleFails, Crash, database, calls, provider
<1>2. CASE SettleAccepted(e)
  <2>1. /\ pc[e] = "settling" /\ pc'[e] = "done"
        /\ answer'[e] = IF asked[e].status = "succeeded" THEN "output" ELSE "execution_error"
        /\ UNCHANGED <<settles, accounting, using>>
    BY <1>2 DEF SettleAccepted, End, TypeOK, calls, provider
  <2>2. IsAsked(e) /\ runs[e].status = asked[e].status
    BY <1>2 DEF SettleAccepted, Kept, SettledAsAsked, TypeOK
  <2>3. ReservationMade(e)' /\ Metered(e)' /\ AskedAsMetered(e)'
    BY <1>1, <2>1 DEF Kept, ReservationMade, Metered, AskedAsMetered, IsAsked
  <2>4. SettledAsAsked(e)' /\ Told(e)'
    BY <1>1, <2>1, <2>2 DEF Kept, SettledAsAsked, Told, IsAsked
  <2>. QED BY <2>3, <2>4 DEF Kept
<1>3. CASE SettleFails(e)
  <2>1. /\ pc[e] = "settling"
        /\ \/ pc'[e] = pc[e] /\ answer'[e] = answer[e]
           \/ pc'[e] = "done" /\ answer'[e] = "ai_accounting_failed"
        /\ UNCHANGED <<accounting, using>>
    BY <1>3 DEF SettleFails, End, TypeOK, provider
  <2>2. IsAsked(e)
    BY <2>1 DEF Kept, AskedAsMetered
  <2>3. ReservationMade(e)' /\ Metered(e)' /\ AskedAsMetered(e)'
    BY <1>1, <2>1, <2>2 DEF Kept, ReservationMade, Metered, AskedAsMetered, IsAsked
  <2>4. SettledAsAsked(e)' /\ Told(e)'
    BY <1>1, <2>1 DEF Kept, SettledAsAsked, Told, IsAsked
  <2>. QED BY <2>3, <2>4 DEF Kept
<1>4. CASE Crash(e)
  <2>1. /\ pc'[e] = "done" /\ answer'[e] = "crashed" /\ UNCHANGED settles
    BY <1>4 DEF Crash, End, TypeOK, calls
  <2>2. ReservationMade(e)' /\ Metered(e)' /\ AskedAsMetered(e)'
    BY <1>1, <2>1 DEF Kept, ReservationMade, Metered, AskedAsMetered, IsAsked
  <2>3. SettledAsAsked(e)' /\ Told(e)'
    BY <1>1, <2>1 DEF Kept, SettledAsAsked, Told, IsAsked
  <2>. QED BY <2>2, <2>3 DEF Kept
<1>. QED BY <1>2, <1>3, <1>4

LEMMA RowLockSteps ==
  ASSUME TypeOK, NEW e \in Executions, NEW d \in Executions, d # e,
         \A x \in Executions : ReservationMade(x),
         Orchestrate(e) \/ Serve(e) \/ Crash(e), rowLock' # rowLock
  PROVE  rowLock # d /\ rowLock' # d
<1>1. CheckBudget(e) \/ InsertRun(e) \/ AbortReserve(e)
  BY DEF Orchestrate, Serve, Crash, Settle, LoseSettle, ReadSettings, CallReserve, ReserveAnswered,
     ReserveUnanswered, Invoke, RefusePrepared, EndAttempt, SettleAccepted, SettleFails, database
<1>2. rowLock \in {Nobody, e} /\ rowLock' \in {Nobody, e}
  BY <1>1 DEF CheckBudget, CanLock, InsertRun, AbortReserve, ReservationMade
<1>. QED BY <1>2, Bounds

LEMMA KeptSteps ==
  ASSUME TypeOK, \A e \in Executions : Kept(e), [Next]_vars
  PROVE  \A e \in Executions : Kept(e)'
<1>1. CASE Midnight \/ UpdateSettings \/ UNCHANGED vars
  <2>1. \A d \in Executions : Stays(d)
    BY <1>1 DEF Midnight, UpdateSettings, vars, database, calls, process, provider, Stays
  <2>. QED BY <2>1, StaysKept
<1>2. ASSUME NEW e \in Executions, Orchestrate(e) \/ Serve(e) \/ Crash(e)
      PROVE  \A d \in Executions : Kept(d)'
  <2>1. Kept(e)'
    BY <1>2, ReservationSteps, InvokeStep, EndAttemptStep, RefusePreparedStep, SettleStep, EndSteps
    DEF Orchestrate, Serve
  <2>2. ASSUME NEW d \in Executions, d # e PROVE Kept(d)'
    <3>1. \A x \in Executions : ReservationMade(x)
      BY DEF Kept
    <3>2. Stays(d)
      BY <1>2, <2>2, <3>1, RowLockSteps, OthersStay
    <3>. QED BY <3>2, StaysKept
  <2>. QED BY <2>1, <2>2
<1>. QED BY <1>1, <1>2 DEF Next

-----------------------------------------------------------------------------
(* The budget. *)

Fits(day) ==
  /\ Cardinality(Counted(day)) + 1 <= settings.requestLimit
  /\ SumFunctionOnSet(Capped, Counted(day)) + ReservedTokens <= settings.tokenLimit

Budgets ==
  /\ \A e \in Executions : AdmittedFits(e)
  /\ \A day \in 0..LastDay : IsFiniteSet(Counted(day))
  /\ BudgetHeld

LEMMA WeightsType ==
  ASSUME TypeOK, NEW e \in Executions
  PROVE  /\ Weights[e] \in Nat /\ Capped[e] \in Nat
         /\ Capped[e] <= Weights[e] /\ Capped[e] <= ReservedTokens
<1>1. Weights[e] = Weight(runs[e]) /\ Weight(runs[e]) \in Nat
  BY TypeMeans, WeightType DEF Weights
<1>. QED BY <1>1, Bounds DEF Capped

LEMMA SettingsMean ==
  ASSUME TypeOK
  PROVE  settings.requestLimit \in Nat /\ settings.tokenLimit \in Nat
BY SettingsAssumption DEF TypeOK

\* Who reads the sums under the lock reads what is capped there, and perhaps more.
LEMMA WithinFits ==
  ASSUME TypeOK, NEW day, IsFiniteSet(Counted(day)), WithinBudget(day)
  PROVE  Fits(day)
<1>. DEFINE capped == SumFunctionOnSet(Capped, Counted(day))
            used == SumFunctionOnSet(Weights, Counted(day))
<1>1. \A x \in Counted(day) : x \in Executions
  BY DEF Counted
<1>2. \A x \in Counted(day) : /\ Capped[x] \in Nat /\ Weights[x] \in Nat
                              /\ Capped[x] <= Weights[x]
  BY <1>1, WeightsType
<1>3. capped <= used /\ capped \in Nat /\ used \in Nat
  BY <1>2, SumOfLess, SumType
<1>4. used + ReservedTokens <= settings.tokenLimit
      /\ Cardinality(Counted(day)) + 1 <= settings.requestLimit
  BY DEF WithinBudget, UsedTokens
<1>. HIDE DEF capped, used
<1>5. capped + ReservedTokens <= settings.tokenLimit
  BY <1>3, <1>4, SettingsMean, Bounds
<1>. QED BY <1>4, <1>5 DEF Fits, capped

\* No run changes.
LEMMA RunsStay ==
  ASSUME Budgets, runs' = runs,
         \A e \in Executions : reserve'[e].phase = "admitted" =>
            \/ AdmittedFits(e) /\ reserve'[e] = reserve[e] /\ settings' = settings
            \/ Fits(reserve[e].day) /\ reserve'[e].day = reserve[e].day /\ settings' = settings
  PROVE  Budgets'
<1>1. \A day : Counted(day)' = Counted(day) /\ OfDay(day)' = OfDay(day)
  BY DEF Counted, OfDay
<1>2. Weights' = Weights
  BY DEF Weights
<1>3. Capped' = Capped
  BY <1>2 DEF Capped
<1>4. BudgetHeld'
  BY <1>1, <1>3 DEF Budgets, BudgetHeld
<1>5. \A e \in Executions : AdmittedFits(e)'
  BY <1>1, <1>3 DEF AdmittedFits, Fits
<1>. QED BY <1>1, <1>4, <1>5 DEF Budgets

\* A day to which no run is added, and of which none weighs more.
LEMMA DayShrinks ==
  ASSUME TypeOK, TypeOK', NEW day, IsFiniteSet(Counted(day)),
         Counted(day)' \subseteq Counted(day),
         \A x \in Counted(day)' : Capped'[x] <= Capped[x]
  PROVE  /\ IsFiniteSet(Counted(day)')
         /\ Cardinality(Counted(day)') \in Nat /\ Cardinality(Counted(day)) \in Nat
         /\ Cardinality(Counted(day)') <= Cardinality(Counted(day))
         /\ SumFunctionOnSet(Capped', Counted(day)') \in Nat
         /\ SumFunctionOnSet(Capped, Counted(day)) \in Nat
         /\ SumFunctionOnSet(Capped', Counted(day)') <= SumFunctionOnSet(Capped, Counted(day))
<1>1. \A x \in Executions : Capped[x] \in Nat
  BY WeightsType
<1>2. \A x \in Executions : Capped'[x] \in Nat
  <2>1. ASSUME NEW x \in Executions PROVE Capped'[x] \in Nat
    <3>1. runs'[x] \in Run
      BY DEF TypeOK
    <3>2. Weights'[x] = Weight(runs'[x]) /\ Weight(runs'[x]) \in Nat
      BY <3>1, WeightType DEF Weights
    <3>. QED BY <3>2, Bounds DEF Capped
  <2>. QED BY <2>1
<1>3. Counted(day) \subseteq Executions /\ Counted(day)' \subseteq Executions
  BY DEF Counted
<1>4. IsFiniteSet(Counted(day)') /\ Cardinality(Counted(day)') <= Cardinality(Counted(day))
  BY FS_Subset
<1>5. Cardinality(Counted(day)') \in Nat /\ Cardinality(Counted(day)) \in Nat
  BY <1>4, FS_CardinalityType
<1>6. SumFunctionOnSet(Capped, Counted(day)) \in Nat
  BY <1>1, <1>3, SumType
<1>7. SumFunctionOnSet(Capped', Counted(day)') \in Nat
  BY <1>2, <1>3, <1>4, SumType
<1>8. SumFunctionOnSet(Capped', Counted(day)') <= SumFunctionOnSet(Capped, Counted(day))
  BY <1>1, <1>2, <1>3, SumOfLess
<1>. QED BY <1>4, <1>5, <1>6, <1>7, <1>8

\* Such a day keeps the budget, if its runs keep the limits they came with.
LEMMA DayHolds ==
  ASSUME TypeOK, TypeOK', Budgets, NEW day \in 0..LastDay,
         Counted(day)' \subseteq Counted(day),
         \A x \in Counted(day)' : Capped'[x] <= Capped[x],
         OfDay(day)' = OfDay(day), OfDay(day) # {},
         \A x \in OfDay(day) : /\ runs'[x].requestLimit = runs[x].requestLimit
                              /\ runs'[x].tokenLimit = runs[x].tokenLimit
  PROVE  /\ \E x \in OfDay(day)' :
                SumFunctionOnSet(Capped', Counted(day)') <= runs'[x].tokenLimit
         /\ \E x \in OfDay(day)' : Cardinality(Counted(day)') <= runs'[x].requestLimit
<1>1. PICK x \in OfDay(day) : SumFunctionOnSet(Capped, Counted(day)) <= runs[x].tokenLimit
  BY DEF Budgets, BudgetHeld
<1>2. PICK y \in OfDay(day) : Cardinality(Counted(day)) <= runs[y].requestLimit
  BY DEF Budgets, BudgetHeld
<1>3. runs[x] \in Run /\ runs[y] \in Run
  BY DEF OfDay, TypeOK
<1>4. runs[x].tokenLimit \in Nat /\ runs[y].requestLimit \in Nat
  BY <1>3 DEF Run
<1>5. IsFiniteSet(Counted(day))
  BY DEF Budgets
<1>6. SumFunctionOnSet(Capped', Counted(day)') <= runs'[x].tokenLimit
  BY <1>1, <1>4, <1>5, DayShrinks
<1>7. Cardinality(Counted(day)') <= runs'[y].requestLimit
  BY <1>2, <1>4, <1>5, DayShrinks
<1>. QED BY <1>6, <1>7

LEMMA InsertBudget ==
  ASSUME TypeOK, TypeOK', Budgets, \A x \in Executions : ReservationMade(x),
         NEW e \in Executions, InsertRun(e)
  PROVE  Budgets'
<1>0. PICK day : day = reserve[e].day
  OBVIOUS
<1>. DEFINE old == Counted(day)
<1>1. /\ reserve[e].phase = "admitted" /\ runs[e].status = "none"
      /\ reserve'[e].phase = "reserved"
      /\ runs'[e].status = "reserved" /\ runs'[e].usage_day = day
      /\ runs'[e].requestLimit = settings.requestLimit
      /\ runs'[e].tokenLimit = settings.tokenLimit
  BY <1>0 DEF InsertRun, TypeOK, ReservationMade
<1>2. \A x \in Executions \ {e} : runs'[x] = runs[x] /\ reserve'[x] = reserve[x]
  BY DEF InsertRun, TypeOK
<1>3. day \in 0..LastDay /\ IsFiniteSet(old) /\ Fits(day) /\ e \notin old
  <2>1. day \in 0..LastDay
    BY <1>0, TypeMeans
  <2>2. AdmittedFits(e) /\ IsFiniteSet(old)
    BY <2>1 DEF Budgets
  <2>3. Fits(day)
    BY <1>0, <1>1, <2>2 DEF AdmittedFits, Fits
  <2>4. e \notin old
    BY <1>1 DEF Counted
  <2>. QED BY <2>1, <2>2, <2>3, <2>4
<1>4. Counted(day)' = old \cup {e}
  BY <1>1, <1>2 DEF Counted
<1>5. \A other \in (0..LastDay) \ {day} :
         Counted(other)' = Counted(other) /\ OfDay(other)' = OfDay(other)
  BY <1>1, <1>2 DEF Counted, OfDay
<1>6. \A x \in Executions \ {e} : Weights'[x] = Weights[x] /\ Capped'[x] = Capped[x]
  BY <1>2 DEF Weights, Capped
<1>7. \A x \in Executions \ {e} : reserve[x].phase # "admitted"
  BY <1>1 DEF ReservationMade
<1>8. \A x \in Executions : AdmittedFits(x)'
  BY <1>1, <1>2, <1>7 DEF AdmittedFits
<1>9. \A d \in 0..LastDay : IsFiniteSet(Counted(d)')
  BY <1>3, <1>4, <1>5, FS_AddElement DEF Budgets
<1>10. Cardinality(old \cup {e}) <= settings.requestLimit
  BY <1>3, FS_AddElement DEF Fits
<1>11. SumFunctionOnSet(Capped', old \cup {e}) <= settings.tokenLimit
  <2>1. \A x \in old : /\ x \in Executions \ {e}
                       /\ Capped'[x] = Capped[x] /\ Capped[x] \in Nat
    BY <1>3, <1>6, WeightsType DEF Counted
  <2>2. Capped'[e] \in Nat /\ Capped'[e] <= ReservedTokens
    <3>1. Weights'[e] = ReservedTokens
      BY <1>1 DEF Weights, Weight
    <3>. QED BY <3>1, Bounds DEF Capped
  <2>. DEFINE before == SumFunctionOnSet(Capped, old)
              after == SumFunctionOnSet(Capped', old)
  <2>3. after <= before /\ before \in Nat /\ after \in Nat
    BY <1>3, <2>1, SumOfLess, SumType
  <2>4. SumFunctionOnSet(Capped', old \cup {e}) = after + Capped'[e]
    BY <1>3, <2>1, <2>2, SumOfMore
  <2>5. before + ReservedTokens <= settings.tokenLimit
    BY <1>3 DEF Fits
  <2>. HIDE DEF before, after
  <2>. QED BY <2>2, <2>3, <2>4, <2>5, SettingsMean, Bounds
<1>12. BudgetHeld'
  <2>. SUFFICES ASSUME NEW d \in 0..LastDay, OfDay(d)' # {}
                PROVE  /\ \E x \in OfDay(d)' :
                             SumFunctionOnSet(Capped', Counted(d)') <= runs'[x].tokenLimit
                       /\ \E x \in OfDay(d)' : Cardinality(Counted(d)') <= runs'[x].requestLimit
    BY DEF BudgetHeld
  <2>1. CASE d = day
    <3>1. e \in OfDay(d)'
      BY <1>1, <2>1 DEF OfDay
    <3>2. Counted(d)' = old \cup {e}
      BY <1>4, <2>1
    <3>. HIDE DEF old
    <3>. QED BY <1>1, <1>10, <1>11, <3>1, <3>2
  <2>2. CASE d # day
    <3>1. Counted(d)' = Counted(d) /\ OfDay(d)' = OfDay(d)
      BY <1>5, <2>2
    <3>2. \A x \in OfDay(d) : x \in Executions \ {e}
      BY <1>1 DEF OfDay
    <3>3. \A x \in Counted(d) : x \in Executions \ {e}
      BY <1>1 DEF Counted
    <3>4. \A x \in Counted(d) : Capped'[x] <= Capped[x]
      BY <1>6, <3>3, WeightsType
    <3>. QED BY <1>2, <3>1, <3>2, <3>4, DayHolds
  <2>. QED BY <2>1, <2>2
<1>. QED BY <1>8, <1>9, <1>12 DEF Budgets

LEMMA SettleBudget ==
  ASSUME TypeOK, TypeOK', Budgets, NEW e \in Executions, Kept(e), NEW n \in 1..2, Settle(e, n)
  PROVE  Budgets'
<1>1. UNCHANGED <<settings, reserve>>
  BY DEF Settle
<1>2. CASE runs' = runs
  BY <1>1, <1>2, RunsStay DEF Budgets
<1>3. CASE runs[e].status = "reserved" /\ runs' = [runs EXCEPT ![e] = Settled(runs[e], asked[e])]
  <2>1. /\ runs'[e].status # "none" /\ runs'[e].usage_day = runs[e].usage_day
        /\ runs'[e].requestLimit = runs[e].requestLimit
        /\ runs'[e].tokenLimit = runs[e].tokenLimit
    <3>1. runs'[e] = Settled(runs[e], asked[e]) /\ runs[e] \in Run
      BY <1>3, TypeMeans DEF TypeOK
    <3>2. asked[e].status # "none"
      BY TypeMeans DEF Settlement, Unsettled
    <3>. QED BY <3>1, <3>2 DEF Settled, Run
  <2>2. \A x \in Executions \ {e} : runs'[x] = runs[x]
    BY <1>3 DEF TypeOK
  <2>3. \A day : OfDay(day)' = OfDay(day)
    BY <1>3, <2>1, <2>2 DEF OfDay
  <2>4. \A day : Counted(day)' \subseteq Counted(day)
    BY <1>3, <2>1, <2>2 DEF Counted
  <2>5. \A x \in Executions : Capped'[x] <= Capped[x]
    <3>1. ASSUME NEW x \in Executions \ {e} PROVE Capped'[x] <= Capped[x]
      <4>1. Weights'[x] = Weights[x]
        BY <2>2 DEF Weights
      <4>2. Capped'[x] = Capped[x]
        BY <4>1 DEF Capped
      <4>. QED BY <4>2, WeightsType
    <3>2. Capped[e] = ReservedTokens
      <4>1. Weights[e] = ReservedTokens
        BY <1>3 DEF Weights, Weight
      <4>. QED BY <4>1, Bounds DEF Capped
    <3>3. Capped'[e] <= ReservedTokens
      <4>1. Weights'[e] = Weight(runs'[e]) /\ runs'[e] \in Run
        BY DEF Weights, TypeOK
      <4>2. Weights'[e] \in Nat
        BY <4>1, WeightType
      <4>. QED BY <4>2, Bounds DEF Capped
    <3>. QED BY <3>1, <3>2, <3>3
  <2>6. \A x \in Executions :
           /\ runs'[x].requestLimit = runs[x].requestLimit
           /\ runs'[x].tokenLimit = runs[x].tokenLimit
    BY <2>1, <2>2
  <2>7. \A day : Counted(day) \subseteq Executions /\ OfDay(day) \subseteq Executions
    BY DEF Counted, OfDay
  <2>8. ASSUME NEW x \in Executions PROVE AdmittedFits(x)'
    <3>1. PICK day : day = reserve[x].day
      OBVIOUS
    <3>2. day \in 0..LastDay
      BY <3>1, TypeMeans
    <3>3. /\ Cardinality(Counted(day)') \in Nat /\ Cardinality(Counted(day)) \in Nat
          /\ Cardinality(Counted(day)') <= Cardinality(Counted(day))
          /\ SumFunctionOnSet(Capped', Counted(day)') \in Nat
          /\ SumFunctionOnSet(Capped, Counted(day)) \in Nat
          /\ SumFunctionOnSet(Capped', Counted(day)') <= SumFunctionOnSet(Capped, Counted(day))
      BY <2>4, <2>5, <2>7, <3>2, DayShrinks DEF Budgets
    <3>4. ASSUME reserve[x].phase = "admitted" PROVE Fits(day)
      BY <3>1, <3>4 DEF Budgets, AdmittedFits, Fits
    <3>5. ASSUME reserve[x].phase = "admitted"
          PROVE  /\ Cardinality(Counted(day)') + 1 <= settings.requestLimit
                 /\ SumFunctionOnSet(Capped', Counted(day)') + ReservedTokens
                       <= settings.tokenLimit
      BY <3>3, <3>4, <3>5, SettingsMean, Bounds DEF Fits
    <3>. QED BY <1>1, <3>1, <3>5 DEF AdmittedFits
  <2>9. ASSUME NEW day \in 0..LastDay PROVE IsFiniteSet(Counted(day)')
    BY <2>4, FS_Subset DEF Budgets
  <2>10. BudgetHeld'
    <3>. SUFFICES ASSUME NEW d \in 0..LastDay, OfDay(d)' # {}
                  PROVE  /\ \E x \in OfDay(d)' :
                               SumFunctionOnSet(Capped', Counted(d)') <= runs'[x].tokenLimit
                         /\ \E x \in OfDay(d)' : Cardinality(Counted(d)') <= runs'[x].requestLimit
      BY DEF BudgetHeld
    <3>1. OfDay(d)' = OfDay(d) /\ Counted(d)' \subseteq Counted(d)
      BY <2>3, <2>4
    <3>2. \A x \in Counted(d)' : Capped'[x] <= Capped[x]
      BY <2>5, <2>7, <3>1
    <3>3. \A x \in OfDay(d) : /\ runs'[x].requestLimit = runs[x].requestLimit
                              /\ runs'[x].tokenLimit = runs[x].tokenLimit
      BY <2>6, <2>7
    <3>. QED BY <3>1, <3>2, <3>3, DayHolds
  <2>. QED BY <2>8, <2>9, <2>10 DEF Budgets
<1>. QED BY <1>2, <1>3 DEF Settle

LEMMA BudgetSteps ==
  ASSUME TypeOK, TypeOK', Budgets, \A e \in Executions : Kept(e), [Next]_vars
  PROVE  Budgets'
<1>1. \A e \in Executions : AdmittedFits(e) /\ ReservationMade(e)
  BY DEF Budgets, Kept
<1>2. CASE Midnight \/ UNCHANGED vars
  <2>1. UNCHANGED <<runs, reserve, settings>>
    BY <1>2 DEF Midnight, vars, database, calls
  <2>. QED BY <1>1, <2>1, RunsStay
<1>3. CASE UpdateSettings
  <2>1. rowLock = Nobody /\ UNCHANGED <<runs, reserve>>
    BY <1>3 DEF UpdateSettings, calls
  <2>2. \A e \in Executions : reserve'[e].phase # "admitted"
    BY <1>1, <2>1, Bounds DEF ReservationMade
  <2>. QED BY <2>1, <2>2, RunsStay
<1>4. ASSUME NEW e \in Executions, CheckBudget(e) PROVE Budgets'
  <2>1. runs' = runs /\ settings' = settings
    BY <1>4 DEF CheckBudget
  <2>2. /\ \A x \in Executions \ {e} : reserve'[x] = reserve[x]
        /\ reserve'[e].day = reserve[e].day
        /\ reserve'[e].phase = "admitted" => WithinBudget(reserve[e].day)
    BY <1>4 DEF CheckBudget, TypeOK
  <2>3. IsFiniteSet(Counted(reserve[e].day))
    BY TypeMeans DEF Budgets
  <2>4. reserve'[e].phase = "admitted" => Fits(reserve[e].day)
    BY <2>2, <2>3, WithinFits
  <2>. QED BY <1>1, <2>1, <2>2, <2>4, RunsStay
<1>5. ASSUME NEW e \in Executions, InsertRun(e) PROVE Budgets'
  BY <1>1, <1>5, InsertBudget
<1>6. ASSUME NEW e \in Executions, NEW n \in 1..2, Settle(e, n) PROVE Budgets'
  BY <1>6, SettleBudget
<1>7. ASSUME NEW e \in Executions,
             \/ AbortReserve(e) \/ Orchestrate(e) \/ Crash(e)
             \/ \E n \in 1..2 : LoseSettle(e, n)
      PROVE  Budgets'
  <2>1. UNCHANGED <<runs, settings>>
    BY <1>7 DEF AbortReserve, Orchestrate, Crash, LoseSettle, ReadSettings, CallReserve,
       ReserveAnswered, ReserveUnanswered, Invoke, RefusePrepared, EndAttempt, SettleAccepted,
       SettleFails, database
  <2>2. \A x \in Executions : reserve'[x] = reserve[x] \/ reserve'[x].phase # "admitted"
    BY <1>7 DEF AbortReserve, Orchestrate, Crash, LoseSettle, ReadSettings, CallReserve,
       ReserveAnswered, ReserveUnanswered, Invoke, RefusePrepared, EndAttempt, SettleAccepted,
       SettleFails, calls, TypeOK
  <2>. QED BY <1>1, <2>1, <2>2, RunsStay
<1>. QED BY <1>2, <1>3, <1>4, <1>5, <1>6, <1>7 DEF Next, Serve

-----------------------------------------------------------------------------
(* The theorems. *)

LEMMA InitHolds == Init => IInv
<1>. SUFFICES ASSUME Init PROVE IInv
  OBVIOUS
<1>1. Fresh \in Accounting /\ NoRun \in Run
  BY DEF Fresh, Accounting, NoRun, Run
<1>2. TypeOK
  BY <1>1, Bounds DEF Init, TypeOK
<1>3. ASSUME NEW e \in Executions PROVE Kept(e) /\ AdmittedFits(e)
  <2>1. ReservationMade(e) /\ Metered(e) /\ AdmittedFits(e)
    BY Bounds DEF Init, NoRun, ReservationMade, Metered, AdmittedFits
  <2>2. AskedAsMetered(e) /\ SettledAsAsked(e) /\ Told(e)
    BY DEF Init, NoRun, AskedAsMetered, SettledAsAsked, Told, IsAsked, Unsettled
  <2>. QED BY <2>1, <2>2 DEF Kept
<1>4. \A day : OfDay(day) = {} /\ Counted(day) = {}
  BY DEF Init, NoRun, OfDay, Counted
<1>5. BudgetHeld /\ \A day \in 0..LastDay : IsFiniteSet(Counted(day))
  BY <1>4, FS_EmptySet DEF BudgetHeld
<1>. QED BY <1>2, <1>3, <1>5 DEF IInv

\* IInv holds in every reachable state.
THEOREM Invariance == Spec => []IInv
<1>1. IInv /\ [Next]_vars => IInv'
  <2>. SUFFICES ASSUME IInv, [Next]_vars PROVE IInv'
    OBVIOUS
  <2>1. TypeOK /\ Budgets /\ \A e \in Executions : Kept(e)
    BY DEF IInv, Budgets
  <2>2. TypeOK'
    BY <2>1, Typing
  <2>3. \A e \in Executions : Kept(e)'
    BY <2>1, KeptSteps
  <2>4. Budgets'
    BY <2>1, <2>2, BudgetSteps
  <2>. QED BY <2>2, <2>3, <2>4 DEF IInv, Budgets
<1>. QED BY InitHolds, <1>1, PTL DEF Spec

\* Every variable keeps its type.
THEOREM TypeCorrect == Spec => []TypeOK
<1>1. IInv => TypeOK
  BY DEF IInv
<1>. QED BY Invariance, <1>1, PTL

\* What a provider consumed is held against the Business, whatever fails or dies.
THEOREM SpendIsHeld == Spec => []SpendIsCovered
<1>1. IInv => SpendIsCovered
  <2>. SUFFICES ASSUME IInv, NEW e \in Executions, spent[e] > 0
                PROVE  /\ runs[e].status # "none"
                       /\ e \notin lavish => Weight(runs[e]) >= spent[e]
    BY DEF SpendIsCovered
  <2>1. TypeOK /\ Kept(e)
    BY DEF IInv
  <2>2. /\ runs[e].status # "none"
        /\ e \notin lavish => spent[e] <= ReservedTokens
    BY <2>1 DEF Kept, ReservationMade, Metered
  <2>3. ASSUME e \notin lavish PROVE Weight(runs[e]) >= spent[e]
    <3>1. CASE runs[e].status = "reserved"
      BY <2>1, <2>2, <2>3, <3>1, Bounds, TypeMeans DEF Weight
    <3>2. CASE runs[e].status \notin {"none", "reserved"}
      <4>1. /\ runs[e].status = asked[e].status /\ runs[e].charged = Charge(asked[e])
            /\ IsAsked(e)
        BY <2>1, <3>2 DEF Kept, SettledAsAsked, IsAsked
      <4>2. /\ asked[e] \in Settlement /\ runs[e] \in Run
            /\ asked[e].status # "cancelled" /\ asked[e].complete => asked[e].tokens = spent[e]
            /\ asked[e].status # "cancelled"
        BY <2>1, <4>1, TypeMeans DEF Kept, AskedAsMetered, IsAsked, Unsettled
      <4>3. Charge(asked[e]) >= spent[e]
        BY <2>1, <2>2, <2>3, <4>2, Bounds, TypeMeans DEF Charge, Settlement
      <4>. QED BY <3>2, <4>1, <4>2, <4>3 DEF Weight, Run, Settlement
    <3>. QED BY <2>2, <3>1, <3>2
  <2>. QED BY <2>2, <2>3
<1>. QED BY Invariance, <1>1, PTL

\* Complete usage is charged as the provider metered it, and once.
THEOREM ExactUsage == Spec => []UsageIsExact
<1>1. IInv => UsageIsExact
  <2>. SUFFICES ASSUME IInv, NEW e \in Executions, runs[e].status \in {"succeeded", "failed"},
                       runs[e].settlement.complete
                PROVE  runs[e].charged = spent[e]
    BY DEF UsageIsExact
  <2>1. SettledAsAsked(e) /\ AskedAsMetered(e)
    BY DEF IInv, Kept
  <2>2. /\ runs[e].settlement = asked[e] /\ runs[e].status = asked[e].status
        /\ runs[e].charged = Charge(asked[e])
    BY <2>1 DEF SettledAsAsked
  <2>3. asked[e].complete /\ asked[e].tokens = spent[e] /\ asked[e].status # "cancelled"
    BY <2>1, <2>2 DEF AskedAsMetered, IsAsked
  <2>. QED BY <2>2, <2>3 DEF Charge
<1>. QED BY Invariance, <1>1, PTL

\* What the caller is told is what the ledger says.
THEOREM HonestAnswers == Spec => []AnswersAreHonest
<1>1. IInv => AnswersAreHonest
  <2>. SUFFICES ASSUME IInv, NEW e \in Executions
                PROVE  /\ answer[e] = "output" => runs[e].status = "succeeded"
                       /\ answer[e] = "execution_error" =>
                             runs[e].status \in {"failed", "cancelled"}
                       /\ answer[e] \in {"ai_disabled", "ai_budget_exceeded"} =>
                             runs[e].status = "none"
    BY DEF AnswersAreHonest
  <2>1. Told(e) /\ ReservationMade(e) /\ asked[e] \in Settlement \cup {Unsettled}
    BY TypeMeans DEF IInv, Kept
  <2>2. asked[e].status \in {"reserved", "succeeded", "failed", "cancelled"}
    BY <2>1 DEF Settlement, Unsettled
  <2>. QED BY <2>1, <2>2 DEF Told, ReservationMade, IsAsked
<1>. QED BY Invariance, <1>1, PTL

\* No day exceeds the limits its reservations were admitted under.
THEOREM BudgetIsHeld == Spec => []BudgetHeld
<1>1. IInv => BudgetHeld
  BY DEF IInv
<1>. QED BY Invariance, <1>1, PTL
=============================================================================
