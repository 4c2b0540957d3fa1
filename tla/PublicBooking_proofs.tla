-------------------------- MODULE PublicBooking_proofs --------------------------
(***************************************************************************)
(* For any number of calls, tokens, slots and request hashes, any capacity *)
(* and any limit of attempts: IInv is an inductive invariant of the public *)
(* booking transaction.                                                    *)
(***************************************************************************)
EXTENDS PublicBooking, FiniteSetTheorems, TLAPS

-----------------------------------------------------------------------------
(* The initial states satisfy the invariant. *)

LEMMA InitInvariant == Init => IInv
<1>. SUFFICES ASSUME Init PROVE IInv
  OBVIOUS
<1>1. Silent \in Reply
  BY DEF Silent, Reply
<1>2. TypeOK
  BY <1>1 DEF TypeOK, Init, Places
<1>3. HoldsWhatItRead
  BY DEF HoldsWhatItRead, Init, Counted, Counting
<1>4. /\ IsFiniteSet(bookings) /\ Cardinality({}) = 0
      /\ \A s \in Slots : BookingsOf(s) = {}
      /\ \A w \in Windows : BookingsIn(w) = {}
  BY FS_EmptySet DEF Init, BookingsOf, BookingsIn
<1>5. BookingsWereAsked
  BY <1>4 DEF BookingsWereAsked, Init
<1>6. SlotsAreHonest
  BY <1>4, LimitsAssumption DEF SlotsAreHonest, Init
<1>7. OneBookingPerToken
  BY DEF OneBookingPerToken, Init
<1>8. AnswersAreHonest
  BY DEF AnswersAreHonest, Init
<1>9. RateHeld
  BY <1>4, LimitsAssumption DEF RateHeld
<1>. QED
  BY <1>2, <1>3, <1>5, <1>6, <1>7, <1>8, <1>9 DEF IInv

-----------------------------------------------------------------------------
(* A call goes on: it may take locks nobody holds, and changes no table. *)

LEMMA MoveStep ==
  ASSUME IInv, NEW c \in Calls, NEW next \in Places \ {"idle", "answered"},
         pc[c] # "answered",
         pc' = [pc EXCEPT ![c] = next],
         request' \in [Calls -> Request \cup {NoRequest}],
         request'[c] \in Request,
         \A d \in Calls \ {c} : request'[d] = request[d],
         UNCHANGED <<tables, answer>>,
         attemptLock' \in [Windows -> Calls \cup {Nobody}],
         slotLock' \in [Slots -> Calls \cup {Nobody}],
         tokenLock' \in [Tokens -> Calls \cup {Nobody}],
         \A w \in Windows : attemptLock[w] # Nobody => attemptLock'[w] = attemptLock[w],
         \A s \in Slots : slotLock[s] # Nobody => slotLock'[s] = slotLock[s],
         \A t \in Tokens : tokenLock[t] # Nobody => tokenLock'[t] = tokenLock[t],
         LET r == request'[c]
         IN /\ next \in Counted =>
                attemptLock'[r.window] = c /\ attempts[r.window] < AttemptLimit
            /\ next \in Counting =>
                slotLock'[r.slot] = c /\ counters[r.slot] < Capacity
            /\ next = "commit" =>
                tokenLock'[r.token] = c /\ submissions[r.token] = Nobody
  PROVE  IInv'
<1>1. \A b \in bookings : b.call # c /\ b.call \in Calls
  BY DEF IInv, BookingsWereAsked, TypeOK, Booking
<1>2. /\ \A s \in Slots : BookingsOf(s)' = BookingsOf(s)
      /\ \A w \in Windows : BookingsIn(w)' = BookingsIn(w)
  BY <1>1 DEF BookingsOf, BookingsIn, tables
<1>3. pc \in [Calls -> Places] /\ pc' \in [Calls -> Places]
  BY DEF IInv, TypeOK
<1>4. \A d \in Calls \ {c} : pc'[d] = pc[d]
  BY <1>3
<1>5. pc'[c] = next
  BY <1>3
<1>6. TypeOK'
  BY <1>3 DEF IInv, TypeOK, tables
<1>7. HoldsWhatItRead'
  <2>1. ASSUME NEW d \in Calls \ {c},
               pc[d] \notin {"idle", "answered"} => request[d] \in Request
        PROVE  LET r == request'[d]
               IN /\ pc'[d] \notin {"idle", "answered"} => r \in Request
                  /\ pc'[d] \in Counted =>
                       attemptLock'[r.window] = d /\ attempts'[r.window] < AttemptLimit
                  /\ pc'[d] \in Counting =>
                       slotLock'[r.slot] = d /\ counters'[r.slot] < Capacity
                  /\ pc'[d] = "commit" =>
                       tokenLock'[r.token] = d /\ submissions'[r.token] = Nobody
    <3>1. d # Nobody
      BY NobodyAssumption
    <3>2. request[d] \in Request =>
            /\ request[d].window \in Windows /\ request[d].slot \in Slots
            /\ request[d].token \in Tokens
      BY DEF Request
    <3>. QED
      BY <1>4, <2>1, <3>1, <3>2 DEF IInv, HoldsWhatItRead, Counted, Counting, tables
  <2>2. \A d \in Calls : pc[d] \notin {"idle", "answered"} => request[d] \in Request
    BY DEF IInv, HoldsWhatItRead
  <2>3. LET r == request'[c]
        IN /\ pc'[c] \notin {"idle", "answered"} => r \in Request
           /\ pc'[c] \in Counted =>
                attemptLock'[r.window] = c /\ attempts'[r.window] < AttemptLimit
           /\ pc'[c] \in Counting =>
                slotLock'[r.slot] = c /\ counters'[r.slot] < Capacity
           /\ pc'[c] = "commit" =>
                tokenLock'[r.token] = c /\ submissions'[r.token] = Nobody
    BY <1>5 DEF tables
  <2>. QED BY <2>1, <2>2, <2>3 DEF HoldsWhatItRead
<1>8. BookingsWereAsked'
  BY <1>1, <1>2, <1>4 DEF IInv, BookingsWereAsked, tables
<1>9. SlotsAreHonest' /\ OneBookingPerToken' /\ RateHeld'
  BY <1>2 DEF IInv, SlotsAreHonest, OneBookingPerToken, RateHeld, tables
<1>10. AnswersAreHonest'
  BY <1>4, <1>5 DEF IInv, AnswersAreHonest, tables
<1>. QED
  BY <1>6, <1>7, <1>8, <1>9, <1>10 DEF IInv

-----------------------------------------------------------------------------
(* A call ends without a booking: it gives its locks back, and may leave its *)
(* attempt counted. *)

LEMMA LeaveStep ==
  ASSUME IInv, NEW c \in Calls, NEW reply \in Reply,
         pc[c] # "answered",
         pc' = [pc EXCEPT ![c] = "answered"],
         answer' = [answer EXCEPT ![c] = reply],
         request' \in [Calls -> Request \cup {NoRequest}],
         \A d \in Calls \ {c} : request'[d] = request[d],
         reply.code = "ok" => submissions[request'[c].token] # Nobody,
         UNCHANGED <<submissions, counters, bookings>>,
         attempts' \in [Windows -> Nat],
         \A w \in Windows :
            \/ attempts'[w] = attempts[w]
            \/ attempts'[w] > attempts[w] /\ attemptLock[w] \in {c, Nobody},
         attemptLock' \in [Windows -> Calls \cup {Nobody}],
         slotLock' \in [Slots -> Calls \cup {Nobody}],
         tokenLock' \in [Tokens -> Calls \cup {Nobody}],
         \A w \in Windows : attemptLock[w] # c => attemptLock'[w] = attemptLock[w],
         \A s \in Slots : slotLock[s] # c => slotLock'[s] = slotLock[s],
         \A t \in Tokens : tokenLock[t] # c => tokenLock'[t] = tokenLock[t]
  PROVE  IInv'
<1>1. \A b \in bookings : b.call # c /\ b.call \in Calls
  BY DEF IInv, BookingsWereAsked, TypeOK, Booking
<1>2. /\ \A s \in Slots : BookingsOf(s)' = BookingsOf(s)
      /\ \A w \in Windows : BookingsIn(w)' = BookingsIn(w)
  BY <1>1 DEF BookingsOf, BookingsIn
<1>3. /\ pc \in [Calls -> Places] /\ pc' \in [Calls -> Places]
      /\ answer \in [Calls -> Reply] /\ answer' \in [Calls -> Reply]
  BY DEF IInv, TypeOK, Places
<1>4. \A d \in Calls \ {c} : pc'[d] = pc[d] /\ answer'[d] = answer[d]
  BY <1>3
<1>5. pc'[c] = "answered" /\ answer'[c] = reply
  BY <1>3
<1>6. TypeOK'
  BY <1>3 DEF IInv, TypeOK
<1>7. HoldsWhatItRead'
  <2>1. ASSUME NEW d \in Calls \ {c},
               pc[d] \notin {"idle", "answered"} => request[d] \in Request
        PROVE  LET r == request'[d]
               IN /\ pc'[d] \notin {"idle", "answered"} => r \in Request
                  /\ pc'[d] \in Counted =>
                       attemptLock'[r.window] = d /\ attempts'[r.window] < AttemptLimit
                  /\ pc'[d] \in Counting =>
                       slotLock'[r.slot] = d /\ counters'[r.slot] < Capacity
                  /\ pc'[d] = "commit" =>
                       tokenLock'[r.token] = d /\ submissions'[r.token] = Nobody
    <3>1. d # Nobody
      BY NobodyAssumption
    <3>2. request[d] \in Request =>
            /\ request[d].window \in Windows /\ request[d].slot \in Slots
            /\ request[d].token \in Tokens
      BY DEF Request
    <3>3. pc[d] \in Counted => attempts'[request[d].window] = attempts[request[d].window]
      BY <2>1, <3>1, <3>2 DEF IInv, HoldsWhatItRead, Counted
    <3>. QED
      BY <1>4, <2>1, <3>1, <3>2, <3>3 DEF IInv, HoldsWhatItRead, Counted, Counting
  <2>2. \A d \in Calls : pc[d] \notin {"idle", "answered"} => request[d] \in Request
    BY DEF IInv, HoldsWhatItRead
  <2>. QED BY <1>5, <2>1, <2>2 DEF HoldsWhatItRead, Counted, Counting
<1>8. BookingsWereAsked'
  <2>1. IsFiniteSet(bookings) /\ attempts \in [Windows -> Nat]
    BY DEF IInv, BookingsWereAsked, TypeOK
  <2>2. ASSUME NEW w \in Windows
        PROVE  Cardinality(BookingsIn(w)') <= attempts'[w]
    <3>1. BookingsIn(w) \in SUBSET bookings
      BY DEF BookingsIn
    <3>2. Cardinality(BookingsIn(w)) \in Nat
      BY <2>1, <3>1, FS_Subset, FS_CardinalityType
    <3>3. Cardinality(BookingsIn(w)) <= attempts[w]
      BY DEF IInv, BookingsWereAsked
    <3>4. attempts[w] <= attempts'[w] /\ attempts[w] \in Nat /\ attempts'[w] \in Nat
      BY <2>1
    <3>. QED BY <1>2, <3>2, <3>3, <3>4
  <2>3. \A b \in bookings :
           /\ pc'[b.call] = "answered" /\ answer'[b.call].code = "ok"
           /\ request'[b.call] \in Request
           /\ b.token = request'[b.call].token /\ b.slot = request'[b.call].slot
    BY <1>1, <1>4 DEF IInv, BookingsWereAsked
  <2>. QED BY <2>1, <2>2, <2>3 DEF BookingsWereAsked
<1>9. SlotsAreHonest' /\ OneBookingPerToken' /\ RateHeld'
  BY <1>2 DEF IInv, SlotsAreHonest, OneBookingPerToken, RateHeld
<1>10. AnswersAreHonest'
  BY <1>1, <1>4, <1>5 DEF IInv, AnswersAreHonest
<1>. QED
  BY <1>6, <1>7, <1>8, <1>9, <1>10 DEF IInv

-----------------------------------------------------------------------------
(* A call commits its booking. *)

LEMMA CommitStep ==
  ASSUME IInv, NEW c \in Calls, Commit(c)
  PROVE  IInv'
<1>. DEFINE r == request[c]
            b == [call |-> c, token |-> r.token, slot |-> r.slot]
<1>1. /\ pc \in [Calls -> Places] /\ answer \in [Calls -> Reply]
      /\ submissions \in [Tokens -> Calls \cup {Nobody}]
      /\ counters \in [Slots -> Nat] /\ attempts \in [Windows -> Nat]
      /\ attemptLock \in [Windows -> Calls \cup {Nobody}]
      /\ slotLock \in [Slots -> Calls \cup {Nobody}]
      /\ tokenLock \in [Tokens -> Calls \cup {Nobody}]
      /\ bookings \subseteq Booking /\ IsFiniteSet(bookings)
  BY DEF IInv, TypeOK, BookingsWereAsked
<1>2. pc[c] = "commit"
  BY DEF Commit
<1>3. /\ r \in Request
      /\ r.token \in Tokens /\ r.slot \in Slots /\ r.window \in Windows
  BY <1>2 DEF IInv, HoldsWhatItRead, Request
<1>4. /\ attemptLock[r.window] = c /\ attempts[r.window] < AttemptLimit
      /\ slotLock[r.slot] = c /\ counters[r.slot] < Capacity
      /\ tokenLock[r.token] = c /\ submissions[r.token] = Nobody
  BY <1>2 DEF IInv, HoldsWhatItRead, Counted, Counting
<1>5. /\ submissions' = [submissions EXCEPT ![r.token] = c]
      /\ counters' = [counters EXCEPT ![r.slot] = @ + 1]
      /\ attempts' = [attempts EXCEPT ![r.window] = @ + 1]
      /\ bookings' = bookings \cup {b}
      /\ pc' = [pc EXCEPT ![c] = "answered"]
      /\ answer' = [answer EXCEPT ![c] = Confirmed(c)]
      /\ request' = request
  BY DEF Commit, Answer
<1>6. /\ attemptLock' = [w \in Windows |-> IF attemptLock[w] = c THEN Nobody ELSE attemptLock[w]]
      /\ slotLock' = [s \in Slots |-> IF slotLock[s] = c THEN Nobody ELSE slotLock[s]]
      /\ tokenLock' = [t \in Tokens |-> IF tokenLock[t] = c THEN Nobody ELSE tokenLock[t]]
  BY DEF Commit, Release
<1>7. b \in Booking /\ b.call = c /\ b.token = r.token /\ b.slot = r.slot
  BY <1>3 DEF Booking
<1>. HIDE DEF b, r
<1>8. \A x \in bookings : x.call # c /\ x.call \in Calls
  BY <1>1, <1>2 DEF IInv, BookingsWereAsked, Booking
<1>9. b \notin bookings
  BY <1>7, <1>8
<1>10. Confirmed(c) \in Reply /\ Confirmed(c).code = "ok"
  BY DEF Confirmed, Reply, References
<1>11. \A d \in Calls \ {c} : pc'[d] = pc[d] /\ answer'[d] = answer[d]
  BY <1>1, <1>5
<1>12. pc'[c] = "answered" /\ answer'[c].code = "ok"
  BY <1>1, <1>5, <1>10
<1>13. \A s \in Slots : BookingsOf(s)' = IF s = r.slot THEN BookingsOf(s) \cup {b} ELSE BookingsOf(s)
  BY <1>5, <1>7 DEF BookingsOf
<1>14. \A w \in Windows : BookingsIn(w)' = IF w = r.window THEN BookingsIn(w) \cup {b} ELSE BookingsIn(w)
  BY <1>5, <1>7 DEF BookingsIn, r
<1>15. /\ \A s \in Slots : IsFiniteSet(BookingsOf(s)) /\ b \notin BookingsOf(s)
       /\ \A w \in Windows : IsFiniteSet(BookingsIn(w)) /\ b \notin BookingsIn(w)
  BY <1>1, <1>9, FS_Subset DEF BookingsOf, BookingsIn
<1>16. \A S : IsFiniteSet(S) /\ b \notin S => Cardinality(S \cup {b}) = Cardinality(S) + 1
  BY FS_AddElement
<1>17. TypeOK'
  <2>1. bookings' \subseteq Booking
    BY <1>1, <1>5, <1>7
  <2>2. pc' \in [Calls -> Places] /\ answer' \in [Calls -> Reply]
    BY <1>1, <1>5, <1>10 DEF Places
  <2>3. /\ submissions' \in [Tokens -> Calls \cup {Nobody}]
        /\ counters' \in [Slots -> Nat] /\ attempts' \in [Windows -> Nat]
    BY <1>1, <1>3, <1>5
  <2>4. /\ attemptLock' \in [Windows -> Calls \cup {Nobody}]
        /\ slotLock' \in [Slots -> Calls \cup {Nobody}]
        /\ tokenLock' \in [Tokens -> Calls \cup {Nobody}]
    BY <1>1, <1>6
  <2>. QED BY <1>5, <2>1, <2>2, <2>3, <2>4 DEF IInv, TypeOK
<1>18. HoldsWhatItRead'
  <2>1. ASSUME NEW d \in Calls \ {c},
               pc[d] \notin {"idle", "answered"} => request[d] \in Request
        PROVE  LET q == request'[d]
               IN /\ pc'[d] \notin {"idle", "answered"} => q \in Request
                  /\ pc'[d] \in Counted =>
                       attemptLock'[q.window] = d /\ attempts'[q.window] < AttemptLimit
                  /\ pc'[d] \in Counting =>
                       slotLock'[q.slot] = d /\ counters'[q.slot] < Capacity
                  /\ pc'[d] = "commit" =>
                       tokenLock'[q.token] = d /\ submissions'[q.token] = Nobody
    <3>1. request[d] \in Request =>
            /\ request[d].window \in Windows /\ request[d].slot \in Slots
            /\ request[d].token \in Tokens
      BY DEF Request
    <3>2. /\ pc[d] \in Counted =>
               /\ attemptLock[request[d].window] = d
               /\ attempts[request[d].window] < AttemptLimit
          /\ pc[d] \in Counting =>
               slotLock[request[d].slot] = d /\ counters[request[d].slot] < Capacity
          /\ pc[d] = "commit" =>
               /\ tokenLock[request[d].token] = d
               /\ submissions[request[d].token] = Nobody
      BY DEF IInv, HoldsWhatItRead
    <3>3. pc[d] \in Counted => attempts'[request[d].window] = attempts[request[d].window]
      BY <1>1, <1>3, <1>4, <1>5, <2>1, <3>1, <3>2 DEF Counted
    <3>4. pc[d] \in Counting => counters'[request[d].slot] = counters[request[d].slot]
      BY <1>1, <1>3, <1>4, <1>5, <2>1, <3>1, <3>2 DEF Counting
    <3>5. pc[d] = "commit" => submissions'[request[d].token] = submissions[request[d].token]
      BY <1>1, <1>3, <1>4, <1>5, <2>1, <3>1, <3>2
    <3>. QED
      BY <1>5, <1>6, <1>11, <2>1, <3>1, <3>2, <3>3, <3>4, <3>5 DEF Counted, Counting
  <2>2. \A d \in Calls : pc[d] \notin {"idle", "answered"} => request[d] \in Request
    BY DEF IInv, HoldsWhatItRead
  <2>. QED BY <1>12, <2>1, <2>2 DEF HoldsWhatItRead, Counted, Counting
<1>19. BookingsWereAsked'
  <2>1. IsFiniteSet(bookings')
    BY <1>1, <1>5, FS_AddElement
  <2>2. \A x \in bookings' :
           /\ pc'[x.call] = "answered" /\ answer'[x.call].code = "ok"
           /\ request'[x.call] \in Request
           /\ x.token = request'[x.call].token /\ x.slot = request'[x.call].slot
    BY <1>3, <1>5, <1>7, <1>8, <1>11, <1>12 DEF IInv, BookingsWereAsked, r
  <2>3. ASSUME NEW w \in Windows
        PROVE  Cardinality(BookingsIn(w)') <= attempts'[w]
    <3>1. Cardinality(BookingsIn(w)) \in Nat
      BY <1>15, FS_CardinalityType
    <3>2. Cardinality(BookingsIn(w)) <= attempts[w]
      BY DEF IInv, BookingsWereAsked
    <3>3. attempts'[w] = IF w = r.window THEN attempts[w] + 1 ELSE attempts[w]
      BY <1>1, <1>5
    <3>4. Cardinality(BookingsIn(w)') =
            IF w = r.window THEN Cardinality(BookingsIn(w)) + 1 ELSE Cardinality(BookingsIn(w))
      BY <1>14, <1>15, <1>16
    <3>. QED BY <1>1, <3>1, <3>2, <3>3, <3>4
  <2>. QED BY <2>1, <2>2, <2>3 DEF BookingsWereAsked
<1>20. SlotsAreHonest'
  <2>1. ASSUME NEW s \in Slots
        PROVE  counters'[s] = Cardinality(BookingsOf(s)') /\ counters'[s] <= Capacity
    <3>1. counters[s] = Cardinality(BookingsOf(s)) /\ counters[s] <= Capacity
      BY DEF IInv, SlotsAreHonest
    <3>2. counters'[s] = IF s = r.slot THEN counters[s] + 1 ELSE counters[s]
      BY <1>1, <1>5
    <3>3. Cardinality(BookingsOf(s)') =
            IF s = r.slot THEN Cardinality(BookingsOf(s)) + 1 ELSE Cardinality(BookingsOf(s))
      BY <1>13, <1>15, <1>16
    <3>. QED BY <1>1, <1>4, <3>1, <3>2, <3>3, LimitsAssumption
  <2>. QED BY <2>1 DEF SlotsAreHonest
<1>21. OneBookingPerToken'
  <2>1. ASSUME NEW t \in Tokens
        PROVE  {x.call : x \in {y \in bookings' : y.token = t}} = {submissions'[t]} \ {Nobody}
    <3>1. {x.call : x \in {y \in bookings : y.token = t}} = {submissions[t]} \ {Nobody}
      BY DEF IInv, OneBookingPerToken
    <3>2. CASE t = r.token
      <4>1. {x.call : x \in {y \in bookings : y.token = t}} = {}
        BY <1>4, <3>1, <3>2
      <4>2. {x.call : x \in {y \in bookings' : y.token = t}} = {c}
        BY <1>5, <1>7, <3>2, <4>1
      <4>3. submissions'[t] = c /\ c # Nobody
        BY <1>1, <1>5, <3>2, NobodyAssumption
      <4>. QED BY <4>2, <4>3
    <3>3. CASE t # r.token
      <4>1. {y \in bookings' : y.token = t} = {y \in bookings : y.token = t}
        BY <1>5, <1>7, <3>3
      <4>2. submissions'[t] = submissions[t]
        BY <1>1, <1>5, <3>3
      <4>. QED BY <3>1, <4>1, <4>2
    <3>. QED BY <3>2, <3>3
  <2>. QED BY <2>1 DEF OneBookingPerToken
<1>22. AnswersAreHonest'
  <2>1. ASSUME NEW d \in Calls \ {c}, pc'[d] = "answered"
        PROVE  /\ answer'[d].code = "ok" => submissions'[request'[d].token] # Nobody
               /\ answer'[d].code # "ok" => \A x \in bookings' : x.call # d
    <3>1. /\ answer[d].code = "ok" => submissions[request[d].token] # Nobody
          /\ answer[d].code # "ok" => \A x \in bookings : x.call # d
      BY <1>11, <2>1 DEF IInv, AnswersAreHonest
    <3>2. answer[d].code = "ok" => submissions'[request[d].token] # Nobody
      BY <1>1, <1>3, <1>5, <3>1, NobodyAssumption
    <3>. QED BY <1>5, <1>7, <1>11, <3>1, <3>2
  <2>2. submissions'[request'[c].token] # Nobody
    BY <1>1, <1>3, <1>5, NobodyAssumption DEF r
  <2>. QED BY <1>12, <2>1, <2>2 DEF AnswersAreHonest
<1>23. RateHeld'
  <2>1. ASSUME NEW w \in Windows
        PROVE  Cardinality(BookingsIn(w)') <= AttemptLimit
    <3>1. Cardinality(BookingsIn(w)) \in Nat
      BY <1>15, FS_CardinalityType
    <3>2. Cardinality(BookingsIn(w)) <= attempts[w] /\ Cardinality(BookingsIn(w)) <= AttemptLimit
      BY DEF IInv, BookingsWereAsked, RateHeld
    <3>3. Cardinality(BookingsIn(w)') =
            IF w = r.window THEN Cardinality(BookingsIn(w)) + 1 ELSE Cardinality(BookingsIn(w))
      BY <1>14, <1>15, <1>16
    <3>. QED BY <1>1, <1>3, <1>4, <3>1, <3>2, <3>3, LimitsAssumption
  <2>. QED BY <2>1 DEF RateHeld
<1>. QED
  BY <1>17, <1>18, <1>19, <1>20, <1>21, <1>22, <1>23 DEF IInv

-----------------------------------------------------------------------------
(* What Release and the ends of a transaction do to the invariant. *)

LEMMA ReleaseIs ==
  ASSUME IInv, NEW c \in Calls, Release(c)
  PROVE  /\ attemptLock' \in [Windows -> Calls \cup {Nobody}]
         /\ slotLock' \in [Slots -> Calls \cup {Nobody}]
         /\ tokenLock' \in [Tokens -> Calls \cup {Nobody}]
         /\ \A w \in Windows : attemptLock[w] # c => attemptLock'[w] = attemptLock[w]
         /\ \A s \in Slots : slotLock[s] # c => slotLock'[s] = slotLock[s]
         /\ \A t \in Tokens : tokenLock[t] # c => tokenLock'[t] = tokenLock[t]
BY DEF IInv, TypeOK, Release

LEMMA RequestIs ==
  ASSUME IInv, NEW c \in Calls, pc[c] \notin {"idle", "answered"}
  PROVE  /\ request[c] \in Request
         /\ request[c].token \in Tokens /\ request[c].slot \in Slots
         /\ request[c].window \in Windows
BY DEF IInv, HoldsWhatItRead, Request

LEMMA ReplyIs ==
  /\ \A code \in Refusals : Refused(code) \in Reply /\ Refused(code).code # "ok"
  /\ Silent \in Reply /\ Silent.code # "ok"
  /\ \A d \in Calls : Replayed(d) \in Reply
BY DEF Refused, Silent, Replayed, Reply, Refusals, References

LEMMA RefusalStep ==
  ASSUME IInv, NEW c \in Calls, NEW code \in Refusals, ReturnRefusal(c, code),
         pc[c] \notin {"idle", "answered"},
         attemptLock[request[c].window] \in {c, Nobody}
  PROVE  IInv'
<1>1. attempts \in [Windows -> Nat] /\ request \in [Calls -> Request \cup {NoRequest}]
  BY DEF IInv, TypeOK
<1>2. attempts' = [attempts EXCEPT ![request[c].window] = @ + 1]
  BY DEF ReturnRefusal
<1>3. attempts' \in [Windows -> Nat]
  BY <1>1, <1>2, RequestIs
<1>4. \A w \in Windows : \/ attempts'[w] = attempts[w]
                         \/ attempts'[w] > attempts[w] /\ attemptLock[w] \in {c, Nobody}
  BY <1>1, <1>2, RequestIs
<1>. QED
  BY <1>1, <1>3, <1>4, ReleaseIs, ReplyIs, LeaveStep DEF ReturnRefusal, Answer

LEMMA RescueStep ==
  ASSUME IInv, NEW c \in Calls, NEW reply \in Reply, Rescue(c, reply),
         pc[c] # "answered",
         reply.code = "ok" => submissions[request[c].token] # Nobody
  PROVE  IInv'
<1>1. attempts \in [Windows -> Nat] /\ request \in [Calls -> Request \cup {NoRequest}]
  BY DEF IInv, TypeOK
<1>. QED
  BY <1>1, ReleaseIs, LeaveStep DEF Rescue, Answer, tables

-----------------------------------------------------------------------------
(* The actions. *)

LEMMA CallKeeps ==
  ASSUME IInv, NEW c \in Calls, Call(c)
  PROVE  IInv'
<1>1. /\ request \in [Calls -> Request \cup {NoRequest}] /\ attempts \in [Windows -> Nat]
      /\ attemptLock \in [Windows -> Calls \cup {Nobody}]
      /\ slotLock \in [Slots -> Calls \cup {Nobody}]
      /\ tokenLock \in [Tokens -> Calls \cup {Nobody}]
  BY DEF IInv, TypeOK
<1>2. PICK r \in Request : request' = [request EXCEPT ![c] = r]
  BY DEF Call
<1>3. /\ request' \in [Calls -> Request \cup {NoRequest}] /\ request'[c] \in Request
      /\ \A d \in Calls \ {c} : request'[d] = request[d]
  BY <1>1, <1>2
<1>4. pc[c] = "idle" /\ UNCHANGED <<tables, locks>>
  BY DEF Call
<1>5. CASE pc' = [pc EXCEPT ![c] = "lookup"] /\ UNCHANGED answer
  BY <1>1, <1>3, <1>4, <1>5, MoveStep DEF Places, Counted, Counting, locks
<1>6. CASE Answer(c, Refused("invalid"))
  <2>1. Refused("invalid") \in Reply /\ Refused("invalid").code # "ok"
    BY ReplyIs DEF Refusals
  <2>. QED
    BY <1>1, <1>3, <1>4, <1>6, <2>1, LeaveStep DEF Answer, tables, locks
<1>. QED BY <1>5, <1>6 DEF Call

LEMMA FindSubmissionKeeps ==
  ASSUME IInv, NEW c \in Calls, FindSubmission(c)
  PROVE  IInv'
<1>1. /\ request \in [Calls -> Request \cup {NoRequest}] /\ attempts \in [Windows -> Nat]
      /\ attemptLock \in [Windows -> Calls \cup {Nobody}]
      /\ slotLock \in [Slots -> Calls \cup {Nobody}]
      /\ tokenLock \in [Tokens -> Calls \cup {Nobody}]
      /\ submissions \in [Tokens -> Calls \cup {Nobody}]
  BY DEF IInv, TypeOK
<1>2. pc[c] = "lookup" /\ UNCHANGED <<tables, locks, request>>
  BY DEF FindSubmission
<1>3. request[c] \in Request /\ request[c].token \in Tokens
  BY <1>2, RequestIs
<1>4. CASE submissions[request[c].token] # Nobody
           /\ Answer(c, Replayed(submissions[request[c].token]))
  <2>1. submissions[request[c].token] \in Calls
    BY <1>1, <1>3, <1>4
  <2>2. Replayed(submissions[request[c].token]) \in Reply
    BY <2>1, ReplyIs
  <2>. QED
    BY <1>1, <1>2, <1>4, <2>2, LeaveStep DEF Answer, tables, locks
<1>5. CASE pc' = [pc EXCEPT ![c] = "limit"] /\ UNCHANGED answer
  BY <1>1, <1>2, <1>3, <1>5, MoveStep DEF Places, Counted, Counting, locks
<1>. QED BY <1>4, <1>5 DEF FindSubmission

LEMMA CountAttemptKeeps ==
  ASSUME IInv, NEW c \in Calls, CountAttempt(c)
  PROVE  IInv'
<1>. DEFINE w == request[c].window
<1>1. /\ request \in [Calls -> Request \cup {NoRequest}] /\ attempts \in [Windows -> Nat]
      /\ attemptLock \in [Windows -> Calls \cup {Nobody}]
      /\ slotLock \in [Slots -> Calls \cup {Nobody}]
      /\ tokenLock \in [Tokens -> Calls \cup {Nobody}]
  BY DEF IInv, TypeOK
<1>2. pc[c] = "limit" /\ attemptLock[w] = Nobody
  BY DEF CountAttempt
<1>3. request[c] \in Request /\ w \in Windows
  BY <1>2, RequestIs
<1>4. CASE attempts[w] + 1 > AttemptLimit
  <2>1. ReturnRefusal(c, "rate_limited") /\ "rate_limited" \in Refusals
    BY <1>4 DEF CountAttempt, Refusals
  <2>. QED BY <1>2, <2>1, RefusalStep
<1>5. CASE ~(attempts[w] + 1 > AttemptLimit)
  <2>1. /\ attemptLock' = [attemptLock EXCEPT ![w] = c]
        /\ pc' = [pc EXCEPT ![c] = "check"]
        /\ UNCHANGED <<tables, slotLock, tokenLock, request, answer>>
    BY <1>5 DEF CountAttempt
  <2>2. attempts[w] < AttemptLimit
    BY <1>1, <1>3, <1>5, LimitsAssumption
  <2>3. /\ attemptLock' \in [Windows -> Calls \cup {Nobody}] /\ attemptLock'[w] = c
        /\ \A v \in Windows : attemptLock[v] # Nobody => attemptLock'[v] = attemptLock[v]
    BY <1>1, <1>2, <1>3, <2>1
  <2>. QED
    BY <1>1, <1>2, <1>3, <2>1, <2>2, <2>3, MoveStep DEF Places, Counted, Counting
<1>. QED BY <1>4, <1>5

LEMMA CheckSubmissionKeeps ==
  ASSUME IInv, NEW c \in Calls, CheckSubmission(c)
  PROVE  IInv'
<1>1. /\ request \in [Calls -> Request \cup {NoRequest}]
      /\ attemptLock \in [Windows -> Calls \cup {Nobody}]
      /\ slotLock \in [Slots -> Calls \cup {Nobody}]
      /\ tokenLock \in [Tokens -> Calls \cup {Nobody}]
  BY DEF IInv, TypeOK
<1>2. pc[c] = "check"
  BY DEF CheckSubmission
<1>3. /\ request[c] \in Request
      /\ attemptLock[request[c].window] = c /\ attempts[request[c].window] < AttemptLimit
  BY <1>2, RequestIs DEF IInv, HoldsWhatItRead, Counted
<1>4. CASE pc' = [pc EXCEPT ![c] = "count"] /\ UNCHANGED <<tables, locks, request, answer>>
  BY <1>1, <1>2, <1>3, <1>4, MoveStep DEF Places, Counted, Counting, locks
<1>5. CASE ReturnRefusal(c, "invalid")
  BY <1>2, <1>3, <1>5, RefusalStep DEF Refusals
<1>6. CASE Rescue(c, Refused("rejected"))
  BY <1>2, <1>6, ReplyIs, RescueStep DEF Refusals
<1>. QED BY <1>4, <1>5, <1>6 DEF CheckSubmission

LEMMA CountSlotKeeps ==
  ASSUME IInv, NEW c \in Calls, CountSlot(c)
  PROVE  IInv'
<1>. DEFINE s == request[c].slot
<1>1. /\ request \in [Calls -> Request \cup {NoRequest}] /\ counters \in [Slots -> Nat]
      /\ attemptLock \in [Windows -> Calls \cup {Nobody}]
      /\ slotLock \in [Slots -> Calls \cup {Nobody}]
      /\ tokenLock \in [Tokens -> Calls \cup {Nobody}]
  BY DEF IInv, TypeOK
<1>2. pc[c] = "count" /\ slotLock[s] = Nobody
  BY DEF CountSlot, SlotFree
<1>3. /\ request[c] \in Request /\ s \in Slots
      /\ attemptLock[request[c].window] = c /\ attempts[request[c].window] < AttemptLimit
  BY <1>2, RequestIs DEF IInv, HoldsWhatItRead, Counted
<1>4. CASE counters[s] >= Capacity
  <2>1. ReturnRefusal(c, "capacity_unavailable") /\ "capacity_unavailable" \in Refusals
    BY <1>4 DEF CountSlot, Refusals
  <2>. QED BY <1>2, <1>3, <2>1, RefusalStep
<1>5. CASE ~(counters[s] >= Capacity)
  <2>1. /\ slotLock' = [slotLock EXCEPT ![s] = c]
        /\ pc' = [pc EXCEPT ![c] = "record"]
        /\ UNCHANGED <<tables, attemptLock, tokenLock, request, answer>>
    BY <1>5 DEF CountSlot
  <2>2. counters[s] < Capacity
    BY <1>1, <1>3, <1>5, LimitsAssumption
  <2>3. /\ slotLock' \in [Slots -> Calls \cup {Nobody}] /\ slotLock'[s] = c
        /\ \A v \in Slots : slotLock[v] # Nobody => slotLock'[v] = slotLock[v]
    BY <1>1, <1>2, <1>3, <2>1
  <2>. QED
    BY <1>1, <1>2, <1>3, <2>1, <2>2, <2>3, MoveStep DEF Places, Counted, Counting
<1>. QED BY <1>4, <1>5

LEMMA InsertSubmissionKeeps ==
  ASSUME IInv, NEW c \in Calls, InsertSubmission(c)
  PROVE  IInv'
<1>. DEFINE t == request[c].token
<1>1. /\ request \in [Calls -> Request \cup {NoRequest}]
      /\ submissions \in [Tokens -> Calls \cup {Nobody}]
      /\ attemptLock \in [Windows -> Calls \cup {Nobody}]
      /\ slotLock \in [Slots -> Calls \cup {Nobody}]
      /\ tokenLock \in [Tokens -> Calls \cup {Nobody}]
  BY DEF IInv, TypeOK
<1>2. pc[c] = "record" /\ tokenLock[t] = Nobody
  BY DEF InsertSubmission
<1>3. /\ request[c] \in Request /\ t \in Tokens
      /\ attemptLock[request[c].window] = c /\ attempts[request[c].window] < AttemptLimit
      /\ slotLock[request[c].slot] = c /\ counters[request[c].slot] < Capacity
  BY <1>2, RequestIs DEF IInv, HoldsWhatItRead, Counted, Counting
<1>4. CASE submissions[t] # Nobody
  <2>1. Rescue(c, Replayed(submissions[t])) /\ Replayed(submissions[t]) \in Reply
    BY <1>1, <1>3, <1>4, ReplyIs DEF InsertSubmission
  <2>. QED BY <1>2, <1>4, <2>1, RescueStep
<1>5. CASE submissions[t] = Nobody
  <2>1. /\ tokenLock' = [tokenLock EXCEPT ![t] = c]
        /\ pc' = [pc EXCEPT ![c] = "commit"]
        /\ UNCHANGED <<tables, attemptLock, slotLock, request, answer>>
    BY <1>5 DEF InsertSubmission
  <2>2. /\ tokenLock' \in [Tokens -> Calls \cup {Nobody}] /\ tokenLock'[t] = c
        /\ \A v \in Tokens : tokenLock[v] # Nobody => tokenLock'[v] = tokenLock[v]
    BY <1>1, <1>2, <1>3, <2>1
  <2>. QED
    BY <1>1, <1>2, <1>3, <1>5, <2>1, <2>2, MoveStep DEF Places, Counted, Counting
<1>. QED BY <1>4, <1>5

LEMMA AbortKeeps ==
  ASSUME IInv, NEW c \in Calls, Abort(c)
  PROVE  IInv'
<1>1. Rescue(c, Silent) /\ pc[c] # "answered"
  BY DEF Abort, Rescue
<1>. QED BY <1>1, ReplyIs, RescueStep

LEMMA StutterKeeps == IInv /\ UNCHANGED vars => IInv'
<1>. SUFFICES ASSUME IInv, UNCHANGED vars PROVE IInv'
  OBVIOUS
<1>1. /\ UNCHANGED <<submissions, counters, attempts, bookings, request, pc, answer>>
      /\ UNCHANGED <<attemptLock, slotLock, tokenLock>>
  BY DEF vars, tables, locks
<1>2. TypeOK' /\ HoldsWhatItRead'
  BY <1>1 DEF IInv, TypeOK, HoldsWhatItRead
<1>3. BookingsWereAsked' /\ RateHeld'
  BY <1>1 DEF IInv, BookingsWereAsked, RateHeld, BookingsIn
<1>4. SlotsAreHonest' /\ OneBookingPerToken' /\ AnswersAreHonest'
  BY <1>1 DEF IInv, SlotsAreHonest, BookingsOf, OneBookingPerToken, AnswersAreHonest
<1>. QED BY <1>2, <1>3, <1>4 DEF IInv

-----------------------------------------------------------------------------
(* The theorems. *)

\* In every reachable state a call holds what it read, and every booking was
\* asked for by a call that was answered ok.
THEOREM Invariance == Spec => []IInv
<1>1. IInv /\ [Next]_vars => IInv'
  <2>. SUFFICES ASSUME IInv, [Next]_vars PROVE IInv'
    OBVIOUS
  <2>1. ASSUME NEW c \in Calls, Run(c) PROVE IInv'
    BY <2>1, FindSubmissionKeeps, CountAttemptKeeps, CheckSubmissionKeeps,
       CountSlotKeeps, InsertSubmissionKeeps, CommitStep DEF Run
  <2>2. ASSUME NEW c \in Calls, InsertFails(c) PROVE IInv'
    BY <2>2, ReplyIs, RescueStep DEF InsertFails, Refusals
  <2>3. CASE UNCHANGED vars
    BY <2>3, StutterKeeps
  <2>. QED BY <2>1, <2>2, <2>3, CallKeeps, AbortKeeps DEF Next
<1>. QED BY InitInvariant, <1>1, PTL DEF Spec

\* Every variable stays in its type.
THEOREM TypeCorrect == Spec => []TypeOK
<1>1. IInv => TypeOK
  BY DEF IInv
<1>. QED BY <1>1, Invariance, PTL

\* No slot is sold beyond its capacity, and its counter counts its bookings.
THEOREM CapacityHeld == Spec => []SlotsAreHonest
<1>1. IInv => SlotsAreHonest
  BY DEF IInv
<1>. QED BY <1>1, Invariance, PTL

\* A token makes at most one booking, however often it is submitted.
THEOREM TokenBooksOnce == Spec => []OneBookingPerToken
<1>1. IInv => OneBookingPerToken
  BY DEF IInv
<1>. QED BY <1>1, Invariance, PTL

\* Who is told ok has a booking under the token; who is not has made none.
THEOREM AnswersMatch == Spec => []AnswersAreHonest
<1>1. IInv => AnswersAreHonest
  BY DEF IInv
<1>. QED BY <1>1, Invariance, PTL

\* A request hash gets no more bookings in a minute than its attempts.
THEOREM RateIsHeld == Spec => []RateHeld
<1>1. IInv => RateHeld
  BY DEF IInv
<1>. QED BY <1>1, Invariance, PTL
=============================================================================
