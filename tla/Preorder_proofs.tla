----------------------------- MODULE Preorder_proofs -----------------------------
(***************************************************************************)
(* For any number of requests, tokens, slots and request hashes, any       *)
(* capacity and any limit of attempts: IInv is an inductive invariant of a *)
(* preorder and its email, and two things no step ever does.               *)
(***************************************************************************)
EXTENDS Preorder, FiniteSetTheorems, TLAPS

-----------------------------------------------------------------------------
(* The initial states satisfy the invariant. *)

LEMMA InitInvariant == Init => IInv
<1>. SUFFICES ASSUME Init PROVE IInv
  OBVIOUS
<1>1. Silent \in Reply /\ Silent.code = "none"
  BY DEF Silent, Reply, Statuses
<1>2. TypeOK
  BY <1>1 DEF TypeOK, Init, Places, Statuses
<1>3. HoldsWhatItRead
  BY DEF HoldsWhatItRead, Holds, Init, InTransaction
<1>4. /\ IsFiniteSet(orders) /\ IsFiniteSet({}) /\ Cardinality({}) = 0
      /\ \A s \in Slots : OrdersOf(s) = {}
      /\ \A w \in Windows : CountedIn(w) = {}
      /\ \A t \in Tokens : MailersOf(t) = {}
  BY <1>1, FS_EmptySet DEF Init, OrdersOf, CountedIn, HasOrder, MailersOf, InRoute
<1>5. OrdersWereAsked
  BY <1>1, <1>4 DEF OrdersWereAsked, Init
<1>6. AttemptsCover
  BY <1>4, LimitsAssumption DEF AttemptsCover, Init
<1>7. EmailFollowsOrder
  BY <1>4 DEF EmailFollowsOrder, Init, InRoute
<1>8. SlotsAreHonest
  <2>1. \A s \in Slots : Cardinality(OrdersOf(s)) = 0 /\ counters[s] = 0
    BY <1>4 DEF Init
  <2>. QED BY <2>1, LimitsAssumption DEF SlotsAreHonest
<1>9. OneOrderPerToken
  BY DEF OneOrderPerToken, Init
<1>10. AnswersAreHonest /\ NotSoldOutByItself
  BY <1>1 DEF AnswersAreHonest, NotSoldOutByItself, HasOrder, Init
<1>. QED
  BY <1>2, <1>3, <1>5, <1>6, <1>7, <1>8, <1>9, <1>10 DEF IInv

-----------------------------------------------------------------------------
(* What the invariant says of a call that has not left its transaction. *)

LEMMA BeforeTheEnd ==
  ASSUME IInv, NEW c \in Calls, pc[c] \in InTransaction \cup {"idle"}
  PROVE  /\ answer[c] = Silent /\ answer[c].code = "none"
         /\ ~HasOrder(c) /\ c \notin sent
         /\ \A t \in Tokens : c \notin MailersOf(t)
         /\ \A w \in Windows : c \notin CountedIn(w)
<1>1. answer[c] = Silent /\ answer[c].code = "none"
  BY DEF IInv, HoldsWhatItRead, Holds, Silent
<1>2. ~HasOrder(c) /\ c \notin sent
  BY DEF IInv, OrdersWereAsked, EmailFollowsOrder, HasOrder, InTransaction, InRoute
<1>. QED BY <1>1, <1>2 DEF MailersOf, CountedIn, InTransaction, InRoute

LEMMA RequestIs ==
  ASSUME IInv, NEW c \in Calls, pc[c] \in InTransaction \cup InRoute
  PROVE  /\ request[c] \in Request
         /\ request[c].token \in Tokens /\ request[c].slot \in Slots
         /\ request[c].window \in Windows
BY DEF IInv, HoldsWhatItRead, Holds, Request, InTransaction, InRoute

LEMMA TokenOfOrder ==
  ASSUME IInv, NEW t \in Tokens
  PROVE  IsConfirmed(t) <=> submissions[t] # Nobody
<1>1. {o.call : o \in {x \in orders : x.token = t}} = {submissions[t]} \ {Nobody}
  BY DEF IInv, OneOrderPerToken
<1>2. \A o \in orders : o.call # Nobody
  BY NobodyAssumption DEF IInv, TypeOK, Order
<1>. QED BY <1>1, <1>2 DEF IsConfirmed

-----------------------------------------------------------------------------
(* A call goes on in its transaction: it may take locks nobody holds, and *)
(* changes no table. *)

LEMMA MoveStep ==
  ASSUME IInv, NEW c \in Calls, NEW next \in InTransaction,
         pc[c] \in InTransaction \cup {"idle"},
         pc' = [pc EXCEPT ![c] = next],
         request' \in [Calls -> Request \cup {NoRequest}],
         request'[c] \in Request,
         \A d \in Calls \ {c} : request'[d] = request[d],
         UNCHANGED <<open, tables, mail, answer>>, open,
         shares' \in SUBSET Calls, shares \subseteq shares', c \in shares',
         attemptLock' \in [Windows -> Calls \cup {Nobody}],
         tokenLock' \in [Tokens -> Calls \cup {Nobody}],
         slotLock' \in [Slots -> Calls \cup {Nobody}],
         \A w \in Windows : attemptLock[w] # Nobody => attemptLock'[w] = attemptLock[w],
         \A t \in Tokens : tokenLock[t] # Nobody => tokenLock'[t] = tokenLock[t],
         \A s \in Slots : slotLock[s] # Nobody => slotLock'[s] = slotLock[s],
         LET r == request'[c]
         IN /\ next \in {"token", "count", "record"} =>
                attemptLock'[r.window] = c /\ attempts[r.window] < AttemptLimit
            /\ next \in {"count", "record"} =>
                tokenLock'[r.token] = c /\ submissions[r.token] = Nobody
            /\ next = "record" => slotLock'[r.slot] = c /\ HasRoom(r.slot)
  PROVE  IInv'
<1>1. pc \in [Calls -> Places] /\ pc' \in [Calls -> Places]
  BY DEF IInv, TypeOK, Places
<1>2. pc'[c] = next /\ \A d \in Calls \ {c} : pc'[d] = pc[d]
  BY <1>1
<1>3. next \notin {"idle", "answered"} \cup InRoute
  BY DEF InTransaction, InRoute
<1>4. /\ UNCHANGED <<submissions, counters, attempts, orders, email, sent>>
      /\ \A s : HasRoom(s)' = HasRoom(s)
  BY DEF tables, mail, HasRoom
<1>5. \A o \in orders : o.call \in Calls \ {c}
  BY BeforeTheEnd DEF IInv, TypeOK, Order, HasOrder
<1>6. c \notin sent /\ sent \subseteq Calls
  BY BeforeTheEnd DEF IInv, TypeOK
<1>7. TypeOK'
  BY <1>1, <1>4 DEF IInv, TypeOK
<1>8. HoldsWhatItRead'
  <2>1. ASSUME NEW d \in Calls \ {c}
        PROVE  Holds(d)'
    <3>1. Holds(d) /\ d # Nobody
      BY NobodyAssumption DEF IInv, HoldsWhatItRead
    <3>2. request[d] \in Request =>
            /\ request[d].window \in Windows /\ request[d].slot \in Slots
            /\ request[d].token \in Tokens
      BY DEF Request
    <3>3. pc'[d] = pc[d] /\ request'[d] = request[d] /\ answer'[d] = answer[d]
      BY <1>2
    <3>4. pc[d] \in {"token", "count", "record"} => pc[d] \notin {"idle", "answered"}
      OBVIOUS
    <3>. QED
      BY <1>4, <3>1, <3>2, <3>3, <3>4 DEF Holds
  <2>2. Holds(c)'
    <3>1. answer'[c] = Silent
      BY BeforeTheEnd
    <3>. QED BY <1>2, <1>3, <1>4, <3>1 DEF Holds
  <2>. QED BY <2>1, <2>2 DEF HoldsWhatItRead
<1>9. OrdersWereAsked'
  <2>1. answer'[c].code # "sold_out"
    BY BeforeTheEnd
  <2>. QED BY <1>2, <1>4, <1>5, <2>1 DEF IInv, OrdersWereAsked
<1>10. \A w \in Windows : CountedIn(w)' = CountedIn(w)
  <2>1. ~HasOrder(c) /\ answer[c].code = "none"
    BY BeforeTheEnd
  <2>. QED BY <1>4, <2>1 DEF CountedIn, HasOrder
<1>11. AttemptsCover'
  BY <1>4, <1>10 DEF IInv, AttemptsCover
<1>12. \A t \in Tokens : MailersOf(t)' = MailersOf(t)
  BY <1>2, <1>3, <1>4, <1>6, BeforeTheEnd DEF MailersOf
<1>13. EmailFollowsOrder'
  <2>1. sent' \subseteq {d \in Calls : pc'[d] \in InRoute \cup {"answered"}}
    BY <1>2, <1>4, <1>6 DEF IInv, EmailFollowsOrder
  <2>2. \A t \in Tokens :
          /\ email'[t] = "none" <=> submissions'[t] = Nobody
          /\ email'[t] \in {"none", "pending"} => MailersOf(t)' = {}
          /\ \A d, e \in MailersOf(t)' : d = e
    BY <1>4, <1>12 DEF IInv, EmailFollowsOrder
  <2>3. \A t \in Tokens : email'[t] = "delivered" => \E d \in sent' : request'[d].token = t
    BY <1>4, <1>6 DEF IInv, EmailFollowsOrder
  <2>4. \A d \in Calls :
          /\ pc'[d] \in InRoute => answer'[d].code = "ok"
          /\ pc'[d] = "noteSent" => d \in sent'
    BY <1>2, <1>3, <1>4 DEF IInv, EmailFollowsOrder, InRoute
  <2>. QED BY <2>1, <2>2, <2>3, <2>4 DEF EmailFollowsOrder
<1>14. SlotsAreHonest' /\ OneOrderPerToken'
  BY <1>4 DEF IInv, SlotsAreHonest, OrdersOf, OneOrderPerToken
<1>15. AnswersAreHonest' /\ NotSoldOutByItself'
  <2>1. answer[c].code = "none" /\ ~HasOrder(c)
    BY BeforeTheEnd
  <2>2. AnswersAreHonest'
    BY <1>4, <1>6, <2>1 DEF IInv, AnswersAreHonest, HasOrder, IsConfirmed
  <2>3. NotSoldOutByItself'
    BY <1>4, <2>1 DEF IInv, NotSoldOutByItself
  <2>. QED BY <2>2, <2>3
<1>. QED
  BY <1>7, <1>8, <1>9, <1>11, <1>13, <1>14, <1>15 DEF IInv

-----------------------------------------------------------------------------
(* A call leaves its transaction without an order: it gives its locks back, *)
(* and its attempt may stay counted. *)

LEMMA LeaveStep ==
  ASSUME IInv, NEW c \in Calls, NEW reply \in Reply,
         pc[c] \in InTransaction \cup {"idle"},
         NEW next \in {"claim", "answered"},
         next = "claim" => reply.code = "ok",
         pc' = [pc EXCEPT ![c] = next],
         answer' = [answer EXCEPT ![c] = reply],
         request' \in [Calls -> Request \cup {NoRequest}],
         request'[c] \in Request,
         \A d \in Calls \ {c} : request'[d] = request[d],
         UNCHANGED <<open, submissions, counters, orders, mail>>,
         reply.code # "retry",
         reply.code = "ok" =>
            /\ IsConfirmed(request'[c].token)
            /\ reply.reference = submissions[request'[c].token]
            /\ reply.email = email[request'[c].token],
         reply.code = "sold_out" =>
            /\ ~HasRoom(request'[c].slot)
            /\ submissions[request'[c].token] = Nobody,
         attempts' \in [Windows -> Nat],
         \A w \in Windows :
            \/ /\ attempts'[w] = attempts[w]
               /\ reply.code \in {"sold_out", "rejected"} => w # request'[c].window
            \/ /\ attempts'[w] = attempts[w] + 1 /\ attempts[w] < AttemptLimit
               /\ attemptLock[w] = c,
         shares' \in {shares, shares \ {c}},
         attemptLock' \in [Windows -> Calls \cup {Nobody}],
         tokenLock' \in [Tokens -> Calls \cup {Nobody}],
         slotLock' \in [Slots -> Calls \cup {Nobody}],
         \A w \in Windows : attemptLock[w] # c => attemptLock'[w] = attemptLock[w],
         \A t \in Tokens : tokenLock[t] # c => tokenLock'[t] = tokenLock[t],
         \A s \in Slots : slotLock[s] # c => slotLock'[s] = slotLock[s]
  PROVE  IInv'
<1>1. /\ pc \in [Calls -> Places] /\ pc' \in [Calls -> Places]
      /\ answer \in [Calls -> Reply] /\ answer' \in [Calls -> Reply]
      /\ attempts \in [Windows -> Nat]
  BY DEF IInv, TypeOK, Places, InRoute
<1>2. /\ pc'[c] = next /\ answer'[c] = reply
      /\ \A d \in Calls \ {c} : pc'[d] = pc[d] /\ answer'[d] = answer[d]
  BY <1>1
<1>3. /\ request'[c].window \in Windows /\ request'[c].slot \in Slots
      /\ request'[c].token \in Tokens
  BY DEF Request
<1>4. UNCHANGED <<open, submissions, counters, orders, email, sent>>
  BY DEF mail
<1>5. \A o \in orders : o.call \in Calls \ {c}
  BY BeforeTheEnd DEF IInv, TypeOK, Order, HasOrder
<1>6. c \notin sent /\ sent \subseteq Calls /\ ~HasOrder(c)
  BY BeforeTheEnd DEF IInv, TypeOK
<1>7. TypeOK'
  BY <1>1, <1>4 DEF IInv, TypeOK
<1>8. HoldsWhatItRead'
  <2>1. ASSUME NEW d \in Calls \ {c}
        PROVE  Holds(d)'
    <3>1. Holds(d)
      BY DEF IInv, HoldsWhatItRead
    <3>2. request[d] \in Request =>
            /\ request[d].window \in Windows /\ request[d].slot \in Slots
            /\ request[d].token \in Tokens
      BY DEF Request
    <3>3. pc'[d] = pc[d] /\ request'[d] = request[d] /\ answer'[d] = answer[d]
      BY <1>2
    <3>4. pc[d] \in {"token", "count", "record"} =>
            attempts'[request[d].window] = attempts[request[d].window]
      BY <3>1, <3>2 DEF Holds
    <3>. QED
      BY <1>4, <3>1, <3>2, <3>3, <3>4 DEF Holds, HasRoom
  <2>2. Holds(c)'
    BY <1>2 DEF Holds, InTransaction
  <2>3. shares' # {} => open'
    BY <1>4 DEF IInv, HoldsWhatItRead
  <2>. QED BY <2>1, <2>2, <2>3 DEF HoldsWhatItRead
<1>9. OrdersWereAsked'
  <2>1. IsFiniteSet(orders')
    BY <1>4 DEF IInv, OrdersWereAsked
  <2>2. \A o \in orders' :
          /\ pc'[o.call] \in InRoute \cup {"answered"}
          /\ request'[o.call] \in Request
          /\ o.token = request'[o.call].token /\ o.slot = request'[o.call].slot
    BY <1>2, <1>4, <1>5 DEF IInv, OrdersWereAsked
  <2>3. \A d \in Calls : answer'[d].code = "sold_out" =>
          request'[d] \in Request /\ ~HasRoom(request[d].slot)'
    BY <1>2, <1>4 DEF IInv, OrdersWereAsked, HasRoom
  <2>. QED BY <2>1, <2>2, <2>3 DEF OrdersWereAsked
<1>10. AttemptsCover'
  <2>1. ASSUME NEW w \in Windows
        PROVE  /\ IsFiniteSet(CountedIn(w)')
               /\ Cardinality(CountedIn(w)') <= attempts'[w]
               /\ attempts'[w] <= AttemptLimit
    <3>1. /\ IsFiniteSet(CountedIn(w)) /\ Cardinality(CountedIn(w)) \in Nat
          /\ Cardinality(CountedIn(w)) <= attempts[w] /\ attempts[w] <= AttemptLimit
      BY FS_CardinalityType DEF IInv, AttemptsCover
    <3>2. c \notin CountedIn(w)
      BY BeforeTheEnd
    <3>3. CountedIn(w)' =
            IF w = request'[c].window /\ reply.code \in {"sold_out", "rejected"}
            THEN CountedIn(w) \cup {c} ELSE CountedIn(w)
      <4>1. ~HasOrder(c)'
        BY <1>4, <1>6 DEF HasOrder
      <4>2. \A d \in Calls \ {c} : d \in CountedIn(w)' <=> d \in CountedIn(w)
        BY <1>2, <1>4 DEF CountedIn, HasOrder
      <4>3. c \in CountedIn(w)' <=>
              w = request'[c].window /\ reply.code \in {"sold_out", "rejected"}
        BY <1>2, <4>1 DEF CountedIn
      <4>4. CountedIn(w)' \subseteq Calls /\ CountedIn(w) \subseteq Calls
        BY DEF CountedIn
      <4>5. CASE w = request'[c].window /\ reply.code \in {"sold_out", "rejected"}
        BY <4>2, <4>3, <4>4, <4>5
      <4>6. CASE ~(w = request'[c].window /\ reply.code \in {"sold_out", "rejected"})
        <5>1. c \notin CountedIn(w)'
          BY <4>3, <4>6
        <5>2. CountedIn(w)' = CountedIn(w)
          <6>1. \A d : d \in CountedIn(w)' <=> d \in CountedIn(w)
            BY <3>2, <4>2, <4>4, <5>1
          <6>. QED BY ONLY <6>1
        <5>. QED BY <4>6, <5>2
      <4>. QED BY <4>5, <4>6
    <3>4. /\ IsFiniteSet(CountedIn(w) \cup {c})
          /\ Cardinality(CountedIn(w) \cup {c}) = Cardinality(CountedIn(w)) + 1
      BY <3>1, <3>2, FS_AddElement
    <3>. QED BY <1>1, <3>1, <3>3, <3>4, LimitsAssumption
  <2>. QED BY <2>1 DEF AttemptsCover
<1>11. \A t \in Tokens : MailersOf(t)' = MailersOf(t)
  <2>1. next \notin InRoute \ {"claim"}
    BY DEF InRoute
  <2>. QED BY <1>2, <1>4, <1>6, <2>1, BeforeTheEnd DEF MailersOf
<1>12. EmailFollowsOrder'
  <2>1. sent' \subseteq {d \in Calls : pc'[d] \in InRoute \cup {"answered"}}
    BY <1>2, <1>4, <1>6 DEF IInv, EmailFollowsOrder
  <2>2. \A t \in Tokens :
          /\ email'[t] = "none" <=> submissions'[t] = Nobody
          /\ email'[t] \in {"none", "pending"} => MailersOf(t)' = {}
          /\ \A d, e \in MailersOf(t)' : d = e
    BY <1>4, <1>11 DEF IInv, EmailFollowsOrder
  <2>3. \A t \in Tokens : email'[t] = "delivered" => \E d \in sent' : request'[d].token = t
    BY <1>4, <1>6 DEF IInv, EmailFollowsOrder
  <2>4. \A d \in Calls :
          /\ pc'[d] \in InRoute => answer'[d].code = "ok"
          /\ pc'[d] = "noteSent" => d \in sent'
    BY <1>2, <1>4 DEF IInv, EmailFollowsOrder, InRoute
  <2>. QED BY <2>1, <2>2, <2>3, <2>4 DEF EmailFollowsOrder
<1>13. SlotsAreHonest' /\ OneOrderPerToken'
  BY <1>4 DEF IInv, SlotsAreHonest, OrdersOf, OneOrderPerToken
<1>14. AnswersAreHonest'
  <2>1. ASSUME NEW d \in Calls \ {c}
        PROVE  /\ answer'[d].code # "retry"
               /\ HasOrder(d)' => answer'[d].code \in {"ok", "error"}
               /\ answer'[d].code = "ok" =>
                    /\ request'[d].token \in Tokens
                    /\ IsConfirmed(request[d].token)'
                    /\ answer'[d].reference = submissions'[request'[d].token]
                    /\ answer'[d].email = "delivered" =>
                        \E e \in sent' : request'[e].token = request'[d].token
    BY <1>2, <1>4, <1>6 DEF IInv, AnswersAreHonest, HasOrder, IsConfirmed
  <2>2. ~HasOrder(c)'
    BY <1>4, <1>6 DEF HasOrder
  <2>3. reply.code = "ok" =>
          /\ IsConfirmed(request[c].token)'
          /\ reply.email = "delivered" =>
                \E e \in sent' : request'[e].token = request'[c].token
    BY <1>3, <1>4, <1>6 DEF IInv, EmailFollowsOrder, IsConfirmed
  <2>. QED BY <1>2, <1>3, <1>4, <2>1, <2>2, <2>3 DEF AnswersAreHonest
<1>15. NotSoldOutByItself'
  <2>1. reply.code = "sold_out" => ~IsConfirmed(request'[c].token)
    BY <1>3, TokenOfOrder
  <2>. QED BY <1>2, <1>4, <2>1 DEF IInv, NotSoldOutByItself, IsConfirmed
<1>. QED
  BY <1>7, <1>8, <1>9, <1>10, <1>12, <1>13, <1>14, <1>15 DEF IInv

-----------------------------------------------------------------------------
(* A call commits its order. *)

LEMMA CommitStep ==
  ASSUME IInv, NEW c \in Calls, Commit(c)
  PROVE  IInv'
<1>. DEFINE r == request[c]
            o == [call |-> c, token |-> r.token, slot |-> r.slot]
            reply == Accepted(c, "pending")
<1>1. /\ pc \in [Calls -> Places] /\ answer \in [Calls -> Reply]
      /\ submissions \in [Tokens -> Calls \cup {Nobody}]
      /\ email \in [Tokens -> Statuses]
      /\ counters \in [Slots -> Nat] /\ attempts \in [Windows -> Nat]
      /\ orders \subseteq Order /\ sent \subseteq Calls /\ IsFiniteSet(orders)
  BY DEF IInv, TypeOK, OrdersWereAsked
<1>2. pc[c] = "record" /\ pc[c] \in InTransaction
  BY DEF Commit, InTransaction
<1>3. /\ r \in Request
      /\ r.token \in Tokens /\ r.slot \in Slots /\ r.window \in Windows
  BY <1>2, RequestIs
<1>4. /\ attemptLock[r.window] = c /\ attempts[r.window] < AttemptLimit
      /\ slotLock[r.slot] = c /\ HasRoom(r.slot)
      /\ tokenLock[r.token] = c /\ submissions[r.token] = Nobody
  BY <1>2 DEF IInv, HoldsWhatItRead, Holds
<1>5. /\ submissions' = [submissions EXCEPT ![r.token] = c]
      /\ email' = [email EXCEPT ![r.token] = "pending"]
      /\ counters' = [counters EXCEPT ![r.slot] = @ + 1]
      /\ attempts' = [attempts EXCEPT ![r.window] = @ + 1]
      /\ orders' = orders \cup {o}
      /\ answer' = [answer EXCEPT ![c] = reply]
      /\ request' = request /\ sent' = sent /\ open' = open
  BY DEF Commit, Return, CountedAttempt
<1>6. /\ reply \in Reply /\ reply.code = "ok" /\ reply.reference = c
      /\ reply.email = "pending"
  BY DEF Accepted, Reply, Statuses
<1>7. pc' = [pc EXCEPT ![c] = "claim"]
  BY <1>6 DEF Commit, Return
<1>8. /\ shares' = shares \ {c}
      /\ attemptLock' = [w \in Windows |-> IF attemptLock[w] = c THEN Nobody ELSE attemptLock[w]]
      /\ tokenLock' = [t \in Tokens |-> IF tokenLock[t] = c THEN Nobody ELSE tokenLock[t]]
      /\ slotLock' = [s \in Slots |-> IF slotLock[s] = c THEN Nobody ELSE slotLock[s]]
  BY DEF Commit, Return, Release
<1>9. o \in Order /\ o.call = c /\ o.token = r.token /\ o.slot = r.slot
  BY <1>3 DEF Order
<1>. HIDE DEF o, r, reply
<1>10. /\ \A x \in orders : x.call \in Calls \ {c}
       /\ c \notin sent /\ o \notin orders
  BY <1>1, <1>2, <1>9, BeforeTheEnd DEF Order, HasOrder
<1>11. /\ pc'[c] = "claim" /\ answer'[c] = reply
       /\ \A d \in Calls \ {c} : pc'[d] = pc[d] /\ answer'[d] = answer[d]
  BY <1>1, <1>5, <1>7
<1>12. /\ submissions'[r.token] = c /\ c # Nobody
       /\ \A t \in Tokens \ {r.token} : submissions'[t] = submissions[t] /\ email'[t] = email[t]
       /\ email'[r.token] = "pending"
  BY <1>1, <1>3, <1>5, NobodyAssumption
<1>13. ~IsConfirmed(r.token)
  BY <1>3, <1>4, TokenOfOrder
<1>14. TypeOK'
  <2>1. orders' \subseteq Order /\ sent' \subseteq Calls /\ shares' \subseteq Calls
    BY <1>1, <1>5, <1>8, <1>9 DEF IInv, TypeOK
  <2>2. pc' \in [Calls -> Places] /\ answer' \in [Calls -> Reply]
    BY <1>1, <1>5, <1>6, <1>7 DEF Places, InRoute
  <2>3. /\ submissions' \in [Tokens -> Calls \cup {Nobody}]
        /\ email' \in [Tokens -> Statuses]
        /\ counters' \in [Slots -> Nat] /\ attempts' \in [Windows -> Nat]
    BY <1>1, <1>3, <1>5 DEF Statuses
  <2>4. /\ attemptLock' \in [Windows -> Calls \cup {Nobody}]
        /\ slotLock' \in [Slots -> Calls \cup {Nobody}]
        /\ tokenLock' \in [Tokens -> Calls \cup {Nobody}]
    BY <1>8 DEF IInv, TypeOK
  <2>. QED BY <1>5, <2>1, <2>2, <2>3, <2>4 DEF IInv, TypeOK
<1>15. HoldsWhatItRead'
  <2>1. ASSUME NEW d \in Calls \ {c}
        PROVE  Holds(d)'
    <3>1. Holds(d) /\ d # c
      BY DEF IInv, HoldsWhatItRead
    <3>2. request[d] \in Request =>
            /\ request[d].window \in Windows /\ request[d].slot \in Slots
            /\ request[d].token \in Tokens
      BY DEF Request
    <3>3. pc'[d] = pc[d] /\ request'[d] = request[d] /\ answer'[d] = answer[d]
      BY <1>5, <1>11
    <3>4. pc[d] \in {"token", "count", "record"} =>
            /\ attemptLock'[request[d].window] = d
            /\ attempts'[request[d].window] < AttemptLimit
      BY <1>1, <1>4, <1>5, <1>8, <3>1, <3>2 DEF Holds
    <3>5. pc[d] \in {"count", "record"} =>
            /\ tokenLock'[request[d].token] = d
            /\ submissions'[request[d].token] = Nobody
      BY <1>4, <1>8, <1>12, <3>1, <3>2 DEF Holds
    <3>6. pc[d] = "record" =>
            /\ slotLock'[request[d].slot] = d
            /\ counters'[request[d].slot] < Capacity
      BY <1>1, <1>4, <1>5, <1>8, <3>1, <3>2 DEF Holds, HasRoom
    <3>7. pc[d] \in InTransaction => d \in shares'
      BY <1>8, <3>1 DEF Holds
    <3>. QED
      BY <3>1, <3>3, <3>4, <3>5, <3>6, <3>7 DEF Holds, HasRoom
  <2>2. Holds(c)'
    BY <1>3, <1>5, <1>11 DEF Holds, InTransaction, r
  <2>3. shares' # {} => open'
    BY <1>5, <1>8 DEF IInv, HoldsWhatItRead
  <2>. QED BY <2>1, <2>2, <2>3 DEF HoldsWhatItRead
<1>16. OrdersWereAsked'
  <2>1. IsFiniteSet(orders')
    BY <1>1, <1>5, FS_AddElement
  <2>2. ASSUME NEW x \in orders'
        PROVE  /\ pc'[x.call] \in InRoute \cup {"answered"}
               /\ request'[x.call] \in Request
               /\ x.token = request'[x.call].token /\ x.slot = request'[x.call].slot
    <3>1. CASE x = o
      BY <1>3, <1>5, <1>9, <1>11, <3>1 DEF InRoute, r
    <3>2. CASE x \in orders
      BY <1>5, <1>10, <1>11, <3>2 DEF IInv, OrdersWereAsked
    <3>. QED BY <1>5, <3>1, <3>2
  <2>3. ASSUME NEW d \in Calls, answer'[d].code = "sold_out"
        PROVE  request'[d] \in Request /\ ~HasRoom(request[d].slot)'
    <3>1. d # c
      BY <1>6, <1>11, <2>3
    <3>2. request[d] \in Request /\ ~HasRoom(request[d].slot)
      BY <1>11, <2>3, <3>1 DEF IInv, OrdersWereAsked
    <3>3. request[d].slot \in Slots /\ request[d].slot # r.slot
      BY <1>4, <3>2 DEF Request
    <3>. QED BY <1>1, <1>5, <3>2, <3>3 DEF HasRoom
  <2>. QED BY <2>1, <2>2, <2>3 DEF OrdersWereAsked
<1>17. AttemptsCover'
  <2>1. ASSUME NEW w \in Windows
        PROVE  /\ IsFiniteSet(CountedIn(w)')
               /\ Cardinality(CountedIn(w)') <= attempts'[w]
               /\ attempts'[w] <= AttemptLimit
    <3>1. /\ IsFiniteSet(CountedIn(w)) /\ Cardinality(CountedIn(w)) \in Nat
          /\ Cardinality(CountedIn(w)) <= attempts[w] /\ attempts[w] <= AttemptLimit
      BY FS_CardinalityType DEF IInv, AttemptsCover
    <3>2. c \notin CountedIn(w)
      BY <1>2, BeforeTheEnd
    <3>3. CountedIn(w)' = IF w = r.window THEN CountedIn(w) \cup {c} ELSE CountedIn(w)
      <4>1. HasOrder(c)' /\ \A d \in Calls \ {c} : HasOrder(d)' <=> HasOrder(d)
        BY <1>5, <1>9 DEF HasOrder
      <4>2. \A d \in Calls \ {c} : d \in CountedIn(w)' <=> d \in CountedIn(w)
        BY <1>5, <1>11, <4>1 DEF CountedIn
      <4>3. c \in CountedIn(w)' <=> w = r.window
        BY <1>5, <4>1 DEF CountedIn, r
      <4>4. CountedIn(w)' \subseteq Calls /\ CountedIn(w) \subseteq Calls
        BY DEF CountedIn
      <4>. QED BY <3>2, <4>2, <4>3, <4>4
    <3>4. /\ IsFiniteSet(CountedIn(w) \cup {c})
          /\ Cardinality(CountedIn(w) \cup {c}) = Cardinality(CountedIn(w)) + 1
      BY <3>1, <3>2, FS_AddElement
    <3>. QED BY <1>1, <1>3, <1>4, <1>5, <3>1, <3>3, <3>4, LimitsAssumption
  <2>. QED BY <2>1 DEF AttemptsCover
<1>18. \A t \in Tokens : MailersOf(t)' = MailersOf(t)
  <2>1. \A t \in Tokens : c \notin MailersOf(t)
    BY <1>2, BeforeTheEnd
  <2>. QED BY <1>5, <1>10, <1>11, <2>1 DEF MailersOf
<1>19. EmailFollowsOrder'
  <2>1. sent' \subseteq {d \in Calls : pc'[d] \in InRoute \cup {"answered"}}
    BY <1>1, <1>5, <1>10, <1>11 DEF IInv, EmailFollowsOrder
  <2>2. email[r.token] = "none" /\ MailersOf(r.token) = {}
    BY <1>3, <1>4 DEF IInv, EmailFollowsOrder
  <2>3. ASSUME NEW t \in Tokens
        PROVE  /\ email'[t] = "none" <=> submissions'[t] = Nobody
               /\ email'[t] \in {"none", "pending"} => MailersOf(t)' = {}
               /\ \A d, e \in MailersOf(t)' : d = e
               /\ email'[t] = "delivered" => \E d \in sent' : request'[d].token = t
    <3>1. CASE t = r.token
      BY <1>12, <1>18, <2>2, <3>1
    <3>2. CASE t # r.token
      BY <1>5, <1>12, <1>18, <3>2 DEF IInv, EmailFollowsOrder
    <3>. QED BY <3>1, <3>2
  <2>4. \A d \in Calls :
          /\ pc'[d] \in InRoute => answer'[d].code = "ok"
          /\ pc'[d] = "noteSent" => d \in sent'
    BY <1>5, <1>6, <1>11 DEF IInv, EmailFollowsOrder
  <2>. QED BY <2>1, <2>3, <2>4 DEF EmailFollowsOrder
<1>20. SlotsAreHonest'
  <2>1. ASSUME NEW s \in Slots
        PROVE  counters'[s] = Cardinality(OrdersOf(s)') /\ counters'[s] <= Capacity
    <3>1. /\ counters[s] = Cardinality(OrdersOf(s)) /\ counters[s] <= Capacity
          /\ counters[s] \in Nat
      BY <1>1 DEF IInv, SlotsAreHonest
    <3>2. IsFiniteSet(OrdersOf(s)) /\ o \notin OrdersOf(s)
      BY <1>1, <1>10, FS_Subset DEF OrdersOf
    <3>3. Cardinality(OrdersOf(s) \cup {o}) = Cardinality(OrdersOf(s)) + 1
      BY <3>2, FS_AddElement
    <3>4. CASE s = r.slot
      <4>1. OrdersOf(s)' = OrdersOf(s) \cup {o}
        BY <1>5, <1>9, <3>4 DEF OrdersOf
      <4>2. counters'[s] = counters[s] + 1 /\ counters[s] < Capacity
        BY <1>1, <1>3, <1>4, <1>5, <3>4 DEF HasRoom
      <4>. QED BY <3>1, <3>3, <4>1, <4>2, LimitsAssumption
    <3>5. CASE s # r.slot
      <4>1. OrdersOf(s)' = OrdersOf(s)
        BY <1>5, <1>9, <3>5 DEF OrdersOf
      <4>2. counters'[s] = counters[s]
        BY <1>1, <1>5, <3>5
      <4>. QED BY <3>1, <4>1, <4>2
    <3>. QED BY <3>4, <3>5
  <2>. QED BY <2>1 DEF SlotsAreHonest
<1>21. OneOrderPerToken'
  <2>1. ASSUME NEW t \in Tokens
        PROVE  {x.call : x \in {y \in orders' : y.token = t}} = {submissions'[t]} \ {Nobody}
    <3>1. {x.call : x \in {y \in orders : y.token = t}} = {submissions[t]} \ {Nobody}
      BY DEF IInv, OneOrderPerToken
    <3>2. CASE t = r.token
      <4>1. {y \in orders' : y.token = t} = {o}
        BY <1>5, <1>9, <1>13, <3>2 DEF IsConfirmed
      <4>. QED BY <1>9, <1>12, <3>2, <4>1
    <3>3. CASE t # r.token
      <4>1. {y \in orders' : y.token = t} = {y \in orders : y.token = t}
        BY <1>5, <1>9, <3>3
      <4>. QED BY <1>12, <3>1, <3>3, <4>1
    <3>. QED BY <3>2, <3>3
  <2>. QED BY <2>1 DEF OneOrderPerToken
<1>22. AnswersAreHonest'
  <2>1. ASSUME NEW d \in Calls \ {c}
        PROVE  /\ answer'[d].code # "retry"
               /\ HasOrder(d)' => answer'[d].code \in {"ok", "error"}
    BY <1>5, <1>9, <1>11 DEF IInv, AnswersAreHonest, HasOrder
  <2>2. ASSUME NEW d \in Calls \ {c}, answer'[d].code = "ok"
        PROVE  /\ request'[d].token \in Tokens
               /\ IsConfirmed(request[d].token)'
               /\ answer'[d].reference = submissions'[request'[d].token]
               /\ answer'[d].email = "delivered" =>
                    \E e \in sent' : request'[e].token = request'[d].token
    <3>1. /\ request[d].token \in Tokens /\ IsConfirmed(request[d].token)
          /\ answer[d].reference = submissions[request[d].token]
          /\ answer[d].email = "delivered" =>
                \E e \in sent : request[e].token = request[d].token
      BY <1>11, <2>2 DEF IInv, AnswersAreHonest
    <3>2. request[d].token # r.token
      BY <1>13, <3>1
    <3>3. IsConfirmed(request[d].token)'
      BY <1>5, <3>1 DEF IsConfirmed
    <3>. QED BY <1>5, <1>11, <1>12, <3>1, <3>2, <3>3
  <2>3. /\ request'[c].token \in Tokens
        /\ IsConfirmed(request[c].token)'
        /\ submissions'[request'[c].token] = c
    BY <1>3, <1>5, <1>9, <1>12 DEF IsConfirmed, r
  <2>. QED BY <1>6, <1>11, <2>1, <2>2, <2>3 DEF AnswersAreHonest
<1>23. NotSoldOutByItself'
  <2>1. ASSUME NEW d \in Calls, answer'[d].code = "sold_out"
        PROVE  \A x \in orders' : x.token # request'[d].token \/ x.slot # request'[d].slot
    <3>1. d # c
      BY <1>6, <1>11, <2>1
    <3>2. ~HasRoom(request[d].slot)
      BY <1>11, <2>1, <3>1 DEF IInv, OrdersWereAsked
    <3>3. request[d].slot # r.slot
      BY <1>4, <3>2
    <3>4. \A x \in orders : x.token # request[d].token \/ x.slot # request[d].slot
      BY <1>11, <2>1, <3>1 DEF IInv, NotSoldOutByItself
    <3>. QED BY <1>5, <1>9, <3>3, <3>4
  <2>. QED BY <2>1 DEF NotSoldOutByItself
<1>. QED
  BY <1>14, <1>15, <1>16, <1>17, <1>19, <1>20, <1>21, <1>22, <1>23 DEF IInv

-----------------------------------------------------------------------------
(* The route does a step of its work on the email. *)

LEMMA MailStep ==
  ASSUME IInv, NEW c \in Calls, pc[c] \in InRoute,
         NEW next \in {"send", "noteSent", "noteFailed", "answered"},
         NEW reply \in Reply,
         pc' = [pc EXCEPT ![c] = next],
         answer' = [answer EXCEPT ![c] = reply],
         UNCHANGED <<open, tables, locks, request>>,
         reply.code \in {"ok", "error"},
         next # "answered" => reply.code = "ok",
         reply.code = "ok" => reply.reference = answer[c].reference,
         reply.email = "delivered" => answer[c].email = "delivered" \/ c \in sent',
         email' \in [Tokens -> Statuses],
         \A t \in Tokens \ {request[c].token} : email'[t] = email[t],
         email'[request[c].token] # "none",
         email'[request[c].token] = "pending" =>
            email[request[c].token] = "pending" /\ next = "answered" /\ sent' = sent,
         email'[request[c].token] = "delivered" =>
            email[request[c].token] = "delivered" \/ c \in sent',
         sent' \in {sent, sent \cup {c}},
         next = "noteSent" => c \in sent',
         next # "answered" \/ c \in sent' =>
            c \in MailersOf(request[c].token) \/ email[request[c].token] = "pending"
  PROVE  IInv'
<1>. DEFINE t0 == request[c].token
<1>1. /\ pc \in [Calls -> Places] /\ pc' \in [Calls -> Places]
      /\ answer \in [Calls -> Reply] /\ answer' \in [Calls -> Reply]
      /\ sent \subseteq Calls
  BY DEF IInv, TypeOK, Places, InRoute
<1>2. /\ pc'[c] = next /\ answer'[c] = reply
      /\ \A d \in Calls \ {c} : pc'[d] = pc[d] /\ answer'[d] = answer[d]
  BY <1>1
<1>3. request[c] \in Request /\ t0 \in Tokens
  BY RequestIs
<1>4. /\ UNCHANGED <<open, submissions, counters, attempts, orders, request>>
      /\ UNCHANGED <<shares, attemptLock, tokenLock, slotLock>>
      /\ \A s : HasRoom(s)' = HasRoom(s)
  BY DEF tables, locks, HasRoom
<1>5. next \in (InRoute \ {"claim"}) \cup {"answered"} /\ next \notin InTransaction \cup {"idle"}
  BY DEF InRoute, InTransaction
<1>6. /\ answer[c].code = "ok" /\ IsConfirmed(t0) /\ answer[c].reference = submissions[t0]
      /\ answer[c].email = "delivered" => \E d \in sent : request[d].token = t0
      /\ pc[c] \notin {"idle", "answered"} \cup InTransaction
  BY DEF IInv, EmailFollowsOrder, AnswersAreHonest, InRoute, InTransaction
<1>7. TypeOK'
  <2>1. sent' \subseteq Calls
    BY <1>1
  <2>. QED BY <1>1, <1>4, <2>1 DEF IInv, TypeOK
<1>8. HoldsWhatItRead'
  <2>1. ASSUME NEW d \in Calls \ {c} PROVE Holds(d)'
    <3>1. Holds(d)
      BY DEF IInv, HoldsWhatItRead
    <3>. QED BY <1>2, <1>4, <3>1 DEF Holds
  <2>2. Holds(c)'
    BY <1>2, <1>3, <1>4, <1>5 DEF Holds, InTransaction
  <2>. QED BY <1>4, <2>1, <2>2 DEF IInv, HoldsWhatItRead
<1>9. OrdersWereAsked'
  <2>1. \A d \in Calls : answer'[d].code = "sold_out" => answer[d].code = "sold_out"
    BY <1>2
  <2>2. \A o \in orders : o.call \in Calls
    BY DEF IInv, TypeOK, Order
  <2>. QED BY <1>2, <1>4, <1>5, <2>1, <2>2 DEF IInv, OrdersWereAsked
<1>10. \A w \in Windows : CountedIn(w)' = CountedIn(w)
  <2>1. \A d \in Calls : answer'[d].code \in {"sold_out", "rejected"} <=>
                          answer[d].code \in {"sold_out", "rejected"}
    BY <1>2, <1>6
  <2>. QED BY <1>4, <2>1 DEF CountedIn, HasOrder
<1>11. AttemptsCover'
  BY <1>4, <1>10 DEF IInv, AttemptsCover
<1>12. \A t \in Tokens \ {t0} : MailersOf(t)' = MailersOf(t)
  BY <1>2, <1>4 DEF MailersOf
<1>13. MailersOf(t0)' \subseteq MailersOf(t0) \cup {c}
  BY <1>2, <1>4 DEF MailersOf
<1>14. c \in MailersOf(t0)' => c \in MailersOf(t0) \/ email[t0] = "pending"
  BY <1>2 DEF MailersOf, InRoute
<1>15. EmailFollowsOrder'
  <2>1. sent' \subseteq {d \in Calls : pc'[d] \in InRoute \cup {"answered"}}
    BY <1>1, <1>2, <1>5 DEF IInv, EmailFollowsOrder
  <2>2. /\ email[t0] \in {"none", "pending"} => MailersOf(t0) = {}
        /\ \A d, e \in MailersOf(t0) : d = e
        /\ email[t0] = "delivered" => \E d \in sent : request[d].token = t0
        /\ submissions[t0] # Nobody
    BY <1>3, <1>6, TokenOfOrder DEF IInv, EmailFollowsOrder
  <2>3. ASSUME NEW t \in Tokens
        PROVE  /\ email'[t] = "none" <=> submissions'[t] = Nobody
               /\ email'[t] \in {"none", "pending"} => MailersOf(t)' = {}
               /\ \A d, e \in MailersOf(t)' : d = e
               /\ email'[t] = "delivered" => \E d \in sent' : request'[d].token = t
    <3>1. CASE t = t0
      <4>1. email'[t0] # "none" /\ submissions'[t0] # Nobody
        BY <1>4, <2>2
      <4>2. email'[t0] = "pending" => MailersOf(t0)' = {}
        <5>1. SUFFICES ASSUME email'[t0] = "pending" PROVE MailersOf(t0)' = {}
          OBVIOUS
        <5>2. email[t0] = "pending" /\ next = "answered" /\ sent' = sent
          BY <5>1
        <5>3. MailersOf(t0) = {}
          BY <2>2, <5>2
        <5>4. c \notin sent
          BY <5>3 DEF MailersOf
        <5>5. c \notin MailersOf(t0)'
          BY <1>2, <5>2, <5>4 DEF MailersOf, InRoute
        <5>. QED BY <1>13, <5>3, <5>5
      <4>3. \A d, e \in MailersOf(t0)' : d = e
        BY <1>13, <1>14, <2>2
      <4>4. email'[t0] = "delivered" => \E d \in sent' : request'[d].token = t0
        BY <1>4, <2>2
      <4>. QED BY <3>1, <4>1, <4>2, <4>3, <4>4
    <3>2. CASE t # t0
      BY <1>4, <1>12, <3>2 DEF IInv, EmailFollowsOrder
    <3>. QED BY <3>1, <3>2
  <2>4. \A d \in Calls :
          /\ pc'[d] \in InRoute => answer'[d].code = "ok"
          /\ pc'[d] = "noteSent" => d \in sent'
    BY <1>2 DEF IInv, EmailFollowsOrder, InRoute
  <2>. QED BY <2>1, <2>3, <2>4 DEF EmailFollowsOrder
<1>16. SlotsAreHonest' /\ OneOrderPerToken'
  BY <1>4 DEF IInv, SlotsAreHonest, OrdersOf, OneOrderPerToken
<1>17. AnswersAreHonest'
  <2>1. ASSUME NEW d \in Calls \ {c}
        PROVE  /\ answer'[d].code # "retry"
               /\ HasOrder(d)' => answer'[d].code \in {"ok", "error"}
               /\ answer'[d].code = "ok" =>
                    /\ request'[d].token \in Tokens
                    /\ IsConfirmed(request[d].token)'
                    /\ answer'[d].reference = submissions'[request'[d].token]
                    /\ answer'[d].email = "delivered" =>
                        \E e \in sent' : request'[e].token = request'[d].token
    BY <1>2, <1>4 DEF IInv, AnswersAreHonest, HasOrder, IsConfirmed
  <2>2. /\ IsConfirmed(request[c].token)'
        /\ reply.email = "delivered" => \E e \in sent' : request'[e].token = t0
    BY <1>4, <1>6 DEF IsConfirmed
  <2>. QED BY <1>2, <1>3, <1>4, <1>6, <2>1, <2>2 DEF AnswersAreHonest
<1>18. NotSoldOutByItself'
  BY <1>2, <1>4 DEF IInv, NotSoldOutByItself
<1>. QED
  BY <1>7, <1>8, <1>9, <1>11, <1>15, <1>16, <1>17, <1>18 DEF IInv

-----------------------------------------------------------------------------
(* The page is archived or restored, or nothing happens. *)

LEMMA OpenStep ==
  ASSUME IInv, open' \in BOOLEAN, shares # {} => open',
         UNCHANGED <<tables, mail, locks, request, pc, answer>>
  PROVE  IInv'
<1>1. /\ UNCHANGED <<submissions, counters, attempts, orders, email, sent>>
      /\ UNCHANGED <<shares, attemptLock, tokenLock, slotLock>>
  BY DEF tables, mail, locks
<1>2. TypeOK' /\ HoldsWhatItRead'
  BY <1>1 DEF IInv, TypeOK, HoldsWhatItRead, Holds, HasRoom
<1>3. OrdersWereAsked' /\ AttemptsCover'
  BY <1>1 DEF IInv, OrdersWereAsked, HasRoom, AttemptsCover, CountedIn, HasOrder
<1>4. EmailFollowsOrder'
  BY <1>1 DEF IInv, EmailFollowsOrder, MailersOf
<1>5. SlotsAreHonest' /\ OneOrderPerToken' /\ NotSoldOutByItself'
  BY <1>1 DEF IInv, SlotsAreHonest, OrdersOf, OneOrderPerToken, NotSoldOutByItself
<1>6. AnswersAreHonest'
  BY <1>1 DEF IInv, AnswersAreHonest, HasOrder, IsConfirmed
<1>. QED BY <1>2, <1>3, <1>4, <1>5, <1>6 DEF IInv

-----------------------------------------------------------------------------
(* The actions. *)

LEMMA TypesOfLocks ==
  ASSUME IInv
  PROVE  /\ request \in [Calls -> Request \cup {NoRequest}]
         /\ attempts \in [Windows -> Nat] /\ shares \in SUBSET Calls
         /\ attemptLock \in [Windows -> Calls \cup {Nobody}]
         /\ tokenLock \in [Tokens -> Calls \cup {Nobody}]
         /\ slotLock \in [Slots -> Calls \cup {Nobody}]
BY DEF IInv, TypeOK

LEMMA ReleaseIs ==
  ASSUME IInv, NEW c \in Calls, Release(c)
  PROVE  /\ shares' \in {shares, shares \ {c}}
         /\ attemptLock' \in [Windows -> Calls \cup {Nobody}]
         /\ tokenLock' \in [Tokens -> Calls \cup {Nobody}]
         /\ slotLock' \in [Slots -> Calls \cup {Nobody}]
         /\ \A w \in Windows : attemptLock[w] # c => attemptLock'[w] = attemptLock[w]
         /\ \A t \in Tokens : tokenLock[t] # c => tokenLock'[t] = tokenLock[t]
         /\ \A s \in Slots : slotLock[s] # c => slotLock'[s] = slotLock[s]
BY DEF IInv, TypeOK, Release

LEMMA ReplyIs ==
  \A code \in Refusals :
     /\ Refused(code) \in Reply /\ Refused(code).code = code
     /\ code # "ok"
BY DEF Refused, Reply, Refusals, Statuses

LEMMA ReplayIs ==
  ASSUME IInv, NEW c \in Calls, request[c].token \in Tokens,
         IsConfirmed(request[c].token)
  PROVE  /\ Replay(c) \in Reply /\ Replay(c).code = "ok"
         /\ Replay(c).reference = submissions[request[c].token]
         /\ Replay(c).email = email[request[c].token]
<1>1. submissions[request[c].token] \in Calls \cup {Nobody} /\ email[request[c].token] \in Statuses
  BY DEF IInv, TypeOK
<1>. QED BY <1>1 DEF Replay, Accepted, Reply

\* What Return answers, for a call whose attempt may be counted.
LEMMA ReturnStep ==
  ASSUME IInv, NEW c \in Calls, NEW reply \in Reply, Return(c, reply),
         pc[c] \in InTransaction,
         UNCHANGED <<open, submissions, counters, orders, mail, request>>,
         reply.code # "retry",
         reply.code = "ok" =>
            /\ IsConfirmed(request[c].token)
            /\ reply.reference = submissions[request[c].token]
            /\ reply.email = email[request[c].token],
         reply.code = "sold_out" =>
            ~HasRoom(request[c].slot) /\ submissions[request[c].token] = Nobody,
         \/ attempts' = attempts /\ reply.code \notin {"sold_out", "rejected"}
         \/ CountedAttempt(c) /\ pc[c] \in {"token", "count", "record"}
  PROVE  IInv'
<1>. DEFINE next == IF reply.code = "ok" /\ reply.email = "pending"
                    THEN "claim" ELSE "answered"
<1>1. /\ next \in {"claim", "answered"}
      /\ next = "claim" => reply.code = "ok"
      /\ pc' = [pc EXCEPT ![c] = next] /\ answer' = [answer EXCEPT ![c] = reply]
      /\ Release(c)
  BY DEF Return
<1>2. /\ request' \in [Calls -> Request \cup {NoRequest}] /\ request' = request
      /\ request'[c] \in Request /\ request[c].window \in Windows
  BY RequestIs, TypesOfLocks
<1>3. /\ attempts' \in [Windows -> Nat]
      /\ \A w \in Windows :
            \/ /\ attempts'[w] = attempts[w]
               /\ reply.code \in {"sold_out", "rejected"} => w # request'[c].window
            \/ /\ attempts'[w] = attempts[w] + 1 /\ attempts[w] < AttemptLimit
               /\ attemptLock[w] = c
  <2>1. CASE attempts' = attempts /\ reply.code \notin {"sold_out", "rejected"}
    BY <2>1, TypesOfLocks
  <2>2. CASE CountedAttempt(c) /\ pc[c] \in {"token", "count", "record"}
    <3>1. attempts' = [attempts EXCEPT ![request[c].window] = @ + 1]
      BY <2>2 DEF CountedAttempt
    <3>2. attemptLock[request[c].window] = c /\ attempts[request[c].window] < AttemptLimit
      BY <2>2 DEF IInv, HoldsWhatItRead, Holds
    <3>. QED BY <1>2, <3>1, <3>2, TypesOfLocks
  <2>. QED BY <2>1, <2>2
<1>. HIDE DEF next
<1>4. UNCHANGED <<open, submissions, counters, orders, mail>>
  OBVIOUS
<1>5. /\ reply.code = "ok" =>
            /\ IsConfirmed(request'[c].token)
            /\ reply.reference = submissions[request'[c].token]
            /\ reply.email = email[request'[c].token]
      /\ reply.code = "sold_out" =>
            ~HasRoom(request'[c].slot) /\ submissions[request'[c].token] = Nobody
      /\ \A d \in Calls \ {c} : request'[d] = request[d]
      /\ pc[c] \in InTransaction \cup {"idle"}
  BY <1>2
<1>6. /\ shares' \in {shares, shares \ {c}}
      /\ attemptLock' \in [Windows -> Calls \cup {Nobody}]
      /\ tokenLock' \in [Tokens -> Calls \cup {Nobody}]
      /\ slotLock' \in [Slots -> Calls \cup {Nobody}]
      /\ \A w \in Windows : attemptLock[w] # c => attemptLock'[w] = attemptLock[w]
      /\ \A t \in Tokens : tokenLock[t] # c => tokenLock'[t] = tokenLock[t]
      /\ \A s \in Slots : slotLock[s] # c => slotLock'[s] = slotLock[s]
  BY <1>1, ReleaseIs
<1>. QED
  BY <1>1, <1>2, <1>3, <1>4, <1>5, <1>6, LeaveStep

LEMMA RaiseStep ==
  ASSUME IInv, NEW c \in Calls, NEW code \in {"sold_out", "rejected"}, Raise(c, code),
         pc[c] \in {"token", "count", "record"},
         code = "sold_out" =>
            ~HasRoom(request[c].slot) /\ submissions[request[c].token] = Nobody
  PROVE  IInv'
<1>1. /\ Refused(code) \in Reply /\ Refused(code).code = code
      /\ code \notin {"ok", "retry"} /\ pc[c] \in InTransaction
  BY ReplyIs DEF Refusals, InTransaction
<1>. QED BY <1>1, ReturnStep DEF Raise

LEMMA CallKeeps ==
  ASSUME IInv, NEW c \in Calls, Call(c)
  PROVE  IInv'
<1>1. PICK r \in Request : request' = [request EXCEPT ![c] = r]
  BY DEF Call
<1>2. /\ request' \in [Calls -> Request \cup {NoRequest}] /\ request'[c] \in Request
      /\ \A d \in Calls \ {c} : request'[d] = request[d]
  BY <1>1, TypesOfLocks
<1>3. /\ pc[c] \in InTransaction \cup {"idle"}
      /\ UNCHANGED <<open, submissions, counters, attempts, orders, mail>>
      /\ UNCHANGED <<attemptLock, tokenLock, slotLock>>
  BY DEF Call, tables
<1>4. ASSUME NEW code \in {"invalid", "not_found"},
             answer' = [answer EXCEPT ![c] = Refused(code)],
             pc' = [pc EXCEPT ![c] = "answered"], UNCHANGED shares
      PROVE  IInv'
  <2>1. /\ Refused(code) \in Reply /\ Refused(code).code = code
        /\ code \notin {"ok", "retry", "sold_out", "rejected"}
    BY ReplyIs DEF Refusals
  <2>2. attempts' \in [Windows -> Nat] /\ \A w \in Windows : attempts'[w] = attempts[w]
    BY <1>3, TypesOfLocks
  <2>3. /\ shares' \in {shares, shares \ {c}}
        /\ attemptLock' \in [Windows -> Calls \cup {Nobody}]
        /\ tokenLock' \in [Tokens -> Calls \cup {Nobody}]
        /\ slotLock' \in [Slots -> Calls \cup {Nobody}]
    BY <1>3, <1>4, TypesOfLocks
  <2>. QED
    BY <1>2, <1>3, <1>4, <2>1, <2>2, <2>3, LeaveStep
<1>5. CASE /\ open
           /\ shares' = shares \cup {c}
           /\ pc' = [pc EXCEPT ![c] = "lookup"]
           /\ UNCHANGED answer
  <2>1. /\ shares' \in SUBSET Calls /\ shares \subseteq shares' /\ c \in shares'
        /\ "lookup" \in InTransaction
    BY <1>5, TypesOfLocks DEF InTransaction
  <2>2. UNCHANGED <<open, tables, mail, answer>>
    BY <1>3, <1>5 DEF tables
  <2>. QED
    BY <1>2, <1>3, <1>5, <2>1, <2>2, TypesOfLocks, MoveStep
<1>. QED BY <1>4, <1>5 DEF Call

LEMMA OpenIs ==
  ASSUME IInv, NEW c \in Calls, pc[c] \in InTransaction
  PROVE  open /\ c \in shares
BY DEF IInv, HoldsWhatItRead, Holds

LEMMA FindSubmissionKeeps ==
  ASSUME IInv, NEW c \in Calls, FindSubmission(c)
  PROVE  IInv'
<1>1. /\ pc[c] = "lookup" /\ pc[c] \in InTransaction
      /\ UNCHANGED <<open, tables, mail, request>>
      /\ UNCHANGED <<open, submissions, counters, orders, mail, request>> /\ attempts' = attempts
  BY DEF FindSubmission, InTransaction, tables
<1>2. request[c] \in Request /\ request[c].token \in Tokens
  BY <1>1, RequestIs
<1>3. CASE IsConfirmed(request[c].token) /\ Return(c, Replay(c))
  BY <1>1, <1>2, <1>3, ReplayIs, ReturnStep
<1>4. CASE pc' = [pc EXCEPT ![c] = "limit"] /\ UNCHANGED <<locks, answer>>
  <2>1. UNCHANGED <<shares, attemptLock, tokenLock, slotLock, answer>> /\ "limit" \in InTransaction
    BY <1>4 DEF locks, InTransaction
  <2>. QED BY <1>1, <1>2, <1>4, <2>1, TypesOfLocks, OpenIs, MoveStep
<1>. QED BY <1>3, <1>4 DEF FindSubmission

LEMMA CountAttemptKeeps ==
  ASSUME IInv, NEW c \in Calls, CountAttempt(c)
  PROVE  IInv'
<1>. DEFINE w == request[c].window
<1>1. /\ pc[c] = "limit" /\ pc[c] \in InTransaction /\ attemptLock[w] = Nobody
      /\ UNCHANGED <<open, tables, mail, request>>
      /\ UNCHANGED <<open, submissions, counters, orders, mail, request>> /\ attempts' = attempts
  BY DEF CountAttempt, InTransaction, tables
<1>2. request[c] \in Request /\ w \in Windows
  BY <1>1, RequestIs
<1>3. CASE Return(c, Refused("rate_limited"))
  <2>1. /\ Refused("rate_limited") \in Reply /\ Refused("rate_limited").code = "rate_limited"
    BY ReplyIs DEF Refusals
  <2>. QED BY <1>1, <1>3, <2>1, ReturnStep
<1>4. CASE /\ attempts[w] < AttemptLimit
           /\ attemptLock' = [attemptLock EXCEPT ![w] = c]
           /\ pc' = [pc EXCEPT ![c] = "token"]
           /\ UNCHANGED <<shares, tokenLock, slotLock, answer>>
  <2>1. /\ attemptLock' \in [Windows -> Calls \cup {Nobody}] /\ attemptLock'[w] = c
        /\ \A v \in Windows : attemptLock[v] # Nobody => attemptLock'[v] = attemptLock[v]
        /\ "token" \in InTransaction
    BY <1>1, <1>2, <1>4, TypesOfLocks DEF InTransaction
  <2>. QED BY <1>1, <1>2, <1>4, <2>1, TypesOfLocks, OpenIs, MoveStep
<1>. QED BY <1>3, <1>4 DEF CountAttempt

LEMMA InsertTokenKeeps ==
  ASSUME IInv, NEW c \in Calls, InsertToken(c)
  PROVE  IInv'
<1>. DEFINE t == request[c].token
<1>1. /\ pc[c] = "token" /\ pc[c] \in InTransaction /\ tokenLock[t] = Nobody
      /\ UNCHANGED <<open, mail, request>>
  BY DEF InsertToken, TokenFree, InTransaction
<1>2. request[c] \in Request /\ t \in Tokens
  BY <1>1, RequestIs
<1>3. CASE /\ submissions[t] # Nobody
           /\ Return(c, IF IsConfirmed(t) THEN Replay(c) ELSE Refused("retry"))
           /\ CountedAttempt(c)
           /\ UNCHANGED <<submissions, counters, orders>>
  <2>1. IsConfirmed(t)
    BY <1>2, <1>3, TokenOfOrder
  <2>2. Return(c, Replay(c))
    BY <1>3, <2>1
  <2>. QED BY <1>1, <1>2, <1>3, <2>1, <2>2, ReplayIs, ReturnStep
<1>4. CASE /\ submissions[t] = Nobody
           /\ tokenLock' = [tokenLock EXCEPT ![t] = c]
           /\ pc' = [pc EXCEPT ![c] = "count"]
           /\ UNCHANGED <<tables, shares, attemptLock, slotLock, answer>>
  <2>1. /\ tokenLock' \in [Tokens -> Calls \cup {Nobody}] /\ tokenLock'[t] = c
        /\ \A v \in Tokens : tokenLock[v] # Nobody => tokenLock'[v] = tokenLock[v]
        /\ "count" \in InTransaction
    BY <1>1, <1>2, <1>4, TypesOfLocks DEF InTransaction
  <2>2. attemptLock[request[c].window] = c /\ attempts[request[c].window] < AttemptLimit
    BY <1>1 DEF IInv, HoldsWhatItRead, Holds
  <2>. QED BY <1>1, <1>2, <1>4, <2>1, <2>2, TypesOfLocks, OpenIs, MoveStep
<1>. QED BY <1>3, <1>4 DEF InsertToken

LEMMA CountSlotKeeps ==
  ASSUME IInv, NEW c \in Calls, CountSlot(c)
  PROVE  IInv'
<1>. DEFINE s == request[c].slot
<1>1. pc[c] = "count" /\ pc[c] \in InTransaction /\ slotLock[s] = Nobody
  BY DEF CountSlot, InTransaction
<1>2. /\ request[c] \in Request /\ s \in Slots
      /\ attemptLock[request[c].window] = c /\ attempts[request[c].window] < AttemptLimit
      /\ tokenLock[request[c].token] = c /\ submissions[request[c].token] = Nobody
  BY <1>1, RequestIs DEF IInv, HoldsWhatItRead, Holds
<1>3. CASE ~HasRoom(s) /\ Raise(c, "sold_out")
  BY <1>1, <1>2, <1>3, RaiseStep
<1>4. CASE /\ HasRoom(s)
           /\ slotLock' = [slotLock EXCEPT ![s] = c]
           /\ pc' = [pc EXCEPT ![c] = "record"]
           /\ UNCHANGED <<open, tables, mail, shares, attemptLock, tokenLock, request, answer>>
  <2>1. /\ slotLock' \in [Slots -> Calls \cup {Nobody}] /\ slotLock'[s] = c
        /\ \A v \in Slots : slotLock[v] # Nobody => slotLock'[v] = slotLock[v]
        /\ "record" \in InTransaction
    BY <1>1, <1>2, <1>4, TypesOfLocks DEF InTransaction
  <2>. QED BY <1>1, <1>2, <1>4, <2>1, TypesOfLocks, OpenIs, MoveStep
<1>. QED BY <1>3, <1>4 DEF CountSlot

LEMMA AbortKeeps ==
  ASSUME IInv, NEW c \in Calls, Abort(c)
  PROVE  IInv'
<1>1. Refused("error") \in Reply /\ Refused("error").code = "error"
  BY ReplyIs DEF Refusals
<1>2. UNCHANGED <<open, submissions, counters, orders, mail, request>> /\ attempts' = attempts
  BY DEF Abort, tables
<1>. QED BY <1>1, <1>2, ReturnStep DEF Abort

LEMMA ClaimKeeps ==
  ASSUME IInv, NEW c \in Calls, ClaimConfirmationEmail(c)
  PROVE  IInv'
<1>. DEFINE t == request[c].token
<1>1. /\ pc[c] = "claim" /\ pc[c] \in InRoute
      /\ UNCHANGED <<open, tables, sent, locks, request>>
  BY DEF ClaimConfirmationEmail, InRoute
<1>2. t \in Tokens /\ email \in [Tokens -> Statuses] /\ answer \in [Calls -> Reply]
  BY <1>1, RequestIs DEF IInv, TypeOK
<1>3. /\ answer[c].code = "ok" /\ answer[c] \in Reply /\ IsConfirmed(t)
      /\ email[t] # "none"
  BY <1>1, <1>2, TokenOfOrder DEF IInv, EmailFollowsOrder, AnswersAreHonest
<1>4. c \in sent => c \in MailersOf(t)
  BY DEF MailersOf
<1>5. CASE /\ Claimable(t)
           /\ email' = [email EXCEPT ![t] = "sending"]
           /\ GoTo(c, "send")
  <2>1. /\ email' \in [Tokens -> Statuses] /\ email'[t] = "sending" /\ email[t] = "pending"
        /\ \A u \in Tokens \ {t} : email'[u] = email[u]
    BY <1>2, <1>5 DEF Claimable, Statuses
  <2>2. pc' = [pc EXCEPT ![c] = "send"] /\ answer' = [answer EXCEPT ![c] = answer[c]]
    BY <1>2, <1>5 DEF GoTo
  <2>. QED BY <1>1, <1>3, <2>1, <2>2, MailStep
<1>6. CASE ~Claimable(t) /\ Answer(c, answer[c]) /\ UNCHANGED email
  <2>1. /\ pc' = [pc EXCEPT ![c] = "answered"] /\ answer' = [answer EXCEPT ![c] = answer[c]]
        /\ email' = email /\ sent' = sent /\ email[t] # "pending"
    BY <1>1, <1>6 DEF Answer, Claimable
  <2>. QED BY <1>1, <1>2, <1>3, <1>4, <2>1, MailStep
<1>. QED BY <1>5, <1>6 DEF ClaimConfirmationEmail

\* A call past its claim is the one that mails for its token.
LEMMA MailerIs ==
  ASSUME IInv, NEW c \in Calls, pc[c] \in InRoute
  PROVE  /\ request[c].token \in Tokens
         /\ email \in [Tokens -> Statuses] /\ email[request[c].token] # "none"
         /\ answer \in [Calls -> Reply] /\ answer[c] \in Reply /\ answer[c].code = "ok"
         /\ pc[c] # "claim" =>
                /\ c \in MailersOf(request[c].token)
                /\ email[request[c].token] # "pending"
         /\ c \in sent => c \in MailersOf(request[c].token)
<1>1. request[c].token \in Tokens
  BY RequestIs
<1>2. email \in [Tokens -> Statuses] /\ answer \in [Calls -> Reply]
  BY DEF IInv, TypeOK
<1>3. answer[c].code = "ok" /\ IsConfirmed(request[c].token)
  BY DEF IInv, EmailFollowsOrder, AnswersAreHonest
<1>4. email[request[c].token] # "none"
  BY <1>1, <1>3, TokenOfOrder DEF IInv, EmailFollowsOrder
<1>5. pc[c] # "claim" \/ c \in sent => c \in MailersOf(request[c].token)
  BY DEF MailersOf
<1>6. c \in MailersOf(request[c].token) => email[request[c].token] # "pending"
  BY <1>1 DEF IInv, EmailFollowsOrder
<1>. QED BY <1>1, <1>2, <1>3, <1>4, <1>5, <1>6

LEMMA SendKeeps ==
  ASSUME IInv, NEW c \in Calls, SendConfirmation(c)
  PROVE  IInv'
<1>1. /\ pc[c] = "send" /\ pc[c] \in InRoute /\ pc[c] # "claim"
      /\ UNCHANGED <<open, tables, locks, request>> /\ email' = email
  BY DEF SendConfirmation, InRoute
<1>2. CASE sent' = sent \cup {c} /\ GoTo(c, "noteSent")
  <2>1. pc' = [pc EXCEPT ![c] = "noteSent"] /\ answer' = [answer EXCEPT ![c] = answer[c]]
    BY <1>2, MailerIs, <1>1 DEF GoTo
  <2>. QED BY <1>1, <1>2, <2>1, MailerIs, MailStep
<1>3. CASE GoTo(c, "noteFailed") /\ UNCHANGED sent
  <2>1. pc' = [pc EXCEPT ![c] = "noteFailed"] /\ answer' = [answer EXCEPT ![c] = answer[c]]
    BY <1>3, MailerIs, <1>1 DEF GoTo
  <2>. QED BY <1>1, <1>3, <2>1, MailerIs, MailStep
<1>. QED BY <1>2, <1>3 DEF SendConfirmation

LEMMA CompleteIs ==
  ASSUME IInv, NEW c \in Calls, pc[c] \in InRoute, pc[c] # "claim",
         NEW status \in {"delivered", "failed"},
         Complete(request[c].token, status) \/ UNCHANGED email
  PROVE  /\ email' \in [Tokens -> Statuses]
         /\ \A t \in Tokens \ {request[c].token} : email'[t] = email[t]
         /\ email'[request[c].token] \notin {"none", "pending"}
         /\ email'[request[c].token] = "delivered" =>
                email[request[c].token] = "delivered" \/ status = "delivered"
BY MailerIs DEF Complete, Statuses

LEMMA NoteSentKeeps ==
  ASSUME IInv, NEW c \in Calls, NoteSent(c)
  PROVE  IInv'
<1>. DEFINE delivered == [answer[c] EXCEPT !.email = "delivered"]
<1>1. /\ pc[c] = "noteSent" /\ pc[c] \in InRoute /\ pc[c] # "claim"
      /\ UNCHANGED <<open, tables, locks, request>> /\ sent' = sent
      /\ Complete(request[c].token, "delivered") \/ UNCHANGED email
  BY DEF NoteSent, InRoute
<1>2. c \in sent
  BY <1>1 DEF IInv, EmailFollowsOrder
<1>3. CASE Answer(c, delivered)
  <2>1. /\ delivered \in Reply /\ delivered.code = "ok"
        /\ delivered.reference = answer[c].reference
    BY <1>1, MailerIs DEF Reply, Statuses
  <2>. QED BY <1>1, <1>2, <1>3, <2>1, MailerIs, CompleteIs, MailStep DEF Answer
<1>4. CASE GoTo(c, "noteFailed")
  <2>1. pc' = [pc EXCEPT ![c] = "noteFailed"] /\ answer' = [answer EXCEPT ![c] = answer[c]]
    BY <1>1, <1>4, MailerIs DEF GoTo
  <2>. QED BY <1>1, <1>2, <2>1, MailerIs, CompleteIs, MailStep
<1>. QED BY <1>3, <1>4 DEF NoteSent

LEMMA NoteFailedKeeps ==
  ASSUME IInv, NEW c \in Calls, NoteFailed(c)
  PROVE  IInv'
<1>. DEFINE failed == [answer[c] EXCEPT !.email = "failed"]
<1>1. /\ pc[c] = "noteFailed" /\ pc[c] \in InRoute /\ pc[c] # "claim"
      /\ UNCHANGED <<open, tables, locks, request>> /\ sent' = sent
      /\ Complete(request[c].token, "failed")
      /\ Answer(c, failed) \/ Answer(c, Refused("error"))
  BY DEF NoteFailed, InRoute
<1>2. CASE Answer(c, failed)
  <2>1. /\ failed \in Reply /\ failed.code = "ok" /\ failed.email = "failed"
        /\ failed.reference = answer[c].reference
    BY <1>1, MailerIs DEF Reply, Statuses
  <2>. QED BY <1>1, <1>2, <2>1, MailerIs, CompleteIs, MailStep DEF Answer
<1>3. CASE Answer(c, Refused("error"))
  <2>1. /\ Refused("error") \in Reply /\ Refused("error").code = "error"
        /\ Refused("error").email = "none"
    BY ReplyIs DEF Refusals, Refused
  <2>. QED BY <1>1, <1>3, <2>1, MailerIs, CompleteIs, MailStep DEF Answer
<1>. QED BY <1>1, <1>2, <1>3

LEMMA RouteFailsKeeps ==
  ASSUME IInv, NEW c \in Calls, RouteFails(c)
  PROVE  IInv'
<1>1. /\ pc[c] \in InRoute
      /\ UNCHANGED <<open, tables, locks, request>> /\ email' = email /\ sent' = sent
      /\ pc' = [pc EXCEPT ![c] = "answered"]
      /\ answer' = [answer EXCEPT ![c] = Refused("error")]
  BY DEF RouteFails, Answer, mail
<1>2. /\ Refused("error") \in Reply /\ Refused("error").code = "error"
      /\ Refused("error").email = "none"
  BY ReplyIs DEF Refusals, Refused
<1>. QED BY <1>1, <1>2, MailerIs, MailStep

LEMMA StepKeeps == IInv /\ [Next]_vars => IInv'
<1>. SUFFICES ASSUME IInv, [Next]_vars PROVE IInv'
  OBVIOUS
<1>1. ASSUME NEW c \in Calls, Submit(c) PROVE IInv'
  BY <1>1, FindSubmissionKeeps, CountAttemptKeeps, InsertTokenKeeps, CountSlotKeeps,
     CommitStep DEF Submit
<1>2. ASSUME NEW c \in Calls, ConfirmByEmail(c) PROVE IInv'
  BY <1>2, ClaimKeeps, SendKeeps, NoteSentKeeps, NoteFailedKeeps DEF ConfirmByEmail
<1>3. CASE Archive
  <2>1. open' \in BOOLEAN /\ (shares # {} => open')
    BY <1>3 DEF Archive
  <2>. QED BY <1>3, <2>1, OpenStep DEF Archive
<1>4. CASE Restore
  <2>1. open' \in BOOLEAN /\ (shares # {} => open')
    BY <1>4 DEF Restore
  <2>. QED BY <1>4, <2>1, OpenStep DEF Restore
<1>5. CASE UNCHANGED vars
  <2>1. open' \in BOOLEAN /\ (shares # {} => open')
    BY <1>5 DEF vars, IInv, TypeOK, HoldsWhatItRead
  <2>. QED BY <1>5, <2>1, OpenStep DEF vars
<1>6. ASSUME NEW c \in Calls, CheckFails(c) PROVE IInv'
  BY <1>6, RaiseStep DEF CheckFails
<1>. QED
  BY <1>1, <1>2, <1>3, <1>4, <1>5, <1>6, CallKeeps, AbortKeeps, RouteFailsKeeps DEF Next

-----------------------------------------------------------------------------
(* The theorems. *)

\* In every reachable state a call holds what it read, an order was asked for
\* and its attempt counted, and at most one call mails for a token.
THEOREM Invariance == Spec => []IInv
BY InitInvariant, StepKeeps, PTL DEF Spec

\* Every variable stays in its type.
THEOREM TypeCorrect == Spec => []TypeOK
<1>1. IInv => TypeOK
  BY DEF IInv
<1>. QED BY <1>1, Invariance, PTL

\* No slot is sold beyond its capacity, and its counter counts its orders.
THEOREM CapacityHeld == Spec => []SlotsAreHonest
<1>1. IInv => SlotsAreHonest
  BY DEF IInv
<1>. QED BY <1>1, Invariance, PTL

\* A token places at most one order, however often it is sent.
THEOREM TokenOrdersOnce == Spec => []OneOrderPerToken
<1>1. IInv => OneOrderPerToken
  BY DEF IInv
<1>. QED BY <1>1, Invariance, PTL

\* Answers agree with the one order of their token, retries included.
THEOREM AnswersMatch == Spec => []AnswersAreHonest
<1>1. IInv => AnswersAreHonest
  BY DEF IInv
<1>. QED BY <1>1, Invariance, PTL

\* Orders and refusals of a request hash together stay within its limit.
THEOREM RateIsHeld == Spec => []RateHeld
<1>1. IInv => RateHeld
  <2>. SUFFICES ASSUME IInv, NEW w \in Windows
                PROVE  Cardinality(CountedIn(w)) <= AttemptLimit
    BY DEF RateHeld
  <2>1. /\ Cardinality(CountedIn(w)) \in Nat /\ Cardinality(CountedIn(w)) <= attempts[w]
        /\ attempts[w] <= AttemptLimit /\ attempts[w] \in Nat
    BY FS_CardinalityType DEF IInv, AttemptsCover, TypeOK
  <2>. QED BY <2>1, LimitsAssumption
<1>. QED BY <1>1, Invariance, PTL

\* Only the orders of others make a slot sold out.
THEOREM SoldOutByOthers == Spec => []NotSoldOutByItself
<1>1. IInv => NotSoldOutByItself
  BY DEF IInv
<1>. QED BY <1>1, Invariance, PTL

\* The email of an order goes out at most once, and only after the order.
THEOREM EmailOnce == Spec => []EmailGoesOutOnce
<1>1. IInv => EmailGoesOutOnce
  <2>. SUFFICES ASSUME IInv, NEW t \in Tokens
                PROVE  /\ \A c, d \in sent :
                            request[c].token = t /\ request[d].token = t => c = d
                       /\ (\E c \in sent : request[c].token = t) =>
                            IsConfirmed(t) /\ email[t] # "pending"
                       /\ email[t] = "delivered" => \E c \in sent : request[c].token = t
    BY DEF EmailGoesOutOnce
  <2>1. \A c \in sent : request[c].token = t => c \in MailersOf(t)
    BY DEF IInv, TypeOK, MailersOf
  <2>2. /\ email[t] = "none" <=> ~IsConfirmed(t)
        /\ email[t] \in {"none", "pending"} => MailersOf(t) = {}
        /\ \A c, d \in MailersOf(t) : c = d
        /\ email[t] = "delivered" => \E c \in sent : request[c].token = t
    BY TokenOfOrder DEF IInv, EmailFollowsOrder
  <2>. QED BY <2>1, <2>2
<1>. QED BY <1>1, Invariance, PTL

\* An order is placed only while its page, experience and location are active.
THEOREM OrdersStayOpen == Spec => OrdersWhileOpen
<1>1. IInv /\ [Next]_vars => [orders' # orders => open]_vars
  <2>. SUFFICES ASSUME IInv, Next, orders' # orders PROVE open
    OBVIOUS
  <2>1. PICK c \in Calls : Commit(c)
    BY DEF Next, Call, Submit, ConfirmByEmail, FindSubmission, CountAttempt, CheckFails,
           InsertToken, CountSlot, Raise, Abort, ClaimConfirmationEmail, SendConfirmation,
           NoteSent, NoteFailed, RouteFails, Archive, Restore, tables
  <2>2. pc[c] \in InTransaction
    BY <2>1 DEF Commit, InTransaction
  <2>. QED BY <2>2, OpenIs
<1>. QED BY <1>1, Invariance, PTL DEF Spec, OrdersWhileOpen

\* What was recorded of an email is never overwritten.
THEOREM EmailStays == Spec => EmailIsFinal
<1>. DEFINE Final == \A t \in Tokens :
                        email[t] \in {"delivered", "failed"} => email'[t] = email[t]
<1>1. IInv /\ [Next]_vars => [Final]_vars
  <2>. SUFFICES ASSUME IInv, Next, NEW t \in Tokens, email[t] \in {"delivered", "failed"}
                PROVE  email'[t] = email[t]
    OBVIOUS
  <2>1. email \in [Tokens -> Statuses]
    BY DEF IInv, TypeOK
  <2>2. ASSUME NEW c \in Calls, Commit(c) PROVE email'[t] = email[t]
    <3>1. submissions[request[c].token] = Nobody /\ request[c].token \in Tokens
      BY <2>2, RequestIs DEF Commit, InTransaction, IInv, HoldsWhatItRead, Holds
    <3>2. email[request[c].token] = "none"
      BY <3>1 DEF IInv, EmailFollowsOrder
    <3>. QED BY <2>1, <2>2, <3>2 DEF Commit
  <2>3. ASSUME NEW c \in Calls, ConfirmByEmail(c) PROVE email'[t] = email[t]
    BY <2>1, <2>3 DEF ConfirmByEmail, ClaimConfirmationEmail, Claimable, SendConfirmation,
       NoteSent, NoteFailed, Complete
  <2>4. ASSUME NEW c \in Calls, Call(c) \/ CheckFails(c) \/ Abort(c) \/ RouteFails(c)
       PROVE email'[t] = email[t]
    BY <2>4 DEF Call, CheckFails, Raise, Abort, RouteFails, mail
  <2>5. ASSUME NEW c \in Calls, Submit(c) PROVE email'[t] = email[t]
    BY <2>2, <2>5 DEF Submit, FindSubmission, CountAttempt, InsertToken, CountSlot,
       Raise, mail
  <2>. QED BY <2>3, <2>4, <2>5 DEF Next, Archive, Restore, mail
<1>. QED BY <1>1, Invariance, PTL DEF Spec, EmailIsFinal
=============================================================================
