------------------------------- MODULE Preorder -------------------------------
(***************************************************************************)
(* A public preorder from the request to its confirmation email.           *)
(*                                                                         *)
(* submit_public_preorder is one READ COMMITTED transaction.  It holds the *)
(* page, experience and location in share mode, looks for its token,       *)
(* counts the attempt, and then, in a block whose exceptions undo the      *)
(* block and are answered, inserts its token, counts itself into the slot  *)
(* and writes the order.  Unlike a booking it inserts the token before it  *)
(* waits for the slot, and a refusal keeps the attempt it counted.         *)
(*                                                                         *)
(* The route then claims the email of an order whose email is pending,     *)
(* sends it and records how that went, each in a transaction of its own,   *)
(* so that a crash or a lost answer can fall between any two of them.      *)
(***************************************************************************)
EXTENDS Naturals, FiniteSets

CONSTANTS
    Calls,      \* requests to the preorder route
    Tokens,     \* idempotency tokens
    Slots,      \* collection times at a location
    Windows,    \* rows of preorder_rate_limits: a request hash in 15 minutes
    Nobody,     \* holder of a free lock, token of no submission
    Capacity,   \* schedule.slot_capacity
    AttemptLimit    \* attempts a row of preorder_rate_limits allows

ASSUME NobodyAssumption == Nobody \notin Calls
ASSUME LimitsAssumption == Capacity \in Nat \ {0} /\ AttemptLimit \in Nat \ {0}

VARIABLES
    open,           \* the page, experience, association and location are active
    submissions,    \* preorder_submissions: the call that made a token's row
    email,          \* ... and its email_status
    counters,       \* preorder_slot_counters.reservation_count
    attempts,       \* preorder_rate_limits.attempt_count
    orders,         \* committed orders with a confirmation: [call, token, slot]
    sent,           \* the calls that got an email out
    shares,         \* the transactions that hold `open' in share mode
    attemptLock,    \* which transaction holds a row of preorder_rate_limits
    tokenLock,      \* ... an uncommitted entry of the token's unique index
    slotLock,       \* ... a row of preorder_slot_counters
    request,        \* what a call was asked
    pc,             \* where the call is
    answer          \* what the call returns, as far as it is known

tables == <<submissions, counters, attempts, orders>>
mail == <<email, sent>>
locks == <<shares, attemptLock, tokenLock, slotLock>>
vars == <<open, tables, mail, locks, request, pc, answer>>

Request == [token: Tokens, slot: Slots, window: Windows]
NoRequest == [token |-> Nobody, slot |-> Nobody, window |-> Nobody]
Order == [call: Calls, token: Tokens, slot: Slots]
Statuses == {"none", "pending", "sending", "delivered", "failed"}

Refusals == {"invalid", "not_found", "rate_limited", "sold_out", "rejected",
             "retry", "error"}
Reply == [code: {"none", "ok"} \cup Refusals,
          reference: Calls \cup {Nobody}, email: Statuses]
Silent == [code |-> "none", reference |-> Nobody, email |-> "none"]
Refused(code) == [code |-> code, reference |-> Nobody, email |-> "none"]
Accepted(reference, status) ==
    [code |-> "ok", reference |-> reference, email |-> status]

InTransaction == {"lookup", "limit", "token", "count", "record"}
InRoute == {"claim", "send", "noteSent", "noteFailed"}
Places == {"idle", "answered"} \cup InTransaction \cup InRoute

-----------------------------------------------------------------------------
(* How a transaction ends. *)

\* The slot is held by the session, as by an advisory lock.
MutRelease(c) ==
    /\ shares' = shares \ {c}
    /\ attemptLock' = [w \in Windows |->
            IF attemptLock[w] = c THEN Nobody ELSE attemptLock[w]]
    /\ tokenLock' = [t \in Tokens |->
            IF tokenLock[t] = c THEN Nobody ELSE tokenLock[t]]
    /\ UNCHANGED slotLock
Release(c) ==
    /\ shares' = shares \ {c}
    /\ attemptLock' = [w \in Windows |->
            IF attemptLock[w] = c THEN Nobody ELSE attemptLock[w]]
    /\ tokenLock' = [t \in Tokens |->
            IF tokenLock[t] = c THEN Nobody ELSE tokenLock[t]]
    /\ slotLock' = [s \in Slots |->
            IF slotLock[s] = c THEN Nobody ELSE slotLock[s]]

\* The route goes on with what the function returned: it answers, unless the
\* email of an accepted order is pending.
Return(c, reply) ==
    /\ answer' = [answer EXCEPT ![c] = reply]
    /\ pc' = [pc EXCEPT ![c] =
                IF reply.code = "ok" /\ reply.email = "pending"
                THEN "claim" ELSE "answered"]
    /\ Release(c)

CountedAttempt(c) == attempts' = [attempts EXCEPT ![request[c].window] = @ + 1]

\* RAISE inside the block: the block is undone and the code is returned; the
\* attempt was counted before the block.
Raise(c, code) ==
    /\ Return(c, Refused(code))
    /\ CountedAttempt(c)
    /\ UNCHANGED <<open, submissions, counters, orders, mail, request>>

-----------------------------------------------------------------------------
(* submit_public_preorder. *)

\* The route refuses a malformed request; the function one for a page that
\* is not active, whose rows it reads FOR SHARE.
Call(c) ==
    /\ pc[c] = "idle"
    /\ \E r \in Request : request' = [request EXCEPT ![c] = r]
    /\ \/ /\ answer' = [answer EXCEPT ![c] = Refused("invalid")]
          /\ pc' = [pc EXCEPT ![c] = "answered"]
          /\ UNCHANGED shares
       \/ /\ ~open
          /\ answer' = [answer EXCEPT ![c] = Refused("not_found")]
          /\ pc' = [pc EXCEPT ![c] = "answered"]
          /\ UNCHANGED shares
       \/ /\ open
          /\ shares' = shares \cup {c}
          /\ pc' = [pc EXCEPT ![c] = "lookup"]
          /\ UNCHANGED answer
    /\ UNCHANGED <<open, tables, mail, attemptLock, tokenLock, slotLock>>

\* What a row of preorder_submissions that has a confirmation answers.
MutReplay(c) ==     \* a reference is drawn for every answer
    Accepted(c, email[request[c].token])
Replay(c) ==
    Accepted(submissions[request[c].token], email[request[c].token])
IsConfirmed(t) == \E o \in orders : o.token = t

FindSubmission(c) ==
    /\ pc[c] = "lookup"
    /\ \/ IsConfirmed(request[c].token) /\ Return(c, Replay(c))
       \/ /\ ~IsConfirmed(request[c].token)
          /\ pc' = [pc EXCEPT ![c] = "limit"]
          /\ UNCHANGED <<locks, answer>>
    /\ UNCHANGED <<open, tables, mail, request>>

\* The upsert waits for the row and leaves a full one as it is.
CountAttempt(c) ==
    LET w == request[c].window
    IN /\ pc[c] = "limit"
       /\ attemptLock[w] = Nobody
       /\ \/ attempts[w] >= AttemptLimit /\ Return(c, Refused("rate_limited"))
          \/ /\ attempts[w] < AttemptLimit
             /\ attemptLock' = [attemptLock EXCEPT ![w] = c]
             /\ pc' = [pc EXCEPT ![c] = "token"]
             /\ UNCHANGED <<shares, tokenLock, slotLock, answer>>
       /\ UNCHANGED <<open, tables, mail, request>>

\* The checks before, between and after the next three statements, and
\* anything these raise.
CheckFails(c) ==
    /\ pc[c] \in {"token", "count", "record"}
    /\ Raise(c, "rejected")

\* The conflict is looked for among committed rows only.
MutTokenFree(t) == TRUE
TokenFree(t) == tokenLock[t] = Nobody
\* INSERT ... ON CONFLICT DO NOTHING waits for a transaction that inserts the
\* same token; if that one commits, its confirmation is the answer.
InsertToken(c) ==
    LET t == request[c].token
    IN /\ pc[c] = "token"
       /\ TokenFree(t)
       /\ \/ /\ submissions[t] # Nobody
             /\ Return(c, IF IsConfirmed(t) THEN Replay(c) ELSE Refused("retry"))
             /\ CountedAttempt(c)
             /\ UNCHANGED <<submissions, counters, orders>>
          \/ /\ submissions[t] = Nobody
             /\ tokenLock' = [tokenLock EXCEPT ![t] = c]
             /\ pc' = [pc EXCEPT ![c] = "count"]
             /\ UNCHANGED <<tables, shares, attemptLock, slotLock, answer>>
       /\ UNCHANGED <<open, mail, request>>

\* Off by one.
MutHasRoom(s) == counters[s] <= Capacity
HasRoom(s) == counters[s] < Capacity
\* The upsert of the slot's counter waits for its row and counts only while
\* there is room.
CountSlot(c) ==
    LET s == request[c].slot
    IN /\ pc[c] = "count"
       /\ slotLock[s] = Nobody
       /\ \/ ~HasRoom(s) /\ Raise(c, "sold_out")
          \/ /\ HasRoom(s)
             /\ slotLock' = [slotLock EXCEPT ![s] = c]
             /\ pc' = [pc EXCEPT ![c] = "record"]
             /\ UNCHANGED <<open, tables, mail, shares, attemptLock, tokenLock,
                            request, answer>>

\* The records, their links and the confirmation, then the commit.
Commit(c) ==
    LET r == request[c]
    IN /\ pc[c] = "record"
       /\ submissions' = [submissions EXCEPT ![r.token] = c]
       /\ email' = [email EXCEPT ![r.token] = "pending"]
       /\ counters' = [counters EXCEPT ![r.slot] = @ + 1]
       /\ orders' = orders \cup {[call |-> c, token |-> r.token, slot |-> r.slot]}
       /\ CountedAttempt(c)
       /\ Return(c, Accepted(c, "pending"))
       /\ UNCHANGED <<open, sent, request>>

\* The connection or the database fails before the commit.
Abort(c) ==
    /\ pc[c] \in InTransaction
    /\ Return(c, Refused("error"))
    /\ UNCHANGED <<open, tables, mail, request>>

-----------------------------------------------------------------------------
(* processPreorderSubmission, after an accepted order whose email is        *)
(* pending, and the functions it calls.                                     *)

Answer(c, reply) ==
    /\ pc' = [pc EXCEPT ![c] = "answered"]
    /\ answer' = [answer EXCEPT ![c] = reply]
GoTo(c, place) == pc' = [pc EXCEPT ![c] = place] /\ UNCHANGED answer

\* The claim forgets to look at the status.
MutClaimable(t) == TRUE
Claimable(t) == email[t] = "pending"
\* One of the calls that found the email pending claims it; for the others
\* the result stands as it is.
ClaimConfirmationEmail(c) ==
    LET t == request[c].token
    IN /\ pc[c] = "claim"
       /\ \/ /\ Claimable(t)
             /\ email' = [email EXCEPT ![t] = "sending"]
             /\ GoTo(c, "send")
          \/ ~Claimable(t) /\ Answer(c, answer[c]) /\ UNCHANGED email
       /\ UNCHANGED <<open, tables, sent, locks, request>>

\* The adapter sends, or throws and does not.
SendConfirmation(c) ==
    /\ pc[c] = "send"
    /\ \/ sent' = sent \cup {c} /\ GoTo(c, "noteSent")
       \/ GoTo(c, "noteFailed") /\ UNCHANGED sent
    /\ UNCHANGED <<open, tables, email, locks, request>>

Complete(t, status) ==
    email' = [email EXCEPT ![t] = IF @ = "sending" THEN status ELSE @]

\* complete(true): recorded and answered; recorded but not answered; or not
\* recorded.  Without an answer the route takes the email for a failed one.
NoteSent(c) ==
    LET t == request[c].token
    IN /\ pc[c] = "noteSent"
       /\ \/ Complete(t, "delivered")
             /\ Answer(c, [answer[c] EXCEPT !.email = "delivered"])
          \/ Complete(t, "delivered") /\ GoTo(c, "noteFailed")
          \/ GoTo(c, "noteFailed") /\ UNCHANGED email
       /\ UNCHANGED <<open, tables, sent, locks, request>>

\* complete(false), which nothing catches: its answer may be lost too.
NoteFailed(c) ==
    /\ pc[c] = "noteFailed"
    /\ Complete(request[c].token, "failed")
    /\ \/ Answer(c, [answer[c] EXCEPT !.email = "failed"])
       \/ Answer(c, Refused("error"))
    /\ UNCHANGED <<open, tables, sent, locks, request>>

\* A call of the database fails or its answer is lost where the route does
\* not catch it, or the server dies: nobody is told of the order.
RouteFails(c) ==
    /\ pc[c] \in InRoute
    /\ Answer(c, Refused("error"))
    /\ UNCHANGED <<open, tables, mail, locks, request>>

-----------------------------------------------------------------------------
(* Publication of a configuration that archives or restores one of the rows *)
(* a submission holds in share mode.                                        *)

MutArchive ==   \* the rows are read without FOR SHARE
    open /\ open' = FALSE /\ UNCHANGED <<tables, mail, locks, request, pc, answer>>
Archive ==
    /\ open
    /\ shares = {}
    /\ open' = FALSE
    /\ UNCHANGED <<tables, mail, locks, request, pc, answer>>

Restore ==
    /\ ~open
    /\ open' = TRUE
    /\ UNCHANGED <<tables, mail, locks, request, pc, answer>>

-----------------------------------------------------------------------------

Init ==
    /\ open = TRUE
    /\ submissions = [t \in Tokens |-> Nobody]
    /\ email = [t \in Tokens |-> "none"]
    /\ counters = [s \in Slots |-> 0]
    /\ attempts = [w \in Windows |-> 0]
    /\ orders = {} /\ sent = {} /\ shares = {}
    /\ attemptLock = [w \in Windows |-> Nobody]
    /\ tokenLock = [t \in Tokens |-> Nobody]
    /\ slotLock = [s \in Slots |-> Nobody]
    /\ request = [c \in Calls |-> NoRequest]
    /\ pc = [c \in Calls |-> "idle"]
    /\ answer = [c \in Calls |-> Silent]

Submit(c) ==
    \/ FindSubmission(c) \/ CountAttempt(c) \/ InsertToken(c)
    \/ CountSlot(c) \/ Commit(c)
ConfirmByEmail(c) ==
    \/ ClaimConfirmationEmail(c) \/ SendConfirmation(c)
    \/ NoteSent(c) \/ NoteFailed(c)

Next ==
    \/ \E c \in Calls :
        \/ Call(c) \/ Submit(c) \/ CheckFails(c) \/ Abort(c)
        \/ ConfirmByEmail(c) \/ RouteFails(c)
    \/ Archive
    \/ Restore

Spec == Init /\ [][Next]_vars

\* PostgreSQL goes on with a transaction as long as no lock it wants is held,
\* but need not ever raise; the route goes on with a call, its timeouts ending
\* what does not answer.
FairSpec ==
    Spec /\ \A c \in Calls : WF_vars(Submit(c)) /\ WF_vars(ConfirmByEmail(c))

-----------------------------------------------------------------------------
(* Properties. *)

TypeOK ==
    /\ open \in BOOLEAN
    /\ submissions \in [Tokens -> Calls \cup {Nobody}]
    /\ email \in [Tokens -> Statuses]
    /\ counters \in [Slots -> Nat] /\ attempts \in [Windows -> Nat]
    /\ orders \subseteq Order /\ sent \subseteq Calls /\ shares \subseteq Calls
    /\ attemptLock \in [Windows -> Calls \cup {Nobody}]
    /\ tokenLock \in [Tokens -> Calls \cup {Nobody}]
    /\ slotLock \in [Slots -> Calls \cup {Nobody}]
    /\ request \in [Calls -> Request \cup {NoRequest}]
    /\ pc \in [Calls -> Places]
    /\ answer \in [Calls -> Reply]

OrdersOf(s) == {o \in orders : o.slot = s}
HasOrder(c) == \E o \in orders : o.call = c
CountedIn(w) ==
    {c \in Calls : /\ request[c].window = w
                   /\ HasOrder(c) \/ answer[c].code \in {"sold_out", "rejected"}}
MailersOf(t) == {c \in Calls : /\ request[c].token = t
                               /\ c \in sent \/ pc[c] \in InRoute \ {"claim"}}

(* A slot is never sold beyond its capacity, and its counter is exactly the
   orders placed in it, whatever races, is refused halfway or dies. *)
SlotsAreHonest ==
    \A s \in Slots :
        /\ counters[s] = Cardinality(OrdersOf(s))
        /\ counters[s] <= Capacity

(* A token, however often and however concurrently it is sent, even for
   different slots, places at most one order, and its submission is it. *)
OneOrderPerToken ==
    \A t \in Tokens :
        {o.call : o \in {x \in orders : x.token = t}} =
            {submissions[t]} \ {Nobody}

(* Whoever is told "ok" gets the reference of the token's one order, the same
   on every retry; whoever is refused has left no order behind; nobody is told
   "retry", since a duplicate waits for the original; and an email said to be
   delivered was sent. *)
AnswersAreHonest ==
    \A c \in Calls :
        LET t == request[c].token
        IN /\ answer[c].code # "retry"
           /\ HasOrder(c) => answer[c].code \in {"ok", "error"}
           /\ answer[c].code = "ok" =>
                /\ t \in Tokens /\ IsConfirmed(t)
                /\ answer[c].reference = submissions[t]
                /\ answer[c].email = "delivered" =>
                    \E d \in sent : request[d].token = t

(* One request hash gets no more attempts in its window than its limit, the
   refused ones included: guessing is not free. *)
RateHeld ==
    \A w \in Windows : Cardinality(CountedIn(w)) <= AttemptLimit

(* No one is told that a slot is sold out because of an order under their own
   token: the token is settled before the slot is looked at. *)
NotSoldOutByItself ==
    \A c \in Calls : answer[c].code = "sold_out" =>
        \A o \in orders : o.token # request[c].token \/ o.slot # request[c].slot

(* The email of an order goes out at most once, only after the order has been
   committed, and never while its status says that nobody took it on; one that
   is recorded as delivered has gone out. *)
EmailGoesOutOnce ==
    \A t \in Tokens :
        /\ \A c, d \in sent :
            request[c].token = t /\ request[d].token = t => c = d
        /\ (\E c \in sent : request[c].token = t) =>
            IsConfirmed(t) /\ email[t] # "pending"
        /\ email[t] = "delivered" => \E c \in sent : request[c].token = t

(* An order is placed only while its page, experience and location are active,
   although these were checked several statements before. *)
OrdersWhileOpen == [][orders' # orders => open]_vars

(* What was recorded of an email stays: a completion whose answer was lost is
   not overwritten by the failure that the route then reports. *)
EmailIsFinal ==
    [][\A t \in Tokens :
        email[t] \in {"delivered", "failed"} => email'[t] = email[t]]_vars

(* Every submission and the email work after it end with an answer: no cycle
   of transactions waits for one another. *)
CallEnds ==
    \A c \in Calls : (pc[c] \in InTransaction \cup InRoute) ~> (pc[c] = "answered")

-----------------------------------------------------------------------------
(* What the safety properties rest on. *)

(* A call holds the rows it went through, so that what it read in them is
   still so. *)
Holds(c) ==
    LET r == request[c]
    IN /\ pc[c] = "idle" => answer[c] = Silent
       /\ pc[c] \in InTransaction => c \in shares /\ answer[c] = Silent
       /\ pc[c] \notin {"idle", "answered"} => r \in Request
       /\ pc[c] \in {"token", "count", "record"} =>
            attemptLock[r.window] = c /\ attempts[r.window] < AttemptLimit
       /\ pc[c] \in {"count", "record"} =>
            tokenLock[r.token] = c /\ submissions[r.token] = Nobody
       /\ pc[c] = "record" => slotLock[r.slot] = c /\ HasRoom(r.slot)
HoldsWhatItRead ==
    /\ shares # {} => open
    /\ \A c \in Calls : Holds(c)

(* An order is of a call that asked for it and is past its transaction, and
   a slot that was sold out stays so. *)
OrdersWereAsked ==
    /\ IsFiniteSet(orders)
    /\ \A o \in orders :
        /\ pc[o.call] \in InRoute \cup {"answered"}
        /\ request[o.call] \in Request
        /\ o.token = request[o.call].token /\ o.slot = request[o.call].slot
    /\ \A c \in Calls : answer[c].code = "sold_out" =>
        request[c] \in Request /\ ~HasRoom(request[c].slot)

(* The attempts counted in a window cover those that ordered or were refused;
   the rest turned out to be replays. *)
AttemptsCover ==
    \A w \in Windows :
        /\ IsFiniteSet(CountedIn(w))
        /\ Cardinality(CountedIn(w)) <= attempts[w]
        /\ attempts[w] <= AttemptLimit

(* An email that is being sent has one call that took it on. *)
EmailFollowsOrder ==
    /\ sent \subseteq {c \in Calls : pc[c] \in InRoute \cup {"answered"}}
    /\ \A t \in Tokens :
        /\ email[t] = "none" <=> submissions[t] = Nobody
        /\ email[t] \in {"none", "pending"} => MailersOf(t) = {}
        /\ \A c, d \in MailersOf(t) : c = d
        /\ email[t] = "delivered" => \E c \in sent : request[c].token = t
    /\ \A c \in Calls :
        /\ pc[c] \in InRoute => answer[c].code = "ok"
        /\ pc[c] = "noteSent" => c \in sent

IInv == /\ TypeOK /\ HoldsWhatItRead /\ OrdersWereAsked /\ AttemptsCover
        /\ EmailFollowsOrder
        /\ SlotsAreHonest /\ OneOrderPerToken /\ AnswersAreHonest
        /\ NotSoldOutByItself
=============================================================================
