---------------------------- MODULE PublicBooking ----------------------------
(***************************************************************************)
(* submit_public_booking: the anonymous transaction behind a booking page. *)
(* A submission carries an idempotency token, the time slot it asks for    *)
(* and the hash its attempts are counted under.  Its transaction runs READ *)
(* COMMITTED: it looks for its token without a lock, counts the attempt in *)
(* a row it then holds, holds the slot's counter, and writes the records   *)
(* and the submission, whose token is unique.  All effects appear at its   *)
(* commit; an exception undoes all of them and is answered all the same.   *)
(*                                                                         *)
(* The checks on fields, services and the calendar read nothing another    *)
(* submission writes; they are one choice here: pass, refuse, or raise.    *)
(* One page's booking block and one business are modelled.                 *)
(***************************************************************************)
EXTENDS Naturals, FiniteSets

CONSTANTS
    Calls,      \* executions of submit_public_booking
    Tokens,     \* idempotency tokens
    Slots,      \* bookable start times
    Windows,    \* rows of booking_rate_limits: a request hash in a minute
    Nobody,     \* holder of a free lock, token of no submission
    Capacity,   \* schedule.capacity_per_slot
    AttemptLimit    \* attempts a row of booking_rate_limits allows

ASSUME NobodyAssumption == Nobody \notin Calls
ASSUME LimitsAssumption == Capacity \in Nat \ {0} /\ AttemptLimit \in Nat \ {0}

VARIABLES
    submissions,    \* booking_submissions: the call that made a token's row
    counters,       \* booking_slot_counters.reservation_count
    attempts,       \* booking_rate_limits.attempt_count
    bookings,       \* committed booking records: [call, token, slot]
    attemptLock,    \* which transaction holds a row of booking_rate_limits
    slotLock,       \* ... a row of booking_slot_counters
    tokenLock,      \* ... an uncommitted entry of the token's unique index
    request,        \* what a call was asked
    pc,             \* where the call's transaction is
    answer          \* what the call returns

tables == <<submissions, counters, attempts, bookings>>
locks == <<attemptLock, slotLock, tokenLock>>
vars == <<tables, locks, request, pc, answer>>

Request == [token: Tokens, slot: Slots, window: Windows]
NoRequest == [token |-> Nobody, slot |-> Nobody, window |-> Nobody]
Booking == [call: Calls, token: Tokens, slot: Slots]

\* A submission has two random references: its public_reference column and
\* the one drawn into its confirmation_json.  Either belongs to its call.
References == [call: Calls, from: {"column", "json"}]
Silent == [code |-> "none", reference |-> Nobody]
Refused(code) == [code |-> code, reference |-> Nobody]
Confirmed(c) ==
    [code |-> "ok", reference |-> [call |-> c, from |-> "column"]]
Replayed(c) == [code |-> "ok", reference |-> [call |-> c, from |-> "json"]]
Refusals == {"rate_limited", "invalid", "capacity_unavailable", "rejected"}
Reply == [code: {"none", "ok"} \cup Refusals, reference: References \cup {Nobody}]
Places == {"idle", "lookup", "limit", "check", "count", "record", "commit",
           "answered"}

-----------------------------------------------------------------------------
(* How a transaction ends. *)

\* The slot's counter stays locked.
MutRelease(c) ==
    /\ attemptLock' = [w \in Windows |->
            IF attemptLock[w] = c THEN Nobody ELSE attemptLock[w]]
    /\ tokenLock' = [t \in Tokens |->
            IF tokenLock[t] = c THEN Nobody ELSE tokenLock[t]]
    /\ UNCHANGED slotLock
Release(c) ==
    /\ attemptLock' = [w \in Windows |->
            IF attemptLock[w] = c THEN Nobody ELSE attemptLock[w]]
    /\ slotLock' = [s \in Slots |->
            IF slotLock[s] = c THEN Nobody ELSE slotLock[s]]
    /\ tokenLock' = [t \in Tokens |->
            IF tokenLock[t] = c THEN Nobody ELSE tokenLock[t]]

Answer(c, reply) ==
    /\ pc' = [pc EXCEPT ![c] = "answered"]
    /\ answer' = [answer EXCEPT ![c] = reply]

\* An early return commits, the counted attempt with it.
ReturnRefusal(c, code) ==
    /\ Answer(c, Refused(code))
    /\ Release(c)
    /\ attempts' = [attempts EXCEPT ![request[c].window] = @ + 1]
    /\ UNCHANGED <<submissions, counters, bookings, request>>

\* The handlers of the function: every effect, the attempt included, is
\* rolled back; a token that turns out to be taken is answered as a replay.
Rescue(c, reply) ==
    /\ Answer(c, reply)
    /\ Release(c)
    /\ UNCHANGED <<tables, request>>

-----------------------------------------------------------------------------
(* The statements of a submission. *)

\* A malformed submission, or one for a page that is not published, is
\* refused before anything is written.
Call(c) ==
    /\ pc[c] = "idle"
    /\ \E r \in Request : request' = [request EXCEPT ![c] = r]
    /\ \/ pc' = [pc EXCEPT ![c] = "lookup"] /\ UNCHANGED answer
       \/ Answer(c, Refused("invalid"))
    /\ UNCHANGED <<tables, locks>>

FindSubmission(c) ==
    LET found == submissions[request[c].token]
    IN /\ pc[c] = "lookup"
       /\ \/ found # Nobody /\ Answer(c, Replayed(found))
          \/ found = Nobody /\ pc' = [pc EXCEPT ![c] = "limit"]
             /\ UNCHANGED answer
       /\ UNCHANGED <<tables, locks, request>>

\* The upsert waits for the row; a refused attempt is counted too.
CountAttempt(c) ==
    LET w == request[c].window
    IN /\ pc[c] = "limit"
       /\ attemptLock[w] = Nobody
       /\ IF attempts[w] + 1 > AttemptLimit
          THEN ReturnRefusal(c, "rate_limited")
          ELSE /\ attemptLock' = [attemptLock EXCEPT ![w] = c]
               /\ pc' = [pc EXCEPT ![c] = "check"]
               /\ UNCHANGED <<tables, slotLock, tokenLock, request, answer>>

CheckSubmission(c) ==
    /\ pc[c] = "check"
    /\ \/ /\ pc' = [pc EXCEPT ![c] = "count"]
          /\ UNCHANGED <<tables, locks, request, answer>>
       \/ ReturnRefusal(c, "invalid")
       \/ Rescue(c, Refused("rejected"))

\* INSERT ... ON CONFLICT DO NOTHING, then SELECT ... FOR UPDATE: both wait
\* for a transaction that holds the slot's counter.
MutSlotFree(s) == TRUE  \* the SELECT has no FOR UPDATE
SlotFree(s) == slotLock[s] = Nobody
CountSlot(c) ==
    LET s == request[c].slot
    IN /\ pc[c] = "count"
       /\ SlotFree(s)
       /\ IF counters[s] >= Capacity
          THEN ReturnRefusal(c, "capacity_unavailable")
          ELSE /\ slotLock' = [slotLock EXCEPT ![s] = c]
               /\ pc' = [pc EXCEPT ![c] = "record"]
               /\ UNCHANGED <<tables, attemptLock, tokenLock, request, answer>>

\* The token has no unique constraint.
MutInsertSubmission(c) ==
    /\ pc[c] = "record"
    /\ pc' = [pc EXCEPT ![c] = "commit"]
    /\ UNCHANGED <<tables, locks, request, answer>>
\* The records, their edges and the submission; a token another transaction
\* is inserting is waited for, one it has inserted is a unique violation.
InsertSubmission(c) ==
    LET t == request[c].token
    IN /\ pc[c] = "record"
       /\ tokenLock[t] = Nobody
       /\ IF submissions[t] # Nobody
          THEN Rescue(c, Replayed(submissions[t]))
          ELSE /\ tokenLock' = [tokenLock EXCEPT ![t] = c]
               /\ pc' = [pc EXCEPT ![c] = "commit"]
               /\ UNCHANGED <<tables, attemptLock, slotLock, request, answer>>

\* Every exception is taken for a replay.
MutInsertFails(c) ==
    /\ pc[c] = "record"
    /\ Rescue(c, Replayed(c))
\* Anything else the inserts raise: an archived object, a taken reference.
InsertFails(c) ==
    /\ pc[c] = "record"
    /\ Rescue(c, Refused("rejected"))

Commit(c) ==
    LET r == request[c]
    IN /\ pc[c] = "commit"
       /\ submissions' = [submissions EXCEPT ![r.token] = c]
       /\ counters' = [counters EXCEPT ![r.slot] = @ + 1]
       /\ attempts' = [attempts EXCEPT ![r.window] = @ + 1]
       /\ bookings' = bookings \cup
                {[call |-> c, token |-> r.token, slot |-> r.slot]}
       /\ Answer(c, Confirmed(c))
       /\ Release(c)
       /\ UNCHANGED request

\* The connection or the server fails before the commit: nothing remains,
\* and nobody is answered.
Abort(c) ==
    /\ pc[c] \notin {"idle", "answered"}
    /\ Answer(c, Silent)
    /\ Release(c)
    /\ UNCHANGED <<tables, request>>

-----------------------------------------------------------------------------

Init ==
    /\ submissions = [t \in Tokens |-> Nobody]
    /\ counters = [s \in Slots |-> 0]
    /\ attempts = [w \in Windows |-> 0]
    /\ bookings = {}
    /\ attemptLock = [w \in Windows |-> Nobody]
    /\ slotLock = [s \in Slots |-> Nobody]
    /\ tokenLock = [t \in Tokens |-> Nobody]
    /\ request = [c \in Calls |-> NoRequest]
    /\ pc = [c \in Calls |-> "idle"]
    /\ answer = [c \in Calls |-> Silent]

Run(c) ==
    \/ FindSubmission(c) \/ CountAttempt(c) \/ CheckSubmission(c)
    \/ CountSlot(c) \/ InsertSubmission(c) \/ Commit(c)

Next == \E c \in Calls : Call(c) \/ Run(c) \/ InsertFails(c) \/ Abort(c)

Spec == Init /\ [][Next]_vars

\* PostgreSQL goes on with a call as long as no lock it wants is held, and need
\* not ever raise what InsertFails stands for.
FairSpec == Spec /\ \A c \in Calls : WF_vars(Run(c))

-----------------------------------------------------------------------------
(* Properties. *)

TypeOK ==
    /\ submissions \in [Tokens -> Calls \cup {Nobody}]
    /\ counters \in [Slots -> Nat] /\ attempts \in [Windows -> Nat]
    /\ bookings \subseteq Booking
    /\ attemptLock \in [Windows -> Calls \cup {Nobody}]
    /\ slotLock \in [Slots -> Calls \cup {Nobody}]
    /\ tokenLock \in [Tokens -> Calls \cup {Nobody}]
    /\ request \in [Calls -> Request \cup {NoRequest}]
    /\ pc \in [Calls -> Places]
    /\ answer \in [Calls -> Reply]

BookingsOf(s) == {b \in bookings : b.slot = s}
BookingsIn(w) == {b \in bookings : request[b.call].window = w}

(* A slot is never sold beyond its capacity, and its counter is exactly the
   bookings that exist for it, whatever races, rolls back or dies. *)
SlotsAreHonest ==
    \A s \in Slots :
        /\ counters[s] = Cardinality(BookingsOf(s))
        /\ counters[s] <= Capacity

(* A token, however often and however concurrently it is submitted, even for
   different slots, makes at most one booking, and its submission is it. *)
OneBookingPerToken ==
    \A t \in Tokens :
        {b.call : b \in {x \in bookings : x.token = t}} =
            {submissions[t]} \ {Nobody}

(* A caller told "ok" has a booking under its token; so does no caller whose
   own transaction was refused or broke. *)
AnswersAreHonest ==
    \A c \in Calls : pc[c] = "answered" =>
        /\ answer[c].code = "ok" => submissions[request[c].token] # Nobody
        /\ answer[c].code # "ok" => \A b \in bookings : b.call # c

(* One request hash gets no more bookings in a minute than attempts it may
   make, replays and concurrent attempts included. *)
RateHeld ==
    \A w \in Windows : Cardinality(BookingsIn(w)) <= AttemptLimit

(* What the safety properties rest on: a call holds the rows and the entry it
   went through, so that what it read in them is still so, and bookings are
   what answered calls asked for. *)
Counted == {"check", "count", "record", "commit"}
Counting == {"record", "commit"}
HoldsWhatItRead ==
    \A c \in Calls :
        LET r == request[c]
        IN /\ pc[c] \notin {"idle", "answered"} => r \in Request
           /\ pc[c] \in Counted =>
                attemptLock[r.window] = c /\ attempts[r.window] < AttemptLimit
           /\ pc[c] \in Counting =>
                slotLock[r.slot] = c /\ counters[r.slot] < Capacity
           /\ pc[c] = "commit" =>
                tokenLock[r.token] = c /\ submissions[r.token] = Nobody

BookingsWereAsked ==
    /\ IsFiniteSet(bookings)
    /\ \A b \in bookings :
        /\ pc[b.call] = "answered" /\ answer[b.call].code = "ok"
        /\ request[b.call] \in Request
        /\ b.token = request[b.call].token /\ b.slot = request[b.call].slot
    /\ \A w \in Windows : Cardinality(BookingsIn(w)) <= attempts[w]

IInv == /\ TypeOK /\ HoldsWhatItRead /\ BookingsWereAsked
        /\ SlotsAreHonest /\ OneBookingPerToken /\ AnswersAreHonest /\ RateHeld

(* Every call ends: no cycle of transactions waits for one another's rows. *)
CallEnds == \A c \in Calls : (pc[c] = "lookup") ~> (pc[c] = "answered")
=============================================================================
