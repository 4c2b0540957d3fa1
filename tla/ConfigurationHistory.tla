------------------------- MODULE ConfigurationHistory -------------------------
(***************************************************************************)
(* What the configuration engine promises one business, without locks,     *)
(* change-set statuses, projections or transactions: a history of          *)
(* immutable snapshots that only grows, where every new snapshot was       *)
(* offered against the snapshot it replaces, and where nothing that was    *)
(* ever defined loses its identity.  ConfigurationLifecycle implements it. *)
(***************************************************************************)
EXTENDS Naturals, Sequences

CONSTANTS Entities,    \* tables and columns a snapshot may define
          Snapshots,   \* the well-typed snapshots
          None         \* id of an entity a snapshot does not define

VARIABLES history,     \* published snapshots, oldest first
          pending      \* candidates under review: [change, base, candidate]

hvars == <<history, pending>>

\* The next snapshot keeps every identity of the previous one.
KeepsIdentities(old, new) ==
  \A x \in Entities : old[x].id # None => new[x].id = old[x].id

\* A candidate may follow the newest snapshot.
MayFollow(candidate) ==
  /\ candidate \in Snapshots
  /\ candidate # history[Len(history)]
  /\ KeepsIdentities(history[Len(history)], candidate)

Start ==
  /\ \E baseline \in Snapshots : history = <<baseline>>
  /\ pending = {}

\* A candidate is put up for review against the newest snapshot.
Offer(p) ==
  /\ p.base = Len(history)
  /\ MayFollow(p.candidate)
  /\ pending' = pending \union {p}
  /\ UNCHANGED history

\* A reviewed candidate is withdrawn, refused or found out of date.
Close(p) ==
  /\ pending' = pending \ {p}
  /\ UNCHANGED history

\* A reviewed candidate takes effect, exactly on what it was offered against.
Publish(p) ==
  /\ p.base = Len(history)
  /\ MayFollow(p.candidate)
  /\ history' = Append(history, p.candidate)
  /\ pending' = pending \ {p}

\* A direct action is offered and published in one transaction.
PublishAtOnce(candidate) ==
  /\ MayFollow(candidate)
  /\ history' = Append(history, candidate)
  /\ UNCHANGED pending

Advance ==
  \/ \E p \in pending' : Offer(p)
  \/ \E p \in pending : Close(p) \/ Publish(p)
  \/ PublishAtOnce(history'[Len(history')])

History == Start /\ [][Advance]_hvars
===============================================================================
