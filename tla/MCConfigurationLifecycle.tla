----------------------- MODULE MCConfigurationLifecycle -----------------------
(***************************************************************************)
(* Small businesses for TLC: one or two tables, two column keys, two field *)
(* types, and the edits the Table workspace and a reviewed proposal send.  *)
(***************************************************************************)
EXTENDS ConfigurationLifecycle, TLC

CONSTANTS c1, c2, c3, c4, \* change sets
          r1, r2,         \* records
          s1, s2,         \* database sessions
          notes, clients, \* tables
          name, size,     \* column keys
          text, number    \* field types

\* An edit from pairs of an entity and what it becomes.
On(type)  == [active |-> TRUE, type |-> type]
Off(type) == [active |-> FALSE, type |-> type]

CreateNotes    == (notes :> On(None)) @@ (<<notes, name>> :> On(text))
ArchiveNotes   == notes :> Off(None)
AddSize        == <<notes, size>> :> On(text)
RetypeSize     == <<notes, size>> :> On(number)
ArchiveSize    == <<notes, size>> :> Off(text)

\* The baseline projections: nothing yet, and a table with one column.
Empty == [x \in Entities |-> Absent]

HasTable(t) ==
  [x \in Entities |->
     IF x = t THEN [id |-> BaseId, active |-> TRUE, type |-> None]
     ELSE IF x = <<t, name>> THEN [id |-> BaseId, active |-> TRUE, type |-> text]
     ELSE Absent]

EmptyBaseline == {Empty}
NotesBaseline == {HasTable(notes)}

AllEdits    == {CreateNotes, ArchiveNotes, AddSize, RetypeSize, ArchiveSize}
UndoEdits   == {CreateNotes, AddSize}
===============================================================================
