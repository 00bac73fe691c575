----------------------------- MODULE SnapshotCell -----------------------------
(***************************************************************************)
(* What the in-process bridge promises its consumers (docs/BRIDGE-ABI.md): *)
(* a cell that holds the latest published frame until it is closed for     *)
(* good.  A read is atomic: it returns the number of the frame it copied   *)
(* whole, or nothing when no frame was published or the cell is closed.    *)
(***************************************************************************)
EXTENDS Naturals

CONSTANT Readers

VARIABLES latest, closed, got

Nothing == 0

Init ==
  /\ latest = 0
  /\ closed = FALSE
  /\ got = [r \in Readers |-> Nothing]

Publish == ~closed /\ latest' = latest + 1 /\ UNCHANGED <<closed, got>>

Close == closed' = TRUE /\ UNCHANGED <<latest, got>>

Read(r) ==
  /\ got' = [got EXCEPT ![r] = IF closed THEN Nothing ELSE latest]
  /\ UNCHANGED <<latest, closed>>

Next == Publish \/ Close \/ \E r \in Readers : Read(r)

Spec == Init /\ [][Next]_<<latest, closed, got>>

=============================================================================
