------------------------------ MODULE CommandRpc ------------------------------
(***************************************************************************)
(* What the command channel promises to the tool that drives it: a remote  *)
(* procedure call.  A call is sent, executed at most once by the game, and *)
(* then answered; a call whose payload the game could not recognise is     *)
(* refused without being executed, and a call whose game process died is   *)
(* lost.  One call is in flight at a time (src/src/SB_CommandLayout.h:10). *)
(***************************************************************************)
EXTENDS Naturals

CONSTANT Calls

VARIABLE phase

Phases == {"new", "sent", "executed", "answered", "refused", "lost"}

InFlight(k) == phase[k] \in {"sent", "executed"}

Move(k, from, to) ==
  /\ phase[k] \in from
  /\ phase' = [phase EXCEPT ![k] = to]

-----------------------------------------------------------------------------
Init == phase = [k \in Calls |-> "new"]

Send(k)    == (\A j \in Calls : ~InFlight(j)) /\ Move(k, {"new"}, "sent")
Execute(k) == Move(k, {"sent"}, "executed")
Answer(k)  == Move(k, {"executed"}, "answered")
Refuse(k)  == Move(k, {"sent"}, "refused")
Lose(k)    == Move(k, {"sent", "executed"}, "lost")

Next == \E k \in Calls : Send(k) \/ Execute(k) \/ Answer(k) \/ Refuse(k) \/ Lose(k)

Spec == Init /\ [][Next]_phase

=============================================================================
