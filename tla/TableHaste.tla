----------------------------- MODULE TableHaste -----------------------------
(***************************************************************************)
(* Two programs get the same messages in the same order (TableSync).  In   *)
(* calm, the animations of a message have ended when the next one comes    *)
(* (TablePlay); in hasty, any of them may still be waiting or running.     *)
(*                                                                         *)
(* Controller.DoEvents handles all messages that have arrived, one after   *)
(* the other, and then draws a frame: between two messages there may be    *)
(* many frames, one, or none.  Frame is a call of                          *)
(* AnimationManager.Animate, at any time.                                  *)
(*                                                                         *)
(* MaxQueue bounds the animations that may wait when a message comes.      *)
(***************************************************************************)
EXTENDS TablePlay

CONSTANT MaxQueue

VARIABLE hasty    \* the program with animations under way

hasteVars == <<vars, hasty>>

HasteInit == Init /\ hasty = calm

\* What takes no time is done, and an animation that does may be at its end.
Frame ==
  /\ hasty.queue # <<>>
  /\ LET k == Ready(hasty.queue)
     IN  hasty' = [hasty EXCEPT !.t = EndAllAnimations(@, SubSeq(hasty.queue, 1, k)),
                                !.queue = SubSeq(@, k + 1, Len(@))]
  /\ UNCHANGED vars

CanHandle == ~hasty.t.fault /\ Len(hasty.queue) <= MaxQueue

BothReceiveChange ==
  /\ CanHandle
  /\ \E m \in Change : ReceiveChange(m) /\ hasty' = Handled(hasty, m)
BothReceiveUndo == CanHandle /\ ReceiveUndo /\ hasty' = Undo(hasty)
BothReceiveRedo == CanHandle /\ ReceiveRedo /\ hasty' = Redo(hasty)

HasteNext == BothReceiveChange \/ BothReceiveUndo \/ BothReceiveRedo \/ Frame

HasteSpec == HasteInit /\ [][HasteNext]_hasteVars

-----------------------------------------------------------------------------

\* "Sate changes are run in sequence so the end result is predictable" (Animation.cs:11):
\* when its animations have ended, the hasty table is the calm one.  That is not so (run
\* grab).  It is for the messages that turn or flip pieces, show a board, and add, remove
\* or rearrange a hand (run turns): what they find running preventConflict ends first.
Predictable ==
  calm.t.fault \/ LET t == EndAllAnimations(hasty.t, hasty.queue) IN ~t.fault /\ Look(t) = Look(T)

=============================================================================
