---------------------------- MODULE HEventQueue ----------------------------
(***************************************************************************)
(* One event ring and its operations, in any order: hosc_gui_push_event,   *)
(* hosc_gui_pop_event, hosc_gui_clear_event_queue; x11_push_event and      *)
(* x11_pop_event of the X11 backend are the first two.                     *)
(***************************************************************************)
EXTENDS HRing

VARIABLES ring,
          did        \* the operation made last and the event it was about

qvars == <<ring, did>>

Did(op, e) == [op |-> op, event |-> e]

\* The arrays are static or calloced: their contents mean nothing yet.
QInit == /\ ring \in Ring
         /\ ring.head = 0
         /\ ring.tail = 0
         /\ \E e \in Events : did = Did("clear", e)

Push(e) == /\ ring' = Pushed(ring, e)
           /\ did' = Did("push", e)

Pop == /\ ~IsEmpty(ring)
       /\ ring' = Popped(ring)
       /\ did' = Did("pop", First(ring))

Clear == /\ ring' = Cleared(ring)
         /\ did' = [did EXCEPT !.op = "clear"]

QNext == (\E e \in Events : Push(e)) \/ Pop \/ Clear

QSpec == QInit /\ [][QNext]_qvars

QTypeOK == /\ ring \in Ring
           /\ did \in [op : {"push", "pop", "clear"}, event : Events]

Forgetful == INSTANCE HForgetful
               WITH Limit <- Cap - 1, queue <- Contents(ring), done <- did

(***************************************************************************)
(* The ring is a queue of Cap - 1 events that forgets the oldest: no event *)
(* is handed out twice or out of order, none is lost while there is room,  *)
(* and the newest is never the one that is lost.                           *)
(***************************************************************************)
IsForgetfulQueue == Forgetful!Spec

=============================================================================
