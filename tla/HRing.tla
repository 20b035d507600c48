------------------------------- MODULE HRing -------------------------------
(***************************************************************************)
(* The event rings of the graphical framework: g_gui_event_queue of        *)
(* framework/src/hosc_runtime.c and event_queue of                         *)
(* services/src/runtime_gui_backend_x11.c, both an array of Cap cells with *)
(* a head and a tail of which one cell always stays unused. A push into a  *)
(* full ring moves the head over the oldest event.                         *)
(***************************************************************************)
EXTENDS Naturals, Sequences

CONSTANTS Cap,      \* HOSC_GUI_EVENT_QUEUE_CAP, X11_EVENT_QUEUE_CAP
          Events

ASSUME CapAssumption == Cap \in Nat /\ Cap > 1

Cells == 0 .. Cap - 1

Ring == [cells : [Cells -> Events], head : Cells, tail : Cells]

\* Mutant: the index does not wrap around.
AfterUnwrapped(i) == i + 1

After(i) == (i + 1) % Cap

IsEmpty(r) == r.head = r.tail

IsFull(r) == After(r.tail) = r.head

\* The cells keep what they hold.
Cleared(r) == [r EXCEPT !.head = 0, !.tail = 0]

\* Mutant: a full ring refuses the newest event.
PushedWithRoom(r, e) ==
  IF IsFull(r) THEN r
  ELSE [r EXCEPT !.cells[r.tail] = e, !.tail = After(r.tail)]

Pushed(r, e) ==
  [cells |-> [r.cells EXCEPT ![r.tail] = e],
   head  |-> IF IsFull(r) THEN After(r.head) ELSE r.head,
   tail  |-> After(r.tail)]

First(r) == r.cells[r.head]

Popped(r) == [r EXCEPT !.head = After(r.head)]

(***************************************************************************)
(* What the ring holds, the oldest event first.                            *)
(***************************************************************************)
Count(r) == IF r.head <= r.tail THEN r.tail - r.head ELSE r.tail + Cap - r.head

CellOf(r, i) ==
  IF r.head + i - 1 < Cap THEN r.head + i - 1 ELSE r.head + i - 1 - Cap

Contents(r) == [i \in 1 .. Count(r) |-> r.cells[CellOf(r, i)]]

=============================================================================
