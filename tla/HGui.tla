-------------------------------- MODULE HGui --------------------------------
(***************************************************************************)
(* The windows and events of the graphical framework: the GUI part of      *)
(* framework/src/hosc_runtime.c, the table of backends                     *)
(* (services/src/runtime_gui_backend.c) and the X11 and console backends,  *)
(* with a user and an X server around them.                                *)
(*                                                                         *)
(* The process's variables are the fields of one record, so that an        *)
(* operation is a function of it and can be used inside another one.       *)
(* Drawing changes none of them.                                           *)
(***************************************************************************)
EXTENDS HRing, HBind, FiniteSets

CONSTANTS MaxBackends,     \* MAX_BACKENDS
          MaxWindows,      \* bound: windows created in one behaviour
          MaxInputs,       \* bound: what the user does in one behaviour
          InputTypes,      \* what the user may do to a window
          Places,          \* where the pointer may be
          Mishaps          \* what may fail: "connect", "alloc"

EventTypes == {"NONE", "QUIT", "KEY_DOWN", "KEY_UP",
               "MOUSE_MOVE", "MOUSE_DOWN", "MOUSE_UP"}

AllEvents == [type : EventTypes, id : 0 .. MaxInputs, at : Places]

GuiAssumption == /\ MaxBackends \in Nat \ {0}
                 /\ MaxWindows \in Nat /\ MaxInputs \in Nat
                 /\ InputTypes \subseteq EventTypes \ {"NONE"}
                 /\ Mishaps \subseteq {"connect", "alloc"}
                 /\ Places # {}
                 /\ Events \subseteq AllEvents
                 /\ [type : InputTypes \cup {"NONE"}, id : 0 .. MaxInputs, at : Places]
                      \subseteq Events
ASSUME GuiAssumption

VARIABLES gui,     \* the globals of the process and its connection to the X server
          sent,    \* how many inputs the user has made
          out      \* the event that hosc_gui_poll_event returned last

gvars == <<gui, sent, out>>

\* An event of HOSCGUIEvent; id numbers the inputs of the user.
Event(type, id, at) == [type |-> type, id |-> id, at |-> at]

NoEvent == Event("NONE", 0, CHOOSE p \in Places : TRUE)

EmptyRing == [cells |-> [i \in Cells |-> NoEvent], head |-> 0, tail |-> 0]

-----------------------------------------------------------------------------
(* The table of backends. *)

\* hvm_gui_backend_register: a full table refuses, and no caller looks.
Registered(table, b) ==
  IF Len(table) >= MaxBackends THEN table ELSE Append(table, b)

Available(b, server) == b = "x11" => server

\* Mutant: the one registered last.
SelectedLast(table, server) ==
  table[Max({i \in DOMAIN table : Available(table[i], server)})]

\* hvm_gui_backend_select: the first one available, the console if none is.
Selected(table, server) ==
  LET usable == {i \in DOMAIN table : Available(table[i], server)}
  IN  IF usable = {} THEN "console" ELSE table[Min(usable)]

-----------------------------------------------------------------------------
(* The operations of the framework. `failed` is what fails this time. *)

\* x11_init: nothing to do when the connection is there already.
Connected(g, failed) == g.connected \/ "connect" \notin failed

\* hosc_gui_init
Initialised(g, failed) ==
  IF g.initialized THEN g
  ELSE LET table == Registered(Registered(g.table, "x11"), "console")
           b     == Selected(table, g.server)
       IN  [g EXCEPT !.table       = table,
                     !.active      = b,
                     !.backend     = b,
                     !.window      = 0,
                     !.events      = Cleared(@),
                     !.initialized = TRUE,
                     !.running     = FALSE,
                     !.connected   = IF b = "x11" THEN Connected(g, failed) ELSE @]

\* x11_create_window and console_create_window, of which the latter cannot fail.
BackendCreates(g, failed) ==
  g.active = "x11" => Connected(g, failed) /\ "alloc" \notin failed

\* hosc_gui_create_window_ex: an earlier window stays as it is, without a handle.
WithWindow(started, failed) ==
  LET g       == Initialised(started, failed)
      created == BackendCreates(g, failed)
  IN  [g EXCEPT !.connected = IF g.active = "x11" THEN Connected(g, failed) ELSE @,
                !.windows   = IF created
                              THEN Append(@, [backend |-> g.active, xid |-> TRUE,
                                              running |-> TRUE, freed |-> FALSE])
                              ELSE @,
                !.window    = IF created THEN Len(g.windows) + 1 ELSE 0,
                !.running   = TRUE,
                !.events    = Cleared(@)]

\* x11_destroy_window: the server answers with a DestroyNotify.
Destroyed(g, w) ==
  IF g.windows[w].backend = "x11"
  THEN [g EXCEPT !.windows[w] = [@ EXCEPT !.xid = FALSE, !.running = FALSE, !.freed = TRUE],
                 !.pending = IF g.windows[w].xid
                             THEN Append(@, [type |-> "DESTROY", id |-> 0,
                                             at |-> NoEvent.at, window |-> w])
                             ELSE @]
  ELSE g

\* Mutant: the handle is left behind.
ShutDownKeepsWindow(started) ==
  LET g == IF started.active # "none" /\ started.window # 0
           THEN Destroyed(started, started.window)
           ELSE started
  IN  [g EXCEPT !.events = Cleared(@), !.running = FALSE,
                !.backend = "console", !.initialized = FALSE]

\* Mutant: the flag of the process is left behind.
ShutDownRunning(started) ==
  LET g == IF started.active # "none" /\ started.window # 0
           THEN [Destroyed(started, started.window) EXCEPT !.window = 0]
           ELSE started
  IN  [g EXCEPT !.events = Cleared(@), !.backend = "console", !.initialized = FALSE]

\* hosc_gui_shutdown: the active backend stays, and so does its connection.
ShutDown(started) ==
  LET g == IF started.active # "none" /\ started.window # 0
           THEN [Destroyed(started, started.window) EXCEPT !.window = 0]
           ELSE started
  IN  [g EXCEPT !.events = Cleared(@), !.running = FALSE,
                !.backend = "console", !.initialized = FALSE]

\* What the pump does with one event of the connection.
Received(r, x) ==
  IF x.type = "DESTROY" THEN r ELSE Pushed(r, Event(x.type, x.id, x.at))

\* Mutant: what was not polled yet is thrown away.
PumpedAnew(g) ==
  IF g.active # "x11" \/ g.window = 0 THEN g
  ELSE LET types == {g.pending[i].type : i \in DOMAIN g.pending}
           w     == g.windows[g.window]
       IN  [g EXCEPT !.pending = << >>,
                     !.events  = Fold(Received, EmptyRing, g.pending),
                     !.windows[g.window] =
                       [w EXCEPT !.running = w.running /\ types \cap {"QUIT", "DESTROY"} = {},
                                 !.xid     = w.xid /\ "DESTROY" \notin types]]

(***************************************************************************)
(* x11_pump_events: reads everything that waits on the connection, for     *)
(* whichever window it is, into the ring of the active window, and then    *)
(* empties that ring into hosc_gui_event_callback. The ring of a window is *)
(* empty between two pumps.                                                *)
(***************************************************************************)
Pumped(g) ==
  IF g.active # "x11" \/ g.window = 0 THEN g
  ELSE LET local == Fold(Received, EmptyRing, g.pending)
           types == {g.pending[i].type : i \in DOMAIN g.pending}
           w     == g.windows[g.window]
       IN  [g EXCEPT !.pending = << >>,
                     !.events  = Fold(Pushed, @, Contents(local)),
                     !.windows[g.window] =
                       [w EXCEPT !.running = w.running /\ types \cap {"QUIT", "DESTROY"} = {},
                                 !.xid     = w.xid /\ "DESTROY" \notin types]]

\* hosc_gui_poll_event, after the pump it begins with.
Polled(pumped) ==
  IF IsEmpty(pumped.events)
  THEN [found |-> FALSE, event |-> NoEvent, gui |-> pumped]
  ELSE [found |-> TRUE, event |-> First(pumped.events),
        gui |-> [pumped EXCEPT !.events = Popped(@)]]

\* hosc_gui_is_running
IsRunning(g) ==
  IF g.active # "none" /\ g.window # 0 THEN g.windows[g.window].running
  ELSE g.running

-----------------------------------------------------------------------------
(* A user in front of the windows, and a program that calls the operations *)
(* in any order.                                                           *)

FreshProcess(server) ==
  [initialized |-> FALSE, running |-> FALSE, backend |-> "console",
   active |-> "none", window |-> 0, events |-> EmptyRing, table |-> << >>,
   connected |-> FALSE, windows |-> << >>, pending |-> << >>, server |-> server]

GInit == /\ gui \in {FreshProcess(server) : server \in BOOLEAN}
         /\ sent = 0
         /\ out = NoEvent

\* A window with an X id is on the screen, whether the process has its handle or not.
OnScreen(g) ==
  {w \in DOMAIN g.windows : g.windows[w].backend = "x11" /\ ~g.windows[w].freed}

\* The user presses a key, moves or clicks the mouse, or asks to close a window.
Input(w, type, at) ==
  /\ sent < MaxInputs
  /\ w \in OnScreen(gui)
  /\ sent' = sent + 1
  /\ gui' = [gui EXCEPT !.pending = Append(@, [type |-> type, id |-> sent + 1,
                                               at |-> at, window |-> w])]
  /\ UNCHANGED out

User == \E w \in 1 .. MaxWindows, type \in InputTypes, at \in Places : Input(w, type, at)

CallInit == /\ ~gui.initialized
            /\ \E failed \in SUBSET Mishaps : gui' = Initialised(gui, failed)
            /\ UNCHANGED <<sent, out>>

CallCreateWindow == /\ Len(gui.windows) < MaxWindows
                    /\ \E failed \in SUBSET Mishaps : gui' = WithWindow(gui, failed)
                    /\ UNCHANGED <<sent, out>>

CallPump == /\ gui' = Pumped(gui)
            /\ UNCHANGED <<sent, out>>

CallPoll == LET p == Polled(Pumped(gui))
            IN  /\ gui' = p.gui
                /\ out' = p.event
                /\ UNCHANGED sent

CallShutDown == /\ gui.initialized
                /\ gui' = ShutDown(gui)
                /\ UNCHANGED <<sent, out>>

GNext == User \/ CallInit \/ CallCreateWindow \/ CallPump \/ CallPoll \/ CallShutDown

GSpec == GInit /\ [][GNext]_gvars

-----------------------------------------------------------------------------
Backends == {"none", "console", "x11"}

\* What waits on the connection, and a window that a backend has created.
Arrivals == [type : InputTypes \cup {"DESTROY"}, id : 0 .. MaxInputs, at : Places, window : Nat]

Windows == [backend : Backends, xid : BOOLEAN, running : BOOLEAN, freed : BOOLEAN]

Processes ==
  [initialized : BOOLEAN, running : BOOLEAN, connected : BOOLEAN, server : BOOLEAN,
   backend : Backends \ {"none"}, active : Backends,
   window : Nat, windows : Seq(Windows),
   table : Seq(Backends \ {"none"}), events : Ring, pending : Seq(Arrivals)]

GTypeOK ==
  /\ gui \in Processes
  /\ Len(gui.table) <= MaxBackends
  /\ gui.window <= Len(gui.windows)
  /\ sent \in 0 .. MaxInputs /\ out \in AllEvents

(***************************************************************************)
(* The handle that operations go through never is one that x11_destroy_    *)
(* window has freed, across any number of shutdowns, failed creations and  *)
(* new windows.                                                            *)
(***************************************************************************)
HandleIsLive == gui.window # 0 => ~gui.windows[gui.window].freed

(***************************************************************************)
(* An X server that answers is used, though every start of the GUI         *)
(* registers the backends anew and the table of backends becomes full.     *)
(***************************************************************************)
PlatformFirst ==
  gui.initialized => (gui.backend = "x11" <=> gui.server)

\* The inputs that the program may still get to see.
Waiting(g) ==
  ({g.pending[i].id : i \in DOMAIN g.pending} \cup
   {Contents(g.events)[i].id : i \in 1 .. Count(g.events)}) \ {0}

(***************************************************************************)
(* Through both rings inputs reach the program in the order the user made  *)
(* them and each at most once, and a step loses an input only if it sweeps *)
(* the ring (a new window, a start, a shutdown) or if Cap - 1 newer ones   *)
(* have followed.                                                          *)
(***************************************************************************)
OnlyOldInputsLost ==
  [][/\ out'.id # 0 => \A i \in Waiting(gui') : out'.id < i
     /\ out'.id # 0 => out'.id = out.id \/ out'.id \in Waiting(gui)
     /\ CallPump \/ CallPoll =>
          \A i \in Waiting(gui) \ (Waiting(gui') \cup {out'.id}) :
             Cardinality({j \in Waiting(gui) : j > i}) >= Cap - 1]_gvars

(***************************************************************************)
(* Once the program has learned that its window was closed, no pump, poll, *)
(* shutdown or new start tells it otherwise: only creating a window does.  *)
(***************************************************************************)
ClosedStaysClosed ==
  [][gui.initialized /\ gui.window # 0 /\ ~IsRunning(gui) /\ ~CallCreateWindow
       => ~IsRunning(gui')]_gvars

\* A step that tells the program that the window it has open has stopped.
ToldStopped == /\ gui.window \in OnScreen(gui) /\ gui'.window = gui.window
               /\ IsRunning(gui) /\ ~IsRunning(gui')

AskedToClose == \E i \in DOMAIN gui.pending :
                  gui.pending[i].type = "QUIT" /\ gui.pending[i].window = gui.window

(***************************************************************************)
(* "Check if window is still running" (runtime_gui_backend.h:87): the      *)
(* program is not told that its X11 window has stopped before the user     *)
(* asked to close that window or the program shut the GUI down.            *)
(***************************************************************************)
StopsOnlyWhenClosed == [][ToldStopped => AskedToClose]_gvars

=============================================================================
