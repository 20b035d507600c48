---------------------------- MODULE HGui_proofs ----------------------------
(***************************************************************************)
(* The windows and events of HGui, for rings, tables and windows of every  *)
(* number, any user and any order of calls: what the operations keep true  *)
(* of the process, and in which order inputs pass through both rings.      *)
(***************************************************************************)
EXTENDS HGui, HRing_proofs, FiniteSetTheorems

USE CapAssumption

-----------------------------------------------------------------------------
(* The rings.                                                              *)

LEMMA NoEventType == NoEvent \in Events /\ NoEvent \in AllEvents /\ NoEvent.at \in Places
<1>1. /\ Places # {} /\ MaxInputs \in Nat
      /\ [type : InputTypes \cup {"NONE"}, id : 0 .. MaxInputs, at : Places] \subseteq Events
      /\ Events \subseteq AllEvents
  BY GuiAssumption DEF GuiAssumption
<1>2. (CHOOSE p \in Places : TRUE) \in Places
  BY <1>1
<1>3. NoEvent \in [type : InputTypes \cup {"NONE"}, id : 0 .. MaxInputs, at : Places]
  BY <1>1, <1>2 DEF NoEvent, Event
<1>4. NoEvent.at \in Places
  BY <1>3
<1> QED
  BY <1>1, <1>3, <1>4

LEMMA EmptyRingType == EmptyRing \in Ring
BY NoEventType DEF EmptyRing, Ring, Cells

LEMMA ReceivedIsRing ==
  ASSUME NEW r \in Ring, NEW x \in Arrivals
  PROVE  Received(r, x) \in Ring
<1>1. CASE x.type = "DESTROY"
  BY <1>1 DEF Received
<1>2. CASE x.type # "DESTROY"
  <2>1. Event(x.type, x.id, x.at) \in
          [type : InputTypes \cup {"NONE"}, id : 0 .. MaxInputs, at : Places]
    BY <1>2 DEF Event, Arrivals
  <2>2. Event(x.type, x.id, x.at) \in Events
    BY <2>1, GuiAssumption DEF GuiAssumption
  <2> QED
    BY <1>2, <2>2, PushedIsRing DEF Received
<1> QED
  BY <1>1, <1>2

(* Events pushed one after the other. *)
LEMMA AllPushed ==
  ASSUME NEW r \in Ring, NEW seq \in Seq(Events)
  PROVE  \E reached \in [0 .. Len(seq) -> Ring] :
            /\ reached[0] = r
            /\ \A i \in 1 .. Len(seq) : reached[i] = Pushed(reached[i - 1], seq[i])
            /\ Fold(Pushed, r, seq) = reached[Len(seq)]
<1> DEFINE n == Len(seq)
           F == [p \in Ring \X (1 .. n) |-> Pushed(p[1], seq[p[2]])]
           Recursive(f) == f = [i \in 0 .. n |->
                                  IF i = 0 THEN r
                                  ELSE Bind(f[i - 1], LAMBDA a : Pushed(a, seq[i]))]
           reached == CHOOSE f : Recursive(f)
<1>1. n \in Nat /\ \A i \in 1 .. n : i - 1 \in 0 .. n /\ seq[i] \in Events
  OBVIOUS
<1>2. F \in [Ring \X (1 .. n) -> Ring]
  BY <1>1, PushedIsRing
<1>3. PICK g \in Results(n, Ring, r, F) : TRUE
  <2> HIDE DEF F, n
  <2> QED
    BY <1>1, <1>2, Recursion
<1>4. /\ g \in [0 .. n -> Ring] /\ g[0] = r
      /\ \A i \in 1 .. n : g[i] = Pushed(g[i - 1], seq[i])
  BY <1>1, <1>3 DEF Results
<1>5. Recursive(g)
  BY <1>1, <1>4 DEF Bind
<1>6. Recursive(reached)
  BY <1>5, Zenon
<1> HIDE DEF reached
<1>7. reached[0] = r /\ \A i \in 1 .. n : reached[i] = Pushed(reached[i - 1], seq[i])
  BY <1>1, <1>6 DEF Bind
<1> DEFINE P == {i \in 0 .. n : reached[i] \in Ring}
<1>8. \A i \in 0 .. n : i \in P
  <2>1. 0 \in P /\ \A i \in 1 .. n : i - 1 \in P => i \in P
    BY <1>1, <1>7, PushedIsRing
  <2> HIDE DEF P, n
  <2> QED
    BY <1>1, <2>1, Induction
<1>9. reached \in [0 .. n -> Ring]
  BY <1>6, <1>8
<1>10. Fold(Pushed, r, seq) = reached[n]
  BY DEF Fold, reached
<1> QED
  BY <1>7, <1>9, <1>10

(* What arrives, received one by one. *)
LEMMA AllReceived ==
  ASSUME NEW r \in Ring, NEW seq \in Seq(Arrivals)
  PROVE  \E reached \in [0 .. Len(seq) -> Ring] :
            /\ reached[0] = r
            /\ \A i \in 1 .. Len(seq) : reached[i] = Received(reached[i - 1], seq[i])
            /\ Fold(Received, r, seq) = reached[Len(seq)]
<1> DEFINE n == Len(seq)
           F == [p \in Ring \X (1 .. n) |-> Received(p[1], seq[p[2]])]
           Recursive(f) == f = [i \in 0 .. n |->
                                  IF i = 0 THEN r
                                  ELSE Bind(f[i - 1], LAMBDA a : Received(a, seq[i]))]
           reached == CHOOSE f : Recursive(f)
<1>1. n \in Nat /\ \A i \in 1 .. n : i - 1 \in 0 .. n /\ seq[i] \in Arrivals
  OBVIOUS
<1>2. F \in [Ring \X (1 .. n) -> Ring]
  BY <1>1, ReceivedIsRing
<1>3. PICK g \in Results(n, Ring, r, F) : TRUE
  <2> HIDE DEF F, n
  <2> QED
    BY <1>1, <1>2, Recursion
<1>4. /\ g \in [0 .. n -> Ring] /\ g[0] = r
      /\ \A i \in 1 .. n : g[i] = Received(g[i - 1], seq[i])
  BY <1>1, <1>3 DEF Results
<1>5. Recursive(g)
  BY <1>1, <1>4 DEF Bind
<1>6. Recursive(reached)
  BY <1>5, Zenon
<1> HIDE DEF reached
<1>7. reached[0] = r /\ \A i \in 1 .. n : reached[i] = Received(reached[i - 1], seq[i])
  BY <1>1, <1>6 DEF Bind
<1> DEFINE P == {i \in 0 .. n : reached[i] \in Ring}
<1>8. \A i \in 0 .. n : i \in P
  <2>1. 0 \in P /\ \A i \in 1 .. n : i - 1 \in P => i \in P
    BY <1>1, <1>7, ReceivedIsRing
  <2> HIDE DEF P, n
  <2> QED
    BY <1>1, <2>1, Induction
<1>9. reached \in [0 .. n -> Ring]
  BY <1>6, <1>8
<1>10. Fold(Received, r, seq) = reached[n]
  BY DEF Fold, reached
<1> QED
  BY <1>7, <1>9, <1>10

-----------------------------------------------------------------------------
(* The operations.                                                         *)

LiveHandle(g) == g.window # 0 => ~g.windows[g.window].freed
Platform(g) == /\ g.table # << >> => g.table[1] = "x11"
               /\ g.initialized => (g.backend = "x11" <=> g.server)

(* What every operation of the framework preserves. *)
Good(g) == /\ g \in Processes
           /\ Len(g.table) <= MaxBackends
           /\ g.window <= Len(g.windows)
           /\ LiveHandle(g)
           /\ Platform(g)

LEMMA ClearedIsRing ==
  ASSUME NEW r \in Ring
  PROVE  Cleared(r) \in Ring
BY ClearContents

(* x11 is registered first, and again only while there is room. *)
LEMMA RegisteredFacts ==
  ASSUME NEW table \in Seq(Backends \ {"none"}), NEW b \in Backends \ {"none"},
         Len(table) <= MaxBackends, table # << >> => table[1] = "x11",
         table = << >> => b = "x11"
  PROVE  LET t == Registered(table, b)
         IN  /\ t \in Seq(Backends \ {"none"}) /\ Len(t) <= MaxBackends
             /\ t # << >> /\ t[1] = "x11"
<1>1. MaxBackends \in Nat \ {0}
  BY GuiAssumption DEF GuiAssumption
<1>2. CASE Len(table) >= MaxBackends
  <2>1. table # << >>
    BY <1>1, <1>2, EmptySeq
  <2> QED
    BY <1>2, <2>1 DEF Registered
<1>3. CASE Len(table) < MaxBackends
  <2>1. Registered(table, b) = Append(table, b)
    BY <1>1, <1>3 DEF Registered
  <2>2. /\ Append(table, b) \in Seq(Backends \ {"none"})
        /\ Len(Append(table, b)) = Len(table) + 1
        /\ \A i \in 1 .. Len(table) : Append(table, b)[i] = table[i]
        /\ Append(table, b)[Len(table) + 1] = b
    BY AppendProperties
  <2>3. Append(table, b)[1] = "x11"
    <3>1. CASE table = << >>
      BY <2>2, <3>1, EmptySeq
    <3>2. CASE table # << >>
      BY <2>2, <3>2, EmptySeq
    <3> QED
      BY <3>1, <3>2
  <2>4. Append(table, b) # << >>
    BY <2>2, EmptySeq
  <2> QED
    BY <1>1, <1>3, <2>1, <2>2, <2>3, <2>4
<1> QED
  BY <1>1, <1>2, <1>3

(* The first one in the table is selected, if the server answers. *)
LEMMA SelectedFacts ==
  ASSUME NEW table \in Seq(Backends \ {"none"}), NEW server \in BOOLEAN,
         table # << >>, table[1] = "x11"
  PROVE  /\ Selected(table, server) \in Backends \ {"none"}
         /\ Selected(table, server) = "x11" <=> server
<1> DEFINE usable == {i \in DOMAIN table : Available(table[i], server)}
<1>1. /\ Len(table) \in Nat \ {0} /\ DOMAIN table = 1 .. Len(table)
      /\ usable \subseteq Nat
  BY EmptySeq, LenProperties
<1>2. CASE usable = {}
  <2>1. ~server
    BY <1>1, <1>2 DEF Available
  <2> QED
    BY <1>2, <2>1 DEF Selected, Backends
<1>3. CASE usable # {}
  <2>1. PICK least \in usable : \A i \in usable : least <= i
    BY <1>1, <1>3, LeastNumber
  <2>2. Min(usable) \in usable /\ \A i \in usable : Min(usable) <= i
    <3> HIDE DEF usable
    <3> QED
      BY <2>1 DEF Min
  <2>3. Selected(table, server) = table[Min(usable)]
    BY <1>3 DEF Selected
  <2>4. CASE server
    <3>1. 1 \in usable
      BY <1>1, <2>4 DEF Available
    <3>2. Min(usable) = 1
      <4> HIDE DEF usable
      <4>1. Min(usable) \in Nat /\ Min(usable) <= 1 /\ Min(usable) \in usable
        BY <1>1, <2>2, <3>1
      <4>2. Min(usable) # 0
        BY <1>1, <4>1 DEF usable
      <4> QED
        BY <4>1, <4>2
    <3> QED
      BY <2>3, <2>4, <3>2
  <2>5. CASE ~server
    BY <1>1, <2>2, <2>3, <2>5 DEF Available
  <2> QED
    BY <2>4, <2>5
<1> QED
  BY <1>2, <1>3

LEMMA InitialisedGood ==
  ASSUME NEW g, Good(g), NEW failed
  PROVE  Good(Initialised(g, failed)) /\ Initialised(g, failed).windows = g.windows
<1>1. CASE g.initialized
  BY <1>1 DEF Initialised
<1>2. CASE ~g.initialized
  <2> DEFINE first == Registered(g.table, "x11")
             table == Registered(first, "console")
             b == Selected(table, g.server)
  <2>1. /\ g \in Processes /\ g.table \in Seq(Backends \ {"none"}) /\ g.server \in BOOLEAN
        /\ g.connected \in BOOLEAN /\ g.events \in Ring
        /\ Len(g.table) <= MaxBackends
        /\ g.table # << >> => g.table[1] = "x11"
    BY DEF Good, Processes, Platform
  <2>2. /\ first \in Seq(Backends \ {"none"}) /\ Len(first) <= MaxBackends
        /\ first # << >> /\ first[1] = "x11"
    <3>1. "x11" \in Backends \ {"none"}
      BY DEF Backends
    <3> QED
      BY <2>1, <3>1, RegisteredFacts
  <2>3. /\ table \in Seq(Backends \ {"none"}) /\ Len(table) <= MaxBackends
        /\ table # << >> /\ table[1] = "x11"
    <3> HIDE DEF first
    <3> QED
      BY <2>2, RegisteredFacts DEF Backends
  <2>4. b \in Backends \ {"none"} /\ (b = "x11" <=> g.server)
    <3> HIDE DEF table
    <3> QED
      BY <2>1, <2>3, SelectedFacts
  <2>5. Cleared(g.events) \in Ring
    BY <2>1, ClearedIsRing
  <2>6. (IF b = "x11" THEN Connected(g, failed) ELSE g.connected) \in BOOLEAN
    BY <2>1 DEF Connected
  <2> DEFINE h == [g EXCEPT !.table = table, !.active = b, !.backend = b, !.window = 0,
                            !.events = Cleared(g.events), !.initialized = TRUE,
                            !.running = FALSE,
                            !.connected = IF b = "x11" THEN Connected(g, failed)
                                          ELSE g.connected]
  <2>7. Initialised(g, failed) = h
    BY <1>2 DEF Initialised
  <2> HIDE DEF table, b
  <2>8. /\ h \in Processes /\ h.table = table /\ h.window = 0 /\ h.windows = g.windows
        /\ h.backend = b /\ h.server = g.server
    BY <2>1, <2>3, <2>4, <2>5, <2>6 DEF Processes
  <2> HIDE DEF h
  <2>9. Good(h)
    <3>1. h.window <= Len(h.windows)
      BY <2>8 DEF Processes
    <3>2. LiveHandle(h) /\ Platform(h)
      BY <2>3, <2>4, <2>8 DEF LiveHandle, Platform
    <3> QED
      BY <2>3, <2>8, <3>1, <3>2 DEF Good
  <2> QED
    BY <2>7, <2>8, <2>9
<1> QED
  BY <1>1, <1>2

LEMMA WithWindowGood ==
  ASSUME NEW started, Good(started), NEW failed
  PROVE  Good(WithWindow(started, failed))
<1> DEFINE g == Initialised(started, failed)
           created == BackendCreates(g, failed)
           new == [backend |-> g.active, xid |-> TRUE, running |-> TRUE, freed |-> FALSE]
           connected == IF g.active = "x11" THEN Connected(g, failed) ELSE g.connected
           windows == IF created THEN Append(g.windows, new) ELSE g.windows
           window == IF created THEN Len(g.windows) + 1 ELSE 0
           h == [g EXCEPT !.connected = connected, !.windows = windows, !.window = window,
                          !.running = TRUE, !.events = Cleared(g.events)]
<1>1. Good(g)
  BY InitialisedGood
<1>2. WithWindow(started, failed) = h
  BY DEF WithWindow
<1> HIDE DEF g
<1>3. /\ g \in Processes /\ g.windows \in Seq(Windows) /\ g.active \in Backends
      /\ g.connected \in BOOLEAN /\ g.events \in Ring
  BY <1>1 DEF Good, Processes
<1>4. new \in Windows /\ new.freed = FALSE
  BY <1>3 DEF Windows
<1> HIDE DEF new, created
<1>5. /\ windows \in Seq(Windows) /\ window \in Nat /\ window <= Len(windows)
      /\ window # 0 => windows[window] = new
  <2>1. /\ Append(g.windows, new) \in Seq(Windows)
        /\ Len(Append(g.windows, new)) = Len(g.windows) + 1
        /\ Append(g.windows, new)[Len(g.windows) + 1] = new
        /\ Len(g.windows) \in Nat
    BY <1>3, <1>4, AppendProperties
  <2> QED
    BY <1>3, <2>1
<1>6. connected \in BOOLEAN
  BY <1>3 DEF Connected
<1>7. Cleared(g.events) \in Ring
  BY <1>3, ClearedIsRing
<1> HIDE DEF connected, windows, window
<1>8. /\ h \in Processes /\ h.windows = windows /\ h.window = window /\ h.table = g.table
      /\ h.initialized = g.initialized /\ h.backend = g.backend /\ h.server = g.server
  BY <1>3, <1>5, <1>6, <1>7 DEF Processes
<1> HIDE DEF h
<1>9. LiveHandle(h) /\ Platform(h)
  BY <1>1, <1>4, <1>5, <1>8 DEF LiveHandle, Platform, Good
<1>10. Good(h)
  BY <1>1, <1>5, <1>8, <1>9 DEF Good
<1> QED
  BY <1>2, <1>10

(* A window that is destroyed is not pointed to any more. *)
LEMMA DestroyedFacts ==
  ASSUME NEW g, Good(g), g.window # 0
  PROVE  LET h == Destroyed(g, g.window)
         IN  /\ h \in Processes /\ Len(h.windows) = Len(g.windows)
             /\ h.table = g.table /\ h.window = g.window /\ h.server = g.server
<1> DEFINE w == g.window
           gone == [g.windows[w] EXCEPT !.xid = FALSE, !.running = FALSE, !.freed = TRUE]
           notice == [type |-> "DESTROY", id |-> 0, at |-> NoEvent.at, window |-> w]
           windows == [g.windows EXCEPT ![w] = gone]
           pending == IF g.windows[w].xid THEN Append(g.pending, notice) ELSE g.pending
           h == [g EXCEPT !.windows = windows, !.pending = pending]
<1>1. /\ g \in Processes /\ w \in 1 .. Len(g.windows) /\ g.windows \in Seq(Windows)
      /\ g.pending \in Seq(Arrivals) /\ w \in Nat
  BY DEF Good, Processes
<1>2. gone \in Windows
  <2>1. g.windows[w] \in Windows
    BY <1>1
  <2> QED
    BY <2>1 DEF Windows
<1>3. notice \in Arrivals
  BY <1>1, NoEventType, GuiAssumption DEF Arrivals, GuiAssumption
<1>4. Destroyed(g, w) = IF g.windows[w].backend = "x11" THEN h ELSE g
  BY DEF Destroyed
<1> HIDE DEF gone, notice, w
<1>5. windows \in Seq(Windows) /\ Len(windows) = Len(g.windows)
  BY <1>1, <1>2, ExceptSeq
<1>6. pending \in Seq(Arrivals)
  BY <1>1, <1>3, AppendProperties
<1> HIDE DEF windows, pending
<1>7. /\ h \in Processes /\ h.windows = windows /\ h.table = g.table
      /\ h.window = g.window /\ h.server = g.server
  BY <1>1, <1>5, <1>6 DEF Processes
<1> HIDE DEF h
<1> QED
  BY <1>1, <1>4, <1>5, <1>7 DEF w

LEMMA ShutDownGood ==
  ASSUME NEW started, Good(started)
  PROVE  /\ Good(ShutDown(started))
         /\ ~IsRunning(ShutDown(started))
<1> DEFINE destroys == started.active # "none" /\ started.window # 0
           d == Destroyed(started, started.window)
           g == IF destroys THEN [d EXCEPT !.window = 0] ELSE started
           h == [g EXCEPT !.events = Cleared(g.events), !.running = FALSE,
                          !.backend = "console", !.initialized = FALSE]
<1>1. started \in Processes /\ started.window <= Len(started.windows)
  BY DEF Good
<1>2. /\ g \in Processes /\ Len(g.windows) = Len(started.windows)
      /\ g.table = started.table
      /\ g.window = IF destroys THEN 0 ELSE started.window
      /\ ~destroys => g = started
  <2>1. CASE destroys
    <3>1. /\ d \in Processes /\ Len(d.windows) = Len(started.windows)
          /\ d.table = started.table
      BY <2>1, DestroyedFacts
    <3> HIDE DEF d
    <3> QED
      BY <2>1, <3>1 DEF Processes
  <2>2. CASE ~destroys
    BY <1>1, <2>2
  <2> QED
    BY <2>1, <2>2
<1>3. ShutDown(started) = h
  BY DEF ShutDown
<1> HIDE DEF g
<1>4. Cleared(g.events) \in Ring
  BY <1>2, ClearedIsRing DEF Processes
<1>5. /\ h \in Processes /\ h.windows = g.windows /\ h.window = g.window /\ h.table = g.table
      /\ h.initialized = FALSE /\ h.running = FALSE /\ h.active = g.active
  BY <1>2, <1>4 DEF Processes, Backends
<1> HIDE DEF h
<1>6. LiveHandle(h) /\ Platform(h)
  BY <1>2, <1>5 DEF LiveHandle, Platform, Good
<1>7. h.window <= Len(h.windows)
  BY <1>1, <1>2, <1>5 DEF Processes
<1>8. Good(h)
  BY <1>2, <1>5, <1>6, <1>7 DEF Good
<1>9. ~IsRunning(h)
  BY <1>2, <1>5 DEF IsRunning
<1> QED
  BY <1>3, <1>8, <1>9

(* A pump changes what waits, and whether the window runs. *)
LEMMA PumpedFacts ==
  ASSUME NEW g, Good(g)
  PROVE  /\ Good(Pumped(g))
         /\ Pumped(g).window = g.window /\ Pumped(g).initialized = g.initialized
         /\ IsRunning(Pumped(g)) => IsRunning(g)
<1> DEFINE types == {g.pending[i].type : i \in DOMAIN g.pending}
           local == Fold(Received, EmptyRing, g.pending)
           events == Fold(Pushed, g.events, Contents(local))
           w == g.windows[g.window]
           new == [w EXCEPT !.running = w.running /\ types \cap {"QUIT", "DESTROY"} = {},
                            !.xid = w.xid /\ "DESTROY" \notin types]
           windows == [g.windows EXCEPT ![g.window] = new]
           h == [g EXCEPT !.pending = << >>, !.events = events, !.windows = windows]
<1>1. CASE g.active # "x11" \/ g.window = 0
  BY <1>1 DEF Pumped
<1>2. CASE g.active = "x11" /\ g.window # 0
  <2>1. /\ g \in Processes /\ g.window \in 1 .. Len(g.windows) /\ g.windows \in Seq(Windows)
        /\ g.pending \in Seq(Arrivals) /\ g.events \in Ring
    BY <1>2 DEF Good, Processes
  <2>2. w \in Windows
    BY <2>1
  <2>3. Pumped(g) = h
    BY <1>2 DEF Pumped
  <2>4. events \in Ring
    <3>1. local \in Ring
      <4>1. PICK reached \in [0 .. Len(g.pending) -> Ring] : local = reached[Len(g.pending)]
        BY <2>1, EmptyRingType, AllReceived
      <4> QED
        BY <2>1, <4>1
    <3>2. Contents(local) \in Seq(Events)
      BY <3>1, ContentsType
    <3> HIDE DEF local
    <3>3. PICK reached \in [0 .. Len(Contents(local)) -> Ring] :
            events = reached[Len(Contents(local))]
      BY <2>1, <3>2, AllPushed
    <3> QED
      BY <3>2, <3>3
  <2>5. /\ new \in Windows /\ new.freed = w.freed
        /\ new.running => w.running
    BY <2>2 DEF Windows
  <2> HIDE DEF new, events
  <2>6. /\ windows \in Seq(Windows) /\ Len(windows) = Len(g.windows)
        /\ windows[g.window] = new
    BY <2>1, <2>5, ExceptSeq
  <2>7. << >> \in Seq(Arrivals)
    BY EmptySeq
  <2> HIDE DEF windows
  <2>8. /\ h \in Processes /\ h.windows = windows /\ h.window = g.window
        /\ h.table = g.table /\ h.initialized = g.initialized /\ h.backend = g.backend
        /\ h.server = g.server /\ h.active = g.active
    BY <2>1, <2>4, <2>6, <2>7 DEF Processes
  <2> HIDE DEF h
  <2>9. LiveHandle(h) /\ Platform(h)
    BY <1>2, <2>5, <2>6, <2>8 DEF LiveHandle, Platform, Good
  <2>10. Good(h)
    BY <2>6, <2>8, <2>9 DEF Good
  <2>11. IsRunning(h) => IsRunning(g)
    BY <1>2, <2>5, <2>6, <2>8 DEF IsRunning
  <2> QED
    BY <2>3, <2>8, <2>10, <2>11
<1> QED
  BY <1>1, <1>2

LEMMA PolledFacts ==
  ASSUME NEW g, Good(g)
  PROVE  LET p == Polled(g)
         IN  /\ Good(p.gui) /\ p.event \in AllEvents
             /\ p.gui.window = g.window /\ p.gui.initialized = g.initialized
             /\ IsRunning(p.gui) = IsRunning(g)
<1>1. g \in Processes /\ g.events \in Ring
  BY DEF Good, Processes
<1>2. CASE IsEmpty(g.events)
  BY <1>2, NoEventType DEF Polled
<1>3. CASE ~IsEmpty(g.events)
  <2> DEFINE h == [g EXCEPT !.events = Popped(g.events)]
  <2>1. Popped(g.events) \in Ring /\ First(g.events) \in Events
    BY <1>1, <1>3, PopContents DEF First, Ring
  <2>2. First(g.events) \in AllEvents
    BY <2>1, GuiAssumption DEF GuiAssumption
  <2>3. /\ h \in Processes /\ h.windows = g.windows /\ h.window = g.window
        /\ h.table = g.table /\ h.initialized = g.initialized /\ h.backend = g.backend
        /\ h.server = g.server /\ h.active = g.active /\ h.running = g.running
    BY <1>1, <2>1 DEF Processes
  <2>4. Polled(g).gui = h /\ Polled(g).event = First(g.events)
    BY <1>3 DEF Polled
  <2> HIDE DEF h
  <2>5. Good(h) /\ IsRunning(h) = IsRunning(g)
    BY <2>3 DEF Good, LiveHandle, Platform, IsRunning
  <2> QED
    BY <2>2, <2>3, <2>4, <2>5
<1> QED
  BY <1>2, <1>3

-----------------------------------------------------------------------------
(* The behaviours.                                                         *)

GInv == Good(gui) /\ sent \in 0 .. MaxInputs /\ out \in AllEvents

LEMMA GInvImplies == GInv => GTypeOK /\ HandleIsLive /\ PlatformFirst
BY DEF GInv, Good, GTypeOK, HandleIsLive, LiveHandle, PlatformFirst, Platform

LEMMA FreshGood ==
  ASSUME NEW server \in BOOLEAN
  PROVE  Good(FreshProcess(server))
<1> DEFINE g == FreshProcess(server)
<1>1. /\ << >> \in Seq(Windows) /\ << >> \in Seq(Arrivals)
      /\ << >> \in Seq(Backends \ {"none"}) /\ Len(<< >>) = 0
  OBVIOUS
<1>2. g \in Processes
  BY <1>1, EmptyRingType DEF FreshProcess, Processes, Backends
<1>3. /\ g.table = << >> /\ g.window = 0 /\ g.windows = << >>
      /\ g.initialized = FALSE
  BY DEF FreshProcess
<1> QED
  BY <1>1, <1>2, <1>3, GuiAssumption DEF Good, LiveHandle, Platform, GuiAssumption

LEMMA GInitGood == GInit => GInv
<1> SUFFICES ASSUME GInit PROVE GInv
  OBVIOUS
<1>1. PICK server \in BOOLEAN : gui = FreshProcess(server)
  BY DEF GInit
<1>2. Good(gui)
  BY <1>1, FreshGood
<1> QED
  BY <1>2, NoEventType, GuiAssumption DEF GInit, GInv, GuiAssumption

LEMMA InputGood ==
  ASSUME GInv, User
  PROVE  GInv' /\ IsRunning(gui') = IsRunning(gui)
<1>1. PICK w \in 1 .. MaxWindows, type \in InputTypes, at \in Places : Input(w, type, at)
  BY DEF User
<1> DEFINE arrival == [type |-> type, id |-> sent + 1, at |-> at, window |-> w]
           pending == Append(gui.pending, arrival)
           h == [gui EXCEPT !.pending = pending]
<1>2. sent \in 0 .. MaxInputs /\ MaxInputs \in Nat /\ MaxWindows \in Nat
  BY GuiAssumption DEF GInv, GuiAssumption
<1>3. /\ sent < MaxInputs /\ sent' = sent + 1 /\ gui' = h /\ out' = out
  BY <1>1 DEF Input
<1>4. arrival \in Arrivals
  BY <1>2, <1>3 DEF Arrivals
<1>5. gui \in Processes /\ gui.pending \in Seq(Arrivals)
  BY DEF GInv, Good, Processes
<1> HIDE DEF arrival
<1>6. pending \in Seq(Arrivals)
  BY <1>4, <1>5, AppendProperties
<1> HIDE DEF pending
<1>7. /\ h \in Processes /\ h.windows = gui.windows /\ h.window = gui.window
      /\ h.table = gui.table /\ h.initialized = gui.initialized
      /\ h.backend = gui.backend /\ h.server = gui.server /\ h.active = gui.active
      /\ h.running = gui.running
  BY <1>5, <1>6 DEF Processes
<1> HIDE DEF h
<1>8. Good(h) /\ IsRunning(h) = IsRunning(gui)
  BY <1>7 DEF GInv, Good, LiveHandle, Platform, IsRunning
<1> QED
  BY <1>2, <1>3, <1>8 DEF GInv

LEMMA GNextGood == GInv /\ [GNext]_gvars => GInv'
<1> SUFFICES ASSUME GInv, [GNext]_gvars PROVE GInv'
  OBVIOUS
<1>1. CASE User
  BY <1>1, InputGood
<1>2. CASE CallInit
  BY <1>2, InitialisedGood DEF CallInit, GInv
<1>3. CASE CallCreateWindow
  BY <1>3, WithWindowGood DEF CallCreateWindow, GInv
<1>4. CASE CallPump
  BY <1>4, PumpedFacts DEF CallPump, GInv
<1>5. CASE CallPoll
  BY <1>5, PumpedFacts, PolledFacts DEF CallPoll, GInv
<1>6. CASE CallShutDown
  BY <1>6, ShutDownGood DEF CallShutDown, GInv
<1>7. CASE UNCHANGED gvars
  BY <1>7 DEF gvars, GInv
<1> QED
  BY <1>1, <1>2, <1>3, <1>4, <1>5, <1>6, <1>7 DEF GNext

LEMMA GSpecGood == GSpec => []GInv
BY GInitGood, GNextGood, PTL DEF GSpec

(***************************************************************************)
(* The fields of the process keep their types, and the rings, the table of *)
(* backends and the handle their bounds, whatever the user does and in     *)
(* whatever order the program calls the framework.                         *)
(***************************************************************************)
THEOREM GuiTypeCorrect == GSpec => []GTypeOK
BY GSpecGood, GInvImplies, PTL

(***************************************************************************)
(* The handle that hosc_gui_shutdown, the pump and the poll go through is  *)
(* never one that x11_destroy_window has freed.                            *)
(***************************************************************************)
THEOREM HandleStaysLive == GSpec => []HandleIsLive
BY GSpecGood, GInvImplies, PTL

(***************************************************************************)
(* Every start of the GUI uses the X server if it answers, however often   *)
(* hosc_gui_init has filled the table of backends before.                  *)
(***************************************************************************)
THEOREM PlatformAlwaysFirst == GSpec => []PlatformFirst
BY GSpecGood, GInvImplies, PTL

(***************************************************************************)
(* A program that has learned that its window was closed keeps being told  *)
(* so, until it creates another one.                                       *)
(***************************************************************************)
THEOREM ClosedForGood == GSpec => ClosedStaysClosed
<1> DEFINE Told == gui.initialized /\ gui.window # 0 /\ ~IsRunning(gui)
<1>1. ASSUME GInv, [GNext]_gvars, Told, ~CallCreateWindow
      PROVE  ~IsRunning(gui')
  <2>1. CASE User
    BY <1>1, <2>1, InputGood
  <2>2. CASE CallInit
    BY <1>1, <2>2 DEF CallInit
  <2>3. CASE CallPump
    BY <1>1, <2>3, PumpedFacts DEF CallPump, GInv
  <2>4. CASE CallPoll
    BY <1>1, <2>4, PumpedFacts, PolledFacts DEF CallPoll, GInv
  <2>5. CASE CallShutDown
    BY <1>1, <2>5, ShutDownGood DEF CallShutDown, GInv
  <2>6. CASE UNCHANGED gvars
    BY <1>1, <2>6 DEF gvars
  <2> QED
    BY <1>1, <2>1, <2>2, <2>3, <2>4, <2>5, <2>6 DEF GNext
<1>2. GInv /\ [GNext]_gvars
        => [gui.initialized /\ gui.window # 0 /\ ~IsRunning(gui) /\ ~CallCreateWindow
              => ~IsRunning(gui')]_gvars
  BY <1>1
<1> QED
  BY <1>2, GSpecGood, PTL DEF GSpec, ClosedStaysClosed

-----------------------------------------------------------------------------
(* The order of inputs.                                                    *)

Ids(q) == {q[i].id : i \in DOMAIN q}

Ascending(q) == \A i, j \in DOMAIN q : i < j => q[i].id < q[j].id

(* What is left of the inputs S when they went through a ring: the newest ones. *)
Newest(q, S) == /\ q \in Seq(Events) /\ Ascending(q) /\ Ids(q) \subseteq S
                /\ \A x \in S \ Ids(q) : Len(q) = Cap - 1 /\ \A y \in Ids(q) : x < y

LEMMA EventIds == \A e \in Events : e.id \in Nat
BY GuiAssumption DEF GuiAssumption, AllEvents

LEMMA PushedNewest ==
  ASSUME NEW r \in Ring, NEW S \in SUBSET Nat, Newest(Contents(r), S),
         NEW e \in Events, \A x \in S : x < e.id
  PROVE  Newest(Contents(Pushed(r, e)), S \cup {e.id})
<1> DEFINE q == Contents(r)
<1>1. /\ q \in Seq(Events) /\ Len(q) = Count(r) /\ Count(r) \in 0 .. Cap - 1
      /\ IsFull(r) <=> Count(r) = Cap - 1
  BY ContentsType, CountBounds
<1>2. /\ Ascending(q) /\ Ids(q) \subseteq S /\ e.id \in Nat
      /\ \A x \in S \ Ids(q) : Len(q) = Cap - 1 /\ \A y \in Ids(q) : x < y
  BY EventIds DEF Newest
<1>3. CASE ~IsFull(r)
  <2>1. Contents(Pushed(r, e)) = Append(q, e)
    BY <1>3, PushRoom
  <2> DEFINE p == Append(q, e)
  <2> HIDE DEF q
  <2>2. /\ p \in Seq(Events) /\ Len(p) = Len(q) + 1 /\ p[Len(q) + 1] = e
        /\ \A i \in 1 .. Len(q) : p[i] = q[i]
        /\ DOMAIN p = 1 .. Len(q) + 1 /\ DOMAIN q = 1 .. Len(q) /\ Len(q) \in Nat
    BY <1>1
  <2> HIDE DEF p
  <2>3. Ids(p) = Ids(q) \cup {e.id}
    BY <2>2 DEF Ids
  <2>4. \A i \in DOMAIN q : q[i].id < e.id
    BY <1>2 DEF Ids
  <2>5. Ascending(p)
    BY <1>2, <2>2, <2>4 DEF Ascending
  <2>6. S \ Ids(q) = {}
    BY <1>1, <1>2, <1>3
  <2> QED
    BY <1>2, <2>1, <2>2, <2>3, <2>5, <2>6 DEF Newest, p
<1>4. CASE IsFull(r)
  <2>1. Contents(Pushed(r, e)) = Append(Tail(q), e)
    BY <1>4, PushFull
  <2> DEFINE p == Append(Tail(q), e)
  <2> HIDE DEF q
  <2>2. /\ p \in Seq(Events) /\ Len(p) = Cap - 1 /\ p[Cap - 1] = e
        /\ \A i \in 1 .. Cap - 2 : p[i] = q[i + 1]
        /\ DOMAIN p = 1 .. Cap - 1 /\ DOMAIN q = 1 .. Cap - 1
    <3>1. Len(q) = Cap - 1 /\ q # << >>
      BY <1>1, <1>4
    <3>2. /\ Tail(q) \in Seq(Events) /\ Len(Tail(q)) = Cap - 2
          /\ \A i \in 1 .. Cap - 2 : Tail(q)[i] = q[i + 1]
      BY <1>1, <3>1
    <3> QED
      BY <1>1, <3>1, <3>2
  <2> HIDE DEF p
  <2>3. \A i \in 1 .. Cap - 1 : q[i].id \in S /\ q[i].id \in Nat /\ q[i].id < e.id
    <3>1. \A i \in 1 .. Cap - 1 : q[i].id \in Ids(q)
      BY <2>2 DEF Ids
    <3> QED
      BY <1>2, <3>1
  <2>4. Ascending(p)
    <3> SUFFICES ASSUME NEW i \in 1 .. Cap - 1, NEW j \in 1 .. Cap - 1, i < j
                 PROVE  p[i].id < p[j].id
      BY <2>2 DEF Ascending
    <3>1. i \in 1 .. Cap - 2 /\ i + 1 \in 1 .. Cap - 1 /\ p[i] = q[i + 1]
      BY <2>2
    <3>2. CASE j = Cap - 1
      BY <2>2, <2>3, <3>1, <3>2
    <3>3. CASE j # Cap - 1
      <4>1. j \in 1 .. Cap - 2 /\ j + 1 \in 1 .. Cap - 1 /\ p[j] = q[j + 1] /\ i + 1 < j + 1
        BY <2>2, <3>3
      <4> QED
        BY <1>2, <2>2, <3>1, <4>1 DEF Ascending
    <3> QED
      BY <3>2, <3>3
  <2>5. Ids(p) \subseteq S \cup {e.id}
    BY <2>2, <2>3 DEF Ids
  <2>6. ASSUME NEW x \in (S \cup {e.id}) \ Ids(p), NEW i \in 1 .. Cap - 1
        PROVE  x < p[i].id
    <3>1. e.id \in Ids(p)
      BY <2>2 DEF Ids
    <3>2. x \in S /\ x \in Nat /\ x < e.id
      BY <2>6, <3>1
    <3>3. CASE i = Cap - 1
      BY <2>2, <3>2, <3>3
    <3>4. CASE i # Cap - 1
      <4>1. i \in 1 .. Cap - 2 /\ i + 1 \in 1 .. Cap - 1 /\ p[i] = q[i + 1]
        BY <2>2, <3>4
      <4>2. CASE x \in Ids(q)
        <5>1. PICK j \in 1 .. Cap - 1 : x = q[j].id
          BY <2>2, <4>2 DEF Ids
        <5>2. j = 1
          <6>1. CASE j # 1
            <7>1. j - 1 \in 1 .. Cap - 2 /\ j - 1 \in 1 .. Cap - 1 /\ (j - 1) + 1 = j
              BY <6>1
            <7>2. p[j - 1].id = x
              BY <2>2, <5>1, <7>1
            <7> QED
              BY <2>2, <2>6, <7>1, <7>2 DEF Ids
          <6> QED
            BY <6>1
        <5>3. 1 < i + 1 /\ 1 \in DOMAIN q /\ i + 1 \in DOMAIN q
          BY <2>2, <4>1
        <5> QED
          BY <1>2, <4>1, <5>1, <5>2, <5>3 DEF Ascending
      <4>3. CASE x \notin Ids(q)
        <5>1. q[i + 1].id \in Ids(q)
          BY <2>2, <4>1 DEF Ids
        <5> QED
          BY <1>2, <3>2, <4>1, <4>3, <5>1
      <4> QED
        BY <4>2, <4>3
    <3> QED
      BY <3>3, <3>4
  <2>7. \A x \in (S \cup {e.id}) \ Ids(p) : \A y \in Ids(p) : x < y
    <3> TAKE x \in (S \cup {e.id}) \ Ids(p)
    <3> TAKE y \in Ids(p)
    <3>1. PICK i \in 1 .. Cap - 1 : y = p[i].id
      BY <2>2 DEF Ids
    <3> QED
      BY <2>6, <3>1
  <2> QED
    BY <2>1, <2>2, <2>4, <2>5, <2>7 DEF Newest, p
<1> QED
  BY <1>3, <1>4

(* Events in the order of their ids, pushed one after the other. *)
LEMMA AllPushedNewest ==
  ASSUME NEW r \in Ring, NEW S \in SUBSET Nat, Newest(Contents(r), S),
         NEW seq \in Seq(Events), Ascending(seq), \A x \in S, y \in Ids(seq) : x < y
  PROVE  /\ Fold(Pushed, r, seq) \in Ring
         /\ Newest(Contents(Fold(Pushed, r, seq)), S \cup Ids(seq))
<1> DEFINE n == Len(seq)
           Before(i) == {seq[k].id : k \in 1 .. i}
<1>1. n \in Nat /\ \A i \in 1 .. n : i - 1 \in 0 .. n /\ seq[i] \in Events /\ seq[i].id \in Nat
  BY EventIds
<1>2. PICK reached \in [0 .. n -> Ring] :
        /\ reached[0] = r
        /\ \A i \in 1 .. n : reached[i] = Pushed(reached[i - 1], seq[i])
        /\ Fold(Pushed, r, seq) = reached[n]
  BY AllPushed
<1> DEFINE P == {i \in 0 .. n : Newest(Contents(reached[i]), S \cup Before(i))}
<1>3. 0 \in P
  <2>1. Before(0) = {}
    OBVIOUS
  <2> HIDE DEF Before
  <2> QED
    BY <1>1, <1>2, <2>1
<1>4. ASSUME NEW i \in 1 .. n, i - 1 \in P
      PROVE  i \in P
  <2>1. Before(i) = Before(i - 1) \cup {seq[i].id}
    <3>1. 1 .. i = 1 .. (i - 1) \cup {i}
      BY <1>1
    <3> QED
      BY <3>1
  <2>2. S \cup Before(i - 1) \in SUBSET Nat
    <3>1. \A k \in 1 .. i - 1 : seq[k].id \in Nat
      BY <1>1
    <3> QED
      BY <3>1
  <2>3. \A x \in S \cup Before(i - 1) : x < seq[i].id
    <3>1. \A k \in 1 .. i - 1 : seq[k].id < seq[i].id
      BY <1>1 DEF Ascending
    <3>2. \A x \in S : x < seq[i].id
      BY <1>1 DEF Ids
    <3> QED
      BY <3>1, <3>2
  <2>4. reached[i - 1] \in Ring /\ seq[i] \in Events /\ reached[i] = Pushed(reached[i - 1], seq[i])
    BY <1>1, <1>2
  <2>5. Newest(Contents(reached[i - 1]), S \cup Before(i - 1))
    BY <1>4
  <2> HIDE DEF Before
  <2>6. Newest(Contents(reached[i]), (S \cup Before(i - 1)) \cup {seq[i].id})
    BY <2>2, <2>3, <2>4, <2>5, PushedNewest
  <2>7. (S \cup Before(i - 1)) \cup {seq[i].id} = S \cup Before(i)
    BY <2>1
  <2>8. Newest(Contents(reached[i]), S \cup Before(i))
    BY <2>6, <2>7
  <2> QED
    BY <1>1, <2>8
<1> HIDE DEF P
<1>5. n \in P
  <2>1. \A i \in 1 .. n : i - 1 \in P => i \in P
    BY <1>4
  <2> HIDE DEF n
  <2>2. \A i \in 0 .. n : i \in P
    BY <1>1, <1>3, <2>1, Induction
  <2> QED
    BY <1>1, <2>2
<1>6. Before(n) = Ids(seq)
  BY DEF Ids
<1> QED
  BY <1>1, <1>2, <1>5, <1>6 DEF P

-----------------------------------------------------------------------------
(* The same for what arrives on a connection, where a DESTROY is no input. *)

Inputs(seq, n) == {seq[k].id : k \in {k \in 1 .. n : seq[k].type # "DESTROY"}}

InOrder(seq) ==
  \A i, j \in DOMAIN seq :
    i < j /\ seq[i].type # "DESTROY" /\ seq[j].type # "DESTROY" => seq[i].id < seq[j].id

LEMMA EmptyContents == Contents(EmptyRing) = << >>
<1>1. Count(EmptyRing) = 0
  BY DEF EmptyRing, Count
<1> QED
  BY <1>1, EmptyRingType, ContentsType

LEMMA NothingNewest == Newest(<< >>, {})
BY DEF Newest, Ascending, Ids

LEMMA AllReceivedNewest ==
  ASSUME NEW seq \in Seq(Arrivals), InOrder(seq)
  PROVE  /\ Fold(Received, EmptyRing, seq) \in Ring
         /\ Newest(Contents(Fold(Received, EmptyRing, seq)), Inputs(seq, Len(seq)))
<1> DEFINE n == Len(seq)
<1>1. /\ n \in Nat
      /\ \A i \in 1 .. n : i - 1 \in 0 .. n /\ seq[i] \in Arrivals /\ seq[i].id \in Nat
  <2>1. \A x \in Arrivals : x.id \in Nat
    BY GuiAssumption DEF Arrivals, GuiAssumption
  <2> QED
    BY <2>1
<1>2. PICK reached \in [0 .. n -> Ring] :
        /\ reached[0] = EmptyRing
        /\ \A i \in 1 .. n : reached[i] = Received(reached[i - 1], seq[i])
        /\ Fold(Received, EmptyRing, seq) = reached[n]
  BY AllReceived, EmptyRingType
<1> DEFINE P == {i \in 0 .. n : Newest(Contents(reached[i]), Inputs(seq, i))}
<1>3. 0 \in P
  <2>1. Inputs(seq, 0) = {}
    BY DEF Inputs
  <2> QED
    BY <1>1, <1>2, <2>1, EmptyContents, NothingNewest
<1>4. ASSUME NEW i \in 1 .. n, i - 1 \in P
      PROVE  i \in P
  <2>1. /\ reached[i - 1] \in Ring /\ reached[i] = Received(reached[i - 1], seq[i])
        /\ seq[i] \in Arrivals /\ seq[i].id \in Nat
        /\ Newest(Contents(reached[i - 1]), Inputs(seq, i - 1))
    BY <1>1, <1>2, <1>4
  <2>2. 1 .. i = 1 .. (i - 1) \cup {i}
    BY <1>1
  <2>3. CASE seq[i].type = "DESTROY"
    <3>1. Inputs(seq, i) = Inputs(seq, i - 1)
      BY <2>2, <2>3 DEF Inputs
    <3> QED
      BY <1>1, <2>1, <2>3, <3>1 DEF Received
  <2>4. CASE seq[i].type # "DESTROY"
    <3> DEFINE e == Event(seq[i].type, seq[i].id, seq[i].at)
    <3>1. e \in [type : InputTypes \cup {"NONE"}, id : 0 .. MaxInputs, at : Places]
      BY <2>1, <2>4 DEF Event, Arrivals
    <3>2. e \in Events /\ e.id = seq[i].id
      BY <3>1, GuiAssumption DEF GuiAssumption, Event
    <3>3. reached[i] = Pushed(reached[i - 1], e)
      BY <2>1, <2>4 DEF Received
    <3>4. Inputs(seq, i) = Inputs(seq, i - 1) \cup {e.id}
      BY <2>2, <2>4, <3>2 DEF Inputs
    <3> HIDE DEF e
    <3>5. \A x \in Inputs(seq, i - 1) : x < e.id
      BY <1>1, <2>4, <3>2 DEF Inputs, InOrder
    <3>6. Inputs(seq, i - 1) \in SUBSET Nat
      BY <1>1 DEF Inputs
    <3>7. Newest(Contents(Pushed(reached[i - 1], e)), Inputs(seq, i - 1) \cup {e.id})
      BY <2>1, <3>2, <3>5, <3>6, PushedNewest
    <3> QED
      BY <1>1, <3>3, <3>4, <3>7
  <2> QED
    BY <2>3, <2>4
<1> HIDE DEF P
<1>5. n \in P
  <2>1. \A i \in 1 .. n : i - 1 \in P => i \in P
    BY <1>4
  <2> HIDE DEF n
  <2>2. \A i \in 0 .. n : i \in P
    BY <1>1, <1>3, <2>1, Induction
  <2> QED
    BY <1>1, <2>2
<1> QED
  BY <1>1, <1>2, <1>5 DEF P

(* As many different ids as events. *)
LEMMA AscendingCount ==
  ASSUME NEW q \in Seq(Events), Ascending(q), NEW n \in Nat, NEW W \in SUBSET (0 .. n),
         Ids(q) \subseteq W
  PROVE  Cardinality(W) >= Len(q)
<1> DEFINE f == [i \in 1 .. Len(q) |-> q[i].id]
<1>1. Len(q) \in Nat /\ DOMAIN q = 1 .. Len(q) /\ \A i \in 1 .. Len(q) : q[i].id \in Nat
  BY EventIds
<1>2. f \in [1 .. Len(q) -> W]
  BY <1>1 DEF Ids
<1>3. \A i, j \in 1 .. Len(q) : f[i] = f[j] => i = j
  <2> TAKE i, j \in 1 .. Len(q)
  <2>1. i < j => q[i].id < q[j].id
    BY <1>1 DEF Ascending
  <2>2. j < i => q[j].id < q[i].id
    BY <1>1 DEF Ascending
  <2> QED
    BY <1>1, <2>1, <2>2
<1> HIDE DEF f
<1>4. f \in Injection(1 .. Len(q), W)
  BY <1>2, <1>3 DEF Injection, IsInjective
<1>5. IsFiniteSet(0 .. n)
  BY FS_Interval
<1>6. IsFiniteSet(W)
  BY <1>5, FS_Subset
<1>7. Cardinality(1 .. Len(q)) <= Cardinality(W)
  BY <1>4, <1>6, FS_Injection
<1>8. Cardinality(1 .. Len(q)) = Len(q)
  <2>1. 1 \in Int /\ Len(q) \in Int
    BY <1>1
  <2>2. Cardinality(1 .. Len(q)) = IF 1 > Len(q) THEN 0 ELSE Len(q) - 1 + 1
    BY <2>1, FS_Interval
  <2> QED
    BY <1>1, <2>2
<1>9. Cardinality(W) \in Nat
  BY <1>6, FS_CardinalityType
<1> QED
  BY <1>1, <1>7, <1>8, <1>9

-----------------------------------------------------------------------------
(* Both rings together.                                                    *)

AllInputs(seq) == Inputs(seq, Len(seq))

(* What waits, behind the input that was handed out last: the ring of the  *)
(* process first, then the connection.                                     *)
Ordered(g, last, n) ==
  /\ last <= n /\ Ascending(Contents(g.events)) /\ InOrder(g.pending)
  /\ \A x \in Ids(Contents(g.events)) : last < x /\ x <= n
  /\ \A y \in AllInputs(g.pending) : last < y /\ y <= n
  /\ \A x \in Ids(Contents(g.events)), y \in AllInputs(g.pending) : x < y
  /\ \A k \in DOMAIN g.pending : g.pending[k].type = "DESTROY" => g.pending[k].id = 0

LEMMA ArrivalIds == \A x \in Arrivals : x.id \in Nat
BY GuiAssumption DEF Arrivals, GuiAssumption

LEMMA WaitsTypes ==
  ASSUME NEW g, Good(g)
  PROVE  /\ g.events \in Ring /\ g.pending \in Seq(Arrivals)
         /\ Contents(g.events) \in Seq(Events)
         /\ Ids(Contents(g.events)) \subseteq Nat /\ AllInputs(g.pending) \subseteq Nat
<1>1. g.events \in Ring /\ g.pending \in Seq(Arrivals)
  BY DEF Good, Processes
<1>2. Contents(g.events) \in Seq(Events)
  BY <1>1, ContentsType
<1> DEFINE q == Contents(g.events)
<1> HIDE DEF q
<1>3. Ids(q) \subseteq Nat
  <2>1. q \in Seq(Events)
    BY <1>2 DEF q
  <2> QED
    BY <2>1, EventIds DEF Ids
<1>4. AllInputs(g.pending) \subseteq Nat
  BY <1>1, ArrivalIds DEF AllInputs, Inputs
<1> QED
  BY <1>1, <1>2, <1>3, <1>4 DEF q

LEMMA WaitingIs ==
  ASSUME NEW g, Good(g), NEW last \in Nat, NEW n \in Nat, Ordered(g, last, n)
  PROVE  /\ Waiting(g) = Ids(Contents(g.events)) \cup AllInputs(g.pending)
         /\ Waiting(g) \subseteq 0 .. n
<1> DEFINE q == Contents(g.events)
           p == g.pending
<1>1. /\ q \in Seq(Events) /\ p \in Seq(Arrivals) /\ Len(q) = Count(g.events)
      /\ Ids(q) \subseteq Nat /\ AllInputs(p) \subseteq Nat
  BY WaitsTypes, ContentsType
<1>2. /\ \A x \in Ids(q) : last < x /\ x <= n
      /\ \A y \in AllInputs(p) : last < y /\ y <= n
      /\ \A k \in DOMAIN p : p[k].type = "DESTROY" => p[k].id = 0
  BY DEF Ordered
<1>3. Waiting(g) = ({p[i].id : i \in DOMAIN p} \cup {q[i].id : i \in 1 .. Count(g.events)}) \ {0}
  BY DEF Waiting
<1> HIDE DEF p, q
<1>4. DOMAIN p = 1 .. Len(p) /\ DOMAIN q = 1 .. Count(g.events)
  BY <1>1
<1>5. {q[i].id : i \in 1 .. Count(g.events)} = Ids(q) /\ 0 \notin Ids(q)
  <2>1. {q[i].id : i \in 1 .. Count(g.events)} = Ids(q)
    BY <1>4 DEF Ids
  <2>2. 0 \notin Ids(q)
    BY <1>1, <1>2
  <2> QED
    BY <2>1, <2>2
<1>6. {p[i].id : i \in DOMAIN p} \ {0} = AllInputs(p) /\ 0 \notin AllInputs(p)
  <2>1. 0 \notin AllInputs(p)
    BY <1>1, <1>2
  <2>2. AllInputs(p) \subseteq {p[i].id : i \in DOMAIN p}
    BY <1>4 DEF AllInputs, Inputs
  <2>3. ASSUME NEW i \in DOMAIN p, p[i].id # 0
        PROVE  p[i].id \in AllInputs(p)
    BY <1>2, <1>4, <2>3 DEF AllInputs, Inputs
  <2> QED
    BY <2>1, <2>2, <2>3
<1>7. Waiting(g) = Ids(q) \cup AllInputs(p)
  BY <1>3, <1>5, <1>6
<1>8. Waiting(g) \subseteq 0 .. n
  BY <1>1, <1>2, <1>7
<1> QED
  BY <1>7, <1>8 DEF p, q

LEMMA AppendArrival ==
  ASSUME NEW seq \in Seq(Arrivals), InOrder(seq), NEW a \in Arrivals,
         a.type # "DESTROY" => \A y \in AllInputs(seq) : y < a.id
  PROVE  /\ InOrder(Append(seq, a))
         /\ AllInputs(Append(seq, a)) =
              IF a.type = "DESTROY" THEN AllInputs(seq) ELSE AllInputs(seq) \cup {a.id}
<1> DEFINE p == Append(seq, a)
           n == Len(seq)
<1>1. /\ n \in Nat /\ DOMAIN seq = 1 .. n /\ DOMAIN p = 1 .. n + 1 /\ Len(p) = n + 1
      /\ p[n + 1] = a /\ \A i \in 1 .. n : p[i] = seq[i] /\ i \in 1 .. n + 1
  BY AppendProperties
<1> HIDE DEF p
<1>2. \A i \in 1 .. n : seq[i].type # "DESTROY" => seq[i].id \in AllInputs(seq)
  BY <1>1 DEF AllInputs, Inputs
<1> HIDE DEF n
<1>3. InOrder(p)
  <2> SUFFICES ASSUME NEW i \in 1 .. n + 1, NEW j \in 1 .. n + 1, i < j,
                      p[i].type # "DESTROY", p[j].type # "DESTROY"
               PROVE  p[i].id < p[j].id
    BY <1>1 DEF InOrder
  <2>1. i \in 1 .. n /\ p[i] = seq[i]
    BY <1>1
  <2>2. CASE j = n + 1
    BY <1>1, <1>2, <2>1, <2>2
  <2>3. CASE j # n + 1
    <3>1. j \in 1 .. n /\ p[j] = seq[j]
      BY <1>1, <2>3
    <3> QED
      BY <1>1, <2>1, <3>1 DEF InOrder
  <2> QED
    BY <2>2, <2>3
<1>4. AllInputs(p) = IF a.type = "DESTROY" THEN AllInputs(seq) ELSE AllInputs(seq) \cup {a.id}
  <2>1. 1 .. n + 1 = 1 .. n \cup {n + 1}
    BY <1>1
  <2>2. AllInputs(seq) = {seq[k].id : k \in {k \in 1 .. n : seq[k].type # "DESTROY"}}
    BY DEF AllInputs, Inputs, n
  <2>3. AllInputs(p) = {p[k].id : k \in {k \in 1 .. n + 1 : p[k].type # "DESTROY"}}
    BY <1>1 DEF AllInputs, Inputs
  <2> QED
    BY <1>1, <2>1, <2>2, <2>3
<1> QED
  BY <1>3, <1>4 DEF p

(* A start, a new window and a shutdown sweep the ring, or leave it, and   *)
(* add no input to the connection.                                         *)
Sweeps(g, h) ==
  /\ Contents(h.events) \in {Contents(g.events), << >>}
  /\ h.pending = g.pending
     \/ \E a \in Arrivals : /\ a.type = "DESTROY" /\ a.id = 0
                            /\ h.pending = Append(g.pending, a)

LEMMA SweptOrdered ==
  ASSUME NEW g, Good(g), NEW last, NEW n, Ordered(g, last, n), NEW h, Sweeps(g, h)
  PROVE  Ordered(h, last, n)
<1>1. /\ Ascending(Contents(h.events))
      /\ Ids(Contents(h.events)) \subseteq Ids(Contents(g.events))
  BY DEF Sweeps, Ordered, Ascending, Ids
<1>2. /\ InOrder(h.pending) /\ AllInputs(h.pending) = AllInputs(g.pending)
      /\ \A k \in DOMAIN h.pending : h.pending[k].type = "DESTROY" => h.pending[k].id = 0
  <2>1. CASE h.pending = g.pending
    BY <2>1 DEF Ordered
  <2>2. CASE h.pending # g.pending
    <3>1. PICK a \in Arrivals : /\ a.type = "DESTROY" /\ a.id = 0
                                /\ h.pending = Append(g.pending, a)
      BY <2>2 DEF Sweeps
    <3>2. g.pending \in Seq(Arrivals)
      BY WaitsTypes
    <3>3. InOrder(h.pending) /\ AllInputs(h.pending) = AllInputs(g.pending)
      BY <3>1, <3>2, AppendArrival DEF Ordered
    <3>4. /\ DOMAIN h.pending = 1 .. Len(g.pending) + 1
          /\ h.pending[Len(g.pending) + 1] = a
          /\ \A k \in 1 .. Len(g.pending) : h.pending[k] = g.pending[k]
          /\ DOMAIN g.pending = 1 .. Len(g.pending) /\ Len(g.pending) \in Nat
      BY <3>1, <3>2, AppendProperties
    <3>5. \A k \in DOMAIN g.pending : g.pending[k].type = "DESTROY" => g.pending[k].id = 0
      BY DEF Ordered
    <3>6. \A k \in DOMAIN h.pending : h.pending[k].type = "DESTROY" => h.pending[k].id = 0
      BY <3>1, <3>4, <3>5
    <3> QED
      BY <3>3, <3>6
  <2> QED
    BY <2>1, <2>2
<1> QED
  BY <1>1, <1>2 DEF Ordered

LEMMA InitialisedSweeps ==
  ASSUME NEW g, Good(g), NEW failed
  PROVE  Sweeps(g, Initialised(g, failed))
<1>1. g \in Processes /\ g.events \in Ring
  BY WaitsTypes DEF Good
<1>2. CASE g.initialized
  BY <1>2 DEF Initialised, Sweeps
<1>3. CASE ~g.initialized
  <2>1. /\ Initialised(g, failed).events = Cleared(g.events)
        /\ Initialised(g, failed).pending = g.pending
    BY <1>1, <1>3 DEF Initialised, Processes
  <2> QED
    BY <1>1, <2>1, ClearContents DEF Sweeps
<1> QED
  BY <1>2, <1>3

LEMMA WithWindowSweeps ==
  ASSUME NEW g, Good(g), NEW failed
  PROVE  Sweeps(g, WithWindow(g, failed))
<1> DEFINE started == Initialised(g, failed)
<1>1. Good(started) /\ started \in Processes /\ started.events \in Ring
  BY InitialisedGood, WaitsTypes DEF Good
<1>2. Sweeps(g, started)
  BY InitialisedSweeps
<1>3. /\ WithWindow(g, failed).events = Cleared(started.events)
      /\ WithWindow(g, failed).pending = started.pending
  <2> HIDE DEF started
  <2> QED
    BY <1>1 DEF WithWindow, started, Processes
<1>4. Contents(WithWindow(g, failed).events) = << >>
  BY <1>1, <1>3, ClearContents
<1> QED
  BY <1>2, <1>3, <1>4 DEF Sweeps

LEMMA ShutDownSweeps ==
  ASSUME NEW g, Good(g)
  PROVE  Sweeps(g, ShutDown(g))
<1> DEFINE destroys == g.active # "none" /\ g.window # 0
           d == Destroyed(g, g.window)
           h == IF destroys THEN [d EXCEPT !.window = 0] ELSE g
           a == [type |-> "DESTROY", id |-> 0, at |-> NoEvent.at, window |-> g.window]
<1>1. g \in Processes /\ g.events \in Ring /\ g.window \in Nat
  BY WaitsTypes DEF Good, Processes
<1>2. a \in Arrivals /\ a.type = "DESTROY" /\ a.id = 0
  BY <1>1, NoEventType, GuiAssumption DEF Arrivals, GuiAssumption
<1>3. h \in Processes /\ h.events = g.events /\ h.pending \in {g.pending, Append(g.pending, a)}
  <2>1. CASE destroys
    <3>1. /\ d \in Processes /\ d.events = g.events
          /\ d.pending \in {g.pending, Append(g.pending, a)}
      <4>1. d \in Processes
        BY <2>1, DestroyedFacts
      <4>2. d.events = g.events /\ d.pending \in {g.pending, Append(g.pending, a)}
        BY <1>1 DEF Destroyed, Processes
      <4> QED
        BY <4>1, <4>2
    <3> HIDE DEF d, a
    <3> QED
      BY <2>1, <3>1 DEF Processes
  <2>2. CASE ~destroys
    BY <1>1, <2>2
  <2> QED
    BY <2>1, <2>2
<1>4. ShutDown(g) = [h EXCEPT !.events = Cleared(h.events), !.running = FALSE,
                              !.backend = "console", !.initialized = FALSE]
  BY DEF ShutDown
<1> HIDE DEF h, a
<1>5. ShutDown(g).events = Cleared(g.events) /\ ShutDown(g).pending = h.pending
  BY <1>3, <1>4 DEF Processes
<1> QED
  BY <1>1, <1>2, <1>3, <1>5, ClearContents DEF Sweeps

(* A pump moves what waits, and loses inputs only when Cap - 1 newer ones  *)
(* are left.                                                               *)
LEMMA PumpedOrdered ==
  ASSUME NEW g, Good(g), NEW last \in Nat, NEW n \in Nat, Ordered(g, last, n)
  PROVE  /\ Ordered(Pumped(g), last, n)
         /\ Waiting(Pumped(g)) \subseteq Waiting(g)
         /\ \A x \in Waiting(g) \ Waiting(Pumped(g)) :
              Cardinality({y \in Waiting(g) : y > x}) >= Cap - 1
<1> DEFINE h == Pumped(g)
           q == Contents(g.events)
           I == AllInputs(g.pending)
           local == Fold(Received, EmptyRing, g.pending)
           m == Contents(local)
           r == Fold(Pushed, g.events, m)
           c == Contents(r)
<1>1. CASE g.active # "x11" \/ g.window = 0
  BY <1>1 DEF Pumped
<1>2. CASE g.active = "x11" /\ g.window # 0
  <2>1. /\ g \in Processes /\ g.events \in Ring /\ g.pending \in Seq(Arrivals)
        /\ q \in Seq(Events) /\ Ids(q) \subseteq Nat /\ I \subseteq Nat
    BY WaitsTypes DEF Good
  <2>2. h.pending = << >> /\ h.events = r
    BY <1>2, <2>1 DEF Pumped, Processes
  <2>3. /\ last <= n /\ Ascending(q) /\ InOrder(g.pending)
        /\ \A x \in Ids(q) : last < x /\ x <= n
        /\ \A y \in I : last < y /\ y <= n
        /\ \A x \in Ids(q), y \in I : x < y
    BY DEF Ordered
  <2>4. local \in Ring /\ Newest(m, I)
    BY <2>1, <2>3, AllReceivedNewest DEF AllInputs
  <2> HIDE DEF local
  <2>5. m \in Seq(Events)
    BY <2>4, ContentsType
  <2> HIDE DEF m, q, I
  <2>6. /\ Ascending(m) /\ Ids(m) \subseteq I
        /\ \A x \in I \ Ids(m) : Len(m) = Cap - 1 /\ \A y \in Ids(m) : x < y
    BY <2>4 DEF Newest
  <2>7. Newest(q, Ids(q))
    BY <2>1, <2>3 DEF Newest
  <2>8. r \in Ring /\ Newest(c, Ids(q) \cup Ids(m))
    <3>1. Ids(q) \in SUBSET Nat /\ \A x \in Ids(q), y \in Ids(m) : x < y
      BY <2>1, <2>3, <2>6
    <3>2. Newest(Contents(g.events), Ids(q))
      BY <2>7 DEF q
    <3> QED
      BY <2>1, <2>5, <2>6, <3>1, <3>2, AllPushedNewest
  <2> HIDE DEF r
  <2>9. c \in Seq(Events)
    BY <2>8, ContentsType
  <2> HIDE DEF c
  <2>10. /\ Ascending(c) /\ Ids(c) \subseteq Ids(q) \cup Ids(m)
         /\ \A x \in (Ids(q) \cup Ids(m)) \ Ids(c) : Len(c) = Cap - 1 /\ \A y \in Ids(c) : x < y
    BY <2>8 DEF Newest
  <2>11. Good(h)
    BY PumpedFacts
  <2> HIDE DEF h
  <2>12. Contents(h.events) = c /\ AllInputs(h.pending) = {} /\ InOrder(h.pending)
    BY <2>2 DEF c, AllInputs, Inputs, InOrder
  <2>13. Ordered(h, last, n)
    BY <2>2, <2>3, <2>6, <2>10, <2>12 DEF Ordered
  <2>14. /\ Waiting(g) = Ids(q) \cup I /\ Waiting(g) \subseteq 0 .. n
         /\ Waiting(h) = Ids(c)
    BY <2>11, <2>12, <2>13, WaitingIs DEF q, I
  <2>15. Waiting(h) \subseteq Waiting(g)
    BY <2>6, <2>10, <2>14
  <2>16. ASSUME NEW x \in Waiting(g) \ Waiting(h)
         PROVE  Cardinality({y \in Waiting(g) : y > x}) >= Cap - 1
    <3> DEFINE W == {y \in Waiting(g) : y > x}
    <3>1. x \in Nat /\ W \in SUBSET (0 .. n)
      BY <2>14, <2>16
    <3>2. CASE x \in Ids(q) \cup Ids(m)
      <4>1. Len(c) = Cap - 1 /\ \A y \in Ids(c) : x < y
        BY <2>10, <2>14, <2>16, <3>2
      <4>2. Ids(c) \subseteq W
        BY <2>14, <2>15, <3>1, <4>1
      <4> HIDE DEF W
      <4>3. Cardinality(W) >= Len(c)
        BY <2>9, <2>10, <3>1, <4>2, AscendingCount
      <4> QED
        BY <4>1, <4>3 DEF W
    <3>3. CASE x \notin Ids(q) \cup Ids(m)
      <4>1. x \in I \ Ids(m)
        BY <2>14, <2>16, <3>3
      <4>2. Len(m) = Cap - 1 /\ \A y \in Ids(m) : x < y
        BY <2>6, <4>1
      <4>3. Ids(m) \subseteq W
        BY <2>6, <2>14, <3>1, <4>2
      <4> HIDE DEF W
      <4>4. Cardinality(W) >= Len(m)
        BY <2>5, <2>6, <3>1, <4>3, AscendingCount
      <4> QED
        BY <4>2, <4>4 DEF W
    <3> QED
      BY <3>2, <3>3
  <2> QED
    BY <2>13, <2>15, <2>16 DEF h
<1> QED
  BY <1>1, <1>2

(* A poll hands out the oldest input that waits, if any. *)
LEMMA PolledOrdered ==
  ASSUME NEW g, Good(g), NEW last \in Nat, NEW n \in Nat, Ordered(g, last, n)
  PROVE  LET p == Polled(g)
         IN  /\ p.event.id \in Nat /\ Ordered(p.gui, p.event.id, n)
             /\ p.found \/ p.event.id # 0 => p.event.id \in Waiting(g)
             /\ Waiting(p.gui) = Waiting(g) \ {p.event.id}
<1> DEFINE q == Contents(g.events)
           I == AllInputs(g.pending)
<1>1. /\ g \in Processes /\ g.events \in Ring
      /\ q \in Seq(Events) /\ Ids(q) \subseteq Nat /\ I \subseteq Nat
  BY WaitsTypes DEF Good
<1>2. /\ Ascending(q) /\ InOrder(g.pending)
      /\ \A x \in Ids(q) : last < x /\ x <= n
      /\ \A y \in I : last < y /\ y <= n
      /\ \A x \in Ids(q), y \in I : x < y
      /\ \A k \in DOMAIN g.pending : g.pending[k].type = "DESTROY" => g.pending[k].id = 0
  BY DEF Ordered
<1>3. Waiting(g) = Ids(q) \cup I
  BY WaitingIs
<1>4. CASE IsEmpty(g.events)
  <2>1. Polled(g).gui = g /\ Polled(g).event.id = 0 /\ Polled(g).found = FALSE
    BY <1>4 DEF Polled, NoEvent, Event
  <2>2. 0 \notin Ids(q) /\ 0 \notin I
    BY <1>1, <1>2
  <2>3. Ordered(g, 0, n)
    <3>1. 0 <= n /\ (\A x \in Ids(q) : 0 < x) /\ (\A y \in I : 0 < y)
      BY <1>1, <1>2
    <3> QED
      BY <1>2, <3>1 DEF Ordered
  <2> HIDE DEF q, I
  <2> QED
    BY <1>3, <2>1, <2>2, <2>3
<1>5. CASE ~IsEmpty(g.events)
  <2> DEFINE h == [g EXCEPT !.events = Popped(g.events)]
             e == First(g.events)
             c == Contents(Popped(g.events))
  <2>1. /\ Popped(g.events) \in Ring /\ q # << >> /\ e = Head(q) /\ c = Tail(q)
    BY <1>1, <1>5, PopContents
  <2>2. Polled(g).gui = h /\ Polled(g).event = e
    BY <1>5 DEF Polled
  <2>3. h.events = Popped(g.events) /\ h.pending = g.pending
    BY <1>1 DEF Processes
  <2>4. Good(h)
    BY <2>2, PolledFacts
  <2> HIDE DEF h, e, q, c
  <2>5. /\ Len(q) \in Nat \ {0} /\ DOMAIN q = 1 .. Len(q) /\ e = q[1]
        /\ DOMAIN c = 1 .. Len(q) - 1
        /\ \A i \in 1 .. Len(q) - 1 : c[i] = q[i + 1]
    <3>1. Len(q) \in Nat /\ DOMAIN q = 1 .. Len(q)
      BY <1>1
    <3>2. Len(q) # 0
      BY <1>1, <2>1, EmptySeq
    <3>3. Len(Tail(q)) = Len(q) - 1 /\ \A i \in 1 .. Len(q) - 1 : Tail(q)[i] = q[i + 1]
      BY <1>1, <2>1
    <3>4. DOMAIN Tail(q) = 1 .. Len(Tail(q))
      BY <1>1, <2>1
    <3>5. Head(q) = q[1]
      BY <1>1, <2>1
    <3> QED
      BY <2>1, <3>1, <3>2, <3>3, <3>4, <3>5
  <2>6. e.id \in Ids(q) /\ e.id \in Nat /\ e.id > last /\ e.id <= n
    BY <1>1, <1>2, <2>5 DEF Ids
  <2>7. Ids(q) = Ids(c) \cup {e.id}
    <3>1. Ids(c) = {q[i].id : i \in 2 .. Len(q)}
      <4>1. \A i \in 1 .. Len(q) - 1 : i + 1 \in 2 .. Len(q) /\ c[i] = q[i + 1]
        BY <2>5
      <4>2. \A i \in 2 .. Len(q) : i - 1 \in 1 .. Len(q) - 1 /\ c[i - 1] = q[i]
        <5> TAKE i \in 2 .. Len(q)
        <5>1. i - 1 \in 1 .. Len(q) - 1 /\ (i - 1) + 1 = i
          BY <2>5
        <5> QED
          BY <2>5, <5>1
      <4>3. Ids(c) = {c[i].id : i \in 1 .. Len(q) - 1}
        BY <2>5 DEF Ids
      <4>4. Ids(c) \subseteq {q[i].id : i \in 2 .. Len(q)}
        BY <4>1, <4>3
      <4>5. {q[i].id : i \in 2 .. Len(q)} \subseteq Ids(c)
        BY <4>2, <4>3
      <4> QED
        BY <4>4, <4>5
    <3>2. 1 .. Len(q) = {1} \cup 2 .. Len(q)
      BY <2>5
    <3> QED
      BY <2>5, <3>1, <3>2 DEF Ids
  <2>8. Ascending(c)
    <3> SUFFICES ASSUME NEW i \in 1 .. Len(q) - 1, NEW j \in 1 .. Len(q) - 1, i < j
                 PROVE  c[i].id < c[j].id
      BY <2>5 DEF Ascending
    <3>1. i + 1 \in DOMAIN q /\ j + 1 \in DOMAIN q /\ i + 1 < j + 1
      BY <2>5
    <3> QED
      BY <1>2, <2>5, <3>1 DEF Ascending
  <2>9. \A x \in Ids(c) : e.id < x
    <3> SUFFICES ASSUME NEW i \in 1 .. Len(q) - 1 PROVE e.id < c[i].id
      BY <2>5 DEF Ids
    <3>1. 1 \in DOMAIN q /\ i + 1 \in DOMAIN q /\ 1 < i + 1
      BY <2>5
    <3> QED
      BY <1>2, <2>5, <3>1 DEF Ascending
  <2>10. \A y \in I : e.id < y
    BY <1>2, <2>6
  <2>11. Contents(h.events) = c /\ AllInputs(h.pending) = I
    BY <2>3 DEF c, I
  <2>12. Ordered(h, e.id, n)
    BY <1>2, <2>3, <2>7, <2>8, <2>9, <2>10, <2>11 DEF Ordered, I
  <2>13. n \in Nat /\ Waiting(h) = Ids(c) \cup I
    BY <2>4, <2>6, <2>11, <2>12, WaitingIs
  <2>14. e.id \notin Ids(c) /\ e.id \notin I
    BY <2>6, <2>9, <2>10
  <2> QED
    BY <1>3, <2>2, <2>6, <2>7, <2>12, <2>13, <2>14
<1> QED
  BY <1>4, <1>5

-----------------------------------------------------------------------------
OInv == GInv /\ Ordered(gui, out.id, sent)

LEMMA OInvTypes == OInv => out.id \in Nat /\ sent \in Nat /\ Good(gui)
BY GuiAssumption DEF OInv, GInv, GuiAssumption, AllEvents

LEMMA OInitGood == GInit => OInv
<1> SUFFICES ASSUME GInit PROVE OInv
  OBVIOUS
<1>1. GInv
  BY GInitGood
<1>2. gui.events = EmptyRing /\ gui.pending = << >>
  BY DEF GInit, FreshProcess
<1>3. Contents(gui.events) = << >>
  BY <1>2, EmptyContents
<1>4. out.id = 0 /\ sent = 0
  BY DEF GInit, NoEvent, Event
<1>5. Ordered(gui, out.id, sent)
  BY <1>2, <1>3, <1>4 DEF Ordered, Ascending, InOrder, Ids, AllInputs, Inputs
<1> QED
  BY <1>1, <1>5 DEF OInv

LEMMA InputOrdered == OInv /\ User => Ordered(gui', out'.id, sent')
<1> SUFFICES ASSUME OInv, User PROVE Ordered(gui', out'.id, sent')
  OBVIOUS
<1>1. PICK w \in 1 .. MaxWindows, type \in InputTypes, at \in Places : Input(w, type, at)
  BY DEF User
<1> DEFINE a == [type |-> type, id |-> sent + 1, at |-> at, window |-> w]
           p == Append(gui.pending, a)
           q == Contents(gui.events)
           I == AllInputs(gui.pending)
<1>2. /\ out.id \in Nat /\ sent \in Nat /\ gui \in Processes /\ gui.pending \in Seq(Arrivals)
      /\ Ids(q) \subseteq Nat /\ I \subseteq Nat
  BY OInvTypes, WaitsTypes DEF Good
<1>3. /\ sent < MaxInputs /\ sent' = sent + 1 /\ out' = out
      /\ gui'.pending = p /\ gui'.events = gui.events
  BY <1>1, <1>2 DEF Input, Processes
<1>4. a \in Arrivals /\ a.type # "DESTROY" /\ a.id = sent + 1
  <2>1. MaxInputs \in Nat /\ MaxWindows \in Nat /\ type # "DESTROY"
    BY GuiAssumption DEF GuiAssumption, EventTypes
  <2> QED
    BY <1>2, <1>3, <2>1 DEF Arrivals
<1> HIDE DEF a
<1>5. /\ Ascending(q) /\ InOrder(gui.pending)
      /\ \A x \in Ids(q) : out.id < x /\ x <= sent
      /\ \A y \in I : out.id < y /\ y <= sent
      /\ \A x \in Ids(q), y \in I : x < y
      /\ \A k \in DOMAIN gui.pending : gui.pending[k].type = "DESTROY" => gui.pending[k].id = 0
  BY DEF OInv, Ordered
<1>6. InOrder(p) /\ AllInputs(p) = I \cup {sent + 1}
  <2>1. \A y \in I : y < a.id
    BY <1>2, <1>4, <1>5
  <2> QED
    BY <1>2, <1>4, <1>5, <2>1, AppendArrival
<1>7. \A k \in DOMAIN p : p[k].type = "DESTROY" => p[k].id = 0
  <2>1. /\ DOMAIN p = 1 .. Len(gui.pending) + 1 /\ p[Len(gui.pending) + 1] = a
        /\ \A k \in 1 .. Len(gui.pending) : p[k] = gui.pending[k]
        /\ DOMAIN gui.pending = 1 .. Len(gui.pending) /\ Len(gui.pending) \in Nat
    BY <1>2, <1>4, AppendProperties
  <2> QED
    BY <1>4, <1>5, <2>1
<1>8. out.id <= sent
  BY DEF OInv, Ordered
<1> QED
  BY <1>2, <1>3, <1>5, <1>6, <1>7, <1>8 DEF Ordered

LEMMA PolledAfterPump ==
  ASSUME OInv, CallPoll
  PROVE  /\ Ordered(gui', out'.id, sent')
         /\ out'.id # 0 => out'.id \in Waiting(gui)
         /\ Waiting(Pumped(gui)) = Waiting(gui') \cup (Waiting(Pumped(gui)) \cap {out'.id})
<1> DEFINE g == Pumped(gui)
           p == Polled(g)
<1>1. out.id \in Nat /\ sent \in Nat /\ Good(gui) /\ Ordered(gui, out.id, sent)
  BY OInvTypes DEF OInv
<1>2. Good(g) /\ Ordered(g, out.id, sent) /\ Waiting(g) \subseteq Waiting(gui)
  BY <1>1, PumpedFacts, PumpedOrdered
<1> HIDE DEF g
<1>3. /\ Ordered(p.gui, p.event.id, sent)
      /\ p.event.id # 0 => p.event.id \in Waiting(g)
      /\ Waiting(p.gui) = Waiting(g) \ {p.event.id}
  BY <1>1, <1>2, PolledOrdered
<1>4. gui' = p.gui /\ out' = p.event /\ sent' = sent
  BY DEF CallPoll, g
<1> HIDE DEF p
<1> QED
  BY <1>2, <1>3, <1>4 DEF g

LEMMA OStep ==
  ASSUME OInv, [GNext]_gvars
  PROVE  /\ OInv'
         /\ out'.id # 0 => out'.id = out.id \/ out'.id \in Waiting(gui)
<1> DEFINE FromWaiting == out'.id # 0 => out'.id = out.id \/ out'.id \in Waiting(gui)
<1>1. /\ GInv' /\ Good(gui) /\ Ordered(gui, out.id, sent)
      /\ out.id \in Nat /\ sent \in Nat
  BY GNextGood, OInvTypes DEF OInv
<1>2. CASE User
  <2>1. out' = out
    BY <1>2 DEF User, Input
  <2> QED
    BY <1>1, <1>2, <2>1, InputOrdered DEF OInv
<1>3. CASE CallInit
  <2>1. PICK failed \in SUBSET Mishaps : gui' = Initialised(gui, failed)
    BY <1>3 DEF CallInit
  <2>2. out' = out /\ sent' = sent
    BY <1>3 DEF CallInit
  <2>3. Ordered(gui', out'.id, sent')
    BY <1>1, <2>1, <2>2, InitialisedSweeps, SweptOrdered
  <2> QED
    BY <1>1, <2>2, <2>3 DEF OInv
<1>4. CASE CallCreateWindow
  <2>1. PICK failed \in SUBSET Mishaps : gui' = WithWindow(gui, failed)
    BY <1>4 DEF CallCreateWindow
  <2>2. out' = out /\ sent' = sent
    BY <1>4 DEF CallCreateWindow
  <2>3. Ordered(gui', out'.id, sent')
    BY <1>1, <2>1, <2>2, WithWindowSweeps, SweptOrdered
  <2> QED
    BY <1>1, <2>2, <2>3 DEF OInv
<1>5. CASE CallPump
  <2>1. gui' = Pumped(gui) /\ out' = out /\ sent' = sent
    BY <1>5 DEF CallPump
  <2>2. Ordered(gui', out'.id, sent')
    BY <1>1, <2>1, PumpedOrdered
  <2> QED
    BY <1>1, <2>1, <2>2 DEF OInv
<1>6. CASE CallPoll
  BY <1>1, <1>6, PolledAfterPump DEF OInv
<1>7. CASE CallShutDown
  <2>1. gui' = ShutDown(gui) /\ out' = out /\ sent' = sent
    BY <1>7 DEF CallShutDown
  <2>2. Ordered(gui', out'.id, sent')
    BY <1>1, <2>1, ShutDownSweeps, SweptOrdered
  <2> QED
    BY <1>1, <2>1, <2>2 DEF OInv
<1>8. CASE UNCHANGED gvars
  BY <1>1, <1>8 DEF gvars, OInv
<1> QED
  BY <1>2, <1>3, <1>4, <1>5, <1>6, <1>7, <1>8 DEF GNext

LEMMA GSpecOrdered == GSpec => []OInv
<1>1. OInv /\ [GNext]_gvars => OInv'
  BY OStep
<1> QED
  BY <1>1, OInitGood, PTL DEF GSpec

(***************************************************************************)
(* Inputs reach the program in the order the user made them, each at most  *)
(* once, through the ring of the window and the ring of the process; a     *)
(* pump or a poll loses one only when Cap - 1 newer ones have followed it. *)
(***************************************************************************)
THEOREM OldestLostFirst == GSpec => OnlyOldInputsLost
<1> DEFINE Lost == Waiting(gui) \ (Waiting(gui') \cup {out'.id})
<1>1. ASSUME OInv, OInv', out'.id # 0
      PROVE  \A i \in Waiting(gui') : out'.id < i
  <2>1. /\ Good(gui') /\ out'.id \in Nat /\ sent' \in Nat /\ Ordered(gui', out'.id, sent')
    BY <1>1, GuiAssumption DEF OInv, GInv, GuiAssumption, AllEvents
  <2>2. Waiting(gui') = Ids(Contents(gui'.events)) \cup AllInputs(gui'.pending)
    BY <2>1, WaitingIs
  <2> QED
    BY <2>1, <2>2 DEF Ordered
<1>2. ASSUME OInv, CallPump \/ CallPoll, NEW i \in Lost
      PROVE  Cardinality({j \in Waiting(gui) : j > i}) >= Cap - 1
  <2>1. out.id \in Nat /\ sent \in Nat /\ Good(gui) /\ Ordered(gui, out.id, sent)
    BY <1>2, OInvTypes DEF OInv
  <2>2. i \in Waiting(gui) \ Waiting(Pumped(gui))
    <3>1. CASE CallPump
      BY <1>2, <3>1 DEF CallPump
    <3>2. CASE CallPoll
      BY <1>2, <3>2, PolledAfterPump
    <3> QED
      BY <1>2, <3>1, <3>2
  <2> QED
    BY <2>1, <2>2, PumpedOrdered
<1>3. OInv /\ OInv' /\ [GNext]_gvars
        => [/\ out'.id # 0 => \A i \in Waiting(gui') : out'.id < i
            /\ out'.id # 0 => out'.id = out.id \/ out'.id \in Waiting(gui)
            /\ CallPump \/ CallPoll =>
                 \A i \in Waiting(gui) \ (Waiting(gui') \cup {out'.id}) :
                    Cardinality({j \in Waiting(gui) : j > i}) >= Cap - 1]_gvars
  BY <1>1, <1>2, OStep
<1> QED
  BY <1>3, GSpecOrdered, PTL DEF GSpec, OnlyOldInputsLost

=============================================================================
