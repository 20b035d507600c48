------------------------------ MODULE HScript ------------------------------
(***************************************************************************)
(* The framework's script engine, framework/src/hosc_framework.c: the      *)
(* parser's control structure, execute_program and the end of main, over   *)
(* the windows and events of HGui.                                         *)
(*                                                                         *)
(* A source is a sequence of lines. Statements that differ only in what    *)
(* they draw, say or play are one kind; where a widget is, is a place, and *)
(* a click hits the widgets of its place. Indices begin at 1.              *)
(***************************************************************************)
EXTENDS HGui

CONSTANTS Sources,           \* the scripts
          MaxInstructions,   \* MAX_INSTRUCTIONS
          MaxLoopDepth,      \* MAX_LOOP_DEPTH
          MaxFrame,          \* MAX_FRAME_EVENTS
          Recorded           \* the scripts of which `visited` is kept

ScriptAssumption ==
  /\ Sources \subseteq Seq([op : STRING, n : Int, place : Nat])
  /\ MaxInstructions \in Nat /\ MaxLoopDepth \in Nat /\ MaxFrame \in Nat
ASSUME ScriptAssumption

VARIABLES source, program,
          mode,        \* what the engine is about to do
          pc, quit, touched, remaining,
          frame, valid,   \* frame_events with its count, and frame_events_valid
          frames,      \* frame_count of a loop() statement
          acts,        \* history: which instruction reacted to which input
          visited      \* history: the instructions executed

svars == <<source, program, mode, pc, quit, touched, remaining, frame, valid,
           frames, acts, visited, gvars>>

Widgets == {"media", "button", "seekbar"}

Drawn == Widgets \cup {"draw"}

\* Lines that become one instruction of the same kind; `n` counts frames.
Statements == Drawn \cup {"window", "print", "pump", "on_click", "on_key", "on_move", "loop"}

Line(kind, n, place) == [op |-> kind, n |-> n, place |-> place]

-----------------------------------------------------------------------------
(* parse_script_file *)

StartParse == [items |-> << >>, loops |-> << >>, funcs |-> 0, ok |-> TRUE]

ParseError(p) == [p EXCEPT !.ok = FALSE]

Instruction(line, jump) == [op |-> line.op, n |-> line.n, place |-> line.place, jump |-> jump]

\* add_instruction
Added(p, line, jump) ==
  IF Len(p.items) >= MaxInstructions THEN ParseError(p)
  ELSE [p EXCEPT !.items = Append(@, Instruction(line, jump))]

\* parse_loop_begin
LoopBegun(p, line) ==
  LET q == Added(p, line, 0)
  IN  IF Len(p.loops) >= MaxLoopDepth \/ ~q.ok THEN ParseError(p)
      ELSE [q EXCEPT !.loops = Append(@, Len(q.items))]

\* Mutant: the outermost loop is closed.
LoopEndedOuter(p) ==
  LET begin == Head(p.loops)
      q     == Added(p, Line("end", 0, 0), begin)
  IN  IF ~q.ok THEN q
      ELSE [q EXCEPT !.items[begin].jump = Len(q.items), !.loops = Tail(@)]

\* parse_loop_end
LoopEnded(p) ==
  LET begin == Last(p.loops)
      q     == Added(p, Line("end", 0, 0), begin)
  IN  IF ~q.ok THEN q
      ELSE [q EXCEPT !.items[begin].jump = Len(q.items), !.loops = Front(@)]

\* Lines of a function's beginning and of its end.
FuncBegun(p) == [p EXCEPT !.funcs = p.funcs + 1]
FuncEnded(p) == [p EXCEPT !.funcs = p.funcs - 1]

\* A closing brace belongs to the innermost loop, and to a function if there is none.
BraceClosed(p) ==
  IF p.loops # << >> THEN LoopEnded(p)
  ELSE IF p.funcs > 0 THEN FuncEnded(p) ELSE ParseError(p)

\* Nothing is parsed after an error.
ParsedLine(p, line) ==
  IF ~p.ok THEN p
  ELSE IF line.op = "func" THEN FuncBegun(p)
  ELSE IF line.op = "}" THEN BraceClosed(p)
  ELSE IF line.op = "begin" THEN LoopBegun(p, line)
  ELSE IF line.op \in Statements THEN Added(p, line, 0)
  ELSE ParseError(p)

\* At the end of the file no brace is open.
Closed(p) == [p EXCEPT !.ok = p.ok /\ p.loops = << >> /\ p.funcs = 0]

Parsed(lines) == Bind(Fold(ParsedLine, StartParse, lines), Closed)

-----------------------------------------------------------------------------
SInit == /\ source \in Sources
         /\ \E server \in BOOLEAN, failed \in SUBSET Mishaps :
              gui = Initialised(FreshProcess(server), failed)
         /\ sent = 0 /\ out = NoEvent
         /\ program = << >> /\ mode = "load"
         /\ pc = 1 /\ quit = FALSE /\ touched = FALSE /\ remaining = << >>
         /\ frame = << >> /\ valid = FALSE /\ frames = 0
         /\ acts = << >> /\ visited = << >>

history == <<acts, visited>>

\* main before execute_program: an unreadable script ends the process.
Load ==
  /\ mode = "load"
  /\ \E p \in {Parsed(source)} :
       \/ /\ p.ok
          /\ program' = p.items
          /\ remaining' = [i \in DOMAIN p.items |-> -1]
          /\ mode' = "fetch"
          /\ UNCHANGED gui
       \/ /\ ~p.ok
          /\ mode' = "refused"
          /\ gui' = ShutDown(gui)
          /\ UNCHANGED <<program, remaining>>
  /\ UNCHANGED <<source, pc, quit, touched, frame, valid, frames, history, sent, out>>

\* Mutant: only a QUIT event that arrives ends the script.
WindowGoneUnnoticed == FALSE

\* The window of a program that has drawn has been closed.
WindowGone == gui.backend # "console" /\ ~IsRunning(gui)

Here == program[pc]

\* The head of the loop of execute_program, for the instruction at pc.
Fetches(ops) ==
  /\ mode = "fetch" /\ pc <= Len(program) /\ ~quit
  /\ ~(touched /\ WindowGone)
  /\ Here.op \in ops
  /\ visited' = IF source \in Recorded THEN Append(visited, pc) ELSE visited
  /\ UNCHANGED <<source, program, sent>>

Proceed == pc' = pc + 1 /\ mode' = "fetch"

NoticeClosed ==
  /\ mode = "fetch" /\ pc <= Len(program) /\ ~quit
  /\ touched /\ WindowGone
  /\ quit' = TRUE
  /\ UNCHANGED <<source, program, mode, pc, touched, remaining, frame, valid,
                 frames, history, gvars>>

ExecWindow ==
  /\ Fetches({"window"})
  /\ Len(gui.windows) < MaxWindows
  /\ \E failed \in SUBSET Mishaps : gui' = WithWindow(gui, failed)
  /\ touched' = TRUE /\ valid' = FALSE
  /\ Proceed
  /\ UNCHANGED <<quit, remaining, frame, frames, acts, out>>

ExecDraw ==
  /\ Fetches(Drawn)
  /\ touched' = TRUE
  /\ Proceed
  /\ UNCHANGED <<quit, remaining, frame, valid, frames, acts, gui, out>>

\* Also OP_THEME, OP_PLAY_SOUND, OP_AUDIO_STOP and OP_WIN32_MESSAGE_BOX.
ExecPrint ==
  /\ Fetches({"print"})
  /\ Proceed
  /\ UNCHANGED <<quit, touched, remaining, frame, valid, frames, acts, gui, out>>

\* Mutant: the events of the frame before stay.
StartCollectMore == mode' = "collect" /\ UNCHANGED <<frame, valid>>

StartCollect == mode' = "collect" /\ frame' = << >> /\ UNCHANGED valid

ExecPump ==
  /\ Fetches({"pump"})
  /\ StartCollect
  /\ UNCHANGED <<pc, quit, touched, remaining, frames, acts, gui, out>>

\* The inputs that a handler statement reacts to, and what it has reacted to
\* after the events of this frame. An on_key statement is one that names no key;
\* one that does passes over the events of other keys.
Reacts(op) == CASE op = "on_click" -> "MOUSE_DOWN"
                [] op = "on_key"   -> "KEY_DOWN"
                [] op = "on_move"  -> "MOUSE_MOVE"

Reacted(past, e) ==
  IF e.type = Reacts(Here.op) THEN Append(past, <<pc, e.id>>) ELSE past

Handled(past) == Fold(Reacted, past, frame)

\* OP_EVENT_*: the events of the frame are fetched by the first one that wants them.
ExecHandler ==
  /\ Fetches({"on_click", "on_key", "on_move"})
  /\ \/ /\ valid
        /\ acts' = Handled(acts)
        /\ touched' = (touched \/ acts' # acts)
        /\ Proceed
        /\ UNCHANGED <<frame, valid>>
     \/ /\ ~valid
        /\ StartCollect
        /\ UNCHANGED <<pc, touched, acts>>
  /\ UNCHANGED <<quit, remaining, frames, gui, out>>

\* OP_LOOP_SIMPLE: a script that has drawn nothing only sleeps once.
ExecLoop ==
  /\ Fetches({"loop"})
  /\ \/ ~touched /\ Proceed /\ UNCHANGED <<frame, valid, frames>>
     \/ touched /\ StartCollect /\ frames' = 0 /\ UNCHANGED pc
  /\ UNCHANGED <<quit, touched, remaining, acts, gui, out>>

\* OP_LOOP_BEGIN: -1 is a loop not entered yet, -2 one that never ends. The
\* branch for a counter of 0 is not there: no counter ever is 0.
ExecLoopBegin ==
  /\ Fetches({"begin"})
  /\ remaining' = IF remaining[pc] = -1
                  THEN [remaining EXCEPT ![pc] = IF Here.n <= 0 THEN -2 ELSE Here.n]
                  ELSE remaining
  /\ StartCollect
  /\ UNCHANGED <<pc, quit, touched, frames, acts, gui, out>>

\* Mutant: the counter is not reset when the loop ends.
ExecLoopEndKeeps ==
  /\ Fetches({"end"})
  /\ LET begin == Here.jump
         left  == remaining[begin]
     IN  \/ /\ left = -2 \/ left > 1
            /\ remaining' = [remaining EXCEPT ![begin] = IF left > 1 THEN left - 1 ELSE left]
            /\ pc' = begin
         \/ /\ left \in {-1, 0, 1}
            /\ pc' = pc + 1
            /\ UNCHANGED remaining
  /\ mode' = "fetch" /\ valid' = FALSE
  /\ UNCHANGED <<quit, touched, frame, frames, acts, gui, out>>

\* OP_LOOP_END
ExecLoopEnd ==
  /\ Fetches({"end"})
  /\ LET begin == Here.jump
         left  == remaining[begin]
     IN  \/ /\ left = -2
            /\ pc' = begin
            /\ UNCHANGED remaining
         \/ /\ left > 1
            /\ remaining' = [remaining EXCEPT ![begin] = left - 1]
            /\ pc' = begin
         \/ /\ left \in {-1, 0, 1}
            /\ remaining' = [remaining EXCEPT ![begin] = -1]
            /\ pc' = pc + 1
  /\ mode' = "fetch" /\ valid' = FALSE
  /\ UNCHANGED <<quit, touched, frame, frames, acts, gui, out>>

-----------------------------------------------------------------------------
(* collect_frame_events: one poll per step, so that inputs arrive between two. *)

unread == <<source, program, pc, touched, remaining, frames, history, sent>>

CollectOne ==
  /\ mode = "collect" /\ Len(frame) < MaxFrame
  /\ LET p == Polled(Pumped(gui))
     IN  /\ p.found
         /\ gui' = p.gui /\ out' = p.event
         /\ frame' = Append(frame, p.event)
         /\ quit' = (quit \/ p.event.type = "QUIT")
  /\ UNCHANGED <<mode, valid, unread>>

\* The frame is full, or the poll that finds nothing ends it.
CollectEnd ==
  /\ mode = "collect"
  /\ \/ Len(frame) = MaxFrame /\ UNCHANGED <<gui, out>>
     \/ /\ Len(frame) < MaxFrame
        /\ LET p == Polled(Pumped(gui))
           IN  ~p.found /\ gui' = p.gui /\ out' = p.event
  /\ mode' = "handle" /\ valid' = TRUE
  /\ UNCHANGED <<quit, frame, unread>>

\* A click on the widget that statement j has drawn.
Hit(past, e, j, op) ==
  IF e.type = "MOUSE_DOWN" /\ program[j].op = op /\ program[j].place = e.at
  THEN Append(past, <<j, e.id>>)
  ELSE past

HitsOf(past, e, op) ==
  Fold(LAMBDA hits, j : Hit(hits, e, j, op), past, [j \in DOMAIN program |-> j])

(***************************************************************************)
(* handle_media_player_clicks, handle_button_clicks and handle_seekbar_    *)
(* clicks: what each event hits, in the order of the events and then of    *)
(* the program.                                                            *)
(***************************************************************************)
Hits(past, op) == Fold(LAMBDA hits, e : HitsOf(hits, e, op), past, frame)

after == <<source, program, remaining, frame, gui, sent, out, visited>>

HandlePump ==
  /\ mode = "handle" /\ Here.op = "pump"
  /\ Proceed
  /\ UNCHANGED <<quit, touched, valid, frames, acts, after>>

HandleHandler ==
  /\ mode = "handle" /\ Here.op \in {"on_click", "on_key", "on_move"}
  /\ acts' = Handled(acts)
  /\ touched' = (touched \/ acts' # acts)
  /\ Proceed
  /\ UNCHANGED <<quit, valid, frames, after>>

\* A seekbar moves only while a track of known length plays.
HandleLoopBegin ==
  /\ mode = "handle" /\ Here.op = "begin"
  /\ \E playing \in BOOLEAN :
       LET hits == Hits(Hits(acts, "media"), "button")
       IN  acts' = IF playing THEN Hits(hits, "seekbar") ELSE hits
  /\ touched' = (touched \/ acts' # acts)
  /\ Proceed
  /\ UNCHANGED <<quit, valid, frames, after>>

\* One turn of the while loop of OP_LOOP_SIMPLE, once its events are there.
HandleLoop ==
  /\ mode = "handle" /\ Here.op = "loop"
  /\ \E playing \in BOOLEAN :
       LET hits == Hits(acts, "button")
       IN  acts' = IF quit THEN acts
                   ELSE IF playing THEN Hits(hits, "seekbar") ELSE hits
  /\ \/ /\ quit \/ WindowGone
        /\ quit' = TRUE /\ valid' = FALSE
        /\ Proceed
        /\ UNCHANGED <<frame, frames>>
     \/ /\ ~quit /\ ~WindowGone
        /\ Here.n > 0 /\ frames + 1 >= Here.n
        /\ frames' = frames + 1 /\ valid' = FALSE
        /\ Proceed
        /\ UNCHANGED <<quit, frame>>
     \/ /\ ~quit /\ ~WindowGone
        /\ Here.n <= 0 \/ frames + 1 < Here.n
        /\ frames' = IF Here.n > 0 THEN frames + 1 ELSE frames
        /\ mode' = "collect" /\ frame' = << >>
        /\ UNCHANGED <<pc, quit, valid>>
  /\ UNCHANGED <<source, program, touched, remaining, gui, sent, out, visited>>

-----------------------------------------------------------------------------
(* main after execute_program: a window still open waits for the Enter key. *)

rest == <<source, program, pc, quit, touched, remaining, frame, valid, frames,
          history, sent, out>>

Ended == mode = "fetch" /\ (pc > Len(program) \/ quit)

WaitsForEnter == touched /\ gui.backend # "console" /\ IsRunning(gui)

AskForEnter == Ended /\ WaitsForEnter /\ mode' = "enter" /\ UNCHANGED <<gui, rest>>

Exit == Ended /\ ~WaitsForEnter /\ mode' = "done" /\ gui' = ShutDown(gui) /\ UNCHANGED rest

Enter == mode = "enter" /\ mode' = "done" /\ gui' = ShutDown(gui) /\ UNCHANGED rest

-----------------------------------------------------------------------------
Engine ==
  \/ Load \/ NoticeClosed
  \/ ExecWindow \/ ExecDraw \/ ExecPrint \/ ExecPump \/ ExecHandler
  \/ ExecLoop \/ ExecLoopBegin \/ ExecLoopEnd
  \/ CollectOne \/ CollectEnd
  \/ HandlePump \/ HandleHandler \/ HandleLoopBegin \/ HandleLoop
  \/ AskForEnter \/ Exit

script == <<source, program, mode, pc, quit, touched, remaining, frame, valid, frames, history>>

SUser == mode \notin {"done", "refused"} /\ User /\ UNCHANGED script

\* The process is gone.
Stopped == mode \in {"done", "refused"} /\ UNCHANGED svars

SNext == Engine \/ SUser \/ Enter \/ Stopped

SSpec == SInit /\ [][SNext]_svars /\ WF_svars(Engine)

-----------------------------------------------------------------------------
Modes == {"load", "refused", "fetch", "collect", "handle", "enter", "done"}

STypeOK ==
  /\ GTypeOK
  /\ mode \in Modes
  /\ pc \in 1 .. Len(program) + 1
  /\ quit \in BOOLEAN /\ touched \in BOOLEAN /\ valid \in BOOLEAN
  /\ Len(program) <= MaxInstructions /\ Len(frame) <= MaxFrame
  /\ \A i \in DOMAIN frame : frame[i] \in AllEvents
  /\ DOMAIN remaining = DOMAIN program

(***************************************************************************)
(* The counter of a block loop is set exactly while the engine is inside   *)
(* that loop, so that a loop entered again, by an outer loop, counts from  *)
(* its beginning; and it stays within what the script asked for.           *)
(***************************************************************************)
LoopsNest ==
  \A b \in DOMAIN program : program[b].op = "begin" =>
    /\ remaining[b] \in {-1} \cup (IF program[b].n <= 0 THEN {-2} ELSE 1 .. program[b].n)
    /\ remaining[b] # -1 => pc \in b .. program[b].jump
    /\ pc \in b + 1 .. program[b].jump => remaining[b] # -1

(***************************************************************************)
(* The program, its frame of events and its counters stay within their     *)
(* limits, and the counters are those of the loops around the statement    *)
(* that is executed (parse_script_file, execute_program).                  *)
(***************************************************************************)
CountersRight == STypeOK /\ LoopsNest

(***************************************************************************)
(* No statement reacts to an input twice, and each reacts to its inputs in *)
(* the order the user made them, though the events of a frame are shared   *)
(* by the statements, kept between them and collected anew by loops.       *)
(***************************************************************************)
HandledOnce ==
  \A i, j \in DOMAIN acts :
    i < j /\ acts[i][1] = acts[j][1] => acts[i][2] < acts[j][2]

CloseAsked == \E i \in DOMAIN gui.pending : gui.pending[i].type = "QUIT"

(***************************************************************************)
(* A script of which the user closes a window stops executing, even when   *)
(* more inputs follow than the rings and a frame hold.                     *)
(***************************************************************************)
CloseEnds == CloseAsked ~> mode \in {"enter", "done"}

(***************************************************************************)
(* "Close window to stop" (event_loop.hosc:7): closing the window of the   *)
(* script ends the process.                                                *)
(***************************************************************************)
CloseStops == CloseAsked ~> mode = "done"

\* A step in which OP_LOOP_SIMPLE has handled the events of a frame.
LoopHandles == mode = "handle" /\ Here.op = "loop" /\ mode' # "handle" /\ ~quit

(***************************************************************************)
(* "Component controls: OPEN, PLAY, STOP, REPLAY." (hosc_framework.c:2726):*)
(* a click on a media player during a loop() statement has its effect.     *)
(***************************************************************************)
ControlsWork ==
  [][LoopHandles =>
       LET clicks == Hits(<< >>, "media")
       IN  \A i \in DOMAIN clicks : \E j \in DOMAIN acts' : acts'[j] = clicks[i]]_svars

=============================================================================
