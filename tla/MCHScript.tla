----------------------------- MODULE MCHScript -----------------------------
(***************************************************************************)
(* The script engine for TLC: scripts in which statements share, outlive   *)
(* or miss the events of a frame, and every script of a few lines.         *)
(***************************************************************************)
EXTENDS HScript

MCPlaces == {1, 2}

MCOnePlace == {1}

MCNoMishaps == {}

MCMishaps == {"connect", "alloc"}

MCMouse == {"QUIT", "MOUSE_DOWN"}

MCKeys == {"QUIT", "KEY_DOWN"}

MCInputs == MCMouse \cup MCKeys

L(kind) == Line(kind, 0, 1)

LoopOf(n) == Line("begin", n, 0)

InMain(lines) == << L("func") >> \o lines \o << L("}") >>

\* Handlers in a straight line, in a block loop, and after one.
MCHandlerScripts ==
  { InMain(<< L("window"), L("on_click"), L("on_key"), L("pump"), L("on_click"), L("on_move") >>),
    InMain(<< L("window"), LoopOf(2), L("on_click"), L("pump"), L("on_click"), L("}"),
              L("on_click"), L("on_key") >>),
    InMain(<< L("window"), LoopOf(0), L("on_move"), L("on_key"), L("on_move"), L("}") >>) }

\* Widgets under the loops that look at them; a second window; no window at all.
MCWidgetScripts ==
  { InMain(<< L("window"), L("button"), Line("media", 0, 2), L("seekbar"), Line("loop", 2, 0) >>),
    InMain(<< L("window"), L("button"), L("seekbar"), L("media"), LoopOf(2), LoopOf(2),
              L("print"), L("}"), L("on_click"), L("}") >>),
    InMain(<< L("window"), L("button"), L("window"), L("loop") >>),
    InMain(<< L("loop"), L("print"), L("button"), L("loop") >>) }

\* What follows a close: loops that never end, loops that do, and no loop.
MCCloseScripts ==
  { InMain(<< L("window"), L("loop") >>),
    InMain(<< L("window"), LoopOf(0), L("print"), L("}") >>),
    InMain(<< L("window"), LoopOf(0), L("on_key"), LoopOf(2), L("pump"), L("}"), L("}") >>),
    InMain(<< L("window"), L("window"), LoopOf(0), L("pump"), L("on_key"), L("}") >>),
    InMain(<< L("window"), Line("loop", 2, 0), L("print"), L("pump") >>) }

\* framework/examples/event_loop.hosc
MCEventLoop == { InMain(<< L("window"), L("draw") >>) }

MCMediaScript == { InMain(<< L("window"), L("media"), L("loop") >>) }

MCSurprising == MCEventLoop \cup MCMediaScript

-----------------------------------------------------------------------------
(* All scripts of up to five lines, those at and above the limits of ten   *)
(* instructions and two loops, and what their braces mean by themselves.   *)

MCShortLines == { L("func"), L("}"), LoopOf(1), LoopOf(2), L("print") }

MCShortScripts == UNION { [1 .. n -> MCShortLines] : n \in 0 .. 5 }

Prints(n) == [i \in 1 .. n |-> L("print")]

MCLimitScripts ==
  { Prints(10), Prints(11),
    << LoopOf(2) >> \o Prints(8) \o << L("}") >>, << LoopOf(2) >> \o Prints(9) \o << L("}") >>,
    Prints(10) \o << LoopOf(1), L("}") >>,
    << LoopOf(2), LoopOf(1), LoopOf(2), L("}"), L("}"), L("}") >>,
    << LoopOf(2), LoopOf(1), L("}"), LoopOf(2), L("}"), L("}") >> }

MCBraceScripts == MCShortScripts \cup MCLimitScripts

MCScripts == MCHandlerScripts \cup MCWidgetScripts \cup MCBraceScripts

MCNone == {}

Opens(line) == line.op \in {"func", "begin"}

Depth(lines, i) ==
  Cardinality({j \in 1 .. i : Opens(lines[j])}) - Cardinality({j \in 1 .. i : lines[j].op = "}"})

Balanced(lines) ==
  /\ \A i \in DOMAIN lines : Depth(lines, i) >= 0
  /\ Depth(lines, Len(lines)) = 0

\* The line that closes what line i of a balanced script opens.
Closing(lines, i) ==
  CHOOSE j \in i + 1 .. Len(lines) :
    /\ Depth(lines, j) = Depth(lines, i) - 1
    /\ \A k \in i .. j - 1 : Depth(lines, k) >= Depth(lines, i)

\* The lines that become an instruction, when no function is inside a loop.
Executes(lines, i) ==
  /\ lines[i].op # "func"
  /\ lines[i].op = "}" =>
       ~\E f \in 1 .. i - 1 : lines[f].op = "func" /\ Closing(lines, f) = i

Index(lines, i) == Cardinality({j \in 1 .. i : Executes(lines, j)})

OpenLoops(lines, i) ==
  {b \in 1 .. i - 1 : lines[b].op = "begin" /\ Closing(lines, b) > i}

WithinLimits(lines) ==
  /\ Index(lines, Len(lines)) <= MaxInstructions
  /\ \A i \in DOMAIN lines :
       lines[i].op = "begin" => Cardinality(OpenLoops(lines, i)) < MaxLoopDepth

FuncsOutermost(lines) ==
  \A f \in DOMAIN lines : lines[f].op = "func" => OpenLoops(lines, f) = {}

RECURSIVE Repeated(_, _)
Repeated(n, s) == IF n = 0 THEN << >> ELSE s \o Repeated(n - 1, s)

\* The instructions that lines first to last execute, loop bodies repeated.
RECURSIVE Unrolled(_, _, _)
Unrolled(lines, first, last) ==
  IF first > last THEN << >>
  ELSE IF lines[first].op = "begin"
  THEN Bind(Closing(lines, first), LAMBDA close :
         Repeated(lines[first].n,
                  << Index(lines, first) >> \o Unrolled(lines, first + 1, close - 1)
                    \o << Index(lines, close) >>)
           \o Unrolled(lines, close + 1, last))
  ELSE (IF Executes(lines, first) THEN << Index(lines, first) >> ELSE << >>)
         \o Unrolled(lines, first + 1, last)

(***************************************************************************)
(* The parser refuses a script exactly when its braces do not balance or   *)
(* it is too long or too deep, functions being outermost.                  *)
(***************************************************************************)
AcceptsBalanced ==
  mode \in {"fetch", "refused"} =>
    (Balanced(source) =>
       (FuncsOutermost(source) => (mode = "fetch" <=> WithinLimits(source))))
    /\ (mode = "fetch" => Balanced(source))

(***************************************************************************)
(* A script that ends has executed what its nested loops say, each body as *)
(* often as its loop asks every time that loop is entered.                 *)
(***************************************************************************)
ExecutesNest ==
  mode = "done" /\ source \in Recorded /\ FuncsOutermost(source) =>
    visited = Unrolled(source, 1, Len(source))

(***************************************************************************)
(* The braces of a script mean by themselves what the engine makes of them:*)
(* it is accepted if they balance, and executed as they nest.              *)
(***************************************************************************)
BracesMean == AcceptsBalanced /\ ExecutesNest

=============================================================================
