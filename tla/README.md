# HOSC: a verification project

HOSC is a small language with a compiler and a bytecode VM written in C, a framework that
runs graphical scripts, and a second, self-contained "bootstrap" implementation. This directory
holds TLA+ models of its core logic, the TLC configurations that check them, and proofs for TLAPS.

Run from this directory: `tlc -config MCHVM.cfg MCHVM` (any `.cfg` with the module its name
begins with; with `-continue` one whose name ends in `_findings` shows all it finds), and `tlapm` with any module whose name
ends in `_proofs`.

## Inventory

| part | code | state | operations | correct when |
|---|---|---|---|---|
| virtual machine | `vm/src/core`, `vm/src/object`, `vm/src/native` | value stack, call frames, natives, object list, last error | validate and load a module, one handler per opcode, push and pop frames, register natives | never leaves its arrays whatever the bytes; a return resumes the caller as it was; each execution starts clean; a failure is reported |
| code generator | `compiler/src/frontend/pipeline.c` 393-812 | emitter (code, constants, globals), names of the current function | one per kind of expression and statement, jump patching | the bytecode does what the syntax tree says |
| type checker | `compiler/src/sema` | chain of scopes, errors, type of the last expression | one per node kind | what it accepts compiles, links and runs without a name error |
| tool chain run | `cli/hosc/src/command_run.c`, `runtime/src/embed` | none of its own | compile, create a VM, execute, report | composes the three above |
| lexer | `compiler/src/lexer.c` | position, line, tokens | one loop over the characters | tokens and their lines are those that were written |
| parser, AST arena | `compiler/src/parser.c`, `ast_utils.c`, `arena.c` | token cursor, depth, first message, arena | recursive descent | a tree is what its text says; no statement is lost |
| import resolution | `pipeline.c` 274-390 | active and loaded paths, text so far | depth-first inclusion | ends on cycles, includes once, in order |
| bytecode loader and writer | `vm/src/bytecode/loader.c`, `pipeline.c` 957-1019 | file offset, sections read so far | write, load | load undoes write; an incomplete file is refused; what is read is released |
| framework runtime | `framework/src/hosc_runtime.c`, `hosc_modules.c` | ring of 256 events, windows, backend, audio child, registries, last error, log file, allocation counters | init and shutdown, push and poll, create window, play, pause, seek, load, register, report, allocate | no use of what is shut down; the newest event is never lost; at most one child process; each block of memory released once, by its owner |
| framework scripts | `framework/src/hosc_framework.c` | parsed program, loop counters, current frame's events | parse_script_file, execute_program | braces match; loops nest, and end when the window is closed; each input handled once |
| GUI services | `services/src` | table of backends, per window a connection, a ring of events and a running flag | registration, selection, create, destroy, pump, drawing | the best backend is used however often the GUI starts; a window's events are its own |
| bootstrap | `bootstrap/src` | scopes, command registry, bytecode, VM stack | parse, rewrite, interpret, compile, run, one line of a session | macros are expanded before anything runs; scopes are left as they were entered; both back ends agree |

*Interactions.* The compiler hands a module in memory to the VM (`hosc_runtime_run_bytecode`) or
through a file. The VM calls natives by pointer. The framework does not use the VM: it interprets
its own statement list and talks to a GUI backend. A pump reads the connection into the window's
ring, then empties that ring through a callback into the framework's ring, from which scripts poll. Sound
is played by a child process.

*Concurrency.* The tool chain has one thread and no callbacks other than natives, so its hard
behaviours are long sequences of legal steps: jumps patched later, frames resumed later, a stack
that keeps old values, one VM used for several executions, limits and allocations that give out in
the middle. The framework has one thread too, but not the world around it: the user acts between any two
steps, on any window, and a player may end, and its process id be given away, in the middle of a call.

## Modules

| module | models |
|---|---|
| `HBytecode` | opcodes, the shape of modules, instruction boundaries, the static validation (`hvm_validate_bytecode_module`) |
| `HValue` | tagged values and arithmetic of a given width |
| `HVM` | the VM: one action per group of opcodes that share a shape, `Execute` (`hvm_execute`), `RegisterNative` |
| `HVM_proofs` | the theorems about `HVM` |
| `HBind`, `HBind_proofs` | evaluation of an expression in steps, used by the recursive definitions; induction over the steps of a sequence |
| `HCodegen` | the code generator, a function from syntax trees to modules |
| `HSema` | the type checker, a function from syntax trees to errors |
| `HLanguage` | the abstract specification: what a program prints and how it ends, by its syntax tree with nested scopes, and the machine that does just that |
| `Compiled` | `HSema`, `HCodegen` and `HVM` composed as `hosc run` composes them, and the refinement to `HLanguage` |
| `HLexer` | the lexer, a function from characters to tokens with their lines |
| `HParser` | the parser and the arena, a function from tokens to trees; and how a programmer writes a tree: tokens, and characters, that lexer and parser have to undo |
| `HImports`, `HImports_proofs` | import resolution, one action per step of a call, and its theorems |
| `HLoader`, `HLoader_proofs` | writing and loading a bytecode file, one action per section that is read, and its theorems |
| `HFrontEnd` | `HImports`, `HLexer`, `HParser`, `HSema`, `HCodegen` and `HLoader` composed as `hosc build` and the loading of its file compose them |
| `HRing`, `HRing_proofs` | a ring of event cells and its operations, as functions; both rings of the framework are one; what the operations do to its contents |
| `HForgetful` | the abstract specification of a ring: a queue that forgets its oldest event when full |
| `HEventQueue` | one ring on its own, the refinement to `HForgetful` |
| `HGui` | the framework's windows and events over the X11 and console backends, with an X server and a user |
| `HScript` | the script engine over `HGui`: parser, `execute_program`, the end of `main` |
| `HGui_proofs`, `HScript_proofs` | the theorems about `HGui` and, on top of them, about `HScript` |
| `HAudio` | the audio child process in a table of process ids |
| `HFramework_proofs` | the theorems about `HEventQueue`, `HAudio` and `HRuntime` |
| `HRuntime` | the memory manager, the registries of modules and API functions, the last error, the log file, start and end of a runtime |
| `BsSyntax`, `BsParser` | trees, values and tokens of the bootstrap language; its parser, and how a tree is written |
| `BsRuntime` | scopes, natives and the command registry; registration and expansion of macros |
| `BsInterpreter`, `BsCodegen`, `BsVM` | the two back ends: the tree walk, and the code generator with the virtual machine, an action per kind of instruction |
| `BsSession` | the driver: a session line by line, a program in the virtual machine, a tree that is shown |
| `MCPrograms` | syntax trees that `MCCompiled` and `MCFrontEnd` share |
| `MCHVM`, `MCCompiled`, `MCFrontEnd`, `MCFramework`, `MCHScript`, `MCBootstrap` | the instances for TLC; a behaviour of `MCFramework` is one of the ring, the GUI, the audio or the runtime |

### Correspondence

*HVM.* `stack`, `top` and `frames` are the arrays of `struct HVM`. `stack` is the whole array: cells
above `top` keep their contents, since only that makes stale locals visible. A frame keeps `ip` as an
offset from `code_base`. `loaded` is `loaded_bc`, `objects` the length of the object list, `lastError`
the message buffer together with the number of the execution that wrote it (a history variable).
`Fetch` is the `switch`; `Fail` is `hvm_set_error` followed by `return 1`. A failing handler may have
popped operands before it fails. `Fail` leaves them: `hvm_execute` resets the stack before anything
reads it. The bytes of a module are data, so a jump into an operand is followed there as it is in C.

*Undefined behaviour.* `IntMin / -1` (`interpreter_loop.c:345`) is a choice: `ArithmeticInt` wraps,
`DivisionTraps` kills the process. Signed overflow of `+`, `-`, `*` and unary `-` is taken to wrap, the
outcome a build without sanitizers gives.

*HCodegen and HSema.* The emitter and the semantic context are records threaded through recursive
operators named after the C functions. A failed emitter stays failed, as the C functions return 0 all
the way up. An optional child is a sequence of at most one element. Text is abstract: a name is a
string compared only with `=`, a literal a number. `Bind` stands for a C local variable.

*Compiled.* `compiled` is the module `hosc_compile_memory` made, `texts` the text of each string
object, `output` the lines of `print`. `meaning` is a history variable that the refinement mapping to
`HLanguage` uses.

*HRing, HEventQueue.* `head`, `tail` and `cells` are `g_gui_event_head`, `g_gui_event_tail` and
`g_gui_event_queue`, and `queue_head`, `queue_tail`, `event_queue` of an X11 window. `did` is a history variable: the
operation made last and its event.

*HGui.* The process's variables are the fields of the record `gui`: `table` is `g_backends`, `active`
`g_active_backend`, `window` `g_active_window` (an index of `windows`, 0 for NULL), `running`, `initialized`, `events` the
globals of that name. `windows` is every `struct HVM_GuiBackendWindow` ever allocated, `freed` ones included, so that a
handle to a freed one is seen. `pending` is what waits on the connection, for whichever window. `server` says whether an
X server answers. Each operation is a function of the record, as it is in C a call, and `HScript` uses the same
functions. A window's own ring is empty between two pumps, so it is a local of `Pumped`.

*HScript.* `pc`, `touched`, `quit`, `frame`, `valid`, `frames` and `remaining` are `pc`, `*touched_gui`, `should_quit`, `frame_events`,
`frame_events_valid`, `frame_count` and `loop_remaining`; indices begin at 1. `mode` is where the engine is: reading the
script, at the head of its loop, inside `collect_frame_events`, after it, or at `getchar`. A poll is a step of its own, so inputs
arrive between two polls of one frame. `acts` and `visited` are history variables. The branch of `OP_LOOP_BEGIN`
for a counter of 0 is left out: a counter is -1, -2 or positive (`LoopsNest`). What a click does to the audio, a file dialog
or a label is the pair of the statement and the input in `acts`.

*HAudio.* `child`, `playing`, `kind`, `path`, `offset`, `duration` are the `g_audio_*` globals of the branch without libmpv and
libvlc. A call that stops a player is the steps test and signal (`Kill`), `waitpid` (`Wait`), `fork` (`Spawn`); between them
players end (`Ends`) and the system gives ids away (`Reuse`). Time does not pass: a position is where a player began, so the
elapsed time that `hosc_audio_get_position_ms` adds is the same on both sides. A `Seek` asks for any of `Asked`.

*HImports.* `active` holds the calls of `resolve_imports_recursive` that have not returned, each with its path, its
next line and its text so far; the code keeps the paths in `active` and the rest on the C stack. `loaded` is the list of that
name. A path is the sequence of its components, as it is spelled; `Meaning` is what the file system makes of it. `text` is what
the last call returned, as a sequence of pieces of files, not of characters.

*HLexer, HParser.* Functions, since nothing runs in between: a record stands for `Lexer` and `Parser`. A word or a run of digits
is one character. `p.words` is what the arena has left, in words of eight bytes; whatever is taken is counted, and a NULL is
followed as the code follows it. `p.depth` is `parser->depth`.

*HLoader.* A file is an image and the number of cells that are there; a cell is what is read as a whole. `held` is what the loader
has allocated and not freed; a step is a section, and any allocation in it may be denied once.

*HFrontEnd.* `stage` is where `hosc_compile_file` is; `codes` the codes of its diagnostics. `Damage` is anything that may happen
to a file between two commands.

*HRuntime.* `mem.heap` is what `malloc` gave away, by kind; `mem.inUse` and `mem.tracking` are fields of `g_memory_stats`;
`context`, `modules`, `functions`, `error`, `log` are `g_runtime_context`, `g_module_list`, `g_api_list`, `g_last_error`, `g_log_file`. `inits`
and `opened` are history variables. An operation that would free what `malloc` did not return ends the process.

*Bootstrap.* `rt` is a `BsRuntime`: the scopes, the innermost last, the registry, what was printed, and whether an error is
set. `vm` is a `BsVM`. The parser, the rewriter, the interpreter and the code generator are functions of one line or one program,
since nothing runs in between; an action is a turn of the session or an instruction of the VM. `stale` and `garbled` mark a
machine that used what it should not.

### Abstractions

Floats are values of another tag with integral payloads. The text of a string object is the sequence
of literals and numbers it was concatenated from. Error messages of one kind share a name. Formatting,
spans, suggestions and tracing are left out.

A native of the embedder makes any number of strings there is memory for and returns any number of a given set, any string that
was ever made, or any native, whether it was handed to it or kept from an earlier call; or it fails. What it does not do is call back into
the VM: run a module, or register a native, in the middle of a call. `hvm_create` goes on when a built-in native cannot
be allocated (`BuiltinsMade`), so the theorems hold of such a VM too; the heaps of the runs have room for both.

`LexNumber` takes a run of digits and a word behind it for one character each; `Exponents` says which words begin with an exponent and
what is left of them, `OutOfRange` which numbers `strtod` reports as too large or too small. `LikeKeyword` is the set of the names of the instance that the
parser takes for a keyword spelled wrong; only the code of a diagnostic depends on it. In `HScript` a handler of a key reacts to any key, as
if it named none.

## Runs

| run | module, cfg | checks |
|---|---|---|
| `vm` | `MCHVM`, `MCHVM.cfg` | `TypeOK`, `FramesInBounds`, `CallChain`, `ObjectsExist`, `FreshLocals` |
| `compiled` | `MCCompiled`, `MCCompiled_family.cfg` | `Implements` (the refinement, liveness included), `WellStacked`, `CallerIsolated`, `BalancedStack` |
| `agreement` | `MCCompiled`, `MCCompiled_agreement.cfg` | a violation, see Findings |
| `front_end` | `MCFrontEnd`, `MCFrontEnd.cfg` | `NoneTwice`, `Assembled`, `TokensBack`, `ReadBack`, `DeepWhereDeep`, `OnlyLastDropped`, `OneVerdict`, `Released`, `AcceptedRightly`, `FrontEnds` (liveness) |
| `framework_parts` | `MCFramework`, `MCFramework.cfg` | `PartsTypeOK`; ring: `IsForgetfulQueue` (the refinement); GUI: `HandleIsLive`, `PlatformFirst`, `OnlyOldInputsLost`, `ClosedStaysClosed`; audio: `OnePlayer`, `PositionTrue`, `SparesOthers`, `StopReturns` (liveness); runtime: `AllAccounted` |
| `gui_other_window`, `audio_sigchld` | `MCFramework`, `MCFramework_other_window.cfg`, `MCFramework_sigchld.cfg` | a violation each, see Findings |
| `scripts` | `MCHScript`, `MCHScript_scripts.cfg` | `CountersRight`, `HandledOnce`, `BracesMean` |
| `script_close` | `MCHScript`, `MCHScript_close.cfg` | `CloseEnds` (liveness) |
| `bootstrap` | `MCBootstrap`, `MCBootstrap.cfg` | `ScopesBalanced`, `MacrosExpanded`, `ReadBack`, `SameOutputCommon`, `StackBalanced`, `VMEnds` (liveness) |
| `macro_in_command`, `bare_if` | `MCBootstrap`, `MCBootstrap_macro.cfg`, `MCBootstrap_bare_if.cfg` | a violation each, see Findings |

*Bounds of `vm`.* Every sequence of up to three instructions over a small alphabet, each executed on its own, and modules
made to jump into operands, to recurse to the frame limit and to fill the stack. The stack has five
cells and the heap four objects, so each limit is reached in a handful of steps. The checks of the
loop look at one instruction, one frame and the frame below it, so longer functions add no new case. The modules made by hand run
in sessions of up to three executions on one VM with natives registered between them: a
value must survive one execution and be seen in the next; the third covers two kinds of leftovers.

*Bounds of `compiled`.* A main that calls `f`, for about 1200 functions `f` of one to four statements
out of nine kinds, with nesting, and programs that are refused or fail in a way of their own. The code
generator works statement by statement, with state between them only in the names, the position and
the open patches; two statements and an ending exercise each pair. Integers are of four bits so that
overflow occurs. The family leaves out what the findings show to disagree, each of which has its counterexample below:
`while`, `break`, `continue`, logical operators, a redeclared name in an inner block, a function that
ends in a conditional return. It also leaves out equality of strings (the VM compares identity) and
recursion deeper than the frame limit, which the language has no notion of.

*Bounds of `front_end`.* About 200 file systems: programs in two files, of every kind of statement; each operator beside each
other, on either side; up to three files that import each other, themselves, what is missing, and one another by other
spellings; texts that are refused or only just are not; each sign beside each other, twenty kinds of words, numbers, literals and
comments beside each other, and tokens without an end. Paths have at most `MaxPath` 8 components and nest at most `MaxDepth` 8
(256 in the code) deep: the limit counts calls that have not returned, whatever it is. Arenas have the size of the code, and 62 to 64
words, where a program of a function and a statement just fits or does not. At most one allocation of the loader is denied, a
write may fail at any cell, and a file may be changed in one field, at its boundaries. The loader tests
field by field, so one changed field reaches each test. Left out: counts that are changed so that the sections shift, after which each
field holds bytes of another.

*Bounds of `framework_parts`.* Rings: `Cap` 3 (256 in the code): two events fill a ring, and it wraps around while
full, at every position of `head`; three inputs overflow both rings of the GUI. The theorems cover every capacity.
GUI: `MaxBackends` 3:
full after the second start of the GUI, which registers two each time. `MaxWindows` 3: two at once, or one on each side of a
shutdown. `Mishaps`: the connection and the allocation may fail at each creation. A user acts only on X11 windows.
Audio: two process ids, so that one is given away while the program still holds it and a new player gets
the other; positions 0 to 2, a track of length 1 or unknown, seeks to -1, 0, 1 and 2. One path: nothing compares paths.
Runtime: four blocks of memory, as many as registering a function asks for, so that with a runtime, a module or an error in it
each of those allocations is refused somewhere, beside those that are denied at will; two starts; two modules and one name, since a
list is searched in one way for all names; the size of the context is 1, that of all else 0, as the balance of sizes is in no
property of the run.

*Bounds of the script runs.* `MaxFrame` 2 and `Cap` 3, so that a frame is full, and a ring overflows, with three inputs. The
scripts are named by what they exercise: handlers in a line, in a loop and behind it; widgets in nested loops; two
windows; a script that has drawn nothing; limits of ten instructions and two levels of loops, which some reach and some
exceed. All 3906 scripts of up to five lines out of a function, a brace, two loops and a print are compared with the meaning of
their braces, defined in `MCHScript` without a stack or jumps. Functions inside loops are outside of what that claims: a brace
there closes the loop first. `script_close` has no failing creations: a second window that fails leaves the first one without
a handle, and nobody can close it.

*Bounds of `bootstrap`.* Sessions of up to three lines out of eighteen, which define a variable, a constant, a function, two macros and
a command, redefine one as another, use each of them, and leave loops and functions by `break`, `continue`, `return` and errors: a
definition, a use and a line behind it are three. A macro that comes to be called does nothing (`rt.skipped` remembers its name). `MacrosExpanded`
says where that may happen at all: in the body of a command, which the rewriter leaves alone, or in a line older than the macro. The first is
a finding. Through the parser: each operator under each other on either side, each place of
a statement with an expression in it, and any three of fifteen tokens behind a brace. Through the virtual machine: about 2600
programs of two locals and two statements out of 21. `SameOutputCommon` is about the part of the language that the code generator
has code for (`Common`, with the reasons): elsewhere the two back ends are not meant to be the same, or are a finding.

*Fairness.* In `SSpec` `WF_svars(Engine)`: the thread of the engine is never blocked, except in `getchar`, so `Enter` has no
fairness; nor has the user. In `ASpec` `WF_avars(Steps)`: a call goes on, its `waitpid` only when that can return; and a player
that got SIGTERM ends in the end (none of the players named ignores it). `MCSpec` of `MCFramework` demands the same of behaviours of the
audio. `Implements` includes that a run ends. `CSpec` assumes `WF_cvars(CNext)`: the one thread of
the process keeps running. In `FSpec` that thread goes on resolving imports (`WF_fvars(Resolve)`) and loading a file it has opened
(`WF_fvars(GoesOnLoading)`); whether a file is saved and opened is up to the user. In `Spec` of `BsSession` it goes on executing instructions
(`WF_vars(RunVM)`); the next line is up to the user. There is no scheduling beyond that and no wait.

*Deadlock* is not checked where the system stops: after the last execution, after a run, after a compilation or a session. In the framework's models the
ended process is the stuttering action `Stopped` or `Over`, and deadlock is checked: an engine that is stuck before is one.

## Findings

Each is a counterexample that TLC finds. `PROJECT.json` lists those of the runs:

1. `agreement`: `while` compiles to nothing (`pipeline.c:698`).
2. `agreement`: so do `continue` and `break`.
3. `agreement`: a declaration in an inner block overwrites an outer variable of the same name, constant or not (`pipeline.c:599`).
4. `agreement`: a function that ends in `if c { return x; }` fails when `c` is false (`pipeline.c:794`).
5. `agreement`: names below a unary operator are not checked (`type_checker.c:161`).
6. `agreement`: nothing inside a switch is checked (`type_checker.c:263`).
7. `gui_other_window`: the pump of the open window takes every window's events for its own, so closing another window stops it (`runtime_gui_backend_x11.c:333`).
8. `audio_sigchld`: where SIGCHLD is inherited as ignored, SIGTERM may go to a process that has got the player's id (`hosc_runtime.c:836`).
9. `bare_if`: an `if` without an `else` pops its condition twice, so later locals are read from the wrong places (`bs_codegen.c:288`).
10. `macro_in_command`: the body of a command is registered as it stands, so a macro used there is not expanded, and does nothing when the command runs (`bs_ast_rewriter.c:187`).

`agreement` holds one program per disagreement; `tlc -continue` shows a counterexample for each. These have a
configuration that is no run:

- `MCHVM_findings.cfg`, `FailureExplained`: a jump out of its function fails without a message, or with an older one (`interpreter_loop.c:464`).
- `MCHVM_findings.cfg`, `NoTrap`: the smallest integer divided by -1 may kill the process (`interpreter_loop.c:345`).
- `MCCompiled_agreement.cfg` with `Programs <- BothTrue` and `INVARIANT AcceptedCompile`: `&&` and `||` are accepted by the type checker and refused by the code generator (`pipeline.c:571`).
- `MCHScript_findings.cfg`, `CloseStops`: closing the window of a script without a loop does not end the process (`hosc_framework.c:3724`), though `event_loop.hosc:7` draws "Close window to stop".
- `MCHScript_findings.cfg`, `ControlsWork`: a media player's controls do nothing during `loop()` (`hosc_framework.c:3177`).
- `MCFramework_findings.cfg`, `PositionTrue`: a seek with a player that cannot seek reports success and a wrong position (`hosc_runtime.c:1516`).
- `MCFramework_findings.cfg`, `NeverAborts`: unregistering a function, or ending a runtime in which one is registered, gives `free` what `malloc` did not return, since names come from `hosc_strdup_local` and go to `memory_deallocate` (`hosc_runtime.c:1687`, `1883`).
- `MCFramework_findings.cfg`, `StatisticsTrue`: the context is allocated before tracking begins, and blocks of an untracked runtime may be released in a tracked one, so "Current In Use" is not what is in use (`hosc_runtime.c:1843`, `1863`).
- `MCFrontEnd_findings.cfg`, `IncludedOnce`: a file reached by two spellings is included twice (`pipeline.c:283`).
- `MCFrontEnd_findings.cfg`, `ReportedIsWritten`: `fclose` may fail after all `fwrite`s were accepted, and nobody looks (`pipeline.c:1017`).
- `MCFrontEnd_findings.cfg`, `ReadBack`: a last line without an end is glued to what follows the import; if it is a comment, that is gone (`pipeline.c:351`).
- `MCFrontEnd_findings.cfg`, `TokensBack`: a line end behind a backslash in a literal is not counted (`lexer.c:242`), and a line of a raw literal that looks like an import is taken for one (`pipeline.c:316`).

## Proofs

| theorem | in | says |
|---|---|---|
| `TypeCorrect` | `HVM_proofs` | `Spec => []TypeOK` |
| `FramesStayInBounds` | | `Spec => []FramesInBounds` |
| `CallersResume` | | `Spec => []CallChain` |
| `ObjectsAlwaysExist` | | `Spec => []ObjectsExist` |
| `NewFramesFresh` | | `Spec => FreshLocals` |
| `StackStaysBalanced` | | `Spec => []BalancedStack` |
| `CallersStayIsolated` | | `Spec => CallerIsolated` |
| `DisciplinedSupplied` | | an instruction of disciplined code is whole and finds its operands |
| `WrittenIsReadBack` | `HLoader_proofs` | the image of a module says the module |
| `LoaderReleases` | | `LSpec => []Released` |
| `AcceptedIsWhole`, `AcceptedIsSound` | | `LSpec => []AcceptedWhole`, `LSpec => []AcceptedSound` |
| `WrittenIsAccepted` | | along `LSpec`, a file written whole is refused only for want of memory |
| `ReadsOnce` | `HImports_proofs` | `ISpec => []NoneTwice` |
| `TextAssembled` | | `ISpec => []Assembled` |
| `QueueTypeCorrect` | `HFramework_proofs` | `QSpec => []QTypeOK` |
| `RingForgetsOldest` | | `QSpec => IsForgetfulQueue`, the refinement |
| `AudioTypeCorrect`, `AtMostOnePlayer` | | `ASpec => []ATypeOK`, `ASpec => []OnePlayer` |
| `KillSparesOthers`, `PositionIsThePlayers` | | `ASpec => SparesOthers`, `ASpec => []PositionTrue`, each under a condition |
| `RuntimeTypeCorrect`, `EverythingAccounted` | | `RSpec => []RTypeOK`, `RSpec => []AllAccounted` |
| `GuiTypeCorrect` | `HGui_proofs` | `GSpec => []GTypeOK` |
| `HandleStaysLive`, `PlatformAlwaysFirst` | | `GSpec => []HandleIsLive`, `GSpec => []PlatformFirst` |
| `ClosedForGood` | | `GSpec => ClosedStaysClosed` |
| `OldestLostFirst` | | `GSpec => OnlyOldInputsLost` |
| `LoopsCountRight` | `HScript_proofs` | `SSpec => []CountersRight` |
| `EachHandledOnce` | | `SSpec => []HandledOnce` |

The assumptions are the `ASSUME`s of the modules, which TLC evaluates for the instances it checks; what a theorem
assumes beyond them is in its statement. Along which argument:

*VM.* The inductive invariant is `Inv == TypeOK /\ FramesInBounds`: whatever a validated module consists of, `ip` stays inside
its function and every window of locals inside the stack array. The last conjunct of `FramesInBounds`, that a frame other than
the entry frame begins below the end of the array, is not needed to read locals. It is needed so
that the result of a return has a cell to go to. The reads of
operands are in bounds because `Truncated` is tested first, and the window because `hvm_push_frame`
tests it. Next to `Inv`, `ResumesBehindCall` and `ObjectsExist` are inductive. `CallChain` has two parts. `ResumesBehindCall` holds for all bytes:
an instruction changes `ip` of the last frame
only, and a frame becomes suspended only in the step in which `OP_CALL` has just read its operand; a jump into the middle of an
instruction does not matter, since the chain is about bytes. `ArgumentsAboveLocals`, that callee and arguments lie above the caller's locals,
is about disciplined code (see below), and is a case of `Stacked`: `hvm_pop` knows no frame, so other code may pop its own locals and call what
was below them. `ObjectsExist` is about the whole array, also above the top, since a later
frame covers those cells; it holds because every push is of a constant, of a copy, of what was just allocated, or of a result that a native made or
was given, and nothing is freed before
the end. `FreshLocals` is about steps: the only two actions that begin a frame are a call and the start of an execution. The
assumptions are those of `HVM`: positive limits, a range of integers around zero, modules of the
right shape (not: valid ones) and natives of the right shape.

`StackStaysBalanced` and `CallersStayIsolated` are about modules whose code is `Disciplined`: `Flow` is the set of points, a
position and a number of operands above the locals, that a function comes to if each branch may go both ways; at each of them the
instruction is whole, finds what it takes above the locals, and leads to points of the flow. The VM does not look for that, and code of
another origin may pop a local or a value of its caller, which is why both properties say "or not `Disciplined`". That what the code generator emits is
disciplined is `WellStacked`, which run `compiled` checks; `HCodegen` is recursive, so this part is not proved. The inductive
invariant is `Stacked`: the last frame is at a point of the flow of its function, and each frame below it will be, as soon as the result of
the call is put where the callee's slots begin. It is what carries the depth across calls, which the flow of one function knows nothing of.
`DisciplinedSupplied` follows: no underflow, no truncated operand.

*Loader.* `WrittenIsReadBack` is about data: the writer puts names of functions, names of globals and texts of literals into one
table and refers to them by index. The text of a literal is at the index that counts the literals before it (`LiteralIndex`), which is a
statement about a fold; see `HBind_proofs` below. The invariant of the loader is
`LInv == LTypeOK /\ InFile /\ Holds`: after the header its counts are plausible; `place` is where the section begins that is read next, as
computed from the counts, and no further than what is there of the file; what is held is all tables and the first so many strings.
`run front_end` checks the theorems' properties for the files that occur there. The theorems are about
any file with any contents, cut off anywhere: `Change` puts it there. They are stated of the loader's own `LSpec`, not of `FSpec`:
`HFrontEnd` reaches the recursive definitions of the parser.
`WrittenIsAccepted` is the other direction of `AcceptedIsSound`: `Loadable` says what is asked of a module beyond its names and
constants, that its counts are within the limits and its entry and the code of its functions there. What `FSpec` does to the loader's variables, `LSpec` does too (`Write`,
the steps of `Load`, and `Change`, of which `Damage` is a case).

*GUI.* The inductive invariant is `Good(gui)`, a predicate of the record, with one lemma per operation: each takes a good record to a good
one. It consists of the types, `HandleIsLive`, and `Platform`, which adds to `PlatformFirst` that the first backend of a table that is not
empty is the X11 one. Only from that does it follow that a full table, which
refuses the backends of a later start, does not change the choice. A pump reads what waits with a fold, so that it yields a ring
is an induction over what waits. `OldestLostFirst` is about steps, next to `OInv == GInv /\ Ordered(gui, out.id, sent)`: the inputs in the
process's ring rise, they lie before those that wait on the connection, and both above the last one that was handed out. What a
ring keeps of inputs pushed in that order is the newest of them, and where it lost one it is full of newer ones (`Newest`); that
these are `Cap - 1` is counted by an injection into what waits.

*Scripts.* `SInv == GInv /\ Control /\ Flags /\ Frame`. The core of `Control` is `Nested(program, {})`: in the
parsed program every `begin` and its `end` point at each other, and two loops are disjoint or one inside the other. It is proved of
every prefix of every script, with the loops that are still open as the second argument, one lemma per kind of line. `LoopsRight` says of the counters that a
loop's is -1 exactly when `pc` is not in it, and else what is left to do. That an outer loop finds the inner counter at -1 again is
the conjunct with which `OP_LOOP_END` has to be reconciled: it resets its own counter before it leaves.
`EachHandledOnce` is about the order of inputs from the user to a
statement. Its invariant adds `Ordered` of the GUI and `History`: what was handled lies behind what waits (`Behind`), and so does
the frame, in its order. While a frame is collected or handled by a loop, all that was handled lies behind the whole frame; between the pumps
of a script in a line, where each handler looks at the same frame, the handlers at `pc` and after it have not reacted to it. The only jump
back to such a handler, that of a brace, makes the frame invalid.
The lemmas about `Good` are used again, since a window statement, a poll and an end of `main` are those operations of the GUI.

*Ring.* Every step of a ring is a step of the abstract queue of `Cap - 1` events or
a stutter. The mapping takes the cells from `head` on, `Count` many, for the queue. The lemmas say what `Count` and
`Contents` are after each operation; the step modulo `Cap` is split by whether an index wraps around.

*Audio.* `AudioTypeCorrect` includes `CallShape`, which says what the call in progress may be at each step.
`KillSparesOthers` is proved for the default disposition of SIGCHLD and `PositionIsThePlayers` for a
player that can begin anywhere; the findings show both to be needed. The strengthening is `ChildHeld`: the id the program
remembers belongs to its own child, running or not waited for, which is why it cannot be given away.

*Runtime.* `RuntimeInv` adds to `AllAccounted` the types and that no module is listed twice. `HeldBy` is the function from everything that
may hold a block to the block it holds. Each operation keeps some holders, drops some and adds some
with blocks that were free (`Carried`), and does the same to the blocks in use (`Uses`); `Reaccounts` is what follows, and the
lemmas after it say it of lists to which something is prepended or from which something is removed. What is freed in a row must be in
use and nothing twice in it (`Returnable`): that is where the invariant is needed, since only then does each `free` get what is still
there (`DeallocatesAll`, `UnregistersAll`, over folds). Once `free` is given a text that `malloc` returned to
`hosc_strdup_local`, the process has ended and nothing is claimed; the finding above shows that it does.

*Imports.* For every file system, no path is twice among the calls in progress and the files done with. So no path is
included a second time, and the recursion is no deeper than there are paths. The strengthening (`IInv`) says what `path` and the innermost
call are at each step: a call is opened only for a path that was just found in neither list.

`TextAssembled` is about the text and the verdict. `CInv` is about the calls: each waits at the import that opened the one above it; the
imports in lines it has passed are done with; `loaded` is in an order in which every file comes after those it imports. From
that order follows that the chains of imports of an accepted entry end (`ChainsEnd`, within as many files as were loaded). A
refused entry is one whose chains do not end within any number: what is blamed cannot be opened, or leads
back to itself, and so does each file of the calls that wait for it. `TInv` is about the text: it is cut into what was written by each call in progress, one behind the
other, and what the last call returned. In it the lines rise within each file, each line that is due is there
once (`There`, `Due`), and what a file imports lies before the lines behind its import. The theorems are stated along the
resolver's own `ISpec`; `FSpec` takes the same steps (`Resolve`), in a module that reaches recursive definitions.

*Folds.* The library's induction theorems take an operator as a parameter, which the installed provers cannot
instantiate. `HBind_proofs` derives induction over the indices of a sequence, and the existence and the steps of a recursive
function on them, in set form, from the well-foundedness of `<` (`LeastNumber`): a predicate is the set of the numbers that satisfy it.
That is enough for `Fold`, and so for the parser of scripts, the pump and the string table. It is not enough for functions that are
recursive over trees.

Only model-checked:

- liveness (`StopReturns`, `CloseEnds`, `FrontEnds`, `VMEnds`, the end of a run in `Implements`): TLAPS does not treat fairness here;
- `Compiled`, `HLexer`, `HParser`, `HFrontEnd` and the bootstrap modules: code generators, type checker, parsers and the language are recursive over
  syntax trees, which the provers cannot do induction on. That includes `LoadedIsCompiled`, the first part of `AcceptedRightly`, along
  `FSpec`; of its data `WrittenIsReadBack` is the theorem;
- `WellStacked`, and with it that compiled code is what `StackStaysBalanced` and `CallersStayIsolated` are about;
- `BracesMean`, whose meaning of braces is recursive.

## Plan

Next, in this order:

1. The text of scripts: the arguments of statements (`hosc_framework.c` 400-1860), and the artifacts that `main` builds and loads.
2. The lexer of the bootstrap language.

## Not modelled

- Columns, spans, wording and layout of messages, and the list they are kept in (`diag/diagnostic.c`): nothing depends on them.
- The C transpiler (`compiler/src/codegen.c`, `core.c`): it prints text, and `hosc run` does not reach it.
- Options and the formatter of the command line; file utilities: plain input and output.
- Drawing, the Win32 backend, libmpv and libvlc, and the older `services/src/runtime_gui.c`: pixels and libraries.
- Of the framework scripts: the text of arguments, building and loading of artifacts. Of the memory statistics: totals, counts and the peak, which only grow.
- Of the bootstrap: its lexer, the disassembler, fractions, the growth of arrays, copying and freeing of values, all natives but `draw_rect`.
- The wait of the X11 backend for the first MapNotify of a new window (`runtime_gui_backend_x11.c:273`): a server that never maps the window blocks the
  process there. In `HGui` a window is there as soon as it is created.
- More than 255 parameters of a function: `compile_function` writes them to `names[256]` without a test (`pipeline.c:788`), and what is behind the array is the
  compiler's. The programs of the runs have two at most.
- A command of the bootstrap language that an argument of its own call defines anew, and which is freed while it is called: no program of the runs does that.
- The stack of the process: recursion is bounded where the code bounds it, elsewhere by the input.
- `legacy`, `framework/legacy`, `tools` (superseded, not built) and the vendored image decoder.
