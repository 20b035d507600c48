----------------------------- MODULE BsSession -----------------------------
(***************************************************************************)
(* The driver of the bootstrap tool chain (bootstrap/src/main.c,           *)
(* bootstrap.c, bs_repl.c): one runtime, and either a session of lines     *)
(* that are parsed, rewritten and interpreted one after the other, or a    *)
(* program that is compiled and run by the virtual machine, or one that is *)
(* parsed and shown. A line that the parser does not get to the end of     *)
(* ends the session, without an answer.                                    *)
(***************************************************************************)
EXTENDS BsVM, BsParser

CONSTANTS
  Lines,      \* what may be typed, each a sequence of tokens
  Programs,   \* what may be given to the virtual machine
  Sources,    \* what may be given to the parser alone
  Written,    \* those of them with no parentheses but the needed ones
  MaxLines    \* a bound on a session

VARIABLES
  typed,    \* the lines so far
  program,  \* what ran last, after rewriting
  late,     \* history: what is called where no macro could be expanded
  prompt    \* whether the next line is waited for

vars == <<vm, rt, typed, program, late, prompt>>

Init ==
  /\ vm = NoVM
  /\ rt = bs_runtime_create
  /\ typed = << >>
  /\ program = Block(<< >>)
  /\ late = {}
  /\ prompt = TRUE

Waits == prompt /\ vm = NoVM /\ Len(typed) < MaxLines

MacroNames(registry) == {registry[i].name : i \in {j \in DOMAIN registry : registry[j].kind = "macro"}}

(* The calls of a rewritten program that are left to be evaluated, for a macro
   was not there in time, or because they are in the body of a command. *)
Left(rewritten) ==
  (Calls(rewritten.node, {"command", "macro"})
     \ (MacroNames(rt.registry) \cap MacroNames(rewritten.registry)))
  \cup CallsOfCommands(rewritten.node)

(* One turn of bs_repl_start.  runtime_error is cleared with the message. *)
ReplLine(line) ==
  /\ typed' = Append(typed, line)
  /\ \E parsed \in {Parse(line)} :
       \/ /\ parsed.hangs
          /\ prompt' = FALSE
          /\ UNCHANGED <<rt, program, late>>
       \/ /\ ~parsed.hangs /\ parsed.error
          /\ UNCHANGED <<rt, program, late, prompt>>
       \/ /\ ~parsed.hangs /\ ~parsed.error
          /\ \E rewritten \in {Rewrite(rt.registry, parsed.node)} :
             \E result \in {ExecProgram([rt EXCEPT !.registry = rewritten.registry], rewritten.node)} :
               /\ rt' = [result.rt EXCEPT !.error = @ /\ result.status # "error",
                                          !.out = @ \o (IF result.status = "ok" /\ result.value.type # "null"
                                                        THEN <<Text(result.value), "\n">> ELSE << >>)]
               /\ program' = rewritten.node
               /\ late' = late \cup Left(rewritten)
          /\ UNCHANGED prompt
  /\ UNCHANGED vm

(* main has read its arguments and done nothing else. *)
Started == prompt /\ typed = << >> /\ vm = NoVM

(* bs_run_source_bytecode, up to bs_vm_run. *)
StartVM(source) ==
  /\ \E parsed \in {Parse(source)} :
     \E rewritten \in {Rewrite(rt.registry, parsed.node)} :
     \E compiled \in {bs_compile_ast(rewritten.registry, rewritten.node)} :
       /\ ~parsed.error /\ compiled.ok
       /\ vm' = Loaded(compiled)
       /\ rt' = [rt EXCEPT !.registry = rewritten.registry]
       /\ program' = rewritten.node
  /\ UNCHANGED <<typed, late, prompt>>

(* main with "ast": the tree is made, and shown, and that is all. *)
DumpAst(source) ==
  /\ \E parsed \in {Parse(source)} :
       \/ /\ parsed.error
          /\ UNCHANGED <<rt, program>>
       \/ /\ ~parsed.error
          /\ \E rewritten \in {Rewrite(rt.registry, parsed.node)} :
               /\ rt' = [rt EXCEPT !.registry = rewritten.registry]
               /\ program' = rewritten.node
  /\ typed' = <<source>>
  /\ prompt' = FALSE
  /\ UNCHANGED <<vm, late>>

RunVM == VMStep /\ UNCHANGED <<typed, program, late, prompt>>

Next ==
  \/ Waits /\ \E line \in Lines : ReplLine(line)
  \/ Started /\ \E source \in Programs : StartVM(source)
  \/ Started /\ \E source \in Sources : DumpAst(source)
  \/ RunVM

(* The loop of bs_vm_run is never left waiting. *)
Spec == Init /\ [][Next]_vars /\ WF_vars(RunVM)

-----------------------------------------------------------------------------
(* Between two lines there is the global scope and no other: every block,
   loop and call takes its scope with it, by whatever way it is left. *)
ScopesBalanced == Len(rt.scopes) = 1

(* A call of a macro comes to be evaluated, and does nothing, in two cases
   only: it is in the body of a command, or in a line, such as a function, that
   is older than the macro.  The expansion reaches every other statement, the
   arguments of macros, and what macros expand to (bs_ast_rewrite). *)
MacrosExpanded == rt.skipped \subseteq late

(* A macro "rewrites AST before evaluation" (bootstrap/README.md:53, :83): no
   call of one is ever evaluated. *)
NothingSkipped == rt.skipped = {}

(* The parser and the precedence of the operators: a tree is what its own text
   is read as, and a text with no parentheses to spare is the text of what it
   is read as; what does not end is never taken for a program. *)
ReadBack ==
  ~prompt =>
    LET parsed == Parse(Last(typed))
        text == Source(parsed.node)
    IN  ~parsed.error =>
          /\ ~parsed.hangs
          /\ Parse(text).node = parsed.node
          /\ Last(typed) \in Written => text = Last(typed)

(* The part of the language that the compiler has code for: no functions and
   what is in them, no for, no commands but the native ones, && and || for
   their truth alone, and no declaration that is a whole branch or body. *)
RECURSIVE Shared(_), ElsesGiven(_)
Shared(node) ==
  /\ node.type \notin {"func", "return", "for", "break", "continue", "const"}
  /\ IsCall(node) => ~Has(rt.registry, node.name) \/ HasKind(rt.registry, node.name, "native")
  /\ \A kid \in ToSet(node.kids) :
       /\ kid.name \in {"&&", "||"} => node.type \in {"if", "while"} \/ node.name = "!"
       /\ node.type \in {"if", "while"} => kid.type # "var"
       /\ Shared(kid)

(* Every if has an else. *)
ElsesGiven(node) ==
  /\ node.type = "if" => node.kids[3].type # "none"
  /\ \A kid \in ToSet(node.kids) : ElsesGiven(kid)

Common(node) == Shared(node) /\ ElsesGiven(node)

Interpreted ==
  ExecProgram([bs_runtime_create EXCEPT !.registry = rt.registry], program)

SameOutput ==
  /\ vm.status = "ok" => Interpreted.status = "ok" /\ rt.out = Interpreted.rt.out
  /\ vm.status = "error" => IsPrefix(rt.out, Interpreted.rt.out)

(* For that part, the virtual machine writes what the interpreter writes, and
   stops short of it only with an error. *)
SameOutputCommon == vm.status \in {"ok", "error"} /\ Common(program) => SameOutput

(* "vm", the same program "in the stack VM" (bootstrap/README.md:183): what is
   written is the same for all of that part, an if without an else included. *)
SameOutputShared == vm.status \in {"ok", "error"} /\ Shared(program) => SameOutput

(* The places of the locals are those the compiler counted: none above the top
   of the stack is used, and nothing is left on it at the end. *)
StackBalanced ==
  Common(program) => vm.status # "stale" /\ (vm.status = "ok" => vm.stack = << >>)

(* Every program of bounded loops comes to its end. *)
VMEnds == (vm.status = "running") ~> (vm.status # "running")

=============================================================================
