------------------------------ MODULE Compiled ------------------------------
(***************************************************************************)
(* The tool chain on a program, as `hosc run` drives it: the program is    *)
(* compiled (type checker, code generator) and a VM made for it executes   *)
(* the bytecode; print shows values on stdout.  The VM is HVM; here its    *)
(* string objects get their texts, and stdout is observed.                 *)
(***************************************************************************)
EXTENDS HVM, HCodegen, HSema

CONSTANT Programs   \* syntax trees, as HCodegen describes them

VARIABLES
  program,   \* the syntax tree the parser made of the source
  compiled,  \* what the compiler, a function of the program, made of it
  texts,     \* texts[i] is the text of string object i
  output,    \* the lines on stdout, each a sequence of texts
  meaning    \* history: what HLanguage says of the program, fixed at the start

source == <<program, compiled, meaning>>
cvars == <<vars, source, texts, output>>

Text(v) == IF v.tag = "string" THEN texts[v.as] ELSE <<v>>

(* hosc_compile_memory, from the syntax tree on: at most one module. *)
Compile(ast) == IF TypeChecks(ast) THEN BuildBytecode(ast) ELSE << >>

(* hosc_cli_command_run_ex and hosc_runtime_run_bytecode: a program that does
   not compile is not run. *)
Run ==
  /\ status = "idle"
  /\ UNCHANGED <<source, texts, output>>
  /\ \/ compiled # << >> /\ Execute(compiled[1])
     \/ /\ compiled = << >>
        /\ status' = "rejected"
        /\ UNCHANGED <<machine, objects, lastError, embedding>>

(* OP_CONSTANT copies a literal, OP_ADD concatenates two texts. *)
NewText == IF Opcode = OP_CONSTANT THEN <<bc.constants[Operand + 1]>>
           ELSE Text(Left) \o Text(Right)

Prints == /\ Opcode = OP_CALL /\ ~Truncated /\ top > Operand
          /\ Callee = [tag |-> "native", as |-> 1]

Arguments == [k \in 1..Operand |-> Text(Peek(Operand - k))]

Step ==
  /\ Instruction
  /\ UNCHANGED source
  /\ texts' = IF objects' > objects THEN Append(texts, NewText) ELSE texts
  /\ output' = IF Prints THEN Append(output, Arguments) ELSE output

Outcome == IF status \in {"idle", "running"} THEN "running" ELSE status
Printed == [i \in 1..Len(output) |-> output[i][1]]

Language == INSTANCE HLanguage WITH printed <- Printed, outcome <- Outcome

CInit ==
  /\ Init
  /\ program \in Programs
  /\ compiled = Compile(program)
  /\ texts = [i \in 1..objects |-> << >>]   \* they are the natives
  /\ output = << >>
  /\ meaning = Language!Meaning(program)

CNext == Run \/ Step

(* The one thread of the process keeps running. *)
CSpec == CInit /\ [][CNext]_cvars /\ WF_cvars(CNext)

-----------------------------------------------------------------------------
(* The compiled program implements the meaning of its syntax tree: it      *)
(* prints the same lines in the same order, and comes to the same end; it  *)
(* is refused, and prints nothing, if the type checker finds an error      *)
(* (hosc_compile_memory, compile_statement, hvm_execute).                  *)
Implements == Language!LSpec

(* The same of a finished run only. *)
Agreement ==
  status \in {"ok", "error"} => [out |-> Printed, outcome |-> Outcome] = meaning

(* Every program that the type checker accepts can be compiled
   (hosc_compile_memory reports H900 otherwise). *)
AcceptedCompile == TypeChecks(program) => compiled # << >>

(* What makes compiled code safe to run: whichever way control comes to an
   instruction, the same number of operands lies above the locals, at least as
   many as it takes; and every jump leads to the start of an instruction of its
   function, or to its end, never into an operand (patch_jump,
   compile_expression, compile_statement). *)
WellStacked ==
  \A m \in ToSet(compiled) : status = "idle" =>
    /\ Disciplined(m)
    /\ \A f \in ToSet(m.functions) :
         LET starts == InstructionStarts(m, f)
             flow == Flow(m, f)
         IN  /\ \A p, q \in flow : p[1] = q[1] => p[2] = q[2]
             /\ \A j \in starts \ {f.code_size} :
                  CodeByte(m, f, j) \in {OP_JUMP, OP_JUMP_IF_FALSE} =>
                    ReadU16(m, f, j + 1) \in starts

=============================================================================
