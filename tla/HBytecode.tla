----------------------------- MODULE HBytecode -----------------------------
(***************************************************************************)
(* The bytecode format shared by the compiler, the file loader and the VM  *)
(* (compiler/include/hosc_bytecode.h), and the static validation that      *)
(* hvm_load_bytecode runs before a module is executed (vm/src/core/vm.c).  *)
(* Indices are those of the C arrays, so element i of a table t is         *)
(* t[i + 1].  A string index is replaced by the string it denotes, NoName  *)
(* standing for an index outside the string table.  A float is a number    *)
(* with an integral value.                                                 *)
(***************************************************************************)
EXTENDS Integers, Sequences

OP_NOP == 0
OP_CONSTANT == 1
OP_NIL == 2
OP_TRUE == 3
OP_FALSE == 4
OP_POP == 5
OP_DUP == 6
OP_GET_LOCAL == 7
OP_SET_LOCAL == 8
OP_GET_GLOBAL == 9
OP_DEFINE_GLOBAL == 10
OP_SET_GLOBAL == 11
OP_ADD == 12
OP_SUB == 13
OP_MUL == 14
OP_DIV == 15
OP_NEGATE == 16
OP_NOT == 17
OP_EQ == 18
OP_NE == 19
OP_LT == 20
OP_LE == 21
OP_GT == 22
OP_GE == 23
OP_JUMP == 24
OP_JUMP_IF_FALSE == 25
OP_LOOP == 26
OP_CALL == 27
OP_RETURN == 28
OP_HALT == 29

NoName == "<no name>"

\* "invalid": an unknown tag byte, or a string constant without its string.
Constant == [tag : {"int", "float", "string", "invalid"}, as : Int]
Function == [name : STRING, arity : Nat, local_count : Nat, max_stack : Nat,
             code_offset : Nat, code_size : Nat]
Bytecode == [entry : Nat, constants : Seq(Constant), globals : Seq(STRING),
             functions : Seq(Function), code : Seq(0..255)]

-----------------------------------------------------------------------------
(* opcode_has_u16_operand and hvm_read_u16. *)
HasOperand(op) ==
  op \in {OP_CONSTANT, OP_GET_LOCAL, OP_SET_LOCAL, OP_GET_GLOBAL,
          OP_DEFINE_GLOBAL, OP_SET_GLOBAL, OP_JUMP, OP_JUMP_IF_FALSE,
          OP_LOOP, OP_CALL}

Width(op) == IF HasOperand(op) THEN 3 ELSE 1

CodeByte(bc, f, i) == bc.code[f.code_offset + i + 1]

ReadU16(bc, f, i) == CodeByte(bc, f, i) + 256 * CodeByte(bc, f, i + 1)

(***************************************************************************)
(* Where the linear scan of hvm_validate_function_code finds instructions: *)
(* at 0, and behind each instruction.  The scan ends well iff it meets the *)
(* end of the code exactly.                                                *)
(***************************************************************************)
InstructionStarts(bc, f) ==
  LET Behind(i) == IF i < f.code_size THEN i + Width(CodeByte(bc, f, i)) ELSE i
      reached[n \in 0..f.code_size] ==
        IF n = 0 THEN {0} ELSE UNION {{i, Behind(i)} : i \in reached[n - 1]}
  IN  reached[f.code_size] \intersect 0..f.code_size

ValidInstruction(bc, f, i) ==
  LET op == CodeByte(bc, f, i)
  IN  /\ op <= OP_HALT
      /\ HasOperand(op) => i + 3 <= f.code_size
      /\ op = OP_CONSTANT => ReadU16(bc, f, i + 1) < Len(bc.constants)
      /\ op \in {OP_GET_LOCAL, OP_SET_LOCAL} =>
           ReadU16(bc, f, i + 1) < f.local_count
      /\ op \in {OP_GET_GLOBAL, OP_DEFINE_GLOBAL, OP_SET_GLOBAL} =>
           ReadU16(bc, f, i + 1) < Len(bc.globals)

(* hvm_validate_function_code.  Neither jump targets nor what the code ends
   with are looked at. *)
ValidFunctionCode(bc, f) ==
  /\ f.code_size > 0
  /\ f.code_offset + f.code_size <= Len(bc.code)
  /\ \A i \in InstructionStarts(bc, f) \ {f.code_size} : ValidInstruction(bc, f, i)

(* hvm_validate_bytecode_module. *)
ValidModule(bc, stackMax) ==
  /\ bc.entry < Len(bc.functions)
  /\ \A c \in 1..Len(bc.constants) : bc.constants[c].tag # "invalid"
  /\ \A g \in 1..Len(bc.globals) : bc.globals[g] # NoName
  /\ \A i \in 1..Len(bc.functions) :
       LET f == bc.functions[i]
       IN  /\ f.name # NoName
           /\ f.arity <= f.local_count
           /\ f.max_stack <= stackMax
           /\ ValidFunctionCode(bc, f)
=============================================================================
