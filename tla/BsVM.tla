-------------------------------- MODULE BsVM --------------------------------
(***************************************************************************)
(* The virtual machine of the bootstrap tool chain (bootstrap/src/bs_vm.c), *)
(* one action per kind of instruction.  vm is a BsVM: the chunk, the offset *)
(* of the next byte, and the stack up to stack_top, BS_VM_STACK_MAX values  *)
(* at most; status is idle before a program is loaded, stale once a cell    *)
(* above stack_top is used, which may hold anything, and garbled once a     *)
(* value is taken for one of another type.                                  *)
(***************************************************************************)
EXTENDS BsCodegen, BsInterpreter

CONSTANT BS_VM_STACK_MAX

VARIABLES
  vm,   \* the machine
  rt    \* the runtime it shares with the interpreter

NoVM == [code |-> << >>, constants |-> << >>, ip |-> 0, stack |-> << >>, status |-> "idle"]
Loaded(c) == [NoVM EXCEPT !.code = c.code, !.constants = c.constants, !.status = "running"]

Byte(i) == vm.code[vm.ip + i]
Instruction == BsOpCode[Byte(1) + 1]
READ_CONSTANT == vm.constants[Byte(2) + 1]
READ_SHORT == Byte(2) * 256 + Byte(3)

(* bs_vm_pop yields null from an empty stack, bs_vm_push drops what does not
   fit. *)
Top(stack, n) == IF Len(stack) > n THEN stack[Len(stack) - n] ELSE bs_null
Drop(stack, n) == SubSeq(stack, 1, Len(stack) - Min({n, Len(stack)}))
Push(stack, value) == IF Len(stack) >= BS_VM_STACK_MAX THEN stack ELSE Append(stack, value)

Runs(names) == vm.status = "running" /\ Instruction \in names
Goes(length, stack) == vm' = [vm EXCEPT !.ip = @ + length, !.stack = stack]
Stops(status) == vm' = [vm EXCEPT !.status = status]
Fails == Stops("error") /\ rt' = [rt EXCEPT !.error = TRUE]

-----------------------------------------------------------------------------
Halt == Runs({"HALT"}) /\ Stops("ok") /\ UNCHANGED rt

Literals ==
  /\ Runs({"NULL", "TRUE", "FALSE"})
  /\ Goes(1, Push(vm.stack, IF Instruction = "NULL" THEN bs_null ELSE bs_bool(Instruction = "TRUE")))
  /\ UNCHANGED rt

Constant ==
  /\ Runs({"CONSTANT"})
  /\ Goes(2, Push(vm.stack, READ_CONSTANT))
  /\ UNCHANGED rt

Pop == Runs({"POP"}) /\ Goes(1, Drop(vm.stack, 1)) /\ UNCHANGED rt

(* NEGATE, NOT. *)
UnaryOp ==
  /\ Runs({"NEGATE", "NOT"})
  /\ LET v == Top(vm.stack, 0)
     IN  \/ Instruction = "NEGATE" /\ v.type # "int" /\ Fails
         \/ /\ Instruction = "NOT" \/ v.type = "int"
            /\ Goes(1, Push(Drop(vm.stack, 1),
                              IF Instruction = "NOT" THEN bs_bool(~Truthy(v)) ELSE bs_int(-v.n)))
            /\ UNCHANGED rt

(* + takes strings and integers only, % integers; neither / nor % divides by
   zero; equality takes any two values.  What the others make of a value that
   is no integer is read from the bits of another type. *)
Accepted(op, a, b) ==
  CASE op = "+" -> {a.type, b.type} \subseteq {"int", "string"}
    [] op = "/" -> {a.type, b.type} = {"int"} => b.n # 0
    [] op = "%" -> {a.type, b.type} = {"int"} /\ b.n # 0
    [] op \notin {"+", "/", "%"} -> TRUE

HasResult(op, a, b) == {a.type, b.type} = {"int"} \/ op \in {"+", "==", "!="}

BinaryOp ==
  /\ Runs({"+", "-", "*", "/", "%", "==", "!=", ">", ">=", "<", "<="})
  /\ LET b == Top(vm.stack, 0)
         a == Top(vm.stack, 1)
     IN  \/ ~Accepted(Instruction, a, b) /\ Fails
         \/ /\ Accepted(Instruction, a, b) /\ HasResult(Instruction, a, b)
            /\ Goes(1, Push(Drop(vm.stack, 2), BinaryResult(Instruction, a, b)))
            /\ UNCHANGED rt
         \/ /\ Accepted(Instruction, a, b) /\ ~HasResult(Instruction, a, b)
            /\ Stops("garbled")
            /\ UNCHANGED rt

(* The names of the globals are in the global scope alone. *)
DefineGlobal ==
  /\ Runs({"DEFINE_GLOBAL"})
  /\ Goes(2, Drop(vm.stack, 1))
  /\ rt' = DefineAt(rt, 1, READ_CONSTANT.text, Top(vm.stack, 0), FALSE)

GetGlobal ==
  /\ Runs({"GET_GLOBAL"})
  /\ \/ ~Knows(rt, 1, READ_CONSTANT.text) /\ Fails
     \/ /\ Knows(rt, 1, READ_CONSTANT.text)
        /\ Goes(2, Push(vm.stack, EntryOf(rt, 1, READ_CONSTANT.text).value))
        /\ UNCHANGED rt

(* A global that cannot be assigned to stays as it is. *)
SetGlobal ==
  /\ Runs({"SET_GLOBAL"})
  /\ Goes(2, vm.stack)
  /\ rt' = IF ~Assignable(rt, 1, READ_CONSTANT.text) THEN rt
           ELSE AssignFrom(rt, 1, READ_CONSTANT.text, Top(vm.stack, 0))

GetLocal ==
  /\ Runs({"GET_LOCAL"})
  /\ IF Byte(2) >= Len(vm.stack) THEN Stops("stale")
     ELSE Goes(2, Push(vm.stack, vm.stack[Byte(2) + 1]))
  /\ UNCHANGED rt

(* Mutant: the value is left on the stack and not stored. *)
SetLocalLost ==
  /\ Runs({"SET_LOCAL"})
  /\ Goes(2, vm.stack)
  /\ UNCHANGED rt

SetLocal ==
  /\ Runs({"SET_LOCAL"})
  /\ IF Byte(2) >= Len(vm.stack) THEN Stops("stale")
     ELSE Goes(2, [vm.stack EXCEPT ![Byte(2) + 1] = Top(vm.stack, 0)])
  /\ UNCHANGED rt

(* The condition of a jump stays on the stack. *)
Jump ==
  /\ Runs({"JUMP", "JUMP_IF_FALSE", "LOOP"})
  /\ LET taken == Instruction # "JUMP_IF_FALSE" \/ ~Truthy(Top(vm.stack, 0))
     IN  Goes(3 + (IF Instruction = "LOOP" THEN -READ_SHORT ELSE IF taken THEN READ_SHORT ELSE 0),
              vm.stack)
  /\ UNCHANGED rt

(* Functions are not called here. *)
CallFails == Runs({"CALL"}) /\ Fails

(* A command that is not native is skipped, with a message. *)
CallCommand ==
  /\ Runs({"CALL_COMMAND"})
  /\ LET name == READ_CONSTANT.text
         argc == Byte(3)
         args == [i \in 1..argc |-> Top(vm.stack, argc - i)]
     IN  \/ ~Has(rt.registry, name) /\ Fails
         \/ /\ HasKind(rt.registry, name, "native")
            /\ Goes(3, Push(Drop(vm.stack, argc), NativeValue(name, args)))
            /\ rt' = Write(rt, NativeOutput(name, args))
         \/ /\ Has(rt.registry, name) /\ ~HasKind(rt.registry, name, "native")
            /\ Goes(3, Push(Drop(vm.stack, argc), bs_null))
            /\ UNCHANGED rt

Output ==
  /\ Runs({"PRINT", "PRINTS"})
  /\ Goes(1, Drop(vm.stack, 1))
  /\ rt' = Write(rt, <<Text(Top(vm.stack, 0))>> \o (IF Instruction = "PRINT" THEN <<"\n">> ELSE << >>))

(* At the top level: the value is printed, and that is the end. *)
ReturnEnds ==
  /\ Runs({"RETURN"})
  /\ vm' = [vm EXCEPT !.status = "ok", !.stack = Drop(@, 1)]
  /\ rt' = Write(rt, <<Text(Top(vm.stack, 0)), "\n">>)

VMStep ==
  \/ Halt \/ Literals \/ Constant \/ Pop \/ UnaryOp \/ BinaryOp
  \/ DefineGlobal \/ GetGlobal \/ SetGlobal \/ GetLocal \/ SetLocal
  \/ Jump \/ CallFails \/ CallCommand \/ Output \/ ReturnEnds
=============================================================================
