-------------------------------- MODULE HVM --------------------------------
(***************************************************************************)
(* The HOSC virtual machine (vm/): an embedder creates a VM, registers     *)
(* native functions and executes bytecode modules on it, one after the     *)
(* other.  hvm_execute validates the module, pushes the entry frame and    *)
(* runs the interpreter loop; the loop reads raw bytes, so a jump may land *)
(* inside an operand and the bytes there are executed as they come.        *)
(*                                                                         *)
(* One action is one instruction of the loop, or one call of the embedder. *)
(* The text of strings is abstracted: an object is its number in the order *)
(* of allocation, which is all that equality looks at.  A failing          *)
(* instruction leaves ip and stack_top as they were before it, because the *)
(* next hvm_execute resets both before anything reads them.                *)
(***************************************************************************)
EXTENDS HBytecode, HValue

CONSTANTS StackMax,      \* HVM_STACK_MAX
          FramesMax,     \* HVM_FRAMES_MAX
          HeapMax,       \* how many objects malloc provides before it fails
          Modules,       \* the bytecode modules the embedder may execute
          Natives,       \* the native functions the embedder may register
          NativeResults, \* the values, but for objects, those natives may return
          MaxExecutions  \* bound on the calls of hvm_execute

(* The natives that hvm_register_builtin_natives registers. *)
PrintNative == [name |-> "print", arity |-> -1]
AudioPlay == [name |-> "audio.play", arity |-> 1]

(* An entry of the registry: a native and the object made for it. *)
Registered(native, object) ==
  [name |-> native.name, arity |-> native.arity, object |-> object]
BuiltinNatives == <<Registered(PrintNative, 1), Registered(AudioPlay, 2)>>

(* All the entries there can be. *)
Entries ==
  {Registered(native, k) : native \in Natives \union {PrintNative, AudioPlay}, k \in 1..HeapMax}

ASSUME MachineAssumption ==
  /\ StackMax \in Nat /\ FramesMax \in Nat \ {0} /\ HeapMax \in Nat
  /\ IntMin \in Int /\ IntMax \in Int /\ IntMin < 0 /\ IntMax > 0
  /\ MaxExecutions \in Nat
ASSUME ModulesAssumption == Modules \subseteq Bytecode
ASSUME NativesAssumption ==
  /\ Natives \subseteq [name : STRING, arity : Int]
  /\ NativeResults \subseteq [tag : {"nil", "bool", "int", "float"}, as : Int]

VARIABLES
  status,      \* "idle", "running", then the outcome: "ok", "error", "trapped"
  loaded,      \* <<loaded_bc>>, or << >> while it is NULL
  stack,       \* the whole array: cells above stack_top keep what they held
  top,         \* stack_top - stack
  frames,      \* frames[0 .. frame_count-1]
  natives,     \* the native registry, in registration order
  objects,     \* number of complete objects in the objects_head list
  lastError,   \* last_error, with (history) the execution that wrote it
  executions   \* history: number of hvm_execute calls

machine == <<stack, top, frames>>
embedding == <<loaded, natives, executions>>
vars == <<status, machine, objects, lastError, embedding>>

-----------------------------------------------------------------------------
(* Operators on integers, by opcode.                                       *)

Arithmetic(op, a, b) ==
  CASE op = OP_ADD -> Wrap(a + b)
    [] op = OP_SUB -> Wrap(a - b)
    [] op = OP_MUL -> Wrap(a * b)
    [] op = OP_DIV -> Wrap(Quotient(a, b))

Compare(op, a, b) ==
  CASE op = OP_LT -> a < b
    [] op = OP_LE -> a <= b
    [] op = OP_GT -> a > b
    [] op = OP_GE -> a >= b

-----------------------------------------------------------------------------
(* The machine: what the loop reads and the ways an instruction ends.      *)

Frame == [function : Nat, ip : Nat, slots : Nat]

bc == loaded[1]
FunctionOf(frame) == bc.functions[frame.function + 1]
Current == frames[Len(frames)]
Fn == FunctionOf(Current)
Running == status = "running"
Opcode == CodeByte(bc, Fn, Current.ip)
Operand == ReadU16(bc, Fn, Current.ip + 1)

(* The instructions whose operand the loop reads; the others that have one
   are not supported. *)
ReadsOperand == {OP_CONSTANT, OP_GET_GLOBAL, OP_GET_LOCAL, OP_SET_LOCAL,
                 OP_JUMP, OP_JUMP_IF_FALSE, OP_CALL}
Supported == ReadsOperand \union
  {OP_NIL, OP_TRUE, OP_FALSE, OP_POP, OP_ADD, OP_SUB, OP_MUL, OP_DIV, OP_NEGATE,
   OP_NOT, OP_EQ, OP_NE, OP_LT, OP_LE, OP_GT, OP_GE, OP_RETURN, OP_HALT}

Truncated == Opcode \in ReadsOperand /\ Fn.code_size - Current.ip < 3

(* The loop fetches one of the opcodes ops, with its whole operand. *)
Fetch(ops) ==
  /\ Running
  /\ Current.ip < Fn.code_size
  /\ Opcode \in ops
  /\ ~Truncated

Peek(distance) == stack[top - 1 - distance]

Advance == [frames EXCEPT ![Len(frames)].ip = @ + Width(Opcode)]

(* The texts of last_error, several messages of one kind counted as one. *)
NoText == ""
Errors ==
  {"stack overflow", "stack underflow", "stack access out of range", "call frame overflow",
   "local stack overflow", "truncated bytecode operand", "constant index out of range",
   "failed to allocate string constant", "global index out of range",
   "unknown global symbol", "local index out of range", "operands not supported",
   "comparison supports numbers only", "NEGATE supports integers only",
   "jump target out of range", "invalid function call target",
   "function arity mismatch", "attempted to call a non-callable value",
   "native function arity mismatch", "native function call failed",
   "error of the native", "unsupported opcode in bootstrap VM", "invalid module",
   "failed to allocate native object"}

(* hvm_set_error. *)
SetError(message) == lastError' = [text |-> message, by |-> executions']

NoError == UNCHANGED <<status, lastError>>

Fail(message) ==
  /\ status' = "error"
  /\ SetError(message)
  /\ UNCHANGED machine

(* Drop n values, which the stack holds, and push v. *)
Replace(n, v) ==
  /\ stack' = [stack EXCEPT ![top - n] = v]
  /\ top' = top - n + 1
  /\ frames' = Advance
  /\ NoError

(* Mutant: without the test for room. *)
PushUnchecked(v) == Replace(0, v)

Push(v) ==
  \/ top < StackMax /\ Replace(0, v)
  \/ top >= StackMax /\ Fail("stack overflow")

(* An instruction that takes n operands from the stack. *)
Takes(n, op) == IF top < n THEN Fail("stack underflow") ELSE op

(* hvm_push_frame: the error it reports, and what it does without one. *)
FrameError(module, callers, function, slots) ==
  IF Len(callers) >= FramesMax THEN "call frame overflow"
  ELSE IF slots + module.functions[function + 1].local_count > StackMax
       THEN "local stack overflow"
       ELSE NoText

(* Mutant: the locals are not cleared. *)
PushFrameStale(module, callers, function, slots, oldTop) ==
  LET limit == slots + module.functions[function + 1].local_count
  IN  /\ frames' = Append(callers, [function |-> function, ip |-> 0, slots |-> slots])
      /\ top' = IF oldTop < limit THEN limit ELSE oldTop
      /\ status' = "running"
      /\ UNCHANGED <<stack, lastError>>

PushFrame(module, callers, function, slots, oldTop) ==
  LET limit == slots + module.functions[function + 1].local_count
  IN  /\ frames' = Append(callers, [function |-> function, ip |-> 0, slots |-> slots])
      /\ stack' = [i \in DOMAIN stack |->
                     IF oldTop <= i /\ i < limit THEN Nil ELSE stack[i]]
      /\ top' = IF oldTop < limit THEN limit ELSE oldTop
      /\ status' = "running"
      /\ UNCHANGED lastError

-----------------------------------------------------------------------------
(* The instructions.                                                       *)

TruncatedOperand ==
  /\ Running
  /\ Current.ip < Fn.code_size
  /\ Truncated
  /\ Fail("truncated bytecode operand")
  /\ UNCHANGED objects

ConstantInt ==
  /\ Fetch({OP_CONSTANT})
  /\ UNCHANGED objects
  /\ \/ Operand >= Len(bc.constants) /\ Fail("constant index out of range")
     \/ /\ Operand < Len(bc.constants)
        /\ Numeric(bc.constants[Operand + 1])
        /\ Push(bc.constants[Operand + 1])

(* Mutant: a failed allocation goes unnoticed. *)
ConstantStringUnchecked ==
  /\ Fetch({OP_CONSTANT})
  /\ Operand < Len(bc.constants)
  /\ bc.constants[Operand + 1].tag = "string"
  /\ objects' = IF objects < HeapMax THEN objects + 1 ELSE objects
  /\ Push([tag |-> "string", as |-> objects + 1])

(* Every execution of the instruction allocates a string of its own. *)
ConstantString ==
  /\ Fetch({OP_CONSTANT})
  /\ Operand < Len(bc.constants)
  /\ bc.constants[Operand + 1].tag = "string"
  /\ \/ /\ objects < HeapMax
        /\ objects' = objects + 1
        /\ Push([tag |-> "string", as |-> objects'])
     \/ /\ objects >= HeapMax
        /\ Fail("failed to allocate string constant")
        /\ UNCHANGED objects

PushLiteral ==
  /\ Fetch({OP_NIL, OP_TRUE, OP_FALSE})
  /\ Push(IF Opcode = OP_NIL THEN Nil ELSE Bool(Opcode = OP_TRUE))
  /\ UNCHANGED objects

(* hvm_lookup_native and hvm_find_function_index: the first of that name. *)
IsFirst(i, name, table) ==
  /\ table[i].name = name
  /\ \A j \in 1..(i - 1) : table[j].name # name

Unknown(name, table) == \A i \in 1..Len(table) : table[i].name # name

GetGlobal ==
  /\ Fetch({OP_GET_GLOBAL})
  /\ UNCHANGED objects
  /\ IF Operand >= Len(bc.globals)
     THEN Fail("global index out of range")
     ELSE LET name == bc.globals[Operand + 1]
          IN  \/ \E i \in 1..Len(natives) :
                   /\ IsFirst(i, name, natives)
                   /\ Push([tag |-> "native", as |-> i])
              \/ /\ Unknown(name, natives)
                 /\ \E i \in 1..Len(bc.functions) :
                      /\ IsFirst(i, name, bc.functions)
                      /\ Push(IntValue(i - 1))
              \/ /\ Unknown(name, natives)
                 /\ Unknown(name, bc.functions)
                 /\ Fail("unknown global symbol")

(* The local is read wherever stack_top is: a cell above it still holds what
   was last stored there. *)
GetLocal ==
  /\ Fetch({OP_GET_LOCAL})
  /\ UNCHANGED objects
  /\ \/ Operand >= Fn.local_count /\ Fail("local index out of range")
     \/ Operand < Fn.local_count /\ Push(stack[Current.slots + Operand])

(* Mutant: the stored value is popped as well. *)
SetLocalPops ==
  /\ Fetch({OP_SET_LOCAL})
  /\ top > 0
  /\ stack' = [stack EXCEPT ![Current.slots + Operand] = Peek(0)]
  /\ frames' = Advance
  /\ top' = top - 1
  /\ NoError
  /\ UNCHANGED objects

SetLocal ==
  /\ Fetch({OP_SET_LOCAL})
  /\ UNCHANGED objects
  /\ \/ Operand >= Fn.local_count /\ Fail("local index out of range")
     \/ Operand < Fn.local_count /\ top = 0 /\ Fail("stack access out of range")
     \/ /\ Operand < Fn.local_count
        /\ top > 0
        /\ stack' = [stack EXCEPT ![Current.slots + Operand] = Peek(0)]
        /\ frames' = Advance
        /\ UNCHANGED top
        /\ NoError

Left == Peek(1)
Right == Peek(0)
BothInt == Left.tag = "int" /\ Right.tag = "int"

ArithmeticInt ==
  /\ Fetch({OP_ADD, OP_SUB, OP_MUL, OP_DIV})
  /\ UNCHANGED objects
  /\ Takes(2, /\ BothInt
              /\ Opcode = OP_DIV => Right.as # 0
              /\ Replace(2, IntValue(Arithmetic(Opcode, Left.as, Right.as))))

(* Anything but two integers: ADD concatenates texts and numbers, a failed
   allocation included in its one error; the others have no more cases. *)
ArithmeticOther ==
  /\ Fetch({OP_ADD, OP_SUB, OP_MUL, OP_DIV})
  /\ top >= 2
  /\ ~BothInt \/ (Opcode = OP_DIV /\ Right.as = 0)
  /\ LET concat == Opcode = OP_ADD /\ Concatenable(Left) /\ Concatenable(Right)
     IN  \/ /\ concat /\ objects < HeapMax
           /\ objects' = objects + 1
           /\ Replace(2, [tag |-> "string", as |-> objects'])
        \/ /\ ~concat \/ objects >= HeapMax
           /\ Fail("operands not supported")
           /\ UNCHANGED objects

(* The quotient IntMin / -1 does not exist in int64_t.  Where the division
   instruction wraps, ArithmeticInt is the step; where it traps, the signal
   kills the process. *)
DivisionTraps ==
  /\ Fetch({OP_DIV})
  /\ top >= 2 /\ BothInt
  /\ Left.as = IntMin /\ Right.as = -1
  /\ status' = "trapped"
  /\ UNCHANGED <<machine, objects, lastError>>

Comparison ==
  /\ Fetch({OP_LT, OP_LE, OP_GT, OP_GE})
  /\ UNCHANGED objects
  /\ Takes(2, IF Numeric(Left) /\ Numeric(Right)
              THEN Replace(2, Bool(Compare(Opcode, Left.as, Right.as)))
              ELSE Fail("comparison supports numbers only"))

(* Objects are compared by identity, whatever their text. *)
Equality ==
  /\ Fetch({OP_EQ, OP_NE})
  /\ UNCHANGED objects
  /\ Takes(2, Replace(2, Bool((Left = Right) = (Opcode = OP_EQ))))

(* Mutant: the target is not compared with the size of the code. *)
JumpUnchecked ==
  /\ Fetch({OP_JUMP})
  /\ frames' = [frames EXCEPT ![Len(frames)].ip = Operand]
  /\ UNCHANGED <<stack, top, objects, lastError, status>>

(* A target outside the function ends the loop without a message. *)
Jump ==
  /\ Fetch({OP_JUMP})
  /\ UNCHANGED <<stack, top, objects, lastError>>
  /\ IF Operand >= Fn.code_size
     THEN status' = "error" /\ UNCHANGED frames
     ELSE /\ frames' = [frames EXCEPT ![Len(frames)].ip = Operand]
          /\ UNCHANGED status

JumpIfFalse ==
  /\ Fetch({OP_JUMP_IF_FALSE})
  /\ UNCHANGED objects
  /\ Takes(1, IF ~Truthy(Peek(0)) /\ Operand >= Fn.code_size
              THEN Fail("jump target out of range")
              ELSE /\ top' = top - 1
                   /\ frames' = IF Truthy(Peek(0)) THEN Advance
                                ELSE [frames EXCEPT ![Len(frames)].ip = Operand]
                   /\ UNCHANGED stack
                   /\ NoError)

Not ==
  /\ Fetch({OP_NOT})
  /\ UNCHANGED objects
  /\ Takes(1, Replace(1, Bool(~Truthy(Peek(0)))))

Negate ==
  /\ Fetch({OP_NEGATE})
  /\ UNCHANGED objects
  /\ Takes(1, IF Peek(0).tag = "int"
              THEN Replace(1, IntValue(Wrap(-Peek(0).as)))
              ELSE Fail("NEGATE supports integers only"))

Pop ==
  /\ Fetch({OP_POP})
  /\ UNCHANGED objects
  /\ Takes(1, /\ top' = top - 1
              /\ frames' = Advance
              /\ UNCHANGED stack
              /\ NoError)

-----------------------------------------------------------------------------
(* Calls.  The callee sits below its arguments: slot zero of a function is *)
(* the callee itself.                                                      *)

Callee == Peek(Operand)
CalleeSlots == top - Operand - 1
CalleeFunction == bc.functions[Callee.as + 1]
IsFunction == Callee.as \in 0..(Len(bc.functions) - 1)

CallFails(message) == Fail(message) /\ UNCHANGED objects

Call ==
  /\ Fetch({OP_CALL})
  /\ \/ top <= Operand /\ CallFails("stack access out of range")
     \/ /\ top > Operand
        /\ Callee.tag \notin {"int", "native"}
        /\ CallFails("attempted to call a non-callable value")

(* Mutant: the arguments are not counted. *)
CallFunctionAnyArity ==
  /\ Fetch({OP_CALL})
  /\ top > Operand
  /\ Callee.tag = "int"
  /\ UNCHANGED objects
  /\ \/ ~IsFunction /\ Fail("invalid function call target")
     \/ /\ IsFunction
        /\ LET error == FrameError(bc, frames, Callee.as, CalleeSlots)
           IN  IF error # NoText THEN Fail(error)
               ELSE PushFrame(bc, Advance, Callee.as, CalleeSlots, top)

CallFunction ==
  /\ Fetch({OP_CALL})
  /\ top > Operand
  /\ Callee.tag = "int"
  /\ UNCHANGED objects
  /\ \/ ~IsFunction /\ Fail("invalid function call target")
     \/ IsFunction /\ CalleeFunction.arity # Operand /\ Fail("function arity mismatch")
     \/ /\ IsFunction
        /\ CalleeFunction.arity = Operand
        /\ LET error == FrameError(bc, frames, Callee.as, CalleeSlots)
           IN  IF error # NoText THEN Fail(error)
               ELSE PushFrame(bc, Advance, Callee.as, CalleeSlots, top)

(* Entries 1 and 2 are the built-in print and audio.play, the others belong to
   the embedder. *)
OfEmbedder(i) == i > 2

(* The objects that are strings. *)
StringObjects == {k \in 1..objects : \A i \in 1..Len(natives) : natives[i].object # k}

(* What a native of the embedder may return, with the strings there are when it
   does: those it made (hvm_string_new) and those it was handed or has kept, in
   this execution or an earlier one, and any native. *)
EmbedderResults(strings) ==
  NativeResults \union [tag : {"string"}, as : strings]
                \union [tag : {"native"}, as : 1..Len(natives)]

(* What native i may return: audio.play plays nothing but a file it was named. *)
Results(i, strings) ==
  CASE i = 1 -> {Nil}
    [] i = 2 -> {Bool(FALSE)} \union (IF Peek(0).tag = "string" THEN {Bool(TRUE)} ELSE {})
    [] OTHER -> EmbedderResults(strings)

(* A native of the embedder makes as many strings as it likes and there is
   memory for, whether it then returns or fails.  One that fails may have set its
   own error; if no message is there at all, a general one is set. *)
CallNative ==
  /\ Fetch({OP_CALL})
  /\ top > Operand
  /\ Callee.tag = "native"
  /\ LET native == natives[Callee.as]
         mismatch == native.arity >= 0 /\ native.arity # Operand
     IN  \/ /\ mismatch
           /\ CallFails("native function arity mismatch")
        \/ /\ ~mismatch
           /\ objects' \in IF OfEmbedder(Callee.as) THEN objects..HeapMax ELSE {objects}
           /\ \E result \in Results(Callee.as, StringObjects') : Replace(Operand + 1, result)
        \/ /\ ~mismatch
           /\ OfEmbedder(Callee.as)
           /\ objects' \in objects..HeapMax
           /\ \/ Fail("error of the native")
              \/ lastError.text = NoText /\ Fail("native function call failed")
              \/ /\ lastError.text # NoText
                 /\ status' = "error"
                 /\ UNCHANGED <<machine, lastError>>

(* Mutant: the result goes one cell too low. *)
ReturnBelow ==
  /\ Fetch({OP_RETURN})
  /\ UNCHANGED objects
  /\ Takes(1, /\ frames' = SubSeq(frames, 1, Len(frames) - 1)
              /\ UNCHANGED lastError
              /\ IF Len(frames) = 1
                 THEN /\ status' = "ok"
                      /\ top' = Current.slots
                      /\ UNCHANGED stack
                 ELSE /\ stack' = [stack EXCEPT ![Current.slots - 1] = Peek(0)]
                      /\ top' = Current.slots
                      /\ UNCHANGED status)

Return ==
  /\ Fetch({OP_RETURN})
  /\ UNCHANGED objects
  /\ Takes(1, /\ frames' = SubSeq(frames, 1, Len(frames) - 1)
              /\ UNCHANGED lastError
              /\ IF Len(frames) = 1
                 THEN /\ status' = "ok"
                      /\ top' = Current.slots
                      /\ UNCHANGED stack
                 ELSE /\ stack' = [stack EXCEPT ![Current.slots] = Peek(0)]
                      /\ top' = Current.slots + 1
                      /\ UNCHANGED status)

Halt ==
  /\ Fetch({OP_HALT})
  /\ status' = "ok"
  /\ UNCHANGED <<machine, objects, lastError>>

Unsupported ==
  /\ Fetch(0..255 \ Supported)
  /\ Fail("unsupported opcode in bootstrap VM")
  /\ UNCHANGED objects

(* Behind the last instruction the inner loop ends and the outer one starts
   again, with the same frame. *)
Spin ==
  /\ Running
  /\ Current.ip >= Fn.code_size
  /\ UNCHANGED <<status, machine, objects, lastError>>

Instruction ==
  /\ UNCHANGED embedding
  /\ \/ TruncatedOperand \/ ConstantInt \/ ConstantString \/ PushLiteral
     \/ GetGlobal \/ GetLocal \/ SetLocal
     \/ ArithmeticInt \/ ArithmeticOther \/ DivisionTraps
     \/ Comparison \/ Equality \/ Not \/ Negate \/ Pop
     \/ Jump \/ JumpIfFalse
     \/ Call \/ CallFunction \/ CallNative \/ Return
     \/ Halt \/ Unsupported \/ Spin

-----------------------------------------------------------------------------
(* The embedder.                                                           *)

(* The modules that hvm_load_bytecode accepts. *)
Accepts(module) == ValidModule(module, StackMax)
Loadable == {module \in Modules : Accepts(module)}

(* hvm_execute: load, reset the stack and the frames, push the entry frame.
   last_error keeps what an earlier execution left there. *)
Execute(module) ==
  /\ status \notin {"running", "trapped"}
  /\ executions < MaxExecutions
  /\ executions' = executions + 1
  /\ UNCHANGED <<natives, objects>>
  /\ \/ /\ ~Accepts(module)
        /\ Fail("invalid module")
        /\ UNCHANGED loaded
     \/ /\ Accepts(module)
        /\ loaded' = <<module>>
        /\ LET error == FrameError(module, << >>, module.entry, 0)
           IN  \/ error = NoText /\ PushFrame(module, << >>, module.entry, 0, 0)
              \/ /\ error # NoText
                 /\ status' = "error"
                 /\ SetError(error)
                 /\ top' = 0 /\ frames' = << >> /\ UNCHANGED stack

(* hvm_register_native, between two executions. *)
RegisterNative(native) ==
  /\ status \notin {"running", "trapped"}
  /\ UNCHANGED <<status, machine, loaded, executions>>
  /\ \/ /\ objects < HeapMax
        /\ objects' = objects + 1
        /\ natives' = Append(natives, Registered(native, objects'))
        /\ UNCHANGED lastError
     \/ /\ objects >= HeapMax
        /\ SetError("failed to allocate native object")
        /\ UNCHANGED <<natives, objects>>

(* hvm_create, which goes on when a built-in cannot be registered. *)
BuiltinsMade == SubSeq(BuiltinNatives, 1, IF HeapMax < 2 THEN HeapMax ELSE 2)
CreationError == IF HeapMax < 2 THEN "failed to allocate native object" ELSE NoText

Init ==
  /\ status = "idle"
  /\ loaded = << >>
  /\ stack = [i \in 0..(StackMax - 1) |-> Nil]
  /\ top = 0
  /\ frames = << >>
  /\ natives = BuiltinsMade
  /\ objects = Len(natives)
  /\ lastError = [text |-> CreationError, by |-> 0]
  /\ executions = 0

Next ==
  \/ Instruction
  \/ \E module \in Modules : Execute(module)
  \/ \E native \in Natives : RegisterNative(native)

Spec == Init /\ [][Next]_vars

(* The thread that called hvm_execute keeps running. *)
FairSpec == Spec /\ WF_vars(Instruction)
-----------------------------------------------------------------------------
(* The stack discipline.  hvm_pop knows no frame, and validation looks      *)
(* neither at jump targets nor at the depth of the stack: that no function  *)
(* takes a value that is not its own depends on its code alone.             *)

BinaryOps == {OP_ADD, OP_SUB, OP_MUL, OP_DIV, OP_EQ, OP_NE, OP_LT, OP_LE, OP_GT, OP_GE}

(* The instruction at i of f: how many operands it takes from the stack, how
   many it leaves there, and where f goes on behind it. *)
Consumed(module, f, i) ==
  LET op == CodeByte(module, f, i)
  IN  CASE op \in BinaryOps -> 2
        [] op \in {OP_POP, OP_NOT, OP_NEGATE, OP_SET_LOCAL, OP_JUMP_IF_FALSE, OP_RETURN} -> 1
        [] op = OP_CALL -> ReadU16(module, f, i + 1) + 1
        [] OTHER -> 0

Produced(module, f, i) ==
  IF CodeByte(module, f, i) \in BinaryOps \union
       {OP_CONSTANT, OP_NIL, OP_TRUE, OP_FALSE, OP_GET_GLOBAL, OP_GET_LOCAL, OP_SET_LOCAL,
        OP_NOT, OP_NEGATE, OP_CALL}
  THEN 1 ELSE 0

Successors(module, f, i) ==
  LET op == CodeByte(module, f, i)
  IN  CASE op = OP_JUMP -> {ReadU16(module, f, i + 1)}
        [] op = OP_JUMP_IF_FALSE -> {ReadU16(module, f, i + 1), i + 3}
        [] op \in {OP_RETURN, OP_HALT} \union (0..255 \ Supported) -> {}
        [] OTHER -> {i + Width(op)}

Whole(module, f, i) ==
  i < f.code_size /\ i + Width(CodeByte(module, f, i)) <= f.code_size

(* A point <<i, depth>>: f is at i with depth operands above its locals. *)
After(module, f, point) ==
  {<<i, point[2] - Consumed(module, f, point[1]) + Produced(module, f, point[1])>> :
     i \in Successors(module, f, point[1])}

(* The points f comes to, whatever its conditions say: as many steps as its
   code has bytes reach all of them if f has one depth at every instruction. *)
Flow(module, f) ==
  LET Behind(point) == IF Whole(module, f, point[1]) THEN After(module, f, point) ELSE {}
      walked[n \in 0..(f.code_size + 1)] ==
        IF n = 0 THEN [seen |-> {}, new |-> {<<0, 0>>}]
        ELSE LET before == walked[n - 1]
                 seen == before.seen \union before.new
             IN  [seen |-> seen, new |-> UNION {Behind(point) : point \in before.new} \ seen]
  IN  walked[f.code_size + 1].seen

(* At every point of every function, the instruction is whole and finds its
   operands above the locals, and it leads to points of the function. *)
Disciplined(module) ==
  \A k \in 1..Len(module.functions) :
    LET f == module.functions[k]
        flow == Flow(module, f)
    IN  /\ f.arity < f.local_count
        /\ <<0, 0>> \in flow
        /\ \A point \in flow :
             /\ point[2] \in Nat
             /\ point[1] < f.code_size =>
                  /\ Whole(module, f, point[1])
                  /\ Consumed(module, f, point[1]) <= point[2]
                  /\ After(module, f, point) \subseteq flow

-----------------------------------------------------------------------------
(* What the VM promises for every module that passes its validation,       *)
(* compiled or not.                                                        *)

TypeOK ==
  /\ status \in {"idle", "running", "ok", "error", "trapped"}
  /\ loaded \in Seq(Loadable) /\ Len(loaded) <= 1
  /\ stack \in [0..(StackMax - 1) -> Value]
  /\ top \in 0..StackMax
  /\ frames \in Seq(Frame)
  /\ natives \in Seq(Entries)
  /\ objects \in 0..HeapMax
  /\ lastError \in [text : Errors \union {NoText}, by : 0..MaxExecutions]
  /\ executions \in 0..MaxExecutions

(* Whatever the bytes say, the loop reads code only inside the function of
   its frame and locals only inside the stack array: every ip is within its
   function, every window of locals within the array, so is the cell a callee's
   result goes to, and while the loop runs there is a frame and a validated
   module (the checks of dispatch, hvm_read_operand_u16, jumps and
   hvm_push_frame). *)
FrameInBounds(frame) ==
  /\ frame.function < Len(bc.functions)
  /\ frame.ip <= FunctionOf(frame).code_size
  /\ frame.slots + FunctionOf(frame).local_count <= StackMax

FramesInBounds ==
  /\ Running => frames # << >>
  /\ frames # << >> => loaded # << >>
  /\ Len(frames) <= FramesMax
  /\ \A i \in 1..Len(frames) : FrameInBounds(frames[i])
  /\ \A i \in 2..Len(frames) : frames[i].slots < StackMax

(* A suspended frame resumes right behind the OP_CALL that suspended it, and
   the function above it takes exactly the arguments that call passed. *)
ResumesBehindCall ==
  \A i \in 1..(Len(frames) - 1) :
    LET f == FunctionOf(frames[i])
        ip == frames[i].ip
    IN  /\ ip >= 3
        /\ CodeByte(bc, f, ip - 3) = OP_CALL
        /\ ReadU16(bc, f, ip - 2) = FunctionOf(frames[i + 1]).arity

(* What a call pushed lies above the locals of its caller, in code that keeps
   to the discipline; other code may pop its own locals, and push a callee in
   their place. *)
ArgumentsAboveLocals ==
  Running =>
    \A i \in 1..(Len(frames) - 1) :
      \/ frames[i].slots + FunctionOf(frames[i]).local_count <= frames[i + 1].slots
      \/ ~Disciplined(bc)

(* Every frame that is not the last one is suspended in the call that made the
   next one (hvm_call_value, hvm_push_frame, OP_RETURN). *)
CallChain == ResumesBehindCall /\ ArgumentsAboveLocals

(* Every native of the registry has its object, and no cell of the stack, stale
   ones above stack_top included, refers to a string that was not allocated or
   to an object that is none, whatever natives make and return (hvm_string_new,
   hvm_register_native: nothing is freed before hvm_destroy). *)
ObjectsExist ==
  /\ \A i \in 1..Len(natives) : natives[i].object \in 1..objects
  /\ \A i \in DOMAIN stack :
       /\ stack[i].tag = "string" => stack[i].as \in StringObjects
       /\ stack[i].tag = "native" => stack[i].as \in 1..Len(natives)

(* The operands of an expression lie on top of the locals of their function,
   and the instruction that runs finds all it takes there: disciplined code
   never pops a local or a value of its caller, whatever it calls and however
   the calls end (hvm_pop, hvm_push_frame, OP_RETURN). *)
BalancedStack ==
  Running =>
    \/ /\ top >= Current.slots + Fn.local_count
       /\ Current.ip < Fn.code_size =>
            top - Consumed(bc, Fn, Current.ip) >= Current.slots + Fn.local_count
    \/ ~Disciplined(bc)

(* What a disciplined function does leaves every value of its callers, their
   half-evaluated expressions included, as it was (hvm_push, hvm_push_frame,
   OP_SET_LOCAL, OP_RETURN). *)
CallerIsolated ==
  [][Running =>
       \/ \A k \in 0..(Current.slots - 1) : stack'[k] = stack[k]
       \/ ~Disciplined(bc)]_vars

-----------------------------------------------------------------------------
(* A new frame starts with its arguments in place and every other local nil,
   whatever earlier calls and executions left in the array (hvm_push_frame). *)
NewFrame == Len(frames') > Len(frames) \/ executions' # executions

FreshLocals ==
  [][NewFrame /\ frames' # << >> /\ status' = "running" =>
       LET new == frames'[Len(frames')]
           f == loaded'[1].functions[new.function + 1]
       IN  \A k \in 0..(f.local_count - 1) :
             stack'[new.slots + k] =
               IF Len(frames') > 1 /\ k <= f.arity THEN stack[new.slots + k] ELSE Nil]_vars

(* The error a failed execution leaves was written by that execution. *)
FailureExplained == status = "error" => lastError.by = executions

(* No integer division kills the process. *)
NoTrap == status # "trapped"
=============================================================================
