----------------------------- MODULE HVM_proofs -----------------------------
(* The VM never leaves its arrays: proofs about HVM for all constants.      *)
EXTENDS HVM, TLAPS, SequenceTheorems

USE MachineAssumption

Inv == TypeOK /\ FramesInBounds

-----------------------------------------------------------------------------
(* What validation guarantees of a module.                                 *)

(* A function of a loadable module has its code inside the module's. *)
LEMMA FunctionFacts ==
  ASSUME NEW m \in Loadable, NEW k \in 1..Len(m.functions)
  PROVE  /\ m \in Bytecode
         /\ m.functions[k] \in Function
         /\ m.functions[k].code_offset + m.functions[k].code_size <= Len(m.code)
<1>1. m \in Bytecode /\ ValidModule(m, StackMax)
  BY ModulesAssumption DEF Loadable, Accepts
<1>2. m.functions[k] \in Function
  BY <1>1 DEF Bytecode
<1>3. ValidFunctionCode(m, m.functions[k])
  BY <1>1 DEF ValidModule
<1> QED
  BY <1>1, <1>2, <1>3 DEF ValidFunctionCode

(* Inside a function every index reads a byte of the code. *)
LEMMA CodeByteType ==
  ASSUME NEW m \in Loadable, NEW k \in 1..Len(m.functions), NEW i \in Nat,
         i < m.functions[k].code_size
  PROVE  CodeByte(m, m.functions[k], i) \in 0..255
<1> DEFINE f == m.functions[k]
<1>1. /\ m.code \in Seq(0..255)
      /\ f.code_offset \in Nat /\ f.code_size \in Nat
      /\ f.code_offset + f.code_size <= Len(m.code)
  BY FunctionFacts DEF Bytecode, Function
<1>2. f.code_offset + i + 1 \in 1..Len(m.code)
  <2>1. Len(m.code) \in Nat /\ i < f.code_size
    BY <1>1
  <2> HIDE DEF f
  <2>2. \A o, s, n, j \in Nat : j < s /\ o + s <= n => o + j + 1 \in 1..n
    OBVIOUS
  <2> QED
    BY <1>1, <2>1, <2>2
<1>3. m.code[f.code_offset + i + 1] \in 0..255
  BY <1>1, <1>2, ElementOfSeq, Zenon
<1> QED
  BY <1>3 DEF CodeByte

(* The frame that runs, its function and the instruction it is at. *)
LEMMA CurrentFacts ==
  ASSUME Inv, Running
  PROVE  /\ frames # << >> /\ Len(frames) \in 1..FramesMax
         /\ bc \in Loadable
         /\ Current \in Frame
         /\ Current.function + 1 \in 1..Len(bc.functions)
         /\ Fn = bc.functions[Current.function + 1]
         /\ Fn \in Function
         /\ Current.ip <= Fn.code_size
         /\ Current.slots + Fn.local_count <= StackMax
<1>1. frames # << >> /\ loaded # << >> /\ frames \in Seq(Frame)
  BY DEF Inv, TypeOK, FramesInBounds
<1>2. Len(frames) \in Nat /\ Len(frames) >= 1
  BY <1>1, EmptySeq
<1>3. loaded \in Seq(Loadable) /\ Len(loaded) >= 1
  BY <1>1, EmptySeq DEF Inv, TypeOK
<1>4. bc \in Loadable
  BY <1>3 DEF bc
<1>5. Current \in Frame
  BY <1>1, <1>2 DEF Current
<1>6. FrameInBounds(Current)
  BY <1>2 DEF Inv, FramesInBounds, Current
<1>7. bc.functions \in Seq(Function)
  BY <1>4, ModulesAssumption DEF Loadable, Bytecode
<1>8. Current.function + 1 \in 1..Len(bc.functions)
  BY <1>5, <1>6, <1>7 DEF Frame, FrameInBounds
<1> QED
  BY <1>1, <1>2, <1>4, <1>5, <1>6, <1>7, <1>8 DEF Fn, FunctionOf, FrameInBounds, Inv, FramesInBounds

(* A fetched instruction lies inside its function, operand included. *)
LEMMA InstructionFacts ==
  ASSUME Inv, Running, Current.ip < Fn.code_size
  PROVE  /\ Opcode \in 0..255
         /\ Opcode \in ReadsOperand /\ ~Truncated =>
              Operand \in Nat /\ Current.ip + 3 <= Fn.code_size
         /\ Opcode \in Supported /\ ~Truncated =>
              /\ Width(Opcode) \in Nat
              /\ Current.ip + Width(Opcode) <= Fn.code_size
<1>1. /\ bc \in Loadable
      /\ Current.function + 1 \in 1..Len(bc.functions)
      /\ Fn = bc.functions[Current.function + 1]
      /\ Current.ip \in Nat /\ Fn.code_size \in Nat
  BY CurrentFacts DEF Frame, Function
<1>2. \A i \in Nat : i < Fn.code_size => CodeByte(bc, Fn, i) \in 0..255
  BY <1>1, CodeByteType
<1>3. Opcode \in 0..255
  BY <1>1, <1>2 DEF Opcode
<1>4. ASSUME Opcode \in ReadsOperand, ~Truncated
      PROVE  Operand \in Nat /\ Current.ip + 3 <= Fn.code_size
  <2>1. Current.ip + 3 <= Fn.code_size
    BY <1>1, <1>4 DEF Truncated
  <2>2. /\ CodeByte(bc, Fn, Current.ip + 1) \in 0..255
        /\ CodeByte(bc, Fn, Current.ip + 1 + 1) \in 0..255
    <3>1. \A a, b \in Nat : a + 3 <= b => /\ a + 1 \in Nat /\ a + 1 < b
                                          /\ a + 1 + 1 \in Nat /\ a + 1 + 1 < b
      OBVIOUS
    <3>2. /\ Current.ip + 1 \in Nat /\ Current.ip + 1 < Fn.code_size
          /\ Current.ip + 1 + 1 \in Nat /\ Current.ip + 1 + 1 < Fn.code_size
      BY <3>1, <2>1, <1>1, Zenon
    <3> QED
      BY <3>2, <1>2, Zenon
  <2>3. Operand = CodeByte(bc, Fn, Current.ip + 1) + 256 * CodeByte(bc, Fn, Current.ip + 1 + 1)
    BY DEF Operand, ReadU16
  <2>4. \A low, high \in 0..255 : low + 256 * high \in Nat
    OBVIOUS
  <2>5. Operand \in Nat
    BY <2>2, <2>3, <2>4, Zenon
  <2> QED
    BY <2>1, <2>5
<1>5. ASSUME Opcode \in Supported, ~Truncated
      PROVE  Width(Opcode) \in Nat /\ Current.ip + Width(Opcode) <= Fn.code_size
  <2>1. CASE Opcode \in ReadsOperand
    <3>1. HasOperand(Opcode)
      BY <2>1, Zenon DEF ReadsOperand, HasOperand
    <3>2. Current.ip + 3 <= Fn.code_size
      BY <2>1, <1>4, <1>5, Zenon
    <3>3. Width(Opcode) = 3
      BY <3>1, Zenon DEF Width
    <3> QED
      BY <3>2, <3>3
  <2>2. CASE Opcode \notin ReadsOperand
    <3>1. ~HasOperand(Opcode)
      BY <2>2, <1>5 DEF Supported, ReadsOperand, HasOperand, OP_CONSTANT, OP_GET_GLOBAL,
         OP_GET_LOCAL, OP_SET_LOCAL, OP_JUMP, OP_JUMP_IF_FALSE, OP_CALL, OP_DEFINE_GLOBAL,
         OP_SET_GLOBAL, OP_LOOP, OP_NIL, OP_TRUE, OP_FALSE, OP_POP, OP_ADD, OP_SUB, OP_MUL,
         OP_DIV, OP_NEGATE, OP_NOT, OP_EQ, OP_NE, OP_LT, OP_LE, OP_GT, OP_GE, OP_RETURN, OP_HALT
    <3> QED
      BY <3>1, <1>1 DEF Width
  <2> QED
    BY <2>1, <2>2
<1> QED
  BY <1>3, <1>4, <1>5

-----------------------------------------------------------------------------
(* How an instruction may change the frames.                               *)

GoodFrames(frs) ==
  /\ frs \in Seq(Frame)
  /\ Len(frs) <= FramesMax
  /\ \A i \in 1..Len(frs) : FrameInBounds(frs[i])
  /\ \A i \in 2..Len(frs) : frs[i].slots < StackMax

(* Moving the ip of the top frame within its function. *)
LEMMA SetIp ==
  ASSUME Inv, Running, NEW j \in Nat, j <= Fn.code_size
  PROVE  LET frs == [frames EXCEPT ![Len(frames)].ip = j]
         IN  GoodFrames(frs) /\ frs # << >>
<1> DEFINE frs == [frames EXCEPT ![Len(frames)].ip = j]
           new == [Current EXCEPT !.ip = j]
<1>1. /\ frames \in Seq(Frame) /\ Len(frames) \in 1..FramesMax
      /\ \A i \in 1..Len(frames) : FrameInBounds(frames[i])
      /\ \A i \in 2..Len(frames) : frames[i].slots < StackMax
  BY CurrentFacts DEF Inv, TypeOK, FramesInBounds
<1>2. frs = [frames EXCEPT ![Len(frames)] = new]
  BY DEF Current
<1>3. new \in Frame
  BY CurrentFacts DEF Frame
<1>4. /\ frs \in Seq(Frame) /\ Len(frs) = Len(frames)
      /\ \A i \in 1..Len(frames) : frs[i] = IF i = Len(frames) THEN new ELSE frames[i]
  <2> HIDE DEF frs, new
  <2>1. Len(frames) \in 1..Len(frames)
    BY <1>1
  <2>2. /\ [frames EXCEPT ![Len(frames)] = new] \in Seq(Frame)
        /\ Len([frames EXCEPT ![Len(frames)] = new]) = Len(frames)
        /\ \A i \in 1..Len(frames) : [frames EXCEPT ![Len(frames)] = new][i]
                                      = IF i = Len(frames) THEN new ELSE frames[i]
    BY <1>1, <1>3, <2>1, ExceptSeq
  <2> QED
    BY <1>2, <2>2, Zenon
<1>5. FrameInBounds(new)
  BY CurrentFacts, SMTT(20) DEF FrameInBounds, Fn, FunctionOf, Frame
<1> HIDE DEF frs, new
<1>6. \A i \in 1..Len(frs) : FrameInBounds(frs[i])
  BY <1>1, <1>4, <1>5
<1>7. frs # << >>
  BY <1>1, <1>4, EmptySeq
<1>8. \A i \in 2..Len(frs) : frs[i].slots < StackMax
  <2>1. new.slots = Current.slots
    BY CurrentFacts DEF Frame, new
  <2>2. \A i \in 2..Len(frames) : frs[i].slots = frames[i].slots
    BY <1>1, <1>4, <2>1 DEF Current
  <2> QED
    BY <1>1, <1>4, <2>2
<1> QED
  BY <1>1, <1>4, <1>6, <1>7, <1>8 DEF GoodFrames, frs

(* The next instruction, or the end of the function. *)
LEMMA AdvanceGood ==
  ASSUME Inv, Fetch(Supported)
  PROVE  GoodFrames(Advance) /\ Advance # << >>
<1>1. /\ Current.ip + Width(Opcode) \in Nat
      /\ Current.ip + Width(Opcode) <= Fn.code_size
  BY CurrentFacts, InstructionFacts DEF Fetch, Frame
<1>2. Advance = [frames EXCEPT ![Len(frames)].ip = Current.ip + Width(Opcode)]
  BY DEF Advance, Current
<1> QED
  BY <1>1, <1>2, SetIp DEF Fetch

-----------------------------------------------------------------------------
(* How an instruction may end: each way keeps the invariant.               *)

Statuses == {"idle", "running", "ok", "error", "trapped"}
ErrorText == [text : Errors \union {NoText}, by : 0..MaxExecutions]

LEMMA KeepInv ==
  ASSUME Inv, Running, UNCHANGED embedding,
         status' \in Statuses, stack' \in [0..(StackMax - 1) -> Value],
         top' \in 0..StackMax, objects' \in 0..HeapMax, lastError' \in ErrorText,
         GoodFrames(frames'), status' = "running" => frames' # << >>
  PROVE  Inv'
<1>1. loaded # << >>
  BY DEF Inv, FramesInBounds, Running
<1>2. TypeOK'
  BY DEF Inv, TypeOK, embedding, Statuses, ErrorText, GoodFrames
<1>3. \A i \in 1..Len(frames') : FrameInBounds(frames[i])'
  BY DEF GoodFrames, FrameInBounds, FunctionOf, bc, embedding
<1>4. FramesInBounds'
  BY <1>1, <1>3 DEF FramesInBounds, GoodFrames, embedding, Running
<1> QED
  BY <1>2, <1>4 DEF Inv

(* The instruction leaves the machine as it is, ending the loop or not. *)
LEMMA KeepMachine ==
  ASSUME Inv, Running, UNCHANGED embedding, UNCHANGED machine,
         status' \in Statuses, objects' \in 0..HeapMax, lastError' \in ErrorText
  PROVE  Inv'
<1>1. GoodFrames(frames')
  BY DEF machine, Inv, TypeOK, FramesInBounds, GoodFrames
<1>2. frames' # << >>
  BY DEF machine, Inv, FramesInBounds, Running
<1>3. stack' \in [0..(StackMax - 1) -> Value] /\ top' \in 0..StackMax
  BY DEF machine, Inv, TypeOK
<1> QED
  BY <1>1, <1>2, <1>3, KeepInv

LEMMA FailKeepsInv ==
  ASSUME Inv, Running, UNCHANGED embedding, objects' \in 0..HeapMax,
         NEW message \in Errors, Fail(message)
  PROVE  Inv'
<1>1. lastError' \in ErrorText
  BY DEF Fail, SetError, ErrorText, embedding, Inv, TypeOK
<1> QED
  BY <1>1, KeepMachine DEF Fail, Statuses

LEMMA ReplaceKeepsInv ==
  ASSUME Inv, Fetch(Supported), UNCHANGED embedding, objects' \in 0..HeapMax,
         NEW n \in 0..top, n = 0 => top < StackMax, NEW v \in Value, Replace(n, v)
  PROVE  Inv'
<1>1. Running
  BY DEF Fetch
<1>2. GoodFrames(frames') /\ frames' # << >>
  BY AdvanceGood DEF Replace
<1>3. stack' \in [0..(StackMax - 1) -> Value]
  BY DEF Inv, TypeOK, Replace
<1>4. top' \in 0..StackMax
  BY DEF Inv, TypeOK, Replace
<1>5. status' \in Statuses /\ lastError' \in ErrorText
  BY DEF Inv, TypeOK, Replace, NoError, Statuses, ErrorText
<1> QED
  BY <1>1, <1>2, <1>3, <1>4, <1>5, KeepInv

LEMMA PushKeepsInv ==
  ASSUME Inv, Fetch(Supported), UNCHANGED embedding, objects' \in 0..HeapMax,
         NEW v \in Value, Push(v)
  PROVE  Inv'
<1>1. CASE top < StackMax /\ Replace(0, v)
  BY <1>1, ReplaceKeepsInv DEF Inv, TypeOK
<1>2. CASE Fail("stack overflow")
  <2>1. "stack overflow" \in Errors
    BY DEF Errors
  <2>2. Running
    BY DEF Fetch
  <2> QED
    BY <1>2, <2>1, <2>2, FailKeepsInv
<1> QED
  BY <1>1, <1>2 DEF Push

(* The instruction moves the ip, and drops values, but writes no cell. *)
LEMMA MoveKeepsInv ==
  ASSUME Inv, Running, UNCHANGED embedding, UNCHANGED stack, NoError,
         objects' \in 0..HeapMax, top' \in 0..StackMax,
         GoodFrames(frames'), frames' # << >>
  PROVE  Inv'
<1>1. /\ status' \in Statuses /\ lastError' \in ErrorText
      /\ stack' \in [0..(StackMax - 1) -> Value]
  BY DEF Inv, TypeOK, NoError, Statuses, ErrorText
<1> QED
  BY <1>1, KeepInv

-----------------------------------------------------------------------------
(* Every instruction keeps the invariant.                                  *)

LEMMA FetchFacts ==
  ASSUME NEW ops \in SUBSET Supported, Inv, Fetch(ops)
  PROVE  /\ Fetch(Supported) /\ Running
         /\ objects \in 0..HeapMax
         /\ Opcode \in ReadsOperand => Operand \in Nat
BY InstructionFacts DEF Fetch, Inv, TypeOK

LEMMA PeekType ==
  ASSUME Inv, NEW distance \in Nat, distance < top
  PROVE  Peek(distance) \in Value
<1>1. top \in 0..StackMax /\ stack \in [0..(StackMax - 1) -> Value]
  BY DEF Inv, TypeOK
<1>2. top - 1 - distance \in 0..(StackMax - 1)
  BY <1>1
<1> QED
  BY <1>1, <1>2 DEF Peek

(* A failing instruction that allocates nothing. *)
LEMMA FailureStep ==
  ASSUME Inv, Running, UNCHANGED embedding, UNCHANGED objects,
         \E message \in Errors : Fail(message)
  PROVE  Inv'
BY FailKeepsInv DEF Inv, TypeOK

LEMMA BoolType ==
  ASSUME NEW b
  PROVE  Bool(b) \in Value
BY DEF Bool, Value

LEMMA ValueFacts ==
  /\ Nil \in Value
  /\ \A b \in BOOLEAN : Bool(b) \in Value
  /\ \A n \in Int : IntValue(n) \in Value /\ Wrap(n) \in Int
  /\ \A n \in Nat : [tag |-> "string", as |-> n] \in Value
  /\ \A n \in Nat : [tag |-> "native", as |-> n] \in Value
<1>1. \A n \in Int : Wrap(n) \in Int
  BY DEF Wrap
<1> QED
  BY <1>1 DEF Nil, Bool, IntValue, Value

LEMMA ConstantKeepsInv ==
  ASSUME Inv, UNCHANGED embedding, ConstantInt \/ ConstantString
  PROVE  Inv'
<1>1. /\ Fetch(Supported) /\ Running /\ objects \in 0..HeapMax /\ Operand \in Nat
  <2>1. Fetch({OP_CONSTANT}) /\ {OP_CONSTANT} \in SUBSET Supported
    BY DEF ConstantInt, ConstantString, Supported, ReadsOperand
  <2> QED
    BY <2>1, FetchFacts DEF Fetch, ReadsOperand
<1>2. bc.constants \in Seq(Constant)
  BY <1>1, CurrentFacts, ModulesAssumption DEF Loadable, Bytecode
<1>3. CASE ConstantInt
  <2>1. CASE Fail("constant index out of range")
    BY <2>1, <1>1, <1>3, FailureStep DEF ConstantInt, Errors
  <2>2. CASE /\ Operand < Len(bc.constants)
             /\ Numeric(bc.constants[Operand + 1])
             /\ Push(bc.constants[Operand + 1])
    <3>1. bc.constants[Operand + 1] \in Constant
      BY <2>2, <1>1, <1>2
    <3>2. bc.constants[Operand + 1] \in Value
      BY <2>2, <3>1 DEF Constant, Value, Numeric
    <3> QED
      BY <2>2, <3>2, <1>1, <1>3, PushKeepsInv DEF ConstantInt
  <2> QED
    BY <2>1, <2>2, <1>3 DEF ConstantInt
<1>4. CASE ConstantString
  <2>1. CASE /\ objects < HeapMax
             /\ objects' = objects + 1
             /\ Push([tag |-> "string", as |-> objects'])
    <3>1. objects' \in 0..HeapMax /\ [tag |-> "string", as |-> objects'] \in Value
      BY <2>1, <1>1, ValueFacts
    <3> QED
      BY <2>1, <3>1, <1>1, PushKeepsInv
  <2>2. CASE Fail("failed to allocate string constant") /\ UNCHANGED objects
    BY <2>2, <1>1, FailureStep DEF Errors
  <2> QED
    BY <2>1, <2>2, <1>4 DEF ConstantString
<1> QED
  BY <1>3, <1>4

LEMMA PushLiteralKeepsInv ==
  ASSUME Inv, UNCHANGED embedding, PushLiteral
  PROVE  Inv'
<1>1. Fetch(Supported) /\ objects' \in 0..HeapMax
  BY FetchFacts DEF PushLiteral, Supported
<1>2. (IF Opcode = OP_NIL THEN Nil ELSE Bool(Opcode = OP_TRUE)) \in Value
  BY ValueFacts
<1> QED
  BY <1>1, <1>2, PushKeepsInv DEF PushLiteral

LEMMA GetGlobalKeepsInv ==
  ASSUME Inv, UNCHANGED embedding, GetGlobal
  PROVE  Inv'
<1>1. Fetch(Supported) /\ Running /\ objects' \in 0..HeapMax
  BY FetchFacts DEF GetGlobal, Supported, ReadsOperand
<1>2. Len(natives) \in Nat
  BY DEF Inv, TypeOK
<1>3. bc.functions \in Seq(Function) /\ Len(bc.functions) \in Nat
  BY <1>1, CurrentFacts, ModulesAssumption DEF Loadable, Bytecode
<1>4. CASE \E message \in Errors : Fail(message)
  BY <1>1, <1>4, FailureStep DEF GetGlobal
<1>5. CASE \E i \in 1..Len(natives) : Push([tag |-> "native", as |-> i])
  BY <1>1, <1>2, <1>5, PushKeepsInv, ValueFacts
<1>6. CASE \E i \in 1..Len(bc.functions) : Push(IntValue(i - 1))
  BY <1>1, <1>3, <1>6, PushKeepsInv, ValueFacts
<1> QED
  BY <1>4, <1>5, <1>6 DEF GetGlobal, Errors

(* Slot zero and the locals of the running function are cells of the stack. *)
LEMMA LocalCell ==
  ASSUME Inv, Running, Operand \in Nat, Operand < Fn.local_count
  PROVE  Current.slots + Operand \in 0..(StackMax - 1)
<1>1. /\ Current.slots \in Nat /\ Fn.local_count \in Nat
      /\ Current.slots + Fn.local_count <= StackMax
  BY CurrentFacts DEF Frame, Function
<1> QED
  BY <1>1

LEMMA GetLocalKeepsInv ==
  ASSUME Inv, UNCHANGED embedding, GetLocal
  PROVE  Inv'
<1>1. Fetch(Supported) /\ Running /\ objects' \in 0..HeapMax /\ Operand \in Nat
  BY FetchFacts DEF GetLocal, Supported, ReadsOperand, Fetch
<1>2. CASE Fail("local index out of range")
  BY <1>1, <1>2, FailureStep DEF GetLocal, Errors
<1>3. CASE Operand < Fn.local_count /\ Push(stack[Current.slots + Operand])
  <2>1. stack[Current.slots + Operand] \in Value
    BY <1>1, <1>3, LocalCell DEF Inv, TypeOK
  <2> QED
    BY <1>1, <1>3, <2>1, PushKeepsInv
<1> QED
  BY <1>2, <1>3 DEF GetLocal

LEMMA SetLocalKeepsInv ==
  ASSUME Inv, UNCHANGED embedding, SetLocal
  PROVE  Inv'
<1>1. Fetch(Supported) /\ Running /\ objects' \in 0..HeapMax /\ Operand \in Nat
  BY FetchFacts DEF SetLocal, Supported, ReadsOperand, Fetch
<1>2. CASE \E message \in Errors : Fail(message)
  BY <1>1, <1>2, FailureStep DEF SetLocal
<1>3. CASE /\ Operand < Fn.local_count
           /\ top > 0
           /\ stack' = [stack EXCEPT ![Current.slots + Operand] = Peek(0)]
           /\ frames' = Advance
           /\ UNCHANGED top
           /\ NoError
  <2>1. Peek(0) \in Value
    BY <1>3, PeekType
  <2>2. stack' \in [0..(StackMax - 1) -> Value]
    BY <1>3, <2>1 DEF Inv, TypeOK
  <2>3. GoodFrames(frames') /\ frames' # << >>
    BY <1>1, <1>3, AdvanceGood
  <2>4. top' \in 0..StackMax /\ status' \in Statuses /\ lastError' \in ErrorText
    BY <1>3 DEF Inv, TypeOK, NoError, Statuses, ErrorText
  <2> QED
    BY <1>1, <2>2, <2>3, <2>4, KeepInv
<1> QED
  BY <1>2, <1>3 DEF SetLocal, Errors

LEMMA TopType ==
  ASSUME Inv
  PROVE  top \in 0..StackMax /\ top \in Nat
BY DEF Inv, TypeOK

(* One or two operands, which the stack holds. *)
LEMMA OperandCount ==
  ASSUME NEW n \in {1, 2}, NEW t \in Nat, t >= n
  PROVE  n \in 0..t /\ n # 0
OBVIOUS

(* An instruction that takes n operands and replaces them by a value. *)
LEMMA TakesKeepsInv ==
  ASSUME Inv, UNCHANGED embedding, UNCHANGED objects, Fetch(Supported),
         NEW n \in {1, 2},
         \/ top < n /\ Fail("stack underflow")
         \/ top >= n /\ \E v \in Value : Replace(n, v)
         \/ top >= n /\ \E message \in Errors : Fail(message)
  PROVE  Inv'
<1>1. Running
  BY DEF Fetch
<1>2. objects' \in 0..HeapMax /\ top \in 0..StackMax
  BY DEF Inv, TypeOK
<1>6. top \in Nat
  BY TopType, Zenon
<1>3. CASE \E message \in Errors : Fail(message)
  BY <1>1, <1>3, FailureStep
<1>4. CASE top >= n /\ \E v \in Value : Replace(n, v)
  <2>1. PICK v \in Value : Replace(n, v)
    BY <1>4
  <2>2. n \in 0..top /\ n # 0
    <3>1. top \in Nat /\ top >= n
      BY <1>4, <1>6, Zenon
    <3> QED
      BY <3>1, OperandCount, Zenon
  <2> QED
    BY <2>1, <2>2, <1>2, ReplaceKeepsInv
<1>5. CASE top < n /\ Fail("stack underflow")
  BY <1>3, <1>5 DEF Errors
<1> QED
  BY <1>3, <1>4, <1>5

LEMMA ArithmeticType ==
  ASSUME NEW op \in {OP_ADD, OP_SUB, OP_MUL, OP_DIV}, NEW a \in Int, NEW b \in Int,
         op = OP_DIV => b # 0
  PROVE  Arithmetic(op, a, b) \in Int
<1>1. /\ a + b \in Int /\ a - b \in Int /\ a * b \in Int
  OBVIOUS
<1>2. ASSUME b # 0 PROVE Quotient(a, b) \in Int
  <2>1. Abs(a) \in Int /\ Abs(b) \in Int /\ Abs(b) > 0
    BY <1>2 DEF Abs
  <2>2. Abs(a) \div Abs(b) \in Int
    BY <2>1
  <2> QED
    BY <2>2 DEF Quotient
<1>3. CASE op = OP_ADD
  BY <1>1, <1>3, ValueFacts DEF Arithmetic, OP_ADD, OP_SUB, OP_MUL, OP_DIV
<1>4. CASE op = OP_SUB
  BY <1>1, <1>4, ValueFacts DEF Arithmetic, OP_ADD, OP_SUB, OP_MUL, OP_DIV
<1>5. CASE op = OP_MUL
  BY <1>1, <1>5, ValueFacts DEF Arithmetic, OP_ADD, OP_SUB, OP_MUL, OP_DIV
<1>6. CASE op = OP_DIV
  BY <1>2, <1>6, ValueFacts DEF Arithmetic, OP_ADD, OP_SUB, OP_MUL, OP_DIV
<1> QED
  BY <1>3, <1>4, <1>5, <1>6

LEMMA ArithmeticKeepsInv ==
  ASSUME Inv, UNCHANGED embedding, ArithmeticInt \/ ArithmeticOther \/ DivisionTraps
  PROVE  Inv'
<1>1. Fetch(Supported) /\ Running /\ objects \in 0..HeapMax
      /\ Opcode \in {OP_ADD, OP_SUB, OP_MUL, OP_DIV}
  BY FetchFacts DEF ArithmeticInt, ArithmeticOther, DivisionTraps, Supported, Fetch
<1>2. top \in 0..StackMax
  BY DEF Inv, TypeOK
<1>3. ASSUME top >= 2 PROVE Left \in Value /\ Right \in Value
  BY <1>2, <1>3, PeekType DEF Left, Right
<1>4. CASE ArithmeticInt
  <2>1. CASE top < 2
    BY <2>1, <1>1, <1>4, TakesKeepsInv DEF ArithmeticInt, Takes
  <2>2. CASE top >= 2
    <3>1. /\ Opcode = OP_DIV => Right.as # 0
          /\ Replace(2, IntValue(Arithmetic(Opcode, Left.as, Right.as)))
      <4>1. ~(top < 2)
        BY <2>2, <1>2
      <4> QED
        BY <4>1, <1>4, Zenon DEF ArithmeticInt, Takes
    <3>2. Left.as \in Int /\ Right.as \in Int
      BY <2>2, <1>3 DEF Value
    <3>3. Arithmetic(Opcode, Left.as, Right.as) \in Int
      BY <3>1, <3>2, <1>1, ArithmeticType
    <3>4. IntValue(Arithmetic(Opcode, Left.as, Right.as)) \in Value
      BY <3>3, ValueFacts
    <3> QED
      BY <3>1, <3>4, <2>2, <1>1, <1>4, TakesKeepsInv DEF ArithmeticInt
  <2> QED
    BY <2>1, <2>2, <1>2
<1>5. CASE ArithmeticOther
  <2>1. CASE /\ objects < HeapMax /\ objects' = objects + 1
             /\ Replace(2, [tag |-> "string", as |-> objects'])
    <3>1. objects' \in 0..HeapMax /\ [tag |-> "string", as |-> objects'] \in Value
      BY <2>1, <1>1, ValueFacts
    <3>2. 2 \in 0..top
      <4>1. top >= 2
        BY <1>5 DEF ArithmeticOther
      <4> QED
        BY <4>1, <1>2
    <3> QED
      BY <2>1, <3>1, <3>2, <1>1, ReplaceKeepsInv
  <2>2. CASE Fail("operands not supported") /\ UNCHANGED objects
    BY <2>2, <1>1, FailureStep DEF Errors
  <2> QED
    BY <2>1, <2>2, <1>5 DEF ArithmeticOther
<1>6. CASE DivisionTraps
  <2>1. lastError' \in ErrorText /\ objects' \in 0..HeapMax
    BY <1>1, <1>6 DEF DivisionTraps, Inv, TypeOK, ErrorText
  <2> QED
    BY <2>1, <1>1, <1>6, KeepMachine DEF DivisionTraps, Statuses
<1> QED
  BY <1>4, <1>5, <1>6

LEMMA CompareKeepsInv ==
  ASSUME Inv, UNCHANGED embedding, Comparison \/ Equality
  PROVE  Inv'
<1>1. Fetch(Supported) /\ UNCHANGED objects
  BY FetchFacts DEF Comparison, Equality, Supported
<1>2. top \in Nat
  BY DEF Inv, TypeOK
<1>3. CASE top < 2
  <2>1. Fail("stack underflow")
    BY <1>3 DEF Comparison, Equality, Takes
  <2> QED
    BY <2>1, <1>1, <1>3, TakesKeepsInv
<1>4. CASE ~(top < 2)
  <2>1. top >= 2
    BY <1>2, <1>4
  <2>2. CASE Comparison /\ Numeric(Left) /\ Numeric(Right)
    <3>1. Replace(2, Bool(Compare(Opcode, Left.as, Right.as)))
      BY <1>4, <2>2 DEF Comparison, Takes
    <3> QED
      BY <3>1, <2>1, <1>1, BoolType, TakesKeepsInv
  <2>3. CASE Comparison /\ ~(Numeric(Left) /\ Numeric(Right))
    <3>1. Fail("comparison supports numbers only")
      BY <1>4, <2>3 DEF Comparison, Takes
    <3> QED
      BY <3>1, <2>1, <1>1, TakesKeepsInv DEF Errors
  <2>4. CASE Equality
    <3>1. Replace(2, Bool((Left = Right) = (Opcode = OP_EQ)))
      BY <1>4, <2>4 DEF Equality, Takes
    <3> QED
      BY <3>1, <2>1, <1>1, BoolType, TakesKeepsInv
  <2> QED
    BY <2>2, <2>3, <2>4
<1> QED
  BY <1>3, <1>4

LEMMA UnaryKeepsInv ==
  ASSUME Inv, UNCHANGED embedding, Not \/ Negate
  PROVE  Inv'
<1>1. Fetch(Supported) /\ UNCHANGED objects
  BY FetchFacts DEF Not, Negate, Supported
<1>2. top \in Nat
  BY DEF Inv, TypeOK
<1>3. CASE top < 1
  <2>1. Fail("stack underflow")
    BY <1>3 DEF Not, Negate, Takes
  <2> QED
    BY <2>1, <1>1, <1>3, TakesKeepsInv
<1>4. CASE ~(top < 1)
  <2>1. top >= 1 /\ Peek(0) \in Value
    BY <1>2, <1>4, PeekType
  <2>2. CASE Not
    <3>1. Replace(1, Bool(~Truthy(Peek(0))))
      BY <1>4, <2>2 DEF Not, Takes
    <3>2. Bool(~Truthy(Peek(0))) \in Value
      BY ValueFacts
    <3> QED
      BY <2>1, <3>1, <3>2, <1>1, TakesKeepsInv
  <2>3. CASE Negate /\ Peek(0).tag = "int"
    <3>1. Replace(1, IntValue(Wrap(-Peek(0).as)))
      BY <1>4, <2>3 DEF Negate, Takes
    <3>2. IntValue(Wrap(-Peek(0).as)) \in Value
      <4>1. Peek(0).as \in Int
        BY <2>1 DEF Value
      <4>2. -Peek(0).as \in Int
        BY <4>1
      <4> QED
        BY <4>2, ValueFacts
    <3> QED
      BY <2>1, <3>1, <3>2, <1>1, TakesKeepsInv
  <2>4. CASE Negate /\ Peek(0).tag # "int"
    <3>1. Fail("NEGATE supports integers only")
      BY <1>4, <2>4 DEF Negate, Takes
    <3> QED
      BY <2>1, <3>1, <1>1, TakesKeepsInv DEF Errors
  <2> QED
    BY <2>2, <2>3, <2>4
<1> QED
  BY <1>3, <1>4

LEMMA PopKeepsInv ==
  ASSUME Inv, UNCHANGED embedding, Pop
  PROVE  Inv'
<1>1. Fetch(Supported) /\ Running /\ UNCHANGED objects /\ objects' \in 0..HeapMax
  BY FetchFacts DEF Pop, Supported
<1>2. top \in 0..StackMax
  BY DEF Inv, TypeOK
<1>3. CASE top < 1
  <2>1. Fail("stack underflow")
    BY <1>3 DEF Pop, Takes
  <2> QED
    BY <2>1, <1>1, <1>3, TakesKeepsInv
<1>4. CASE ~(top < 1)
  <2>1. top' = top - 1 /\ frames' = Advance /\ UNCHANGED stack /\ NoError
    BY <1>4 DEF Pop, Takes
  <2>2. top' \in 0..StackMax
    BY <2>1, <1>2, <1>4
  <2> QED
    BY <2>1, <2>2, <1>1, AdvanceGood, MoveKeepsInv
<1> QED
  BY <1>3, <1>4

LEMMA JumpKeepsInv ==
  ASSUME Inv, UNCHANGED embedding, Jump \/ JumpIfFalse
  PROVE  Inv'
<1>1. /\ Fetch(Supported) /\ Running /\ Operand \in Nat
      /\ UNCHANGED objects /\ objects' \in 0..HeapMax
  BY FetchFacts DEF Jump, JumpIfFalse, Supported, ReadsOperand, Fetch
<1>2. top \in 0..StackMax /\ Fn.code_size \in Nat
  BY <1>1, CurrentFacts DEF Inv, TypeOK, Function
<1>3. ASSUME ~(Operand >= Fn.code_size)
      PROVE  LET frs == [frames EXCEPT ![Len(frames)].ip = Operand]
             IN  GoodFrames(frs) /\ frs # << >>
  BY <1>1, <1>2, <1>3, SetIp
<1>4. CASE Jump /\ Operand >= Fn.code_size
  <2>1. status' = "error" /\ UNCHANGED machine /\ lastError' \in ErrorText
    BY <1>4 DEF Jump, machine, Inv, TypeOK, ErrorText
  <2> QED
    BY <2>1, <1>1, KeepMachine DEF Statuses
<1>5. CASE Jump /\ ~(Operand >= Fn.code_size)
  <2>1. /\ frames' = [frames EXCEPT ![Len(frames)].ip = Operand]
        /\ UNCHANGED stack /\ UNCHANGED top /\ NoError
    BY <1>5 DEF Jump, NoError
  <2> QED
    BY <2>1, <1>1, <1>2, <1>3, <1>5, MoveKeepsInv
<1>6. CASE JumpIfFalse /\ top < 1
  <2>1. Fail("stack underflow")
    BY <1>6 DEF JumpIfFalse, Takes
  <2> QED
    BY <2>1, <1>1, FailureStep DEF Errors
<1>7. CASE JumpIfFalse /\ ~(top < 1)
  <2>1. CASE Fail("jump target out of range")
    BY <2>1, <1>1, FailureStep DEF Errors
  <2>2. CASE /\ ~(~Truthy(Peek(0)) /\ Operand >= Fn.code_size)
             /\ top' = top - 1 /\ UNCHANGED stack /\ NoError
             /\ frames' = IF Truthy(Peek(0)) THEN Advance
                          ELSE [frames EXCEPT ![Len(frames)].ip = Operand]
    <3>1. GoodFrames(frames') /\ frames' # << >>
      BY <2>2, <1>1, <1>3, AdvanceGood
    <3>2. top' \in 0..StackMax
      BY <2>2, <1>2, <1>7
    <3> QED
      BY <2>2, <3>1, <3>2, <1>1, MoveKeepsInv
  <2> QED
    BY <2>1, <2>2, <1>7 DEF JumpIfFalse, Takes
<1> QED
  BY <1>4, <1>5, <1>6, <1>7

(* hvm_push_frame: the frame it pushes on callers fits into the array, and
   its locals are values. *)
LEMMA PushFrameKeeps ==
  ASSUME TypeOK, NEW m \in Loadable, NEW callers \in Seq(Frame),
         NEW function \in Nat, function + 1 \in 1..Len(m.functions),
         NEW slots \in Nat, NEW oldTop \in 0..StackMax,
         Len(callers) < FramesMax,
         slots + m.functions[function + 1].local_count <= StackMax,
         PushFrame(m, callers, function, slots, oldTop)
  PROVE  /\ frames' = Append(callers, [function |-> function, ip |-> 0, slots |-> slots])
         /\ frames' \in Seq(Frame)
         /\ Len(frames') = Len(callers) + 1
         /\ Len(frames') <= FramesMax
         /\ frames' # << >>
         /\ stack' \in [0..(StackMax - 1) -> Value]
         /\ top' \in 0..StackMax
         /\ status' = "running"
         /\ lastError' = lastError
<1> DEFINE new == [function |-> function, ip |-> 0, slots |-> slots]
           limit == slots + m.functions[function + 1].local_count
<1>1. m.functions[function + 1].local_count \in Nat
  BY FunctionFacts DEF Function
<1>2. limit \in Nat /\ limit <= StackMax
  BY <1>1, SMTT(20)
<1>3. new \in Frame
  BY DEF Frame
<1>4. frames' = Append(callers, new) /\ status' = "running" /\ lastError' = lastError
  BY DEF PushFrame
<1>5. frames' \in Seq(Frame) /\ Len(frames') = Len(callers) + 1
  BY <1>3, <1>4, AppendProperties
<1>6. frames' # << >> /\ Len(frames') <= FramesMax
  BY <1>5, EmptySeq
<1>7. top' \in 0..StackMax
  BY <1>2 DEF PushFrame
<1>8. stack' \in [0..(StackMax - 1) -> Value]
  <2>1. DOMAIN stack = 0..(StackMax - 1) /\ \A i \in 0..(StackMax - 1) : stack[i] \in Value
    BY DEF TypeOK
  <2>2. stack' = [i \in 0..(StackMax - 1) |->
                    IF oldTop <= i /\ i < limit THEN Nil ELSE stack[i]]
    BY <2>1 DEF PushFrame
  <2> QED
    BY <2>1, <2>2, ValueFacts
<1> QED
  BY <1>4, <1>5, <1>6, <1>7, <1>8

(* Slot zero of a callee is its own cell, below its arguments. *)
LEMMA CalleeFacts ==
  ASSUME Inv, Fetch({OP_CALL}), top > Operand
  PROVE  /\ Operand \in Nat
         /\ CalleeSlots \in 0..(StackMax - 1) /\ CalleeSlots < top
         /\ Callee \in Value
<1>1. Operand \in Nat
  BY FetchFacts DEF Supported, ReadsOperand, Fetch
<1>2. top \in 0..StackMax
  BY TopType
<1>3. Callee \in Value
  BY <1>1, <1>2, PeekType DEF Callee
<1> QED
  BY <1>1, <1>2, <1>3 DEF CalleeSlots

LEMMA CallKeepsInv ==
  ASSUME Inv, UNCHANGED embedding, Call \/ TruncatedOperand \/ Unsupported \/ Spin \/ Halt
  PROVE  Inv'
<1>1. Running /\ objects' \in 0..HeapMax /\ UNCHANGED objects
  BY DEF Call, TruncatedOperand, Unsupported, Spin, Halt, CallFails, Fetch, Inv, TypeOK
<1>2. CASE \E message \in Errors : Fail(message)
  BY <1>1, <1>2, FailureStep
<1>3. CASE Spin \/ Halt
  <2>1. /\ status' \in Statuses /\ lastError' \in ErrorText
        /\ UNCHANGED machine
    BY <1>3 DEF Spin, Halt, Inv, TypeOK, Statuses, ErrorText
  <2> QED
    BY <1>1, <2>1, KeepMachine
<1>4. CASE Call
  BY <1>2, <1>4 DEF Call, CallFails, Errors
<1>5. CASE TruncatedOperand
  BY <1>2, <1>5 DEF TruncatedOperand, Errors
<1>6. CASE Unsupported
  BY <1>2, <1>6 DEF Unsupported, Errors
<1> QED
  BY <1>3, <1>4, <1>5, <1>6

LEMMA CallFunctionKeepsInv ==
  ASSUME Inv, UNCHANGED embedding, CallFunction
  PROVE  Inv'
<1>1. /\ Fetch({OP_CALL}) /\ Fetch(Supported) /\ Running /\ top > Operand
      /\ UNCHANGED objects /\ objects' \in 0..HeapMax
  BY FetchFacts DEF CallFunction, Supported, ReadsOperand
<1>2. CASE \E message \in Errors : Fail(message)
  BY <1>1, <1>2, FailureStep
<1>3. CASE /\ IsFunction
           /\ FrameError(bc, frames, Callee.as, CalleeSlots) = NoText
           /\ PushFrame(bc, Advance, Callee.as, CalleeSlots, top)
  <2>1. bc \in Loadable /\ bc.functions \in Seq(Function)
    BY <1>1, CurrentFacts, ModulesAssumption DEF Loadable, Bytecode
  <2>2. Callee.as \in Nat /\ Callee.as + 1 \in 1..Len(bc.functions)
    BY <1>3, <2>1 DEF IsFunction
  <2>3. CalleeSlots \in Nat /\ top \in 0..StackMax
    BY <1>1, CalleeFacts, TopType
  <2>4. /\ Len(frames) < FramesMax
        /\ CalleeSlots + bc.functions[Callee.as + 1].local_count <= StackMax
    <3>1. ~(Len(frames) >= FramesMax)
      BY <1>3 DEF FrameError, NoText
    <3>2. ~(CalleeSlots + bc.functions[Callee.as + 1].local_count > StackMax)
      BY <1>3, <3>1 DEF FrameError, NoText
    <3>3. bc.functions[Callee.as + 1].local_count \in Nat
      BY <2>1, <2>2, FunctionFacts DEF Function
    <3>4. Len(frames) \in Nat
      BY <1>1, CurrentFacts
    <3> QED
      BY <3>1, <3>2, <3>3, <3>4, <2>3
  <2>5. GoodFrames(Advance) /\ Len(Advance) = Len(frames)
    <3>1. Len(Advance) = Len(frames)
      BY DEF Advance, Inv, TypeOK
    <3> QED
      BY <3>1, <1>1, AdvanceGood
  <2>6. TypeOK
    BY DEF Inv
  <2> DEFINE new == [function |-> Callee.as, ip |-> 0, slots |-> CalleeSlots]
  <2>7. /\ frames' = Append(Advance, new)
        /\ frames' \in Seq(Frame) /\ Len(frames') <= FramesMax /\ frames' # << >>
        /\ stack' \in [0..(StackMax - 1) -> Value] /\ top' \in 0..StackMax
        /\ status' = "running" /\ lastError' = lastError
    BY <1>3, <2>1, <2>2, <2>3, <2>4, <2>5, <2>6, PushFrameKeeps DEF GoodFrames
  <2>8. FrameInBounds(new)
    <3>1. bc.functions[Callee.as + 1].code_size \in Nat
      BY <2>1, <2>2, FunctionFacts DEF Function
    <3>2. Callee.as < Len(bc.functions)
      BY <2>1, <2>2
    <3> QED
      BY <3>1, <3>2, <2>4 DEF FrameInBounds, FunctionOf
  <2>9. GoodFrames(frames')
    <3> HIDE DEF new
    <3>1. new \in Frame
      BY <2>2, <2>3 DEF Frame, new
    <3>2. /\ Len(Append(Advance, new)) = Len(Advance) + 1
          /\ \A i \in 1..Len(Advance) : Append(Advance, new)[i] = Advance[i]
          /\ Append(Advance, new)[Len(Advance) + 1] = new
      BY <3>1, <2>5, AppendProperties DEF GoodFrames
    <3>3. Len(Advance) \in Nat
      BY <2>5 DEF GoodFrames
    <3>4. \A i \in 1..Len(Append(Advance, new)) : FrameInBounds(Append(Advance, new)[i])
      BY <3>2, <3>3, <2>5, <2>8 DEF GoodFrames
    <3>5. new.slots < StackMax
      BY <1>1, CalleeFacts DEF new
    <3>6. \A i \in 2..Len(Append(Advance, new)) : Append(Advance, new)[i].slots < StackMax
      BY <3>2, <3>3, <3>5, <2>5 DEF GoodFrames
    <3> QED
      BY <3>4, <3>6, <2>7 DEF GoodFrames
  <2>10. status' \in Statuses /\ lastError' \in ErrorText
    BY <2>7 DEF Statuses, ErrorText, Inv, TypeOK
  <2> QED
    BY <1>1, <2>7, <2>9, <2>10, KeepInv
<1> QED
  <2>1. FrameError(bc, frames, Callee.as, CalleeSlots) \in Errors \union {NoText}
    BY DEF FrameError, Errors, NoText
  <2> QED
    BY <2>1, <1>2, <1>3 DEF CallFunction, Errors

(* A native allocates, and never frees. *)
LEMMA NativeAllocates ==
  ASSUME Inv, CallNative
  PROVE  objects' \in 0..HeapMax /\ objects' >= objects /\ objects' \in Nat
<1>1. objects \in 0..HeapMax
  BY DEF Inv, TypeOK
<1>2. \/ UNCHANGED objects
      \/ objects' \in objects..HeapMax
  BY DEF CallNative, CallFails
<1> QED
  BY <1>1, <1>2

LEMMA ResultTypes ==
  ASSUME NEW i, NEW strings, strings \subseteq Int, Len(natives) \in Nat,
         NEW result \in Results(i, strings)
  PROVE  result \in Value
<1>1. CASE i = 1
  BY <1>1, ValueFacts DEF Results
<1>2. CASE i = 2
  <2>1. Results(i, strings) =
          {Bool(FALSE)} \union (IF Peek(0).tag = "string" THEN {Bool(TRUE)} ELSE {})
    BY <1>2 DEF Results
  <2>2. Bool(FALSE) \in Value /\ Bool(TRUE) \in Value
    BY BoolType
  <2>3. \A S : S \in {{}, {Bool(TRUE)}} => {Bool(FALSE)} \union S \subseteq Value
    BY <2>2
  <2> QED
    BY <2>1, <2>3
<1>3. CASE i \notin {1, 2}
  <2>1. \/ result \in NativeResults
        \/ result \in [tag : {"string"}, as : strings]
        \/ result \in [tag : {"native"}, as : 1..Len(natives)]
    BY <1>3 DEF Results, EmbedderResults
  <2>2. CASE result \in NativeResults
    BY <2>2, NativesAssumption DEF Value
  <2>3. CASE result \in [tag : {"string"}, as : strings]
    BY <2>3 DEF Value
  <2>4. CASE result \in [tag : {"native"}, as : 1..Len(natives)]
    BY <2>4 DEF Value
  <2> QED
    BY <2>1, <2>2, <2>3, <2>4
<1> QED
  BY <1>1, <1>2, <1>3

LEMMA CallNativeKeepsInv ==
  ASSUME Inv, UNCHANGED embedding, CallNative
  PROVE  Inv'
<1>1. /\ Fetch({OP_CALL}) /\ Fetch(Supported) /\ Running /\ top > Operand
      /\ objects' \in 0..HeapMax /\ objects' >= objects
  BY FetchFacts, NativeAllocates DEF CallNative, Supported, ReadsOperand
<1>2. CASE \E message \in Errors : Fail(message)
  BY <1>1, <1>2, FailKeepsInv
<1>3. CASE \E result \in Results(Callee.as, StringObjects') : Replace(Operand + 1, result)
  <2>1. PICK result \in Results(Callee.as, StringObjects') : Replace(Operand + 1, result)
    BY <1>3
  <2>2. result \in Value
    <3>1. StringObjects' \subseteq Int
      BY DEF StringObjects
    <3>2. Len(natives) \in Nat
      BY DEF Inv, TypeOK
    <3> QED
      BY <2>1, <3>1, <3>2, ResultTypes
  <2>3. Operand + 1 \in 0..top /\ Operand + 1 # 0
    BY <1>1, CalleeFacts, TopType
  <2> QED
    BY <1>1, <2>1, <2>2, <2>3, ReplaceKeepsInv
<1>4. CASE status' = "error" /\ UNCHANGED <<machine, lastError>>
  <2>1. lastError' \in ErrorText
    BY <1>4 DEF Inv, TypeOK, ErrorText
  <2> QED
    BY <1>1, <1>4, <2>1, KeepMachine DEF Statuses
<1>5. \/ \E message \in Errors : Fail(message)
      \/ \E result \in Results(Callee.as, StringObjects') : Replace(Operand + 1, result)
      \/ status' = "error" /\ UNCHANGED <<machine, lastError>>
  <2>1. /\ "native function arity mismatch" \in Errors /\ "error of the native" \in Errors
        /\ "native function call failed" \in Errors
    BY DEF Errors
  <2> QED
    BY <2>1 DEF CallNative, CallFails
<1> QED
  BY <1>2, <1>3, <1>4, <1>5

(* With more than one frame there is a caller. *)
LEMMA CallersFrames ==
  ASSUME NEW n \in 1..FramesMax, n # 1
  PROVE  n \in 2..n /\ 1 <= n - 1
OBVIOUS

LEMMA ReturnKeepsInv ==
  ASSUME Inv, UNCHANGED embedding, Return
  PROVE  Inv'
<1>1. /\ Running /\ UNCHANGED objects /\ objects' \in 0..HeapMax
  BY FetchFacts DEF Return, Supported, Fetch, Inv, TypeOK
<1>2. CASE top < 1
  <2>1. Fail("stack underflow")
    BY <1>2 DEF Return, Takes
  <2> QED
    BY <2>1, <1>1, FailureStep DEF Errors
<1>3. CASE ~(top < 1)
  <2>1. /\ frames' = SubSeq(frames, 1, Len(frames) - 1)
        /\ UNCHANGED lastError
        /\ IF Len(frames) = 1
           THEN /\ status' = "ok" /\ top' = Current.slots /\ UNCHANGED stack
           ELSE /\ stack' = [stack EXCEPT ![Current.slots] = Peek(0)]
                /\ top' = Current.slots + 1
                /\ UNCHANGED status
    BY <1>3 DEF Return, Takes
  <2>2. /\ frames \in Seq(Frame) /\ Len(frames) \in 1..FramesMax
        /\ Current.slots \in Nat /\ Current.slots <= StackMax
    <3>1. Current.slots \in Nat /\ Fn.local_count \in Nat
          /\ Current.slots + Fn.local_count <= StackMax
      BY <1>1, CurrentFacts DEF Frame, Function
    <3>2. frames \in Seq(Frame) /\ Len(frames) \in 1..FramesMax
      BY <1>1, CurrentFacts, Zenon DEF Inv, TypeOK
    <3>3. \A a, b, c \in Nat : a + b <= c => a <= c
      OBVIOUS
    <3>4. Current.slots <= StackMax
      BY <3>1, <3>3, MachineAssumption, Zenon
    <3> QED
      BY <3>1, <3>2, <3>4
  <2>3. /\ frames' \in Seq(Frame) /\ Len(frames') = Len(frames) - 1
        /\ \A i \in 1..(Len(frames) - 1) : frames'[i] = frames[i]
    <3>1. \A i \in 1..(Len(frames) - 1) : frames[i] \in Frame
      BY <2>2
    <3>2. 1 \in Int /\ Len(frames) - 1 \in Int
      BY <2>2
    <3> DEFINE rest == SubSeq(frames, 1, Len(frames) - 1)
    <3>3. /\ rest \in Seq(Frame)
          /\ Len(rest) = IF 1 <= Len(frames) - 1 THEN Len(frames) - 1 - 1 + 1 ELSE 0
          /\ \A i \in 1..(Len(frames) - 1 - 1 + 1) : rest[i] = frames[1 + i - 1]
      BY <3>1, <3>2, SubSeqProperties
    <3> HIDE DEF rest
    <3>4. Len(frames) - 1 - 1 + 1 = Len(frames) - 1 /\ \A i \in 1..Len(frames) : 1 + i - 1 = i
      BY <2>2
    <3>5. Len(rest) = Len(frames) - 1
      <4>1. CASE Len(frames) = 1
        BY <4>1, <3>3
      <4>2. CASE Len(frames) # 1
        <5>1. 1 <= Len(frames) - 1
          BY <2>2, <4>2, CallersFrames, Zenon
        <5> QED
          BY <5>1, <3>3, <3>4, Zenon
      <4> QED
        BY <4>1, <4>2
    <3>6. \A i \in 1..(Len(frames) - 1) : rest[i] = frames[i]
      BY <3>3, <2>2
    <3> QED
      BY <2>1, <3>3, <3>5, <3>6 DEF rest
  <2>4. GoodFrames(frames')
    BY <2>2, <2>3 DEF GoodFrames, Inv, FramesInBounds
  <2>5. status' = "running" => frames' # << >>
    <3>1. CASE Len(frames) = 1
      BY <2>1, <3>1
    <3>2. CASE Len(frames) # 1
      BY <2>2, <2>3, <3>2, EmptySeq
    <3> QED
      BY <3>1, <3>2
  <2>6. status' \in Statuses /\ lastError' \in ErrorText
    BY <2>1 DEF Inv, TypeOK, Statuses, ErrorText
  <2>7. Peek(0) \in Value /\ stack \in [0..(StackMax - 1) -> Value]
    BY <1>3, TopType, PeekType DEF Inv, TypeOK
  <2>8. stack' \in [0..(StackMax - 1) -> Value]
    BY <2>1, <2>7
  <2>9. top' \in 0..StackMax
    <3>1. CASE Len(frames) = 1
      BY <3>1, <2>1, <2>2
    <3>2. CASE Len(frames) # 1
      <4>1. Len(frames) \in 2..Len(frames)
        BY <2>2, <3>2, CallersFrames, Zenon
      <4>2. Current.slots < StackMax
        BY <4>1 DEF Inv, FramesInBounds, Current
      <4> QED
        BY <4>2, <3>2, <2>1, <2>2
    <3> QED
      BY <3>1, <3>2
  <2> QED
    BY <1>1, <2>4, <2>5, <2>6, <2>8, <2>9, KeepInv
<1> QED
  BY <1>2, <1>3

LEMMA InstructionKeepsInv ==
  ASSUME Inv, Instruction
  PROVE  Inv'
<1>1. UNCHANGED embedding
  BY DEF Instruction
<1> QED
  BY <1>1, ConstantKeepsInv, PushLiteralKeepsInv, GetGlobalKeepsInv, GetLocalKeepsInv,
     SetLocalKeepsInv, ArithmeticKeepsInv, CompareKeepsInv, UnaryKeepsInv, PopKeepsInv,
     JumpKeepsInv, CallKeepsInv, CallFunctionKeepsInv, CallNativeKeepsInv, ReturnKeepsInv
  DEF Instruction

-----------------------------------------------------------------------------
(* So does every call of the embedder.                                     *)

LEMMA ExecuteKeepsInv ==
  ASSUME Inv, NEW module \in Modules, Execute(module)
  PROVE  Inv'
<1>1. /\ status # "running" /\ executions' \in 0..MaxExecutions
      /\ UNCHANGED <<natives, objects>>
  <2>1. executions \in 0..MaxExecutions
    BY DEF Inv, TypeOK
  <2>2. /\ status # "running" /\ executions < MaxExecutions
        /\ executions' = executions + 1 /\ UNCHANGED <<natives, objects>>
    BY DEF Execute
  <2> QED
    BY <2>1, <2>2
<1>2. CASE ~Accepts(module)
  <2>1. Fail("invalid module") /\ UNCHANGED loaded
    BY <1>2 DEF Execute
  <2>2. status' = "error" /\ UNCHANGED <<stack, top, frames, loaded>>
    BY <2>1 DEF Fail, machine
  <2>3. lastError' \in ErrorText
    BY <1>1, <2>1 DEF Fail, SetError, Errors, ErrorText
  <2>4. TypeOK'
    BY <1>1, <2>2, <2>3 DEF Inv, TypeOK, ErrorText
  <2>5. FramesInBounds'
    BY <2>2 DEF Inv, FramesInBounds, FrameInBounds, FunctionOf, bc, Running
  <2> QED
    BY <2>4, <2>5 DEF Inv
<1>3. CASE Accepts(module)
  <2>0. module \in Loadable
    BY <1>3 DEF Loadable
  <2>1. loaded' = <<module>>
    BY <1>3 DEF Execute
  <2>2. loaded' \in Seq(Loadable) /\ Len(loaded') <= 1 /\ loaded' # << >>
    BY <2>0, <2>1
  <2>3. module.functions \in Seq(Function) /\ module.entry \in Nat
        /\ module.entry + 1 \in 1..Len(module.functions)
    BY <1>3, ModulesAssumption DEF Accepts, ValidModule, Bytecode
  <2>4. module.functions[module.entry + 1] \in Function
    BY <2>0, <2>3, FunctionFacts
  <2>5. CASE /\ FrameError(module, << >>, module.entry, 0) = NoText
             /\ PushFrame(module, << >>, module.entry, 0, 0)
    <3> DEFINE new == [function |-> module.entry, ip |-> 0, slots |-> 0]
    <3>1. << >> \in Seq(Frame) /\ Len(<< >>) = 0
      BY EmptySeq
    <3>2. 0 + module.functions[module.entry + 1].local_count <= StackMax
      <4>1. ~(0 + module.functions[module.entry + 1].local_count > StackMax)
        BY <2>5, <3>1 DEF FrameError, NoText
      <4> QED
        BY <4>1, <2>4 DEF Function
    <3>3. 0 \in 0..StackMax /\ Len(<< >>) < FramesMax
      BY <3>1
    <3>4. TypeOK
      BY DEF Inv
    <3>5. /\ frames' = Append(<< >>, new) /\ frames' \in Seq(Frame)
          /\ Len(frames') <= FramesMax /\ frames' # << >>
          /\ stack' \in [0..(StackMax - 1) -> Value] /\ top' \in 0..StackMax
          /\ status' = "running" /\ lastError' = lastError
      <4> DEFINE none == << >>
                 slots == 0
      <4>1. /\ none \in Seq(Frame) /\ Len(none) < FramesMax /\ slots \in Nat
            /\ slots + module.functions[module.entry + 1].local_count <= StackMax
            /\ slots \in 0..StackMax
            /\ PushFrame(module, none, module.entry, slots, slots)
            /\ new = [function |-> module.entry, ip |-> 0, slots |-> slots]
        BY <2>5, <3>1, <3>2, <3>3
      <4> HIDE DEF none, slots, new
      <4>2. /\ frames' = Append(none, new) /\ frames' \in Seq(Frame)
            /\ Len(frames') <= FramesMax /\ frames' # << >>
            /\ stack' \in [0..(StackMax - 1) -> Value] /\ top' \in 0..StackMax
            /\ status' = "running" /\ lastError' = lastError
        BY <2>0, <2>3, <3>4, <4>1, PushFrameKeeps
      <4> QED
        BY <4>2 DEF none
    <3>6. TypeOK'
      BY <1>1, <2>2, <3>5 DEF Inv, TypeOK
    <3>7. Len(frames') = 1 /\ frames'[1] = new
      BY <3>5
    <3>8. bc' = module
      BY <2>1 DEF bc
    <3>9. FrameInBounds(new)'
      <4>1. module.entry < Len(module.functions)
        BY <2>3
      <4>2. 0 <= module.functions[module.entry + 1].code_size
        BY <2>4 DEF Function
      <4> QED
        BY <4>1, <4>2, <3>2, <3>8 DEF FrameInBounds, FunctionOf
    <3>10. FramesInBounds'
      BY <2>2, <3>5, <3>7, <3>9 DEF FramesInBounds, FrameInBounds, FunctionOf
    <3> QED
      BY <3>6, <3>10 DEF Inv
  <2>6. CASE LET error == FrameError(module, << >>, module.entry, 0)
             IN  /\ error # NoText
                 /\ status' = "error"
                 /\ SetError(error)
                 /\ top' = 0 /\ frames' = << >> /\ UNCHANGED stack
    <3>1. lastError' \in ErrorText
      BY <1>1, <2>6 DEF FrameError, SetError, Errors, NoText, ErrorText
    <3>2. top' \in 0..StackMax /\ frames' \in Seq(Frame) /\ Len(frames') = 0
      BY <2>6, EmptySeq
    <3>3. TypeOK'
      BY <1>1, <2>2, <2>6, <3>1, <3>2 DEF Inv, TypeOK, ErrorText
    <3>4. FramesInBounds'
      BY <2>6, <3>2 DEF FramesInBounds, Running
    <3> QED
      BY <3>3, <3>4 DEF Inv
  <2> QED
    BY <1>3, <2>5, <2>6 DEF Execute
<1> QED
  BY <1>2, <1>3

LEMMA RegisterKeepsInv ==
  ASSUME Inv, NEW native \in Natives, RegisterNative(native)
  PROVE  Inv'
<1>1. /\ UNCHANGED <<status, stack, top, frames, loaded, executions>>
  BY DEF RegisterNative, machine
<1>2. FramesInBounds'
  BY <1>1 DEF Inv, FramesInBounds, FrameInBounds, FunctionOf, bc, Running
<1>3. /\ natives \in Seq(Entries) /\ objects \in 0..HeapMax
      /\ lastError \in ErrorText /\ executions \in 0..MaxExecutions
  BY DEF Inv, TypeOK, ErrorText
<1>4. ASSUME objects < HeapMax, natives' = Append(natives, Registered(native, objects')),
             objects' = objects + 1, UNCHANGED lastError
      PROVE  TypeOK'
  <2>1. objects' \in 1..HeapMax /\ objects' \in 0..HeapMax
    BY <1>3, <1>4
  <2>2. Registered(native, objects') \in Entries
    BY <2>1 DEF Entries
  <2>3. natives' \in Seq(Entries)
    BY <1>3, <1>4, <2>2, AppendProperties
  <2> QED
    BY <1>1, <1>3, <1>4, <2>1, <2>3 DEF Inv, TypeOK, ErrorText
<1>5. ASSUME SetError("failed to allocate native object"), UNCHANGED <<natives, objects>>
      PROVE  TypeOK'
  <2>1. lastError' \in ErrorText
    BY <1>1, <1>3, <1>5 DEF SetError, Errors, ErrorText
  <2> QED
    BY <1>1, <1>3, <1>5, <2>1 DEF Inv, TypeOK, ErrorText
<1>6. TypeOK'
  BY <1>4, <1>5 DEF RegisterNative
<1> QED
  BY <1>2, <1>6 DEF Inv

-----------------------------------------------------------------------------
(* The theorems.                                                           *)

(* The built-ins that there is memory for. *)
LEMMA FirstNatives ==
  ASSUME Init
  PROVE  /\ natives \in Seq(Entries) /\ Len(natives) \in 0..HeapMax
         /\ \A i \in 1..Len(natives) : natives[i].object = i
<1> DEFINE n == IF HeapMax < 2 THEN HeapMax ELSE 2
<1>1. n \in 0..2 /\ n <= HeapMax /\ n \in Nat
  OBVIOUS
<1>2. /\ natives = SubSeq(BuiltinNatives, 1, n)
      /\ Len(BuiltinNatives) = 2
      /\ BuiltinNatives[1] = Registered(PrintNative, 1)
      /\ BuiltinNatives[2] = Registered(AudioPlay, 2)
  BY DEF Init, BuiltinsMade, BuiltinNatives
<1> HIDE DEF n
<1>3. /\ Len(natives) = n
      /\ natives = [i \in 1..n |-> BuiltinNatives[i]]
  BY <1>1, <1>2 DEF BuiltinNatives
<1>4. ASSUME NEW i \in 1..n
      PROVE  natives[i] \in Entries /\ natives[i].object = i
  <2>1. natives[i] = BuiltinNatives[i] /\ i \in 1..HeapMax /\ i \in {1, 2}
    BY <1>1, <1>3
  <2>2. natives[i] = IF i = 1 THEN Registered(PrintNative, 1) ELSE Registered(AudioPlay, 2)
    BY <1>2, <2>1
  <2>3. Registered(PrintNative, 1).object = 1 /\ Registered(AudioPlay, 2).object = 2
    BY DEF Registered
  <2>4. CASE i = 1
    BY <2>1, <2>2, <2>3, <2>4 DEF Entries
  <2>5. CASE i = 2
    BY <2>1, <2>2, <2>3, <2>5 DEF Entries
  <2> QED
    BY <2>1, <2>4, <2>5
<1> QED
  BY <1>1, <1>3, <1>4

(* hvm_create establishes the invariant. *)
LEMMA InitInv == Init => Inv
<1> SUFFICES ASSUME Init PROVE Inv
  OBVIOUS
<1>1. stack \in [0..(StackMax - 1) -> Value]
  BY ValueFacts DEF Init
<1>2. natives \in Seq(Entries) /\ objects = Len(natives) /\ objects \in 0..HeapMax
  <2>1. objects = Len(natives)
    BY DEF Init
  <2> QED
    BY <2>1, FirstNatives
<1>3. TypeOK
  <2>1. loaded \in Seq(Loadable) /\ Len(loaded) <= 1 /\ frames \in Seq(Frame)
    BY EmptySeq DEF Init
  <2>2. objects \in 0..HeapMax /\ top \in 0..StackMax /\ executions \in 0..MaxExecutions
    BY <1>2 DEF Init
  <2>3. lastError \in ErrorText
    <3>1. 0 \in 0..MaxExecutions
      OBVIOUS
    <3>2. lastError.text \in Errors \union {NoText} /\ lastError.by = 0
      BY DEF Init, CreationError, Errors
    <3>3. lastError = [text |-> lastError.text, by |-> lastError.by]
      BY DEF Init
    <3> QED
      BY <3>1, <3>2, <3>3 DEF ErrorText
  <2> QED
    BY <1>1, <1>2, <2>1, <2>2, <2>3 DEF Init, TypeOK, ErrorText
<1>4. FramesInBounds
  BY EmptySeq DEF Init, FramesInBounds, Running
<1> QED
  BY <1>3, <1>4 DEF Inv

(* Every step keeps it. *)
LEMMA NextInv == Inv /\ [Next]_vars => Inv'
<1> SUFFICES ASSUME Inv, [Next]_vars PROVE Inv'
  OBVIOUS
<1>1. CASE Instruction
  BY <1>1, InstructionKeepsInv
<1>2. CASE \E module \in Modules : Execute(module)
  BY <1>2, ExecuteKeepsInv
<1>3. CASE \E native \in Natives : RegisterNative(native)
  BY <1>3, RegisterKeepsInv
<1>4. CASE UNCHANGED vars
  BY <1>4 DEF vars, machine, embedding, Inv, TypeOK, FramesInBounds, FrameInBounds, FunctionOf,
     bc, Running
<1> QED
  BY <1>1, <1>2, <1>3, <1>4 DEF Next

LEMMA InvAlways == Spec => []Inv
<1> QED
  BY InitInv, NextInv, PTL DEF Spec

(* The VM's state keeps its type whatever bytecode it is given: no push
   overflows the array, no pop underflows it (interpreter_loop.c). *)
THEOREM TypeCorrect == Spec => []TypeOK
<1>1. Inv => TypeOK
  BY DEF Inv
<1> QED
  BY <1>1, InvAlways, PTL

(* Validation and the checks of the loop together keep every instruction
   pointer inside the code of its function and every window of locals inside
   the stack array, misaligned jumps included (vm.c, interpreter_loop.c). *)
THEOREM FramesStayInBounds == Spec => []FramesInBounds
<1>1. Inv => FramesInBounds
  BY DEF Inv
<1> QED
  BY <1>1, InvAlways, PTL

-----------------------------------------------------------------------------
(* What the cells of the stack hold.                                       *)

(* A value that refers to nothing, to one of the strings or to one of so many
   natives. *)
Refers(v, strings, nats) ==
  /\ v.tag = "string" => v.as \in strings
  /\ v.tag = "native" => v.as \in 1..nats

(* Every cell keeps its value or gets one that refers to what exists. *)
CellsKept ==
  /\ DOMAIN stack' = DOMAIN stack
  /\ \A i \in DOMAIN stack :
       stack'[i] = stack[i] \/ Refers(stack'[i], StringObjects', Len(natives'))

(* No string becomes something else, and every native has an object. *)
RegistryKept ==
  /\ StringObjects \subseteq StringObjects'
  /\ Len(natives) \in Nat /\ Len(natives') \in Nat /\ Len(natives) <= Len(natives')
  /\ \A i \in 1..Len(natives') : natives'[i].object \in 1..objects'

(* Nothing is freed while the VM lives. *)
LEMMA CellsKeepObjects ==
  ASSUME ObjectsExist, CellsKept, RegistryKept
  PROVE  ObjectsExist'
<1>1. \A i \in DOMAIN stack : Refers(stack[i], StringObjects', Len(natives'))
  BY DEF ObjectsExist, Refers, RegistryKept
<1>2. \A i \in DOMAIN stack : Refers(stack'[i], StringObjects', Len(natives'))
  BY <1>1 DEF CellsKept
<1> QED
  BY <1>2 DEF ObjectsExist, CellsKept, Refers, RegistryKept

(* Memory is only ever added. *)
LEMMA AllocationKeepsRegistry ==
  ASSUME TypeOK, ObjectsExist, natives' = natives, objects' \in Nat, objects <= objects'
  PROVE  RegistryKept
<1>1. objects \in Nat /\ Len(natives) \in Nat
  BY DEF TypeOK
<1>2. 1..objects \subseteq 1..objects'
  BY <1>1
<1>3. \A i \in 1..Len(natives) : natives[i].object \in 1..objects
  BY DEF ObjectsExist
<1>4. StringObjects \subseteq StringObjects'
  BY <1>2 DEF StringObjects
<1>5. \A i \in 1..Len(natives') : natives'[i].object \in 1..objects'
  BY <1>2, <1>3
<1> QED
  BY <1>1, <1>4, <1>5 DEF RegistryKept

(* An object made just now is a string unless it was registered. *)
LEMMA FreshString ==
  ASSUME TypeOK, ObjectsExist, natives' = natives, objects' = objects + 1
  PROVE  objects' \in StringObjects'
<1>1. objects \in Nat /\ Len(natives) \in Nat
  BY DEF TypeOK
<1>2. \A i \in 1..Len(natives) : natives[i].object \in 1..objects
  BY DEF ObjectsExist
<1>3. \A i \in 1..Len(natives') : natives'[i].object # objects'
  BY <1>1, <1>2
<1>4. objects' \in 1..objects'
  BY <1>1
<1> QED
  BY <1>3, <1>4 DEF StringObjects

LEMMA SameCells == UNCHANGED stack => CellsKept
BY DEF CellsKept

LEMMA OneCell ==
  ASSUME NEW k, NEW v, Refers(v, StringObjects', Len(natives')),
         DOMAIN stack = 0..(StackMax - 1), stack \in [0..(StackMax - 1) -> Value],
         stack' = [stack EXCEPT ![k] = v]
  PROVE  CellsKept
BY DEF CellsKept

(* A value read from the stack. *)
LEMMA CellRefers ==
  ASSUME TypeOK, ObjectsExist, NEW i \in DOMAIN stack, UNCHANGED embedding,
         objects' \in Nat, objects <= objects'
  PROVE  Refers(stack[i], StringObjects', Len(natives'))
<1>1. RegistryKept
  BY AllocationKeepsRegistry DEF embedding
<1>2. /\ stack[i].tag = "string" => stack[i].as \in StringObjects
      /\ stack[i].tag = "native" => stack[i].as \in 1..Len(natives)
  BY DEF ObjectsExist
<1> QED
  BY <1>1, <1>2 DEF Refers, RegistryKept

LEMMA PeekRefers ==
  ASSUME TypeOK, ObjectsExist, NEW distance \in Nat, distance < top, UNCHANGED embedding,
         objects' \in Nat, objects <= objects'
  PROVE  Refers(Peek(distance), StringObjects', Len(natives'))
<1>1. top \in 0..StackMax /\ stack \in [0..(StackMax - 1) -> Value]
  BY DEF TypeOK
<1>2. top - 1 - distance \in 0..(StackMax - 1)
  BY <1>1
<1>3. top - 1 - distance \in DOMAIN stack
  BY <1>1, <1>2
<1> QED
  BY <1>3, CellRefers DEF Peek

(* The values that are no objects. *)
Plain(v) == v.tag \notin {"string", "native"}

LEMMA PlainRefers ==
  ASSUME NEW v, Plain(v), NEW o, NEW n
  PROVE  Refers(v, o, n)
BY DEF Plain, Refers

LEMMA PlainValues ==
  /\ Plain(Nil)
  /\ \A b \in BOOLEAN : Plain(Bool(b))
  /\ \A n \in Int : Plain(IntValue(n))
BY DEF Plain, Nil, Bool, IntValue

LEMMA PushCells ==
  ASSUME TypeOK, NEW v, Push(v), Refers(v, StringObjects', Len(natives'))
  PROVE  CellsKept
<1>1. CASE Replace(0, v)
  BY <1>1, OneCell DEF TypeOK, Replace
<1>2. CASE Fail("stack overflow")
  BY <1>2, SameCells DEF Fail, machine
<1> QED
  BY <1>1, <1>2 DEF Push

LEMMA ReplaceCells ==
  ASSUME TypeOK, NEW n, NEW v, Replace(n, v), Refers(v, StringObjects', Len(natives'))
  PROVE  CellsKept
BY OneCell DEF TypeOK, Replace

LEMMA FailCells ==
  ASSUME NEW message, Fail(message)
  PROVE  CellsKept
BY SameCells DEF Fail, machine

(* No instruction frees an object. *)
LEMMA InstructionAllocates ==
  ASSUME Inv, Instruction
  PROVE  objects' \in Nat /\ objects <= objects'
<1>1. objects \in Nat
  BY DEF Inv, TypeOK
<1>2. CASE CallNative
  BY <1>1, <1>2, NativeAllocates
<1>3. CASE UNCHANGED objects
  BY <1>1, <1>3
<1>4. CASE objects' = objects + 1
  BY <1>1, <1>4
<1>5. ASSUME ~CallNative
      PROVE  UNCHANGED objects \/ objects' = objects + 1
  BY <1>5
  DEF Instruction, TruncatedOperand, ConstantInt, ConstantString, PushLiteral, GetGlobal, GetLocal,
  SetLocal, ArithmeticInt, ArithmeticOther, DivisionTraps, Comparison, Equality, Not, Negate, Pop,
  Jump, JumpIfFalse, Call, CallFails, CallFunction, Return, Halt, Unsupported, Spin
<1> QED
  BY <1>2, <1>3, <1>4, <1>5

(* Every instruction stores values that refer to what exists. *)
LEMMA InstructionCells ==
  ASSUME Inv, ObjectsExist, Instruction
  PROVE  CellsKept
<1> USE DEF Inv
<1>1. UNCHANGED embedding /\ natives' = natives /\ objects \in Nat
  BY DEF Instruction, embedding, TypeOK
<1>2. \A b : Plain(Bool(b))
  BY DEF Plain, Bool
<1>3. CASE ConstantInt
  <2>1. ASSUME Numeric(bc.constants[Operand + 1]), Push(bc.constants[Operand + 1])
        PROVE  CellsKept
    BY <2>1, PushCells, PlainRefers DEF Numeric, Plain
  <2> QED
    BY <1>3, <2>1, FailCells DEF ConstantInt
<1>4. CASE ConstantString
  <2>1. ASSUME objects' = objects + 1, Push([tag |-> "string", as |-> objects'])
        PROVE  CellsKept
    <3>1. objects' \in StringObjects'
      BY <1>1, <2>1, FreshString
    <3>2. Refers([tag |-> "string", as |-> objects'], StringObjects', Len(natives'))
      BY <3>1 DEF Refers
    <3> QED
      BY <2>1, <3>2, PushCells
  <2> QED
    BY <1>4, <2>1, FailCells DEF ConstantString
<1>5. CASE PushLiteral
  <2>1. Plain(IF Opcode = OP_NIL THEN Nil ELSE Bool(Opcode = OP_TRUE))
    BY <1>2, PlainValues
  <2> QED
    BY <1>5, <2>1, PushCells, PlainRefers DEF PushLiteral
<1>6. CASE GetGlobal
  <2>1. ASSUME NEW i \in 1..Len(natives), Push([tag |-> "native", as |-> i])
        PROVE  CellsKept
    <3>1. Refers([tag |-> "native", as |-> i], StringObjects', Len(natives'))
      BY <1>1 DEF Refers, embedding
    <3> QED
      BY <2>1, <3>1, PushCells
  <2>2. ASSUME NEW i \in 1..Len(bc.functions), Push(IntValue(i - 1))
        PROVE  CellsKept
    <3>1. Plain(IntValue(i - 1))
      BY DEF Plain, IntValue
    <3> QED
      BY <2>2, <3>1, PushCells, PlainRefers
  <2> QED
    BY <1>6, <2>1, <2>2, FailCells DEF GetGlobal
<1>7. CASE GetLocal
  <2>1. ASSUME Operand < Fn.local_count, Push(stack[Current.slots + Operand])
        PROVE  CellsKept
    <3>1. Running /\ Operand \in Nat /\ objects' = objects
      BY <1>7, FetchFacts DEF GetLocal, Supported, ReadsOperand, Fetch
    <3>2. Current.slots + Operand \in DOMAIN stack
      BY <2>1, <3>1, LocalCell DEF TypeOK
    <3>3. Refers(stack[Current.slots + Operand], StringObjects', Len(natives'))
      BY <1>1, <3>1, <3>2, CellRefers
    <3> QED
      BY <2>1, <3>3, PushCells
  <2> QED
    BY <1>7, <2>1, FailCells DEF GetLocal
<1>8. ASSUME objects' = objects, top > 0
      PROVE  Refers(Peek(0), StringObjects', Len(natives'))
  BY <1>1, <1>8, PeekRefers
<1>9. CASE SetLocal
  <2>1. ASSUME top > 0, stack' = [stack EXCEPT ![Current.slots + Operand] = Peek(0)]
        PROVE  CellsKept
    BY <1>8, <1>9, <2>1, OneCell DEF SetLocal, TypeOK
  <2> QED
    BY <1>9, <2>1, FailCells DEF SetLocal
<1>10. CASE ArithmeticInt
  <2>1. Plain(IntValue(Arithmetic(Opcode, Left.as, Right.as)))
    BY DEF Plain, IntValue
  <2> QED
    BY <1>10, <2>1, ReplaceCells, FailCells, PlainRefers DEF ArithmeticInt, Takes
<1>11. CASE ArithmeticOther
  <2>1. ASSUME objects' = objects + 1, Replace(2, [tag |-> "string", as |-> objects'])
        PROVE  CellsKept
    <3>1. objects' \in StringObjects'
      BY <1>1, <2>1, FreshString
    <3>2. Refers([tag |-> "string", as |-> objects'], StringObjects', Len(natives'))
      BY <3>1 DEF Refers
    <3> QED
      BY <2>1, <3>2, ReplaceCells
  <2> QED
    BY <1>11, <2>1, FailCells DEF ArithmeticOther
<1>12. CASE Comparison \/ Equality \/ Not \/ Negate
  <2>1. \A n : Plain(IntValue(n))
    BY DEF Plain, IntValue
  <2>2. CASE Comparison
    BY <2>2, <1>2, ReplaceCells, FailCells, PlainRefers DEF Comparison, Takes
  <2>3. CASE Equality
    BY <2>3, <1>2, ReplaceCells, FailCells, PlainRefers DEF Equality, Takes
  <2>4. CASE Not
    BY <2>4, <1>2, ReplaceCells, FailCells, PlainRefers DEF Not, Takes
  <2>5. CASE Negate
    BY <2>5, <2>1, ReplaceCells, FailCells, PlainRefers DEF Negate, Takes
  <2> QED
    BY <1>12, <2>2, <2>3, <2>4, <2>5
<1>13. CASE CallFunction
  <2>1. ASSUME PushFrame(bc, Advance, Callee.as, CalleeSlots, top)
        PROVE  CellsKept
    BY <2>1, PlainValues, PlainRefers DEF PushFrame, CellsKept
  <2> QED
    BY <1>13, <2>1, FailCells DEF CallFunction
<1>14. CASE CallNative
  <2>1. ASSUME NEW result \in Results(Callee.as, StringObjects'), Replace(Operand + 1, result)
        PROVE  CellsKept
    <3>1. Refers(result, StringObjects', Len(natives'))
      <4>1. ASSUME result.tag \notin {"string", "native"}
            PROVE  Refers(result, StringObjects', Len(natives'))
        BY <4>1 DEF Refers
      <4>2. CASE Callee.as \in {1, 2}
        BY <1>2, <2>1, <4>1, <4>2, PlainValues DEF Results, Plain
      <4>3. CASE Callee.as \notin {1, 2}
        <5>1. \/ result \in NativeResults
              \/ result \in [tag : {"string"}, as : StringObjects']
              \/ result \in [tag : {"native"}, as : 1..Len(natives)]
          BY <2>1, <4>3 DEF Results, EmbedderResults
        <5> QED
          BY <1>1, <5>1, NativesAssumption DEF Refers
      <4> QED
        BY <4>2, <4>3
    <3> QED
      BY <2>1, <3>1, ReplaceCells
  <2>2. ASSUME UNCHANGED machine PROVE CellsKept
    BY <2>2, SameCells DEF machine
  <2> QED
    BY <1>14, <2>1, <2>2, FailCells DEF CallNative, CallFails
<1>15. CASE Return
  <2>1. objects' = objects
    BY <1>15 DEF Return
  <2>2. ASSUME ~(top < 1), stack' = [stack EXCEPT ![Current.slots] = Peek(0)]
        PROVE  CellsKept
    <3>1. top > 0
      BY <2>2 DEF TypeOK
    <3> QED
      BY <1>8, <2>1, <2>2, <3>1, OneCell DEF TypeOK
  <2> QED
    BY <1>15, <2>2, FailCells, SameCells DEF Return, Takes
<1>16. CASE TruncatedOperand \/ Unsupported \/ Call
  BY <1>16, FailCells DEF TruncatedOperand, Unsupported, Call, CallFails
<1>17. CASE DivisionTraps \/ Pop \/ Jump \/ JumpIfFalse \/ Halt \/ Spin
  <2>1. UNCHANGED stack /\ UNCHANGED objects
    BY <1>17 DEF DivisionTraps, Pop, Jump, JumpIfFalse, Halt, Spin, Takes, Fail, machine
  <2> QED
    BY <2>1, SameCells
<1> QED
  BY <1>3, <1>4, <1>5, <1>6, <1>7, <1>9, <1>10, <1>11, <1>12, <1>13, <1>14, <1>15, <1>16, <1>17
  DEF Instruction

LEMMA ExecuteKeepsObjects ==
  ASSUME Inv, ObjectsExist, NEW module \in Modules, Execute(module)
  PROVE  ObjectsExist'
<1>1. UNCHANGED <<natives, objects>>
  BY DEF Execute
<1>2. CellsKept
  <2>1. CASE Accepts(module) /\ PushFrame(module, << >>, module.entry, 0, 0)
    BY <2>1, PlainValues, PlainRefers DEF PushFrame, CellsKept
  <2> QED
    BY <2>1, FailCells, SameCells DEF Execute
<1>3. RegistryKept
  <2>1. objects \in Nat /\ objects <= objects
    BY DEF Inv, TypeOK
  <2> QED
    BY <1>1, <2>1, AllocationKeepsRegistry DEF Inv
<1> QED
  BY <1>2, <1>3, CellsKeepObjects

LEMMA RegisterKeepsObjects ==
  ASSUME Inv, ObjectsExist, NEW native \in Natives, RegisterNative(native)
  PROVE  ObjectsExist'
<1>1. CellsKept
  BY SameCells DEF RegisterNative, machine
<1>2. objects \in Nat /\ Len(natives) \in Nat /\ natives \in Seq(Entries)
  BY DEF Inv, TypeOK
<1>3. ASSUME natives' = Append(natives, Registered(native, objects')), objects' = objects + 1
      PROVE  RegistryKept
  <2>1. /\ Len(natives') = Len(natives) + 1
        /\ \A i \in 1..Len(natives) : natives'[i] = natives[i]
        /\ natives'[Len(natives) + 1] = Registered(native, objects')
    BY <1>2, <1>3, AppendProperties
  <2>2. natives'[Len(natives) + 1].object = objects'
    BY <2>1 DEF Registered
  <2>3. ASSUME NEW i \in 1..Len(natives')
        PROVE  \/ i \in 1..Len(natives) /\ natives'[i].object = natives[i].object
               \/ natives'[i].object = objects'
    BY <1>2, <2>1, <2>2
  <2>4. \A i \in 1..Len(natives) : natives[i].object \in 1..objects
    BY DEF ObjectsExist
  <2>5. \A i \in 1..Len(natives') : natives'[i].object \in 1..objects'
    BY <1>2, <1>3, <2>3, <2>4
  <2>6. ASSUME NEW k \in StringObjects
        PROVE  k \in StringObjects'
    <3>1. k \in 1..objects /\ \A i \in 1..Len(natives) : natives[i].object # k
      BY DEF StringObjects
    <3>2. k \in 1..objects' /\ k # objects'
      BY <1>2, <1>3, <3>1
    <3>3. \A i \in 1..Len(natives') : natives'[i].object # k
      BY <2>3, <3>1, <3>2
    <3> QED
      BY <3>2, <3>3 DEF StringObjects
  <2>7. Len(natives') \in Nat /\ Len(natives) <= Len(natives')
    BY <1>2, <2>1
  <2> QED
    BY <1>2, <2>5, <2>6, <2>7 DEF RegistryKept
<1>4. ASSUME UNCHANGED <<natives, objects>>
      PROVE  RegistryKept
  BY <1>2, <1>4, AllocationKeepsRegistry DEF Inv
<1> QED
  BY <1>1, <1>3, <1>4, CellsKeepObjects DEF RegisterNative

LEMMA NextKeepsObjects ==
  Inv /\ ObjectsExist /\ [Next]_vars => ObjectsExist'
<1> SUFFICES ASSUME Inv, ObjectsExist, [Next]_vars PROVE ObjectsExist'
  OBVIOUS
<1>1. CASE Instruction
  <2>1. CellsKept /\ objects' \in Nat /\ objects <= objects' /\ natives' = natives
    BY <1>1, InstructionCells, InstructionAllocates DEF Instruction, embedding
  <2>2. RegistryKept
    BY <2>1, AllocationKeepsRegistry DEF Inv
  <2> QED
    BY <2>1, <2>2, CellsKeepObjects
<1>2. CASE \E module \in Modules : Execute(module)
  BY <1>2, ExecuteKeepsObjects
<1>3. CASE \E native \in Natives : RegisterNative(native)
  BY <1>3, RegisterKeepsObjects
<1>4. CASE UNCHANGED vars
  BY <1>4 DEF vars, machine, embedding, ObjectsExist, StringObjects
<1> QED
  BY <1>1, <1>2, <1>3, <1>4 DEF Next

LEMMA InitObjects == Init => ObjectsExist
<1> SUFFICES ASSUME Init PROVE ObjectsExist
  OBVIOUS
<1>1. \A i \in 1..Len(natives) : natives[i].object \in 1..objects
  BY FirstNatives DEF Init
<1>2. \A i \in DOMAIN stack : stack[i].tag \notin {"string", "native"}
  BY DEF Init, Nil
<1> QED
  BY <1>1, <1>2 DEF ObjectsExist

-----------------------------------------------------------------------------
(* How a frame is suspended and resumed.                                   *)

(* Frames below the last one stay as they are. *)
CallersKept ==
  /\ UNCHANGED bc
  /\ Len(frames') <= Len(frames)
  /\ \A i \in 1..Len(frames') :
       /\ frames'[i].function = frames[i].function
       /\ i < Len(frames') => frames'[i].ip = frames[i].ip

LEMMA CallersKeepChain ==
  ASSUME Inv, ResumesBehindCall, CallersKept, frames' \in Seq(Frame)
  PROVE  ResumesBehindCall'
<1>1. /\ Len(frames) \in Nat /\ Len(frames') \in Nat
      /\ Len(frames') <= Len(frames)
  BY DEF Inv, TypeOK, CallersKept
<1>2. ASSUME NEW i \in 1..(Len(frames') - 1)
      PROVE  LET f == FunctionOf(frames[i])'
                 ip == frames'[i].ip
             IN  /\ ip >= 3
                 /\ CodeByte(bc', f, ip - 3) = OP_CALL
                 /\ ReadU16(bc', f, ip - 2) = FunctionOf(frames[i + 1])'.arity
  <2>1. /\ i \in 1..(Len(frames) - 1) /\ i \in 1..Len(frames') /\ i < Len(frames')
        /\ i + 1 \in 1..Len(frames')
    BY <1>1
  <2>2. FunctionOf(frames[i])' = FunctionOf(frames[i])
    BY <2>1 DEF FunctionOf, CallersKept
  <2>3. FunctionOf(frames[i + 1])' = FunctionOf(frames[i + 1])
    BY <2>1 DEF FunctionOf, CallersKept
  <2>4. frames'[i].ip = frames[i].ip /\ bc' = bc
    BY <2>1 DEF CallersKept
  <2> QED
    BY <2>1, <2>2, <2>3, <2>4 DEF ResumesBehindCall
<1> QED
  BY <1>2 DEF ResumesBehindCall

LEMMA FrameIp ==
  ASSUME NEW frame \in Frame, NEW j \in Nat
  PROVE  /\ [frame EXCEPT !.ip = j] \in Frame
         /\ [frame EXCEPT !.ip = j].function = frame.function
         /\ [frame EXCEPT !.ip = j].slots = frame.slots
         /\ [frame EXCEPT !.ip = j].ip = j
BY DEF Frame

(* Moving the ip of the last frame. *)
LEMMA SetIpCallers ==
  ASSUME Inv, Running, UNCHANGED embedding, NEW j \in Nat,
         frames' = [frames EXCEPT ![Len(frames)].ip = j]
  PROVE  CallersKept
<1>1. frames \in Seq(Frame) /\ Len(frames) \in Nat
  BY DEF Inv, TypeOK
<1>2. DOMAIN frames = 1..Len(frames)
  BY <1>1, LenProperties
<1>3. Len(frames') = Len(frames) /\ DOMAIN frames' = DOMAIN frames
  BY <1>1, <1>2
<1>4. \A i \in 1..Len(frames) : frames[i] \in Frame
  BY <1>1
<1>5. \A i \in 1..Len(frames) : frames'[i] = IF i = Len(frames)
                                             THEN [frames[i] EXCEPT !.ip = j] ELSE frames[i]
  BY <1>1, <1>2
<1>6. \A i \in 1..Len(frames) : /\ frames'[i].function = frames[i].function
                                /\ i < Len(frames) => frames'[i].ip = frames[i].ip
  <2> TAKE i \in 1..Len(frames)
  <2>1. CASE i = Len(frames)
    BY <1>1, <1>4, <1>5, <2>1, FrameIp
  <2>2. CASE i # Len(frames)
    BY <1>1, <1>5, <2>2
  <2> QED
    BY <2>1, <2>2
<1>7. UNCHANGED bc
  BY DEF embedding, bc
<1> QED
  BY <1>1, <1>3, <1>6, <1>7 DEF CallersKept

LEMMA SameCallers ==
  ASSUME Inv, UNCHANGED <<frames, loaded>>
  PROVE  CallersKept
BY DEF CallersKept, bc, Inv, TypeOK

(* The instruction pushes a frame on the frame of a call. *)
LEMMA CallKeepsChain ==
  ASSUME Inv, ResumesBehindCall, UNCHANGED embedding, CallFunction,
         NEW new \in Frame, frames' = Append(Advance, new), new.function = Callee.as,
         IsFunction, CalleeFunction.arity = Operand
  PROVE  ResumesBehindCall'
<1>1. /\ Fetch({OP_CALL}) /\ Fetch(Supported) /\ Running /\ ~Truncated
      /\ Opcode = OP_CALL /\ Current.ip < Fn.code_size
  BY FetchFacts DEF CallFunction, Supported, ReadsOperand, Fetch
<1>2. /\ frames \in Seq(Frame) /\ Len(frames) \in Nat \ {0}
      /\ Current \in Frame /\ Current = frames[Len(frames)]
  BY <1>1, CurrentFacts DEF Inv, TypeOK, Current
<1>3. Width(Opcode) = 3
  BY <1>1 DEF Width, HasOperand
<1>10. Current \in Frame /\ Current.ip \in Nat /\ Current.ip + 3 \in Nat
  BY <1>1, CurrentFacts DEF Frame
<1>4. /\ Advance \in Seq(Frame) /\ Len(Advance) = Len(frames)
      /\ \A i \in 1..Len(frames) : Advance[i] = IF i = Len(frames)
                                               THEN [Current EXCEPT !.ip = @ + 3]
                                               ELSE frames[i]
  <2>1. Advance = [frames EXCEPT ![Len(frames)] = [Current EXCEPT !.ip = @ + 3]]
    BY <1>3 DEF Advance, Current
  <2>2. [Current EXCEPT !.ip = @ + 3] \in Frame
    BY <1>10, FrameIp
  <2> QED
    BY <1>2, <2>1, <2>2, ExceptSeq
<1>5. /\ Len(frames') = Len(frames) + 1
      /\ \A i \in 1..Len(frames) : frames'[i] = Advance[i]
      /\ frames'[Len(frames) + 1] = new
  BY <1>4, AppendProperties
<1>6. bc' = bc
  BY DEF embedding, bc
<1> DEFINE Resumes(f, ip, g) == /\ ip >= 3
                                /\ CodeByte(bc, f, ip - 3) = OP_CALL
                                /\ ReadU16(bc, f, ip - 2) = g.arity
<1>7. ASSUME NEW i \in 1..(Len(frames) - 1)
      PROVE  Resumes(FunctionOf(frames'[i]), frames'[i].ip, FunctionOf(frames'[i + 1]))
  <2>1. /\ i \in 1..Len(frames) /\ i # Len(frames) /\ i + 1 \in 1..Len(frames)
    BY <1>2
  <2>2. frames'[i] = frames[i]
    BY <2>1, <1>4, <1>5
  <2>3. frames'[i + 1].function = frames[i + 1].function
    <3>1. CASE i + 1 = Len(frames)
      <4>1. frames'[i + 1] = [Current EXCEPT !.ip = @ + 3]
        BY <3>1, <2>1, <1>4, <1>5
      <4>2. frames'[i + 1].function = Current.function
        BY <4>1, <1>10, FrameIp
      <4> QED
        BY <3>1, <4>2 DEF Current
    <3>2. CASE i + 1 # Len(frames)
      BY <3>2, <2>1, <1>4, <1>5
    <3> QED
      BY <3>1, <3>2
  <2> QED
    BY <2>2, <2>3 DEF ResumesBehindCall, FunctionOf
<1>8. Resumes(FunctionOf(frames'[Len(frames)]), frames'[Len(frames)].ip,
              FunctionOf(frames'[Len(frames) + 1]))
  <2>1. frames'[Len(frames)] = [Current EXCEPT !.ip = @ + 3]
    BY <1>2, <1>4, <1>5, SMTT(30)
  <2>2. FunctionOf(frames'[Len(frames)]) = Fn /\ frames'[Len(frames)].ip = Current.ip + 3
    BY <1>10, <2>1, FrameIp DEF Fn, FunctionOf
  <2>3. FunctionOf(frames'[Len(frames) + 1]) = CalleeFunction
    BY <1>5 DEF FunctionOf, CalleeFunction
  <2>4. CodeByte(bc, Fn, Current.ip) = OP_CALL /\ ReadU16(bc, Fn, Current.ip + 1) = Operand
    BY <1>1 DEF Opcode, Operand
  <2>5. Resumes(Fn, Current.ip + 3, CalleeFunction)
    <3>1. ASSUME NEW ip \in Nat, NEW next, next = ip + 3, Current.ip = ip
          PROVE  Resumes(Fn, next, CalleeFunction)
      <4>1. next >= 3 /\ next - 3 = ip /\ next - 2 = ip + 1
        BY <3>1
      <4> QED
        BY <2>4, <3>1, <4>1, Zenon
    <3> HIDE DEF Resumes
    <3> QED
      BY <1>10, <3>1
  <2> HIDE DEF Resumes
  <2> QED
    BY <2>2, <2>3, <2>5, Zenon
<1>9. \A i \in 1..(Len(frames') - 1) :
        Resumes(FunctionOf(frames'[i]), frames'[i].ip, FunctionOf(frames'[i + 1]))
  <2>1. Len(frames') - 1 = Len(frames)
    BY <1>2, <1>5
  <2>2. \A i \in 1..Len(frames) : i \in 1..(Len(frames) - 1) \/ i = Len(frames)
    BY <1>2
  <2> HIDE DEF Resumes
  <2> QED
    BY <1>7, <1>8, <2>1, <2>2
<1> QED
  BY <1>6, <1>9 DEF ResumesBehindCall, FunctionOf

(* A return, the last one of the run included, leaves the callers as they were. *)
LEMMA ReturnCallers ==
  ASSUME Inv, Running, UNCHANGED embedding, frames' = SubSeq(frames, 1, Len(frames) - 1)
  PROVE  CallersKept
<1>1. frames \in Seq(Frame) /\ Len(frames) \in Nat \ {0} /\ Len(frames) \in 1..FramesMax
  BY CurrentFacts DEF Inv, TypeOK, FramesInBounds
<1>2. \A i \in 1..(Len(frames) - 1) : frames[i] \in Frame
  BY <1>1
<1> DEFINE rest == SubSeq(frames, 1, Len(frames) - 1)
<1>3. /\ Len(rest) = IF 1 <= Len(frames) - 1 THEN Len(frames) - 1 - 1 + 1 ELSE 0
      /\ \A i \in 1..(Len(frames) - 1 - 1 + 1) : rest[i] = frames[1 + i - 1]
  <2>1. 1 \in Int /\ Len(frames) - 1 \in Int
    BY <1>1
  <2> QED
    BY <1>2, <2>1, SubSeqProperties
<1> HIDE DEF rest
<1>4. Len(frames) - 1 - 1 + 1 = Len(frames) - 1 /\ \A i \in 1..Len(frames) : 1 + i - 1 = i
  BY <1>1
<1>5. Len(rest) = Len(frames) - 1
  <2>1. CASE Len(frames) = 1
    BY <2>1, <1>3
  <2>2. CASE Len(frames) # 1
    <3>1. 1 <= Len(frames) - 1
      BY <1>1, <2>2, CallersFrames, Zenon
    <3> QED
      BY <3>1, <1>3, <1>4, Zenon
  <2> QED
    BY <2>1, <2>2
<1>6. \A i \in 1..(Len(frames) - 1) : rest[i] = frames[i]
  BY <1>1, <1>3
<1>7. UNCHANGED bc
  BY DEF embedding, bc
<1> QED
  BY <1>1, <1>5, <1>6, <1>7 DEF CallersKept, rest

LEMMA AdvanceCallers ==
  ASSUME Inv, Fetch(Supported), UNCHANGED embedding, frames' = Advance
  PROVE  CallersKept
<1>1. Current.ip + Width(Opcode) \in Nat
  BY CurrentFacts, InstructionFacts DEF Fetch, Frame
<1>2. frames' = [frames EXCEPT ![Len(frames)].ip = Current.ip + Width(Opcode)]
  BY DEF Advance, Current
<1> QED
  BY <1>1, <1>2, SetIpCallers DEF Fetch

LEMMA FailCallers ==
  ASSUME Inv, UNCHANGED embedding, NEW message, Fail(message)
  PROVE  CallersKept
BY SameCallers DEF Fail, machine, embedding

LEMMA ReplaceCallers ==
  ASSUME Inv, Fetch(Supported), UNCHANGED embedding, NEW n, NEW v, Replace(n, v)
  PROVE  CallersKept
BY AdvanceCallers DEF Replace

LEMMA PushCallers ==
  ASSUME Inv, Fetch(Supported), UNCHANGED embedding, NEW v, Push(v)
  PROVE  CallersKept
BY ReplaceCallers, FailCallers DEF Push

(* The instruction is a call that succeeds: it pushes a frame. *)
Calls ==
  /\ CallFunction
  /\ IsFunction /\ CalleeFunction.arity = Operand
  /\ FrameError(bc, frames, Callee.as, CalleeSlots) = NoText
  /\ PushFrame(bc, Advance, Callee.as, CalleeSlots, top)

(* Nothing but such a call adds a frame or touches a caller. *)
LEMMA InstructionCallers ==
  ASSUME Inv, Instruction
  PROVE  CallersKept \/ Calls
<1>1. UNCHANGED embedding
  BY DEF Instruction
<1>2. CASE ConstantInt \/ ConstantString \/ PushLiteral \/ GetGlobal \/ GetLocal
  <2>1. Fetch(Supported)
    BY <1>2, FetchFacts DEF ConstantInt, ConstantString, PushLiteral, GetGlobal, GetLocal,
       Supported, ReadsOperand
  <2>2. \/ \E message : Fail(message)
        \/ \E v : Push(v)
    BY <1>2 DEF ConstantInt, ConstantString, PushLiteral, GetGlobal, GetLocal
  <2> QED
    BY <1>1, <2>1, <2>2, PushCallers, FailCallers
<1>3. CASE SetLocal \/ Pop
  <2>1. Fetch(Supported)
    BY <1>3, FetchFacts DEF SetLocal, Pop, Supported, ReadsOperand
  <2>2. \/ \E message : Fail(message)
        \/ frames' = Advance
    BY <1>3 DEF SetLocal, Pop, Takes
  <2> QED
    BY <1>1, <2>1, <2>2, AdvanceCallers, FailCallers
<1>4. CASE \/ ArithmeticInt \/ ArithmeticOther \/ Comparison \/ Equality \/ Not \/ Negate
  <2>1. Fetch(Supported)
    BY <1>4, FetchFacts DEF ArithmeticInt, ArithmeticOther, Comparison, Equality, Not, Negate,
       Supported, ReadsOperand
  <2>2. \/ \E message : Fail(message)
        \/ \E n, v : Replace(n, v)
    BY <1>4 DEF ArithmeticInt, ArithmeticOther, Comparison, Equality, Not, Negate, Takes
  <2> QED
    BY <1>1, <2>1, <2>2, ReplaceCallers, FailCallers
<1>5. CASE Jump \/ JumpIfFalse
  <2>1. Fetch(Supported) /\ Running /\ Operand \in Nat
    BY <1>5, FetchFacts DEF Jump, JumpIfFalse, Supported, ReadsOperand, Fetch
  <2>2. \/ \E message : Fail(message)
        \/ frames' = Advance
        \/ frames' = [frames EXCEPT ![Len(frames)].ip = Operand]
        \/ UNCHANGED frames
    BY <1>5 DEF Jump, JumpIfFalse, Takes
  <2> QED
    BY <1>1, <2>1, <2>2, AdvanceCallers, SetIpCallers, FailCallers, SameCallers DEF embedding
<1>6. CASE CallNative
  <2>1. Fetch(Supported)
    BY <1>6, FetchFacts DEF CallNative, Supported, ReadsOperand
  <2>2. \/ \E message : Fail(message)
        \/ \E n, v : Replace(n, v)
        \/ UNCHANGED machine
    BY <1>6 DEF CallNative, CallFails
  <2> QED
    BY <1>1, <2>1, <2>2, ReplaceCallers, FailCallers, SameCallers DEF embedding, machine
<1>7. CASE Return
  <2>1. Running
    BY <1>7 DEF Return, Fetch
  <2>2. \/ \E message : Fail(message)
        \/ frames' = SubSeq(frames, 1, Len(frames) - 1)
    BY <1>7 DEF Return, Takes
  <2> QED
    BY <1>1, <2>1, <2>2, ReturnCallers, FailCallers
<1>8. CASE CallFunction
  BY <1>1, <1>8, FailCallers DEF CallFunction, Calls
<1>9. CASE \/ TruncatedOperand \/ DivisionTraps \/ Call \/ Halt \/ Unsupported \/ Spin
  <2>1. UNCHANGED machine
    BY <1>9 DEF TruncatedOperand, DivisionTraps, Call, CallFails, Halt, Unsupported, Spin, Fail
  <2> QED
    BY <1>1, <2>1, SameCallers DEF embedding, machine
<1> QED
  BY <1>2, <1>3, <1>4, <1>5, <1>6, <1>7, <1>8, <1>9 DEF Instruction

(* The frame such a call pushes. *)
LEMMA CallFrame ==
  ASSUME Inv, Calls
  PROVE  LET new == [function |-> Callee.as, ip |-> 0, slots |-> CalleeSlots]
         IN  /\ new \in Frame
             /\ frames' = Append(Advance, new)
             /\ Len(frames') = Len(frames) + 1 /\ Len(frames) \in Nat \ {0}
             /\ frames'[Len(frames')] = new
<1>1. /\ Fetch({OP_CALL}) /\ Fetch(Supported) /\ Running /\ Operand \in Nat
      /\ top > Operand
  BY FetchFacts DEF Calls, CallFunction, Supported, ReadsOperand, Fetch
<1>2. Callee.as \in Nat /\ CalleeSlots \in Nat
  BY <1>1 DEF Calls, IsFunction, CalleeSlots, Inv, TypeOK
<1> DEFINE new == [function |-> Callee.as, ip |-> 0, slots |-> CalleeSlots]
<1>3. new \in Frame
  BY <1>2 DEF Frame
<1>4. frames' = Append(Advance, new)
  BY DEF Calls, PushFrame
<1>5. Advance \in Seq(Frame) /\ Len(Advance) = Len(frames) /\ Len(frames) \in Nat \ {0}
  <2>1. /\ frames \in Seq(Frame) /\ Len(frames) \in Nat \ {0}
        /\ Current \in Frame /\ Current.ip + Width(Opcode) \in Nat
    <3>1. Current.ip \in Nat /\ Current.ip < Fn.code_size /\ Width(Opcode) \in Nat
      BY <1>1, CurrentFacts, InstructionFacts DEF Frame, Fetch
    <3>2. frames \in Seq(Frame)
      BY DEF Inv, TypeOK
    <3>3. Len(frames) \in Nat \ {0} /\ Current \in Frame
      BY <1>1, CurrentFacts
    <3>4. Current.ip + Width(Opcode) \in Nat
      BY <3>1
    <3> QED
      BY <3>2, <3>3, <3>4
  <2>2. Advance = [frames EXCEPT ![Len(frames)] =
                     [Current EXCEPT !.ip = Current.ip + Width(Opcode)]]
    BY DEF Advance, Current
  <2>3. [Current EXCEPT !.ip = Current.ip + Width(Opcode)] \in Frame
    BY <2>1, FrameIp
  <2> QED
    BY <2>1, <2>2, <2>3, ExceptSeq
<1> HIDE DEF new
<1>6. Len(frames') = Len(frames) + 1 /\ frames'[Len(frames')] = new
  BY <1>3, <1>4, <1>5, AppendProperties
<1> QED
  BY <1>3, <1>4, <1>5, <1>6 DEF new

(* Execution starts with one frame, or none. *)
LEMMA ExecuteFrames ==
  ASSUME Inv, NEW module \in Modules, Execute(module)
  PROVE  \/ /\ status' = "error"
            /\ UNCHANGED <<frames, loaded>>
         \/ status' = "error" /\ frames' = << >>
         \/ /\ loaded' = <<module>>
            /\ Len(frames') = 1
            /\ frames'[1] = [function |-> module.entry, ip |-> 0, slots |-> 0]
            /\ Accepts(module)
            /\ FrameError(module, << >>, module.entry, 0) = NoText
            /\ PushFrame(module, << >>, module.entry, 0, 0)
<1>1. CASE ~Accepts(module)
  BY <1>1 DEF Execute, Fail, machine
<1>2. CASE Accepts(module) /\ FrameError(module, << >>, module.entry, 0) # NoText
  BY <1>2 DEF Execute
<1>3. CASE /\ Accepts(module)
           /\ FrameError(module, << >>, module.entry, 0) = NoText
           /\ PushFrame(module, << >>, module.entry, 0, 0)
  <2> DEFINE new == [function |-> module.entry, ip |-> 0, slots |-> 0]
  <2>1. frames' = Append(<< >>, new)
    BY <1>3 DEF PushFrame
  <2>2. << >> \in Seq({new}) /\ Len(<< >>) = 0
    BY EmptySeq
  <2>3. Len(frames') = 1 /\ frames'[1] = new
    <3> HIDE DEF new
    <3> QED
      BY <2>1, <2>2, AppendProperties
  <2> QED
    BY <1>3, <2>3 DEF Execute
<1> QED
  BY <1>1, <1>2, <1>3 DEF Execute

LEMMA NextKeepsChain ==
  Inv /\ ResumesBehindCall /\ [Next]_vars => ResumesBehindCall'
<1> SUFFICES ASSUME Inv, ResumesBehindCall, [Next]_vars PROVE ResumesBehindCall'
  OBVIOUS
<1>1. frames' \in Seq(Frame)
  BY NextInv DEF Inv, TypeOK
<1>2. CASE Instruction
  <2>1. CASE CallersKept
    BY <1>1, <2>1, CallersKeepChain
  <2>2. CASE Calls
    BY <1>2, <2>2, CallFrame, CallKeepsChain DEF Instruction, Calls
  <2> QED
    BY <1>2, <2>1, <2>2, InstructionCallers
<1>3. CASE \E module \in Modules : Execute(module)
  <2>1. CASE Len(frames') = 1 \/ frames' = << >>
    BY <2>1, EmptySeq DEF ResumesBehindCall
  <2>2. CASE UNCHANGED <<frames, loaded>>
    BY <2>2 DEF ResumesBehindCall, bc, FunctionOf
  <2> QED
    BY <1>3, <2>1, <2>2, ExecuteFrames
<1>4. CASE (\E native \in Natives : RegisterNative(native)) \/ UNCHANGED vars
  <2>1. UNCHANGED <<frames, loaded>>
    BY <1>4 DEF RegisterNative, machine, vars, embedding
  <2> QED
    BY <2>1 DEF ResumesBehindCall, bc, FunctionOf
<1> QED
  BY <1>2, <1>3, <1>4 DEF Next

LEMMA InitChain == Init => ResumesBehindCall
BY EmptySeq DEF Init, ResumesBehindCall

(* What a step that pushes a frame leaves in its cells. *)
FreshStep ==
  NewFrame /\ frames' # << >> /\ status' = "running" =>
    LET new == frames'[Len(frames')]
        f == loaded'[1].functions[new.function + 1]
    IN  \A k \in 0..(f.local_count - 1) :
          stack'[new.slots + k] =
            IF Len(frames') > 1 /\ k <= f.arity THEN stack[new.slots + k] ELSE Nil

LEMMA CallsFresh ==
  ASSUME Inv, Inv', Calls, UNCHANGED embedding
  PROVE  FreshStep
<1> DEFINE f == CalleeFunction
<1>1. /\ Len(frames') = Len(frames) + 1 /\ Len(frames) \in Nat \ {0}
      /\ frames'[Len(frames')] = [function |-> Callee.as, ip |-> 0, slots |-> CalleeSlots]
  BY CallFrame
<1>2. loaded'[1].functions[Callee.as + 1] = f
  BY DEF embedding, CalleeFunction, bc
<1>3. /\ Operand \in Nat /\ top \in 0..StackMax /\ top > Operand
      /\ stack \in [0..(StackMax - 1) -> Value]
      /\ f.arity = Operand
  BY FetchFacts DEF Calls, CallFunction, Supported, ReadsOperand, Fetch, Inv, TypeOK
<1>4. f.local_count \in Nat
  <2>1. bc \in Loadable /\ Callee.as + 1 \in 1..Len(bc.functions)
    <3>1. Fetch({OP_CALL}) /\ Running /\ Callee.as \in 0..(Len(bc.functions) - 1)
      BY DEF Calls, CallFunction, Fetch, IsFunction
    <3>2. bc \in Loadable
      BY <3>1, CurrentFacts
    <3>3. Len(bc.functions) \in Nat
      BY <3>2, ModulesAssumption DEF Loadable, Bytecode
    <3> QED
      BY <3>1, <3>2, <3>3
  <2> QED
    BY <2>1, FunctionFacts DEF CalleeFunction, Function
<1>5. CalleeSlots + f.local_count <= StackMax
  BY <1>3, <1>4 DEF Calls, FrameError, CalleeFunction, NoText
<1>6. stack' = [i \in DOMAIN stack |->
                  IF top <= i /\ i < CalleeSlots + f.local_count THEN Nil ELSE stack[i]]
  BY DEF Calls, PushFrame, CalleeFunction
<1> HIDE DEF f
<1>7. ASSUME NEW k \in 0..(f.local_count - 1)
      PROVE  stack'[CalleeSlots + k] = IF k <= f.arity THEN stack[CalleeSlots + k] ELSE Nil
  <2>1. CalleeSlots = top - Operand - 1
    BY DEF CalleeSlots
  <2>2. /\ CalleeSlots + k \in 0..(StackMax - 1)
        /\ CalleeSlots + k < CalleeSlots + f.local_count
        /\ k <= f.arity <=> ~(top <= CalleeSlots + k)
    BY <1>3, <1>4, <1>5, <2>1
  <2> QED
    BY <1>3, <1>6, <2>2
<1>8. Len(frames') > 1
  BY <1>1
<1> QED
  BY <1>1, <1>2, <1>7, <1>8 DEF FreshStep

(* The function an execution starts with. *)
LEMMA EntryFacts ==
  ASSUME NEW module \in Modules, Accepts(module),
         FrameError(module, << >>, module.entry, 0) = NoText
  PROVE  LET f == module.functions[module.entry + 1]
         IN  f.local_count \in Nat /\ f.local_count <= StackMax
<1>1. /\ module \in Loadable
      /\ module.entry + 1 \in 1..Len(module.functions)
  BY ModulesAssumption DEF Loadable, Accepts, ValidModule, Bytecode
<1>2. module.functions[module.entry + 1].local_count \in Nat
  BY <1>1, FunctionFacts DEF Function
<1>3. ~(0 + module.functions[module.entry + 1].local_count > StackMax)
  BY EmptySeq DEF FrameError, NoText
<1> QED
  BY <1>2, <1>3

LEMMA ExecuteFresh ==
  ASSUME Inv, NEW module \in Modules, Execute(module)
  PROVE  FreshStep
<1> SUFFICES ASSUME status' = "running" PROVE FreshStep
  BY DEF FreshStep
<1>1. /\ loaded' = <<module>> /\ Len(frames') = 1
      /\ frames'[1] = [function |-> module.entry, ip |-> 0, slots |-> 0]
      /\ Accepts(module)
      /\ FrameError(module, << >>, module.entry, 0) = NoText
      /\ PushFrame(module, << >>, module.entry, 0, 0)
  BY ExecuteFrames
<1> DEFINE f == module.functions[module.entry + 1]
<1>2. f.local_count \in Nat /\ f.local_count <= StackMax
  BY <1>1, EntryFacts
<1>3. stack' = [i \in DOMAIN stack |-> IF 0 <= i /\ i < f.local_count THEN Nil ELSE stack[i]]
  BY <1>1, <1>2 DEF PushFrame
<1>4. stack \in [0..(StackMax - 1) -> Value]
  BY DEF Inv, TypeOK
<1> HIDE DEF f
<1>5. \A k \in 0..(f.local_count - 1) : stack'[0 + k] = Nil
  <2> TAKE k \in 0..(f.local_count - 1)
  <2>1. 0 + k = k /\ k \in 0..(StackMax - 1) /\ 0 <= k /\ k < f.local_count
    BY <1>2
  <2> QED
    BY <1>3, <1>4, <2>1
<1> QED
  BY <1>1, <1>5 DEF FreshStep, f

LEMMA NextFresh ==
  Inv /\ Inv' /\ [Next]_vars => FreshStep
<1> SUFFICES ASSUME Inv, Inv', [Next]_vars PROVE FreshStep
  OBVIOUS
<1>1. CASE Instruction
  <2>1. CASE CallersKept
    <3>1. Len(frames) \in Nat /\ Len(frames') \in Nat
      BY DEF Inv, TypeOK
    <3>2. ~NewFrame
      BY <1>1, <2>1, <3>1 DEF CallersKept, NewFrame, Instruction, embedding
    <3> QED
      BY <3>2 DEF FreshStep
  <2>2. CASE Calls
    BY <1>1, <2>2, CallsFresh DEF Instruction
  <2> QED
    BY <1>1, <2>1, <2>2, InstructionCallers
<1>2. CASE \E module \in Modules : Execute(module)
  BY <1>2, ExecuteFresh
<1>3. CASE (\E native \in Natives : RegisterNative(native)) \/ UNCHANGED vars
  <2>1. UNCHANGED <<frames, executions>>
    BY <1>3 DEF RegisterNative, machine, vars, embedding
  <2>2. Len(frames) \in Nat
    BY DEF Inv, TypeOK
  <2> QED
    BY <2>1, <2>2 DEF FreshStep, NewFrame
<1> QED
  BY <1>1, <1>2, <1>3 DEF Next

-----------------------------------------------------------------------------
(* The results.  Each invariant is inductive next to Inv.                  *)

(* Nothing is freed before hvm_destroy, and no instruction makes up a
   reference: what a cell of the stack refers to, stale cells above stack_top
   included, was allocated (hvm_string_new, hvm_register_native). *)
THEOREM ObjectsAlwaysExist == Spec => []ObjectsExist
<1>1. Init => Inv /\ ObjectsExist
  BY InitInv, InitObjects
<1>2. Inv /\ ObjectsExist /\ [Next]_vars => Inv' /\ ObjectsExist'
  BY NextInv, NextKeepsObjects
<1> QED
  BY <1>1, <1>2, PTL DEF Spec

(* A frame starts with its arguments where the caller pushed them and every
   other local nil, whatever the array held before (hvm_push_frame). *)
THEOREM NewFramesFresh == Spec => FreshLocals
<1>1. Init => Inv
  BY InitInv
<1>2. Inv /\ [Next]_vars => Inv'
  BY NextInv
<1>3. Inv /\ Inv' /\ [Next]_vars => [FreshStep]_vars
  BY NextFresh
<1> QED
  BY <1>1, <1>2, <1>3, PTL DEF Spec, FreshLocals, FreshStep

-----------------------------------------------------------------------------
(* The stack discipline.  The invariant: every frame is at a point of the  *)
(* flow of its function; a suspended one will be, when the frame above it  *)
(* has put its result into its own slot zero.                              *)

At(module, frame, t) ==
  LET f == module.functions[frame.function + 1]
  IN  <<frame.ip, t - frame.slots - f.local_count>> \in Flow(module, f)

(* It waits for the result of a call that pushed the callee and the arguments
   above its locals, from slot zero of that callee on. *)
Suspended(module, frame, slots) ==
  /\ At(module, frame, slots + 1)
  /\ frame.slots + module.functions[frame.function + 1].local_count <= slots

StackedBy(module, frs, t) ==
  /\ At(module, frs[Len(frs)], t)
  /\ \A i \in 1..(Len(frs) - 1) : Suspended(module, frs[i], frs[i + 1].slots)

Stacked == Running => \/ StackedBy(bc, frames, top) \/ ~Disciplined(bc)

(* The opcodes that go on at the next instruction. *)
Sequential == Supported \ {OP_JUMP, OP_JUMP_IF_FALSE, OP_RETURN, OP_HALT}
Pushing == {OP_CONSTANT, OP_NIL, OP_TRUE, OP_FALSE, OP_GET_GLOBAL, OP_GET_LOCAL}

Taken == Consumed(bc, Fn, Current.ip)
Given == Produced(bc, Fn, Current.ip)
Behind == Successors(bc, Fn, Current.ip)

(* What the flow says of the instruction that runs. *)
LEMMA Effects ==
  /\ Opcode \in Pushing => Taken = 0 /\ Given = 1
  /\ Opcode \in {OP_NOT, OP_NEGATE, OP_SET_LOCAL} => Taken = 1 /\ Given = 1
  /\ Opcode \in BinaryOps => Taken = 2 /\ Given = 1
  /\ Opcode = OP_POP => Taken = 1 /\ Given = 0
  /\ Opcode = OP_JUMP_IF_FALSE =>
       /\ Taken = 1 /\ Given = 0
       /\ Behind = {Operand, Current.ip + 3}
  /\ Opcode = OP_JUMP => /\ Taken = 0 /\ Given = 0
                         /\ Behind = {Operand}
  /\ Opcode = OP_CALL => Taken = Operand + 1 /\ Given = 1
  /\ Opcode = OP_RETURN => Taken = 1
  /\ Opcode \in Sequential => Behind = {Current.ip + Width(Opcode)}
<1> USE DEF Taken, Given, Behind, Opcode, Operand, Pushing, Sequential, BinaryOps,
        OP_CONSTANT, OP_GET_GLOBAL, OP_GET_LOCAL, OP_SET_LOCAL, OP_JUMP, OP_JUMP_IF_FALSE, OP_CALL,
        OP_NIL, OP_TRUE, OP_FALSE, OP_POP, OP_ADD, OP_SUB, OP_MUL, OP_DIV, OP_NEGATE, OP_NOT,
        OP_EQ, OP_NE, OP_LT, OP_LE, OP_GT, OP_GE, OP_RETURN, OP_HALT
<1>1. /\ Opcode \in Pushing => Taken = 0
      /\ Opcode \in {OP_NOT, OP_NEGATE, OP_SET_LOCAL} => Taken = 1
      /\ Opcode \in BinaryOps => Taken = 2
      /\ Opcode = OP_POP => Taken = 1
      /\ Opcode = OP_JUMP_IF_FALSE => Taken = 1
      /\ Opcode = OP_JUMP => Taken = 0
      /\ Opcode = OP_CALL => Taken = Operand + 1
      /\ Opcode = OP_RETURN => Taken = 1
  BY DEF Consumed
<1>2. /\ Opcode \in Pushing => Given = 1
      /\ Opcode \in {OP_NOT, OP_NEGATE, OP_SET_LOCAL} => Given = 1
      /\ Opcode \in BinaryOps => Given = 1
      /\ Opcode = OP_POP => Given = 0
      /\ Opcode = OP_JUMP_IF_FALSE => Given = 0
      /\ Opcode = OP_JUMP => Given = 0
      /\ Opcode = OP_CALL => Given = 1
  BY DEF Produced
<1>3. /\ OP_JUMP \notin {OP_RETURN, OP_HALT} \union (0..255 \ Supported)
      /\ OP_JUMP_IF_FALSE \notin {OP_RETURN, OP_HALT} \union (0..255 \ Supported)
      /\ OP_JUMP # OP_JUMP_IF_FALSE
  BY DEF Supported, ReadsOperand
<1>4. /\ Opcode = OP_JUMP_IF_FALSE => Behind = {Operand, Current.ip + 3}
      /\ Opcode = OP_JUMP => Behind = {Operand}
  <2> HIDE DEF OP_JUMP, OP_JUMP_IF_FALSE, OP_RETURN, OP_HALT
  <2> QED
    BY <1>3 DEF Successors
<1>5. ASSUME Opcode \in Sequential
      PROVE  Behind = {Current.ip + Width(Opcode)}
  <2>1. Opcode # OP_JUMP /\ Opcode # OP_JUMP_IF_FALSE
    BY <1>5
  <2>2. Opcode \notin {OP_RETURN, OP_HALT} \union (0..255 \ Supported)
    BY <1>5
  <2> HIDE DEF OP_JUMP, OP_JUMP_IF_FALSE, OP_RETURN, OP_HALT, Opcode, Operand
  <2> QED
    BY <2>1, <2>2 DEF Successors, Opcode
<1> QED
  BY <1>1, <1>2, <1>4, <1>5, Zenon

(* Every cell below the frame keeps its value. *)
CallersCells == \A k \in 0..(Current.slots - 1) : stack'[k] = stack[k]

(* The instruction finds its operands above the locals. *)
Enough == /\ Taken \in Nat
          /\ top - Taken >= Current.slots + Fn.local_count

(* The instruction goes on at j, its operands replaced by its results. *)
Moves(j) ==
  /\ frames' = [frames EXCEPT ![Len(frames)].ip = j]
  /\ top' = top - Taken + Given

(* What the flow promises of an instruction that neither calls nor returns. *)
InFrame ==
  /\ CallersCells
  /\ status' = "running" => \E j \in Behind : Moves(j)

LEMMA FrameType ==
  ASSUME Inv, Running
  PROVE  /\ Current.slots \in Nat /\ Fn.local_count \in Nat /\ Current.ip \in Nat
         /\ top \in Nat /\ top <= StackMax /\ StackMax \in Nat
         /\ DOMAIN stack = 0..(StackMax - 1)
         /\ Current.slots + Fn.local_count <= StackMax
BY CurrentFacts DEF Frame, Function, Inv, TypeOK

LEMMA SameCallersCells == UNCHANGED stack => CallersCells
BY DEF CallersCells

LEMMA WriteAbove ==
  ASSUME Inv, Running, NEW c \in Int, c >= Current.slots, NEW v,
         stack' = [stack EXCEPT ![c] = v]
  PROVE  CallersCells
<1>1. Current.slots \in Nat /\ stack \in [0..(StackMax - 1) -> Value]
  BY FrameType DEF Inv, TypeOK
<1>2. \A k \in 0..(Current.slots - 1) : k # c
  BY <1>1
<1> QED
  BY <1>1, <1>2 DEF CallersCells

LEMMA FailInFrame ==
  ASSUME NEW message, Fail(message)
  PROVE  InFrame
BY SameCallersCells DEF Fail, machine, InFrame

LEMMA StopInFrame ==
  ASSUME UNCHANGED stack, status' # "running"
  PROVE  InFrame
BY SameCallersCells DEF InFrame

LEMMA AdvanceMoves ==
  ASSUME Opcode \in Sequential, frames' = Advance, top' = top - Taken + Given
  PROVE  \E j \in Behind : Moves(j)
<1>1. Current.ip + Width(Opcode) \in Behind
  BY Effects
<1>2. frames' = [frames EXCEPT ![Len(frames)].ip = Current.ip + Width(Opcode)]
  BY DEF Advance, Current
<1>3. Moves(Current.ip + Width(Opcode))
  BY <1>2 DEF Moves
<1> QED
  BY <1>1, <1>3

LEMMA ReplaceInFrame ==
  ASSUME Inv, Running, Enough, Opcode \in Sequential, Given = 1, NEW v, Replace(Taken, v)
  PROVE  InFrame
<1>1. /\ Current.slots \in Nat /\ Fn.local_count \in Nat /\ top \in Nat /\ Taken \in Nat
      /\ top - Taken >= Current.slots + Fn.local_count
  BY FrameType DEF Enough
<1>2. top - Taken \in Int /\ top - Taken >= Current.slots
  BY <1>1
<1>3. CallersCells
  BY <1>2, WriteAbove DEF Replace
<1>4. \E j \in Behind : Moves(j)
  BY AdvanceMoves DEF Replace
<1> QED
  BY <1>3, <1>4 DEF InFrame

LEMMA PushInFrame ==
  ASSUME Inv, Running, Enough, Opcode \in Pushing, NEW v, Push(v)
  PROVE  InFrame
<1>1. Taken = 0 /\ Given = 1
  BY Effects
<1>2. Opcode \in Sequential
  BY DEF Pushing, Sequential, Supported, ReadsOperand, OP_CONSTANT, OP_NIL, OP_TRUE, OP_FALSE,
     OP_GET_GLOBAL, OP_GET_LOCAL, OP_JUMP, OP_JUMP_IF_FALSE, OP_RETURN, OP_HALT
<1>3. CASE Replace(0, v)
  BY <1>1, <1>2, <1>3, ReplaceInFrame
<1>4. CASE Fail("stack overflow")
  BY <1>4, FailInFrame
<1> QED
  BY <1>3, <1>4 DEF Push

LEMMA PushingInFrame ==
  ASSUME Inv, Enough,
         ConstantInt \/ ConstantString \/ PushLiteral \/ GetGlobal \/ GetLocal
  PROVE  InFrame
<1>1. Running /\ Opcode \in Pushing
  BY DEF ConstantInt, ConstantString, PushLiteral, GetGlobal, GetLocal, Fetch, Pushing
<1>2. \/ \E message : Fail(message)
      \/ \E v : Push(v)
  BY DEF ConstantInt, ConstantString, PushLiteral, GetGlobal, GetLocal
<1> QED
  BY <1>1, <1>2, PushInFrame, FailInFrame

(* Operators, which take one operand or two and leave their result. *)
OneOperand == {OP_NOT, OP_NEGATE, OP_SET_LOCAL}

LEMMA OperatorFacts ==
  ASSUME Opcode \in BinaryOps \union OneOperand
  PROVE  /\ Opcode \in Sequential /\ Given = 1
         /\ Opcode \in BinaryOps => Taken = 2
         /\ Opcode \in OneOperand => Taken = 1
<1>1. Opcode \in Sequential
  BY DEF OneOperand, Sequential, Supported, ReadsOperand, BinaryOps, OP_SET_LOCAL, OP_JUMP,
     OP_JUMP_IF_FALSE, OP_ADD, OP_SUB, OP_MUL, OP_DIV, OP_NEGATE, OP_NOT, OP_EQ, OP_NE, OP_LT,
     OP_LE, OP_GT, OP_GE, OP_RETURN, OP_HALT
<1> QED
  BY <1>1, Effects DEF OneOperand

LEMMA OperatorInFrame ==
  ASSUME Inv, Enough,
         ArithmeticInt \/ ArithmeticOther \/ Comparison \/ Equality \/ Not \/ Negate
  PROVE  InFrame
<1>1. CASE ArithmeticInt \/ ArithmeticOther \/ Comparison \/ Equality
  <2>1. Running /\ Opcode \in BinaryOps
    BY <1>1 DEF ArithmeticInt, ArithmeticOther, Comparison, Equality, Fetch, BinaryOps
  <2>2. \/ \E message : Fail(message)
        \/ \E v : Replace(2, v)
    BY <1>1 DEF ArithmeticInt, ArithmeticOther, Comparison, Equality, Takes
  <2> QED
    BY <2>1, <2>2, OperatorFacts, ReplaceInFrame, FailInFrame
<1>2. CASE Not \/ Negate
  <2>1. Running /\ Opcode \in OneOperand
    BY <1>2 DEF Not, Negate, Fetch, OneOperand
  <2>2. \/ \E message : Fail(message)
        \/ \E v : Replace(1, v)
    BY <1>2 DEF Not, Negate, Takes
  <2> QED
    BY <2>1, <2>2, OperatorFacts, ReplaceInFrame, FailInFrame
<1> QED
  BY <1>1, <1>2

LEMMA SetLocalInFrame ==
  ASSUME Inv, SetLocal
  PROVE  InFrame
<1>1. Running /\ Opcode = OP_SET_LOCAL /\ Operand \in Nat
  BY FetchFacts DEF SetLocal, Fetch, Supported, ReadsOperand
<1>2. CASE \E message : Fail(message)
  BY <1>2, FailInFrame
<1>3. CASE /\ stack' = [stack EXCEPT ![Current.slots + Operand] = Peek(0)]
           /\ frames' = Advance
           /\ UNCHANGED top
  <2>1. Opcode \in OneOperand
    BY <1>1 DEF OneOperand
  <2>2. Opcode \in Sequential /\ Given = 1 /\ Taken = 1
    BY <2>1, OperatorFacts
  <2>3. top \in Nat /\ Current.slots \in Nat
    BY <1>1, FrameType
  <2>4. top' = top - Taken + Given
    BY <1>3, <2>2, <2>3
  <2>5. Current.slots + Operand \in Int /\ Current.slots + Operand >= Current.slots
    BY <1>1, <2>3
  <2>6. CallersCells
    BY <1>1, <1>3, <2>5, WriteAbove
  <2> QED
    BY <1>3, <2>2, <2>4, <2>6, AdvanceMoves DEF InFrame
<1> QED
  BY <1>2, <1>3 DEF SetLocal

LEMMA PopInFrame ==
  ASSUME Inv, Pop
  PROVE  InFrame
<1>1. Running /\ Opcode = OP_POP
  BY DEF Pop, Fetch
<1>2. CASE \E message : Fail(message)
  BY <1>2, FailInFrame
<1>3. CASE top' = top - 1 /\ frames' = Advance /\ UNCHANGED stack
  <2>1. Opcode \in Sequential
    BY <1>1 DEF Sequential, Supported, ReadsOperand, OP_POP, OP_JUMP, OP_JUMP_IF_FALSE,
       OP_RETURN, OP_HALT
  <2>2. Taken = 1 /\ Given = 0
    BY <1>1, Effects
  <2>3. top' = top - Taken + Given
    BY <1>1, <1>3, <2>2, FrameType
  <2> QED
    BY <1>3, <2>1, <2>3, AdvanceMoves, SameCallersCells DEF InFrame
<1> QED
  BY <1>2, <1>3 DEF Pop, Takes

LEMMA JumpInFrame ==
  ASSUME Inv, Jump \/ JumpIfFalse
  PROVE  InFrame
<1>1. Running /\ top \in Nat /\ Current.ip \in Nat
  BY FrameType DEF Jump, JumpIfFalse, Fetch
<1>2. CASE Jump
  <2>1. Taken = 0 /\ Given = 0 /\ Behind = {Operand}
    BY <1>2, Effects DEF Jump, Fetch
  <2>2. CASE status' = "error"
    BY <1>2, <2>2, StopInFrame DEF Jump
  <2>3. CASE frames' = [frames EXCEPT ![Len(frames)].ip = Operand]
    <3>1. top' = top - Taken + Given /\ CallersCells
      BY <1>1, <1>2, <2>1, SameCallersCells DEF Jump
    <3>2. Moves(Operand)
      BY <2>3, <3>1 DEF Moves
    <3> QED
      BY <2>1, <3>1, <3>2 DEF InFrame
  <2> QED
    BY <1>2, <2>2, <2>3 DEF Jump
<1>3. CASE JumpIfFalse
  <2>1. Taken = 1 /\ Given = 0 /\ Behind = {Operand, Current.ip + 3} /\ Opcode = OP_JUMP_IF_FALSE
    BY <1>3, Effects DEF JumpIfFalse, Fetch
  <2>2. CASE \E message : Fail(message)
    BY <2>2, FailInFrame
  <2>3. CASE /\ top' = top - 1 /\ UNCHANGED stack
             /\ \/ frames' = Advance
                \/ frames' = [frames EXCEPT ![Len(frames)].ip = Operand]
    <3>1. top' = top - Taken + Given /\ CallersCells
      BY <1>1, <2>1, <2>3, SameCallersCells
    <3>2. Width(Opcode) = 3
      BY <2>1 DEF Width, HasOperand
    <3>3. Advance = [frames EXCEPT ![Len(frames)].ip = Current.ip + 3]
      BY <3>2 DEF Advance, Current
    <3>4. Moves(Operand) \/ Moves(Current.ip + 3)
      BY <2>3, <3>1, <3>3 DEF Moves
    <3> QED
      BY <2>1, <3>1, <3>4 DEF InFrame
  <2> QED
    BY <1>3, <2>2, <2>3 DEF JumpIfFalse, Takes
<1> QED
  BY <1>2, <1>3

LEMMA CallNativeInFrame ==
  ASSUME Inv, Enough, CallNative
  PROVE  InFrame
<1>1. Running /\ Opcode = OP_CALL
  BY DEF CallNative, Fetch
<1>2. Opcode \in Sequential
  BY <1>1 DEF Sequential, Supported, ReadsOperand, OP_CALL, OP_JUMP, OP_JUMP_IF_FALSE,
     OP_RETURN, OP_HALT
<1>3. Taken = Operand + 1 /\ Given = 1
  BY <1>1, Effects
<1>4. \/ \E message : Fail(message)
      \/ \E v : Replace(Operand + 1, v)
      \/ status' = "error" /\ UNCHANGED machine
  BY DEF CallNative, CallFails
<1>5. CASE status' = "error" /\ UNCHANGED machine
  BY <1>5, StopInFrame DEF machine
<1> QED
  BY <1>1, <1>2, <1>3, <1>4, <1>5, ReplaceInFrame, FailInFrame

(* The last frame is popped; the one below it, if there is one, goes on. *)
Returns ==
  /\ frames' = SubSeq(frames, 1, Len(frames) - 1)
  /\ status' = "running" => Len(frames) # 1 /\ top' = Current.slots + 1

(* What the flow promises of any instruction. *)
FlowStep ==
  /\ CallersCells
  /\ \/ status' = "running" => \E j \in Behind : Moves(j)
     \/ Calls
     \/ Returns
     \/ UNCHANGED machine

LEMMA ReturnFlows ==
  ASSUME Inv, Return
  PROVE  FlowStep
<1>1. Running
  BY DEF Return, Fetch
<1>2. CASE \E message : Fail(message)
  BY <1>2, FailInFrame DEF InFrame, FlowStep
<1>3. CASE /\ frames' = SubSeq(frames, 1, Len(frames) - 1)
           /\ IF Len(frames) = 1
              THEN /\ status' = "ok" /\ top' = Current.slots /\ UNCHANGED stack
              ELSE /\ stack' = [stack EXCEPT ![Current.slots] = Peek(0)]
                   /\ top' = Current.slots + 1
                   /\ UNCHANGED status
  <2>1. Current.slots \in Int /\ Current.slots >= Current.slots
    BY <1>1, FrameType
  <2>2. CallersCells
    BY <1>1, <1>3, <2>1, WriteAbove, SameCallersCells
  <2>3. Returns
    BY <1>3 DEF Returns
  <2> QED
    BY <2>2, <2>3 DEF FlowStep
<1> QED
  BY <1>2, <1>3 DEF Return, Takes

LEMMA CallsFlow ==
  ASSUME Inv, Enough, Calls
  PROVE  FlowStep
<1>1. Running /\ Opcode = OP_CALL /\ Operand \in Nat
  BY FetchFacts DEF Calls, CallFunction, Fetch, Supported, ReadsOperand
<1>2. Taken = Operand + 1
  BY <1>1, Effects
<1>3. top \in Nat /\ Current.slots \in Nat /\ Fn.local_count \in Nat
      /\ DOMAIN stack = 0..(StackMax - 1) /\ top <= StackMax
      /\ Current.slots + Fn.local_count <= StackMax /\ StackMax \in Nat
  BY <1>1, FrameType
<1>4. top >= Current.slots
  BY <1>1, <1>2, <1>3 DEF Enough
<1> DEFINE limit == CalleeSlots + bc.functions[Callee.as + 1].local_count
<1>5. stack' = [i \in 0..(StackMax - 1) |-> IF top <= i /\ i < limit THEN Nil ELSE stack[i]]
  BY <1>3 DEF Calls, PushFrame
<1> HIDE DEF limit
<1>6. CallersCells
  <2>1. \A k \in 0..(Current.slots - 1) : k \in 0..(StackMax - 1) /\ ~(top <= k)
    BY <1>3, <1>4
  <2> QED
    BY <1>5, <2>1 DEF CallersCells
<1> QED
  BY <1>6 DEF FlowStep

LEMMA InstructionFlows ==
  ASSUME Inv, Instruction, Current.ip < Fn.code_size => Enough
  PROVE  FlowStep
<1>1. CASE InFrame
  BY <1>1 DEF InFrame, FlowStep
<1>2. CASE ConstantInt \/ ConstantString \/ PushLiteral \/ GetGlobal \/ GetLocal
  <2>1. Enough
    BY <1>2 DEF ConstantInt, ConstantString, PushLiteral, GetGlobal, GetLocal, Fetch
  <2> QED
    BY <1>1, <1>2, <2>1, PushingInFrame
<1>3. CASE \/ ArithmeticInt \/ ArithmeticOther \/ Comparison \/ Equality \/ Not \/ Negate
           \/ CallNative
  <2>1. Enough
    BY <1>3 DEF ArithmeticInt, ArithmeticOther, Comparison, Equality, Not, Negate, CallNative,
       Fetch
  <2> QED
    BY <1>1, <1>3, <2>1, OperatorInFrame, CallNativeInFrame
<1>4. CASE SetLocal \/ Pop \/ Jump \/ JumpIfFalse
  BY <1>1, <1>4, SetLocalInFrame, PopInFrame, JumpInFrame
<1>5. CASE CallFunction
  <2>1. CASE \E message : Fail(message)
    BY <1>1, <2>1, FailInFrame
  <2>2. CASE Calls
    BY <1>5, <2>2, CallsFlow DEF CallFunction, Fetch
  <2> QED
    BY <1>5, <2>1, <2>2 DEF CallFunction, Calls
<1>6. CASE Return
  BY <1>6, ReturnFlows
<1>7. CASE \/ TruncatedOperand \/ DivisionTraps \/ Call \/ Halt \/ Unsupported \/ Spin
  <2>1. UNCHANGED machine
    BY <1>7 DEF TruncatedOperand, DivisionTraps, Call, CallFails, Halt, Unsupported, Spin, Fail
  <2> QED
    BY <2>1, SameCallersCells DEF FlowStep, machine
<1> QED
  BY <1>2, <1>3, <1>4, <1>5, <1>6, <1>7 DEF Instruction

(* What the discipline guarantees at a point of the flow. *)
LEMMA PointFacts ==
  ASSUME Inv, Running, Disciplined(bc), At(bc, Current, top)
  PROVE  /\ top >= Current.slots + Fn.local_count
         /\ Current.ip < Fn.code_size =>
              /\ Enough
              /\ Given \in {0, 1}
              /\ \A j \in Behind :
                   <<j, top - Current.slots - Fn.local_count - Taken + Given>> \in Flow(bc, Fn)
<1> DEFINE depth == top - Current.slots - Fn.local_count
           point == <<Current.ip, depth>>
<1>1. /\ Current.slots \in Nat /\ Fn.local_count \in Nat /\ Current.ip \in Nat /\ top \in Nat
      /\ Current.function + 1 \in 1..Len(bc.functions)
      /\ Fn = bc.functions[Current.function + 1]
  BY FrameType, CurrentFacts
<1>2. point \in Flow(bc, Fn)
  BY <1>1 DEF At
<1>3. /\ point[2] \in Nat
      /\ point[1] < Fn.code_size =>
           /\ Whole(bc, Fn, point[1])
           /\ Consumed(bc, Fn, point[1]) <= point[2]
           /\ After(bc, Fn, point) \subseteq Flow(bc, Fn)
  <2> HIDE DEF point
  <2> QED
    BY <1>1, <1>2 DEF Disciplined
<1>4. point[1] = Current.ip /\ point[2] = depth
  OBVIOUS
<1> HIDE DEF point
<1>5. depth \in Nat
  BY <1>3, <1>4
<1>6. top >= Current.slots + Fn.local_count
  BY <1>1, <1>5
<1>7. ASSUME Current.ip < Fn.code_size
      PROVE  /\ Enough
             /\ Given \in {0, 1}
             /\ \A j \in Behind : <<j, depth - Taken + Given>> \in Flow(bc, Fn)
  <2>1. Whole(bc, Fn, Current.ip) /\ Taken <= depth
    BY <1>3, <1>4, <1>7 DEF Taken
  <2>2. Opcode = OP_CALL => Operand \in Nat
    <3>1. ASSUME Opcode = OP_CALL
          PROVE  Operand \in Nat
      <4>1. Width(Opcode) = 3
        BY <3>1 DEF Width, HasOperand
      <4>2. Current.ip + 3 <= Fn.code_size
        BY <2>1, <4>1 DEF Whole, Opcode
      <4>3. Fn.code_size \in Nat
        BY CurrentFacts DEF Function
      <4>4. ~Truncated
        BY <1>1, <4>2, <4>3 DEF Truncated
      <4>5. Opcode \in ReadsOperand
        BY <3>1 DEF ReadsOperand
      <4> QED
        BY <4>4, <4>5, <1>7, InstructionFacts
    <3> QED
      BY <3>1
  <2>3. Taken \in Nat
    <3>1. Taken \in {0, 1, 2, Operand + 1} /\ (Taken = Operand + 1 => Opcode = OP_CALL \/ Taken \in Nat)
      BY DEF Taken, Consumed, Opcode, Operand
    <3> QED
      BY <3>1, <2>2
  <2>4. Enough
    <3>1. \A t, b, l, n \in Nat : n <= t - b - l => t - n >= b + l
      OBVIOUS
    <3>2. Taken <= top - Current.slots - Fn.local_count
      BY <2>1
    <3>3. top - Taken >= Current.slots + Fn.local_count
      <4> HIDE DEF depth
      <4> QED
        BY <3>1, <3>2, <2>3, <1>1, Zenon
    <3> QED
      BY <2>3, <3>3 DEF Enough
  <2>5. Given \in {0, 1}
    BY DEF Given, Produced
  <2>6. \A j \in Behind : <<j, depth - Taken + Given>> \in Flow(bc, Fn)
    <3>1. \A j \in Behind : <<j, depth - Taken + Given>> \in After(bc, Fn, point)
      <4> HIDE DEF depth
      <4> QED
        BY <1>4 DEF After, Behind, Taken, Given
    <3> QED
      BY <3>1, <1>3, <1>4, <1>7
  <2> QED
    BY <2>4, <2>5, <2>6
<1> QED
  BY <1>6, <1>7

(* An instruction that stays in its frame. *)
LEMMA MovesKeepStacked ==
  ASSUME Inv, Running, UNCHANGED embedding, StackedBy(bc, frames, top),
         Enough, Given \in {0, 1}, NEW j \in Nat, Moves(j),
         <<j, top - Current.slots - Fn.local_count - Taken + Given>> \in Flow(bc, Fn)
  PROVE  StackedBy(bc', frames', top')
<1>1. /\ frames \in Seq(Frame) /\ Len(frames) \in Nat \ {0}
      /\ Current \in Frame /\ Current = frames[Len(frames)]
  BY CurrentFacts DEF Inv, TypeOK, Current
<1> DEFINE new == [Current EXCEPT !.ip = j]
<1>2. new \in Frame /\ new.function = Current.function /\ new.slots = Current.slots /\ new.ip = j
  BY <1>1, FrameIp
<1>3. frames' = [frames EXCEPT ![Len(frames)] = new]
  BY DEF Moves, Current
<1> HIDE DEF new
<1>4. /\ Len(frames') = Len(frames)
      /\ \A i \in 1..Len(frames) : frames'[i] = IF i = Len(frames) THEN new ELSE frames[i]
  BY <1>1, <1>2, <1>3, ExceptSeq
<1>5. bc' = bc
  BY DEF embedding, bc
<1>6. At(bc, new, top')
  <2>1. bc.functions[new.function + 1] = Fn
    BY <1>2 DEF Fn, FunctionOf
  <2>2. top' = top - Taken + Given
    BY DEF Moves
  <2>3. top' - new.slots - Fn.local_count
          = top - Current.slots - Fn.local_count - Taken + Given
    <3>1. \A t, k, g, b, l, u, c \in Int :
             (u = t - k + g /\ c = b) => u - c - l = t - b - l - k + g
      OBVIOUS
    <3>2. /\ top \in Int /\ Taken \in Int /\ Given \in Int
          /\ Current.slots \in Int /\ Fn.local_count \in Int
      BY FrameType DEF Enough
    <3>3. top' \in Int
      BY <2>2, <3>2
    <3>4. new.slots = Current.slots /\ new.slots \in Int
      BY <1>2, <3>2
    <3> QED
      BY <2>2, <3>1, <3>2, <3>3, <3>4
  <2> QED
    BY <1>2, <2>1, <2>3 DEF At
<1>7. At(bc, frames'[Len(frames')], top')
  BY <1>1, <1>4, <1>6
<1>8. ASSUME NEW i \in 1..(Len(frames') - 1)
      PROVE  Suspended(bc, frames'[i], frames'[i + 1].slots)
  <2>1. i \in 1..(Len(frames) - 1) /\ i \in 1..Len(frames) /\ i # Len(frames)
        /\ i + 1 \in 1..Len(frames)
    BY <1>1, <1>4
  <2>2. frames'[i] = frames[i]
    BY <1>4, <2>1
  <2>3. frames'[i + 1].slots = frames[i + 1].slots
    BY <1>1, <1>2, <1>4, <2>1
  <2>4. Suspended(bc, frames[i], frames[i + 1].slots)
    BY <2>1 DEF StackedBy
  <2> QED
    BY <2>2, <2>3, <2>4
<1> QED
  BY <1>5, <1>7, <1>8 DEF StackedBy

(* A call: its frame is at the start of its function, the caller waits for one
   result in place of the callee and its arguments. *)
LEMMA CallKeepsStacked ==
  ASSUME Inv, UNCHANGED embedding, StackedBy(bc, frames, top), Disciplined(bc),
         Calls, Enough, Given \in {0, 1},
         \A j \in Behind :
           <<j, top - Current.slots - Fn.local_count - Taken + Given>> \in Flow(bc, Fn)
  PROVE  StackedBy(bc', frames', top')
<1>1. /\ Fetch({OP_CALL}) /\ Running /\ Operand \in Nat /\ top > Operand
      /\ Opcode = OP_CALL
  BY FetchFacts DEF Calls, CallFunction, Fetch, Supported, ReadsOperand
<1>2. /\ frames \in Seq(Frame) /\ Len(frames) \in Nat \ {0}
      /\ Current \in Frame /\ Current = frames[Len(frames)]
      /\ bc \in Loadable /\ bc.functions \in Seq(Function)
  BY <1>1, CurrentFacts, ModulesAssumption DEF Inv, TypeOK, Current, Loadable, Bytecode
<1>3. /\ Current.slots \in Nat /\ Fn.local_count \in Nat /\ Current.ip \in Nat /\ top \in Nat
      /\ Current.ip + 3 \in Nat
  BY <1>1, FrameType
<1> DEFINE back == [Current EXCEPT !.ip = Current.ip + 3]
           new == [function |-> Callee.as, ip |-> 0, slots |-> CalleeSlots]
<1>4. /\ back \in Frame /\ back.function = Current.function /\ back.slots = Current.slots
      /\ back.ip = Current.ip + 3
  BY <1>2, <1>3, FrameIp
<1>5. Width(Opcode) = 3
  BY <1>1 DEF Width, HasOperand
<1>6. Advance = [frames EXCEPT ![Len(frames)] = back]
  BY <1>5 DEF Advance, Current
<1>7. /\ new \in Frame /\ frames' = Append(Advance, new)
      /\ new.slots = CalleeSlots /\ new.function = Callee.as /\ new.ip = 0
  BY CallFrame
<1> HIDE DEF back, new
<1>8. /\ Advance \in Seq(Frame) /\ Len(Advance) = Len(frames)
      /\ \A i \in 1..Len(frames) : Advance[i] = IF i = Len(frames) THEN back ELSE frames[i]
  BY <1>2, <1>4, <1>6, ExceptSeq
<1>9. /\ Len(frames') = Len(frames) + 1
      /\ \A i \in 1..Len(frames) : frames'[i] = Advance[i]
      /\ frames'[Len(frames) + 1] = new
  BY <1>7, <1>8, AppendProperties
<1>10. bc' = bc
  BY DEF embedding, bc
<1>11. CalleeSlots = top - Operand - 1 /\ Taken = Operand + 1 /\ Given = 1
  BY <1>1, Effects DEF CalleeSlots
<1>12. Suspended(bc, back, new.slots)
  <2>1. bc.functions[back.function + 1] = Fn
    BY <1>4 DEF Fn, FunctionOf
  <2>2. (new.slots + 1) - back.slots - Fn.local_count
          = top - Current.slots - Fn.local_count - Taken + Given
    <3> DEFINE n == Operand
               b == Current.slots
               l == Fn.local_count
    <3>1. top \in Int /\ n \in Int /\ b \in Int /\ l \in Int
      BY <1>1, <1>3
    <3>2. ((top - n - 1) + 1) - b - l = top - b - l - (n + 1) + 1
      <4> HIDE DEF n, b, l
      <4> QED
        BY <3>1
    <3>3. ((top - Operand - 1) + 1) - Current.slots - Fn.local_count
            = top - Current.slots - Fn.local_count - (Operand + 1) + 1
      BY <3>2
    <3>4. /\ new.slots = top - Operand - 1 /\ back.slots = Current.slots
          /\ Taken = Operand + 1 /\ Given = 1
      BY <1>4, <1>7, <1>11
    <3> QED
      BY <3>3, <3>4
  <2>3. Current.ip + 3 \in Behind
    <3>1. Opcode \in Sequential
      BY <1>1 DEF Sequential, Supported, ReadsOperand, OP_CALL, OP_JUMP, OP_JUMP_IF_FALSE,
         OP_RETURN, OP_HALT
    <3> QED
      BY <3>1, <1>5, Effects
  <2>4. <<Current.ip + 3, top - Current.slots - Fn.local_count - Taken + Given>> \in Flow(bc, Fn)
    BY <2>3
  <2> DEFINE depth == top - Current.slots - Fn.local_count - Taken + Given
             next == Current.ip + 3
  <2>5. <<next, depth>> \in Flow(bc, bc.functions[back.function + 1])
    BY <2>1, <2>4
  <2>6. (new.slots + 1) - back.slots - bc.functions[back.function + 1].local_count = depth
    BY <2>1, <2>2
  <2>7. back.ip = next
    BY <1>4
  <2> HIDE DEF depth, next
  <2>8. <<back.ip, (new.slots + 1) - back.slots - bc.functions[back.function + 1].local_count>>
          \in Flow(bc, bc.functions[back.function + 1])
    BY <2>5, <2>6, <2>7
  <2>9. back.slots + bc.functions[back.function + 1].local_count <= new.slots
    <3>1. top - Taken >= Current.slots + Fn.local_count
      BY DEF Enough
    <3>2. \A t, n, k, b \in Int : t - k >= b /\ k = n + 1 => b <= t - n - 1
      OBVIOUS
    <3>3. Current.slots + Fn.local_count \in Int /\ top \in Int /\ Operand \in Int
      BY <1>1, <1>3
    <3>4. Current.slots + Fn.local_count <= CalleeSlots
      BY <1>11, <3>1, <3>2, <3>3
    <3> QED
      BY <1>4, <1>7, <2>1, <3>4
  <2> QED
    BY <2>8, <2>9 DEF At, Suspended
<1>13. At(bc, new, top')
  <2> DEFINE f == bc.functions[Callee.as + 1]
  <2>1. Callee.as \in Nat /\ Callee.as + 1 \in 1..Len(bc.functions)
    BY <1>2 DEF Calls, IsFunction
  <2>2. f \in Function /\ f.arity = Operand
    BY <1>2, <2>1 DEF Calls, CalleeFunction
  <2>3. f.arity < f.local_count /\ <<0, 0>> \in Flow(bc, f)
    BY <2>1 DEF Disciplined
  <2>4. top' = IF top < CalleeSlots + f.local_count THEN CalleeSlots + f.local_count ELSE top
    BY DEF Calls, PushFrame
  <2> HIDE DEF f
  <2>5. f.local_count \in Nat
    BY <2>2 DEF Function
  <2>6. top' - CalleeSlots - f.local_count = 0
    BY <1>1, <1>3, <1>11, <2>2, <2>3, <2>4, <2>5
  <2> QED
    BY <1>7, <2>3, <2>6 DEF At, f
<1>14. At(bc, frames'[Len(frames')], top')
  BY <1>9, <1>13
<1>15. ASSUME NEW i \in 1..(Len(frames') - 1)
       PROVE  Suspended(bc, frames'[i], frames'[i + 1].slots)
  <2>1. i \in 1..Len(frames) /\ i + 1 \in 1..(Len(frames) + 1)
    BY <1>2, <1>9
  <2>2. CASE i = Len(frames)
    <3>1. frames'[i] = back /\ frames'[i + 1] = new
      BY <1>2, <1>8, <1>9, <2>2
    <3> QED
      BY <3>1, <1>12
  <2>3. CASE i # Len(frames)
    <3>1. i \in 1..(Len(frames) - 1) /\ i + 1 \in 1..Len(frames)
      BY <1>2, <2>1, <2>3
    <3>2. frames'[i] = frames[i]
      BY <1>8, <1>9, <2>1, <2>3
    <3>3. frames'[i + 1].slots = frames[i + 1].slots
      <4>1. frames'[i + 1] = IF i + 1 = Len(frames) THEN back ELSE frames[i + 1]
        BY <1>8, <1>9, <3>1
      <4> QED
        BY <4>1, <1>2, <1>4
    <3>4. Suspended(bc, frames[i], frames[i + 1].slots)
      BY <3>1 DEF StackedBy
    <3> QED
      BY <3>2, <3>3, <3>4
  <2> QED
    BY <2>2, <2>3
<1> QED
  BY <1>10, <1>14, <1>15 DEF StackedBy

(* A return: the caller finds its result where it waited for it. *)
LEMMA ReturnKeepsStacked ==
  ASSUME Inv, Running, UNCHANGED embedding, StackedBy(bc, frames, top),
         Returns, status' = "running"
  PROVE  StackedBy(bc', frames', top')
<1>1. /\ frames \in Seq(Frame) /\ Len(frames) \in 1..FramesMax /\ Len(frames) # 1
      /\ Current = frames[Len(frames)] /\ top' = Current.slots + 1
  BY CurrentFacts DEF Inv, TypeOK, Current, Returns
<1>2. /\ Len(frames') = Len(frames) - 1
      /\ \A i \in 1..(Len(frames) - 1) : frames'[i] = frames[i]
  <2> DEFINE rest == SubSeq(frames, 1, Len(frames) - 1)
  <2>1. \A i \in 1..(Len(frames) - 1) : frames[i] \in Frame
    BY <1>1
  <2>2. 1 \in Int /\ Len(frames) - 1 \in Int
    BY <1>1
  <2>3. /\ Len(rest) = IF 1 <= Len(frames) - 1 THEN Len(frames) - 1 - 1 + 1 ELSE 0
        /\ \A i \in 1..(Len(frames) - 1 - 1 + 1) : rest[i] = frames[1 + i - 1]
    BY <2>1, <2>2, SubSeqProperties
  <2> HIDE DEF rest
  <2>4. Len(frames) - 1 - 1 + 1 = Len(frames) - 1 /\ 1 <= Len(frames) - 1
    <3>1. \A n \in Int : n >= 1 /\ n # 1 => n - 1 - 1 + 1 = n - 1 /\ 1 <= n - 1
      OBVIOUS
    <3>2. Len(frames) \in Int /\ Len(frames) >= 1
      BY <1>1
    <3> QED
      BY <1>1, <3>1, <3>2
  <2>5. Len(rest) = Len(frames) - 1
    BY <2>3, <2>4, Zenon
  <2>6. \A i \in 1..(Len(frames) - 1) : rest[i] = frames[i]
    BY <1>1, <2>3
  <2> QED
    BY <2>5, <2>6 DEF rest, Returns
<1>3. bc' = bc
  BY DEF embedding, bc
<1>4. \A i \in 1..(Len(frames) - 1) : Suspended(bc, frames[i], frames[i + 1].slots)
  BY DEF StackedBy
<1>5. At(bc, frames'[Len(frames')], top')
  <2> DEFINE n == Len(frames) - 1
  <2>1. n \in 1..(Len(frames) - 1) /\ n + 1 = Len(frames) /\ Len(frames') = n
    BY <1>1, <1>2
  <2> HIDE DEF n
  <2>2. frames'[Len(frames')] = frames[n] /\ frames[n + 1] = Current
    BY <1>1, <1>2, <2>1
  <2> QED
    BY <1>1, <1>4, <2>1, <2>2 DEF Suspended
<1>6. ASSUME NEW i \in 1..(Len(frames') - 1)
      PROVE  Suspended(bc, frames'[i], frames'[i + 1].slots)
  <2>1. i \in 1..(Len(frames) - 1) /\ i + 1 \in 1..(Len(frames) - 1)
    BY <1>1, <1>2
  <2> QED
    BY <1>2, <1>4, <2>1
<1> QED
  BY <1>3, <1>5, <1>6 DEF StackedBy

(* The entry frame. *)
LEMMA ExecuteStacks ==
  ASSUME Inv, NEW module \in Modules, Execute(module)
  PROVE  Stacked'
<1>1. CASE status' = "error"
  BY <1>1 DEF Stacked, Running
<1>2. CASE /\ loaded' = <<module>>
           /\ Len(frames') = 1
           /\ frames'[1] = [function |-> module.entry, ip |-> 0, slots |-> 0]
           /\ Accepts(module)
           /\ PushFrame(module, << >>, module.entry, 0, 0)
  <2> DEFINE new == [function |-> module.entry, ip |-> 0, slots |-> 0]
             f == module.functions[module.entry + 1]
  <2>1. bc' = module
    BY <1>2 DEF bc
  <2>2. module \in Loadable
    BY <1>2 DEF Loadable
  <2>3. module.entry + 1 \in 1..Len(module.functions)
    <3>1. module.entry \in Nat /\ module.functions \in Seq(Function)
      BY <2>2, ModulesAssumption DEF Loadable, Bytecode
    <3>2. module.entry < Len(module.functions)
      BY <1>2 DEF Accepts, ValidModule
    <3> QED
      BY <3>1, <3>2
  <2>4. f.local_count \in Nat
    BY <2>2, <2>3, FunctionFacts DEF Function
  <2>5. top' = IF 0 < 0 + f.local_count THEN 0 + f.local_count ELSE 0
    BY <1>2 DEF PushFrame
  <2>6. new.slots = 0 /\ new.ip = 0 /\ new.function = module.entry
    OBVIOUS
  <2> HIDE DEF new
  <2>7. ASSUME Disciplined(module)
        PROVE  StackedBy(module, frames', top')
    <3>1. <<0, 0>> \in Flow(module, f)
      BY <2>3, <2>7 DEF Disciplined
    <3> HIDE DEF f
    <3>2. top' - 0 - f.local_count = 0
      BY <2>4, <2>5
    <3>3. At(module, new, top')
      BY <3>1, <3>2, <2>6 DEF At, f
    <3>4. frames'[Len(frames')] = new
      BY <1>2 DEF new
    <3>5. \A i \in 1..(Len(frames') - 1) : FALSE
      BY <1>2
    <3> QED
      BY <3>3, <3>4, <3>5 DEF StackedBy
  <2> QED
    BY <2>1, <2>7 DEF Stacked
<1> QED
  BY <1>1, <1>2, ExecuteFrames

LEMMA InstructionRuns ==
  ASSUME Instruction
  PROVE  Running
BY DEF Instruction, TruncatedOperand, ConstantInt, ConstantString, PushLiteral,
   GetGlobal, GetLocal, SetLocal, ArithmeticInt, ArithmeticOther, DivisionTraps, Comparison,
   Equality, Not, Negate, Pop, Jump, JumpIfFalse, Call, CallFunction, CallNative, Return,
   Halt, Unsupported, Spin, Fetch

(* An instruction goes on at an index. *)
LEMMA MovesWhere ==
  ASSUME Inv, Running, Inv', NEW j, Moves(j)
  PROVE  j \in Nat
<1>1. frames \in Seq(Frame) /\ Len(frames) \in 1..Len(frames) /\ frames' \in Seq(Frame)
  BY CurrentFacts DEF Inv, TypeOK
<1>2. frames' = [frames EXCEPT ![Len(frames)].ip = j]
  BY DEF Moves
<1>3. Len(frames') = Len(frames) /\ frames'[Len(frames)] = [frames[Len(frames)] EXCEPT !.ip = j]
  BY <1>1, <1>2
<1>4. frames'[Len(frames)] \in Frame /\ frames[Len(frames)] \in Frame
  BY <1>1, <1>3
<1>5. [frames[Len(frames)] EXCEPT !.ip = j].ip = j
  BY <1>4 DEF Frame
<1> QED
  BY <1>3, <1>4, <1>5 DEF Frame

LEMMA InstructionStacks ==
  ASSUME Inv, Stacked, Instruction, Running, Disciplined(bc)
  PROVE  FlowStep /\ Stacked'
<1>1. UNCHANGED embedding
  BY DEF Instruction
<1>2. bc' = bc
  BY <1>1 DEF embedding, bc
<1>3. StackedBy(bc, frames, top)
  BY DEF Stacked
<1>4. At(bc, Current, top)
  BY <1>3 DEF StackedBy, Current
<1>5. FlowStep
  BY <1>4, PointFacts, InstructionFlows
<1>6. CASE status' # "running"
  BY <1>5, <1>6 DEF Stacked, Running
<1>7. CASE status' = "running"
  <2>1. StackedBy(bc', frames', top') => Stacked'
    BY DEF Stacked
  <2>2. CASE UNCHANGED machine
    BY <1>2, <1>3, <1>5, <2>1, <2>2 DEF machine
  <2>3. CASE Returns
    BY <1>1, <1>3, <1>5, <1>7, <2>1, <2>3, ReturnKeepsStacked
  <2>4. CASE Current.ip < Fn.code_size /\ Calls
    BY <1>1, <1>3, <1>4, <1>5, <2>1, <2>4, PointFacts, CallKeepsStacked
  <2>5. CASE Current.ip < Fn.code_size /\ \E j \in Behind : Moves(j)
    <3>1. PICK j \in Behind : Moves(j)
      BY <2>5
    <3>2. j \in Nat
      BY <3>1, MovesWhere, NextInv DEF Next
    <3> QED
      BY <1>1, <1>3, <1>4, <1>5, <2>1, <2>5, <3>1, <3>2, PointFacts, MovesKeepStacked
  <2>6. CASE ~(Current.ip < Fn.code_size)
    <3>1. UNCHANGED machine
      BY <2>6 DEF Instruction, TruncatedOperand, ConstantInt, ConstantString, PushLiteral,
         GetGlobal, GetLocal, SetLocal, ArithmeticInt, ArithmeticOther, DivisionTraps, Comparison,
         Equality, Not, Negate, Pop, Jump, JumpIfFalse, Call, CallFunction, CallNative, Return,
         Halt, Unsupported, Spin, Fetch
    <3> QED
      BY <2>2, <3>1
  <2> QED
    BY <1>5, <1>7, <2>2, <2>3, <2>4, <2>5, <2>6 DEF FlowStep
<1> QED
  BY <1>5, <1>6, <1>7

LEMMA NextStacks ==
  Inv /\ Stacked /\ [Next]_vars => Stacked'
<1> SUFFICES ASSUME Inv, Stacked, [Next]_vars PROVE Stacked'
  OBVIOUS
<1>1. CASE Instruction
  <2>1. Running
    BY <1>1, InstructionRuns
  <2>2. bc' = bc
    BY <1>1 DEF Instruction, embedding, bc
  <2>3. CASE Disciplined(bc)
    BY <1>1, <2>1, <2>3, InstructionStacks
  <2>4. CASE ~Disciplined(bc)
    BY <2>2, <2>4 DEF Stacked
  <2> QED
    BY <2>3, <2>4
<1>2. CASE \E module \in Modules : Execute(module)
  BY <1>2, ExecuteStacks
<1>3. CASE (\E native \in Natives : RegisterNative(native)) \/ UNCHANGED vars
  BY <1>3 DEF RegisterNative, machine, vars, embedding, Stacked, Running, bc
<1> QED
  BY <1>1, <1>2, <1>3 DEF Next

(* The errors for want of operands, or of the end of an instruction. *)
Shortages == {"stack underflow", "stack access out of range", "truncated bytecode operand"}

(* The instruction reports none of them. *)
Supplied ==
  \/ UNCHANGED lastError
  \/ \E message \in Errors \ Shortages : SetError(message)

(* What the operands left to take say of the tests for them. *)
LEMMA OperandsThere ==
  ASSUME Inv, Running, Enough
  PROVE  /\ Opcode \in BinaryOps => ~(top < 2)
         /\ Opcode \in OneOperand \union {OP_POP, OP_JUMP_IF_FALSE, OP_RETURN} =>
              ~(top < 1) /\ top # 0
         /\ Opcode = OP_CALL => (Operand \in Nat => ~(top <= Operand))
<1>1. /\ Current.slots \in Nat /\ Fn.local_count \in Nat /\ top \in Nat /\ Taken \in Nat
      /\ top - Taken >= Current.slots + Fn.local_count
  BY FrameType DEF Enough
<1>2. Taken <= top
  BY <1>1
<1>3. Opcode = OP_CALL => Taken = Operand + 1
  BY Effects
<1>4. Opcode \in BinaryOps => Taken = 2
  BY Effects
<1>5. Opcode \in OneOperand \union {OP_POP, OP_JUMP_IF_FALSE, OP_RETURN} => Taken = 1
  BY Effects DEF OneOperand
<1>6. ASSUME Opcode = OP_CALL, Operand \in Nat
      PROVE  ~(top <= Operand)
  BY <1>1, <1>2, <1>3, <1>6
<1> QED
  BY <1>1, <1>2, <1>4, <1>5, <1>6

(* At a point of the flow the instruction is whole. *)
LEMMA PointWhole ==
  ASSUME Inv, Running, Disciplined(bc), At(bc, Current, top), Current.ip < Fn.code_size
  PROVE  Whole(bc, Fn, Current.ip)
<1> DEFINE point == <<Current.ip, top - Current.slots - Fn.local_count>>
<1>1. /\ Current.function + 1 \in 1..Len(bc.functions)
      /\ Fn = bc.functions[Current.function + 1]
  BY CurrentFacts
<1>2. point \in Flow(bc, Fn)
  BY <1>1 DEF At
<1>3. point[1] = Current.ip
  OBVIOUS
<1> HIDE DEF point
<1> QED
  BY <1>1, <1>2, <1>3 DEF Disciplined

LEMMA InstructionSupplied ==
  ASSUME Inv, Instruction, Running, Disciplined(bc), At(bc, Current, top)
  PROVE  Supplied
<1>1. Current.ip < Fn.code_size => Enough
  BY PointFacts
<1>2. CASE ConstantInt \/ ConstantString \/ PushLiteral \/ GetGlobal \/ GetLocal
  BY <1>2 DEF ConstantInt, ConstantString, PushLiteral, GetGlobal, GetLocal, Push, Replace,
     NoError, Fail, Supplied, Errors, Shortages
<1>3. CASE ArithmeticInt \/ ArithmeticOther \/ Comparison \/ Equality
  <2>1. Opcode \in BinaryOps /\ Enough
    BY <1>1, <1>3 DEF ArithmeticInt, ArithmeticOther, Comparison, Equality, Fetch, BinaryOps
  <2>2. ~(top < 2)
    BY <2>1, OperandsThere
  <2> QED
    BY <1>3, <2>2 DEF ArithmeticInt, ArithmeticOther, Comparison, Equality, Takes, Replace,
       NoError, Fail, Supplied, Errors, Shortages
<1>4. CASE Not \/ Negate \/ SetLocal \/ Pop \/ JumpIfFalse \/ Return
  <2>1. /\ Opcode \in OneOperand \union {OP_POP, OP_JUMP_IF_FALSE, OP_RETURN}
        /\ Enough
    BY <1>1, <1>4 DEF Not, Negate, SetLocal, Pop, JumpIfFalse, Return, Fetch, OneOperand
  <2>2. ~(top < 1) /\ top # 0
    BY <2>1, OperandsThere
  <2>3. CASE Not \/ Negate \/ SetLocal
    BY <2>2, <2>3 DEF Not, Negate, SetLocal, Takes, Replace, NoError, Fail, Supplied, Errors,
       Shortages
  <2>4. CASE Pop \/ JumpIfFalse \/ Return
    BY <2>2, <2>4 DEF Pop, JumpIfFalse, Return, Takes, NoError, Fail, Supplied, Errors, Shortages
  <2> QED
    BY <1>4, <2>3, <2>4
<1>5. CASE Call \/ CallFunction \/ CallNative
  <2>1. Opcode = OP_CALL /\ Enough /\ Operand \in Nat
    BY <1>1, <1>5, FetchFacts
    DEF Call, CallFunction, CallNative, Fetch, Supported, ReadsOperand
  <2>2. ~(top <= Operand)
    BY <2>1, OperandsThere
  <2>3. CASE Call
    BY <2>2, <2>3 DEF Call, CallFails, Fail, Supplied, Errors, Shortages
  <2>4. CASE CallFunction
    <3>1. FrameError(bc, frames, Callee.as, CalleeSlots)
            \in {"call frame overflow", "local stack overflow", NoText}
      BY DEF FrameError
    <3> QED
      BY <2>4, <3>1 DEF CallFunction, PushFrame, Fail, Supplied, Errors, Shortages, NoText
  <2>5. CASE CallNative
    BY <2>5 DEF CallNative, CallFails, Replace, NoError, Fail, Supplied, Errors, Shortages
  <2> QED
    BY <1>5, <2>3, <2>4, <2>5
<1>6. CASE TruncatedOperand
  <2>1. Whole(bc, Fn, Current.ip)
    BY <1>6, PointWhole DEF TruncatedOperand
  <2>2. Width(Opcode) = 3
    BY <1>6 DEF TruncatedOperand, Truncated, ReadsOperand, Width, HasOperand
  <2>3. Current.ip \in Nat /\ Fn.code_size \in Nat
    BY CurrentFacts DEF Frame, Function
  <2>4. Current.ip + 3 <= Fn.code_size /\ Fn.code_size - Current.ip < 3
    BY <1>6, <2>1, <2>2 DEF Whole, Opcode, TruncatedOperand, Truncated
  <2> QED
    BY <2>3, <2>4
<1>7. CASE DivisionTraps \/ Jump \/ Halt \/ Unsupported \/ Spin
  BY <1>7 DEF DivisionTraps, Jump, Halt, Unsupported, Spin, Fail, Supplied, Errors, Shortages
<1> QED
  BY <1>2, <1>3, <1>4, <1>5, <1>6, <1>7 DEF Instruction

-----------------------------------------------------------------------------
(* The results on the stack: Stacked is inductive next to Inv.             *)

LEMMA InitStacked == Init => Stacked
BY DEF Init, Stacked, Running

LEMMA StackedPoint ==
  ASSUME Inv, Stacked, Running, Disciplined(bc)
  PROVE  At(bc, Current, top)
BY DEF Stacked, StackedBy, Current

LEMMA StackedAlways == Spec => [](Inv /\ Stacked)
<1>1. Init => Inv /\ Stacked
  BY InitInv, InitStacked
<1>2. Inv /\ Stacked /\ [Next]_vars => Inv' /\ Stacked'
  BY NextInv, NextStacks
<1> QED
  BY <1>1, <1>2, PTL DEF Spec

(* The callee and the arguments of every call lie above the locals of the frame
   that pushed them. *)
LEMMA StackedArguments == Inv /\ Stacked => ArgumentsAboveLocals
<1> SUFFICES ASSUME Inv, Stacked, Running, Disciplined(bc), NEW i \in 1..(Len(frames) - 1)
             PROVE  frames[i].slots + FunctionOf(frames[i]).local_count <= frames[i + 1].slots
  BY DEF ArgumentsAboveLocals
<1>1. Suspended(bc, frames[i], frames[i + 1].slots)
  BY DEF Stacked, StackedBy
<1> QED
  BY <1>1 DEF Suspended, FunctionOf

(* However jumps land, a suspended frame resumes behind the OP_CALL that
   suspended it, and the frame above it runs a function of the arity that call
   passed: only a call that succeeds pushes a frame, and nothing but OP_RETURN
   touches what lies below the last one (hvm_call_value, OP_RETURN).  Where the
   code keeps to the stack discipline, the slots of the frame above start above
   the locals of the suspended one (interpreter_loop.c: slots are stack_top less
   the arguments and the callee). *)
THEOREM CallersResume == Spec => []CallChain
<1>1. Init => Inv /\ ResumesBehindCall
  BY InitInv, InitChain
<1>2. Inv /\ ResumesBehindCall /\ [Next]_vars => Inv' /\ ResumesBehindCall'
  BY NextInv, NextKeepsChain
<1>3. Inv /\ Stacked /\ ResumesBehindCall => CallChain
  BY StackedArguments DEF CallChain
<1> QED
  BY <1>1, <1>2, <1>3, StackedAlways, PTL DEF Spec

(* Only an instruction is a step of the loop. *)
LEMMA RunningSteps ==
  ASSUME [Next]_vars, Running
  PROVE  Instruction \/ UNCHANGED vars
BY DEF Next, Execute, RegisterNative, Running

(* Disciplined code finds every operand it takes above the locals of its
   function, whatever it calls, however the calls end and whatever other
   modules ran on the VM before: hvm_pop never takes a local or a value of a
   caller, although it knows no frame. *)
THEOREM StackStaysBalanced == Spec => []BalancedStack
<1>1. Inv /\ Stacked => BalancedStack
  <2> SUFFICES ASSUME Inv, Stacked, Running, Disciplined(bc)
               PROVE  /\ top >= Current.slots + Fn.local_count
                      /\ Current.ip < Fn.code_size =>
                           top - Taken >= Current.slots + Fn.local_count
    BY DEF BalancedStack, Taken
  <2> QED
    BY StackedPoint, PointFacts DEF Enough
<1> QED
  BY <1>1, StackedAlways, PTL

(* No step of disciplined code writes a cell of its callers: what they have
   computed, half-evaluated expressions included, is there when they go on. *)
THEOREM CallersStayIsolated == Spec => CallerIsolated
<1>1. Inv /\ Stacked /\ [Next]_vars =>
        [Running =>
           \/ \A k \in 0..(Current.slots - 1) : stack'[k] = stack[k]
           \/ ~Disciplined(bc)]_vars
  <2> SUFFICES ASSUME Inv, Stacked, [Next]_vars, Running, Disciplined(bc)
               PROVE  CallersCells \/ UNCHANGED vars
    BY DEF CallersCells
  <2>1. CASE Instruction
    BY <2>1, InstructionStacks DEF FlowStep
  <2> QED
    BY <2>1, RunningSteps
<1> QED
  BY <1>1, StackedAlways, PTL DEF Spec, CallerIsolated

(* Disciplined code never fails for want of operands, nor for an instruction
   that the end of its function cuts off: of the checks the loop makes at every
   step (hvm_pop, hvm_peek, hvm_read_operand_u16), those are superfluous for it. *)
THEOREM DisciplinedSupplied == Spec => [][Running /\ Disciplined(bc) => Supplied]_vars
<1>1. Inv /\ Stacked /\ [Next]_vars => [Running /\ Disciplined(bc) => Supplied]_vars
  <2> SUFFICES ASSUME Inv, Stacked, [Next]_vars, Running, Disciplined(bc)
               PROVE  Supplied \/ UNCHANGED vars
    OBVIOUS
  <2>1. CASE Instruction
    BY <2>1, StackedPoint, InstructionSupplied
  <2> QED
    BY <2>1, RunningSteps
<1> QED
  BY <1>1, StackedAlways, PTL DEF Spec
=============================================================================
