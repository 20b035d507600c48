------------------------------- MODULE MCHVM -------------------------------
(* Small instances of the VM: modules of two functions, main and f.         *)
EXTENDS HVM, SequencesExt

MCNative == {[name |-> "host", arity |-> 1], [name |-> "f", arity |-> -1]}
MCIntMin == -4
MCNoNatives == {}
MCResults == {Nil, IntValue(1)}

Op1(op) == <<op>>
Op3(op, operand) == <<op, operand, 0>>

MCConstants == <<IntValue(1), [tag |-> "string", as |-> 0], IntValue(-1),
                 IntValue(IntMin), [tag |-> "float", as |-> 0], IntValue(0)>>
MCGlobals == <<"print", "f", "audio.play", "host", "nothing">>

TwoFunctions(main, f, arity, locals) ==
  [entry |-> 0, constants |-> MCConstants, globals |-> MCGlobals,
   functions |-> <<[name |-> "main", arity |-> 0, local_count |-> 2, max_stack |-> 1,
                    code_offset |-> 0, code_size |-> Len(main)],
                   [name |-> "f", arity |-> arity, local_count |-> locals, max_stack |-> 1,
                    code_offset |-> Len(main), code_size |-> Len(f)]>>,
   code |-> main \o f]

(* Every f of at most three instructions of these, called by a main that    *)
(* stores the result.                                                       *)
Alphabet ==
  {Op1(op) : op \in {OP_NIL, OP_TRUE, OP_POP, OP_NOT, OP_ADD, OP_EQ, OP_RETURN, OP_DUP}}
    \union {Op3(OP_CONSTANT, c) : c \in {0, 1}}
    \union {Op3(OP_GET_LOCAL, 1), Op3(OP_SET_LOCAL, 0), Op3(OP_GET_GLOBAL, 1)}
    \union {Op3(OP_CALL, n) : n \in {0, 1}}
    \union {Op3(OP_JUMP, 0), Op3(OP_JUMP, 5), Op3(OP_JUMP_IF_FALSE, 4)}

Bodies(n) == {FlattenSeq(body) : body \in UNION {[1..k -> Alphabet] : k \in 1..n}}

CallsF ==
  Op3(OP_GET_GLOBAL, 1) \o Op3(OP_CONSTANT, 0) \o Op3(OP_CALL, 1)
    \o Op3(OP_SET_LOCAL, 1) \o Op1(OP_RETURN)

EnumeratedModules == {TwoFunctions(CallsF, f, 1, 2) : f \in Bodies(3)}

(* Modules chosen for what they reach; a jump to 1 or 4 lands in the operand *)
(* of the instruction there, and executes the operand as an instruction.    *)
OnlyMain(main) == TwoFunctions(main, Op1(OP_HALT), 0, 0)

Binary(left, right, op) == OnlyMain(Op3(OP_CONSTANT, left) \o Op3(OP_CONSTANT, right) \o Op1(op))

Misaligned ==
  {OnlyMain(Op3(OP_JUMP, 1)),                                    \* truncated operand
   OnlyMain(Op3(OP_JUMP, 1) \o Op3(OP_GET_GLOBAL, 0))}           \* constant 9 * 256
    \union {OnlyMain(Op3(OP_JUMP, 4) \o Op3(OP_CALL, op) \o Op3(OP_CONSTANT, 0)) :
              op \in {OP_GET_LOCAL, OP_SET_LOCAL, OP_GET_GLOBAL, 77}}

Operators ==
  {Binary(l, r, op) : l \in {0, 1, 3}, r \in {0, 1, 2, 4, 5},
                      op \in {OP_ADD, OP_SUB, OP_MUL, OP_DIV, OP_LT, OP_LE, OP_GT, OP_GE, OP_NE}}
    \union {OnlyMain(Op3(OP_CONSTANT, c) \o Op1(OP_NEGATE)) : c \in {0, 1, 3}}

Underflows ==
  {OnlyMain(Op1(OP_POP) \o Op1(OP_POP) \o code) :
     code \in {Op1(OP_POP), Op1(OP_ADD), Op1(OP_EQ), Op1(OP_LT), Op1(OP_NOT), Op1(OP_NEGATE),
               Op1(OP_RETURN), Op3(OP_JUMP_IF_FALSE, 0), Op3(OP_SET_LOCAL, 0),
               Op3(OP_CALL, 0), Op3(OP_GET_LOCAL, 1)}}

SingleModules == Misaligned \union Operators \union Underflows

AnyModules == EnumeratedModules \union SingleModules

(* The session: what one execution leaves on the VM meets the next one.     *)
Recursive == TwoFunctions(CallsF, CallsF, 1, 2)
Deep == TwoFunctions(Op3(OP_GET_GLOBAL, 1) \o Op3(OP_CALL, 0),
                     Op1(OP_TRUE) \o Op3(OP_GET_GLOBAL, 1) \o Op3(OP_CALL, 0), 0, 1)
Dirty == OnlyMain(Op3(OP_CONSTANT, 1) \o Op3(OP_CONSTANT, 0) \o Op1(OP_EQ) \o Op1(OP_RETURN))
Sleeper == OnlyMain(Op3(OP_JUMP, 9))
Host == OnlyMain(Op3(OP_GET_GLOBAL, 3) \o Op3(OP_CONSTANT, 0) \o Op3(OP_CALL, 1) \o Op1(OP_HALT))
HostArity == OnlyMain(Op3(OP_GET_GLOBAL, 3) \o Op3(OP_CALL, 0) \o Op1(OP_HALT))
Wide == TwoFunctions(Op3(OP_GET_GLOBAL, 1) \o Op3(OP_CALL, 0), Op1(OP_HALT), 0, 9)
Audio == OnlyMain(Op3(OP_GET_GLOBAL, 2) \o Op3(OP_CONSTANT, 1) \o Op3(OP_CALL, 1) \o Op1(OP_RETURN))
PrintNil == OnlyMain(Op3(OP_GET_GLOBAL, 0) \o Op1(OP_NIL) \o Op3(OP_CALL, 1) \o Op1(OP_RETURN))
Nothing == OnlyMain(Op3(OP_GET_GLOBAL, 4))
WideMain == [Dirty EXCEPT !.functions[1].local_count = 9]
TwoLocals == [PrintNil EXCEPT !.functions[1].local_count = 4]
BadEntry == [Dirty EXCEPT !.entry = 2]
BadCode == OnlyMain(Op3(OP_GET_LOCAL, 2))

SessionModules == {Recursive, Deep, Dirty, Sleeper, Host, HostArity, Wide, Audio, PrintNil, Nothing,
                   WideMain, TwoLocals, BadEntry, BadCode}

\* What the configuration of findings looks at.
MCSurprising == SingleModules \union SessionModules

MCModules == AnyModules \union SessionModules

(* The VM of an enumerated module executes that one, on its own: what may   *)
(* precede and follow an execution is what the session modules are for.     *)
Alone == loaded # << >> /\ loaded[1] \in AnyModules

Unused == executions = 0 /\ natives = BuiltinNatives

MCNext ==
  \/ Instruction
  \/ Unused /\ \E module \in AnyModules : Execute(module)
  \/ ~Alone /\ \E module \in SessionModules : Execute(module)
  \/ ~Alone /\ \E native \in Natives : RegisterNative(native)

MCSpec == Init /\ [][MCNext]_vars
=============================================================================
