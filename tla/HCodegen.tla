------------------------------ MODULE HCodegen ------------------------------
(***************************************************************************)
(* The code generator (compiler/src/frontend/pipeline.c): from the syntax  *)
(* tree the parser builds to a bytecode module.  The emitter e is a record *)
(* of what HbcEmitter and FunctionContext hold; e.names[i + 1] is the name *)
(* of slot i.  Once e.ok is FALSE no bytecode is built, so the rest of e   *)
(* does not matter.  An optional child of a node is a sequence of at most  *)
(* one element; the text of a string literal is a number.                  *)
(***************************************************************************)
EXTENDS HBytecode, HBind

CONSTANTS LocalsMax,   \* length of FunctionContext.names
          MaxStack     \* the max_stack declared for every function

Failed(e) == [e EXCEPT !.ok = FALSE]

EmitOp(e, op) == [e EXCEPT !.code = Append(@, op)]

EmitIndexed(e, op, index) ==
  IF index > 65535 THEN Failed(e)
  ELSE [e EXCEPT !.code = @ \o <<op, index % 256, index \div 256>>]

(* A jump whose target is patched in later, at the two bytes of its operand. *)
EmitJump(e, op) == EmitIndexed(e, op, 0)
Hole(e) == Len(e.code) - 1

(* Mutant: the target is counted from the start of the module. *)
PatchJumpAbsolute(e, hole, target) ==
  IF target > 65535 THEN Failed(e)
  ELSE [e EXCEPT !.code = ReplaceAt(ReplaceAt(@, hole, target % 256),
                                    hole + 1, target \div 256)]

PatchJump(e, hole, target) ==
  LET relative == target - e.start
  IN  IF relative > 65535 THEN Failed(e)
      ELSE [e EXCEPT !.code = ReplaceAt(ReplaceAt(@, hole, relative % 256),
                                        hole + 1, relative \div 256)]

PatchHere(e, hole) == PatchJump(e, hole, Len(e.code))

(* Every use of a literal is a constant of its own; a name is one global. *)
EmitConstant(e, tag, value) ==
  EmitIndexed([e EXCEPT !.constants = Append(@, [tag |-> tag, as |-> value])],
              OP_CONSTANT, Len(e.constants))

IndexOf(name, names) == SelectInSeq(names, LAMBDA n : n = name) - 1

EmitGlobal(e, name) ==
  IF name \in ToSet(e.globals)
  THEN EmitIndexed(e, OP_GET_GLOBAL, IndexOf(name, e.globals))
  ELSE EmitIndexed([e EXCEPT !.globals = Append(@, name)], OP_GET_GLOBAL, Len(e.globals))

FindLocal(e, name) == IndexOf(name, e.names)

-----------------------------------------------------------------------------
(* Expressions leave one value on the stack.                               *)

BinaryOp ==
  "+" :> OP_ADD @@ "-" :> OP_SUB @@ "*" :> OP_MUL @@ "/" :> OP_DIV @@
  "==" :> OP_EQ @@ "!=" :> OP_NE @@ "<" :> OP_LT @@ "<=" :> OP_LE @@
  ">" :> OP_GT @@ ">=" :> OP_GE

RECURSIVE CompileExpression(_, _)

CompileCall(e, expr) ==
  LET arguments == Fold(CompileExpression, EmitGlobal(e, expr.callee), expr.arguments)
  IN  EmitIndexed(arguments, OP_CALL, Len(expr.arguments))

CompileIdentifier(e, expr) ==
  IF FindLocal(e, expr.name) >= 0
  THEN EmitIndexed(e, OP_GET_LOCAL, FindLocal(e, expr.name))
  ELSE EmitOp(e, OP_NIL)

CompileUnary(e, expr) ==
  EmitOp(CompileExpression(e, expr.operand),
         CASE expr.op = "-" -> OP_NEGATE [] expr.op = "!" -> OP_NOT [] OTHER -> OP_NIL)

CompileBinary(e, expr) ==
  LET operands == CompileExpression(CompileExpression(e, expr.left), expr.right)
  IN  IF expr.op \in DOMAIN BinaryOp THEN EmitOp(operands, BinaryOp[expr.op])
      ELSE Failed(operands)

CompileExpression(e, expr) ==
  CASE expr.type \in {"string", "int", "float"} -> EmitConstant(e, expr.type, expr.value)
    [] expr.type = "bool" -> EmitOp(e, IF expr.value = 1 THEN OP_TRUE ELSE OP_FALSE)
    [] expr.type = "identifier" -> CompileIdentifier(e, expr)
    [] expr.type = "call" -> CompileCall(e, expr)
    [] expr.type = "unary" -> CompileUnary(e, expr)
    [] expr.type = "binary" -> CompileBinary(e, expr)

-----------------------------------------------------------------------------
(* Statements leave the stack as it was.                                   *)

RECURSIVE CompileStatement(_, _)

CompileBlock(e, statements) == Fold(CompileStatement, e, statements)

EmitStore(e, slot) == EmitOp(EmitIndexed(e, OP_SET_LOCAL, slot), OP_POP)

(* One slot per name and function: a declaration in an inner block takes the
   slot of a variable of that name declared anywhere before. *)
CompileDeclaration(e, stmt) ==
  LET known == FindLocal(e, stmt.identifier)
      slot == IF known >= 0 THEN known ELSE Len(e.names)
      declared == IF known >= 0 THEN e ELSE [e EXCEPT !.names = Append(@, stmt.identifier)]
  IN  IF Len(e.names) >= LocalsMax THEN Failed(e)
      ELSE EmitStore(CompileExpression(declared, stmt.value), slot)

CompileAssignment(e, stmt) ==
  LET slot == FindLocal(e, stmt.identifier)
  IN  IF slot < 0 THEN Failed(e) ELSE EmitStore(CompileExpression(e, stmt.value), slot)

CompilePrint(e, stmt) ==
  EmitOp(EmitIndexed(CompileExpression(EmitGlobal(e, "print"), stmt.expression), OP_CALL, 1),
         OP_POP)

CompileIf(e, stmt) ==
  Bind(EmitJump(CompileExpression(e, stmt.condition), OP_JUMP_IF_FALSE), LAMBDA test :
  Bind(CompileBlock(test, stmt.then_branch), LAMBDA then :
    IF stmt.else_branch = << >> THEN PatchHere(then, Hole(test))
    ELSE Bind(EmitJump(then, OP_JUMP), LAMBDA skip :
         Bind(PatchHere(skip, Hole(test)), LAMBDA else :
           PatchHere(CompileBlock(else, stmt.else_branch), Hole(skip))))))

(* Mutant: the update comes before the body. *)
CompileForUpdateFirst(e, stmt) ==
  Bind(CompileBlock(e, stmt.init), LAMBDA init :
  Bind(IF stmt.condition = << >> THEN init
       ELSE EmitJump(CompileExpression(init, stmt.condition[1]), OP_JUMP_IF_FALSE), LAMBDA test :
  Bind(EmitJump(CompileBlock(CompileBlock(test, stmt.update), stmt.body), OP_JUMP), LAMBDA jump :
  Bind(PatchJump(jump, Hole(jump), Len(init.code)), LAMBDA loop :
    IF stmt.condition = << >> THEN loop ELSE PatchHere(loop, Hole(test))))))

CompileFor(e, stmt) ==
  Bind(CompileBlock(e, stmt.init), LAMBDA init :
  Bind(IF stmt.condition = << >> THEN init
       ELSE EmitJump(CompileExpression(init, stmt.condition[1]), OP_JUMP_IF_FALSE), LAMBDA test :
  Bind(EmitJump(CompileBlock(CompileBlock(test, stmt.body), stmt.update), OP_JUMP), LAMBDA jump :
  Bind(PatchJump(jump, Hole(jump), Len(init.code)), LAMBDA loop :
    IF stmt.condition = << >> THEN loop ELSE PatchHere(loop, Hole(test))))))

CompileReturn(e, stmt) ==
  EmitOp(IF stmt.value = << >> THEN EmitOp(e, OP_NIL) ELSE CompileExpression(e, stmt.value[1]),
         OP_RETURN)

(* The cases are tested in order, the last default runs if none matches,
   wherever it stands.  Every switch has a slot of its own. *)
CompileSwitch(e, stmt) ==
  LET slot == Len(e.names)
      Case(acc, case) ==
        IF case.value = << >> THEN [acc EXCEPT !.default = case.body] ELSE
        Bind(EmitJump(EmitOp(CompileExpression(EmitIndexed(acc.e, OP_GET_LOCAL, slot),
                                               case.value[1]), OP_EQ), OP_JUMP_IF_FALSE),
             LAMBDA test :
        Bind(EmitJump(CompileBlock(test, case.body), OP_JUMP), LAMBDA leave :
          [acc EXCEPT !.e = PatchHere(leave, Hole(test)), !.ends = Append(@, Hole(leave))]))
      value == EmitStore(CompileExpression([e EXCEPT !.names = Append(@, "<switch>")],
                                           stmt.expression), slot)
  IN  IF slot >= LocalsMax THEN Failed(e)
      ELSE Bind(Fold(Case, [e |-> value, ends |-> << >>, default |-> << >>], stmt.cases),
                LAMBDA cases : Fold(PatchHere, CompileBlock(cases.e, cases.default), cases.ends))

(* A statement of any other type compiles to nothing. *)
CompileStatement(e, stmt) ==
  CASE stmt.type = "block" -> CompileBlock(e, stmt.statements)
    [] stmt.type = "variable" -> CompileDeclaration(e, stmt)
    [] stmt.type = "assignment" -> CompileAssignment(e, stmt)
    [] stmt.type = "print" -> CompilePrint(e, stmt)
    [] stmt.type = "expression" -> EmitOp(CompileExpression(e, stmt.expression), OP_POP)
    [] stmt.type = "if" -> CompileIf(e, stmt)
    [] stmt.type = "for" -> CompileFor(e, stmt)
    [] stmt.type = "return" -> CompileReturn(e, stmt)
    [] stmt.type = "switch" -> CompileSwitch(e, stmt)
    [] OTHER -> e

-----------------------------------------------------------------------------
(* Programs.                                                               *)

(* What the code ends with decides whether a return is appended, although a
   jump may lead behind it.  Of the parameters, at most 255, there is room for
   the names (FunctionContext). *)
CompileFunction(acc, fn) ==
  LET start == Len(acc.e.code)
      entered == [acc.e EXCEPT !.start = start, !.names = <<NoName>> \o fn.params]
      Ended(body) == Len(body.code) > start /\ Last(body.code) = OP_RETURN
  IN  Bind(CompileBlock(entered, fn.body), LAMBDA body :
      Bind(IF Ended(body) THEN body ELSE EmitOp(EmitOp(body, OP_NIL), OP_RETURN), LAMBDA done :
        [e |-> done,
         functions |-> Append(acc.functions,
           [name |-> fn.name, arity |-> Len(fn.params), local_count |-> Len(done.names),
            max_stack |-> MaxStack, code_offset |-> start,
            code_size |-> Len(done.code) - start])]))

(* The functions among the declarations; every other declaration is left out. *)
CollectFunctions(ast) == SelectSeq(ast, LAMBDA declaration : declaration.type = "function")

(* hosc_build_ast_bytecode: at most one module. *)
BuildBytecode(ast) ==
  LET functions == CollectFunctions(ast)
      main == SelectInSeq(functions, LAMBDA fn : fn.name = "main")
      empty == [code |-> << >>, constants |-> << >>, globals |-> << >>, names |-> << >>,
                start |-> 0, ok |-> TRUE]
  IN  Bind(Fold(CompileFunction, [e |-> empty, functions |-> << >>], functions), LAMBDA built :
        IF main = 0 \/ ~built.e.ok THEN << >>
        ELSE <<[entry |-> main - 1, constants |-> built.e.constants,
                globals |-> built.e.globals, functions |-> built.functions,
                code |-> built.e.code]>>)
=============================================================================
