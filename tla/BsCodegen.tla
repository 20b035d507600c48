----------------------------- MODULE BsCodegen -----------------------------
(***************************************************************************)
(* The bytecode of the bootstrap tool chain (bootstrap/src/bs_bytecode.c)  *)
(* and its compiler (bs_codegen.c).  Code is a sequence of bytes, an       *)
(* opcode its number in BsOpCode; an offset here is one less than an       *)
(* index.  Functions, loops of for, break and continue have no code.       *)
(***************************************************************************)
EXTENDS BsRuntime

BsOpCode ==
  <<"HALT", "CONSTANT", "NULL", "TRUE", "FALSE", "POP",
    "+", "-", "*", "/", "%", "NEGATE", "NOT",
    "==", "!=", ">", ">=", "<", "<=",
    "DEFINE_GLOBAL", "GET_GLOBAL", "SET_GLOBAL", "GET_LOCAL", "SET_LOCAL",
    "JUMP", "JUMP_IF_FALSE", "LOOP", "CALL", "CALL_COMMAND", "PRINT", "PRINTS", "RETURN">>

OP(name) == CHOOSE op \in 0..(Len(BsOpCode) - 1) : BsOpCode[op + 1] = name

BsCompiler(registry) ==
  [code |-> << >>, constants |-> << >>, locals |-> << >>, depth |-> 0, ok |-> TRUE,
   registry |-> registry]

High(n) == (n \div 256) % 256
Low(n) == n % 256

Emit(c, bytes) == [c EXCEPT !.code = @ \o bytes]
EmitOp(c, name) == Emit(c, <<OP(name)>>)

(* An equal constant is shared; the number of one is a byte. *)
WithConstant(c, value) ==
  IF \E i \in DOMAIN c.constants : ValuesEqual(c.constants[i], value) THEN c
  ELSE [c EXCEPT !.constants = Append(@, value)]
ConstantIndex(c, value) ==
  (Min({i \in DOMAIN c.constants : ValuesEqual(c.constants[i], value)}) - 1) % 256
EmitConstant(c, name, value) ==
  Bind(WithConstant(c, value), LAMBDA w : Emit(w, <<OP(name), ConstantIndex(w, value)>>))

(* emit_jump; patch_jump of the jump that ended at that length of the code;
   emit_loop back to that length. *)
EmitJump(c, name) == Emit(c, <<OP(name), 255, 255>>)

PatchJump(c, end) ==
  LET jump == Len(c.code) - end
  IN  [c EXCEPT !.code[end - 1] = High(jump), !.code[end] = Low(jump)]

EmitLoop(c, start) ==
  LET offset == Len(c.code) + 1 - start + 2
  IN  Emit(c, <<OP("LOOP"), High(offset), Low(offset)>>)

-----------------------------------------------------------------------------
(* Locals: their number is their place on the stack. *)
LocalsNamed(c, name) == {i \in DOMAIN c.locals : c.locals[i].name = name}

AddLocal(c, name) ==
  IF Len(c.locals) >= 256 THEN c
  ELSE [c EXCEPT !.locals = Append(@, [name |-> name, depth |-> c.depth])]

BeginScope(c) == [c EXCEPT !.depth = @ + 1]

(* Mutant: the locals of the scope stay on the stack. *)
EndScopeKeeps(c) ==
  [c EXCEPT !.depth = @ - 1, !.locals = SelectSeq(@, LAMBDA local : local.depth < c.depth)]

EndScope(c) ==
  LET kept == SelectSeq(c.locals, LAMBDA local : local.depth < c.depth)
  IN  [c EXCEPT !.depth = @ - 1, !.locals = kept,
                !.code = @ \o [i \in 1..(Len(c.locals) - Len(kept)) |-> OP("POP")]]

(* The innermost local of that name, or the global. *)
EmitVariable(c, name, local, global) ==
  IF LocalsNamed(c, name) # {} THEN Emit(c, <<OP(local), Max(LocalsNamed(c, name)) - 1>>)
  ELSE EmitConstant(c, global, bs_string(name))

-----------------------------------------------------------------------------
RECURSIVE CompileExpr(_, _), CompileStmt(_, _)

CompileExprs(c, exprs) == Fold(CompileExpr, c, exprs)

CompileLiteral(c, value) ==
  CASE value.type = "null" -> EmitOp(c, "NULL")
    [] value.type = "bool" -> EmitOp(c, IF value.n = 1 THEN "TRUE" ELSE "FALSE")
    [] value.type \notin {"null", "bool"} -> EmitConstant(c, "CONSTANT", value)

CompileAnd(c, expr) ==
  Bind(EmitJump(CompileExpr(c, expr.kids[1]), "JUMP_IF_FALSE"), LAMBDA left :
    PatchJump(CompileExpr(EmitOp(left, "POP"), expr.kids[2]), Len(left.code)))

(* Mutant: the value of the left side stays below that of the right side. *)
CompileOrKeeps(c, expr) ==
  Bind(EmitJump(CompileExpr(c, expr.kids[1]), "JUMP_IF_FALSE"), LAMBDA left :
  Bind(EmitJump(left, "JUMP"), LAMBDA taken :
    PatchJump(CompileExpr(PatchJump(taken, Len(left.code)), expr.kids[2]), Len(taken.code))))

CompileOr(c, expr) ==
  Bind(EmitJump(CompileExpr(c, expr.kids[1]), "JUMP_IF_FALSE"), LAMBDA left :
  Bind(EmitJump(left, "JUMP"), LAMBDA taken :
    PatchJump(CompileExpr(EmitOp(PatchJump(taken, Len(left.code)), "POP"), expr.kids[2]),
              Len(taken.code))))

EmitCommand(c, name, argc) ==
  Bind(EmitConstant(c, "CALL_COMMAND", bs_string(name)), LAMBDA call : Emit(call, <<argc % 256>>))

CompileCall(c, expr) ==
  Bind(CompileExprs(c, expr.kids), LAMBDA args :
    IF HasKind(c.registry, expr.name, "native") THEN EmitCommand(args, expr.name, Len(expr.kids))
    ELSE Emit(EmitVariable(args, expr.name, "GET_LOCAL", "GET_GLOBAL"),
              <<OP("CALL"), Len(expr.kids) % 256>>))

CompileExpr(c, expr) ==
  CASE expr.type = "none" -> [c EXCEPT !.ok = FALSE]
    [] expr.type = "literal" -> CompileLiteral(c, expr.value)
    [] expr.type = "identifier" -> EmitVariable(c, expr.name, "GET_LOCAL", "GET_GLOBAL")
    [] expr.type = "unary" ->
         EmitOp(CompileExpr(c, expr.kids[1]), IF expr.name = "!" THEN "NOT" ELSE "NEGATE")
    [] expr.type = "binary" /\ expr.name = "&&" -> CompileAnd(c, expr)
    [] expr.type = "binary" /\ expr.name = "||" -> CompileOr(c, expr)
    [] expr.type = "binary" /\ expr.name \notin {"&&", "||"} ->
         EmitOp(CompileExprs(c, expr.kids), expr.name)
    [] expr.type = "assign" ->
         EmitVariable(CompileExpr(c, expr.kids[1]), expr.name, "SET_LOCAL", "SET_GLOBAL")
    [] expr.type = "call" -> CompileCall(c, expr)
    [] OTHER -> c

-----------------------------------------------------------------------------
(* A value that may be left out. *)
CompileOptional(c, expr) == IF expr = NoNode THEN EmitOp(c, "NULL") ELSE CompileExpr(c, expr)

CompileDeclaration(c, stmt) ==
  Bind(CompileOptional(c, stmt.kids[1]), LAMBDA value :
    IF c.depth > 0 THEN AddLocal(value, stmt.name)
    ELSE EmitConstant(value, "DEFINE_GLOBAL", bs_string(stmt.name)))

CompileIf(c, stmt) ==
  Bind(EmitJump(CompileExpr(c, stmt.kids[1]), "JUMP_IF_FALSE"), LAMBDA test :
  Bind(CompileStmt(EmitOp(test, "POP"), stmt.kids[2]), LAMBDA then :
    IF stmt.kids[3] = NoNode THEN EmitOp(PatchJump(then, Len(test.code)), "POP")
    ELSE Bind(EmitJump(then, "JUMP"), LAMBDA over :
         PatchJump(CompileStmt(EmitOp(PatchJump(over, Len(test.code)), "POP"), stmt.kids[3]),
                   Len(over.code)))))

CompileWhile(c, stmt) ==
  Bind(EmitJump(CompileExpr(c, stmt.kids[1]), "JUMP_IF_FALSE"), LAMBDA test :
  Bind(CompileStmt(EmitOp(test, "POP"), stmt.kids[2]), LAMBDA body :
    EmitOp(PatchJump(EmitLoop(body, Len(c.code)), Len(test.code)), "POP")))

(* Every call that stands as a statement calls a command; the block after it
   is left out. *)
CompileCustom(c, stmt) ==
  EmitOp(EmitCommand(CompileExprs(c, Front(stmt.kids)), stmt.name, Len(stmt.kids) - 1), "POP")

CompileStmt(c, stmt) ==
  CASE stmt.type \in {"var", "const"} -> CompileDeclaration(c, stmt)
    [] stmt.type = "expr" -> EmitOp(CompileExpr(c, stmt.kids[1]), "POP")
    [] stmt.type = "block" -> EndScope(Fold(CompileStmt, BeginScope(c), stmt.kids))
    [] stmt.type = "if" -> CompileIf(c, stmt)
    [] stmt.type = "while" -> CompileWhile(c, stmt)
    [] stmt.type = "print" -> EmitOp(CompileOptional(c, stmt.kids[1]), "PRINT")
    [] stmt.type = "prints" -> EmitOp(CompileOptional(c, stmt.kids[1]), "PRINTS")
    [] stmt.type = "return" -> EmitOp(CompileOptional(c, stmt.kids[1]), "RETURN")
    [] stmt.type = "custom" -> CompileCustom(c, stmt)
    [] OTHER -> c

bs_compile_ast(registry, program) ==
  EmitOp(Fold(CompileStmt, BsCompiler(registry), program.kids), "HALT")
=============================================================================
