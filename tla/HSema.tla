------------------------------- MODULE HSema -------------------------------
(***************************************************************************)
(* The semantic analysis that decides which programs are compiled          *)
(* (compiler/src/sema/type_checker.c, symbol_table.c).  ctx is what        *)
(* SemaContext holds: the chain of scopes, innermost last, each a function *)
(* from names to symbols, and the codes of the errors reported so far;     *)
(* ctx.type is the type that check_expression returned last.               *)
(***************************************************************************)
EXTENDS Integers, SequencesExt, TLC

Symbol(kind, type, is_constant, param_count) ==
  [kind |-> kind, type |-> type, is_constant |-> is_constant, param_count |-> param_count]

NoSymbols == [name \in {} |-> Symbol("var", "any", FALSE, 0)]

Builtins ==
  LET Builtin(params) == Symbol("builtin", "void", TRUE, params)
  IN  "print" :> Builtin(1) @@ "prints" :> Builtin(1) @@ "window.create" :> Builtin(2) @@
      "audio.play" :> Builtin(1) @@ "text.create" :> Builtin(3)

(* hosc_symbol_table_create, _free, _define, _lookup_current and _lookup. *)
OpenScope(ctx) == [ctx EXCEPT !.scopes = Append(@, NoSymbols)]
CloseScope(ctx) == [ctx EXCEPT !.scopes = Front(@)]

DeclaredHere(ctx, name) == name \in DOMAIN Last(ctx.scopes)

Define(ctx, name, symbol) ==
  IF DeclaredHere(ctx, name) THEN ctx
  ELSE [ctx EXCEPT !.scopes = Append(Front(@), name :> symbol @@ Last(@))]

Depth(ctx, name) == SelectLastInSeq(ctx.scopes, LAMBDA scope : name \in DOMAIN scope)
Declared(ctx, name) == Depth(ctx, name) # 0
Lookup(ctx, name) == ctx.scopes[Depth(ctx, name)][name]

Report(ctx, code) == [ctx EXCEPT !.errors = Append(@, code), !.type = "error"]
Typed(ctx, type) == [ctx EXCEPT !.type = type]

-----------------------------------------------------------------------------
Comparisons == {"==", "!=", "<", "<=", ">", ">="}

RECURSIVE CheckExpression(_, _)

CheckBinary(ctx, expr) ==
  LET left == CheckExpression(ctx, expr.left)
      right == CheckExpression(left, expr.right)
      types == {left.type, right.type}
      number == IF "float" \in types THEN "float" ELSE "int"
  IN  CASE "error" \in types -> Typed(right, "error")
        [] expr.op = "+" -> Typed(right, IF "string" \in types THEN "string" ELSE number)
        [] expr.op \in {"-", "*", "/", "%"} ->
             IF types \intersect {"string", "bool"} # {} THEN Report(right, "H204")
             ELSE Typed(right, number)
        [] expr.op \in Comparisons -> Typed(right, "bool")
        [] OTHER -> Typed(right, "int")

(* The arguments of a builtin are not counted. *)
CheckCall(ctx, expr) ==
  LET arguments == FoldLeft(CheckExpression, ctx, expr.arguments)
      symbol == Lookup(ctx, expr.callee)
  IN  CASE ~Declared(ctx, expr.callee) -> Report(arguments, "H205")
        [] symbol.kind \notin {"func", "builtin"} -> Report(arguments, "H205")
        [] symbol.kind = "func" /\ symbol.param_count # Len(expr.arguments) ->
             Report(arguments, "H206")
        [] OTHER -> Typed(arguments, symbol.type)

(* A unary operation is of any type, and its operand is not looked at. *)
CheckExpression(ctx, expr) ==
  CASE expr.type \in {"int", "float", "string", "bool"} -> Typed(ctx, expr.type)
    [] expr.type = "identifier" -> IF Declared(ctx, expr.name)
                                   THEN Typed(ctx, Lookup(ctx, expr.name).type)
                                   ELSE Report(ctx, "H201")
    [] expr.type = "binary" -> CheckBinary(ctx, expr)
    [] expr.type = "call" -> CheckCall(ctx, expr)
    [] OTHER -> Typed(ctx, "any")

-----------------------------------------------------------------------------
RECURSIVE CheckStatement(_, _)

CheckStatements(ctx, statements) == FoldLeft(CheckStatement, ctx, statements)

CheckBlock(ctx, statements) == CloseScope(CheckStatements(OpenScope(ctx), statements))

CheckDeclaration(ctx, stmt) ==
  LET value == CheckExpression(ctx, stmt.value)
      type == IF value.type = "error" THEN "any" ELSE value.type
  IN  IF DeclaredHere(ctx, stmt.identifier) THEN Report(value, "H202")
      ELSE Define(value, stmt.identifier,
                  Symbol(IF stmt.is_var THEN "var" ELSE "const", type, ~stmt.is_var, 0))

CheckAssignment(ctx, stmt) ==
  LET value == CheckExpression(ctx, stmt.value)
  IN  CASE ~Declared(ctx, stmt.identifier) -> Report(value, "H201")
        [] Lookup(ctx, stmt.identifier).is_constant -> Report(value, "H203")
        [] OTHER -> value

CheckFor(ctx, stmt) ==
  LET init == CheckStatements(OpenScope(ctx), stmt.init)
      condition == FoldLeft(CheckExpression, init, stmt.condition)
      update == CheckStatements(condition, stmt.update)
  IN  CloseScope(CheckBlock(update, stmt.body))

(* Nothing inside a switch is checked. *)
CheckStatement(ctx, stmt) ==
  CASE stmt.type = "block" -> CheckBlock(ctx, stmt.statements)
    [] stmt.type = "variable" -> CheckDeclaration(ctx, stmt)
    [] stmt.type = "assignment" -> CheckAssignment(ctx, stmt)
    [] stmt.type \in {"print", "expression"} -> CheckExpression(ctx, stmt.expression)
    [] stmt.type = "if" -> CheckStatements(CheckBlock(CheckExpression(ctx, stmt.condition),
                                                      stmt.then_branch), stmt.else_branch)
    [] stmt.type = "while" -> CheckBlock(CheckExpression(ctx, stmt.condition), stmt.body)
    [] stmt.type = "for" -> CheckFor(ctx, stmt)
    [] stmt.type = "return" -> FoldLeft(CheckExpression, ctx, stmt.value)
    [] OTHER -> ctx

-----------------------------------------------------------------------------
(* hosc_type_check: the functions first, so that they may call each other,  *)
(* then every declaration.                                                  *)
RegisterFunction(ctx, declaration) ==
  CASE declaration.type # "function" -> ctx
    [] DeclaredHere(ctx, declaration.name) -> Report(ctx, "H202")
    [] OTHER -> Define(ctx, declaration.name,
                       Symbol("func", "any", TRUE, Len(declaration.params)))

CheckDeclared(ctx, declaration) ==
  LET Parameter(acc, name) == Define(acc, name, Symbol("var", "any", FALSE, 0))
      scope == FoldLeft(Parameter, OpenScope(ctx), declaration.params)
  IN  IF declaration.type = "function" THEN CloseScope(CheckBlock(scope, declaration.body))
      ELSE CheckStatement(ctx, declaration)

TypeErrors(ast) ==
  LET global == [scopes |-> <<Builtins>>, errors |-> << >>, type |-> "any"]
      registered == FoldLeft(RegisterFunction, global, ast)
  IN  FoldLeft(CheckDeclared, registered, ast).errors

TypeChecks(ast) == TypeErrors(ast) = << >>
=============================================================================
