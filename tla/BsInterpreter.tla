--------------------------- MODULE BsInterpreter ---------------------------
(***************************************************************************)
(* The tree walk (bootstrap/src/bs_interpreter.c).  An evaluation returns  *)
(* the runtime it leaves behind, a status (ok, return, break, continue or  *)
(* error) and a value.                                                     *)
(***************************************************************************)
EXTENDS BsRuntime

Result(rt, status, value) == [rt |-> rt, status |-> status, value |-> value]
Ok(rt, value) == Result(rt, "ok", value)
Error(rt) == Result([rt EXCEPT !.error = TRUE], "error", bs_null)

(* The steps after one that was ok. *)
IfOk(result, Steps(_)) == Bind(result, LAMBDA r : IF r.status = "ok" THEN Steps(r) ELSE r)

(* The mark a function leaves on the way out of a scope it opened. *)
Popped(r) == [r EXCEPT !.rt = PopScope(@)]

(* C division, which truncates; what is divided by zero is zero here. *)
Sign(n) == IF n < 0 THEN -1 ELSE 1
Quotient(a, b) == Sign(a) * Sign(b) * ((Sign(a) * a) \div (Sign(b) * b))

IntResult(op, a, b) ==
  CASE op = "+" -> bs_int(a + b)
    [] op = "-" -> bs_int(a - b)
    [] op = "*" -> bs_int(a * b)
    [] op = "/" -> bs_int(IF b = 0 THEN 0 ELSE Quotient(a, b))
    [] op = "%" -> bs_int(IF b = 0 THEN 0 ELSE a - b * Quotient(a, b))
    [] op = "==" -> bs_bool(a = b)
    [] op = "!=" -> bs_bool(a # b)
    [] op = "<" -> bs_bool(a < b)
    [] op = "<=" -> bs_bool(a <= b)
    [] op = ">" -> bs_bool(a > b)
    [] op = ">=" -> bs_bool(a >= b)

BinaryResult(op, a, b) ==
  CASE op = "+" /\ "string" \in {a.type, b.type} -> Concat(a, b)
    [] a.type = "int" /\ b.type = "int" -> IntResult(op, a.n, b.n)
    [] op = "==" /\ {a.type, b.type} # {"int"} -> bs_bool(ValuesEqual(a, b))
    [] op = "!=" /\ {a.type, b.type} # {"int"} -> bs_bool(~ValuesEqual(a, b))
    [] OTHER -> bs_null

-----------------------------------------------------------------------------
RECURSIVE Eval(_, _), Exec(_, _), Loop(_, _, _, _)

(* bs_eval_expression over a list: [rt, status, value, args]. *)
EvalArgs(rt, exprs) ==
  LET Arg(done, expr) ==
        IF done.status # "ok" THEN done
        ELSE Bind(Eval(done.rt, expr), LAMBDA r :
               [rt |-> r.rt, status |-> r.status, value |-> r.value, args |-> Append(done.args, r.value)])
  IN  Fold(Arg, [rt |-> rt, status |-> "ok", value |-> bs_null, args |-> << >>], exprs)

(* The body of a command or function in a scope with its parameters; those
   that have no argument are not defined, nor an argument too many.  The
   body's error and break end here. *)
Invoke(rt, params, args, body) ==
  LET Parameter(inner, i) == Define(inner, params[i], args[i], FALSE)
      last == Min({Len(params), Len(args)})
  IN  Popped(Exec(Fold(Parameter, PushScope(rt), [i \in 1..last |-> i]), body))

(* What a name calls: a command of the registry, whatever there is in the
   scopes, else a function. *)
Callable(rt, name) ==
  \/ Has(rt.registry, name)
  \/ /\ Knows(rt, Len(rt.scopes), name)
     /\ EntryOf(rt, Len(rt.scopes), name).value.type = "function"

Callee(rt, name) ==
  IF Has(rt.registry, name) THEN CommandOf(rt.registry, name)
  ELSE LET function == EntryOf(rt, Len(rt.scopes), name).value
       IN  Command(name, "function", Len(function.params), function.params, function.body)

(* A macro that was not expanded does nothing, without a message. *)
Apply(rt, callee, args) ==
  CASE callee.kind = "native" ->
         Ok(Write(rt, NativeOutput(callee.name, args)), NativeValue(callee.name, args))
    [] callee.kind = "macro" -> Ok([rt EXCEPT !.skipped = @ \cup {callee.name}], bs_null)
    [] callee.kind \in {"ast", "function"} ->
         Bind(Invoke(rt, callee.params, args, callee.body), LAMBDA r :
           Ok(r.rt, IF r.status = "return" \/ (r.status = "ok" /\ callee.kind = "ast")
                    THEN r.value ELSE bs_null))

(* What is called is what the name meant before the arguments.  (A command
   that an argument defines anew is gone by then: no program here does that.) *)
EvalCall(rt, name, exprs) ==
  IF ~Callable(rt, name) THEN Error(rt)
  ELSE Bind(Callee(rt, name), LAMBDA callee :
       Bind(EvalArgs(rt, exprs), LAMBDA a :
         IF a.status # "ok" THEN Result(a.rt, a.status, a.value)
         ELSE Apply(a.rt, callee, a.args)))

(* && and ||: the value of the left side alone decides, or the right one's. *)
ShortCircuit(rt, expr, decides) ==
  IfOk(Eval(rt, expr.kids[1]), LAMBDA left :
    IF Truthy(left.value) = decides THEN Ok(left.rt, bs_bool(decides))
    ELSE IfOk(Eval(left.rt, expr.kids[2]), LAMBDA right :
           Ok(right.rt, bs_bool(Truthy(right.value)))))

EvalUnary(op, r) ==
  CASE op = "!" -> Ok(r.rt, bs_bool(~Truthy(r.value)))
    [] op = "-" /\ r.value.type = "int" -> Ok(r.rt, bs_int(-r.value.n))
    [] op = "-" /\ r.value.type # "int" -> Error(r.rt)

(* A name that cannot be assigned to, unknown or constant, is defined here. *)
AssignOrDefine(rt, name, value) ==
  IF Assignable(rt, Len(rt.scopes), name) THEN AssignFrom(rt, Len(rt.scopes), name, value)
  ELSE Define(rt, name, value, FALSE)

Eval(rt, expr) ==
  CASE expr.type = "literal" -> Ok(rt, expr.value)
    [] expr.type = "identifier" ->
         IF Knows(rt, Len(rt.scopes), expr.name)
         THEN Ok(rt, EntryOf(rt, Len(rt.scopes), expr.name).value)
         ELSE Error(rt)
    [] expr.type = "unary" ->
         IfOk(Eval(rt, expr.kids[1]), LAMBDA r : EvalUnary(expr.name, r))
    [] expr.type = "binary" /\ expr.name \in {"&&", "||"} ->
         ShortCircuit(rt, expr, expr.name = "||")
    [] expr.type = "binary" /\ expr.name \notin {"&&", "||"} ->
         IfOk(Eval(rt, expr.kids[1]), LAMBDA left :
         IfOk(Eval(left.rt, expr.kids[2]), LAMBDA right :
           Ok(right.rt, BinaryResult(expr.name, left.value, right.value))))
    [] expr.type = "assign" ->
         IfOk(Eval(rt, expr.kids[1]), LAMBDA r :
           Ok(AssignOrDefine(r.rt, expr.name, r.value), r.value))
    [] expr.type = "call" -> EvalCall(rt, expr.name, expr.kids)
    [] OTHER -> Ok(rt, bs_null)

-----------------------------------------------------------------------------
(* A list of statements, until one of them is not ok. *)
ExecAll(rt, statements) ==
  LET One(done, stmt) == IF done.status # "ok" THEN done ELSE Exec(done.rt, stmt)
  IN  Fold(One, Ok(rt, bs_null), statements)

(* The loop of while and for; a condition of NoNode holds. *)
Loop(rt, condition, update, body) ==
  IfOk(IF condition = NoNode THEN Ok(rt, bs_bool(TRUE)) ELSE Eval(rt, condition), LAMBDA c :
    IF ~Truthy(c.value) THEN Ok(c.rt, bs_null)
    ELSE Bind(Exec(c.rt, body), LAMBDA b :
           CASE b.status = "break" -> Ok(b.rt, bs_null)
             [] b.status \in {"return", "error"} -> b
             [] b.status \in {"ok", "continue"} ->
                  IfOk(Eval(b.rt, update), LAMBDA u : Loop(u.rt, condition, update, body))))

(* Mutant: the scope of a for stays when its condition fails. *)
ExecForLeaks(rt, stmt) ==
  IfOk(Exec(PushScope(rt), stmt.kids[1]), LAMBDA i :
    Bind(Loop(i.rt, stmt.kids[2], stmt.kids[3], stmt.kids[4]), LAMBDA l :
      IF l.status = "error" THEN l ELSE Popped(l)))

ExecFor(rt, stmt) ==
  Popped(IfOk(Exec(PushScope(rt), stmt.kids[1]), LAMBDA i :
           Loop(i.rt, stmt.kids[2], stmt.kids[3], stmt.kids[4])))

(* The block after a call of a command is run after it; the one after a
   call of a function is not. *)
ExecCustom(rt, stmt) ==
  LET block == Last(stmt.kids)
  IN  IfOk(EvalCall(rt, stmt.name, Front(stmt.kids)), LAMBDA r :
        IF Has(rt.registry, stmt.name) THEN Exec(r.rt, block) ELSE Ok(r.rt, bs_null))

ExecPrint(rt, stmt) ==
  IfOk(Eval(rt, stmt.kids[1]), LAMBDA r :
    Ok(Write(r.rt, (IF stmt.kids[1] = NoNode THEN << >> ELSE <<Text(r.value)>>)
                   \o (IF stmt.type = "print" THEN <<"\n">> ELSE << >>)), bs_null))

Exec(rt, stmt) ==
  CASE stmt.type \in {"var", "const"} ->
         IfOk(Eval(rt, stmt.kids[1]), LAMBDA r :
           Ok(Define(r.rt, stmt.name, r.value, stmt.type = "const"), bs_null))
    [] stmt.type = "expr" -> IfOk(Eval(rt, stmt.kids[1]), LAMBDA r : Ok(r.rt, bs_null))
    [] stmt.type = "block" -> Popped(ExecAll(PushScope(rt), stmt.kids))
    [] stmt.type = "if" ->
         IfOk(Eval(rt, stmt.kids[1]), LAMBDA c :
           Exec(c.rt, IF Truthy(c.value) THEN stmt.kids[2] ELSE stmt.kids[3]))
    [] stmt.type = "while" -> Loop(rt, stmt.kids[1], NoNode, stmt.kids[2])
    [] stmt.type = "for" -> ExecFor(rt, stmt)
    [] stmt.type = "return" ->
         IfOk(Eval(rt, stmt.kids[1]), LAMBDA r : Result(r.rt, "return", r.value))
    [] stmt.type \in {"break", "continue"} -> Result(rt, stmt.type, bs_null)
    [] stmt.type \in {"print", "prints"} -> ExecPrint(rt, stmt)
    [] stmt.type = "func" ->
         Ok(Define(rt, stmt.name, bs_function(stmt.name, stmt.params, stmt.kids[1]), FALSE), bs_null)
    [] IsDefinition(stmt) -> Ok([rt EXCEPT !.registry = RegisterDefinition(@, stmt)], bs_null)
    [] stmt.type = "custom" -> ExecCustom(rt, stmt)
    [] OTHER -> Ok(rt, bs_null)

-----------------------------------------------------------------------------
(* bs_eval_program: the statements in the scope there is, past a break or a
   continue; then main, if there is one. *)
ExecProgram(rt, program) ==
  LET One(done, stmt) ==
        IF done.status \in {"error", "return"} THEN done ELSE Exec(done.rt, stmt)
      Main(r) == EntryOf(r.rt, Len(r.rt.scopes), "main").value
  IN  Bind(Fold(One, Ok(rt, bs_null), program.kids), LAMBDA r :
        CASE r.status = "error" -> r
          [] r.status # "error" /\ Knows(r.rt, Len(r.rt.scopes), "main") /\ Main(r).type = "function" ->
               Popped(Exec(PushScope(r.rt), Main(r).body))
          [] OTHER -> Ok(r.rt, bs_null))
=============================================================================
