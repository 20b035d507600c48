----------------------------- MODULE HLanguage -----------------------------
(***************************************************************************)
(* What a HOSC program means, by its syntax tree alone: the specification  *)
(* that the code generator and the VM have to implement together.  Names   *)
(* are resolved through nested scopes, as the type checker resolves them   *)
(* (type_checker.c), and every statement does what its node says.          *)
(*                                                                         *)
(* A value is a record of a tag and a payload, as in the VM, but a string  *)
(* is its text: the sequence of the literals and numbers it was            *)
(* concatenated from.                                                      *)
(***************************************************************************)
EXTENDS HValue, HSema, HBind

CONSTANT Programs   \* syntax trees, as HCodegen describes them

(* What printing a value shows. *)
Text(v) == IF v.tag = "string" THEN v.as ELSE <<v>>
StringValue(text) == [tag |-> "string", as |-> text]

(***************************************************************************)
(* The state s of an evaluation: the scopes, innermost last, each from     *)
(* names to [value, fixed]; what was printed; the value computed last; and *)
(* why evaluation goes no further, if it does not: "return", "error" (the  *)
(* program fails) or "invalid" (a name or an assignment that the type      *)
(* checker should have refused).                                           *)
(***************************************************************************)
Yield(s, v) == [s EXCEPT !.value = v]
Stop(s, signal) == [s EXCEPT !.signal = signal]
Going(s) == s.signal = "next"

NoVariables == [name \in {} |-> [value |-> Nil, fixed |-> FALSE]]
Enter(s) == [s EXCEPT !.scopes = Append(@, NoVariables)]
Leave(s) == [s EXCEPT !.scopes = Front(@)]
ScopeOf(s, name) == SelectLastInSeq(s.scopes, LAMBDA scope : name \in DOMAIN scope)
Variable(s, name) == s.scopes[ScopeOf(s, name)][name]

Equal(a, b) == a.tag = b.tag /\ a.as = b.as
BothInts(a, b) == a.tag = "int" /\ b.tag = "int"

BinaryValue(s, op, a, b) ==
  CASE op = "==" -> Yield(s, Bool(Equal(a, b)))
    [] op = "!=" -> Yield(s, Bool(~Equal(a, b)))
    [] op = "&&" -> Yield(s, Bool(Truthy(a) /\ Truthy(b)))
    [] op = "||" -> Yield(s, Bool(Truthy(a) \/ Truthy(b)))
    [] op = "+" /\ ~BothInts(a, b) /\ Concatenable(a) /\ Concatenable(b) ->
         Yield(s, StringValue(Text(a) \o Text(b)))
    [] ~BothInts(a, b) \/ (op = "/" /\ b.as = 0) -> Stop(s, "error")
    [] op = "+" -> Yield(s, IntValue(Wrap(a.as + b.as)))
    [] op = "-" -> Yield(s, IntValue(Wrap(a.as - b.as)))
    [] op = "*" -> Yield(s, IntValue(Wrap(a.as * b.as)))
    [] op = "/" -> Yield(s, IntValue(Wrap(Quotient(a.as, b.as))))
    [] op = "<" -> Yield(s, Bool(a.as < b.as))
    [] op = "<=" -> Yield(s, Bool(a.as <= b.as))
    [] op = ">" -> Yield(s, Bool(a.as > b.as))
    [] op = ">=" -> Yield(s, Bool(a.as >= b.as))

UnaryValue(s, op, a) ==
  CASE op = "!" -> Yield(s, Bool(~Truthy(a)))
    [] op = "-" -> IF a.tag = "int" THEN Yield(s, IntValue(Wrap(-a.as))) ELSE Stop(s, "error")

RECURSIVE Evaluate(_, _, _), Perform(_, _, _)

(* The arguments, evaluated from the left: [s, values]. *)
Arguments(p, s, expressions) ==
  LET Argument(acc, expr) ==
        Bind(Evaluate(p, acc.s, expr), LAMBDA after :
          [s |-> after, values |-> Append(acc.values, after.value)])
  IN  Fold(Argument, [s |-> s, values |-> << >>], expressions)

Sequentially(p, s, statements) ==
  Fold(LAMBDA acc, stmt : Perform(p, acc, stmt), s, statements)

InBlock(p, s, statements) == Leave(Sequentially(p, Enter(s), statements))

(* The body sees its parameters and nothing of its caller. *)
Invoke(p, s, name, values) ==
  LET fn == p[SelectInSeq(p, LAMBDA f : f.name = name)]
      parameters == [x \in ToSet(fn.params) |->
                       [value |-> values[SelectLastInSeq(fn.params, LAMBDA q : q = x)],
                        fixed |-> FALSE]]
  IN  Bind(InBlock(p, [s EXCEPT !.scopes = <<parameters>>], fn.body), LAMBDA end :
        [end EXCEPT !.scopes = s.scopes,
                    !.value = IF end.signal = "return" THEN @ ELSE Nil,
                    !.signal = IF @ = "return" THEN "next" ELSE @])

Evaluate(p, s, expr) ==
  IF ~Going(s) THEN s ELSE
  CASE expr.type = "int" -> Yield(s, IntValue(expr.value))
    [] expr.type = "bool" -> Yield(s, Bool(expr.value = 1))
    [] expr.type = "string" -> Yield(s, StringValue(<<[tag |-> "string", as |-> expr.value]>>))
    [] expr.type = "identifier" ->
         IF ScopeOf(s, expr.name) = 0 THEN Stop(s, "invalid")
         ELSE Yield(s, Variable(s, expr.name).value)
    [] expr.type = "unary" ->
         Bind(Evaluate(p, s, expr.operand), LAMBDA a :
           IF Going(a) THEN UnaryValue(a, expr.op, a.value) ELSE a)
    [] expr.type = "binary" ->
         Bind(Evaluate(p, s, expr.left), LAMBDA a :
         Bind(Evaluate(p, a, expr.right), LAMBDA b :
           IF Going(b) THEN BinaryValue(b, expr.op, a.value, b.value) ELSE b))
    [] expr.type = "call" ->
         LET known == \E i \in 1..Len(p) : /\ p[i].name = expr.callee
                                           /\ Len(p[i].params) = Len(expr.arguments)
         IN  Bind(Arguments(p, s, expr.arguments), LAMBDA arguments :
               CASE ~Going(arguments.s) -> arguments.s
                 [] Going(arguments.s) /\ ~known -> Stop(s, "invalid")
                 [] Going(arguments.s) /\ known ->
                      Invoke(p, arguments.s, expr.callee, arguments.values))

Declare(s, name, fixed) ==
  IF ~Going(s) THEN s
  ELSE [s EXCEPT !.scopes = Append(Front(@), name :> [value |-> s.value, fixed |-> fixed] @@ Last(@))]

Assign(s, name) ==
  CASE ~Going(s) -> s
    [] ScopeOf(s, name) = 0 -> Stop(s, "invalid")
    [] OTHER -> IF Variable(s, name).fixed THEN Stop(s, "invalid")
                ELSE [s EXCEPT !.scopes[ScopeOf(s, name)][name].value = s.value]

RECURSIVE Iterate(_, _, _, _, _)

(* A loop: condition is << >> or <<expression>>. *)
Iterate(p, s, condition, body, update) ==
  Bind(IF condition = << >> THEN Yield(s, Bool(TRUE)) ELSE Evaluate(p, s, condition[1]),
       LAMBDA test :
    IF ~Going(test) \/ ~Truthy(test.value) THEN test ELSE
    Bind(InBlock(p, test, body), LAMBDA turn :
      IF turn.signal = "break" THEN Stop(turn, "next") ELSE
      Bind(IF turn.signal = "continue" THEN Stop(turn, "next") ELSE turn, LAMBDA ended :
        Iterate(p, Sequentially(p, ended, update), condition, body, update))))

Perform(p, s, stmt) ==
  IF ~Going(s) THEN s ELSE
  CASE stmt.type = "block" -> InBlock(p, s, stmt.statements)
    [] stmt.type = "variable" -> Declare(Evaluate(p, s, stmt.value), stmt.identifier, ~stmt.is_var)
    [] stmt.type = "assignment" -> Assign(Evaluate(p, s, stmt.value), stmt.identifier)
    [] stmt.type = "expression" -> Evaluate(p, s, stmt.expression)
    [] stmt.type = "print" ->
         Bind(Evaluate(p, s, stmt.expression), LAMBDA shown :
           IF Going(shown) THEN [shown EXCEPT !.out = Append(@, Text(shown.value))] ELSE shown)
    [] stmt.type = "return" ->
         Bind(IF stmt.value = << >> THEN Yield(s, Nil) ELSE Evaluate(p, s, stmt.value[1]),
              LAMBDA result : IF Going(result) THEN Stop(result, "return") ELSE result)
    [] stmt.type = "if" ->
         Bind(Evaluate(p, s, stmt.condition), LAMBDA test :
           CASE ~Going(test) -> test
             [] Going(test) /\ Truthy(test.value) -> InBlock(p, test, stmt.then_branch)
             [] Going(test) /\ ~Truthy(test.value) -> Sequentially(p, test, stmt.else_branch))
    [] stmt.type = "for" ->
         Leave(Iterate(p, Sequentially(p, Enter(s), stmt.init), stmt.condition,
                       stmt.body, stmt.update))
    [] stmt.type = "while" -> Iterate(p, s, <<stmt.condition>>, stmt.body, << >>)
    [] stmt.type \in {"break", "continue"} -> Stop(s, stmt.type)
    [] stmt.type = "switch" ->   \* the values of its cases print nothing
         LET Matches(value, case) ==
               /\ case.value # << >>
               /\ Equal(Evaluate(p, value, case.value[1]).value, value.value)
             Chosen(value) == SelectInSeq(stmt.cases, LAMBDA case : Matches(value, case))
             default == SelectLastInSeq(stmt.cases, LAMBDA case : case.value = << >>)
             Selected(value) == IF Chosen(value) # 0 THEN Chosen(value) ELSE default
         IN  Bind(Evaluate(p, s, stmt.expression), LAMBDA value :
               IF ~Going(value) \/ Selected(value) = 0 THEN value
               ELSE InBlock(p, value, stmt.cases[Selected(value)].body))

(* What a program prints, and how it ends; one with errors, or without a
   main, is not run. *)
Meaning(p) ==
  LET functions == SelectSeq(p, LAMBDA declaration : declaration.type = "function")
      start == [scopes |-> << >>, out |-> << >>, value |-> Nil, signal |-> "next"]
  IN  IF ~TypeChecks(p) \/ ~\E i \in 1..Len(functions) : functions[i].name = "main"
      THEN [out |-> << >>, outcome |-> "rejected"]
      ELSE Bind(Invoke(functions, start, "main", << >>), LAMBDA end :
             [out |-> end.out, outcome |-> IF Going(end) THEN "ok" ELSE end.signal])

-----------------------------------------------------------------------------
(* A run: the program prints, one text after the other, and ends.          *)

VARIABLES program, meaning, printed, outcome

lvars == <<program, meaning, printed, outcome>>

LInit ==
  /\ program \in Programs
  /\ meaning = Meaning(program)
  /\ printed = << >>
  /\ outcome = "running"

PrintNext ==
  /\ outcome = "running"
  /\ Len(printed) < Len(meaning.out)
  /\ printed' = Append(printed, meaning.out[Len(printed) + 1])
  /\ UNCHANGED <<program, meaning, outcome>>

Finish ==
  /\ outcome = "running"
  /\ printed = meaning.out
  /\ outcome' = meaning.outcome
  /\ UNCHANGED <<program, meaning, printed>>

LNext == PrintNext \/ Finish

LSpec == LInit /\ [][LNext]_lvars /\ WF_lvars(LNext)
=============================================================================
