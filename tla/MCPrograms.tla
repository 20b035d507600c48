----------------------------- MODULE MCPrograms -----------------------------
(* Small programs, as syntax trees: a main that calls f, and every f made of a *)
(* few statements.                                                             *)
EXTENDS Integers, Sequences

Int_(n) == [type |-> "int", value |-> n]
Str(n) == [type |-> "string", value |-> n]
True_ == [type |-> "bool", value |-> 1]
Id(x) == [type |-> "identifier", name |-> x]
Bin(op, l, r) == [type |-> "binary", op |-> op, left |-> l, right |-> r]
Un(op, e) == [type |-> "unary", op |-> op, operand |-> e]
CallOf(f, args) == [type |-> "call", callee |-> f, arguments |-> args]

Declares(x, e, mutable) ==
  [type |-> "variable", identifier |-> x, value |-> e, is_var |-> mutable]
Var(x, e) == Declares(x, e, TRUE)
Const(x, e) == Declares(x, e, FALSE)
Set(x, e) == [type |-> "assignment", identifier |-> x, value |-> e]
Show(e) == [type |-> "print", expression |-> e]
Do(e) == [type |-> "expression", expression |-> e]
Ret(value) == [type |-> "return", value |-> value]
Block(stmts) == [type |-> "block", statements |-> stmts]
If(c, then, else) == [type |-> "if", condition |-> c, then_branch |-> then, else_branch |-> else]
While(c, body) == [type |-> "while", condition |-> c, body |-> body]
For(init, c, update, body) ==
  [type |-> "for", init |-> init, condition |-> c, update |-> update, body |-> body]
CaseOf(value, body) == [value |-> value, body |-> body]
Switch(e, cases) == [type |-> "switch", expression |-> e, cases |-> cases]
Continue == [type |-> "continue"]
Func(name, params, body) ==
  [type |-> "function", name |-> name, params |-> params, body |-> body]

x == Id("x")
y == Id("y")
i == Id("i")
Count(n, body) ==
  For(<<Var("i", Int_(0))>>, <<Bin("<", i, n)>>, <<Set("i", Bin("+", i, Int_(1)))>>, body)

Program(main, params, f) == <<Func("main", << >>, main), Func("f", params, f)>>

(* What f(x) is made of. *)
BodyStatements ==
  {Set("x", Bin("*", x, Int_(3))),
   Set("y", Bin("-", x, y)),
   Show(y),
   If(Bin("<", x, Int_(1)), <<Ret(<<x>>)>>, << >>),
   If(Bin("==", x, y), <<Set("x", Un("-", x))>>, <<If(x, <<Show(x)>>, <<Block(<<Ret(<< >>)>>)>>)>>),
   Block(<<Var("z", x), Show(Bin("/", Id("z"), x))>>),
   Count(x, <<Show(i)>>),
   Switch(x, <<CaseOf(<< >>, <<Set("x", Int_(7))>>), CaseOf(<<Int_(0)>>, <<Show(Str(2))>>),
               CaseOf(<<Int_(1)>>, <<Ret(<<Str(3)>>)>>)>>),
   Do(Bin("+", y, y))}

Endings == {Ret(<<x>>), Ret(<<y>>), Show(Bin("+", y, x))}

DeclareY == {Var("y", Bin("+", x, Int_(1))), Const("y", Bin("+", Str(1), x))}

UpTo(n, prefix) ==
  {prefix \o body \o <<end>> : body \in UNION {[1..k -> BodyStatements] : k \in 0..n}, end \in Endings}

Fs == UpTo(1, << >>) \union UNION {UpTo(2, <<declaration>>) : declaration \in DeclareY}

TwoCalls == <<Var("a", CallOf("f", <<Int_(2)>>)), Show(Id("a")), Show(CallOf("f", <<Int_(0)>>)),
              Ret(<< >>)>>
Loop == <<Count(Int_(2), <<Show(CallOf("f", <<Bin("-", i, Int_(1))>>))>>)>>

(* Rejected, or failing, in a way of its own. *)
Others ==
  {Program(<<Show(CallOf("f", <<Int_(1), Int_(2)>>))>>, <<"x">>, <<Ret(<<x>>)>>),
   Program(<<Show(CallOf("g", << >>))>>, << >>, << >>),
   Program(<<Const("a", Int_(1)), Set("a", Int_(2)), Show(Id("a"))>>, << >>, << >>),
   Program(<<Var("a", Int_(1)), Var("a", Int_(2))>>, << >>, << >>),
   Program(<<Show(Bin("-", True_, Int_(1)))>>, << >>, << >>),
   Program(<<Show(Bin("+", True_, Int_(1)))>>, << >>, << >>),
   Program(<<Show(Bin("<", Str(1), Int_(1)))>>, << >>, << >>),
   Program(<<For(<< >>, << >>, << >>, <<Show(Int_(1)), Ret(<< >>)>>)>>, << >>, << >>),
   Append(Program(<<Show(CallOf("f", <<Int_(1), Int_(5)>>))>>, <<"x", "y">>,
                  <<Show(x), Ret(<<CallOf("g", <<y, x>>)>>)>>),
          Func("g", <<"y", "x">>, <<Ret(<<Bin("-", x, y)>>)>>)),
   Program(<<Show(CallOf("f", <<Int_(3)>>))>>, <<"x">>,
           <<If(Bin("<=", x, Int_(1)), <<Ret(<<Int_(1)>>)>>,
                <<Block(<<Ret(<<Bin("*", x, CallOf("f", <<Bin("-", x, Int_(1))>>))>>)>>)>>)>>),
   <<[type |-> "import"], Func("f", << >>, << >>)>>}

Family == {Program(main, <<"x">>, f) : main \in {TwoCalls, Loop}, f \in Fs} \union Others

(* Programs that mean something else than what they do. *)
Main(statements) == Program(statements, << >>, <<Ret(<<Int_(1)>>)>>)

WhileLoop == {Main(<<Var("i", Int_(0)),
                     While(Bin("<", i, Int_(2)), <<Show(i), Set("i", Bin("+", i, Int_(1)))>>)>>)}
ContinueLoop == {Main(<<Count(Int_(3), <<If(Bin("==", i, Int_(1)), <<Continue>>, << >>), Show(i)>>)>>)}
InnerName == {Main(<<Const("a", Int_(1)), Block(<<Var("a", Int_(2))>>), Show(Id("a"))>>)}
TailIf == {Program(<<Show(CallOf("f", <<Int_(1)>>))>>, <<"x">>,
                   <<If(Bin("<", x, Int_(1)), <<Ret(<<x>>)>>, << >>)>>)}
MinusName == {Main(<<Show(Un("!", Id("a")))>>)}
SwitchConst == {Main(<<Const("a", Int_(1)),
                       Switch(Int_(1), <<CaseOf(<<Int_(1)>>, <<Set("a", Int_(2))>>)>>)>>)}
BothTrue == {Main(<<Show(Bin("&&", True_, True_))>>)}

(* Accepted by the type checker, though a name is not in scope or a constant *)
(* is assigned: they mean nothing, and do something.                         *)
Unresolved == MinusName \union SwitchConst

(* Each of these disagrees by itself; all are seen with tlc -continue.       *)
Disagreeing == TailIf \union InnerName \union ContinueLoop \union WhileLoop \union Unresolved
=============================================================================
