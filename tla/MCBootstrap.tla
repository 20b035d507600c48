---------------------------- MODULE MCBootstrap ----------------------------
(* Sessions made of a few lines each, and small programs for the virtual      *)
(* machine: a block with two locals and two statements from a list.           *)
EXTENDS BsSession

n(v) == Literal(bs_int(v))
s(text) == Literal(bs_string(text))
x == Identifier("x")
a == Identifier("a")
b == Identifier("b")
i == Identifier("i")
g == Identifier("g")
Do(e) == ExprStmt(e)
Set(name, e) == Do(Assign(name, e))
Use(name, args) == CustomCall(name, args, NoNode)
Count(limit, body) ==
  For(VarDecl("i", n(0)), Binary("<", i, limit), Assign("i", Binary("+", i, n(1))), Block(body))

(* What may be typed; the last three are not accepted, and the last of them
   never read. *)
MCLines ==
  {Stmt(l) : l \in
     {VarDecl("x", n(1)), ConstDecl("x", n(2)), Set("x", Binary("+", x, n(1))),
      FuncDecl("f", <<"a">>, Block(<<If(Binary("<", a, n(2)), Block(<<Return(a)>>), NoNode),
                                     Do(Call("c", <<a>>)), Return(x)>>)),
      PrintStmt(Binary("+", Call("f", <<n(1)>>), Call("f", <<n(2)>>))),
      MacroDef("m", <<"a">>, Block(<<Count(a, <<If(Binary("==", i, n(1)), Block(<<Break>>), NoNode),
                                                 PrintsStmt(a)>>)>>)),
      Use("m", <<n(3)>>),
      MacroDef("w", <<"a", "b">>, Block(<<If(Unary("!", a), Do(b), Use("m", <<a>>))>>)),
      CustomCall("w", <<Call("m", <<n(1)>>)>>, Block(<<Use("m", <<n(1)>>), While(Binary("<", x, n(3)), Return(x))>>)),
      CommandDef("c", <<"a">>, Block(<<Use("m", <<a>>), While(a, Block(<<Set("a", Binary("-", a, n(1))), Continue>>))>>)),
      Do(Call("f", <<Assign("f", n(3))>>)),
      FuncDecl("h", << >>, Block(<<Use("m", <<n(2)>>)>>)), Do(Call("h", << >>)),
      CommandDef("m", <<"a">>, Block(<<PrintsStmt(a)>>)),
      CustomCall("c", <<n(2)>>, Block(<<Count(n(1), <<PrintStmt(x)>>)>>)),
      FuncDecl("main", << >>, Block(<<Count(x, <<PrintsStmt(i)>>), Return(x)>>)),
      Block(<<VarDecl("y", NoNode), Block(<<Set("y", Identifier("z"))>>)>>),
      For(VarDecl("i", n(0)), Unary("-", s("a")), NoNode, Block(<< >>)),
      Break}}
  \cup {Tokens(<<"{", "}", "}">>), Tokens(<<"{", ")", "}">>)}

(* A macro, and a command that calls it. *)
MCMacroLines ==
  {Stmt(Block(<<MacroDef("m", <<"a">>, Block(<<PrintsStmt(a)>>)),
                CommandDef("c", <<"a">>, Block(<<Use("m", <<a>>)>>)),
                Use("c", <<n(2)>>)>>))}

(* The statements in the middle of a program. *)
Middle ==
  {Set("a", Binary("+", b, n(1))), Set("g", Unary("!", a)), Set("b", Unary("!", Binary("&&", a, b))), Set("b", Binary("&&", a, b)),
   Set("b", Unary("!", Binary("||", a, Assign("g", b)))), Set("a", Unary("-", a)),
   PrintStmt(Binary("==", a, b)), PrintsStmt(Assign("g", Binary("!=", g, a))),
   Use("log", <<a, g>>), Set("g", Call("assert_eq", <<a, b>>)),
   Set("g", Identifier("u")), Use("nosuch", <<a>>), Use("c", <<a>>), Set("g", Call("a", <<b>>)), Return(a), PrintStmt(Binary("<", a, b)),
   If(Binary("||", a, b), Block(<<VarDecl("a", g), Set("g", a)>>), Block(<< >>)),
   If(a, Block(<<VarDecl("c", b), VarDecl("b", Identifier("c")), PrintStmt(b)>>), Block(<<Set("b", g)>>)),
   Block(<<VarDecl("i", n(0)),
           While(Binary("<", i, n(2)),
                 Block(<<VarDecl("a", Binary("*", i, n(2))), Set("g", Binary("-", a, n(1))),
                         Set("i", Binary("+", i, n(1)))>>))>>),
   Set("g", Binary("/", n(7), n(2))), Set("g", Binary("%", Unary("-", n(7)), n(2)))}

MCPrograms ==
  {Source(Block(<<CommandDef("c", <<"a">>, Block(<<PrintsStmt(a)>>)), VarDecl("g", NoNode),
                  Block(<<VarDecl("a", e), VarDecl("b", f), one, two>>), PrintStmt(g)>>)) :
     e \in {n(0), s("a")}, f \in {n(2), Literal(bs_bool(TRUE)), Literal(bs_null)}, one \in Middle, two \in Middle}

MCBareIfs ==
  {Source(Block(<<VarDecl("g", e),
                  Block(<<VarDecl("a", f), VarDecl("b", n(3)), If(g, Block(<<Set("a", g)>>), NoNode),
                          one, Set("g", Binary("+", g, b))>>), PrintStmt(g)>>)) :
     e \in {n(0), n(1)}, f \in {n(2), n(5)}, one \in {Set("a", n(1)), PrintStmt(a)}}
-----------------------------------------------------------------------------
(* Every operator under every other, on both sides, and in every place of a
   statement where an expression goes. *)
Leaves == {x, n(1)}
Ops == {"||", "&&", "==", "<", "+", "-", "*"}
Compound(kids) ==
  {Binary(op, l, r) : op \in Ops, l \in kids, r \in kids}
  \cup {Unary("-", e) : e \in kids} \cup {Assign("x", e) : e \in kids} \cup {Call("f", <<e, x>>) : e \in kids}
Trees == Compound({x} \cup Compound({x}))

Places ==
  {Do(e) : e \in Trees}
  \cup {place \in
          UNION {{ConstDecl("x", e), If(e, Do(e), Return(e)), While(e, Block(<<Break, Do(e)>>)),
                  For(Do(e), e, e, Continue), For(NoNode, NoNode, NoNode, Package("p")),
                  PrintsStmt(e), Return(NoNode), MacroDef("m", <<"a", "b">>, Do(e)),
                  FuncDecl("f", << >>, Block(<<Import("i"), Block(<<Use("f", <<e>>)>>)>>)),
                  CommandDef("c", <<"a">>, Block(<<CustomCall("c", <<e, e>>, Block(<< >>))>>))} :
                 e \in Compound({x})} : TRUE}

MCWritten == {Stmt(place) : place \in Places}

(* Any few tokens: nearly all of them wrong. *)
Some == Tokens(<<"{", "}", "(", ")", ";", "+=", "print", "let", "for", "if", "command", "=>", "-">>) \o <<Name("x"), LiteralToken(bs_int(1))>>
MCSources ==
  MCWritten \cup {<<Tok("{"), Some[j], Some[k], Some[l]>> : j, k, l \in DOMAIN Some}
=============================================================================
