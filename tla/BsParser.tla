----------------------------- MODULE BsParser -----------------------------
(***************************************************************************)
(* The parser of the bootstrap tool chain (bootstrap/src/bs_parser.c), on  *)
(* tokens.  p is a BsParser: the tokens it still has to read, the first of *)
(* them parser->current; had_error; and the node the last function         *)
(* returned.  An error is noted and parsing goes on where it is, so that   *)
(* the loop of a block may come round without having read a token: it does *)
(* not end then, and p.hangs says so.                                      *)
(***************************************************************************)
EXTENDS BsSyntax

Parser(tokens) == [rest |-> tokens, error |-> FALSE, hangs |-> FALSE, node |-> NoNode]

Current(p) == IF p.rest = << >> THEN Eof ELSE Head(p.rest)
At(p, kind) == Current(p).kind = kind
Next_(p) == IF p.rest = << >> THEN p ELSE [p EXCEPT !.rest = Tail(@)]
Failed(p) == [p EXCEPT !.error = TRUE, !.node = NoNode]
Returns(p, node) == [p EXCEPT !.node = node]

(* match, where nothing depends on it; consume. *)
Optional(p, kind) == IF At(p, kind) THEN Next_(p) ELSE p
Consume(p, kind) == IF At(p, kind) THEN Next_(p) ELSE [p EXCEPT !.error = TRUE]

-----------------------------------------------------------------------------
(* Expressions.                                                            *)

(* The binary operators, from the loosest; each level reads the next one
   on both sides and goes on to the right. *)
Levels == <<{"||"}, {"&&"}, {"==", "!="}, {">", ">=", "<", "<="}, {"+", "-"}, {"*", "/", "%"}>>

RECURSIVE Level(_, _), MoreOperands(_, _), UnaryExpr(_), MoreCalls(_), AssignmentExpr(_), MoreArguments(_, _)

Expression(p) == AssignmentExpr(p)

Primary(p) ==
  LET t == Current(p)
  IN  CASE t.kind \in {"null", "true", "false", "int", "string"} -> Returns(Next_(p), Literal(t.value))
        [] t.kind = "identifier" -> Returns(Next_(p), Identifier(t.name))
        [] t.kind = "(" -> Bind(Expression(Next_(p)), LAMBDA inner : Consume(inner, ")"))
        [] OTHER -> Failed(p)

(* A list of expressions up to the closing parenthesis, which is consumed;
   one that is not there leaves nothing in the list. *)
MoreArguments(p, args) ==
  Bind(Expression(p), LAMBDA arg :
    LET read == IF arg.node = NoNode THEN args ELSE Append(args, arg.node)
    IN  IF At(arg, ",") THEN MoreArguments(Next_(arg), read)
        ELSE [parser |-> Consume(arg, ")"), args |-> read])

ArgumentList(p) ==
  IF At(p, ")") THEN [parser |-> Next_(p), args |-> << >>] ELSE MoreArguments(p, << >>)

MoreCalls(p) ==
  IF ~At(p, "(") THEN p
  ELSE Bind(ArgumentList(Next_(p)), LAMBDA list :
         MoreCalls(Returns(list.parser,
           Call(IF p.node.type = "identifier" THEN p.node.name ELSE "<expr>", list.args))))

CallOrMember(p) == Bind(Primary(p), LAMBDA first : IF first.node = NoNode THEN first ELSE MoreCalls(first))

UnaryExpr(p) ==
  IF At(p, "!") \/ At(p, "-")
  THEN Bind(UnaryExpr(Next_(p)), LAMBDA right : Returns(right, Unary(Current(p).kind, right.node)))
  ELSE CallOrMember(p)

Level(p, n) ==
  IF n > Len(Levels) THEN UnaryExpr(p)
  ELSE Bind(Level(p, n + 1), LAMBDA first : MoreOperands(first, n))

(* Mutant: the right side is read at the level itself. *)
MoreOperandsRight(p, n) ==
  IF Current(p).kind \notin Levels[n] THEN p
  ELSE Bind(Level(Next_(p), n), LAMBDA right :
         Returns(right, Binary(Current(p).kind, p.node, right.node)))

MoreOperands(p, n) ==
  IF Current(p).kind \notin Levels[n] THEN p
  ELSE Bind(Level(Next_(p), n + 1), LAMBDA right :
         MoreOperands(Returns(right, Binary(Current(p).kind, p.node, right.node)), n))

(* A compound assignment to anything but a name is its left side, without
   an error. *)
AssignmentExpr(p) ==
  Bind(Level(p, 1), LAMBDA left :
    LET operator == Current(left).kind
        target == left.node
    IN  IF operator \notin {"=", "+=", "-="} THEN left
        ELSE Bind(AssignmentExpr(Next_(left)), LAMBDA value :
               CASE target.type = "identifier" /\ operator = "=" ->
                      Returns(value, Assign(target.name, value.node))
                 [] target.type = "identifier" /\ operator # "=" ->
                      Returns(value, Assign(target.name,
                        Binary(IF operator = "+=" THEN "+" ELSE "-", target, value.node)))
                 [] target.type # "identifier" /\ operator = "=" -> Failed(value)
                 [] target.type # "identifier" /\ operator # "=" -> Returns(value, target)))

-----------------------------------------------------------------------------
(* Statements.                                                             *)

RECURSIVE Statement(_), MoreStatements(_, _), MoreParameters(_, _)

Declaration(p, type) ==
  IF ~At(p, "identifier") THEN Failed(p)
  ELSE LET name == Current(p).name
           named == Next_(p)
       IN  Bind(IF At(named, "=") THEN Expression(Next_(named)) ELSE Returns(named, NoNode), LAMBDA value :
             Returns(Optional(value, ";"), Node(type, name, << >>, <<value.node>>)))

(* block_statement: up to the brace, errors or not. *)
MoreStatements(p, statements) ==
  IF At(p, "}") \/ At(p, "eof") THEN Returns(Consume(p, "}"), Block(statements))
  ELSE Bind(Statement(p), LAMBDA one :
         IF one.hangs \/ one.rest = p.rest THEN [one EXCEPT !.hangs = TRUE]
         ELSE MoreStatements(one, IF one.node = NoNode THEN statements
                                  ELSE Append(statements, one.node)))

BlockStatement(p) == MoreStatements(p, << >>)

(* The condition of if and while, in parentheses or not. *)
Condition(p) ==
  IF At(p, "(") THEN Bind(Expression(Next_(p)), LAMBDA inner : Consume(inner, ")"))
  ELSE Expression(p)

IfStatement(p) ==
  Bind(Condition(p), LAMBDA c :
  Bind(Statement(c), LAMBDA t :
    IF ~At(t, "else") THEN Returns(t, If(c.node, t.node, NoNode))
    ELSE Bind(Statement(Next_(t)), LAMBDA e : Returns(e, If(c.node, t.node, e.node)))))

WhileStatement(p) ==
  Bind(Condition(p), LAMBDA c : Bind(Statement(c), LAMBDA b : Returns(b, While(c.node, b.node))))

ForInit(p) ==
  CASE At(p, ";") -> Returns(Next_(p), NoNode)
    [] At(p, "var") \/ At(p, "let") -> Declaration(Next_(p), "var")
    [] OTHER -> Bind(Expression(p), LAMBDA e : Consume(Returns(e, ExprStmt(e.node)), ";"))

(* An expression unless the token is there; the token after it. *)
Clause(p, end) ==
  Consume(IF At(p, end) THEN Returns(p, NoNode) ELSE Expression(p), end)

ForStatement(p) ==
  Bind(ForInit(Consume(p, "(")), LAMBDA i :
  Bind(Clause(i, ";"), LAMBDA c :
  Bind(Clause(c, ")"), LAMBDA u :
  Bind(Statement(u), LAMBDA b : Returns(b, For(i.node, c.node, u.node, b.node))))))

MoreParameters(p, params) ==
  Bind(Consume(p, "identifier"), LAMBDA one :
    LET read == IF At(p, "identifier") THEN Append(params, Current(p).name) ELSE params
    IN  IF At(one, ",") THEN MoreParameters(Next_(one), read)
        ELSE [parser |-> one, params |-> read])

ParameterList(p) ==
  IF At(p, ")") THEN [parser |-> p, params |-> << >>] ELSE MoreParameters(p, << >>)

(* Function, command and macro: only the last two may have an expression
   for a body. *)
Definition(p, type) ==
  IF ~At(p, "identifier") THEN Failed(p)
  ELSE Bind(ParameterList(Consume(Next_(p), "(")), LAMBDA list :
       Bind(Consume(list.parser, ")"), LAMBDA head :
       Bind(IF type # "func" /\ At(head, "=>")
            THEN Bind(Expression(Next_(head)), LAMBDA e : Returns(Optional(e, ";"), ExprStmt(e.node)))
            ELSE BlockStatement(Consume(head, "{")),
            LAMBDA body : Returns(body, Node(type, Current(p).name, list.params, <<body.node>>)))))

PrintStatement(p, type) ==
  LET closing == IF At(p, "(") THEN ")" ELSE IF At(p, "[") THEN "]" ELSE ""
  IN  Bind(Expression(IF closing = "" THEN p ELSE Next_(p)), LAMBDA e :
      Bind(IF closing = "" THEN e ELSE Consume(e, closing), LAMBDA closed :
        Returns(Optional(closed, ";"), Node(type, "", << >>, <<e.node>>))))

ReturnStatement(p) ==
  Bind(IF At(p, ";") THEN Returns(p, NoNode) ELSE Expression(p), LAMBDA v :
    Returns(Optional(v, ";"), Return(v.node)))

ModuleStatement(p, type, kind) ==
  IF ~At(p, kind) THEN Failed(p)
  ELSE Returns(Optional(Next_(p), ";"),
               Node(type, IF kind = "string" THEN Current(p).value.text ELSE Current(p).name,
                    << >>, << >>))

(* A name with a parenthesis or a brace after it begins a command. *)
IsCommand(p) ==
  /\ At(p, "identifier")
  /\ Len(p.rest) > 1
  /\ p.rest[2].kind \in {"(", "{"}

CommandStatement(p) ==
  LET named == Next_(p)
  IN  Bind(IF At(named, "(") THEN ArgumentList(Next_(named)) ELSE [parser |-> named, args |-> << >>],
           LAMBDA list :
      Bind(IF At(list.parser, "{") THEN BlockStatement(Next_(list.parser))
           ELSE Returns(list.parser, NoNode), LAMBDA block :
        Returns(Optional(block, ";"), CustomCall(Current(p).name, list.args, block.node))))

Statement(p) ==
  LET after == Next_(p)
  IN  CASE At(p, "var") \/ At(p, "let") -> Declaration(after, "var")
        [] At(p, "const") -> Declaration(after, "const")
        [] At(p, "func") \/ At(p, "command") -> Definition(after, Current(p).kind)
        [] At(p, "macro") \/ At(p, "syntax") -> Definition(after, "macro")
        [] At(p, "if") -> IfStatement(after)
        [] At(p, "while") -> WhileStatement(after)
        [] At(p, "for") -> ForStatement(after)
        [] At(p, "{") -> BlockStatement(after)
        [] At(p, "return") -> ReturnStatement(after)
        [] At(p, "break") -> Returns(Optional(after, ";"), Break)
        [] At(p, "continue") -> Returns(Optional(after, ";"), Continue)
        [] At(p, "print") \/ At(p, "prints") -> PrintStatement(after, Current(p).kind)
        [] At(p, "package") -> ModuleStatement(after, "package", "identifier")
        [] At(p, "import") -> ModuleStatement(after, "import", "string")
        [] IsCommand(p) -> CommandStatement(p)
        [] OTHER -> Bind(Expression(p), LAMBDA e : Returns(Optional(e, ";"), ExprStmt(e.node)))

RECURSIVE MoreProgram(_, _)

MoreProgram(p, statements) ==
  IF At(p, "eof") \/ p.error \/ p.hangs THEN Returns(p, Block(statements))
  ELSE Bind(Statement(p), LAMBDA one :
         MoreProgram(one, IF one.node = NoNode THEN statements ELSE Append(statements, one.node)))

(* bs_parser_parse_program, on a source of these tokens. *)
Parse(tokens) == MoreProgram(Parser(tokens), << >>)

-----------------------------------------------------------------------------
(***************************************************************************)
(* The tokens a syntax tree of the bootstrap language is written with: the *)
(* parentheses that precedence calls for and no others.  This is what the  *)
(* parser has to undo; nothing in bootstrap/src/ prints source.            *)
(***************************************************************************)

Tokens(kinds) == [i \in DOMAIN kinds |-> Tok(kinds[i])]

(* How tightly an expression binds: assignments 0, the binary operators as in
   Levels, unary ones 7, all else 8. *)
Binding(expr) ==
  CASE expr.type = "assign" -> 0
    [] expr.type = "binary" -> CHOOSE n \in DOMAIN Levels : expr.name \in Levels[n]
    [] expr.type = "unary" -> 7
    [] OTHER -> 8

LiteralToken(value) ==
  Token(IF value.type = "bool" THEN Text(value) ELSE value.type, "", value)

RECURSIVE Expr(_, _), Stmt(_)

Separated(list) == Fold(LAMBDA done, item : IF done = << >> THEN item ELSE done \o Tokens(<<",">>) \o item, << >>, list)

Expr(expr, level) ==
  LET own == Binding(expr)
      text ==
        CASE expr.type = "literal" -> <<LiteralToken(expr.value)>>
          [] expr.type = "identifier" -> <<Name(expr.name)>>
          [] expr.type = "unary" -> Tokens(<<expr.name>>) \o Expr(expr.kids[1], 7)
          [] expr.type = "binary" ->
               Expr(expr.kids[1], own) \o Tokens(<<expr.name>>) \o Expr(expr.kids[2], own + 1)
          [] expr.type = "assign" -> <<Name(expr.name), Tok("=")>> \o Expr(expr.kids[1], 0)
          [] expr.type = "call" ->
               <<Name(expr.name), Tok("(")>>
               \o Separated([i \in DOMAIN expr.kids |-> Expr(expr.kids[i], 0)]) \o Tokens(<<")">>)
  IN  IF own < level THEN Tokens(<<"(">>) \o text \o Tokens(<<")">>) ELSE text

Optionally(lead, expr) == IF expr = NoNode THEN << >> ELSE lead \o Expr(expr, 0)
Parenthesised(expr) == Tokens(<<"(">>) \o Expr(expr, 0) \o Tokens(<<")">>)
Names(params) == Separated([i \in DOMAIN params |-> <<Name(params[i])>>])

(* A statement that would be taken for a call of a command is parenthesised. *)
Standing(expr) ==
  IF IsCommand(Parser(Expr(expr, 0))) THEN Parenthesised(expr) ELSE Expr(expr, 0)

StmtAll(statements) == FlattenSeq([i \in DOMAIN statements |-> Stmt(statements[i])])

Stmt(stmt) ==
  CASE stmt.type = "none" -> << >>
    [] stmt.type \in {"var", "const"} ->
         <<Tok(stmt.type), Name(stmt.name)>> \o Optionally(Tokens(<<"=">>), stmt.kids[1]) \o Tokens(<<";">>)
    [] stmt.type = "expr" -> Standing(stmt.kids[1]) \o Tokens(<<";">>)
    [] stmt.type = "block" -> Tokens(<<"{">>) \o StmtAll(stmt.kids) \o Tokens(<<"}">>)
    [] stmt.type = "if" ->
         Tokens(<<"if">>) \o Parenthesised(stmt.kids[1]) \o Stmt(stmt.kids[2])
         \o (IF stmt.kids[3] = NoNode THEN << >> ELSE Tokens(<<"else">>) \o Stmt(stmt.kids[3]))
    [] stmt.type = "while" -> Tokens(<<"while">>) \o Parenthesised(stmt.kids[1]) \o Stmt(stmt.kids[2])
    [] stmt.type = "for" ->
         Tokens(<<"for", "(">>) \o (IF stmt.kids[1] = NoNode THEN Tokens(<<";">>) ELSE Stmt(stmt.kids[1]))
         \o Optionally(<< >>, stmt.kids[2]) \o Tokens(<<";">>) \o Optionally(<< >>, stmt.kids[3])
         \o Tokens(<<")">>) \o Stmt(stmt.kids[4])
    [] stmt.type = "return" -> Tokens(<<"return">>) \o Optionally(<< >>, stmt.kids[1]) \o Tokens(<<";">>)
    [] stmt.type \in {"break", "continue"} -> Tokens(<<stmt.type, ";">>)
    [] stmt.type \in {"print", "prints"} ->
         Tokens(<<stmt.type>>) \o Parenthesised(stmt.kids[1]) \o Tokens(<<";">>)
    [] stmt.type = "package" -> <<Tok("package"), Name(stmt.name), Tok(";")>>
    [] stmt.type = "import" -> <<Tok("import"), Quoted(stmt.name), Tok(";")>>
    [] stmt.type \in {"func", "command", "macro"} ->
         <<Tok(stmt.type), Name(stmt.name), Tok("(")>> \o Names(stmt.params) \o Tokens(<<")">>)
         \o (IF stmt.kids[1].type = "expr" THEN Tokens(<<"=>">>) ELSE << >>) \o Stmt(stmt.kids[1])
    [] stmt.type = "custom" ->
         <<Name(stmt.name), Tok("(")>>
         \o Separated([i \in 1..(Len(stmt.kids) - 1) |-> Expr(stmt.kids[i], 0)]) \o Tokens(<<")">>)
         \o (IF Last(stmt.kids) = NoNode THEN Tokens(<<";">>) ELSE Stmt(Last(stmt.kids)))

Source(program) == StmtAll(program.kids)
=============================================================================
