------------------------------ MODULE HParser ------------------------------
(***************************************************************************)
(* The parser (compiler/src/parser.c) with the arena its trees live in     *)
(* (arena.c, ast_utils.c), from the tokens of HLexer to the trees of       *)
(* HCodegen.                                                               *)
(*                                                                         *)
(* p is a Parser: the tokens still to be read; the words left in the arena,*)
(* of which nothing is ever given back; the depth; the first message       *)
(* noted; and what the last function returned, p.ok being FALSE for NULL.  *)
(* The tokens end without TOKEN_EOF. A message is reduced to its kind, a   *)
(* position in the text to the tokens behind it.                           *)
(***************************************************************************)
EXTENDS HLexer, TLC

CONSTANTS MaxDepth,      \* MAX_PARSE_DEPTH
          NodeWords,     \* sizeof(ASTNode), in words of eight bytes
          LongTexts,     \* the texts longer than a node...
          LongWords,     \* ...and what one of them takes
          LikeKeyword,   \* the names at most two edits away from a keyword
          Misspelt       \* what a call of an unknown name is taken for

ItemWords == 2           \* sizeof(ASTNodeList)
TextWords(text) == IF text \in LongTexts THEN LongWords ELSE 1

BuiltinCalls == {"print", "prints", "window.create", "audio.play", "text.create"}

\* Wherever the word func stands before a name.
Functions(tokens) ==
  {tokens[i + 1].name : i \in {j \in 1 .. Len(tokens) - 1 :
                                 /\ tokens[j].type = "func"
                                 /\ tokens[j + 1].type = "identifier"}}

Parser(tokens, words) ==
  [rest |-> tokens, words |-> words, depth |-> 0, message |-> "none", ok |-> TRUE,
   node |-> << >>, known |-> BuiltinCalls \cup Functions(tokens)]

Peek(p, i) == IF i < Len(p.rest) THEN p.rest[i + 1] ELSE Eof
Current(p) == Peek(p, 0)
At(p, type) == Current(p).type = type
AtEnd(p) == p.rest = << >>
Advance(p) == IF AtEnd(p) THEN p ELSE [p EXCEPT !.rest = Tail(@)]

Null(p) == [p EXCEPT !.ok = FALSE]
Returns(p, node) == [p EXCEPT !.ok = TRUE, !.node = node]

\* parser_set_error: the first message stays.
Say(p, message) == IF p.message # "none" THEN p ELSE [p EXCEPT !.message = message]
Refuse(p, message) == Null(Say(p, message))

\* What a caller says of a function that returned NULL.
Demand(p, message) == IF p.ok THEN p ELSE Say(p, message)

\* match, where NULL is returned without it.
Expect(p, type) == IF ~p.ok THEN p ELSE IF At(p, type) THEN Advance(p) ELSE Null(p)
ExpectSaying(p, type) == IF ~p.ok THEN p ELSE Demand(Expect(p, type), "expected")

-----------------------------------------------------------------------------
(* The arena. *)

\* create_ast_node
Build(p, node) ==
  IF p.words < NodeWords THEN Null(p)
  ELSE Returns([p EXCEPT !.words = @ - NodeWords], node)

\* dup_str into a node made before: nobody looks whether there was room.
NoText == "<null>"
NoLiteral == -1
Fits(p, text) == TextWords(text) <= p.words
Kept(p, text) == IF TextWords(text) <= p.words - NodeWords THEN text ELSE NoText
Label(p, text) == IF Fits(p, text) THEN [p EXCEPT !.words = @ - TextWords(text)] ELSE p
BuildNamed(p, text, node) == Then(Build(p, node), LAMBDA made : Label(made, text))

\* Mutant: an item without room ends the list that is there.
ItemForgets(p, list) ==
  IF p.words < ItemWords THEN Returns(p, << >>)
  ELSE Returns([p EXCEPT !.words = @ - ItemWords], Append(list, p.node))

\* ast_list_append: without room the list stays as it is.
Item(p, list) ==
  IF p.words < ItemWords THEN Returns(p, list)
  ELSE Returns([p EXCEPT !.words = @ - ItemWords], Append(list, p.node))

-----------------------------------------------------------------------------
(* Where statements end. *)

Starters == {"import", "let", "var", "const", "print", "prints", "if", "while", "for", "return",
             "break", "continue", "switch", "window", "text", "func", "package", "identifier",
             "{", "else"}

\* consume_statement_end
EndStatement(p) ==
  CASE At(p, ";") -> Advance(p)
    [] ~At(p, ";") /\ (AtEnd(p) \/ Current(p).type \in Starters \cup {"}"}) -> p
    [] OTHER -> Null(p)

RECURSIVE Skip(_, _, _)

Skip(p, parens, consumed) ==
  LET t == Current(p).type
      inner == CASE t = "(" -> parens + 1 [] t = ")" /\ parens > 0 -> parens - 1 [] OTHER -> parens
  IN  CASE t = "eof" -> p
        [] t = ";" -> Advance(p)
        [] parens = 0 /\ t = "}" -> IF consumed THEN p ELSE Advance(p)
        [] consumed /\ parens = 0 /\ t \in Starters -> p
        [] OTHER -> Skip(Advance(p), inner, TRUE)

\* skip_statement and make_noop: what makes no statement is one that does nothing.
SkipStatement(p) == Build(Skip(p, 0, FALSE), [type |-> "block", statements |-> << >>])

-----------------------------------------------------------------------------
(* Expressions. *)

RECURSIVE ParseExpression(_), ParseUnary(_), ParsePath(_, _), ParseLevel(_, _),
          MoreOperands(_, _), MoreArguments(_, _), MoreProperties(_, _)

\* parse_identifier_path, from a name on.
ParsePath(p, path) ==
  LET name == path \o Current(p).name
      read == Advance(p)
  IN  CASE ~At(p, "identifier") -> Null(p)
        [] At(p, "identifier") /\ At(read, ".") -> ParsePath(Advance(read), name \o ".")
        [] OTHER -> IF Fits(read, name) THEN Returns(Label(read, name), name) ELSE Null(read)

Literals == {"number", "float", "true", "false"}

Literal(p) ==
  LET t == Current(p)
      node == CASE t.type = "number" -> [type |-> "int", value |-> t.value]
                [] t.type = "float" -> [type |-> "float", value |-> t.value]
                [] t.type = "true" -> [type |-> "bool", value |-> 1]
                [] t.type = "false" -> [type |-> "bool", value |-> 0]
  IN  Build(Advance(p), node)

\* A literal is a number, and never long.
StringExpr(p, text) ==
  BuildNamed(p, "", [type |-> "string", value |-> IF p.words > NodeWords THEN text ELSE NoLiteral])

\* parse_audio_play_config_args, behind the brace: all but the last src is forgotten.
MoreProperties(p, src) ==
  LET named == Expect(Expect(p, "identifier"), ":")
      value == Current(named)
      Next(q, found) == IF At(q, ",") THEN MoreProperties(Advance(q), found)
                        ELSE Then(Expect(q, "}"), LAMBDA closed :
                               IF found = << >> THEN Null(closed) ELSE Returns(closed, found))
  IN  CASE At(p, "}") \/ AtEnd(p) ->
             Then(Expect(p, "}"), LAMBDA closed :
               IF src = << >> THEN Null(closed) ELSE Returns(closed, src))
        [] ~named.ok -> named
        [] named.ok /\ Current(p).name = "src" ->
             IF value.type # "string" THEN Null(named)
             ELSE Then(StringExpr(named, value.value), LAMBDA q : Next(Advance(q), << q.node >>))
        [] OTHER -> IF value.type \in Literals \cup {"string"} THEN Next(Advance(named), src)
                    ELSE Null(named)

ConfigArguments(p) ==
  Then(MoreProperties(Advance(p), << >>), LAMBDA config :
  Then(Item(Returns(config, config.node[1]), << >>), LAMBDA list :
    IF list.node = << >> THEN Null(list) ELSE list))

MoreArguments(p, list) ==
  Then(ParseExpression(p), LAMBDA argument :
  Then(Item(argument, list), LAMBDA more :
    IF At(more, ",") THEN MoreArguments(Advance(more), more.node) ELSE more))

\* From behind the opening parenthesis.
ParseCall(p, callee) ==
  IF callee \notin p.known /\ callee \in DOMAIN Misspelt THEN Refuse(p, Misspelt[callee])
  ELSE Then(IF callee = "audio.play" /\ At(p, "{") THEN ConfigArguments(p)
            ELSE IF At(p, ")") THEN Returns(p, << >>)
            ELSE MoreArguments(p, << >>),
            LAMBDA list : Then(Expect(list, ")"), LAMBDA closed :
              Build(closed, [type |-> "call", callee |-> callee, arguments |-> list.node])))

ParsePrimary(p) ==
  CASE Current(p).type \in Literals -> Literal(p)
    [] At(p, "string") -> StringExpr(Advance(p), Current(p).value)
    [] At(p, "identifier") ->
         Then(ParsePath(p, ""), LAMBDA path :
           IF At(path, "(") THEN ParseCall(Advance(path), path.node)
           ELSE Build(path, [type |-> "identifier", name |-> path.node]))
    [] At(p, "(") -> Expect(ParseExpression(Advance(p)), ")")
    [] OTHER -> Null(p)

ParseUnary(p) ==
  IF Current(p).type \in {"-", "!"}
  THEN Then(ParseUnary(Advance(p)), LAMBDA right :
         Build(right, [type |-> "unary", op |-> Current(p).type, operand |-> right.node]))
  ELSE ParsePrimary(p)

\* The binary operators, from the loosest: parse_logic_or down to parse_factor.
Levels == <<{"||"}, {"&&"}, {"==", "!="}, {"<", "<=", ">", ">="}, {"+", "-"}, {"*", "/", "%"}>>

ParseLevel(p, n) ==
  IF n > Len(Levels) THEN ParseUnary(p)
  ELSE Then(ParseLevel(p, n + 1), LAMBDA left : MoreOperands(left, n))

\* Mutant: the right operand is read at the level itself.
MoreOperandsRight(p, n) ==
  IF Current(p).type \notin Levels[n] THEN p
  ELSE Then(ParseLevel(Advance(p), n), LAMBDA right :
         Build(right, [type |-> "binary", op |-> Current(p).type,
                       left |-> p.node, right |-> right.node]))

MoreOperands(p, n) ==
  IF Current(p).type \notin Levels[n] THEN p
  ELSE Then(ParseLevel(Advance(p), n + 1), LAMBDA right :
       Then(Build(right, [type |-> "binary", op |-> Current(p).type,
                          left |-> p.node, right |-> right.node]), LAMBDA operation :
         MoreOperands(operation, n)))

\* check_depth_enter and check_depth_leave.
Entered(p) == IF p.depth >= MaxDepth THEN Refuse(p, "depth") ELSE [p EXCEPT !.depth = @ + 1]

\* Mutant: a function that fails does not leave.
LeftOnSuccess(p) == IF p.ok THEN [p EXCEPT !.depth = @ - 1] ELSE p

Left(p) == [p EXCEPT !.depth = @ - 1]

ParseExpression(p) == Then(Entered(p), LAMBDA inner : Left(ParseLevel(inner, 1)))

-----------------------------------------------------------------------------
(* Statements. *)

RECURSIVE ParseStatement(_), ParseIf(_), MoreStatements(_, _), CaseStatements(_, _), MoreCases(_, _)

EndIf(p, require_end) == IF p.ok /\ require_end THEN EndStatement(p) ELSE p

IsAssignmentStart(p) == At(p, "identifier") /\ Peek(p, 1).type = "="

\* A name, an equals sign and a value: parse_var_decl_core, parse_assignment_core.
ParseValue(p, require_end) ==
  Then(Expect(Expect(p, "identifier"), "="), LAMBDA named :
    EndIf(ParseExpression(named), require_end))

ParseVarDecl(p, is_var, require_end) ==
  Then(ParseValue(p, require_end), LAMBDA value :
    BuildNamed(value, Current(p).name,
               [type |-> "variable", identifier |-> Kept(value, Current(p).name),
                value |-> value.node, is_var |-> is_var]))

ParseAssignment(p, require_end) ==
  Then(ParseValue(p, require_end), LAMBDA value :
    BuildNamed(value, Current(p).name,
               [type |-> "assignment", identifier |-> Kept(value, Current(p).name),
                value |-> value.node]))

ParseExprStatement(p, require_end) ==
  Then(EndIf(ParseExpression(p), require_end), LAMBDA expr :
    Build(expr, [type |-> "expression", expression |-> expr.node]))

ParsePrint(p) ==
  LET expr == IF At(p, "(") THEN ExpectSaying(ParseExpression(Advance(p)), ")")
              ELSE ParseExpression(p)
  IN  Then(Demand(EndIf(Demand(expr, "expected"), TRUE), "expected"), LAMBDA ended :
        Build(ended, [type |-> "print", expression |-> ended.node]))

ParsePrints(p) ==
  LET text == ExpectSaying(p, "[")
      read == ExpectSaying(text, "string")
  IN  Then(IF read.ok /\ At(read, "identifier") THEN Refuse(read, "unexpected")
           ELSE ExpectSaying(read, "]"), LAMBDA closed :
      Then(EndStatement(closed), LAMBDA ended :
      Then(StringExpr(ended, Current(text).value), LAMBDA expr :
        Build(expr, [type |-> "print", expression |-> expr.node]))))

\* The node is made before the end of the statement is looked for.
ParseBreakOrContinue(p, type) == EndIf(Build(p, [type |-> type]), TRUE)

ParseReturn(p) ==
  Then(Build(p, << >>), LAMBDA made :
  Then(IF Current(made).type \in {";", "}", "eof"} THEN made
       ELSE Then(ParseExpression(made), LAMBDA value : Returns(value, << value.node >>)),
       LAMBDA value : EndStatement(Returns(value, [type |-> "return", value |-> value.node]))))

CaseStatements(p, list) ==
  IF Current(p).type \in {"case", "default", "}", "eof"} THEN Returns(p, list)
  ELSE Then(ParseStatement(p), LAMBDA statement :
       Then(Item(statement, list), LAMBDA more : CaseStatements(more, more.node)))

\* A case without a value is the default. The body is a node before it is read.
MoreCases(p, cases) ==
  IF Current(p).type \in {"}", "eof"} THEN Returns(p, cases)
  ELSE Then(IF At(p, "default") THEN Returns(Advance(p), << >>)
            ELSE Then(Expect(p, "case"), LAMBDA begun :
                 Then(ParseExpression(begun), LAMBDA read : Returns(read, << read.node >>))),
            LAMBDA value :
       Then(Expect(value, ":"), LAMBDA colon :
       Then(Build(colon, << >>), LAMBDA made :
       Then(CaseStatements(made, << >>), LAMBDA body :
       Then(Build(body, [value |-> value.node, body |-> body.node]), LAMBDA case :
       Then(Item(case, cases), LAMBDA more : MoreCases(more, more.node)))))))

ParseSwitch(p) ==
  Then(Expect(Advance(p), "("), LAMBDA opened :
  Then(ParseExpression(opened), LAMBDA value :
  Then(Expect(Expect(value, ")"), "{"), LAMBDA inside :
  Then(MoreCases(inside, << >>), LAMBDA cases :
  Then(Expect(cases, "}"), LAMBDA closed :
    Build(closed, [type |-> "switch", expression |-> value.node, cases |-> cases.node]))))))

\* parse_block. Its node is made before the brace is looked for.
MoreStatements(p, list) ==
  IF At(p, "}") \/ AtEnd(p) THEN Returns(p, list)
  ELSE Then(Demand(ParseStatement(p), "invalid"), LAMBDA statement :
       Then(Item(statement, list), LAMBDA more : MoreStatements(more, more.node)))

ParseBlock(p) ==
  Then(ExpectSaying(Build(p, << >>), "{"), LAMBDA opened :
  Then(MoreStatements(opened, << >>), LAMBDA inside :
  Then(ExpectSaying(inside, "}"), LAMBDA closed :
    Returns(closed, [type |-> "block", statements |-> inside.node]))))

\* parse_if, from behind the word if.
ParseIf(p) ==
  Then(Demand(ParseExpression(p), "expected"), LAMBDA test :
  Then(Demand(ParseBlock(test), "expected"), LAMBDA then :
  Then(Demand(IF ~At(then, "else") THEN Returns(then, << >>)
              ELSE Then(IF Peek(then, 1).type = "if" THEN ParseIf(Advance(Advance(then)))
                        ELSE ParseBlock(Advance(then)),
                        LAMBDA branch : Returns(branch, << branch.node >>)),
              "expected"), LAMBDA else :
    Build(else, [type |-> "if", condition |-> test.node,
                 then_branch |-> then.node.statements, else_branch |-> else.node]))))

ParseWhile(p) ==
  Then(ParseExpression(p), LAMBDA test :
  Then(ParseBlock(test), LAMBDA body :
    Build(body, [type |-> "while", condition |-> test.node, body |-> body.node.statements])))

\* At most one of what the loop asks for.
Optional(p, absent, read) ==
  IF absent THEN Returns(p, << >>)
  ELSE Then(read, LAMBDA one : Returns(one, << one.node >>))

ForInit(p) ==
  CASE At(p, "let") -> ParseVarDecl(Advance(p), FALSE, FALSE)
    [] At(p, "var") -> ParseVarDecl(Advance(p), TRUE, FALSE)
    [] IsAssignmentStart(p) -> ParseAssignment(p, FALSE)
    [] At(p, "identifier") /\ ~IsAssignmentStart(p) /\ Current(p).name \in LikeKeyword ->
         Refuse(p, "unknown keyword")
    [] OTHER -> ParseExprStatement(p, FALSE)

ForUpdate(p) ==
  IF IsAssignmentStart(p) THEN ParseAssignment(p, FALSE) ELSE ParseExprStatement(p, FALSE)

ForBody(p, init, condition, update) ==
  Then(Demand(ParseBlock(p), "expected"), LAMBDA body :
    Build(body, [type |-> "for", init |-> init, condition |-> condition, update |-> update,
                 body |-> body.node.statements]))

ParseFor(p) ==
  IF ~At(p, "(")
  THEN Then(Demand(ParseExpression(p), "expected"), LAMBDA test :
         ForBody(test, << >>, << test.node >>, << >>))
  ELSE Then(Demand(Optional(Advance(p), Peek(p, 1).type = ";", ForInit(Advance(p))), "invalid"),
            LAMBDA init :
       Then(ExpectSaying(init, ";"), LAMBDA second :
       Then(Demand(Optional(second, At(second, ";"), ParseExpression(second)), "expected"),
            LAMBDA test :
       Then(ExpectSaying(test, ";"), LAMBDA third :
       Then(Demand(Optional(third, At(third, ")"), ForUpdate(third)), "invalid"), LAMBDA update :
       Then(ExpectSaying(update, ")"), LAMBDA closed :
         ForBody(closed, init.node, test.node, update.node)))))))

ParseImport(p) ==
  Then(Expect(p, "string"), LAMBDA path :
  Then(EndStatement(path), LAMBDA ended :
    BuildNamed(ended, "", [type |-> "import"])))

ParseWindow(p) ==
  Then(Expect(Expect(Expect(p, "("), "string"), ")"), LAMBDA title :
  Then(EndStatement(title), LAMBDA ended :
    BuildNamed(ended, "", [type |-> "window"])))

ParseText(p) ==
  Then(Expect(p, "("), LAMBDA opened :
  Then(Expect(ParseExpression(opened), ","), LAMBDA x :
  Then(Expect(ParseExpression(x), ","), LAMBDA y :
  Then(Expect(Expect(y, "string"), ")"), LAMBDA message :
  Then(EndStatement(message), LAMBDA ended :
    BuildNamed(ended, "", [type |-> "text", x |-> x.node, y |-> y.node]))))))

(***************************************************************************)
(* What begins like no other statement: an assignment, an expression, or   *)
(* else something that is skipped up to where a statement may begin. An    *)
(* assignment that fails is tried as an expression from where it failed.   *)
(***************************************************************************)
OtherStatement(p) ==
  Bind(IF IsAssignmentStart(p) THEN ParseAssignment(p, TRUE) ELSE Null(p), LAMBDA assignment :
    IF assignment.ok THEN assignment
    ELSE Bind(ParseExprStatement([assignment EXCEPT !.ok = TRUE], TRUE), LAMBDA expr :
           CASE expr.ok \/ expr.message # "none" -> expr
             [] ~expr.ok /\ expr.message = "none" /\ At(assignment, "identifier")
                  /\ Current(assignment).name \in LikeKeyword -> Refuse(assignment, "unknown keyword")
             [] OTHER -> SkipStatement([expr EXCEPT !.ok = TRUE, !.rest = assignment.rest])))

\* parse_statement_internal
ParseStatementInternal(p) ==
  LET inside == Advance(p)
      t == Current(p).type
  IN  CASE t = "import" -> ParseImport(inside)
        [] t \in {"let", "const"} -> ParseVarDecl(inside, FALSE, TRUE)
        [] t = "var" -> ParseVarDecl(inside, TRUE, TRUE)
        [] t = "print" -> ParsePrint(inside)
        [] t = "prints" -> ParsePrints(inside)
        [] t = "return" -> ParseReturn(inside)
        [] t \in {"break", "continue"} -> ParseBreakOrContinue(inside, t)
        [] t = "if" -> ParseIf(inside)
        [] t = "while" -> ParseWhile(inside)
        [] t = "for" -> ParseFor(inside)
        [] t = "switch" -> ParseSwitch(p)
        [] t = "window" -> ParseWindow(inside)
        [] t = "text" -> ParseText(inside)
        [] t = "{" -> ParseBlock(p)
        [] OTHER -> OtherStatement(p)

ParseStatement(p) == Then(Entered(p), LAMBDA inner : Left(ParseStatementInternal(inner)))

-----------------------------------------------------------------------------
(* Declarations. *)

RECURSIVE MoreParameters(_, _), MoreDeclarations(_, _)

\* A parameter whose name has no room ends the function without a message.
MoreParameters(p, params) ==
  LET name == Current(p).name
  IN  IF ~At(p, "identifier") THEN Refuse(p, "expected")
      ELSE IF ~Fits(p, name) THEN Null(Advance(p))
      ELSE Bind(Label(Advance(p), name), LAMBDA read :
             IF At(read, ",") THEN MoreParameters(Advance(read), Append(params, name))
             ELSE Returns(read, Append(params, name)))

\* The array of the parameters, a word for each, comes last.
ParseFunction(p) ==
  Then(ExpectSaying(ExpectSaying(p, "func"), "identifier"), LAMBDA named :
  Then(ExpectSaying(named, "("), LAMBDA opened :
  Then(IF At(opened, ")") THEN Returns(opened, << >>) ELSE MoreParameters(opened, << >>), LAMBDA list :
  Then(ExpectSaying(list, ")"), LAMBDA closed :
  Then(Demand(ParseBlock(closed), "expected"), LAMBDA body :
  Then(BuildNamed(body, Peek(p, 1).name,
                  [type |-> "function", name |-> Kept(body, Peek(p, 1).name),
                   params |-> list.node, body |-> body.node.statements]), LAMBDA made :
    IF made.words < Len(list.node) THEN Null(made)
    ELSE [made EXCEPT !.words = @ - Len(list.node)]))))))

\* parse_package; the name is not used any more.
ParsePackage(p) ==
  Then(Expect(p, "identifier"), LAMBDA named :
  Then(BuildNamed(named, Current(p).name, << >>), LAMBDA made :
    Bind(EndStatement(made), LAMBDA ended : Returns(ended, << >>))))

MoreDeclarations(p, list) ==
  IF AtEnd(p) THEN Returns(p, list)
  ELSE Then(IF At(p, "func") THEN ParseFunction(p) ELSE ParseStatement(p), LAMBDA declaration :
       Then(Item(declaration, list), LAMBDA more : MoreDeclarations(more, more.node)))

ParseProgram(p) ==
  Then(Build(p, << >>), LAMBDA program :
  Then(IF At(program, "package") THEN ParsePackage(Advance(program)) ELSE program, LAMBDA begun :
    MoreDeclarations(begun, << >>)))

\* parser_parse, in an arena of so many words; there are no tokens of some texts.
ParserParse(text, words) ==
  Bind(LexerTokenize(text), LAMBDA read :
    IF read.ok THEN ParseProgram(Parser(read.tokens, words)) ELSE Null(Parser(<< >>, words)))

-----------------------------------------------------------------------------
(***************************************************************************)
(* The text of a syntax tree, in tokens: what a programmer writes to get   *)
(* that tree. Parentheses stand only where the grammar needs them.         *)
(***************************************************************************)

Word(type) == << Token(type) >>
Name(name) == << [Token("identifier") EXCEPT !.name = name] >>
Number(type, value) == << [Token(type) EXCEPT !.value = value] >>
Digits(n) == Number("digits", n)
StringOf(n) == << StringToken(Digits(n)) >>

\* Items with commas between them.
Listed(items) ==
  Fold(LAMBDA acc, item : IF acc = << >> THEN item ELSE acc \o Word(",") \o item, << >>, items)

LevelOf(op) == SelectInSeq(Levels, LAMBDA level : op \in level)

RECURSIVE Expr(_, _)

Enclosed(text) == Word("(") \o text \o Word(")")

\* An expression where one of the given level or a tighter one may stand.
Expr(tree, level) ==
  CASE tree.type = "int" -> Number("number", tree.value)
    [] tree.type = "float" -> Number("float", tree.value)
    [] tree.type = "string" -> StringOf(tree.value)
    [] tree.type = "bool" -> Word(IF tree.value = 1 THEN "true" ELSE "false")
    [] tree.type = "identifier" -> Name(tree.name)
    [] tree.type = "call" ->
         Name(tree.callee)
           \o Enclosed(Listed([k \in DOMAIN tree.arguments |-> Expr(tree.arguments[k], 1)]))
    [] tree.type = "unary" -> Word(tree.op) \o Expr(tree.operand, Len(Levels) + 1)
    [] tree.type = "binary" ->
         Bind(LevelOf(tree.op), LAMBDA n :
         Bind(Expr(tree.left, n) \o Word(tree.op) \o Expr(tree.right, n + 1), LAMBDA text :
           IF n < level THEN Enclosed(text) ELSE text))

RECURSIVE Statement(_), Statements(_)

Braced(statements) == Word("{") \o Statements(statements) \o Word("}")

\* What stands in the parentheses of a for loop has no semicolon of its own.
Simple(tree) ==
  CASE tree.type = "variable" ->
         Word(IF tree.is_var THEN "var" ELSE "let") \o Name(tree.identifier) \o Word("=") \o Expr(tree.value, 1)
    [] tree.type = "assignment" -> Name(tree.identifier) \o Word("=") \o Expr(tree.value, 1)
    [] tree.type = "expression" -> Expr(tree.expression, 1)

Clause(Text(_), optional) == IF optional = << >> THEN << >> ELSE Text(optional[1])

Case(case) ==
  (IF case.value = << >> THEN Word("default") ELSE Word("case") \o Expr(case.value[1], 1))
    \o Word(":") \o Statements(case.body)

Statement(tree) ==
  CASE tree.type \in {"variable", "assignment", "expression"} -> Simple(tree) \o Word(";")
    [] tree.type = "print" -> Word("print") \o Enclosed(Expr(tree.expression, 1)) \o Word(";")
    [] tree.type \in {"break", "continue"} -> Word(tree.type) \o Word(";")
    [] tree.type = "return" ->
         Word("return") \o Clause(LAMBDA e : Expr(e, 1), tree.value) \o Word(";")
    [] tree.type = "block" -> Braced(tree.statements)
    [] tree.type = "if" ->
         Word("if") \o Expr(tree.condition, 1) \o Braced(tree.then_branch)
           \o Clause(LAMBDA branch : Word("else") \o Statement(branch), tree.else_branch)
    [] tree.type = "while" -> Word("while") \o Expr(tree.condition, 1) \o Braced(tree.body)
    [] tree.type = "for" ->
         Word("for") \o Word("(") \o Clause(Simple, tree.init) \o Word(";")
           \o Clause(LAMBDA e : Expr(e, 1), tree.condition) \o Word(";")
           \o Clause(Simple, tree.update) \o Word(")") \o Braced(tree.body)
    [] tree.type = "switch" ->
         Word("switch") \o Enclosed(Expr(tree.expression, 1)) \o Word("{")
           \o Fold(LAMBDA text, case : text \o Case(case), << >>, tree.cases) \o Word("}")
    [] tree.type = "import" -> Word("import") \o StringOf(1) \o Word(";")
    [] tree.type = "window" -> Word("window") \o Enclosed(StringOf(1)) \o Word(";")
    [] tree.type = "text" ->
         Word("text")
           \o Enclosed(Listed(<< Expr(tree.x, 1), Expr(tree.y, 1), StringOf(1) >>)) \o Word(";")
    [] tree.type = "function" ->
         Word("func") \o Name(tree.name)
           \o Enclosed(Listed([k \in DOMAIN tree.params |-> Name(tree.params[k])])) \o Braced(tree.body)

Statements(list) == Fold(LAMBDA text, tree : text \o Statement(tree), << >>, list)

-----------------------------------------------------------------------------
(* Characters. *)

Char(c) == << Token(c) >>
WordChars(name) == << [Token("word") EXCEPT !.name = name] >>

SignChars == [d \in Doubles |->
  CASE d = "==" -> Char("=") \o Char("=") [] d = "!=" -> Char("!") \o Char("=")
    [] d = "<=" -> Char("<") \o Char("=") [] d = ">=" -> Char(">") \o Char("=")
    [] d = "&&" -> Char("&") \o Char("&") [] d = "||" -> Char("|") \o Char("|")]

Escapes(c) ==
  CASE c.type = "\n" -> Char("\\") \o WordChars("n")
    [] c.type \in {"\"", "\\"} -> Char("\\") \o << c >>
    [] OTHER -> << c >>

InQuotes(content) == Char("\"") \o FlattenSeq([k \in DOMAIN content |-> Escapes(content[k])]) \o Char("\"")

\* How a token is written.
Written(t) ==
  CASE t.type \in Keywords -> WordChars(t.type)
    [] t.type = "identifier" -> WordChars(t.name)
    [] t.type = "number" -> Digits(t.value)
    [] t.type = "float" -> Digits(t.value) \o Char(".") \o Digits(0)
    [] t.type = "string" -> InQuotes(t.content)
    [] t.type \in Doubles -> SignChars[t.type]
    [] OTHER -> Char(t.type)

\* What would run together.
Touching(left, right) ==
  LET words == {"word", "digits"}
      signs == {"=", "!", "<", ">", "&", "|", "/", "*"}
  IN  \/ left \in words /\ right \in words
      \/ left \in signs /\ right \in signs
      \/ left = "digits" /\ right = "."

\* Tokens as characters, with a space where one is needed.
Characters(tokens) ==
  Fold(LAMBDA text, chars :
         CASE text = << >> -> chars
           [] text # << >> /\ Touching(Last(text).type, Head(chars).type) -> text \o Char(" ") \o chars
           [] OTHER -> text \o chars,
       << >>, [k \in DOMAIN tokens |-> Written(tokens[k])])
=============================================================================
