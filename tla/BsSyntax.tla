----------------------------- MODULE BsSyntax -----------------------------
(***************************************************************************)
(* Values, syntax trees and tokens of the bootstrap tool chain             *)
(* (bootstrap/src/bs_value.c, bs_ast.c, bs_lexer.c).  All nodes have one   *)
(* shape: the name or operator a node carries, its parameters, and its     *)
(* children in the order of the fields of ASTNode, NoNode for one that is  *)
(* NULL.  There are no floats, and integers are as wide as they need to be. *)
(* What bs_ast_clone copies is a value here and needs no copy.             *)
(***************************************************************************)
EXTENDS Integers, SequencesExt, TLC, HBind

NoNode == [type |-> "none", name |-> "", kids |-> << >>]

BsValue(type, n, text) == [type |-> type, n |-> n, text |-> text, params |-> << >>, body |-> NoNode]

bs_null == BsValue("null", 0, "")
bs_bool(b) == BsValue("bool", IF b THEN 1 ELSE 0, "")
bs_int(n) == BsValue("int", n, "")
bs_string(text) == BsValue("string", 0, text)
bs_function(name, params, body) ==
  [BsValue("function", 0, name) EXCEPT !.params = params, !.body = body]

(* bs_values_equal: a function is known by the address of its body, which
   every clone of it has anew. *)
ValuesEqual(a, b) ==
  /\ a.type = b.type
  /\ a.type # "function"
  /\ a.n = b.n
  /\ a.text = b.text

Truthy(v) ==
  CASE v.type = "null" -> FALSE
    [] v.type \in {"bool", "int"} -> v.n # 0
    [] v.type = "string" -> v.text # ""
    [] v.type = "function" -> TRUE

(* What bs_print_value writes. *)
Text(v) ==
  CASE v.type = "null" -> "null"
    [] v.type = "bool" -> IF v.n = 1 THEN "true" ELSE "false"
    [] v.type = "int" -> ToString(v.n)
    [] v.type = "string" -> v.text
    [] v.type = "function" -> "<function " \o v.text \o ">"

(* string_concat. *)
Concat(a, b) ==
  LET Piece(v) == IF v.type = "function" THEN "null" ELSE Text(v)
  IN  bs_string(Piece(a) \o Piece(b))

-----------------------------------------------------------------------------
Node(type, name, params, kids) ==
  [type |-> type, name |-> name, params |-> params, kids |-> kids, value |-> bs_null]

Literal(v) == [Node("literal", "", << >>, << >>) EXCEPT !.value = v]
Identifier(name) == Node("identifier", name, << >>, << >>)
Unary(op, operand) == Node("unary", op, << >>, <<operand>>)
Binary(op, left, right) == Node("binary", op, << >>, <<left, right>>)
Assign(target, value) == Node("assign", target, << >>, <<value>>)
Call(callee, args) == Node("call", callee, << >>, args)

VarDecl(name, initializer) == Node("var", name, << >>, <<initializer>>)
ConstDecl(name, initializer) == Node("const", name, << >>, <<initializer>>)
ExprStmt(expr) == Node("expr", "", << >>, <<expr>>)
Block(statements) == Node("block", "", << >>, statements)
If(condition, then, else) == Node("if", "", << >>, <<condition, then, else>>)
While(condition, body) == Node("while", "", << >>, <<condition, body>>)
For(init, condition, update, body) == Node("for", "", << >>, <<init, condition, update, body>>)
Return(value) == Node("return", "", << >>, <<value>>)
Break == Node("break", "", << >>, << >>)
Continue == Node("continue", "", << >>, << >>)
PrintStmt(expr) == Node("print", "", << >>, <<expr>>)
PrintsStmt(expr) == Node("prints", "", << >>, <<expr>>)
FuncDecl(name, params, body) == Node("func", name, params, <<body>>)
Package(name) == Node("package", name, << >>, << >>)
Import(path) == Node("import", path, << >>, << >>)
CommandDef(name, params, body) == Node("command", name, params, <<body>>)
MacroDef(name, params, body) == Node("macro", name, params, <<body>>)
(* The last child is the trailing block. *)
CustomCall(name, args, block) == Node("custom", name, << >>, Append(args, block))

-----------------------------------------------------------------------------
(* A token: its kind, which is its spelling but for names and literals.     *)
Token(kind, name, value) == [kind |-> kind, name |-> name, value |-> value]
Tok(kind) == Token(kind, "", bs_null)
Name(name) == Token("identifier", name, bs_null)
Quoted(text) == Token("string", "", bs_string(text))
Eof == Tok("eof")
=============================================================================
