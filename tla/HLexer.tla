------------------------------- MODULE HLexer -------------------------------
(***************************************************************************)
(* The lexer (compiler/src/lexer.c): from characters to tokens.            *)
(*                                                                         *)
(* A run of letters, digits and underscores that begins with no digit      *)
(* counts as one character, a word, and so does a run of digits. Any other *)
(* character is itself. Behind a backslash a word is of one letter.        *)
(***************************************************************************)
EXTENDS HBind, Integers

CONSTANTS IntMax,               \* INT_MAX
          Exponents,            \* the words that begin with an exponent: it, and the word behind it
          StrToD(_, _, _),      \* strtod: whole part, fraction, exponent
          OutOfRange(_, _, _)   \* strtod reports ERANGE

\* Words, digits and other characters; and tokens, which know their line.
Token(type) == [type |-> type, name |-> "", value |-> 0, content |-> << >>, line |-> 0]
Eof == Token("eof")

\* What a literal that is not the text of a number is to programs.
OtherText == 0
TextValue(content) ==
  IF Len(content) = 1 /\ content[1].type = "digits" THEN content[1].value ELSE OtherText

Keywords == {"let", "var", "const", "func", "package", "import", "print", "prints", "if", "else",
             "while", "for", "return", "break", "continue", "switch", "case", "default", "window",
             "text", "true", "false"}
Doubles == {"==", "!=", "<=", ">=", "&&", "||"}
Singles == {"=", "!", "<", ">", "+", "-", "*", "%", "/", ".", ":", "(", ")", "[", "]", "{", "}",
            ",", ";"}

\* rest is what p points to. The end is found when all tokens are there.
Lexer(text) == [rest |-> text, line |-> 1, tokens |-> << >>, ok |-> TRUE]

Ahead(l, i) == IF i < Len(l.rest) THEN l.rest[i + 1].type ELSE "end"
Past(l, n) == [l EXCEPT !.rest = SubSeq(@, n + 1, Len(@))]
PastLines(l, n, lines) == [Past(l, n) EXCEPT !.line = @ + lines]
NoTokens(l) == [l EXCEPT !.ok = FALSE]

\* The token of l's first n characters; it stands where it begins.
Adds(l, n, token) ==
  [Past(l, n) EXCEPT !.tokens = Append(@, [token EXCEPT !.line = l.line])]

LexWord(l) ==
  LET name == l.rest[1].name
  IN  Adds(l, 1, IF name \in Keywords THEN Token(name) ELSE [Token("identifier") EXCEPT !.name = name])

(***************************************************************************)
(* Digits, a dot and more digits, an exponent. An e that no digits follow  *)
(* is not part of the number.                                              *)
(***************************************************************************)
LexNumber(l) ==
  LET dot == Ahead(l, 1) = "."
      fraction == IF dot /\ Ahead(l, 2) = "digits" THEN << l.rest[3].value >> ELSE << >>
      n == 1 + (IF dot THEN 1 ELSE 0) + Len(fraction)
      e == IF Ahead(l, n) = "word" THEN l.rest[n + 1].name ELSE ""
      joined == e \in DOMAIN Exponents
      signed == e \in {"e", "E"} /\ Ahead(l, n + 1) \in {"+", "-"} /\ Ahead(l, n + 2) = "digits"
      exponent == CASE signed -> IF Ahead(l, n + 1) = "-" THEN -l.rest[n + 3].value ELSE l.rest[n + 3].value
                    [] joined -> Exponents[e].value
                    [] OTHER -> 0
      length == n + (CASE signed -> 3 [] joined -> 1 [] OTHER -> 0)
      behind == IF joined /\ Exponents[e].behind # ""
                THEN << [Token("word") EXCEPT !.name = Exponents[e].behind] >> ELSE << >>
      whole == l.rest[1].value
      part == IF fraction = << >> THEN 0 ELSE fraction[1]
  IN  CASE length > 1 /\ ~OutOfRange(whole, part, exponent) ->
             [Adds(l, length, [Token("float") EXCEPT !.value = StrToD(whole, part, exponent)])
                EXCEPT !.rest = behind \o @]
        [] length = 1 /\ whole <= IntMax -> Adds(l, 1, [Token("number") EXCEPT !.value = whole])
        [] OTHER -> NoTokens(l)

StringToken(content) == [Token("string") EXCEPT !.content = content, !.value = TextValue(content)]
LineEnds(chars) == Len(SelectSeq(chars, LAMBDA c : c.type = "\n"))

RECURSIVE Raw(_, _), Quoted(_, _)

(***************************************************************************)
(* What stands between backquotes, one of which is written with a          *)
(* backslash. A carriage return is a line end here, alone or not.          *)
(***************************************************************************)
Raw(chars, content) ==
  CASE chars = << >> \/ chars[1].type = "backquote" -> [rest |-> chars, content |-> content]
    [] chars[1].type = "\\" /\ Len(chars) > 1 /\ chars[2].type = "backquote" ->
         Raw(SubSeq(chars, 3, Len(chars)), Append(content, Token("backquote")))
    [] chars[1].type = "\r" ->
         Raw(IF Len(chars) > 1 /\ chars[2].type = "\n" THEN SubSeq(chars, 3, Len(chars))
             ELSE Tail(chars), Append(content, Token("\n")))
    [] OTHER -> Raw(Tail(chars), Append(content, chars[1]))

LexRaw(l) ==
  Bind(Raw(Tail(l.rest), << >>), LAMBDA raw :
    IF raw.rest = << >> THEN NoTokens(l)
    ELSE Bind(Adds(l, Len(l.rest) - Len(raw.rest) + 1, StringToken(raw.content)), LAMBDA read :
           [read EXCEPT !.line = @ + LineEnds(raw.content)]))

Escaped(c) ==
  CASE c.name = "n" -> Token("\n")
    [] c.name = "r" -> Token("\r")
    [] c.name = "t" -> Token("\t")
    [] OTHER -> c

\* Between quotes lines are not counted, and end only behind a backslash.
Quoted(chars, content) ==
  CASE chars = << >> \/ chars[1].type \in {"\"", "\n", "\r"} -> [rest |-> chars, content |-> content]
    [] chars[1].type = "\\" /\ Len(chars) = 1 -> [rest |-> << >>, content |-> content]
    [] chars[1].type = "\\" /\ Len(chars) > 1 ->
         Quoted(SubSeq(chars, 3, Len(chars)), Append(content, Escaped(chars[2])))
    [] OTHER -> Quoted(Tail(chars), Append(content, chars[1]))

LexQuoted(l) ==
  Bind(Quoted(Tail(l.rest), << >>), LAMBDA quoted :
    IF quoted.rest = << >> \/ quoted.rest[1].type # "\"" THEN NoTokens(l)
    ELSE Adds(l, Len(l.rest) - Len(quoted.rest) + 1, StringToken(quoted.content)))

\* Up to the end of the line, which stays.
LineComment(l) ==
  LET end == SelectInSeq(l.rest, LAMBDA c : c.type \in {"\n", "\r"})
  IN  Past(l, IF end = 0 THEN Len(l.rest) ELSE end - 1)

CommentEnds(l) == {k \in 4 .. Len(l.rest) : l.rest[k - 1].type = "*" /\ l.rest[k].type = "/"}

\* Mutant: the lines of a comment do not count.
BlockCommentOneLine(l) == IF CommentEnds(l) = {} THEN NoTokens(l) ELSE Past(l, Min(CommentEnds(l)))

BlockComment(l) ==
  IF CommentEnds(l) = {} THEN NoTokens(l)
  ELSE PastLines(l, Min(CommentEnds(l)), LineEnds(SubSeq(l.rest, 1, Min(CommentEnds(l)))))

LexOne(l) ==
  LET c == l.rest[1].type
      next == Ahead(l, 1)
  IN  CASE c \in {" ", "\t", "\r"} -> Past(l, 1)
        [] c = "\n" -> PastLines(l, 1, 1)
        [] c = "word" -> LexWord(l)
        [] c = "digits" -> LexNumber(l)
        [] c = "backquote" -> LexRaw(l)
        [] c = "\"" -> LexQuoted(l)
        [] c = "/" /\ next = "/" -> LineComment(l)
        [] c = "/" /\ next = "*" -> BlockComment(l)
        [] c \o next \in Doubles -> Adds(l, 2, Token(c \o next))
        [] c \in Singles /\ c \o next \notin Doubles /\ ~(c = "/" /\ next \in {"/", "*"}) ->
             Adds(l, 1, Token(c))
        [] OTHER -> Adds(l, 1, Token("unknown"))

\* At most 2^n tokens and spaces.
RECURSIVE LexMany(_, _)
LexMany(l, n) ==
  CASE ~l.ok \/ l.rest = << >> -> l
    [] l.ok /\ l.rest # << >> /\ n = 0 -> LexOne(l)
    [] OTHER -> Bind(LexMany(l, n - 1), LAMBDA half : LexMany(half, n - 1))

MaxCharacters == 12      \* the logarithm of what a text may have

\* lexer_tokenize
LexerTokenize(text) == LexMany(Lexer(text), MaxCharacters)
=============================================================================
