----------------------------- MODULE MCFrontEnd -----------------------------
(* Small file systems: programs in two files, files that import each other in *)
(* many ways, and texts that are no programs.                                 *)
EXTENDS HFrontEnd, MCPrograms

(* Lines. *)
Line_(kind, module, quoted, declares, tokens, chars) ==
  [kind |-> kind, module |-> module, quoted |-> quoted, declares |-> declares, tokens |-> tokens,
   chars |-> chars]
Chars(chars, tokens) == Line_("code", <<"none">>, FALSE, << >>, tokens, chars)
Text_(tokens, declares) == Line_("code", <<"none">>, FALSE, declares, tokens, Characters(tokens))
Code(declares) == Text_(Statements(declares), declares)
Package == [Text_(Word("package") \o Name("p") \o Word(";"), << >>) EXCEPT !.kind = "package"]
Imports(module) == Line_("import", module, FALSE, << >>, << >>, << >>)
ImportsQuoted(file) == Line_("import", file, TRUE, << >>, << >>, << >>)
Whole(lines) == [lines |-> lines, ended |-> TRUE]

MainFile == <<"main", ".hosc">>
LibFile == <<"lib", ".hosc">>
UtilFile == <<"sub", "util", ".hosc">>

One(lines) == MainFile :> Whole(lines)
Two(main, lib) == MainFile :> Whole(main) @@ LibFile :> Whole(lib)

(* Programs in two files: main here, everything else there. *)
InTwo(program) ==
  Two(<<Package, Imports(<<"lib">>), Code(<<program[1]>>)>>, <<Package, Code(Tail(program))>>)

Compiles(program) == program[1].type = "function"
ProgramsInTwo ==
  {InTwo(p) : p \in {q \in Others \cup BothTrue \cup Unresolved : Compiles(q)}
                 \cup {Program(TwoCalls, <<"x">>, f) : f \in UpTo(1, << >>)}
                 \cup {Program(Loop, <<"x">>, f) : f \in UpTo(1, <<Var("y", Bin("+", x, Int_(1)))>>)}}

(* Every operator beside every other, a few in each program. *)
Operators == <<"||", "&&", "==", "!=", "<", ">=", "+", "-", "*", "/">>
Beside(o, p) ==
  <<Bin(o, Bin(p, x, Int_(1)), y), Bin(o, x, Bin(p, Int_(1), y)), Un("-", Bin(o, x, Un("!", y))),
    Bin(o, Un("!", CallOf("f", <<Bin(p, x, y), x>>)), y)>>
Expressions(o, p) ==
  LET all == Beside(o, p) IN Main([k \in DOMAIN all |-> Show(all[k])])
OperatorPrograms ==
  {One(<<Code(Expressions(Operators[j], Operators[k]))>>) : j, k \in DOMAIN Operators}

(* Files that import each other. *)
Calls_ == <<Show(CallOf("f", << >>))>>
MainLines == {<<Imports(<<"lib">>), Code(<<Func("main", << >>, << >>)>>)>>,
              <<Code(<<Func("main", << >>, << >>)>>), Imports(<<"sub", "util">>), Imports(<<"lib">>)>>,
              <<Package, ImportsQuoted(<<"lib", ".hosc">>), ImportsQuoted(<<"sub", "util", ".hosc">>),
                Code(<<Func("main", << >>, << >>)>>)>>}
LibLines == {<<Code(<<Func("f", << >>, << >>)>>)>>,
             <<Package, Imports(<<"sub", "util">>), Code(<<Func("f", << >>, << >>)>>)>>,
             <<Imports(<<"lib">>)>>, <<Imports(<<"main">>)>>,
             <<Code(<<Func("f", << >>, << >>)>>), ImportsQuoted(<<"/", "sub", "util", ".hosc">>)>>,
             <<Imports(<<"none">>), Imports(<<"sub", "util">>)>>}
UtilLines == {<<Code(<<Func("g", << >>, << >>)>>)>>,
              <<ImportsQuoted(<<"..", "lib", ".hosc">>)>>,
              <<Code(<<Func("g", << >>, << >>)>>), ImportsQuoted(<<"..", "main", ".hosc">>)>>,
              <<Imports(<<"util", "hosc">>)>>}

Graphs_ ==
  {MainFile :> Whole(main) @@ LibFile :> Whole(lib) @@ UtilFile :> Whole(util) :
     main \in MainLines, lib \in LibLines, util \in UtilLines}
  \cup {LibFile :> Whole(lib) @@ UtilFile :> Whole(util) : lib \in LibLines, util \in UtilLines}
  \cup {Two(main, lib) : main \in MainLines, lib \in LibLines}

(* Texts that are refused, or that only just are not. *)
Times(n, tokens) == FlattenSeq([k \in 1 .. n |-> tokens])
NoOp == Block(<< >>)
Nested(n) == Times(n, Word("{")) \o Times(n, Word("}"))
MainOf(tokens) == Word("func") \o Name("main") \o Word("(") \o Word(")") \o Word("{") \o tokens \o Word("}")
EmptyMain == Func("main", << >>, << >>)
Texts ==
  {<<Text_(Times(MaxDepth + 2, Word("*") \o Word(";")), [k \in 1 .. MaxDepth + 2 |-> NoOp]),
     Code(<<EmptyMain>>)>>,
   <<Text_(MainOf(Nested(MaxDepth + 1)), << >>)>>,
   <<Text_(MainOf(Name("prnt") \o Word("(") \o Word(")") \o Word(";")), << >>)>>,
   <<Text_(MainOf(Name("ifx") \o Word(")") \o Word(";")), << >>)>>,
   <<Text_(MainOf(Word("{")), << >>)>>,
   <<Text_(MainOf(Name("loop") \o Word("(") \o Word(")") \o Word(";")), << >>)>>,
   <<Code(<<Func("f", << >>, << >>)>>)>>}

(* A library whose last line is a comment, and has no end. *)
Comment == Chars(Char("/") \o Char("/") \o WordChars("x"), << >>)
GluedFiles ==
  {MainFile :> Whole(<<Imports(<<"lib">>), Code(<<EmptyMain>>), Code(<<Func("g", << >>, << >>)>>)>>)
     @@ LibFile :> [lines |-> <<Code(<<Func("main", << >>, << >>)>>), Comment>>, ended |-> FALSE]}

(* Every character that is a token beside every other. *)
Signs == <<"=", "!", "<", ">", "&", "|", "+", "-", "*", "%", "/", ".", ":", "(", ")", "[", "]",
           "{", "}", ",", ";", "@">>
Alone(c) == Word(IF c \in Singles THEN c ELSE "unknown")
Together(a, b) ==
  CASE a = "/" /\ b = "/" -> << >>
    [] a \o b \in Doubles -> Word(a \o b)
    [] OTHER -> Alone(a) \o Alone(b)
Behind(a) == SelectSeq(Signs, LAMBDA b : <<a, b>> # <<"/", "*">>)
SignTexts ==
  {[k \in DOMAIN Behind(a) |-> Chars(Char(a) \o Char(Behind(a)[k]), Together(a, Behind(a)[k]))] :
     a \in ToSet(Signs)}

(* Texts of one or more lines, each with its tokens, beside one another. *)
Beside_(left, right) ==
  LET first == right[1]
      last == Last(left)
  IN  Front(left) \o <<Chars(last.chars \o Char(" ") \o first.chars, last.tokens \o first.tokens)>>
        \o Tail(right)
Quote == Char("\"")
Tick == Char("backquote")
Back == Char("\\")
Slash == Char("/")
Star == Char("*")
LongRaw(end, ends) ==
  <<Chars(Tick \o WordChars("a") \o end, << StringToken(WordChars("a") \o ends \o Digits(1)) >>),
    Chars(Digits(1) \o Tick, << >>)>>
Items ==
  <<<<Chars(WordChars("x"), Name("x"))>>, <<Chars(WordChars("func"), Word("func"))>>,
    <<Chars(WordChars("iff"), Name("iff"))>>, <<Chars(Digits(12), Number("number", 12))>>,
    <<Chars(Digits(1) \o Char(".") \o Digits(5), Number("float", <<1, 5, 0>>))>>,
    <<Chars(Digits(1) \o Char("."), Number("float", <<1, 0, 0>>))>>,
    <<Chars(Digits(1) \o WordChars("e2"), Number("float", <<1, 0, 2>>))>>,
    <<Chars(Digits(1) \o Char(".") \o WordChars("e") \o Char("-") \o Digits(3), Number("float", <<1, 0, -3>>))>>,
    <<Chars(Digits(1) \o WordChars("e") \o Char("+"), Number("number", 1) \o Name("e") \o Word("+"))>>,
    <<Chars(Digits(1) \o WordChars("e2x"), Number("float", <<1, 0, 2>>) \o Name("x"))>>,
    <<Chars(Digits(1) \o WordChars("else"), Number("number", 1) \o Word("else"))>>,
    <<Chars(Quote \o Quote, << StringToken(<< >>) >>)>>,
    <<Chars(Quote \o Back \o Quote \o Slash \o Slash \o Quote, << StringToken(Quote \o Slash \o Slash) >>)>>,
    <<Chars(Quote \o Back \o Back \o Quote, << StringToken(Back) >>)>>,
    <<Chars(Quote \o Back \o WordChars("n") \o Back \o WordChars("q") \o Quote,
            << StringToken(Char("\n") \o WordChars("q")) >>)>>,
    <<Chars(Tick \o Back \o Tick \o Back \o WordChars("n") \o Quote \o Tick,
            << StringToken(Tick \o Back \o WordChars("n") \o Quote) >>)>>,
    LongRaw(<< >>, Char("\n")), LongRaw(Char("\r"), Char("\n")),
    <<Chars(Slash \o Star \o Quote \o Star \o Star \o Slash, << >>)>>,
    <<Chars(Slash \o Star \o Slash \o Slash, << >>), Chars(Quote \o Star \o Slash, << >>)>>,
    <<Chars(Slash \o Slash \o Slash \o Star, << >>), Chars(WordChars("y"), Name("y"))>>>>
ItemTexts ==
  {FlattenSeq([k \in DOMAIN Items |-> Beside_(item, Items[k])]) :
     item \in {Items[k] : k \in 1 .. Len(Items) - 1}}

(* Tokens without an end, or without a value, in front of a program. *)
Unfinished ==
  {<<Chars(chars, <<Token("error")>>), Code(<<EmptyMain>>)>> :
     chars \in {Quote, Quote \o Back \o Quote, Tick, Tick \o Back \o Tick, Slash \o Star, Slash \o Star \o Slash,
                Digits(1000), Digits(1) \o WordChars("e999"), Digits(1) \o WordChars("e") \o Char("-") \o Digits(999),
                Quote \o Char("\r") \o Quote}}

(* A line end behind a backslash; a line of a literal that looks like an import. *)
EscapedEnds ==
  {One(<<Chars(Quote \o Back, << StringToken(Char("\n") \o Digits(1)) >>), Chars(Digits(1) \o Quote \o WordChars("x"), Name("x"))>>)}
RawImports ==
  {One(<<Chars(Tick, << StringToken(Char("\n") \o WordChars("import") \o Char(" ") \o WordChars("lib") \o Char("\n")) >>),
         Imports(<<"lib">>), Chars(Tick, << >>)>>) @@ LibFile :> Whole(<<Code(<<EmptyMain>>)>>)}

MCFileSystems == ProgramsInTwo \cup OperatorPrograms \cup Graphs_
                   \cup {One(lines) : lines \in Texts \cup SignTexts \cup ItemTexts \cup Unfinished}

\* What the configuration of findings looks at.
Surprising == Graphs_ \cup GluedFiles \cup EscapedEnds \cup RawImports

MCEntries == {MainFile}
MCComponents == {".", "..", "/", ".hosc", "hosc", "main", "lib", "sub", "util", "none"}

MCArenaSizes == {131072, 62, 63, 64}
MCExponents == [e2 |-> [value |-> 2, behind |-> ""], e2x |-> [value |-> 2, behind |-> "x"],
                e999 |-> [value |-> 999, behind |-> ""]]
MCStrToD(whole, fraction, exponent) == <<whole, fraction, exponent>>
MCOutOfRange(whole, fraction, exponent) == exponent \notin -300 .. 300

(* Of the names here those at most two edits away from a keyword, as every name of
   one or two letters is from if. *)
MCLikeKeyword == {"a", "e", "f", "g", "i", "n", "p", "q", "x", "y", "z", "e2",
                  "iff", "ifx", "lib", "prnt"}
MCMisspelt == [prnt |-> "unknown function"]
MCLongTexts == {}

(* What may become of a file. *)
MCDamaged(image) ==
  {[image EXCEPT !.stamp = "HBC0 0.2"], [image EXCEPT !.counts.strings = SectionMax + 1],
   [image EXCEPT !.counts.functions = 0], [image EXCEPT !.counts.code = @ + 1],
   [image EXCEPT !.counts.code = @ - 1], [image EXCEPT !.entry = image.counts.functions],
   [image EXCEPT !.functions[1].name = image.counts.strings],
   [image EXCEPT !.functions[1].arity = image.functions[1].local_count + 1],
   [image EXCEPT !.functions[1].code_size = 0],
   [image EXCEPT !.functions[1].code_size = image.counts.code + 1],
   [image EXCEPT !.functions[1].code_offset = image.counts.code]}
  \cup {[image EXCEPT !.globals[g] = image.counts.strings] : g \in DOMAIN image.globals}
  \cup {[image EXCEPT !.constants[c].tag = "invalid"] : c \in DOMAIN image.constants}
  \cup {[image EXCEPT !.constants[c] = [tag |-> "string", as |-> image.counts.strings]] :
          c \in DOMAIN image.constants}
=============================================================================
