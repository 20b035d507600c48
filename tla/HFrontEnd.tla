----------------------------- MODULE HFrontEnd -----------------------------
(***************************************************************************)
(* The compiler as a whole, from a path to a bytecode file and on to the   *)
(* loaded module: hosc_compile_file and hosc_compile_memory (compiler/src/ *)
(* frontend/pipeline.c) call import resolution, lexer, parser, type        *)
(* checker and code generator one after the other; `hosc build` writes the *)
(* result, hosc_runtime_run_file loads what it finds.                      *)
(***************************************************************************)
EXTENDS HImports, HParser, HSema, HCodegen, HLoader

CONSTANTS ArenaSizes,    \* AST_ARENA_DEFAULT_SIZE, in words
          LikeMain,      \* the names that begin with "main"
          Markers,       \* the words that the functions of framework scripts end with
          Damaged(_)     \* what may become of the image of a file

VARIABLES stage,     \* what the compiler does next
          memory,    \* the size of the arena
          arena,     \* whether the arena of the syntax tree is still there
          ast,       \* <<the syntax tree>>, or << >>
          said,      \* the parser's message
          codes,     \* the codes of the diagnostics
          result     \* <<the bytecode>>, or << >>

compiling == <<stage, memory, arena, ast, said, codes, result>>
fvars == <<ivars, lvars, compiling>>

LineAt(piece) == files[Meaning(piece.file)].lines[piece.line]

\* The text that was put together of pieces.
Source(pieces) ==
  FlattenSeq([k \in DOMAIN pieces |->
                LineAt(pieces[k]).chars \o IF pieces[k].whole THEN << Token("\n") >> ELSE << >>])

\* strstr(source, "func main"): in a comment or a literal as well.
HasMain(source) ==
  \E k \in 1 .. Len(source) - 2 :
    source[k].name = "func" /\ source[k + 1].type = " " /\ source[k + 2].name \in LikeMain

\* hosc_looks_like_framework_script
LooksLikeFrameworkScript(source) ==
  \E k \in 1 .. Len(source) - 1 : source[k].name \in Markers /\ source[k + 1].type = "("

Tokens(pieces) == LexerTokenize(Source(pieces)).tokens

\* hosc_compile_memory: what a message of the parser counts as.
CodeOf(message) ==
  CASE message = "unknown function" -> "H205"
    [] message \in {"unknown keyword", "unexpected"} -> "H104"
    [] OTHER -> "H002"

FInit == /\ IInit /\ LInit
         /\ stage = "resolve" /\ memory \in ArenaSizes /\ arena = FALSE
         /\ ast = << >> /\ said = "none" /\ codes = << >> /\ result = << >>

Refused(diagnostics) == stage' = "done" /\ codes' = diagnostics
GoesOn(next) == stage' = next /\ UNCHANGED codes

others == <<files, active, path, text, error, memory, lvars>>
resolution == <<others, loaded, at>>

Resolve == stage = "resolve" /\ INext /\ UNCHANGED <<lvars, compiling>>

FreesLists == at' = "freed" /\ loaded' = << >>

NoSource == /\ stage = "resolve" /\ NotResolved
            /\ FreesLists /\ Refused(<<"H000">>)
            /\ UNCHANGED <<others, arena, ast, said, result>>

Scan == /\ stage = "resolve" /\ Resolved
        /\ FreesLists
        /\ \E source \in {Source(text)} :
             CASE ~HasMain(source) -> Refused(<<"H001">>)
               [] HasMain(source) /\ LooksLikeFrameworkScript(source) -> Refused(<<"H003">>)
               [] OTHER -> GoesOn("parse")
        /\ UNCHANGED <<others, arena, ast, said, result>>

\* What the lexer says is written to stderr; the diagnostic is empty.
Parse == /\ stage = "parse"
         /\ \E p \in {ParserParse(Source(text), memory)} :
              /\ said' = p.message
              /\ IF p.ok
                 THEN GoesOn("check") /\ ast' = <<p.node>> /\ arena' = TRUE
                 ELSE Refused(<<CodeOf(p.message)>>) /\ UNCHANGED <<ast, arena>>
         /\ UNCHANGED <<resolution, result>>

Check == /\ stage = "check"
         /\ \E errors \in {TypeErrors(ast[1])} :
              IF errors = << >> THEN GoesOn("build") /\ UNCHANGED arena
              ELSE Refused(errors) /\ arena' = FALSE
         /\ UNCHANGED <<resolution, ast, said, result>>

\* Mutant: no diagnostic says that there is no bytecode.
EmitSilently == /\ stage = "build"
                /\ result' = BuildBytecode(ast[1])
                /\ Refused(<< >>) /\ arena' = FALSE
                /\ UNCHANGED <<resolution, ast, said>>

Emit == /\ stage = "build"
        /\ result' = BuildBytecode(ast[1])
        /\ Refused(IF result' = << >> THEN <<"H900">> ELSE << >>) /\ arena' = FALSE
        /\ UNCHANGED <<resolution, ast, said>>

\* hosc_compile_file: free(source).
Return == /\ stage = "done"
          /\ stage' = "compiled" /\ text' = << >>
          /\ UNCHANGED <<files, active, loaded, at, path, error, lvars,
                         memory, arena, ast, said, codes, result>>

\* hosc_compile_result_free comes after it.
Save == /\ stage = "compiled" /\ result # << >>
        /\ Write(result[1])
        /\ stage' = "saved"
        /\ UNCHANGED <<ivars, memory, arena, ast, said, codes, result>>

\* Until it is loaded, a file may change.
Damage == /\ stage = "saved" /\ loading = "closed" /\ disk # << >>
          /\ \E image \in Damaged(disk[1].image) :
               disk' = << [image |-> image, cells |-> Size(image)] >>
          /\ stage' = "changed"
          /\ UNCHANGED <<ivars, reported, loading, place, held,
                         memory, arena, ast, said, codes, result>>

LoadBack == /\ stage \in {"saved", "changed"} /\ Load
            /\ UNCHANGED <<ivars, compiling>>

FNext == Resolve \/ NoSource \/ Scan \/ Parse \/ Check \/ Emit \/ Return \/ Save \/ Damage \/ LoadBack

(***************************************************************************)
(* The one thread of the process goes on with what it has begun. That a    *)
(* file is saved, and loaded, is up to the user.                           *)
(***************************************************************************)
GoesOnLoading == loading # "closed" /\ LoadBack

FSpec == FInit /\ [][FNext]_fvars /\ WF_fvars(Resolve) /\ WF_fvars(GoesOnLoading)

-----------------------------------------------------------------------------
(***************************************************************************)
(* A compilation ends with bytecode or with at least one error, never with *)
(* both or neither, and leaves no arena behind (hosc_compile_memory).      *)
(***************************************************************************)
OneVerdict == stage = "done" => (result # << >> <=> codes = << >>) /\ ~arena

\* What the lines of the text were written for: tokens, each with its line.
OnLine(tokens, n) == [k \in DOMAIN tokens |-> [tokens[k] EXCEPT !.line = n]]
IntendedTokens == FlattenSeq([k \in DOMAIN text |-> OnLine(LineAt(text[k]).tokens, k)])

(***************************************************************************)
(* The lexer finds the tokens that were written, whatever stands beside    *)
(* them, and the line of each behind comments and literals of many lines;  *)
(* and none at all in a text with a token that has no end or no value      *)
(* (lexer_tokenize).                                                       *)
(***************************************************************************)
TokensBack ==
  stage = "resolve" /\ Resolved =>
    LET read == LexerTokenize(Source(text))
    IN  IF \E t \in ToSet(IntendedTokens) : t.type = "error" THEN ~read.ok
        ELSE read.ok /\ read.tokens = IntendedTokens

\* The declarations that the lines of the text were written for.
Intended == FlattenSeq([k \in DOMAIN text |-> LineAt(text[k]).declares])

Enough == CHOOSE most \in ArenaSizes : \A size \in ArenaSizes : size <= most

(***************************************************************************)
(* The parser reads a program back to the tree that it was written for,    *)
(* from whichever files it was put together: every operator binds as the   *)
(* grammar says (parse_expression and below).                              *)
(***************************************************************************)
ReadBack == stage = "check" /\ memory = Enough => ast[1] = Intended

(***************************************************************************)
(* An arena that is too small for the tree makes the parser fail, or drops *)
(* the last declaration of the program: never anything inside a function   *)
(* (ast_list_append).                                                      *)
(***************************************************************************)
OnlyLastDropped ==
  stage = "check" => LET whole == ParserParse(Source(text), Enough).node
                     IN  ast[1] \in {whole, Front(whole)}

\* The brackets that are open at a token.
Open_(tokens, k) ==
  LET before == SubSeq(tokens, 1, k)
      Count(types) == Len(SelectSeq(before, LAMBDA t : t.type \in types))
  IN  Count({"(", "{"}) - Count({")", "}"})

(***************************************************************************)
(* A program is too deeply nested only where it is: what was parsed before,*)
(* or could not be, does not count (parse_statement, parse_expression).    *)
(***************************************************************************)
DeepWhereDeep ==
  stage = "done" /\ ast = << >> /\ said = "depth" =>
    \E k \in DOMAIN Tokens(text) : Open_(Tokens(text), k) >= MaxDepth - 1

(***************************************************************************)
(* What is loaded from a file that nobody changed is what was compiled,    *)
(* name by name and literal by literal.                                    *)
(***************************************************************************)
LoadedIsCompiled ==
  loading = "accepted" /\ stage = "saved" => LoadedModule = result[1]

(***************************************************************************)
(* What may be executed is what was compiled, as long as nobody changed    *)
(* it; and otherwise a complete module whose names and ranges are right.   *)
(***************************************************************************)
AcceptedRightly == LoadedIsCompiled /\ AcceptedWhole /\ AcceptedSound

(***************************************************************************)
(* However files import each other, import resolution ends, and whatever   *)
(* is in a file, so does loading it (resolve_imports_recursive,            *)
(* hvm_bytecode_load_file).                                                *)
(***************************************************************************)
FrontEnds ==
  /\ <>(Resolved \/ NotResolved)
  /\ [](loading = "header" => <>(loading \in {"unloaded", "refused", "crashed"}))
=============================================================================
