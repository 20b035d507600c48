------------------------------ MODULE HLoader ------------------------------
(***************************************************************************)
(* Bytecode files: hosc_write_bytecode_file (compiler/src/frontend/        *)
(* pipeline.c) and hvm_bytecode_load_file (vm/src/bytecode/loader.c).      *)
(*                                                                         *)
(* A file is what would be in it, its image, and how much of that is there.*)
(* It is measured in cells, which are read as a whole or not at all: the   *)
(* header, the length of a string, its bytes, a table that is not empty,   *)
(* the code.                                                               *)
(***************************************************************************)
EXTENDS HBytecode, HBind

CONSTANTS SectionMax,   \* HBC_MAX_SECTION_COUNT
          CodeMax       \* HBC_MAX_CODE_SIZE
ASSUME LimitsAssumption == SectionMax \in Nat /\ CodeMax \in Nat

VARIABLES disk,      \* <<the file>>, or << >>
          reported,  \* what the writer returned
          loading,   \* what the loader does next, or how it ended
          place,     \* the cells that have been read
          held       \* what the loader has allocated and not freed

lvars == <<disk, reported, loading, place, held>>

\* A text of the string table: a name, or the text of a literal.
NameText(name) == [name |-> name, literal |-> 0]
LiteralText(n) == [name |-> "", literal |-> n]

\* The constants that have a text, as the code meets them.
WithText(found, c) == IF c.tag = "string" THEN Append(found, c) ELSE found
Strings(constants) == Fold(WithText, << >>, constants)

(***************************************************************************)
(* The string table (add_string): the names of the functions come first.   *)
(* The others come as the code meets them; here globals before literals.   *)
(***************************************************************************)
StringTable(bc) ==
  [k \in DOMAIN bc.functions |-> NameText(bc.functions[k].name)]
    \o [k \in DOMAIN bc.globals |-> NameText(bc.globals[k])]
    \o [k \in DOMAIN Strings(bc.constants) |-> LiteralText(Strings(bc.constants)[k].as)]

\* add_constant_string: where the text of constant c is.
LiteralIndex(bc, c) ==
  Len(bc.functions) + Len(bc.globals)
    + Cardinality({d \in 1 .. c - 1 : bc.constants[d].tag = "string"})

\* The bytes of the file: names and texts are indices of the string table.
ImageOf(bc) ==
  LET strings == StringTable(bc)
  IN  [stamp |-> "HBC0 0.1",
       counts |-> [strings |-> Len(strings), constants |-> Len(bc.constants),
                   globals |-> Len(bc.globals), functions |-> Len(bc.functions),
                   code |-> Len(bc.code)],
       entry |-> bc.entry,
       strings |-> strings,
       constants |-> [c \in DOMAIN bc.constants |->
                        IF bc.constants[c].tag = "string"
                        THEN [tag |-> "string", as |-> LiteralIndex(bc, c)]
                        ELSE bc.constants[c]],
       globals |-> [g \in DOMAIN bc.globals |-> Len(bc.functions) + g - 1],
       functions |-> [f \in DOMAIN bc.functions |->
                        [bc.functions[f] EXCEPT !.name = f - 1]],
       code |-> bc.code]

Sections == {"constants", "globals", "functions", "code"}
Cells(image, t) == IF image[t] = << >> THEN 0 ELSE 1
Size(image) == 1 + 2 * Len(image.strings) + Cells(image, "constants") + Cells(image, "globals")
                 + Cells(image, "functions") + Cells(image, "code")

(***************************************************************************)
(* hosc_write_bytecode_file. Any write may fail; what it had put into the  *)
(* file stays there. fclose may fail too, and nobody asks: then the writer *)
(* reports success.                                                        *)
(***************************************************************************)
Write(bc) ==
  /\ UNCHANGED <<loading, place, held>>
  /\ \/ reported' = FALSE /\ UNCHANGED disk
     \/ \E cells \in 0 .. Size(ImageOf(bc)) :
          /\ disk' = << [image |-> ImageOf(bc), cells |-> cells] >>
          /\ reported' \in {TRUE} \cup (IF cells < Size(ImageOf(bc)) THEN {FALSE} ELSE {})

-----------------------------------------------------------------------------
File_ == disk[1]
Image == File_.image

\* hvm_file_has_remaining and fread agree: the cells are there.
Remaining(n) == place + n <= File_.cells

Table(name) == [table |-> name, index |-> -1]
Bytes(i) == [table |-> "bytes", index |-> i]

Counts == Image.counts
Tables == {Table(name) : name \in {t \in DOMAIN Counts : Counts[t] > 0}}

LInit == /\ disk = << >> /\ reported = FALSE
         /\ loading = "closed" /\ place = 0 /\ held = {}

\* Before anything is allocated.
Reject == /\ loading' = "refused"
          /\ UNCHANGED <<disk, reported, place, held>>

OpenFile == /\ loading = "closed"
            /\ IF disk = << >> THEN Reject
               ELSE /\ loading' = "header"
                    /\ UNCHANGED <<disk, reported, place, held>>

Plausible ==
  /\ Image.stamp = "HBC0 0.1"
  /\ \A t \in {"strings", "constants", "globals", "functions"} : Counts[t] <= SectionMax
  /\ Counts.code <= CodeMax
  /\ Counts.functions > 0 /\ Image.entry < Counts.functions

HeaderPasses == Remaining(1) /\ Plausible

ReadHeader == /\ loading = "header"
              /\ IF ~HeaderPasses THEN Reject
                 ELSE /\ loading' = "allocate" /\ place' = 1
                      /\ UNCHANGED <<disk, reported, held>>

\* Mutant: the strings read so far are forgotten.
FreeAndRejectTables == /\ loading' = "refused"
                       /\ held' = held \ Tables
                       /\ UNCHANGED <<disk, reported, place>>

\* hbytecode_free
FreeAndReject == /\ loading' = "refused"
                 /\ held' = {}
                 /\ UNCHANGED <<disk, reported, place>>

(***************************************************************************)
(* All tables at once; each may be denied. hbytecode_free goes through the *)
(* strings even where it is their table that is missing: that crashes.     *)
(***************************************************************************)
Allocate ==
  /\ loading = "allocate"
  /\ UNCHANGED <<disk, reported, place>>
  /\ \E denied \in {{}} \cup {{t} : t \in Tables} :
       /\ held' = IF denied = {} THEN Tables ELSE {}
       /\ loading' = CASE denied = {} -> "strings"
                       [] denied = {Table("strings")} -> "crashed"
                       [] OTHER -> "refused"

ReadSoFar == Cardinality({a \in held : a.table = "bytes"})

\* The length, the buffer, the bytes.
ReadString ==
  /\ loading = "strings" /\ ReadSoFar < Counts.strings
  /\ \/ FreeAndReject     \* without the buffer
     \/ IF ~Remaining(2) THEN FreeAndReject
        ELSE /\ held' = held \cup {Bytes(ReadSoFar)} /\ place' = place + 2
             /\ UNCHANGED <<disk, reported, loading>>

After == [strings |-> "constants", constants |-> "globals", globals |-> "functions",
          functions |-> "code", code |-> "validate"]

StringsRead == /\ loading = "strings" /\ ReadSoFar = Counts.strings
               /\ loading' = After.strings
               /\ UNCHANGED <<disk, reported, place, held>>

ReadTable == /\ loading \in Sections
             /\ IF ~Remaining(Cells(Image, loading)) \/ Counts[loading] > Len(Image[loading])
                THEN FreeAndReject
                ELSE /\ loading' = After[loading] /\ place' = place + Cells(Image, loading)
                     /\ UNCHANGED <<disk, reported, held>>

\* Mutant: the code of a function may end behind the code.
InRangeStart(f) == f.code_size > 0 /\ f.code_offset <= Counts.code

\* Where the code of a function is.
InRange(f) == f.code_size > 0 /\ f.code_offset + f.code_size <= Counts.code

\* hvm_validate_loaded_bytecode
Validates ==
  /\ \A c \in ToSet(Image.constants) :
       c.tag # "invalid" /\ (c.tag = "string" => c.as < Counts.strings)
  /\ \A g \in ToSet(Image.globals) : g < Counts.strings
  /\ \A f \in ToSet(Image.functions) :
       f.name < Counts.strings /\ f.arity <= f.local_count /\ InRange(f)

Validate == /\ loading = "validate"
            /\ IF ~Validates THEN FreeAndReject
               ELSE /\ loading' = "accepted"
                    /\ UNCHANGED <<disk, reported, place, held>>

\* hosc_runtime_run_file, once the program has run.
Unload == /\ loading = "accepted"
          /\ loading' = "unloaded" /\ held' = {}
          /\ UNCHANGED <<disk, reported, place>>

Load == OpenFile \/ ReadHeader \/ Allocate \/ ReadString \/ StringsRead \/ ReadTable \/ Validate \/ Unload

-----------------------------------------------------------------------------
(***************************************************************************)
(* Any file. Its strings are what the loader finds where the counts in the *)
(* header say that there are strings.                                      *)
(***************************************************************************)
TextTypes == [name : STRING \ {NoName}, literal : {0}] \cup [name : {""}, literal : Int]

CountTypes == [strings : Nat, constants : Nat, globals : Nat, functions : Nat, code : Nat]

ConstantTypes == [tag : {"int", "float", "invalid"}, as : Int] \cup [tag : {"string"}, as : Nat]

FunctionTypes == [name : Nat, arity : Nat, local_count : Nat, max_stack : Nat,
                  code_offset : Nat, code_size : Nat]

ImageTypes ==
  {image \in [stamp : {"HBC0 0.1", "HBC0 0.2"}, counts : CountTypes, entry : Nat,
              strings : Seq(TextTypes), constants : Seq(ConstantTypes), globals : Seq(Nat),
              functions : Seq(FunctionTypes), code : Seq(0 .. 255)] :
     image.counts.strings <= SectionMax => image.counts.strings = Len(image.strings)}

StoredFiles == {file \in [image : ImageTypes, cells : Nat] : file.cells <= Size(file.image)}

\* What the code generator hands over has names: add_string copies them.
NamedModules == {bc \in Bytecode :
               /\ NoName \notin ToSet(bc.globals)
               /\ \A f \in ToSet(bc.functions) : f.name # NoName
               /\ \A c \in ToSet(bc.constants) : c.tag # "invalid"}

\* A file that comes from elsewhere.
Change == /\ loading = "closed"
          /\ disk' \in {<< >>} \cup {<<file>> : file \in StoredFiles}
          /\ UNCHANGED <<reported, loading, place, held>>

LNext == \/ loading = "closed" /\ \E bc \in NamedModules : Write(bc)
         \/ Change
         \/ Load

LSpec == LInit /\ [][LNext]_lvars

-----------------------------------------------------------------------------
\* What the loaded module says, its strings in place of their indices.
NameAt(index) == IF index < Len(Image.strings) THEN Image.strings[index + 1].name ELSE NoName

LoadedModule ==
  [entry |-> Image.entry,
   constants |-> [c \in DOMAIN Image.constants |->
                    CASE Image.constants[c].tag # "string" -> Image.constants[c]
                      [] Image.constants[c].tag = "string" /\ Image.constants[c].as < Len(Image.strings)
                           -> [tag |-> "string", as |-> Image.strings[Image.constants[c].as + 1].literal]
                      [] OTHER -> [tag |-> "invalid", as |-> 0]],
   globals |-> [g \in DOMAIN Image.globals |-> NameAt(Image.globals[g])],
   functions |-> [f \in DOMAIN Image.functions |->
                    [Image.functions[f] EXCEPT !.name = NameAt(Image.functions[f].name)]],
   code |-> SubSeq(Image.code, 1, Counts.code)]

(***************************************************************************)
(* Nothing that a refused file was read into stays allocated, and of an    *)
(* accepted one everything does until it has run (hbytecode_free).         *)
(***************************************************************************)
Released ==
  /\ loading \in {"refused", "unloaded"} => held = {}
  /\ loading = "accepted" => held = Tables \cup {Bytes(i) : i \in 0 .. Counts.strings - 1}

(***************************************************************************)
(* An accepted file is complete, whatever became of the writes             *)
(* (hvm_file_has_remaining).                                               *)
(***************************************************************************)
AcceptedWhole == loading = "accepted" => File_.cells = Size(Image)

(***************************************************************************)
(* Whatever is wrong with a file that is accepted is one of the things the *)
(* VM looks for itself, in the code: names, constants and ranges are right *)
(* (hvm_validate_loaded_bytecode, before hvm_validate_function_code).      *)
(***************************************************************************)
AcceptedSound ==
  loading = "accepted" =>
    LET bc == LoadedModule
    IN  /\ bc.entry < Len(bc.functions)
        /\ \A c \in ToSet(bc.constants) : c.tag # "invalid"
        /\ NoName \notin ToSet(bc.globals)
        /\ \A f \in ToSet(bc.functions) :
             /\ f.name # NoName /\ f.arity <= f.local_count
             /\ f.code_offset + f.code_size <= Len(bc.code)

(***************************************************************************)
(* What the writer reports written is there. This does not hold: what      *)
(* fclose says is not looked at.                                           *)
(***************************************************************************)
ReportedIsWritten ==
  \A file \in ToSet(disk) : reported => file.cells = Size(file.image)
=============================================================================
