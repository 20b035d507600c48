---------------------------- MODULE HLoader_proofs ----------------------------
(***************************************************************************)
(* What the loader keeps of a file, and what it accepts, for every file:   *)
(* those the compiler has written, whole or in part, and those that come   *)
(* from elsewhere.                                                         *)
(***************************************************************************)
EXTENDS HLoader, HBind_proofs, FiniteSetTheorems

-----------------------------------------------------------------------------
(* The invariant: where the loader is in the file, and what it holds.      *)

\* The length of the file up to the section, whose strings are complete.
Behind == 1 + 2 * Counts.strings

Start(section) ==
  Behind
    + (IF section \in {"constants"} THEN 0 ELSE Cells(Image, "constants"))
    + (IF section \in {"constants", "globals"} THEN 0 ELSE Cells(Image, "globals"))
    + (IF section \in {"constants", "globals", "functions"} THEN 0 ELSE Cells(Image, "functions"))
    + (IF section \in Sections THEN 0 ELSE Cells(Image, "code"))

\* The sections that have been read before this one.
Done(section) ==
  CASE section = "constants" -> {}
    [] section = "globals"   -> {"constants"}
    [] section = "functions" -> {"constants", "globals"}
    [] section = "code"      -> {"constants", "globals", "functions"}
    [] OTHER                 -> Sections

Strung(k) == Tables \cup {Bytes(i) : i \in 0 .. k - 1}

Ended == {"refused", "unloaded", "crashed"}
LaterParts == Sections \cup {"validate", "accepted"}

LTypeOK ==
  /\ disk # << >> => disk = <<File_>> /\ File_ \in StoredFiles
  /\ loading \in {"closed", "header", "allocate", "strings"} \cup LaterParts \cup Ended
  /\ place \in Nat

InFile ==
  /\ loading \in {"header", "allocate", "strings"} \cup LaterParts => disk # << >>
  /\ loading \in {"closed", "header"} => place = 0
  /\ loading \in {"allocate", "strings"} \cup LaterParts => Plausible
  /\ loading = "allocate" => place = 1 /\ place <= File_.cells
  /\ loading \in LaterParts =>
       /\ place = Start(loading) /\ place <= File_.cells
       /\ \A t \in Done(loading) : Counts[t] <= Len(Image[t])
  /\ loading = "accepted" => Validates

Holds ==
  /\ loading \in {"closed", "header", "allocate"} \cup Ended => held = {}
  /\ loading = "strings" =>
       \E k \in 0 .. Counts.strings :
         held = Strung(k) /\ place = 1 + 2 * k /\ place <= File_.cells
  /\ loading \in LaterParts => held = Strung(Counts.strings)

LInv == LTypeOK /\ InFile /\ Holds

-----------------------------------------------------------------------------
(* What the writer makes of a module.                                      *)

\* The constants among the first i that have a text.
Literals(constants, i) == {d \in 1 .. i : constants[d].tag = "string"}
Rank(constants, c) == Cardinality(Literals(constants, c - 1))

LEMMA LiteralsCounted ==
  ASSUME NEW constants \in Seq(Constant), NEW i \in 1 .. Len(constants)
  PROVE  /\ Rank(constants, i) \in Nat /\ Rank(constants, i + 1) \in Nat
         /\ constants[i].tag = "string" => Rank(constants, i + 1) = Rank(constants, i) + 1
         /\ constants[i].tag # "string" => Rank(constants, i + 1) = Rank(constants, i)
<1> DEFINE S == Literals(constants, i - 1)
           T == Literals(constants, i)
<1>1. Len(constants) \in Nat /\ i \in Nat /\ (i + 1) - 1 = i /\ i - 1 \in Int
  OBVIOUS
<1>2. IsFiniteSet(1 .. i - 1)
  BY <1>1, FS_Interval
<1>3. S \in SUBSET (1 .. i - 1)
  BY DEF Literals
<1>4. IsFiniteSet(S)
  <2> HIDE DEF S
  <2> QED
    BY <1>2, <1>3, FS_Subset
<1>5. i \notin S
  BY <1>1, <1>3
<1>6. Cardinality(S) \in Nat
  <2> HIDE DEF S
  <2> QED
    BY <1>4, FS_CardinalityType
<1>7. Rank(constants, i) = Cardinality(S) /\ Rank(constants, i + 1) = Cardinality(T)
  BY <1>1 DEF Rank
<1>8. CASE constants[i].tag = "string"
  <2>1. T = S \cup {i}
    BY <1>1, <1>8 DEF Literals
  <2>2. Cardinality(S \cup {i}) = Cardinality(S) + 1
    <3> HIDE DEF S
    <3> QED
      BY <1>4, <1>5, FS_AddElement
  <2> HIDE DEF S, T
  <2> QED
    BY <1>6, <1>7, <1>8, <2>1, <2>2
<1>9. CASE constants[i].tag # "string"
  <2>1. T = S
    BY <1>1, <1>9 DEF Literals
  <2> HIDE DEF S, T
  <2> QED
    BY <1>6, <1>7, <1>9, <2>1
<1> QED
  BY <1>8, <1>9

(* The texts of the constants are in the string table in their order, so   *)
(* that the number of those before it tells where a text is.               *)
LEMMA StringsFound ==
  ASSUME NEW constants \in Seq(Constant)
  PROVE  /\ Strings(constants) \in Seq(Constant)
         /\ \A c \in 1 .. Len(constants) :
              constants[c].tag = "string" =>
                /\ Rank(constants, c) \in Nat
                /\ Rank(constants, c) < Len(Strings(constants))
                /\ Strings(constants)[Rank(constants, c) + 1] = constants[c]
<1> DEFINE n == Len(constants)
           S == Seq(Constant)
           F == [p \in S \X (1 .. n) |-> WithText(p[1], constants[p[2]])]
           Recursive(f) == f = [i \in 0 .. n |->
                                  IF i = 0 THEN << >>
                                  ELSE Bind(f[i - 1], LAMBDA a : WithText(a, constants[i]))]
           after == CHOOSE f : Recursive(f)
<1>1. n \in Nat /\ \A i \in 1 .. n : i - 1 \in 0 .. n /\ constants[i] \in Constant
  OBVIOUS
<1>2. \A found \in S, c \in Constant : WithText(found, c) \in S
  BY AppendProperties DEF WithText
<1>3. F \in [S \X (1 .. n) -> S]
  BY <1>1, <1>2
<1>4. PICK g \in Results(n, S, << >>, F) : TRUE
  <2>1. << >> \in S
    BY EmptySeq
  <2> HIDE DEF F, n, S
  <2> QED
    BY <1>1, <1>3, <2>1, Recursion
<1>5. /\ g \in [0 .. n -> S] /\ g[0] = << >>
      /\ \A i \in 1 .. n : g[i] = WithText(g[i - 1], constants[i])
  BY <1>1, <1>4 DEF Results
<1>6. Recursive(g)
  BY <1>1, <1>5 DEF Bind
<1>7. Recursive(after)
  BY <1>6, Zenon
<1> HIDE DEF after
<1>8. after[0] = << >> /\ \A i \in 1 .. n : after[i] = WithText(after[i - 1], constants[i])
  BY <1>1, <1>7 DEF Bind
<1>9. Strings(constants) = after[n]
  BY DEF Strings, Fold, after
<1> DEFINE Placed(s, i) ==
             /\ s \in S
             /\ Len(s) = Rank(constants, i + 1)
             /\ \A c \in 1 .. i :
                  constants[c].tag = "string" =>
                    /\ Rank(constants, c) \in Nat /\ Rank(constants, c) < Len(s)
                    /\ s[Rank(constants, c) + 1] = constants[c]
           P == {i \in 0 .. n : Placed(after[i], i)}
<1>10. Placed(<< >>, 0)
  <2>1. Literals(constants, (0 + 1) - 1) = {}
    BY DEF Literals
  <2>2. Rank(constants, 0 + 1) = 0
    BY <2>1, FS_EmptySet DEF Rank
  <2> QED
    BY <2>2, EmptySeq
<1>11. ASSUME NEW i \in 1 .. n, NEW s, Placed(s, i - 1)
       PROVE  Placed(WithText(s, constants[i]), i)
  <2>1. /\ s \in S /\ Len(s) = Rank(constants, i) /\ i \in Nat /\ (i - 1) + 1 = i
        /\ constants[i] \in Constant
    BY <1>1, <1>11
  <2>2. CASE constants[i].tag = "string"
    <3> DEFINE t == Append(s, constants[i])
    <3>1. /\ t \in S /\ Len(t) = Len(s) + 1 /\ t[Len(s) + 1] = constants[i]
          /\ \A k \in 1 .. Len(s) : t[k] = s[k]
      BY <2>1, AppendProperties
    <3>2. Rank(constants, i) \in Nat /\ Rank(constants, i + 1) = Rank(constants, i) + 1
      BY <2>2, LiteralsCounted
    <3>3. WithText(s, constants[i]) = t
      BY <2>2 DEF WithText
    <3> HIDE DEF t, S
    <3>4. ASSUME NEW c \in 1 .. i, constants[c].tag = "string"
          PROVE  /\ Rank(constants, c) \in Nat /\ Rank(constants, c) < Len(t)
                 /\ t[Rank(constants, c) + 1] = constants[c]
      <4>1. CASE c = i
        BY <2>1, <3>1, <3>2, <4>1
      <4>2. CASE c # i
        <5>1. c \in 1 .. i - 1
          BY <2>1, <4>2
        <5>2. /\ Rank(constants, c) \in Nat /\ Rank(constants, c) < Len(s)
              /\ s[Rank(constants, c) + 1] = constants[c]
          BY <1>11, <3>4, <5>1
        <5>3. Rank(constants, c) + 1 \in 1 .. Len(s)
          BY <2>1, <3>2, <5>2
        <5> QED
          BY <2>1, <3>1, <3>2, <5>2, <5>3
      <4> QED
        BY <4>1, <4>2
    <3> QED
      BY <2>1, <3>1, <3>2, <3>3, <3>4
  <2>3. CASE constants[i].tag # "string"
    <3>1. Rank(constants, i + 1) = Rank(constants, i)
      BY <2>3, LiteralsCounted
    <3>2. WithText(s, constants[i]) = s
      BY <2>3 DEF WithText
    <3>3. \A c \in 1 .. i : constants[c].tag = "string" => c \in 1 .. i - 1
      BY <2>1, <2>3
    <3> HIDE DEF S
    <3> QED
      BY <1>11, <2>1, <3>1, <3>2, <3>3
  <2> QED
    BY <2>2, <2>3
<1> HIDE DEF Placed
<1>12. 0 \in P /\ \A i \in 1 .. n : i - 1 \in P => i \in P
  BY <1>1, <1>8, <1>10, <1>11
<1>13. \A i \in 0 .. n : i \in P
  <2> HIDE DEF P, n
  <2> QED
    BY <1>1, <1>12, Induction
<1>14. Placed(after[n], n)
  BY <1>1, <1>13
<1> QED
  BY <1>9, <1>14 DEF Placed

LEMMA ThreeJoined ==
  ASSUME NEW S, NEW a \in Seq(S), NEW b \in Seq(S), NEW c \in Seq(S)
  PROVE  /\ a \o b \o c \in Seq(S) /\ Len(a \o b \o c) = Len(a) + Len(b) + Len(c)
         /\ \A i \in 1 .. Len(a) : (a \o b \o c)[i] = a[i]
         /\ \A i \in 1 .. Len(b) : (a \o b \o c)[Len(a) + i] = b[i]
         /\ \A i \in 1 .. Len(c) : (a \o b \o c)[Len(a) + Len(b) + i] = c[i]
<1>1. Len(a) \in Nat /\ Len(b) \in Nat /\ Len(c) \in Nat
  BY LenProperties
<1> DEFINE d == a \o b
<1>2. /\ d \in Seq(S) /\ Len(d) = Len(a) + Len(b)
      /\ \A i \in 1 .. Len(a) + Len(b) : d[i] = IF i <= Len(a) THEN a[i] ELSE b[i - Len(a)]
  BY ConcatProperties
<1> HIDE DEF d
<1>3. /\ d \o c \in Seq(S) /\ Len(d \o c) = Len(d) + Len(c)
      /\ \A i \in 1 .. Len(d) + Len(c) :
           (d \o c)[i] = IF i <= Len(d) THEN d[i] ELSE c[i - Len(d)]
  <2>1. d \in Seq(S)
    BY <1>2
  <2> QED
    BY <2>1, ConcatProperties
<1>4. ASSUME NEW i \in 1 .. Len(a) PROVE (d \o c)[i] = a[i]
  BY <1>1, <1>2, <1>3
<1>5. ASSUME NEW i \in 1 .. Len(b) PROVE (d \o c)[Len(a) + i] = b[i]
  <2>1. /\ Len(a) + i \in 1 .. Len(a) + Len(b) /\ Len(a) + i \in 1 .. Len(d) + Len(c)
        /\ Len(a) + i <= Len(d) /\ ~(Len(a) + i <= Len(a)) /\ (Len(a) + i) - Len(a) = i
    BY <1>1, <1>2
  <2> QED
    BY <1>2, <1>3, <2>1
<1>6. ASSUME NEW i \in 1 .. Len(c) PROVE (d \o c)[Len(a) + Len(b) + i] = c[i]
  <2>1. /\ Len(a) + Len(b) + i \in 1 .. Len(d) + Len(c)
        /\ ~(Len(a) + Len(b) + i <= Len(d)) /\ (Len(a) + Len(b) + i) - Len(d) = i
    BY <1>1, <1>2
  <2> QED
    BY <1>3, <2>1
<1> QED
  BY <1>2, <1>3, <1>4, <1>5, <1>6 DEF d

(* Names of functions, names of globals, texts: each where its index says. *)
LEMMA StringTableFacts ==
  ASSUME NEW bc \in NamedModules
  PROVE  LET table == StringTable(bc)
             texts == Strings(bc.constants)
         IN  /\ table \in Seq(TextTypes)
             /\ texts \in Seq(Constant)
             /\ Len(table) = Len(bc.functions) + Len(bc.globals) + Len(texts)
             /\ \A f \in 1 .. Len(bc.functions) : table[f].name = bc.functions[f].name
             /\ \A g \in 1 .. Len(bc.globals) :
                  table[Len(bc.functions) + g].name = bc.globals[g]
             /\ \A k \in 1 .. Len(texts) :
                  table[Len(bc.functions) + Len(bc.globals) + k].literal = texts[k].as
<1> DEFINE texts == Strings(bc.constants)
           A == [k \in 1 .. Len(bc.functions) |-> NameText(bc.functions[k].name)]
           B == [k \in 1 .. Len(bc.globals) |-> NameText(bc.globals[k])]
           C == [k \in 1 .. Len(texts) |-> LiteralText(texts[k].as)]
<1>1. /\ bc.functions \in Seq(Function) /\ bc.globals \in Seq(STRING)
      /\ bc.constants \in Seq(Constant)
      /\ \A f \in 1 .. Len(bc.functions) : bc.functions[f].name # NoName
      /\ \A g \in 1 .. Len(bc.globals) : bc.globals[g] # NoName
  BY DEF NamedModules, Bytecode, ToSet
<1>2. texts \in Seq(Constant)
  BY <1>1, StringsFound
<1>3. /\ Len(bc.functions) \in Nat /\ Len(bc.globals) \in Nat /\ Len(texts) \in Nat
      /\ DOMAIN bc.functions = 1 .. Len(bc.functions)
      /\ DOMAIN bc.globals = 1 .. Len(bc.globals) /\ DOMAIN texts = 1 .. Len(texts)
  BY <1>1, <1>2, LenProperties
<1>4. StringTable(bc) = A \o B \o C
  BY <1>3 DEF StringTable
<1> HIDE DEF texts
<1>5. A \in Seq(TextTypes) /\ Len(A) = Len(bc.functions)
  <2>1. ASSUME NEW k \in 1 .. Len(bc.functions)
        PROVE  NameText(bc.functions[k].name) \in TextTypes
    <3>1. bc.functions[k] \in Function
      BY <1>1
    <3>2. bc.functions[k].name \in STRING \ {NoName}
      BY <1>1, <3>1 DEF Function
    <3> QED
      BY <3>2 DEF NameText, TextTypes
  <2> QED
    BY <1>3, <2>1
<1>6. B \in Seq(TextTypes) /\ Len(B) = Len(bc.globals)
  <2>1. ASSUME NEW k \in 1 .. Len(bc.globals)
        PROVE  NameText(bc.globals[k]) \in TextTypes
    <3>1. bc.globals[k] \in STRING \ {NoName}
      BY <1>1
    <3> QED
      BY <3>1 DEF NameText, TextTypes
  <2> QED
    BY <1>3, <2>1
<1>7. C \in Seq(TextTypes) /\ Len(C) = Len(texts)
  <2>1. ASSUME NEW k \in 1 .. Len(texts) PROVE LiteralText(texts[k].as) \in TextTypes
    <3>1. texts[k] \in Constant
      BY <1>2
    <3>2. texts[k].as \in Int
      BY <3>1 DEF Constant
    <3> QED
      BY <3>2 DEF LiteralText, TextTypes
  <2> QED
    BY <1>3, <2>1
<1>8. /\ \A k \in 1 .. Len(bc.functions) : A[k].name = bc.functions[k].name
      /\ \A k \in 1 .. Len(bc.globals) : B[k].name = bc.globals[k]
      /\ \A k \in 1 .. Len(texts) : C[k].literal = texts[k].as
  BY DEF NameText, LiteralText
<1> HIDE DEF A, B, C
<1>9. /\ A \o B \o C \in Seq(TextTypes) /\ Len(A \o B \o C) = Len(A) + Len(B) + Len(C)
      /\ \A i \in 1 .. Len(A) : (A \o B \o C)[i] = A[i]
      /\ \A i \in 1 .. Len(B) : (A \o B \o C)[Len(A) + i] = B[i]
      /\ \A i \in 1 .. Len(C) : (A \o B \o C)[Len(A) + Len(B) + i] = C[i]
  <2>1. A \in Seq(TextTypes) /\ B \in Seq(TextTypes) /\ C \in Seq(TextTypes)
    BY <1>5, <1>6, <1>7
  <2> QED
    BY <2>1, ThreeJoined
<1> DEFINE table == A \o B \o C
<1>10. /\ table \in Seq(TextTypes) /\ Len(table) = Len(A) + Len(B) + Len(C)
       /\ \A i \in 1 .. Len(A) : table[i] = A[i]
       /\ \A i \in 1 .. Len(B) : table[Len(A) + i] = B[i]
       /\ \A i \in 1 .. Len(C) : table[Len(A) + Len(B) + i] = C[i]
  BY <1>9
<1>11. StringTable(bc) = table
  BY <1>4
<1> HIDE DEF table
<1>12. \A k \in 1 .. Len(bc.functions) : table[k].name = bc.functions[k].name
  BY <1>5, <1>8, <1>10
<1>13. \A k \in 1 .. Len(bc.globals) : table[Len(bc.functions) + k].name = bc.globals[k]
  <2>1. ASSUME NEW k \in 1 .. Len(bc.globals) PROVE table[Len(A) + k] = B[k]
    BY <1>6, <1>10
  <2> QED
    BY <1>5, <1>8, <2>1
<1>14. \A k \in 1 .. Len(texts) :
         table[Len(bc.functions) + Len(bc.globals) + k].literal = texts[k].as
  <2>1. ASSUME NEW k \in 1 .. Len(texts) PROVE table[Len(A) + Len(B) + k] = C[k]
    BY <1>7, <1>10
  <2> QED
    BY <1>5, <1>6, <1>8, <2>1
<1> QED
  BY <1>2, <1>5, <1>6, <1>7, <1>10, <1>11, <1>12, <1>13, <1>14 DEF texts

(* What is written can be read.                                            *)
LEMMA ImageTyped ==
  ASSUME NEW bc \in NamedModules
  PROVE  /\ ImageOf(bc) \in ImageTypes
         /\ ImageOf(bc).counts.strings = Len(ImageOf(bc).strings)
<1> DEFINE image == ImageOf(bc)
           table == StringTable(bc)
           constants == [c \in DOMAIN bc.constants |->
                           IF bc.constants[c].tag = "string"
                           THEN [tag |-> "string", as |-> LiteralIndex(bc, c)]
                           ELSE bc.constants[c]]
           globals == [g \in DOMAIN bc.globals |-> Len(bc.functions) + g - 1]
           functions == [f \in DOMAIN bc.functions |-> [bc.functions[f] EXCEPT !.name = f - 1]]
<1>1. /\ bc.functions \in Seq(Function) /\ bc.globals \in Seq(STRING)
      /\ bc.constants \in Seq(Constant) /\ bc.code \in Seq(0 .. 255) /\ bc.entry \in Nat
  BY DEF NamedModules, Bytecode
<1>2. /\ Len(bc.functions) \in Nat /\ Len(bc.globals) \in Nat /\ Len(bc.constants) \in Nat
      /\ Len(bc.code) \in Nat
      /\ DOMAIN bc.functions = 1 .. Len(bc.functions)
      /\ DOMAIN bc.globals = 1 .. Len(bc.globals)
      /\ DOMAIN bc.constants = 1 .. Len(bc.constants)
  BY <1>1, LenProperties
<1>3. table \in Seq(TextTypes) /\ Len(table) \in Nat
  BY StringTableFacts, LenProperties
<1>4. constants \in Seq(ConstantTypes)
  <2>1. ASSUME NEW c \in 1 .. Len(bc.constants)
        PROVE  (IF bc.constants[c].tag = "string"
                THEN [tag |-> "string", as |-> LiteralIndex(bc, c)]
                ELSE bc.constants[c]) \in ConstantTypes
    <3>1. bc.constants[c].tag = "string" => Rank(bc.constants, c) \in Nat
      BY <1>1, StringsFound
    <3>2. LiteralIndex(bc, c) = Len(bc.functions) + Len(bc.globals) + Rank(bc.constants, c)
      BY DEF LiteralIndex, Rank, Literals
    <3>3. ASSUME bc.constants[c].tag = "string" PROVE LiteralIndex(bc, c) \in Nat
      <4> DEFINE r == Rank(bc.constants, c)
                 nf == Len(bc.functions)
                 ng == Len(bc.globals)
      <4>1. r \in Nat /\ nf \in Nat /\ ng \in Nat
        BY <1>2, <3>1, <3>3
      <4>2. LiteralIndex(bc, c) = nf + ng + r
        BY <3>2
      <4> HIDE DEF r, nf, ng
      <4>3. nf + ng + r \in Nat
        BY <4>1
      <4> QED
        BY <4>2, <4>3
    <3>4. bc.constants[c] \in Constant
      BY <1>1
    <3> QED
      BY <3>3, <3>4 DEF Constant, ConstantTypes
  <2> QED
    BY <1>2, <2>1
<1>5. globals \in Seq(Nat)
  BY <1>2
<1>6. functions \in Seq(FunctionTypes)
  <2>1. ASSUME NEW f \in 1 .. Len(bc.functions)
        PROVE  [bc.functions[f] EXCEPT !.name = f - 1] \in FunctionTypes
    <3>1. bc.functions[f] \in Function
      BY <1>1
    <3>2. f \in Nat /\ f - 1 \in Nat
      BY <1>2
    <3> DEFINE function == bc.functions[f]
    <3>3. function \in Function
      BY <3>1
    <3> HIDE DEF function
    <3>4. [function EXCEPT !.name = f - 1] \in FunctionTypes
      BY <3>2, <3>3 DEF Function, FunctionTypes
    <3> QED
      BY <3>4 DEF function
  <2> QED
    BY <1>2, <2>1
<1>7. image = [stamp |-> "HBC0 0.1",
               counts |-> [strings |-> Len(table), constants |-> Len(bc.constants),
                           globals |-> Len(bc.globals), functions |-> Len(bc.functions),
                           code |-> Len(bc.code)],
               entry |-> bc.entry, strings |-> table, constants |-> constants,
               globals |-> globals, functions |-> functions, code |-> bc.code]
  BY DEF ImageOf
<1> HIDE DEF table, constants, globals, functions, image
<1>8. image.counts.strings = Len(image.strings)
  BY <1>7
<1>9. image \in ImageTypes
  <2>1. image.counts \in CountTypes
    BY <1>2, <1>3, <1>7 DEF CountTypes
  <2> QED
    BY <1>1, <1>3, <1>4, <1>5, <1>6, <1>7, <1>8, <2>1 DEF ImageTypes
<1> QED
  BY <1>8, <1>9 DEF image

(***************************************************************************)
(* A module that has been written, and not been changed since, is loaded   *)
(* as it was compiled, each name and literal by its index in the string    *)
(* table (add_string, hosc_write_bytecode_file, hvm_bytecode_load_file).   *)
(***************************************************************************)
THEOREM WrittenIsReadBack ==
  ASSUME NEW bc \in NamedModules, Image = ImageOf(bc)
  PROVE  LoadedModule = bc
<1> DEFINE nf == Len(bc.functions)
           ng == Len(bc.globals)
           table == StringTable(bc)
           texts == Strings(bc.constants)
<1>1. /\ bc \in [entry : Nat, constants : Seq(Constant), globals : Seq(STRING),
                 functions : Seq(Function), code : Seq(0 .. 255)]
      /\ bc.functions \in Seq(Function) /\ bc.globals \in Seq(STRING)
      /\ bc.constants \in Seq(Constant) /\ bc.code \in Seq(0 .. 255)
  BY DEF NamedModules, Bytecode
<1>2. /\ nf \in Nat /\ ng \in Nat /\ Len(bc.constants) \in Nat
      /\ DOMAIN bc.functions = 1 .. nf /\ DOMAIN bc.globals = 1 .. ng
      /\ DOMAIN bc.constants = 1 .. Len(bc.constants)
  BY <1>1, LenProperties
<1>3. /\ texts \in Seq(Constant) /\ Len(texts) \in Nat
      /\ Len(table) = nf + ng + Len(texts)
      /\ \A f \in 1 .. nf : table[f].name = bc.functions[f].name
      /\ \A g \in 1 .. ng : table[nf + g].name = bc.globals[g]
      /\ \A k \in 1 .. Len(texts) : table[nf + ng + k].literal = texts[k].as
  BY StringTableFacts, LenProperties
<1>4. /\ Image.strings = table /\ Image.entry = bc.entry /\ Image.code = bc.code
      /\ Counts.code = Len(bc.code)
      /\ Image.globals = [g \in 1 .. ng |-> nf + g - 1]
      /\ Image.functions = [f \in 1 .. nf |-> [bc.functions[f] EXCEPT !.name = f - 1]]
      /\ Image.constants = [c \in 1 .. Len(bc.constants) |->
                              IF bc.constants[c].tag = "string"
                              THEN [tag |-> "string", as |-> LiteralIndex(bc, c)]
                              ELSE bc.constants[c]]
  BY <1>2 DEF ImageOf, Counts
<1>5. \A c \in 1 .. Len(bc.constants) :
        bc.constants[c].tag = "string" =>
          /\ Rank(bc.constants, c) \in Nat /\ Rank(bc.constants, c) < Len(texts)
          /\ texts[Rank(bc.constants, c) + 1] = bc.constants[c]
          /\ LiteralIndex(bc, c) = nf + ng + Rank(bc.constants, c)
  BY <1>1, StringsFound DEF LiteralIndex, Rank, Literals
<1> HIDE DEF nf, ng, table, texts
<1>6. ASSUME NEW f \in 1 .. nf PROVE NameAt(f - 1) = bc.functions[f].name
  <2>1. f - 1 < Len(table) /\ (f - 1) + 1 = f
    BY <1>2, <1>3
  <2> QED
    BY <1>3, <1>4, <2>1 DEF NameAt
<1>7. ASSUME NEW g \in 1 .. ng PROVE NameAt(nf + g - 1) = bc.globals[g]
  <2>1. nf + g - 1 < Len(table) /\ (nf + g - 1) + 1 = nf + g
    BY <1>2, <1>3
  <2> QED
    BY <1>3, <1>4, <2>1 DEF NameAt
<1>8. LoadedModule.functions = bc.functions
  <2>1. ASSUME NEW f \in 1 .. nf
        PROVE  [Image.functions[f] EXCEPT !.name = NameAt(Image.functions[f].name)]
                 = bc.functions[f]
    <3>1. bc.functions[f] \in Function
      BY <1>1 DEF nf
    <3>2. Image.functions[f] = [bc.functions[f] EXCEPT !.name = f - 1]
      BY <1>4
    <3>3. Image.functions[f].name = f - 1
      BY <3>1, <3>2 DEF Function
    <3> QED
      BY <1>6, <3>1, <3>2, <3>3 DEF Function
  <2>2. LoadedModule.functions =
          [f \in 1 .. nf |->
             [Image.functions[f] EXCEPT !.name = NameAt(Image.functions[f].name)]]
    BY <1>4 DEF LoadedModule
  <2> QED
    BY <1>1, <1>2, <2>1, <2>2, SMTT(30)
<1>9. LoadedModule.globals = bc.globals
  <2>1. LoadedModule.globals = [g \in 1 .. ng |-> NameAt(nf + g - 1)]
    BY <1>4 DEF LoadedModule
  <2> QED
    BY <1>1, <1>2, <1>7, <2>1
<1>10. LoadedModule.constants = bc.constants
  <2> DEFINE loaded(c) ==
               CASE Image.constants[c].tag # "string" -> Image.constants[c]
                 [] Image.constants[c].tag = "string" /\ Image.constants[c].as < Len(Image.strings)
                      -> [tag |-> "string",
                          as |-> Image.strings[Image.constants[c].as + 1].literal]
                 [] OTHER -> [tag |-> "invalid", as |-> 0]
  <2>1. ASSUME NEW c \in 1 .. Len(bc.constants)
        PROVE  loaded(c) = bc.constants[c]
    <3>1. bc.constants[c] \in Constant
      BY <1>1
    <3>2. CASE bc.constants[c].tag = "string"
      <4> DEFINE r == Rank(bc.constants, c)
      <4>1. /\ r \in Nat /\ r < Len(texts) /\ texts[r + 1] = bc.constants[c]
            /\ LiteralIndex(bc, c) = nf + ng + r
        BY <1>5, <3>2
      <4> HIDE DEF r
      <4>2. Image.constants[c] = [tag |-> "string", as |-> nf + ng + r]
        BY <1>4, <3>2, <4>1
      <4>3. /\ nf + ng + r < Len(table) /\ (nf + ng + r) + 1 = nf + ng + (r + 1)
            /\ r + 1 \in 1 .. Len(texts)
        BY <1>2, <1>3, <4>1
      <4>4. table[(nf + ng + r) + 1].literal = bc.constants[c].as
        BY <1>3, <4>1, <4>3
      <4>5. /\ Image.constants[c].tag = "string" /\ Image.constants[c].as < Len(Image.strings)
            /\ Image.strings[Image.constants[c].as + 1].literal = bc.constants[c].as
        BY <1>4, <4>2, <4>3, <4>4
      <4>6. loaded(c) = [tag |-> "string", as |-> bc.constants[c].as]
        BY <4>5
      <4> HIDE DEF loaded
      <4> QED
        BY <3>1, <3>2, <4>6 DEF Constant
    <3>3. CASE bc.constants[c].tag # "string"
      BY <1>4, <3>3
    <3> QED
      BY <3>2, <3>3
  <2>2. LoadedModule.constants = [c \in 1 .. Len(bc.constants) |-> loaded(c)]
    BY <1>4 DEF LoadedModule
  <2> HIDE DEF loaded
  <2> QED
    BY <1>1, <1>2, <2>1, <2>2
<1>11. LoadedModule.code = bc.code
  <2>1. LoadedModule.code = SubSeq(bc.code, 1, Len(bc.code))
    BY <1>4 DEF LoadedModule
  <2> QED
    BY <1>1, <2>1, SubSeqFull
<1>12. /\ LoadedModule = [entry |-> LoadedModule.entry, constants |-> LoadedModule.constants,
                          globals |-> LoadedModule.globals,
                          functions |-> LoadedModule.functions, code |-> LoadedModule.code]
       /\ LoadedModule.entry = bc.entry
  BY <1>4 DEF LoadedModule
<1> QED
  BY <1>1, <1>8, <1>9, <1>10, <1>11, <1>12

-----------------------------------------------------------------------------
(* The loader, step by step.                                               *)

LEMMA FileFacts ==
  ASSUME LTypeOK, disk # << >>
  PROVE  /\ File_ \in StoredFiles /\ Image \in ImageTypes /\ Counts \in CountTypes
         /\ File_.cells \in Nat /\ File_.cells <= Size(Image)
         /\ Image.strings \in Seq(TextTypes) /\ Image.constants \in Seq(ConstantTypes)
         /\ Image.globals \in Seq(Nat) /\ Image.functions \in Seq(FunctionTypes)
         /\ Image.code \in Seq(0 .. 255) /\ Image.entry \in Nat
         /\ Counts.strings \in Nat
         /\ Plausible => Counts.strings = Len(Image.strings)
<1>1. File_ \in StoredFiles
  BY DEF LTypeOK
<1>2. File_ \in [image : ImageTypes, cells : Nat] /\ File_.cells <= Size(File_.image)
  BY <1>1 DEF StoredFiles
<1>3. Image \in ImageTypes /\ File_.cells \in Nat /\ File_.cells <= Size(Image)
  BY <1>2 DEF Image
<1>4. /\ Image \in [stamp : {"HBC0 0.1", "HBC0 0.2"}, counts : CountTypes, entry : Nat,
                    strings : Seq(TextTypes), constants : Seq(ConstantTypes),
                    globals : Seq(Nat), functions : Seq(FunctionTypes),
                    code : Seq(0 .. 255)]
      /\ Image.counts.strings <= SectionMax => Image.counts.strings = Len(Image.strings)
  BY <1>3 DEF ImageTypes
<1>5. Image.counts \in CountTypes /\ Image.counts.strings \in Nat
  BY <1>4 DEF CountTypes
<1>6. Plausible => Image.counts.strings <= SectionMax
  BY DEF Plausible, Counts
<1> QED
  BY <1>1, <1>3, <1>4, <1>5, <1>6 DEF Counts

(* The strings that the loader holds are counted. *)
LEMMA StrungFacts ==
  ASSUME LTypeOK, disk # << >>, NEW k \in Nat, held = Strung(k)
  PROVE  /\ ReadSoFar = k
         /\ held \cup {Bytes(k)} = Strung(k + 1)
<1> DEFINE read == {Bytes(i) : i \in 0 .. k - 1}
           f == [i \in 0 .. k - 1 |-> Bytes(i)]
<1>1. DOMAIN Counts = {"strings", "constants", "globals", "functions", "code"}
  BY FileFacts DEF CountTypes
<1>2. \A a \in Tables : a.table # "bytes"
  BY <1>1 DEF Tables, Table
<1>3. \A a \in read : a.table = "bytes"
  BY DEF Bytes
<1>4. {a \in held : a.table = "bytes"} = read
  BY <1>2, <1>3 DEF Strung
<1>5. IsFiniteSet(0 .. k - 1) /\ Cardinality(0 .. k - 1) = k
  <2>1. 0 \in Int /\ k - 1 \in Int
    OBVIOUS
  <2>2. /\ IsFiniteSet(0 .. k - 1)
        /\ Cardinality(0 .. k - 1) = IF 0 > k - 1 THEN 0 ELSE (k - 1) - 0 + 1
    BY <2>1, FS_Interval
  <2> QED
    BY <2>2
<1>6. f \in Bijection(0 .. k - 1, read)
  <2>1. f \in [0 .. k - 1 -> read]
    OBVIOUS
  <2>2. \A i, j \in 0 .. k - 1 : Bytes(i) = Bytes(j) => i = j
    BY DEF Bytes
  <2>3. f \in Injection(0 .. k - 1, read)
    BY <2>1, <2>2 DEF Injection, IsInjective
  <2>4. f \in Surjection(0 .. k - 1, read)
    BY <2>1 DEF Surjection
  <2> QED
    BY <2>3, <2>4 DEF Bijection
<1>7. Cardinality(read) = k
  <2>1. ExistsBijection(0 .. k - 1, read)
    BY <1>6 DEF ExistsBijection
  <2> HIDE DEF read
  <2> QED
    BY <1>5, <2>1, FS_Bijection
<1>8. 0 .. (k + 1) - 1 = (0 .. k - 1) \cup {k}
  OBVIOUS
<1>9. held \cup {Bytes(k)} = Strung(k + 1)
  BY <1>8 DEF Strung
<1> QED
  BY <1>4, <1>7, <1>9 DEF ReadSoFar

(* One section leads to the next one. *)
LEMMA SectionFacts ==
  ASSUME NEW section \in Sections, Counts.strings \in Nat
  PROVE  /\ After[section] \in LaterParts /\ Start(section) \in Nat
         /\ Cells(Image, section) \in Nat
         /\ Start(After[section]) = Start(section) + Cells(Image, section)
         /\ Done(After[section]) = Done(section) \cup {section}
         /\ After[section] # "accepted"
<1>1. \A t : Cells(Image, t) \in Nat
  BY DEF Cells
<1>2. Behind \in Nat
  BY DEF Behind
<1> QED
  BY <1>1, <1>2 DEF Sections, LaterParts, After, Start, Done

LEMMA SameFile ==
  ASSUME disk' = disk
  PROVE  /\ File_' = File_ /\ Image' = Image /\ Counts' = Counts /\ Tables' = Tables
         /\ Plausible' = Plausible /\ Validates' = Validates
         /\ \A k : Strung(k)' = Strung(k)
         /\ \A section : Start(section)' = Start(section)
<1>1. File_' = File_ /\ Image' = Image /\ Counts' = Counts
  BY DEF File_, Image, Counts
<1>2. Tables' = Tables
  BY <1>1 DEF Tables
<1>3. Plausible' = Plausible
  BY <1>1 DEF Plausible
<1>4. Validates' = Validates
  BY <1>1 DEF Validates, InRange
<1>5. \A k : Strung(k)' = Strung(k)
  BY <1>2 DEF Strung
<1>6. \A section : Start(section)' = Start(section)
  BY <1>1 DEF Start, Behind
<1> QED
  BY <1>1, <1>2, <1>3, <1>4, <1>5, <1>6

LEMMA LInitInv == LInit => LInv
BY DEF LInit, LInv, LTypeOK, InFile, Holds, LaterParts, Sections, Ended

(* Files change only while none is being loaded. *)
LEMMA ClosedStep ==
  ASSUME LInv, loading = "closed", UNCHANGED <<loading, place, held>>,
         disk' # << >> => disk' = <<File_'>> /\ File_' \in StoredFiles
  PROVE  LInv'
BY DEF LInv, LTypeOK, InFile, Holds, LaterParts, Sections, Ended

LEMMA WriteInv ==
  ASSUME LInv, loading = "closed", NEW bc \in NamedModules, Write(bc)
  PROVE  LInv'
<1>1. UNCHANGED <<loading, place, held>>
  BY DEF Write
<1>2. CASE disk' = disk
  BY <1>1, <1>2, ClosedStep DEF LInv, LTypeOK, File_
<1>3. CASE disk' # disk
  <2> DEFINE image == ImageOf(bc)
  <2>1. PICK cells \in 0 .. Size(image) : disk' = << [image |-> image, cells |-> cells] >>
    BY <1>3 DEF Write
  <2>2. image \in ImageTypes
    BY ImageTyped
  <2>3. Size(image) \in Nat
    <3>1. Len(image.strings) \in Nat /\ \A t : Cells(image, t) \in Nat
      BY <2>2, LenProperties DEF ImageTypes, Cells
    <3> HIDE DEF image
    <3> QED
      BY <3>1, SMTT(30) DEF Size
  <2> HIDE DEF image
  <2>4. File_' = [image |-> image, cells |-> cells]
    BY <2>1 DEF File_
  <2>5. File_' \in StoredFiles
    BY <2>1, <2>2, <2>3, <2>4 DEF StoredFiles
  <2> QED
    BY <1>1, <2>1, <2>4, <2>5, ClosedStep
<1> QED
  BY <1>2, <1>3

LEMMA ChangeInv ==
  ASSUME LInv, Change
  PROVE  LInv'
<1>1. disk' # << >> => disk' = <<File_'>> /\ File_' \in StoredFiles
  <2>1. CASE disk' = << >>
    BY <2>1
  <2>2. CASE disk' # << >>
    <3>1. PICK file \in StoredFiles : disk' = <<file>>
      BY <2>2 DEF Change
    <3>2. File_' = file
      BY <3>1 DEF File_
    <3> QED
      BY <3>1, <3>2
  <2> QED
    BY <2>1, <2>2
<1> QED
  BY <1>1, ClosedStep DEF Change

(* A file that is given up leaves nothing behind. *)
LEMMA EndInv ==
  ASSUME LInv, disk' = disk, place' = place, held' = {}, loading' \in Ended
  PROVE  LInv'
<1>1. File_' = File_
  BY SameFile
<1> QED
  BY <1>1 DEF LInv, LTypeOK, InFile, Holds, LaterParts, Sections, Ended

LEMMA LoadInv ==
  ASSUME LInv, Load
  PROVE  LInv'
<1>1. CASE OpenFile
  <2>1. disk' = disk /\ held' = held /\ place' = place /\ held = {}
    BY <1>1 DEF OpenFile, Reject, LInv, Holds
  <2>2. CASE loading' = "refused"
    BY <2>1, <2>2, EndInv DEF Ended
  <2>3. CASE loading' # "refused"
    <3>1. loading' = "header" /\ disk # << >>
      BY <1>1, <2>3 DEF OpenFile, Reject
    <3> QED
      BY <1>1, <2>1, <3>1, SameFile
      DEF OpenFile, LInv, LTypeOK, InFile, Holds, LaterParts, Sections, Ended
  <2> QED
    BY <2>2, <2>3
<1>2. CASE ReadHeader
  <2>1. disk' = disk /\ held' = held /\ held = {} /\ loading = "header" /\ disk # << >>
    BY <1>2 DEF ReadHeader, Reject, LInv, Holds, InFile
  <2>2. CASE ~HeaderPasses
    BY <1>2, <2>1, <2>2, EndInv DEF ReadHeader, Reject, Ended
  <2>3. CASE HeaderPasses
    <3>1. loading' = "allocate" /\ place' = 1 /\ Plausible
      BY <1>2, <2>3 DEF ReadHeader, HeaderPasses
    <3>2. place' <= File_.cells
      BY <2>1, <2>3, <3>1 DEF HeaderPasses, Remaining, LInv, InFile
    <3> QED
      BY <2>1, <3>1, <3>2, SameFile
      DEF LInv, LTypeOK, InFile, Holds, LaterParts, Sections, Ended
  <2> QED
    BY <2>2, <2>3
<1>3. CASE Allocate
  <2>1. disk' = disk /\ place' = place /\ loading = "allocate" /\ disk # << >> /\ place = 1 /\ Plausible
    BY <1>3 DEF Allocate, LInv, InFile
  <2>2. PICK denied \in {{}} \cup {{t} : t \in Tables} :
          /\ held' = IF denied = {} THEN Tables ELSE {}
          /\ loading' = CASE denied = {} -> "strings"
                          [] denied = {Table("strings")} -> "crashed"
                          [] OTHER -> "refused"
    BY <1>3 DEF Allocate
  <2>3. CASE denied = {}
    <3>1. held' = Strung(0) /\ loading' = "strings"
      <4>1. {Bytes(i) : i \in 0 .. 0 - 1} = {}
        OBVIOUS
      <4> QED
        BY <2>2, <2>3, <4>1 DEF Strung
    <3>2. Counts.strings \in Nat /\ 0 \in 0 .. Counts.strings
      BY <2>1, FileFacts DEF LInv
    <3>3. 1 <= File_.cells
      BY <2>1 DEF LInv, InFile
    <3> QED
      BY <2>1, <3>1, <3>2, <3>3, SameFile
      DEF LInv, LTypeOK, InFile, Holds, LaterParts, Sections, Ended
  <2>4. CASE denied # {}
    <3>1. held' = {} /\ loading' \in Ended
      BY <2>2, <2>4 DEF Ended
    <3> QED
      BY <2>1, <3>1, EndInv
  <2> QED
    BY <2>3, <2>4
<1>4. CASE ReadString
  <2>1. /\ loading = "strings" /\ disk' = disk /\ disk # << >> /\ LTypeOK /\ Plausible
        /\ ReadSoFar < Counts.strings
    BY <1>4 DEF ReadString, FreeAndReject, LInv, InFile
  <2>2. PICK k \in 0 .. Counts.strings :
          held = Strung(k) /\ place = 1 + 2 * k /\ place <= File_.cells
    BY <2>1 DEF LInv, Holds
  <2>3. Counts.strings \in Nat /\ k \in Nat
    BY <2>1, FileFacts
  <2>4. ReadSoFar = k /\ held \cup {Bytes(k)} = Strung(k + 1)
    BY <2>1, <2>2, <2>3, StrungFacts
  <2>5. CASE FreeAndReject
    BY <2>5, EndInv DEF FreeAndReject, Ended
  <2>6. CASE ~FreeAndReject
    <3>1. /\ Remaining(2) /\ held' = Strung(k + 1) /\ place' = place + 2
          /\ loading' = "strings"
      BY <1>4, <2>1, <2>4, <2>6 DEF ReadString
    <3>2. k + 1 \in 0 .. Counts.strings /\ place' = 1 + 2 * (k + 1) /\ place' <= File_.cells
      BY <2>1, <2>2, <2>3, <2>4, <3>1 DEF Remaining
    <3>3. place' \in Nat
      BY <2>3, <3>2
    <3> QED
      BY <2>1, <3>1, <3>2, <3>3, SameFile
      DEF LInv, LTypeOK, InFile, Holds, LaterParts, Sections, Ended
  <2> QED
    BY <2>5, <2>6
<1>5. CASE StringsRead
  <2>1. /\ loading = "strings" /\ disk' = disk /\ held' = held /\ place' = place
        /\ disk # << >> /\ LTypeOK /\ Plausible /\ loading' = "constants"
        /\ ReadSoFar = Counts.strings
    BY <1>5 DEF StringsRead, After, LInv, InFile
  <2>2. PICK k \in 0 .. Counts.strings :
          held = Strung(k) /\ place = 1 + 2 * k /\ place <= File_.cells
    BY <2>1 DEF LInv, Holds
  <2>3. Counts.strings \in Nat /\ k \in Nat
    BY <2>1, FileFacts
  <2>4. k = Counts.strings
    BY <2>1, <2>2, <2>3, StrungFacts
  <2>5. place = Start("constants") /\ Done("constants") = {}
    BY <2>2, <2>3, <2>4 DEF Start, Behind, Sections, Done
  <2> QED
    BY <2>1, <2>2, <2>4, <2>5, SameFile
    DEF LInv, LTypeOK, InFile, Holds, LaterParts, Sections, Ended
<1>6. CASE ReadTable
  <2>1. /\ loading \in Sections /\ disk' = disk /\ disk # << >> /\ LTypeOK /\ Plausible
        /\ held = Strung(Counts.strings) /\ place = Start(loading) /\ place <= File_.cells
        /\ \A t \in Done(loading) : Counts[t] <= Len(Image[t])
    BY <1>6 DEF ReadTable, FreeAndReject, LInv, InFile, Holds, LaterParts
  <2>2. Counts.strings \in Nat
    BY <2>1, FileFacts
  <2>3. CASE FreeAndReject
    BY <2>3, EndInv DEF FreeAndReject, Ended
  <2>4. CASE ~FreeAndReject
    <3>1. /\ Remaining(Cells(Image, loading)) /\ ~(Counts[loading] > Len(Image[loading]))
          /\ loading' = After[loading] /\ place' = place + Cells(Image, loading)
          /\ held' = held
      BY <1>6, <2>4 DEF ReadTable
    <3>2. /\ loading' \in LaterParts /\ Start(loading) \in Nat
          /\ Cells(Image, loading) \in Nat
          /\ Start(loading') = Start(loading) + Cells(Image, loading)
          /\ Done(loading') = Done(loading) \cup {loading}
          /\ loading' # "accepted"
      BY <2>1, <2>2, <3>1, SectionFacts
    <3>3. Counts[loading] <= Len(Image[loading])
      <4>1. Counts[loading] \in Nat /\ Len(Image[loading]) \in Nat
        BY <2>1, FileFacts, LenProperties DEF Sections, CountTypes
      <4> QED
        BY <3>1, <4>1
    <3>4. \A t \in Done(loading') : Counts[t] <= Len(Image[t])
      BY <2>1, <3>2, <3>3
    <3>5. place' = Start(loading') /\ place' <= File_.cells /\ place' \in Nat
      BY <2>1, <3>1, <3>2 DEF Remaining
    <3>6. LTypeOK'
      BY <2>1, <3>2, <3>5, SameFile DEF LTypeOK
    <3>7. InFile'
      <4>1. loading' \in LaterParts /\ loading' \notin {"closed", "header", "allocate", "accepted"}
        BY <3>2 DEF LaterParts, Sections
      <4>2. Start(loading)' = Start(loading')
        BY <2>1, SameFile DEF Start, Behind
      <4> QED
        BY <2>1, <3>4, <3>5, <4>1, <4>2, SameFile DEF InFile
    <3>8. Holds'
      BY <2>1, <3>1, <3>2, SameFile DEF Holds, LaterParts, Sections, Ended
    <3> QED
      BY <3>6, <3>7, <3>8 DEF LInv
  <2> QED
    BY <2>3, <2>4
<1>7. CASE Validate
  <2>1. /\ loading = "validate" /\ disk' = disk /\ place' = place /\ disk # << >> /\ LTypeOK
        /\ Plausible
        /\ held = Strung(Counts.strings) /\ place = Start("validate") /\ place <= File_.cells
        /\ \A t \in Done("validate") : Counts[t] <= Len(Image[t])
    BY <1>7 DEF Validate, FreeAndReject, LInv, InFile, Holds, LaterParts
  <2>2. CASE ~Validates
    BY <1>7, <2>2, EndInv DEF Validate, FreeAndReject, Ended
  <2>3. CASE Validates
    <3>1. loading' = "accepted" /\ held' = held
      BY <1>7, <2>3 DEF Validate
    <3>2. Start("accepted") = Start("validate") /\ Done("accepted") = Done("validate")
      BY DEF Start, Done, Sections
    <3> QED
      BY <2>1, <2>3, <3>1, <3>2, SameFile
      DEF LInv, LTypeOK, InFile, Holds, LaterParts, Sections, Ended
  <2> QED
    BY <2>2, <2>3
<1>8. CASE Unload
  BY <1>8, EndInv DEF Unload, Ended
<1> QED
  BY <1>1, <1>2, <1>3, <1>4, <1>5, <1>6, <1>7, <1>8 DEF Load

LEMMA LNextInv == LInv /\ [LNext]_lvars => LInv'
<1> SUFFICES ASSUME LInv, [LNext]_lvars PROVE LInv'
  OBVIOUS
<1>1. CASE loading = "closed" /\ \E bc \in NamedModules : Write(bc)
  BY <1>1, WriteInv
<1>2. CASE Change
  BY <1>2, ChangeInv
<1>3. CASE Load
  BY <1>3, LoadInv
<1>4. CASE UNCHANGED lvars
  BY <1>4, SameFile DEF lvars, LInv, LTypeOK, InFile, Holds
<1> QED
  BY <1>1, <1>2, <1>3, <1>4 DEF LNext

LEMMA LSpecInv == LSpec => []LInv
BY LInitInv, LNextInv, PTL DEF LSpec

(***************************************************************************)
(* Whichever section a file breaks off in, whichever allocation is denied  *)
(* and whatever the validation says, a file that is refused leaves nothing *)
(* allocated, and one that is accepted keeps its tables and each of its    *)
(* strings until it is unloaded (hbytecode_free).                          *)
(***************************************************************************)
THEOREM LoaderReleases == LSpec => []Released
<1>1. LInv => Released
  BY DEF LInv, Holds, Released, LaterParts, Ended, Strung
<1> QED
  BY <1>1, LSpecInv, PTL

(***************************************************************************)
(* A file that the loader accepts is there to its last cell, so that none  *)
(* of the writes of hosc_write_bytecode_file has failed that it came from. *)
(***************************************************************************)
THEOREM AcceptedIsWhole == LSpec => []AcceptedWhole
<1>1. ASSUME LInv, loading = "accepted" PROVE File_.cells = Size(Image)
  <2>1. /\ LTypeOK /\ disk # << >> /\ Plausible
        /\ place = Start("accepted") /\ place <= File_.cells
    BY <1>1 DEF LInv, InFile, LaterParts
  <2>2. /\ File_.cells \in Nat /\ File_.cells <= Size(Image) /\ Counts.strings \in Nat
        /\ Counts.strings = Len(Image.strings)
    BY <2>1, FileFacts
  <2>3. Start("accepted") = Size(Image)
    BY <2>2 DEF Start, Behind, Size, Sections
  <2>4. Size(Image) \in Nat
    <3>1. \A t : Cells(Image, t) \in Nat
      BY DEF Cells
    <3> QED
      BY <2>2, <3>1, SMTT(30) DEF Size
  <2> QED
    BY <2>1, <2>2, <2>3, <2>4
<1>2. LInv => AcceptedWhole
  BY <1>1 DEF AcceptedWhole
<1> QED
  BY <1>2, LSpecInv, PTL

(***************************************************************************)
(* What the loader accepts the VM need not look at again: every name and   *)
(* every literal is in the string table, every function in the code.       *)
(***************************************************************************)
THEOREM AcceptedIsSound == LSpec => []AcceptedSound
<1>1. ASSUME LInv, loading = "accepted"
      PROVE  LET bc == LoadedModule
             IN  /\ bc.entry < Len(bc.functions)
                 /\ \A c \in ToSet(bc.constants) : c.tag # "invalid"
                 /\ NoName \notin ToSet(bc.globals)
                 /\ \A f \in ToSet(bc.functions) :
                      /\ f.name # NoName /\ f.arity <= f.local_count
                      /\ f.code_offset + f.code_size <= Len(bc.code)
  <2>1. /\ LTypeOK /\ disk # << >> /\ Plausible /\ Validates
        /\ \A t \in Sections : Counts[t] <= Len(Image[t])
    BY <1>1 DEF LInv, InFile, LaterParts, Done, Sections
  <2>2. /\ Counts \in CountTypes /\ Counts.strings = Len(Image.strings)
        /\ Image.strings \in Seq(TextTypes) /\ Image.constants \in Seq(ConstantTypes)
        /\ Image.globals \in Seq(Nat) /\ Image.functions \in Seq(FunctionTypes)
        /\ Image.code \in Seq(0 .. 255) /\ Image.entry \in Nat
    BY <2>1, FileFacts
  <2> DEFINE nf == Len(Image.functions)
             function(f) == [Image.functions[f] EXCEPT !.name = NameAt(Image.functions[f].name)]
             constant(c) ==
               CASE Image.constants[c].tag # "string" -> Image.constants[c]
                 [] Image.constants[c].tag = "string" /\ Image.constants[c].as < Len(Image.strings)
                      -> [tag |-> "string",
                          as |-> Image.strings[Image.constants[c].as + 1].literal]
                 [] OTHER -> [tag |-> "invalid", as |-> 0]
  <2>3. /\ nf \in Nat /\ DOMAIN Image.functions = 1 .. nf
        /\ DOMAIN Image.constants = 1 .. Len(Image.constants)
        /\ DOMAIN Image.globals = 1 .. Len(Image.globals)
        /\ Len(Image.strings) \in Nat /\ Len(Image.code) \in Nat
        /\ Len(Image.constants) \in Nat /\ Len(Image.globals) \in Nat
    BY <2>2, LenProperties
  <2>4. /\ \A c \in DOMAIN Image.constants :
             /\ Image.constants[c].tag # "invalid"
             /\ Image.constants[c].tag = "string" => Image.constants[c].as < Counts.strings
        /\ \A g \in DOMAIN Image.globals : Image.globals[g] < Counts.strings
        /\ \A f \in DOMAIN Image.functions :
             /\ Image.functions[f].name < Counts.strings
             /\ Image.functions[f].arity <= Image.functions[f].local_count
             /\ Image.functions[f].code_offset + Image.functions[f].code_size <= Counts.code
    BY <2>1 DEF Validates, ToSet, InRange
  <2>5. ASSUME NEW index \in Nat, index < Counts.strings
        PROVE  NameAt(index) # NoName
    <3>1. NameAt(index) = Image.strings[index + 1].name /\ index + 1 \in 1 .. Len(Image.strings)
      BY <2>2, <2>3, <2>5 DEF NameAt
    <3>2. Image.strings[index + 1] \in TextTypes
      BY <2>2, <3>1
    <3> QED
      BY <3>1, <3>2 DEF TextTypes, NoName
  <2>6. /\ LoadedModule.functions = [f \in 1 .. nf |-> function(f)]
        /\ LoadedModule.constants = [c \in DOMAIN Image.constants |-> constant(c)]
        /\ LoadedModule.globals = [g \in DOMAIN Image.globals |-> NameAt(Image.globals[g])]
        /\ LoadedModule.code = SubSeq(Image.code, 1, Counts.code)
        /\ LoadedModule.entry = Image.entry
    BY <2>3 DEF LoadedModule
  <2>7. LoadedModule.entry < Len(LoadedModule.functions)
    <3>1. Len(LoadedModule.functions) = nf
      BY <2>3, <2>6
    <3>2. Image.entry < Counts.functions /\ Counts.functions <= nf /\ Counts.functions \in Nat
      BY <2>1, <2>2 DEF Plausible, Sections, CountTypes
    <3> QED
      BY <2>2, <2>3, <2>6, <3>1, <3>2
  <2>8. \A c \in ToSet(LoadedModule.constants) : c.tag # "invalid"
    <3>1. ASSUME NEW c \in DOMAIN Image.constants PROVE constant(c).tag # "invalid"
      BY <2>2, <2>4
    <3> HIDE DEF constant
    <3> QED
      BY <2>6, <3>1 DEF ToSet
  <2>9. NoName \notin ToSet(LoadedModule.globals)
    <3>1. ASSUME NEW g \in DOMAIN Image.globals PROVE NameAt(Image.globals[g]) # NoName
      <4>1. Image.globals[g] \in Nat
        BY <2>2, <2>3
      <4> QED
        BY <2>4, <2>5, <4>1
    <3> QED
      BY <2>6, <3>1 DEF ToSet
  <2>10. Len(LoadedModule.code) = Counts.code
    <3>1. Counts.code \in Nat /\ Counts.code <= Len(Image.code)
      BY <2>1, <2>2 DEF Sections, CountTypes
    <3>2. ASSUME NEW i \in 1 .. Counts.code PROVE Image.code[i] \in 0 .. 255
      <4>1. i \in 1 .. Len(Image.code)
        BY <2>3, <3>1
      <4> QED
        BY <2>2, <4>1, ElementOfSeq
    <3> QED
      BY <2>6, <3>1, <3>2, SubSeqProperties
  <2>11. ASSUME NEW f \in ToSet(LoadedModule.functions)
         PROVE  /\ f.name # NoName /\ f.arity <= f.local_count
                /\ f.code_offset + f.code_size <= Len(LoadedModule.code)
    <3>1. PICK i \in 1 .. nf : f = function(i)
      BY <2>6 DEF ToSet
    <3>2. Image.functions[i] \in FunctionTypes
      BY <2>2
    <3>3. /\ f.name = NameAt(Image.functions[i].name)
          /\ f.arity = Image.functions[i].arity
          /\ f.local_count = Image.functions[i].local_count
          /\ f.code_offset = Image.functions[i].code_offset
          /\ f.code_size = Image.functions[i].code_size
          /\ Image.functions[i].name \in Nat
      BY <3>1, <3>2 DEF FunctionTypes
    <3> QED
      BY <2>3, <2>4, <2>5, <2>10, <3>3
  <2> QED
    BY <2>7, <2>8, <2>9, <2>11
<1>2. LInv => AcceptedSound
  BY <1>1 DEF AcceptedSound
<1> QED
  BY <1>2, LSpecInv, PTL

-----------------------------------------------------------------------------
(* What is written whole is accepted. *)

\* A module whose file hvm_bytecode_load_file takes: its counts are within
\* the limits, its entry and the code of each function are there.
Loadable(bc) ==
  /\ Len(StringTable(bc)) <= SectionMax /\ Len(bc.constants) <= SectionMax
  /\ Len(bc.globals) <= SectionMax /\ Len(bc.functions) <= SectionMax
  /\ Len(bc.code) <= CodeMax
  /\ bc.entry < Len(bc.functions)
  /\ \A f \in ToSet(bc.functions) :
       /\ f.arity <= f.local_count
       /\ f.code_size > 0 /\ f.code_offset + f.code_size <= Len(bc.code)

\* The file of bc, none of whose writes has failed.
WholeFile(bc) == << [image |-> ImageOf(bc), cells |-> Size(ImageOf(bc))] >>

LEMMA ImagePasses ==
  ASSUME NEW bc \in NamedModules, Loadable(bc), Image = ImageOf(bc)
  PROVE  /\ Plausible /\ Validates
         /\ \A t \in Sections : Counts[t] = Len(Image[t])
<1> DEFINE nf == Len(bc.functions)
           ng == Len(bc.globals)
           texts == Strings(bc.constants)
<1>1. /\ bc.functions \in Seq(Function) /\ bc.globals \in Seq(STRING)
      /\ bc.constants \in Seq(Constant) /\ bc.code \in Seq(0 .. 255) /\ bc.entry \in Nat
      /\ \A c \in ToSet(bc.constants) : c.tag # "invalid"
  BY DEF NamedModules, Bytecode
<1>2. /\ nf \in Nat /\ ng \in Nat /\ Len(bc.constants) \in Nat /\ Len(bc.code) \in Nat
      /\ DOMAIN bc.functions = 1 .. nf /\ DOMAIN bc.globals = 1 .. ng
      /\ DOMAIN bc.constants = 1 .. Len(bc.constants)
  BY <1>1, LenProperties
<1>3. /\ Len(texts) \in Nat /\ Len(StringTable(bc)) = nf + ng + Len(texts)
  BY StringTableFacts, LenProperties
<1>4. /\ Image.globals = [g \in 1 .. ng |-> nf + g - 1]
      /\ Image.functions = [f \in 1 .. nf |-> [bc.functions[f] EXCEPT !.name = f - 1]]
      /\ Image.constants = [c \in 1 .. Len(bc.constants) |->
                              IF bc.constants[c].tag = "string"
                              THEN [tag |-> "string", as |-> LiteralIndex(bc, c)]
                              ELSE bc.constants[c]]
  BY <1>2 DEF ImageOf
<1>12. /\ Counts.strings = Len(StringTable(bc)) /\ Counts.constants = Len(bc.constants)
       /\ Counts.globals = ng /\ Counts.functions = nf /\ Counts.code = Len(bc.code)
  BY DEF ImageOf, Counts
<1>13. Image.stamp = "HBC0 0.1" /\ Image.entry = bc.entry /\ Image.code = bc.code
  BY DEF ImageOf
<1>14. Counts.strings = nf + ng + Len(texts)
  BY <1>3, <1>12
<1>5. Plausible
  <2>1. /\ Counts.strings <= SectionMax /\ Counts.constants <= SectionMax
        /\ Counts.globals <= SectionMax /\ Counts.functions <= SectionMax
        /\ Counts.code <= CodeMax /\ Image.entry < Counts.functions
    BY <1>12, <1>13 DEF Loadable
  <2>2. Counts.functions > 0
    <3>1. Counts.functions \in Nat /\ Image.entry \in Nat
      BY <1>1, <1>2, <1>12, <1>13
    <3> QED
      BY <2>1, <3>1
  <2> QED
    BY <1>13, <2>1, <2>2 DEF Plausible
<1>6. \A t \in Sections : Counts[t] = Len(Image[t])
  <2>1. /\ Len(Image.constants) = Len(bc.constants) /\ Len(Image.globals) = ng
        /\ Len(Image.functions) = nf
    BY <1>2, <1>4
  <2>2. ASSUME NEW t \in Sections PROVE Counts[t] = Len(Image[t])
    BY <1>12, <1>13, <2>1 DEF Sections
  <2> QED
    BY <2>2
<1>7. ASSUME NEW c \in 1 .. Len(bc.constants)
      PROVE  /\ Image.constants[c].tag # "invalid"
             /\ Image.constants[c].tag = "string" => Image.constants[c].as < Counts.strings
  <2>1. bc.constants[c].tag # "invalid"
    BY <1>1, <1>2 DEF ToSet
  <2>2. CASE bc.constants[c].tag = "string"
    <3> DEFINE r == Rank(bc.constants, c)
    <3>1. r \in Nat /\ r < Len(texts) /\ LiteralIndex(bc, c) = nf + ng + r
      BY <1>1, <2>2, StringsFound DEF LiteralIndex, Rank, Literals
    <3> HIDE DEF r, nf, ng, texts
    <3>2. nf + ng + r < nf + ng + Len(texts)
      BY <1>2, <1>3, <3>1
    <3>3. Image.constants[c] = [tag |-> "string", as |-> nf + ng + r]
      <4>1. Image.constants[c] = [tag |-> "string", as |-> LiteralIndex(bc, c)]
        BY <1>4, <2>2
      <4> QED
        BY <3>1, <4>1
    <3>4. Image.constants[c].tag = "string" /\ Image.constants[c].as = nf + ng + r
      BY <3>3
    <3> QED
      BY <1>14, <3>2, <3>4
  <2>3. CASE bc.constants[c].tag # "string"
    BY <1>4, <2>1, <2>3
  <2> QED
    BY <2>2, <2>3
<1>8. ASSUME NEW g \in 1 .. ng PROVE Image.globals[g] < Counts.strings
  <2>1. Image.globals[g] = nf + g - 1
    BY <1>4
  <2> HIDE DEF nf, ng, texts
  <2>2. nf + g - 1 < nf + ng + Len(texts)
    BY <1>2, <1>3
  <2> QED
    BY <1>14, <2>1, <2>2
<1>9. ASSUME NEW f \in 1 .. nf
      PROVE  /\ Image.functions[f].name < Counts.strings
             /\ Image.functions[f].arity <= Image.functions[f].local_count
             /\ InRange(Image.functions[f])
  <2> DEFINE function == bc.functions[f]
  <2>1. /\ function \in Function
        /\ function.arity <= function.local_count /\ function.code_size > 0
        /\ function.code_offset + function.code_size <= Len(bc.code)
    BY <1>1, <1>2 DEF Loadable, ToSet
  <2>2. Image.functions[f] = [function EXCEPT !.name = f - 1]
    BY <1>4
  <2>3. f - 1 < Counts.strings
    <3> HIDE DEF nf, ng, texts
    <3>1. f - 1 < nf + ng + Len(texts)
      BY <1>2, <1>3
    <3> QED
      BY <1>14, <3>1
  <2> HIDE DEF function
  <2>4. /\ Image.functions[f].name = f - 1
        /\ Image.functions[f].arity = function.arity
        /\ Image.functions[f].local_count = function.local_count
        /\ Image.functions[f].code_size = function.code_size
        /\ Image.functions[f].code_offset = function.code_offset
    BY <2>1, <2>2 DEF Function
  <2>5. Counts.code = Len(bc.code)
    BY <1>12
  <2> QED
    BY <2>1, <2>3, <2>4, <2>5 DEF InRange
<1>10. /\ DOMAIN Image.constants = 1 .. Len(bc.constants)
       /\ DOMAIN Image.globals = 1 .. ng /\ DOMAIN Image.functions = 1 .. nf
  BY <1>4
<1>11. Validates
  BY <1>7, <1>8, <1>9, <1>10 DEF Validates, ToSet
<1> QED
  BY <1>5, <1>6, <1>11

(* Each section lies within the file. *)
LEMMA SectionsFit ==
  ASSUME Counts.strings \in Nat, Counts.strings = Len(Image.strings)
  PROVE  /\ Size(Image) \in Nat /\ Behind <= Size(Image)
         /\ \A section \in Sections : Start(section) + Cells(Image, section) <= Size(Image)
<1>1. \A t : Cells(Image, t) \in Nat
  BY DEF Cells
<1> QED
  BY <1>1, SMTT(30) DEF Size, Behind, Start, Sections

(***************************************************************************)
(* A file that was written whole is refused only for want of memory, with  *)
(* a string that is still to be read in the file: never for what is in it, *)
(* and never because a section seems to end too early                      *)
(* (hosc_write_bytecode_file, hvm_bytecode_load_file). A text longer than  *)
(* HBC_MAX_STRING_LENGTH counts as one that no buffer was given for.       *)
(***************************************************************************)
THEOREM WrittenIsAccepted ==
  LSpec => [][\A bc \in NamedModules :
                /\ Loadable(bc) /\ disk = WholeFile(bc)
                /\ loading \notin {"refused", "crashed"} /\ loading' \in {"refused", "crashed"}
                => loading = "allocate" \/ (loading = "strings" /\ Remaining(2))]_lvars
<1>1. ASSUME LInv, LNext, NEW bc \in NamedModules, Loadable(bc), disk = WholeFile(bc),
             loading \notin {"refused", "crashed"}, loading' \in {"refused", "crashed"},
             loading # "allocate"
      PROVE  loading = "strings" /\ Remaining(2)
  <2>1. /\ disk # << >> /\ File_ = [image |-> ImageOf(bc), cells |-> Size(ImageOf(bc))]
    BY <1>1 DEF WholeFile, File_
  <2>2. Image = ImageOf(bc) /\ File_.cells = Size(Image)
    BY <2>1 DEF Image
  <2>3. /\ Plausible /\ Validates /\ \A t \in Sections : Counts[t] = Len(Image[t])
    BY <1>1, <2>2, ImagePasses
  <2>4. /\ LTypeOK /\ Counts \in CountTypes
        /\ Counts.strings \in Nat /\ Counts.strings = Len(Image.strings)
    BY <1>1, <2>1, <2>3, FileFacts DEF LInv
  <2>5. /\ Size(Image) \in Nat /\ Behind <= Size(Image)
        /\ \A section \in Sections : Start(section) + Cells(Image, section) <= Size(Image)
    BY <2>4, SectionsFit
  <2>6. Load
    BY <1>1 DEF LNext, Write, Change
  <2>7. CASE OpenFile
    BY <1>1, <2>1, <2>7 DEF OpenFile
  <2>8. CASE ReadHeader
    <3>1. place = 0 /\ 1 <= Behind
      BY <1>1, <2>4, <2>8 DEF ReadHeader, LInv, InFile, Behind
    <3>2. HeaderPasses
      <4>1. Behind \in Nat
        BY <2>4 DEF Behind
      <4> QED
        BY <2>2, <2>3, <2>5, <3>1, <4>1 DEF HeaderPasses, Remaining
    <3> QED
      BY <1>1, <2>8, <3>2 DEF ReadHeader
  <2>9. CASE ReadString
    <3>1. loading = "strings" /\ ReadSoFar < Counts.strings
      BY <2>9 DEF ReadString
    <3>2. PICK k \in 0 .. Counts.strings : held = Strung(k) /\ place = 1 + 2 * k
      BY <1>1, <3>1 DEF LInv, Holds
    <3>3. k \in Nat /\ ReadSoFar = k
      BY <2>1, <2>4, <3>2, StrungFacts
    <3>4. place + 2 <= Behind
      BY <2>4, <3>1, <3>2, <3>3 DEF Behind
    <3>5. place + 2 <= File_.cells
      <4>1. Behind \in Nat /\ place + 2 \in Nat
        BY <2>4, <3>2, <3>3 DEF Behind
      <4> QED
        BY <2>2, <2>5, <3>4, <4>1
    <3> QED
      BY <3>1, <3>5 DEF Remaining
  <2>10. CASE ReadTable
    <3>1. loading \in Sections /\ place = Start(loading)
      BY <1>1, <2>10 DEF ReadTable, LInv, InFile, LaterParts
    <3>2. Remaining(Cells(Image, loading))
      BY <2>2, <2>5, <3>1 DEF Remaining
    <3>3. ~(Counts[loading] > Len(Image[loading]))
      <4>1. Counts[loading] = Len(Image[loading]) /\ Counts[loading] \in Nat
        BY <2>3, <2>4, <3>1 DEF Sections, CountTypes
      <4> QED
        BY <4>1
    <3>4. loading' = After[loading]
      BY <2>10, <3>2, <3>3 DEF ReadTable
    <3> QED
      BY <1>1, <3>1, <3>4 DEF Sections, After
  <2>11. ~(StringsRead \/ Validate \/ Unload \/ Allocate)
    BY <1>1, <2>3 DEF StringsRead, Validate, Unload, Allocate, After
  <2> QED
    BY <2>6, <2>7, <2>8, <2>9, <2>10, <2>11 DEF Load
<1>2. LInv /\ [LNext]_lvars =>
        [\A bc \in NamedModules :
           /\ Loadable(bc) /\ disk = WholeFile(bc)
           /\ loading \notin {"refused", "crashed"} /\ loading' \in {"refused", "crashed"}
           => loading = "allocate" \/ (loading = "strings" /\ Remaining(2))]_lvars
  BY <1>1
<1> QED
  BY <1>2, LSpecInv, PTL DEF LSpec

=============================================================================
