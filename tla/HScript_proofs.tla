--------------------------- MODULE HScript_proofs ---------------------------
(***************************************************************************)
(* The script engine over the windows and events of HGui, for any scripts: *)
(* the loops that the parser makes of braces and their counters, and what  *)
(* the statements react to.                                                *)
(***************************************************************************)
EXTENDS HScript, HGui_proofs

USE CapAssumption

-----------------------------------------------------------------------------
(* What the parser makes of the braces of a script.                        *)

Instructions == [op : Statements \cup {"begin", "end"}, n : Int, place : Nat, jump : Nat]

Begins(items) == {b \in 1 .. Len(items) : items[b].op = "begin"}
Ends(items)   == {e \in 1 .. Len(items) : items[e].op = "end"}

(* A loop that is not open ends behind its beginning, at an instruction    *)
(* that leads back to it and to nothing else, and one that begins inside   *)
(* it ends inside it.                                                      *)
Nested(items, open) ==
  /\ items \in Seq(Instructions)
  /\ open \subseteq Begins(items)
  /\ \A b \in Begins(items) \ open :
       items[b].jump \in Ends(items) /\ items[b].jump > b /\ items[items[b].jump].jump = b
  /\ \A e \in Ends(items) :
       items[e].jump \in Begins(items) \ open /\ items[items[e].jump].jump = e
  /\ \A b \in Begins(items) \ open, c \in Begins(items) :
       b < c => items[b].jump < c \/ (c \notin open /\ items[c].jump < items[b].jump)

LEMMA NestedStatement ==
  ASSUME NEW items, NEW open, Nested(items, open),
         NEW item \in Instructions, item.op \notin {"begin", "end"}
  PROVE  Nested(Append(items, item), open)
<1> DEFINE next == Append(items, item)
           n == Len(items)
<1>1. items \in Seq(Instructions) /\ n \in Nat
  BY LenProperties DEF Nested
<1>2. /\ next \in Seq(Instructions) /\ Len(next) = n + 1 /\ next[n + 1] = item
      /\ \A i \in 1 .. n : next[i] = items[i]
  BY <1>1, AppendProperties
<1> HIDE DEF next, n
<1>3. Begins(next) = Begins(items) /\ Ends(next) = Ends(items)
  BY <1>1, <1>2 DEF Begins, Ends, n
<1>4. /\ \A b \in Begins(items) : next[b] = items[b]
      /\ \A e \in Ends(items) : next[e] = items[e]
  BY <1>1, <1>2 DEF Begins, Ends, n
<1>5. Nested(next, open)
  BY <1>2, <1>3, <1>4, SMTT(30) DEF Nested
<1> QED
  BY <1>5 DEF next

LEMMA NestedBegin ==
  ASSUME NEW items, NEW open, Nested(items, open),
         NEW item \in Instructions, item.op = "begin"
  PROVE  Nested(Append(items, item), open \cup {Len(items) + 1})
<1> DEFINE next == Append(items, item)
           n == Len(items)
           m == n + 1
<1>1. items \in Seq(Instructions) /\ n \in Nat /\ m \in Nat /\ n < m
  BY LenProperties DEF Nested
<1>2. /\ next \in Seq(Instructions) /\ Len(next) = m /\ next[m] = item
      /\ \A i \in 1 .. n : next[i] = items[i]
  BY <1>1, AppendProperties
<1>3. 1 .. m = (1 .. n) \cup {m}
  BY <1>1
<1> HIDE DEF next, n, m
<1>4. Begins(next) = Begins(items) \cup {m} /\ Ends(next) = Ends(items) /\ m \notin Begins(items)
  BY <1>1, <1>2, <1>3 DEF Begins, Ends, n
<1>5. /\ \A b \in Begins(items) : next[b] = items[b] /\ b \in Nat
      /\ \A e \in Ends(items) : next[e] = items[e] /\ e < m /\ e \in Nat
  BY <1>1, <1>2 DEF Begins, Ends, n
<1>6. /\ Begins(next) \ (open \cup {m}) = Begins(items) \ open
      /\ open \cup {m} \subseteq Begins(next)
  BY <1>4 DEF Nested
<1>7. ASSUME NEW b \in Begins(items) \ open, NEW c \in Begins(next), b < c
      PROVE  \/ next[b].jump < c
             \/ c \notin open \cup {m} /\ next[c].jump < next[b].jump
  <2>1. CASE c = m
    BY <1>5, <2>1 DEF Nested
  <2>2. CASE c # m
    BY <1>4, <1>5, <1>7, <2>2 DEF Nested
  <2> QED
    BY <2>1, <2>2
<1>8. Nested(next, open \cup {m})
  BY <1>2, <1>4, <1>5, <1>6, <1>7 DEF Nested
<1> QED
  BY <1>8 DEF next, n, m

LEMMA NestedEnd ==
  ASSUME NEW items, NEW open, Nested(items, open),
         NEW begin \in open, \A o \in open : o <= begin,
         NEW next \in Seq(Instructions), Len(next) = Len(items) + 1,
         next[Len(items) + 1].op = "end", next[Len(items) + 1].jump = begin,
         next[begin].op = "begin", next[begin].jump = Len(items) + 1,
         \A i \in 1 .. Len(items) : i # begin => next[i] = items[i]
  PROVE  Nested(next, open \ {begin})
<1> DEFINE n == Len(items)
           m == n + 1
<1>1. items \in Seq(Instructions) /\ n \in Nat /\ m \in Nat /\ n < m
  BY LenProperties DEF Nested
<1>2. 1 .. m = (1 .. n) \cup {m} /\ Len(next) = m /\ begin \in Begins(items)
  BY <1>1 DEF Nested
<1>3. /\ begin \in 1 .. n /\ items[begin].op = "begin"
      /\ next[m].op = "end" /\ next[m].jump = begin
      /\ next[begin].op = "begin" /\ next[begin].jump = m
      /\ \A i \in 1 .. n : i # begin => next[i] = items[i]
  BY <1>2 DEF Begins
<1> HIDE DEF n, m
<1>4. Begins(next) = Begins(items) /\ Ends(next) = Ends(items) \cup {m} /\ m \notin Ends(items)
  BY <1>1, <1>2, <1>3 DEF Begins, Ends, n
<1>5. /\ \A b \in Begins(items) : b \in 1 .. n /\ (b # begin => next[b] = items[b])
      /\ \A e \in Ends(items) : e \in 1 .. n /\ e # begin /\ next[e] = items[e]
  BY <1>1, <1>3 DEF Begins, Ends, n
<1>6. ASSUME NEW b \in Begins(next) \ (open \ {begin})
      PROVE  next[b].jump \in Ends(next) /\ next[b].jump > b /\ next[next[b].jump].jump = b
  <2>1. CASE b = begin
    BY <1>1, <1>3, <1>4, <2>1
  <2>2. CASE b # begin
    BY <1>4, <1>5, <1>6, <2>2 DEF Nested
  <2> QED
    BY <2>1, <2>2
<1>7. ASSUME NEW e \in Ends(next)
      PROVE  next[e].jump \in Begins(next) \ (open \ {begin}) /\ next[next[e].jump].jump = e
  <2>1. CASE e = m
    BY <1>2, <1>3, <1>4, <2>1
  <2>2. CASE e # m
    BY <1>4, <1>5, <1>7, <2>2 DEF Nested
  <2> QED
    BY <2>1, <2>2
<1>8. ASSUME NEW b \in Begins(next) \ (open \ {begin}), NEW c \in Begins(next), b < c
      PROVE  \/ next[b].jump < c
             \/ c \notin open \ {begin} /\ next[c].jump < next[b].jump
  <2>1. CASE b = begin
    <3>1. c \notin open /\ c # begin
      BY <1>1, <1>4, <1>5, <1>8, <2>1
    <3>2. next[c].jump < m
      BY <1>1, <1>4, <1>5, <3>1 DEF Nested
    <3> QED
      BY <1>3, <2>1, <3>1, <3>2
  <2>2. CASE b # begin /\ c = begin
    <3>1. items[b].jump < begin
      BY <1>4, <1>8, <2>2 DEF Nested
    <3> QED
      BY <1>4, <1>5, <2>2, <3>1
  <2>3. CASE b # begin /\ c # begin
    BY <1>4, <1>5, <1>8, <2>3 DEF Nested
  <2> QED
    BY <2>1, <2>2, <2>3
<1>9. open \ {begin} \subseteq Begins(next)
  BY <1>4 DEF Nested
<1> QED
  BY <1>6, <1>7, <1>8, <1>9 DEF Nested

ScriptLines == [op : STRING, n : Int, place : Nat]

Open(loops) == {loops[k] : k \in 1 .. Len(loops)}

Rising(loops) == \A j, k \in 1 .. Len(loops) : j < k => loops[j] < loops[k]

(* What the parser has, unless it has failed. *)
Parses ==
  {p \in [items : Seq(Instructions), loops : Seq(Nat), funcs : Nat, ok : BOOLEAN] :
     p.ok => /\ Len(p.items) <= MaxInstructions
             /\ Rising(p.loops)
             /\ Nested(p.items, Open(p.loops))}

LEMMA ParseErrorType ==
  ASSUME NEW p \in Parses
  PROVE  ParseError(p) \in Parses /\ ~ParseError(p).ok
BY DEF ParseError, Parses

LEMMA AddedFacts ==
  ASSUME NEW p \in Parses, NEW line, NEW jump
  PROVE  LET q == Added(p, line, jump)
         IN  \/ q = ParseError(p)
             \/ /\ q = [p EXCEPT !.items = Append(p.items, Instruction(line, jump))]
                /\ Len(p.items) < MaxInstructions
<1>1. Len(p.items) \in Nat /\ MaxInstructions \in Nat
  BY ScriptAssumption, LenProperties DEF Parses, ScriptAssumption
<1> QED
  BY <1>1 DEF Added

LEMMA StatementParsed ==
  ASSUME NEW p \in Parses, p.ok, NEW line \in ScriptLines, line.op \in Statements
  PROVE  Added(p, line, 0) \in Parses
<1> DEFINE item == Instruction(line, 0)
           items == Append(p.items, item)
           q == [p EXCEPT !.items = items]
<1>1. item \in Instructions /\ item.op \notin {"begin", "end"}
  BY DEF Instruction, Instructions, ScriptLines, Statements, Drawn, Widgets
<1>2. /\ p.items \in Seq(Instructions) /\ p.loops \in Seq(Nat) /\ p.funcs \in Nat
      /\ Len(p.items) <= MaxInstructions /\ Rising(p.loops)
      /\ Nested(p.items, Open(p.loops)) /\ MaxInstructions \in Nat
      /\ p \in [items : Seq(Instructions), loops : Seq(Nat), funcs : Nat, ok : BOOLEAN]
  BY ScriptAssumption DEF Parses, ScriptAssumption
<1> HIDE DEF item
<1>3. Nested(items, Open(p.loops))
  BY <1>1, <1>2, NestedStatement
<1>4. items \in Seq(Instructions) /\ Len(items) = Len(p.items) + 1 /\ Len(p.items) \in Nat
  BY <1>1, <1>2, AppendProperties, LenProperties
<1> HIDE DEF items
<1>5. ASSUME Len(p.items) < MaxInstructions PROVE q \in Parses
  BY <1>2, <1>3, <1>4, <1>5, SMTT(30) DEF Parses
<1>6. \/ Added(p, line, 0) = ParseError(p)
      \/ Added(p, line, 0) = q /\ Len(p.items) < MaxInstructions
  BY AddedFacts DEF items, item
<1> QED
  BY <1>5, <1>6, ParseErrorType

LEMMA LoopBegunParsed ==
  ASSUME NEW p \in Parses, p.ok, NEW line \in ScriptLines, line.op = "begin"
  PROVE  LoopBegun(p, line) \in Parses
<1> DEFINE item == Instruction(line, 0)
           items == Append(p.items, item)
           m == Len(p.items) + 1
           loops == Append(p.loops, m)
           q == Added(p, line, 0)
           r == [q EXCEPT !.loops = Append(q.loops, Len(q.items))]
<1>1. item \in Instructions /\ item.op = "begin"
  BY DEF Instruction, Instructions, ScriptLines
<1>2. /\ p.items \in Seq(Instructions) /\ p.loops \in Seq(Nat) /\ p.funcs \in Nat
      /\ Len(p.items) <= MaxInstructions /\ Rising(p.loops)
      /\ Nested(p.items, Open(p.loops)) /\ MaxInstructions \in Nat
      /\ p \in [items : Seq(Instructions), loops : Seq(Nat), funcs : Nat, ok : BOOLEAN]
  BY ScriptAssumption DEF Parses, ScriptAssumption
<1> HIDE DEF item
<1>3. Nested(items, Open(p.loops) \cup {m})
  BY <1>1, <1>2, NestedBegin
<1>4. items \in Seq(Instructions) /\ Len(items) = m /\ Len(p.items) \in Nat /\ m \in Nat
  BY <1>1, <1>2, AppendProperties, LenProperties
<1>5. /\ loops \in Seq(Nat) /\ Len(loops) = Len(p.loops) + 1 /\ Len(p.loops) \in Nat
      /\ loops[Len(p.loops) + 1] = m
      /\ \A k \in 1 .. Len(p.loops) : loops[k] = p.loops[k]
  BY <1>2, <1>4, AppendProperties, LenProperties
<1>6. \A k \in 1 .. Len(p.loops) : p.loops[k] \in 1 .. Len(p.items)
  BY <1>2 DEF Nested, Open, Begins
<1> HIDE DEF items, m, loops
<1>7. Open(loops) = Open(p.loops) \cup {m}
  <2>1. 1 .. Len(p.loops) + 1 = (1 .. Len(p.loops)) \cup {Len(p.loops) + 1}
    BY <1>5
  <2>2. Open(loops) = {loops[k] : k \in (1 .. Len(p.loops)) \cup {Len(p.loops) + 1}}
    BY <1>5, <2>1 DEF Open
  <2>3. Open(p.loops) = {p.loops[k] : k \in 1 .. Len(p.loops)}
    BY DEF Open
  <2>4. {loops[k] : k \in 1 .. Len(p.loops)} = {p.loops[k] : k \in 1 .. Len(p.loops)}
    BY <1>5
  <2>5. \A A, x : {loops[k] : k \in A \cup {x}} = {loops[k] : k \in A} \cup {loops[x]}
    OBVIOUS
  <2>6. Open(loops) = {loops[k] : k \in 1 .. Len(p.loops)} \cup {loops[Len(p.loops) + 1]}
    BY <2>2, <2>5
  <2> QED
    BY <1>5, <2>3, <2>4, <2>6
<1>8. Rising(loops)
  <2> SUFFICES ASSUME NEW j \in 1 .. Len(loops), NEW k \in 1 .. Len(loops), j < k
               PROVE  loops[j] < loops[k]
    BY DEF Rising
  <2>1. j \in 1 .. Len(p.loops)
    BY <1>5
  <2>2. CASE k = Len(p.loops) + 1
    <3>1. p.loops[j] \in 1 .. Len(p.items)
      BY <1>6, <2>1
    <3> QED
      BY <1>4, <1>5, <2>1, <2>2, <3>1, SMTT(30) DEF m
  <2>3. CASE k # Len(p.loops) + 1
    <3>1. k \in 1 .. Len(p.loops)
      BY <1>5, <2>3
    <3>2. p.loops[j] < p.loops[k]
      BY <1>2, <2>1, <3>1 DEF Rising
    <3> QED
      BY <1>5, <2>1, <3>1, <3>2
  <2> QED
    BY <2>2, <2>3
<1> DEFINE added == [p EXCEPT !.items = items]
           begun == [p EXCEPT !.items = items, !.loops = loops]
<1>9. ASSUME Len(p.items) < MaxInstructions PROVE begun \in Parses
  <2>1. m <= MaxInstructions
    BY <1>2, <1>4, <1>9 DEF m
  <2> QED
    BY <1>2, <1>3, <1>4, <1>5, <1>7, <1>8, <2>1 DEF Parses
<1>10. q = ParseError(p) \/ (q = added /\ Len(p.items) < MaxInstructions)
  BY AddedFacts DEF items, item
<1>11. LoopBegun(p, line) = IF Len(p.loops) >= MaxLoopDepth \/ ~q.ok THEN ParseError(p) ELSE r
  BY DEF LoopBegun
<1> HIDE DEF q
<1>12. ASSUME q = added PROVE r = begun
  BY <1>2, <1>4, <1>12 DEF loops
<1>13. CASE q = ParseError(p)
  BY <1>11, <1>13, ParseErrorType
<1>14. CASE q = added /\ Len(p.items) < MaxInstructions
  <2>1. r \in Parses
    BY <1>9, <1>12, <1>14
  <2> HIDE DEF r
  <2> QED
    BY <1>11, <2>1, ParseErrorType
<1> QED
  BY <1>10, <1>13, <1>14

LEMMA LoopEndedParsed ==
  ASSUME NEW p \in Parses, p.ok, p.loops # << >>
  PROVE  LoopEnded(p) \in Parses
<1> DEFINE n == Len(p.loops)
           begin == Last(p.loops)
           item == Instruction(Line("end", 0, 0), begin)
           items == Append(p.items, item)
           m == Len(p.items) + 1
           next == [items EXCEPT ![begin] = [items[begin] EXCEPT !.jump = m]]
           loops == Front(p.loops)
           q == Added(p, Line("end", 0, 0), begin)
           r == [q EXCEPT !.items[begin].jump = Len(q.items), !.loops = Front(@)]
<1>1. /\ p.items \in Seq(Instructions) /\ p.loops \in Seq(Nat) /\ p.funcs \in Nat
      /\ Len(p.items) <= MaxInstructions /\ Rising(p.loops)
      /\ Nested(p.items, Open(p.loops)) /\ MaxInstructions \in Nat
      /\ p \in [items : Seq(Instructions), loops : Seq(Nat), funcs : Nat, ok : BOOLEAN]
  BY ScriptAssumption DEF Parses, ScriptAssumption
<1>2. n \in Nat \ {0} /\ n \in 1 .. n /\ begin = p.loops[n] /\ Len(p.items) \in Nat
  BY <1>1, EmptySeq, LenProperties DEF Last
<1>3. /\ begin \in Open(p.loops) /\ begin \in 1 .. Len(p.items) /\ begin \in Nat
      /\ p.items[begin].op = "begin"
  BY <1>1, <1>2 DEF Open, Nested, Begins
<1>4. \A o \in Open(p.loops) : o <= begin
  <2> SUFFICES ASSUME NEW k \in 1 .. n PROVE p.loops[k] <= begin
    BY DEF Open
  <2> QED
    BY <1>1, <1>2 DEF Rising
<1> HIDE DEF begin
<1>5. item \in Instructions /\ item.op = "end" /\ item.jump = begin
  BY <1>3 DEF Instruction, Line, Instructions
<1> HIDE DEF item
<1>6. /\ items \in Seq(Instructions) /\ Len(items) = m /\ m \in Nat /\ items[m] = item
      /\ \A i \in 1 .. Len(p.items) : items[i] = p.items[i]
  BY <1>1, <1>2, <1>5, AppendProperties
<1>7. begin \in 1 .. Len(items) /\ begin # m /\ m \in 1 .. Len(items)
  BY <1>2, <1>3, <1>6
<1> HIDE DEF items
<1>8. [items[begin] EXCEPT !.jump = m] \in Instructions
  <2>1. items[begin] \in Instructions
    BY <1>6, <1>7
  <2> QED
    BY <1>6, <2>1 DEF Instructions
<1>9. /\ next \in Seq(Instructions) /\ Len(next) = m
      /\ \A i \in 1 .. Len(items) :
           next[i] = IF i = begin THEN [items[begin] EXCEPT !.jump = m] ELSE items[i]
  BY <1>6, <1>7, <1>8, ExceptSeq
<1>10. /\ next[m].op = "end" /\ next[m].jump = begin
       /\ \A i \in 1 .. Len(p.items) : i # begin => next[i] = p.items[i]
  BY <1>2, <1>5, <1>6, <1>7, <1>9
<1>11. next[begin].op = "begin" /\ next[begin].jump = m
  <2>1. items[begin] = p.items[begin] /\ items[begin] \in Instructions
    BY <1>3, <1>6, <1>7
  <2>2. next[begin] = [items[begin] EXCEPT !.jump = m]
    BY <1>7, <1>9
  <2> QED
    BY <1>3, <2>1, <2>2 DEF Instructions
<1> HIDE DEF next
<1>12. Nested(next, Open(p.loops) \ {begin})
  <2>1. next \in Seq(Instructions)
    BY <1>9
  <2>2. Len(next) = Len(p.items) + 1
    BY <1>9
  <2>3. next[Len(p.items) + 1].op = "end" /\ next[Len(p.items) + 1].jump = begin
    BY <1>10
  <2>4. next[begin].jump = Len(p.items) + 1
    BY <1>11
  <2> HIDE DEF m
  <2> QED
    BY <1>1, <1>3, <1>4, <1>10, <1>11, <2>1, <2>2, <2>3, <2>4, NestedEnd
<1>13. /\ loops \in Seq(Nat) /\ Len(loops) = n - 1
       /\ \A k \in 1 .. n - 1 : loops[k] = p.loops[k]
  <2>1. \A k \in 1 .. n - 1 : p.loops[k] \in Nat
    BY <1>1, <1>2
  <2>2. loops = SubSeq(p.loops, 1, n - 1)
    BY DEF Front
  <2> HIDE DEF loops, n
  <2> QED
    BY <1>2, <2>1, <2>2, SubSeqProperties
<1> HIDE DEF loops
<1>14. Open(loops) = Open(p.loops) \ {begin}
  <2>1. 1 .. n = (1 .. n - 1) \cup {n}
    BY <1>2
  <2>2. \A k \in 1 .. n - 1 : p.loops[k] # begin
    <3> TAKE k \in 1 .. n - 1
    <3>1. k \in 1 .. n /\ k < n /\ p.loops[k] \in Nat
      BY <1>1, <1>2
    <3>2. p.loops[k] < p.loops[n]
      BY <1>1, <1>2, <3>1 DEF Rising
    <3> QED
      BY <1>2, <1>3, <3>1, <3>2
  <2> HIDE DEF n
  <2>3. Open(loops) = {p.loops[k] : k \in 1 .. n - 1}
    BY <1>13 DEF Open
  <2>4. Open(p.loops) = {p.loops[k] : k \in 1 .. n}
    BY DEF Open, n
  <2> QED
    BY <1>2, <2>1, <2>2, <2>3, <2>4
<1>15. Rising(loops)
  <2> SUFFICES ASSUME NEW j \in 1 .. Len(loops), NEW k \in 1 .. Len(loops), j < k
               PROVE  loops[j] < loops[k]
    BY DEF Rising
  <2> HIDE DEF n
  <2>1. j \in 1 .. n - 1 /\ k \in 1 .. n - 1 /\ j \in 1 .. n /\ k \in 1 .. n
    BY <1>2, <1>13
  <2>2. p.loops[j] < p.loops[k]
    BY <1>1, <2>1 DEF Rising, n
  <2> QED
    BY <1>13, <2>1, <2>2
<1> DEFINE added == [p EXCEPT !.items = items]
           closed == [p EXCEPT !.items = next, !.loops = loops]
<1>16. ASSUME Len(p.items) < MaxInstructions PROVE closed \in Parses
  <2>1. m <= MaxInstructions
    BY <1>1, <1>2, <1>16
  <2> QED
    BY <1>1, <1>9, <1>12, <1>13, <1>14, <1>15, <2>1 DEF Parses
<1>17. q = ParseError(p) \/ (q = added /\ Len(p.items) < MaxInstructions)
  BY AddedFacts DEF items, item
<1>18. LoopEnded(p) = IF ~q.ok THEN q ELSE r
  BY DEF LoopEnded, begin
<1> HIDE DEF q
<1>19. ASSUME q = added PROVE r = closed
  <2>1. q.items = items /\ q.loops = p.loops
    BY <1>1, <1>19
  <2>2. r = [q EXCEPT !.items = [q.items EXCEPT ![begin] = [q.items[begin] EXCEPT !.jump = Len(q.items)]],
                      !.loops = Front(q.loops)]
    OBVIOUS
  <2>3. r = [q EXCEPT !.items = next, !.loops = loops]
    BY <1>6, <2>1, <2>2 DEF next, loops
  <2> QED
    BY <1>1, <1>19, <2>3
<1>20. CASE q = ParseError(p)
  BY <1>18, <1>20, ParseErrorType
<1>21. CASE q = added /\ Len(p.items) < MaxInstructions
  <2>1. r \in Parses
    BY <1>16, <1>19, <1>21
  <2>2. q.ok
    BY <1>1, <1>21
  <2> HIDE DEF r
  <2> QED
    BY <1>18, <2>1, <2>2
<1> QED
  BY <1>17, <1>20, <1>21

LEMMA LineParsed ==
  ASSUME NEW p \in Parses, NEW line \in ScriptLines
  PROVE  ParsedLine(p, line) \in Parses
<1>1. CASE ~p.ok
  BY <1>1 DEF ParsedLine
<1>2. CASE p.ok /\ line.op = "func"
  <2>1. FuncBegun(p) \in Parses
    <3>1. p.funcs \in Nat /\ p.funcs + 1 \in Nat
      BY DEF Parses
    <3> QED
      BY <1>2, <3>1 DEF FuncBegun, Parses
  <2> QED
    BY <1>2, <2>1 DEF ParsedLine
<1>3. CASE p.ok /\ line.op = "}"
  <2>1. CASE p.loops # << >>
    BY <1>3, <2>1, LoopEndedParsed DEF ParsedLine, BraceClosed
  <2>2. CASE p.loops = << >> /\ p.funcs > 0
    <3>1. p.funcs \in Nat /\ p.funcs - 1 \in Nat
      BY <2>2 DEF Parses
    <3>2. FuncEnded(p) \in Parses
      BY <1>3, <3>1 DEF FuncEnded, Parses
    <3> QED
      BY <1>3, <2>2, <3>2 DEF ParsedLine, BraceClosed
  <2>3. CASE p.loops = << >> /\ ~(p.funcs > 0)
    BY <1>3, <2>3, ParseErrorType DEF ParsedLine, BraceClosed
  <2> QED
    BY <2>1, <2>2, <2>3
<1>4. CASE p.ok /\ line.op = "begin"
  BY <1>4, LoopBegunParsed DEF ParsedLine
<1>5. CASE p.ok /\ line.op \in Statements
  BY <1>5, StatementParsed DEF ParsedLine, Statements, Drawn, Widgets
<1>6. CASE p.ok /\ line.op \notin {"func", "}", "begin"} \cup Statements
  BY <1>6, ParseErrorType DEF ParsedLine
<1> QED
  BY <1>1, <1>2, <1>3, <1>4, <1>5, <1>6

(* All lines of a script. *)
LEMMA AllParsed ==
  ASSUME NEW lines \in Seq(ScriptLines)
  PROVE  Fold(ParsedLine, StartParse, lines) \in Parses
<1> DEFINE n == Len(lines)
           F == [q \in Parses \X (1 .. n) |-> ParsedLine(q[1], lines[q[2]])]
           Recursive(f) == f = [i \in 0 .. n |->
                                  IF i = 0 THEN StartParse
                                  ELSE Bind(f[i - 1], LAMBDA a : ParsedLine(a, lines[i]))]
           reached == CHOOSE f : Recursive(f)
<1>1. n \in Nat /\ \A i \in 1 .. n : i - 1 \in 0 .. n /\ lines[i] \in ScriptLines
  OBVIOUS
<1>2. StartParse \in Parses
  <2>1. << >> \in Seq(Instructions) /\ << >> \in Seq(Nat) /\ Len(<< >>) = 0 /\ 0 <= MaxInstructions
    BY ScriptAssumption DEF ScriptAssumption
  <2>2. Begins(<< >>) = {} /\ Ends(<< >>) = {} /\ Open(<< >>) = {} /\ Rising(<< >>)
    BY <2>1 DEF Begins, Ends, Open, Rising
  <2>3. Nested(<< >>, {})
    BY <2>1, <2>2 DEF Nested
  <2> QED
    BY <2>1, <2>2, <2>3 DEF StartParse, Parses
<1>3. F \in [Parses \X (1 .. n) -> Parses]
  BY <1>1, LineParsed
<1>4. PICK g \in Results(n, Parses, StartParse, F) : TRUE
  <2> HIDE DEF F, n
  <2> QED
    BY <1>1, <1>2, <1>3, Recursion
<1>5. /\ g \in [0 .. n -> Parses] /\ g[0] = StartParse
      /\ \A i \in 1 .. n : g[i] = ParsedLine(g[i - 1], lines[i])
  BY <1>1, <1>4 DEF Results
<1>6. Recursive(g)
  BY <1>1, <1>5 DEF Bind
<1>7. Recursive(reached)
  BY <1>6, Zenon
<1> HIDE DEF reached
<1>8. reached[0] = StartParse /\ \A i \in 1 .. n : reached[i] = ParsedLine(reached[i - 1], lines[i])
  BY <1>1, <1>7 DEF Bind
<1> DEFINE P == {i \in 0 .. n : reached[i] \in Parses}
<1>9. \A i \in 0 .. n : i \in P
  <2>1. 0 \in P /\ \A i \in 1 .. n : i - 1 \in P => i \in P
    BY <1>1, <1>2, <1>8, LineParsed
  <2> HIDE DEF P, n
  <2> QED
    BY <1>1, <2>1, Induction
<1>10. Fold(ParsedLine, StartParse, lines) = reached[n]
  BY DEF Fold, reached
<1> QED
  BY <1>1, <1>9, <1>10

(* A script that is accepted fits, and every loop of it has its end. *)
LEMMA ProgramNests ==
  ASSUME NEW lines \in Seq(ScriptLines), Parsed(lines).ok
  PROVE  /\ Nested(Parsed(lines).items, {})
         /\ Len(Parsed(lines).items) <= MaxInstructions
<1> DEFINE p == Fold(ParsedLine, StartParse, lines)
<1>1. p \in Parses
  BY AllParsed
<1> HIDE DEF p
<1>2. Parsed(lines) = Closed(p)
  BY DEF Parsed, Bind, p
<1>3. p.ok /\ p.loops = << >> /\ Parsed(lines).items = p.items
  BY <1>1, <1>2 DEF Closed, Parses
<1>4. Nested(p.items, Open(p.loops)) /\ Len(p.items) <= MaxInstructions
  BY <1>1, <1>3 DEF Parses
<1>5. Open(p.loops) = {}
  BY <1>3 DEF Open
<1> QED
  BY <1>3, <1>4, <1>5

-----------------------------------------------------------------------------
(* The counters of loops, for any program whose loops nest.                *)

LoopsRight(items, at, left) ==
  \A b \in Begins(items) :
    /\ left[b] \in {-1} \cup (IF items[b].n <= 0 THEN {-2} ELSE 1 .. items[b].n)
    /\ left[b] # -1 => at \in b .. items[b].jump
    /\ at \in b + 1 .. items[b].jump => left[b] # -1

LEMMA LoopFacts ==
  ASSUME NEW items, Nested(items, {})
  PROVE  /\ \A b \in Begins(items) :
              /\ b \in Nat /\ items[b].n \in Int /\ items[b].jump \in Nat
              /\ items[b].jump \in Ends(items) /\ items[b].jump > b
              /\ items[items[b].jump].jump = b
         /\ \A e \in Ends(items) :
              /\ e \in Nat /\ e \notin Begins(items)
              /\ items[e].jump \in Begins(items) /\ items[items[e].jump].jump = e
         /\ \A b, c \in Begins(items) :
              b < c => items[b].jump < c \/ items[c].jump < items[b].jump
<1>1. \A i \in 1 .. Len(items) : items[i] \in Instructions
  BY DEF Nested
<1>2. \A i \in 1 .. Len(items) : items[i].n \in Int /\ items[i].jump \in Nat /\ i \in Nat
  BY <1>1 DEF Instructions
<1>3. \A b \in Begins(items) : b \in Nat /\ items[b].n \in Int /\ items[b].jump \in Nat
  BY <1>2 DEF Begins
<1>4. \A e \in Ends(items) : e \in Nat /\ e \notin Begins(items)
  BY <1>2 DEF Begins, Ends
<1> QED
  BY <1>3, <1>4 DEF Nested

(* From a statement that is not the end of a loop to the next one. *)
LEMMA Advance ==
  ASSUME NEW items, Nested(items, {}), NEW at \in 1 .. Len(items), NEW left,
         LoopsRight(items, at, left), items[at].op # "end",
         items[at].op = "begin" => left[at] # -1
  PROVE  LoopsRight(items, at + 1, left)
<1> SUFFICES ASSUME NEW b \in Begins(items)
             PROVE  /\ left[b] # -1 => at + 1 \in b .. items[b].jump
                    /\ at + 1 \in b + 1 .. items[b].jump => left[b] # -1
  BY DEF LoopsRight
<1>1. b \in Nat /\ items[b].jump \in Nat /\ items[b].jump > b /\ at \in Nat
  BY LoopFacts
<1>2. at # items[b].jump
  BY LoopFacts DEF Ends
<1>3. b = at => left[b] # -1
  BY DEF Begins
<1> QED
  BY <1>1, <1>2, <1>3 DEF LoopsRight

(* A loop that begins sets its counter. *)
LEMMA LoopEntered ==
  ASSUME NEW items, Nested(items, {}), NEW at \in Begins(items),
         NEW left \in [1 .. Len(items) -> Int], LoopsRight(items, at, left)
  PROVE  LET n == IF items[at].n <= 0 THEN -2 ELSE items[at].n
         IN  n # -1 /\ n \in Int /\ LoopsRight(items, at, [left EXCEPT ![at] = n])
<1> DEFINE n == IF items[at].n <= 0 THEN -2 ELSE items[at].n
           new == [left EXCEPT ![at] = n]
<1>1. /\ at \in Nat /\ items[at].n \in Int /\ items[at].jump \in Nat /\ items[at].jump > at
      /\ at \in 1 .. Len(items)
  BY LoopFacts DEF Begins
<1>2. n # -1 /\ n \in Int /\ n \in (IF items[at].n <= 0 THEN {-2} ELSE 1 .. items[at].n)
  BY <1>1
<1> HIDE DEF n
<1>3. new[at] = n /\ \A b \in Begins(items) : b # at => new[b] = left[b]
  BY <1>1 DEF Begins
<1> HIDE DEF new
<1>4. ASSUME NEW b \in Begins(items)
      PROVE  /\ new[b] \in {-1} \cup (IF items[b].n <= 0 THEN {-2} ELSE 1 .. items[b].n)
             /\ new[b] # -1 => at \in b .. items[b].jump
             /\ at \in b + 1 .. items[b].jump => new[b] # -1
  <2>1. CASE b = at
    BY <1>1, <1>2, <1>3, <2>1
  <2>2. CASE b # at
    BY <1>3, <2>2 DEF LoopsRight
  <2> QED
    BY <2>1, <2>2
<1>5. LoopsRight(items, at, new)
  BY <1>4 DEF LoopsRight
<1> QED
  BY <1>2, <1>5 DEF n, new

(* At its end a loop is one of those that are counted. *)
LEMMA LoopCounted ==
  ASSUME NEW items, Nested(items, {}), NEW at \in Ends(items),
         NEW left, LoopsRight(items, at, left)
  PROVE  LET begin == items[at].jump
         IN  left[begin] = -2 \/ (left[begin] \in 1 .. items[begin].n /\ items[begin].n \in Int)
<1> DEFINE begin == items[at].jump
<1>1. /\ begin \in Begins(items) /\ begin \in Nat /\ items[begin].n \in Int
      /\ items[begin].jump = at /\ at > begin /\ at \in Nat
  BY LoopFacts
<1>2. at \in begin + 1 .. items[begin].jump
  BY <1>1
<1> QED
  BY <1>1, <1>2 DEF LoopsRight

(* Back to the beginning, with a counter that has become less or not. *)
LEMMA LoopRepeats ==
  ASSUME NEW items, Nested(items, {}), NEW at \in Ends(items),
         NEW left, LoopsRight(items, at, left), NEW new,
         \A b \in Begins(items) : b # items[at].jump => new[b] = left[b],
         LET begin == items[at].jump
         IN  /\ new[begin] # -1
             /\ new[begin] \in (IF items[begin].n <= 0 THEN {-2} ELSE 1 .. items[begin].n)
  PROVE  LoopsRight(items, items[at].jump, new)
<1> DEFINE begin == items[at].jump
<1>1. /\ begin \in Begins(items) /\ begin \in Nat /\ items[begin].jump = at
      /\ at > begin /\ at \in Nat /\ at \notin Begins(items)
  BY LoopFacts
<1> SUFFICES ASSUME NEW b \in Begins(items)
             PROVE  /\ new[b] \in {-1} \cup (IF items[b].n <= 0 THEN {-2} ELSE 1 .. items[b].n)
                    /\ new[b] # -1 => begin \in b .. items[b].jump
                    /\ begin \in b + 1 .. items[b].jump => new[b] # -1
  BY DEF LoopsRight
<1>2. CASE b = begin
  <2>1. /\ new[begin] # -1
        /\ new[begin] \in (IF items[begin].n <= 0 THEN {-2} ELSE 1 .. items[begin].n)
    OBVIOUS
  <2>2. begin \in begin .. items[begin].jump
    BY <1>1
  <2> HIDE DEF begin
  <2> QED
    BY <1>2, <2>1, <2>2
<1>3. CASE b # begin
  <2>1. /\ new[b] = left[b]
        /\ b \in Nat /\ items[b].jump \in Nat /\ items[b].jump > b
        /\ items[b].jump \notin Begins(items) /\ items[b].jump # at /\ b # at
    BY <1>1, <1>3, LoopFacts
  <2>2. /\ b < begin => items[b].jump < begin \/ at < items[b].jump
        /\ begin < b => at < b \/ items[b].jump < at
    BY <1>1, LoopFacts
  <2>3. /\ left[b] \in {-1} \cup (IF items[b].n <= 0 THEN {-2} ELSE 1 .. items[b].n)
        /\ left[b] # -1 => at \in b .. items[b].jump
        /\ at \in b + 1 .. items[b].jump => left[b] # -1
    BY DEF LoopsRight
  <2> HIDE DEF begin
  <2>4. items[b].jump # begin
    BY <1>1, <2>1
  <2> QED
    BY <1>1, <1>3, <2>1, <2>2, <2>3, <2>4
<1> QED
  BY <1>2, <1>3

(* Out of a loop, whose counter is reset. *)
LEMMA LoopLeft ==
  ASSUME NEW items, Nested(items, {}), NEW at \in Ends(items),
         NEW left, LoopsRight(items, at, left), NEW new,
         \A b \in Begins(items) : b # items[at].jump => new[b] = left[b],
         new[items[at].jump] = -1
  PROVE  LoopsRight(items, at + 1, new)
<1> DEFINE begin == items[at].jump
<1>1. /\ begin \in Begins(items) /\ begin \in Nat /\ items[begin].jump = at
      /\ at > begin /\ at \in Nat /\ at \notin Begins(items)
  BY LoopFacts
<1> SUFFICES ASSUME NEW b \in Begins(items)
             PROVE  /\ new[b] \in {-1} \cup (IF items[b].n <= 0 THEN {-2} ELSE 1 .. items[b].n)
                    /\ new[b] # -1 => at + 1 \in b .. items[b].jump
                    /\ at + 1 \in b + 1 .. items[b].jump => new[b] # -1
  BY DEF LoopsRight
<1>2. CASE b = begin
  BY <1>1, <1>2
<1>3. CASE b # begin
  <2>1. /\ new[b] = left[b]
        /\ b \in Nat /\ items[b].jump \in Nat /\ items[b].jump > b
        /\ items[b].jump # at /\ b # at
    BY <1>1, <1>3, LoopFacts
  <2>2. /\ left[b] \in {-1} \cup (IF items[b].n <= 0 THEN {-2} ELSE 1 .. items[b].n)
        /\ left[b] # -1 => at \in b .. items[b].jump
        /\ at \in b + 1 .. items[b].jump => left[b] # -1
    BY DEF LoopsRight
  <2> QED
    BY <1>1, <2>1, <2>2
<1> QED
  BY <1>2, <1>3

-----------------------------------------------------------------------------
(* The engine.                                                             *)

(* What is loaded, where the engine is in it, and the loops around that. *)
Control ==
  /\ source \in Sources
  /\ mode \in Modes
  /\ pc \in 1 .. Len(program) + 1
  /\ Nested(program, {})
  /\ Len(program) <= MaxInstructions
  /\ remaining \in [1 .. Len(program) -> Int]
  /\ LoopsRight(program, pc, remaining)
  /\ mode = "load" => program = << >> /\ pc = 1
  /\ mode \in {"collect", "handle"} =>
       /\ pc \in 1 .. Len(program)
       /\ Here.op # "end"
       /\ Here.op = "begin" => remaining[pc] # -1

Flags == quit \in BOOLEAN /\ touched \in BOOLEAN /\ valid \in BOOLEAN

Frame == frame \in Seq(AllEvents) /\ Len(frame) <= MaxFrame

SInv == GInv /\ Control /\ Flags /\ Frame

LEMMA SInvImplies == SInv => CountersRight
<1> SUFFICES ASSUME SInv PROVE CountersRight
  OBVIOUS
<1>1. GTypeOK
  BY GInvImplies DEF SInv
<1>2. program \in Seq(Instructions) /\ DOMAIN program = 1 .. Len(program)
  BY DEF SInv, Control, Nested
<1>3. DOMAIN remaining = DOMAIN program
  BY <1>2 DEF SInv, Control
<1>4. \A i \in DOMAIN frame : frame[i] \in AllEvents
  BY DEF SInv, Frame
<1>5. STypeOK
  BY <1>1, <1>3, <1>4 DEF SInv, Control, Flags, Frame, STypeOK
<1>6. LoopsNest
  BY <1>2 DEF SInv, Control, LoopsNest, LoopsRight, Begins
<1> QED
  BY <1>5, <1>6 DEF CountersRight

LEMMA EmptyFrame == << >> \in Seq(AllEvents) /\ Len(<< >>) <= MaxFrame
BY ScriptAssumption DEF ScriptAssumption

(* The statement at pc is done, and was not the end of a loop. *)
LEMMA Proceeds ==
  ASSUME SInv, pc \in 1 .. Len(program), Here.op # "end",
         Here.op = "begin" => remaining[pc] # -1,
         Proceed, UNCHANGED <<source, program, remaining>>
  PROVE  Control'
<1>1. LoopsRight(program, pc + 1, remaining)
  BY Advance DEF SInv, Control, Here
<1>2. pc + 1 \in 1 .. Len(program) + 1 /\ pc' = pc + 1 /\ mode' = "fetch"
  BY LenProperties DEF SInv, Control, Nested, Proceed
<1> QED
  BY <1>1, <1>2 DEF SInv, Control, Modes

(* The engine stays where it is, and collects events for the statement at pc. *)
LEMMA Collects ==
  ASSUME SInv, pc \in 1 .. Len(program), Here.op # "end",
         Here.op = "begin" => remaining[pc] # -1,
         mode' \in {"collect", "handle"}, UNCHANGED <<source, program, pc, remaining>>
  PROVE  Control'
BY DEF SInv, Control, Modes, Here

LEMMA Fetched ==
  ASSUME SInv, NEW ops, Fetches(ops)
  PROVE  /\ pc \in 1 .. Len(program) /\ Here.op \in ops
         /\ UNCHANGED <<source, program, sent>>
BY LenProperties DEF SInv, Control, Nested, Fetches

LEMMA SInitGood == SInit => SInv
<1> SUFFICES ASSUME SInit PROVE SInv
  OBVIOUS
<1>1. PICK server \in BOOLEAN, failed \in SUBSET Mishaps :
        gui = Initialised(FreshProcess(server), failed)
  BY DEF SInit
<1>2. Good(gui)
  BY <1>1, FreshGood, InitialisedGood
<1>3. GInv
  BY <1>2, NoEventType, GuiAssumption DEF SInit, GInv, GuiAssumption
<1>4. /\ << >> \in Seq(Instructions) /\ Len(<< >>) = 0 /\ MaxInstructions \in Nat
      /\ Begins(<< >>) = {} /\ Ends(<< >>) = {}
  BY ScriptAssumption DEF ScriptAssumption, Begins, Ends
<1>5. Nested(<< >>, {}) /\ LoopsRight(<< >>, 1, << >>) /\ << >> \in [1 .. 0 -> Int]
  BY <1>4 DEF Nested, LoopsRight
<1>6. Control
  BY <1>4, <1>5 DEF SInit, Control, Modes
<1> QED
  BY <1>3, <1>6, EmptyFrame DEF SInit, SInv, Flags, Frame

LEMMA LoadGood == SInv /\ Load => SInv'
<1> SUFFICES ASSUME SInv, Load PROVE SInv'
  OBVIOUS
<1> DEFINE p == Parsed(source)
<1>1. source \in Seq(ScriptLines)
  BY ScriptAssumption DEF SInv, Control, ScriptAssumption, ScriptLines
<1>2. CASE p.ok
  <2>1. Nested(p.items, {}) /\ Len(p.items) <= MaxInstructions
    BY <1>1, <1>2, ProgramNests
  <2> HIDE DEF p
  <2>2. /\ program' = p.items /\ remaining' = [i \in DOMAIN p.items |-> -1]
        /\ mode' = "fetch" /\ gui' = gui
        /\ UNCHANGED <<source, pc, quit, touched, frame, valid, sent, out>>
    BY <1>2 DEF Load, p
  <2>3. p.items \in Seq(Instructions) /\ DOMAIN p.items = 1 .. Len(p.items) /\ Len(p.items) \in Nat
    BY <2>1, LenProperties DEF Nested
  <2>4. pc = 1
    BY DEF SInv, Control, Load
  <2>5. LoopsRight(program', pc', remaining')
    <3>1. \A b \in Begins(p.items) : b \in Nat /\ b >= 1 /\ remaining'[b] = -1
      BY <2>2, <2>3 DEF Begins
    <3> QED
      BY <2>2, <2>4, <3>1 DEF LoopsRight
  <2>6. Control'
    BY <2>1, <2>2, <2>3, <2>4, <2>5 DEF SInv, Control, Modes
  <2> QED
    BY <2>2, <2>6 DEF SInv, GInv, Flags, Frame
<1>3. CASE ~p.ok
  <2> HIDE DEF p
  <2>1. /\ mode' = "refused" /\ gui' = ShutDown(gui)
        /\ UNCHANGED <<program, remaining, source, pc, quit, touched, frame, valid, sent, out>>
    BY <1>3 DEF Load, p
  <2>2. Good(gui')
    BY <2>1, ShutDownGood DEF SInv, GInv
  <2> QED
    BY <2>1, <2>2 DEF SInv, GInv, Control, Modes, Flags, Frame
<1> QED
  BY <1>2, <1>3

LEMMA NoticeClosedGood == SInv /\ NoticeClosed => SInv'
BY DEF SInv, NoticeClosed, GInv, gvars, Control, Here, Flags, Frame

(* The statements that are done at once. *)
LEMMA StatementGood ==
  ASSUME SInv, ExecWindow \/ ExecDraw \/ ExecPrint
  PROVE  SInv'
<1>1. CASE ExecWindow
  <2>1. /\ Fetches({"window"}) /\ touched' = TRUE /\ valid' = FALSE /\ Proceed
        /\ UNCHANGED <<quit, remaining, frame, out>>
    BY <1>1 DEF ExecWindow
  <2>2. PICK failed \in SUBSET Mishaps : gui' = WithWindow(gui, failed)
    BY <1>1 DEF ExecWindow
  <2>3. Good(gui')
    BY <2>2, WithWindowGood DEF SInv, GInv
  <2>4. Control' /\ sent' = sent
    BY <2>1, Fetched, Proceeds
  <2> QED
    BY <2>1, <2>3, <2>4 DEF SInv, GInv, Flags, Frame
<1>2. CASE ExecDraw
  <2>1. /\ Fetches(Drawn) /\ touched' = TRUE /\ Proceed
        /\ UNCHANGED <<quit, remaining, frame, valid, gui, out>>
    BY <1>2 DEF ExecDraw
  <2>2. Control' /\ sent' = sent
    BY <2>1, Fetched, Proceeds DEF Drawn, Widgets
  <2> QED
    BY <2>1, <2>2 DEF SInv, GInv, Flags, Frame
<1>3. CASE ExecPrint
  <2>1. /\ Fetches({"print"}) /\ Proceed
        /\ UNCHANGED <<quit, touched, remaining, frame, valid, gui, out>>
    BY <1>3 DEF ExecPrint
  <2>2. Control' /\ sent' = sent
    BY <2>1, Fetched, Proceeds
  <2> QED
    BY <2>1, <2>2 DEF SInv, GInv, Flags, Frame
<1> QED
  BY <1>1, <1>2, <1>3

LEMMA ExecPumpGood == SInv /\ ExecPump => SInv'
<1> SUFFICES ASSUME SInv, ExecPump PROVE SInv'
  OBVIOUS
<1>1. /\ Fetches({"pump"}) /\ mode' = "collect" /\ frame' = << >>
      /\ UNCHANGED <<valid, pc, quit, touched, remaining, gui, out>>
  BY DEF ExecPump, StartCollect
<1>2. Control' /\ sent' = sent
  BY <1>1, Fetched, Collects
<1> QED
  BY <1>1, <1>2, EmptyFrame DEF SInv, GInv, Flags, Frame

LEMMA ExecHandlerGood == SInv /\ ExecHandler => SInv'
<1> SUFFICES ASSUME SInv, ExecHandler PROVE SInv'
  OBVIOUS
<1>1. /\ Fetches({"on_click", "on_key", "on_move"})
      /\ UNCHANGED <<quit, remaining, gui, out>>
  BY DEF ExecHandler
<1>2. CASE valid
  <2>1. Proceed /\ UNCHANGED <<frame, valid>> /\ touched' = (touched \/ acts' # acts)
    BY <1>2 DEF ExecHandler
  <2>2. Control' /\ sent' = sent
    BY <1>1, <2>1, Fetched, Proceeds
  <2>3. touched' \in BOOLEAN
    BY <2>1
  <2> QED
    BY <1>1, <2>1, <2>2, <2>3 DEF SInv, GInv, Flags, Frame
<1>3. CASE ~valid
  <2>1. mode' = "collect" /\ frame' = << >> /\ UNCHANGED <<valid, pc, touched>>
    BY <1>3 DEF ExecHandler, StartCollect
  <2>2. Control' /\ sent' = sent
    BY <1>1, <2>1, Fetched, Collects
  <2> QED
    BY <1>1, <2>1, <2>2, EmptyFrame DEF SInv, GInv, Flags, Frame
<1> QED
  BY <1>2, <1>3

LEMMA ExecLoopGood == SInv /\ ExecLoop => SInv'
<1> SUFFICES ASSUME SInv, ExecLoop PROVE SInv'
  OBVIOUS
<1>1. Fetches({"loop"}) /\ UNCHANGED <<quit, touched, remaining, gui, out>>
  BY DEF ExecLoop
<1>2. CASE ~touched
  <2>1. Proceed /\ UNCHANGED <<frame, valid>>
    BY <1>2 DEF ExecLoop
  <2>2. Control' /\ sent' = sent
    BY <1>1, <2>1, Fetched, Proceeds
  <2> QED
    BY <1>1, <2>1, <2>2 DEF SInv, GInv, Flags, Frame
<1>3. CASE touched
  <2>1. mode' = "collect" /\ frame' = << >> /\ UNCHANGED <<valid, pc>>
    BY <1>3 DEF ExecLoop, StartCollect
  <2>2. Control' /\ sent' = sent
    BY <1>1, <2>1, Fetched, Collects
  <2> QED
    BY <1>1, <2>1, <2>2, EmptyFrame DEF SInv, GInv, Flags, Frame
<1> QED
  BY <1>2, <1>3

LEMMA ExecLoopBeginGood == SInv /\ ExecLoopBegin => SInv'
<1> SUFFICES ASSUME SInv, ExecLoopBegin PROVE SInv'
  OBVIOUS
<1> DEFINE n == IF Here.n <= 0 THEN -2 ELSE Here.n
<1>1. /\ Fetches({"begin"}) /\ mode' = "collect" /\ frame' = << >>
      /\ UNCHANGED <<valid, pc, quit, touched, gui, out>>
      /\ remaining' = IF remaining[pc] = -1 THEN [remaining EXCEPT ![pc] = n] ELSE remaining
  BY DEF ExecLoopBegin, StartCollect
<1>2. /\ pc \in 1 .. Len(program) /\ Here.op = "begin" /\ pc \in Begins(program)
      /\ UNCHANGED <<source, program, sent>>
  BY <1>1, Fetched DEF Begins, Here
<1>3. n # -1 /\ n \in Int /\ LoopsRight(program, pc, [remaining EXCEPT ![pc] = n])
  BY <1>2, LoopEntered DEF SInv, Control, Here
<1> HIDE DEF n
<1>4. /\ remaining' \in [1 .. Len(program) -> Int] /\ remaining'[pc] # -1
      /\ LoopsRight(program, pc, remaining')
  <2>1. remaining \in [1 .. Len(program) -> Int] /\ LoopsRight(program, pc, remaining)
    BY DEF SInv, Control
  <2>2. CASE remaining[pc] = -1
    BY <1>1, <1>2, <1>3, <2>1, <2>2
  <2>3. CASE remaining[pc] # -1
    BY <1>1, <2>1, <2>3
  <2> QED
    BY <2>2, <2>3
<1>5. Control'
  BY <1>1, <1>2, <1>4 DEF SInv, Control, Modes, Here
<1> QED
  BY <1>1, <1>2, <1>5, EmptyFrame DEF SInv, GInv, Flags, Frame

LEMMA ExecLoopEndGood == SInv /\ ExecLoopEnd => SInv'
<1> SUFFICES ASSUME SInv, ExecLoopEnd PROVE SInv'
  OBVIOUS
<1> DEFINE begin == Here.jump
           left == remaining[begin]
<1>1. /\ Fetches({"end"}) /\ mode' = "fetch" /\ valid' = FALSE
      /\ UNCHANGED <<quit, touched, frame, gui, out>>
      /\ \/ left = -2 /\ pc' = begin /\ remaining' = remaining
         \/ /\ left > 1
            /\ remaining' = [remaining EXCEPT ![begin] = left - 1]
            /\ pc' = begin
         \/ /\ left \in {-1, 0, 1}
            /\ remaining' = [remaining EXCEPT ![begin] = -1]
            /\ pc' = pc + 1
  BY DEF ExecLoopEnd
<1>2. pc \in Ends(program) /\ pc \in 1 .. Len(program) /\ UNCHANGED <<source, program, sent>>
  BY <1>1, Fetched DEF Ends, Here
<1>3. /\ Nested(program, {}) /\ LoopsRight(program, pc, remaining)
      /\ remaining \in [1 .. Len(program) -> Int] /\ Len(program) \in Nat
      /\ begin = program[pc].jump
  BY LenProperties DEF SInv, Control, Nested, Here
<1>4. begin \in Begins(program) /\ begin \in 1 .. Len(program) /\ program[begin].n \in Int
  BY <1>2, <1>3, LoopFacts DEF Begins
<1>5. left = -2 \/ left \in 1 .. program[begin].n
  BY <1>2, <1>3, LoopCounted
<1>6. left = -2 => program[begin].n <= 0
  BY <1>3, <1>4 DEF LoopsRight
<1> HIDE DEF begin
<1>7. \A b \in Begins(program) : b \in 1 .. Len(program)
  BY DEF Begins
<1>8. CASE left = -2
  <2>1. pc' = begin /\ remaining' = remaining
    BY <1>1, <1>8
  <2>2. LoopsRight(program, begin, remaining)
    BY <1>2, <1>3, <1>6, <1>8, LoopRepeats
  <2>3. Control'
    BY <1>1, <1>2, <1>3, <1>4, <2>1, <2>2 DEF SInv, Control, Modes
  <2> QED
    BY <1>1, <1>2, <2>3 DEF SInv, GInv, Flags, Frame
<1>9. CASE left \in 2 .. program[begin].n
  <2> DEFINE new == [remaining EXCEPT ![begin] = left - 1]
  <2>1. pc' = begin /\ remaining' = new
    BY <1>1, <1>4, <1>9
  <2>2. /\ new \in [1 .. Len(program) -> Int]
        /\ new[begin] \in 1 .. program[begin].n /\ new[begin] # -1
        /\ \A b \in Begins(program) : b # begin => new[b] = remaining[b]
        /\ ~(program[begin].n <= 0)
    BY <1>3, <1>4, <1>7, <1>9
  <2> HIDE DEF new, left
  <2>3. LoopsRight(program, begin, new)
    BY <1>2, <1>3, <2>2, LoopRepeats
  <2>4. Control'
    BY <1>1, <1>2, <1>3, <1>4, <2>1, <2>2, <2>3 DEF SInv, Control, Modes
  <2> QED
    BY <1>1, <1>2, <2>4 DEF SInv, GInv, Flags, Frame
<1>10. CASE left = 1
  <2> DEFINE new == [remaining EXCEPT ![begin] = -1]
  <2>1. pc' = pc + 1 /\ remaining' = new
    BY <1>1, <1>10
  <2>2. /\ new \in [1 .. Len(program) -> Int] /\ new[begin] = -1
        /\ \A b \in Begins(program) : b # begin => new[b] = remaining[b]
    BY <1>3, <1>4, <1>7
  <2> HIDE DEF new, left
  <2>3. LoopsRight(program, pc + 1, new)
    BY <1>2, <1>3, <2>2, LoopLeft
  <2>4. pc + 1 \in 1 .. Len(program) + 1
    BY <1>2, <1>3
  <2>5. Control'
    BY <1>1, <1>2, <1>3, <2>1, <2>2, <2>3, <2>4 DEF SInv, Control, Modes
  <2> QED
    BY <1>1, <1>2, <2>5 DEF SInv, GInv, Flags, Frame
<1> QED
  BY <1>4, <1>5, <1>8, <1>9, <1>10

LEMMA CollectOneGood == SInv /\ CollectOne => SInv'
<1> SUFFICES ASSUME SInv, CollectOne PROVE SInv'
  OBVIOUS
<1> DEFINE p == Polled(Pumped(gui))
<1>1. Good(p.gui) /\ p.event \in AllEvents
  BY PumpedFacts, PolledFacts DEF SInv, GInv
<1> HIDE DEF p
<1>2. /\ mode = "collect" /\ Len(frame) < MaxFrame /\ gui' = p.gui /\ out' = p.event
      /\ frame' = Append(frame, p.event) /\ quit' = (quit \/ p.event.type = "QUIT")
      /\ UNCHANGED <<mode, valid, source, program, pc, touched, remaining, sent>>
  BY DEF CollectOne, unread, p
<1>3. Frame'
  <2>1. frame \in Seq(AllEvents) /\ Len(frame) \in Nat /\ MaxFrame \in Nat
    BY LenProperties, ScriptAssumption DEF SInv, Frame, ScriptAssumption
  <2>2. Append(frame, p.event) \in Seq(AllEvents) /\ Len(Append(frame, p.event)) = Len(frame) + 1
    BY <1>1, <2>1, AppendProperties
  <2> QED
    BY <1>2, <2>1, <2>2 DEF Frame
<1>4. Control'
  BY <1>2 DEF SInv, Control, Here
<1>5. quit' \in BOOLEAN
  BY <1>2
<1> QED
  BY <1>1, <1>2, <1>3, <1>4, <1>5 DEF SInv, GInv, Flags

LEMMA CollectEndGood == SInv /\ CollectEnd => SInv'
<1> SUFFICES ASSUME SInv, CollectEnd PROVE SInv'
  OBVIOUS
<1> DEFINE p == Polled(Pumped(gui))
<1>1. Good(p.gui) /\ p.event \in AllEvents
  BY PumpedFacts, PolledFacts DEF SInv, GInv
<1> HIDE DEF p
<1>2. /\ mode = "collect" /\ mode' = "handle" /\ valid' = TRUE
      /\ UNCHANGED <<quit, frame, source, program, pc, touched, remaining, sent>>
      /\ UNCHANGED <<gui, out>> \/ (gui' = p.gui /\ out' = p.event)
  BY DEF CollectEnd, unread, p
<1>3. Control'
  BY <1>2, Collects DEF SInv, Control
<1>4. GInv'
  BY <1>1, <1>2 DEF SInv, GInv
<1> QED
  BY <1>2, <1>3, <1>4 DEF SInv, Flags, Frame

(* The statement at pc has its events. *)
LEMMA HandleGood ==
  ASSUME SInv, HandlePump \/ HandleHandler \/ HandleLoopBegin
  PROVE  SInv'
<1>1. /\ mode = "handle" /\ Proceed
      /\ UNCHANGED <<quit, valid, source, program, remaining, frame, gui, sent, out>>
  BY DEF HandlePump, HandleHandler, HandleLoopBegin, after
<1>2. touched' \in BOOLEAN
  <2>1. touched \in BOOLEAN
    BY DEF SInv, Flags
  <2>2. CASE HandlePump
    BY <2>1, <2>2 DEF HandlePump
  <2>3. CASE HandleHandler
    BY <2>3 DEF HandleHandler
  <2>4. CASE HandleLoopBegin
    BY <2>4 DEF HandleLoopBegin
  <2> QED
    BY <2>2, <2>3, <2>4
<1>3. Control'
  BY <1>1, Proceeds DEF SInv, Control
<1> QED
  BY <1>1, <1>2, <1>3 DEF SInv, GInv, Flags, Frame

LEMMA HandleLoopGood == SInv /\ HandleLoop => SInv'
<1> SUFFICES ASSUME SInv, HandleLoop PROVE SInv'
  OBVIOUS
<1>1. /\ mode = "handle" /\ Here.op = "loop"
      /\ UNCHANGED <<source, program, touched, remaining, gui, sent, out>>
      /\ \/ quit' = TRUE /\ valid' = FALSE /\ Proceed /\ frame' = frame
         \/ quit' = quit /\ valid' = FALSE /\ Proceed /\ frame' = frame
         \/ mode' = "collect" /\ frame' = << >> /\ UNCHANGED <<pc, quit, valid>>
  BY DEF HandleLoop
<1>2. pc \in 1 .. Len(program)
  BY <1>1 DEF SInv, Control
<1>3. Control'
  <2>1. CASE Proceed
    BY <1>1, <1>2, <2>1, Proceeds
  <2>2. CASE mode' = "collect" /\ pc' = pc
    BY <1>1, <1>2, <2>2, Collects
  <2> QED
    BY <1>1, <2>1, <2>2
<1>4. Flags'
  BY <1>1 DEF SInv, Flags
<1>5. Frame'
  BY <1>1, EmptyFrame DEF SInv, Frame
<1> QED
  BY <1>1, <1>3, <1>4, <1>5 DEF SInv, GInv

(* The end of main. *)
LEMMA EndGood ==
  ASSUME SInv, AskForEnter \/ Exit \/ Enter
  PROVE  SInv'
<1>1. /\ mode' \in {"enter", "done"} /\ UNCHANGED rest
      /\ gui' = gui \/ gui' = ShutDown(gui)
  BY DEF AskForEnter, Exit, Enter
<1>2. Good(gui')
  BY <1>1, ShutDownGood DEF SInv, GInv
<1> QED
  BY <1>1, <1>2 DEF rest, SInv, GInv, Control, Modes, Flags, Frame

LEMMA SNextGood == SInv /\ [SNext]_svars => SInv'
<1> SUFFICES ASSUME SInv, [SNext]_svars PROVE SInv'
  OBVIOUS
<1>1. CASE Load \/ NoticeClosed
  BY <1>1, LoadGood, NoticeClosedGood
<1>2. CASE ExecWindow \/ ExecDraw \/ ExecPrint \/ ExecPump \/ ExecHandler
  BY <1>2, StatementGood, ExecPumpGood, ExecHandlerGood
<1>3. CASE ExecLoop \/ ExecLoopBegin \/ ExecLoopEnd
  BY <1>3, ExecLoopGood, ExecLoopBeginGood, ExecLoopEndGood
<1>4. CASE CollectOne \/ CollectEnd
  BY <1>4, CollectOneGood, CollectEndGood
<1>5. CASE HandlePump \/ HandleHandler \/ HandleLoopBegin \/ HandleLoop
  BY <1>5, HandleGood, HandleLoopGood
<1>6. CASE AskForEnter \/ Exit \/ Enter
  BY <1>6, EndGood
<1>7. CASE SUser
  <2>1. User /\ UNCHANGED <<source, program, mode, pc, quit, touched, remaining, frame, valid>>
    BY <1>7 DEF SUser, script
  <2>2. GInv'
    BY <2>1, InputGood DEF SInv
  <2> QED
    BY <2>1, <2>2 DEF SInv, Control, Here, Flags, Frame
<1>8. CASE UNCHANGED svars
  BY <1>8 DEF svars, gvars, SInv, GInv, Control, Here, Flags, Frame
<1> QED
  BY <1>1, <1>2, <1>3, <1>4, <1>5, <1>6, <1>7, <1>8 DEF SNext, Engine, Stopped

(***************************************************************************)
(* Whatever the script and the user: the program and its frame of events   *)
(* stay within their limits, and a loop's counter is set exactly while the *)
(* engine is inside that loop, so that a loop entered again counts from    *)
(* its beginning (parse_script_file, execute_program).                     *)
(***************************************************************************)
THEOREM LoopsCountRight == SSpec => []CountersRight
<1>1. SInit => SInv
  BY SInitGood
<1>2. SInv /\ [SNext]_svars => SInv'
  BY SNextGood
<1>3. SInv => CountersRight
  BY SInvImplies
<1> QED
  BY <1>1, <1>2, <1>3, PTL DEF SSpec

-----------------------------------------------------------------------------
(* What the statements have reacted to.                                    *)

Reactions == Seq(Nat \X Nat)

Entries(past) == {past[i] : i \in DOMAIN past}

Once(past) ==
  \A i, j \in DOMAIN past : i < j /\ past[i][1] = past[j][1] => past[i][2] < past[j][2]

(* The statements drawn as op. *)
Of(op) == {j \in 1 .. Len(program) : program[j].op = op}

LEMMA EntryType ==
  ASSUME NEW past \in Reactions
  PROVE  \A h \in Entries(past) : h[1] \in Nat /\ h[2] \in Nat
<1>1. \A i \in DOMAIN past : past[i] \in Nat \X Nat
  BY DEF Reactions
<1> QED
  BY <1>1 DEF Entries

LEMMA AppendOnce ==
  ASSUME NEW past \in Reactions, Once(past), NEW k \in Nat, NEW x \in Nat,
         \A h \in Entries(past) : h[1] = k => h[2] < x
  PROVE  LET now == Append(past, <<k, x>>)
         IN  now \in Reactions /\ Once(now) /\ Entries(now) = Entries(past) \cup {<<k, x>>}
<1> DEFINE now == Append(past, <<k, x>>)
           n == Len(past)
<1>1. past \in Seq(Nat \X Nat) /\ <<k, x>> \in Nat \X Nat
  BY DEF Reactions
<1>2. /\ now \in Seq(Nat \X Nat) /\ n \in Nat /\ DOMAIN past = 1 .. n /\ DOMAIN now = 1 .. n + 1
      /\ now[n + 1] = <<k, x>> /\ \A i \in 1 .. n : now[i] = past[i]
  BY <1>1, AppendProperties
<1> HIDE DEF now, n
<1>3. Entries(now) = Entries(past) \cup {<<k, x>>}
  <2>1. 1 .. n + 1 = 1 .. n \cup {n + 1}
    BY <1>2
  <2> QED
    BY <1>2, <2>1 DEF Entries
<1>4. Once(now)
  <2> SUFFICES ASSUME NEW i \in 1 .. n + 1, NEW j \in 1 .. n + 1, i < j, now[i][1] = now[j][1]
               PROVE  now[i][2] < now[j][2]
    BY <1>2 DEF Once
  <2>1. i \in 1 .. n /\ now[i] = past[i]
    <3>1. n \in Nat
      BY <1>2
    <3>2. i \in 1 .. n
      BY <3>1
    <3> QED
      BY <1>2, <3>2
  <2>2. CASE j = n + 1
    <3>1. past[i] \in Entries(past)
      BY <1>2, <2>1 DEF Entries
    <3>2. now[j][1] = k /\ now[j][2] = x
      BY <1>2, <2>2
    <3> QED
      BY <2>1, <3>1, <3>2
  <2>3. CASE j # n + 1
    <3>1. j \in 1 .. n /\ now[j] = past[j]
      <4>1. n \in Nat
        BY <1>2
      <4>2. j \in 1 .. n
        BY <2>3, <4>1
      <4> QED
        BY <1>2, <4>2
    <3> QED
      BY <1>2, <2>1, <3>1 DEF Once
  <2> QED
    BY <2>2, <2>3
<1> QED
  BY <1>2, <1>3, <1>4 DEF now, Reactions

LEMMA ReactedType ==
  ASSUME NEW past \in Reactions, NEW e \in AllEvents, pc \in Nat
  PROVE  Reacted(past, e) \in Reactions
<1>1. <<pc, e.id>> \in Nat \X Nat
  BY GuiAssumption DEF GuiAssumption, AllEvents
<1>2. past \in Seq(Nat \X Nat)
  BY DEF Reactions
<1>3. Append(past, <<pc, e.id>>) \in Seq(Nat \X Nat)
  BY <1>1, <1>2, AppendProperties
<1> QED
  BY <1>3 DEF Reacted, Reactions

LEMMA AllReacted ==
  ASSUME NEW past \in Reactions, frame \in Seq(AllEvents), pc \in Nat
  PROVE  \E reached \in [0 .. Len(frame) -> Reactions] :
            /\ reached[0] = past
            /\ \A i \in 1 .. Len(frame) : reached[i] = Reacted(reached[i - 1], frame[i])
            /\ Handled(past) = reached[Len(frame)]
<1> DEFINE n == Len(frame)
           F == [p \in Reactions \X (1 .. n) |-> Reacted(p[1], frame[p[2]])]
           Recursive(f) == f = [i \in 0 .. n |->
                                  IF i = 0 THEN past
                                  ELSE Bind(f[i - 1], LAMBDA a : Reacted(a, frame[i]))]
           reached == CHOOSE f : Recursive(f)
<1>1. n \in Nat /\ \A i \in 1 .. n : i - 1 \in 0 .. n /\ frame[i] \in AllEvents
  OBVIOUS
<1>2. F \in [Reactions \X (1 .. n) -> Reactions]
  BY <1>1, ReactedType
<1>3. PICK g \in Results(n, Reactions, past, F) : TRUE
  <2> HIDE DEF F, n
  <2> QED
    BY <1>1, <1>2, Recursion
<1>4. /\ g \in [0 .. n -> Reactions] /\ g[0] = past
      /\ \A i \in 1 .. n : g[i] = Reacted(g[i - 1], frame[i])
  BY <1>1, <1>3 DEF Results
<1>5. Recursive(g)
  BY <1>1, <1>4 DEF Bind
<1>6. Recursive(reached)
  BY <1>5, Zenon
<1> HIDE DEF reached
<1>7. reached[0] = past /\ \A i \in 1 .. n : reached[i] = Reacted(reached[i - 1], frame[i])
  BY <1>1, <1>6 DEF Bind
<1> DEFINE P == {i \in 0 .. n : reached[i] \in Reactions}
<1>8. \A i \in 0 .. n : i \in P
  <2>1. 0 \in P /\ \A i \in 1 .. n : i - 1 \in P => i \in P
    BY <1>1, <1>7, ReactedType
  <2> HIDE DEF P, n
  <2> QED
    BY <1>1, <2>1, Induction
<1>9. reached \in [0 .. n -> Reactions]
  BY <1>6, <1>8
<1>10. Handled(past) = reached[n]
  BY DEF Handled, Fold, reached
<1> QED
  BY <1>7, <1>9, <1>10

(* A statement that had reacted to nothing of the frame reacts in its order. *)
LEMMA ReactedOnce ==
  ASSUME NEW past \in Reactions, Once(past), frame \in Seq(AllEvents), Ascending(frame), pc \in Nat,
         \A h \in Entries(past) : h[1] = pc => \A x \in Ids(frame) : h[2] < x
  PROVE  /\ Handled(past) \in Reactions /\ Once(Handled(past))
         /\ \A h \in Entries(Handled(past)) \ Entries(past) : h[1] = pc /\ h[2] \in Ids(frame)
<1> DEFINE n == Len(frame)
           Seen(i) == {<<pc, frame[k].id>> : k \in 1 .. i}
<1>1. /\ n \in Nat /\ DOMAIN frame = 1 .. n
      /\ \A i \in 1 .. n : i - 1 \in 0 .. n /\ frame[i] \in AllEvents /\ frame[i].id \in Nat
                           /\ frame[i].id \in Ids(frame)
  <2>1. n \in Nat /\ DOMAIN frame = 1 .. n /\ \A i \in 1 .. n : frame[i] \in AllEvents
    OBVIOUS
  <2>2. \A e \in AllEvents : e.id \in Nat
    BY GuiAssumption DEF GuiAssumption, AllEvents
  <2>3. \A i \in 1 .. n : frame[i].id \in Ids(frame)
    BY <2>1 DEF Ids
  <2> HIDE DEF n
  <2>4. \A i \in 1 .. n : i - 1 \in 0 .. n
    BY <2>1
  <2> QED
    BY <2>1, <2>2, <2>3, <2>4
<1>2. PICK reached \in [0 .. n -> Reactions] :
        /\ reached[0] = past
        /\ \A i \in 1 .. n : reached[i] = Reacted(reached[i - 1], frame[i])
        /\ Handled(past) = reached[n]
  BY AllReacted
<1> DEFINE P == {i \in 0 .. n : Once(reached[i])
                                /\ Entries(reached[i]) \subseteq Entries(past) \cup Seen(i)}
<1>3. 0 \in P
  BY <1>1, <1>2
<1>4. ASSUME NEW i \in 1 .. n, i - 1 \in P
      PROVE  i \in P
  <2> DEFINE r == reached[i - 1]
             x == frame[i].id
  <2>1. /\ r \in Reactions /\ Once(r) /\ Entries(r) \subseteq Entries(past) \cup Seen(i - 1)
        /\ reached[i] = Reacted(r, frame[i]) /\ x \in Nat
    BY <1>1, <1>2, <1>4
  <2> HIDE DEF r
  <2>2. \A h \in Entries(r) : h[1] = pc => h[2] < x
    <3>1. \A k \in 1 .. i - 1 : frame[k].id < x
      <4> SUFFICES ASSUME NEW k \in 1 .. i - 1 PROVE frame[k].id < x
        OBVIOUS
      <4> HIDE DEF n
      <4>1. k \in DOMAIN frame /\ i \in DOMAIN frame /\ k < i
        BY <1>1
      <4> QED
        BY <4>1 DEF Ascending
    <3>2. \A h \in Seen(i - 1) : h[2] < x
      BY <3>1
    <3>3. \A h \in Entries(past) : h[1] = pc => h[2] < x
      BY <1>1
    <3> HIDE DEF Seen, x
    <3> QED
      BY <2>1, <3>2, <3>3
  <2>3. Seen(i) = Seen(i - 1) \cup {<<pc, x>>}
    <3>1. 1 .. i = 1 .. i - 1 \cup {i}
      BY <1>1
    <3> QED
      BY <3>1
  <2> HIDE DEF Seen, x
  <2>4. CASE frame[i].type = Reacts(Here.op)
    <3>1. reached[i] = Append(r, <<pc, x>>)
      BY <2>1, <2>4 DEF Reacted, x
    <3>2. Once(reached[i]) /\ Entries(reached[i]) = Entries(r) \cup {<<pc, x>>}
      BY <2>1, <2>2, <3>1, AppendOnce
    <3> QED
      BY <2>1, <2>3, <3>2
  <2>5. CASE frame[i].type # Reacts(Here.op)
    BY <2>1, <2>3, <2>5 DEF Reacted
  <2> QED
    BY <2>4, <2>5
<1> HIDE DEF P
<1>5. n \in P
  <2>1. \A i \in 1 .. n : i - 1 \in P => i \in P
    BY <1>4
  <2> HIDE DEF n
  <2>2. \A i \in 0 .. n : i \in P
    BY <1>1, <1>3, <2>1, Induction
  <2> QED
    BY <1>1, <2>2
<1>6. Once(reached[n]) /\ Entries(reached[n]) \subseteq Entries(past) \cup Seen(n)
  BY <1>5 DEF P
<1>7. \A h \in Seen(n) : h[1] = pc /\ h[2] \in Ids(frame)
  BY <1>1
<1> HIDE DEF Seen
<1> QED
  BY <1>1, <1>2, <1>6, <1>7

-----------------------------------------------------------------------------
LEMMA HitType ==
  ASSUME NEW past \in Reactions, NEW e \in AllEvents, NEW j \in Nat, NEW op
  PROVE  Hit(past, e, j, op) \in Reactions
<1>1. <<j, e.id>> \in Nat \X Nat
  BY GuiAssumption DEF GuiAssumption, AllEvents
<1>2. past \in Seq(Nat \X Nat)
  BY DEF Reactions
<1>3. Append(past, <<j, e.id>>) \in Seq(Nat \X Nat)
  BY <1>1, <1>2, AppendProperties
<1> QED
  BY <1>3 DEF Hit, Reactions

LEMMA AllHit ==
  ASSUME NEW past \in Reactions, NEW e \in AllEvents, NEW op,
         program \in Seq(Instructions)
  PROVE  \E reached \in [0 .. Len(program) -> Reactions] :
            /\ reached[0] = past
            /\ \A i \in 1 .. Len(program) : reached[i] = Hit(reached[i - 1], e, i, op)
            /\ HitsOf(past, e, op) = reached[Len(program)]
<1> DEFINE seq == [j \in DOMAIN program |-> j]
           n == Len(seq)
           F == [p \in Reactions \X (1 .. n) |-> Hit(p[1], e, seq[p[2]], op)]
           Recursive(f) == f = [i \in 0 .. n |->
                                  IF i = 0 THEN past
                                  ELSE Bind(f[i - 1], LAMBDA a : Hit(a, e, seq[i], op))]
           reached == CHOOSE f : Recursive(f)
<1>1. /\ Len(program) \in Nat /\ DOMAIN program = 1 .. Len(program)
      /\ n = Len(program)
  BY LenProperties
<1>2. /\ n \in Nat
      /\ \A i \in 1 .. n : i - 1 \in 0 .. n /\ seq[i] = i /\ seq[i] \in Nat
  <2>1. \A i \in 1 .. n : seq[i] = i
    BY <1>1
  <2> HIDE DEF n, seq
  <2> QED
    BY <1>1, <2>1
<1> HIDE DEF seq
<1>3. F \in [Reactions \X (1 .. n) -> Reactions]
  BY <1>2, HitType
<1>4. PICK g \in Results(n, Reactions, past, F) : TRUE
  <2> HIDE DEF F, n
  <2> QED
    BY <1>2, <1>3, Recursion
<1>5. /\ g \in [0 .. n -> Reactions] /\ g[0] = past
      /\ \A i \in 1 .. n : g[i] = Hit(g[i - 1], e, seq[i], op)
  BY <1>2, <1>4 DEF Results
<1>6. Recursive(g)
  BY <1>2, <1>5 DEF Bind
<1>7. Recursive(reached)
  BY <1>6, Zenon
<1> HIDE DEF reached
<1>8. reached[0] = past /\ \A i \in 1 .. n : reached[i] = Hit(reached[i - 1], e, seq[i], op)
  BY <1>2, <1>7 DEF Bind
<1> DEFINE P == {i \in 0 .. n : reached[i] \in Reactions}
<1>9. \A i \in 0 .. n : i \in P
  <2>1. 0 \in P /\ \A i \in 1 .. n : i - 1 \in P => i \in P
    BY <1>2, <1>8, HitType
  <2> HIDE DEF P, n
  <2> QED
    BY <1>2, <2>1, Induction
<1>10. reached \in [0 .. n -> Reactions]
  BY <1>7, <1>9
<1>11. HitsOf(past, e, op) = reached[n]
  BY DEF HitsOf, Fold, reached, seq
<1>12. \A i \in 1 .. n : reached[i] = Hit(reached[i - 1], e, i, op)
  BY <1>2, <1>8
<1> HIDE DEF n
<1> QED
  BY <1>1, <1>8, <1>10, <1>11, <1>12

(* Widgets that were clicked by nothing as late as e are clicked once. *)
LEMMA HitsOfOnce ==
  ASSUME NEW past \in Reactions, Once(past), NEW e \in AllEvents, NEW op,
         program \in Seq(Instructions),
         \A h \in Entries(past) : h[1] \in Of(op) => h[2] < e.id
  PROVE  /\ HitsOf(past, e, op) \in Reactions /\ Once(HitsOf(past, e, op))
         /\ \A h \in Entries(HitsOf(past, e, op)) \ Entries(past) : h[1] \in Of(op) /\ h[2] = e.id
<1> DEFINE n == Len(program)
           New(i) == {h \in Of(op) \X {e.id} : h[1] <= i}
<1>1. n \in Nat /\ e.id \in Nat
  BY GuiAssumption, LenProperties DEF GuiAssumption, AllEvents
<1>2. PICK reached \in [0 .. n -> Reactions] :
        /\ reached[0] = past
        /\ \A i \in 1 .. n : reached[i] = Hit(reached[i - 1], e, i, op)
        /\ HitsOf(past, e, op) = reached[n]
  BY AllHit
<1> HIDE DEF n
<1> DEFINE P == {i \in 0 .. n : Once(reached[i])
                                /\ Entries(reached[i]) \subseteq Entries(past) \cup New(i)}
<1>3. 0 \in P
  BY <1>1, <1>2
<1>4. ASSUME NEW i \in 1 .. n, i - 1 \in P
      PROVE  i \in P
  <2> DEFINE r == reached[i - 1]
  <2>1. i - 1 \in 0 .. n /\ i \in Nat
    BY <1>1
  <2>2. /\ r \in Reactions /\ Once(r) /\ Entries(r) \subseteq Entries(past) \cup New(i - 1)
        /\ reached[i] = Hit(r, e, i, op)
    BY <1>2, <1>4, <2>1
  <2> HIDE DEF r
  <2>3. \A j \in Of(op) : j \in Nat
    BY DEF Of
  <2>4. New(i - 1) \subseteq New(i) /\ \A h \in New(i - 1) : h[1] < i
    BY <2>1, <2>3
  <2>5. CASE e.type = "MOUSE_DOWN" /\ program[i].op = op /\ program[i].place = e.at
    <3>1. reached[i] = Append(r, <<i, e.id>>)
      BY <2>2, <2>5 DEF Hit
    <3>2. i \in Of(op)
      BY <2>5 DEF Of, n
    <3>3. <<i, e.id>> \in New(i)
      BY <2>1, <3>2
    <3>4. \A h \in Entries(r) : h[1] = i => h[2] < e.id
      <4>1. \A h \in New(i - 1) : h[1] # i
        BY <2>1, <2>3, <2>4
      <4> HIDE DEF New
      <4> QED
        BY <2>2, <3>2, <4>1
    <3> HIDE DEF New
    <3> DEFINE x == e.id
    <3>6. r \in Reactions /\ Once(r) /\ i \in Nat /\ x \in Nat
      BY <1>1, <2>1, <2>2
    <3>7. \A h \in Entries(r) : h[1] = i => h[2] < x
      BY <3>4
    <3> HIDE DEF x
    <3>8. /\ Once(Append(r, <<i, x>>))
          /\ Entries(Append(r, <<i, x>>)) = Entries(r) \cup {<<i, x>>}
      BY <3>6, <3>7, AppendOnce
    <3>5. Once(reached[i]) /\ Entries(reached[i]) = Entries(r) \cup {<<i, e.id>>}
      BY <3>1, <3>8 DEF x
    <3> QED
      BY <2>1, <2>2, <2>4, <3>3, <3>5
  <2>6. CASE ~(e.type = "MOUSE_DOWN" /\ program[i].op = op /\ program[i].place = e.at)
    <3>1. reached[i] = r
      BY <2>2, <2>6 DEF Hit
    <3> HIDE DEF New
    <3> QED
      BY <2>2, <2>4, <3>1
  <2> QED
    BY <2>5, <2>6
<1> HIDE DEF P
<1>5. n \in P
  <2>1. \A i \in 1 .. n : i - 1 \in P => i \in P
    BY <1>4
  <2>2. \A i \in 0 .. n : i \in P
    BY <1>1, <1>3, <2>1, Induction
  <2> QED
    BY <1>1, <2>2
<1>6. Once(reached[n]) /\ Entries(reached[n]) \subseteq Entries(past) \cup New(n)
  BY <1>5 DEF P
<1>7. \A h \in New(n) : h[1] \in Of(op) /\ h[2] = e.id
  OBVIOUS
<1> HIDE DEF New
<1> QED
  BY <1>1, <1>2, <1>6, <1>7

(* What is there after each event of the frame. *)
HitsReached(past, op) ==
  {reached \in [0 .. Len(frame) -> Reactions] :
     /\ reached[0] = past
     /\ \A i \in 1 .. Len(frame) : reached[i] = HitsOf(reached[i - 1], frame[i], op)
     /\ Hits(past, op) = reached[Len(frame)]}

LEMMA AllHits ==
  ASSUME NEW past \in Reactions, NEW op, program \in Seq(Instructions), frame \in Seq(AllEvents)
  PROVE  HitsReached(past, op) # {}
<1> DEFINE n == Len(frame)
           F == [p \in Reactions \X (1 .. n) |-> HitsOf(p[1], frame[p[2]], op)]
           Recursive(f) == f = [i \in 0 .. n |->
                                  IF i = 0 THEN past
                                  ELSE Bind(f[i - 1], LAMBDA a : HitsOf(a, frame[i], op))]
           reached == CHOOSE f : Recursive(f)
<1>1. n \in Nat /\ \A i \in 1 .. n : i - 1 \in 0 .. n /\ frame[i] \in AllEvents
  OBVIOUS
<1>2. ASSUME NEW past2 \in Reactions, NEW e \in AllEvents
      PROVE  HitsOf(past2, e, op) \in Reactions
  <2>1. PICK reached2 \in [0 .. Len(program) -> Reactions] :
          HitsOf(past2, e, op) = reached2[Len(program)]
    BY AllHit
  <2>2. Len(program) \in Nat
    BY LenProperties
  <2> QED
    BY <2>1, <2>2
<1>3. F \in [Reactions \X (1 .. n) -> Reactions]
  BY <1>1, <1>2
<1>4. PICK g \in Results(n, Reactions, past, F) : TRUE
  <2> HIDE DEF F, n
  <2> QED
    BY <1>1, <1>3, Recursion
<1>5. /\ g \in [0 .. n -> Reactions] /\ g[0] = past
      /\ \A i \in 1 .. n : g[i] = HitsOf(g[i - 1], frame[i], op)
  BY <1>1, <1>4 DEF Results
<1>6. Recursive(g)
  BY <1>1, <1>5 DEF Bind
<1>7. Recursive(reached)
  BY <1>6, Zenon
<1> HIDE DEF reached
<1>8. reached[0] = past /\ \A i \in 1 .. n : reached[i] = HitsOf(reached[i - 1], frame[i], op)
  BY <1>1, <1>7 DEF Bind
<1> DEFINE P == {i \in 0 .. n : reached[i] \in Reactions}
<1>9. \A i \in 0 .. n : i \in P
  <2>1. 0 \in P /\ \A i \in 1 .. n : i - 1 \in P => i \in P
    BY <1>1, <1>2, <1>8
  <2> HIDE DEF P, n
  <2> QED
    BY <1>1, <2>1, Induction
<1>10. reached \in [0 .. n -> Reactions]
  BY <1>7, <1>9
<1>11. Hits(past, op) = reached[n]
  BY DEF Hits, Fold, reached
<1>12. reached \in HitsReached(past, op)
  BY <1>8, <1>10, <1>11 DEF HitsReached
<1> QED
  BY <1>12

(* And so for all the events of a frame. *)
LEMMA HitsOnce ==
  ASSUME NEW past \in Reactions, Once(past), NEW op, program \in Seq(Instructions),
         frame \in Seq(AllEvents), Ascending(frame),
         \A h \in Entries(past) : h[1] \in Of(op) => \A x \in Ids(frame) : h[2] < x
  PROVE  /\ Hits(past, op) \in Reactions /\ Once(Hits(past, op))
         /\ \A h \in Entries(Hits(past, op)) \ Entries(past) :
              h[1] \in Of(op) /\ h[2] \in Ids(frame)
<1> DEFINE n == Len(frame)
           New(i) == {h \in Of(op) \X Ids(frame) : \E k \in 1 .. i : h[2] = frame[k].id}
<1>1. /\ n \in Nat /\ DOMAIN frame = 1 .. n
      /\ \A i \in 1 .. n : frame[i] \in AllEvents /\ frame[i].id \in Nat
                           /\ frame[i].id \in Ids(frame)
  <2>1. n \in Nat /\ DOMAIN frame = 1 .. n /\ \A i \in 1 .. n : frame[i] \in AllEvents
    OBVIOUS
  <2>2. \A e \in AllEvents : e.id \in Nat
    BY GuiAssumption DEF GuiAssumption, AllEvents
  <2>3. \A i \in 1 .. n : frame[i].id \in Ids(frame)
    BY <2>1 DEF Ids
  <2> QED
    BY <2>1, <2>2, <2>3
<1>2. PICK reached \in HitsReached(past, op) : TRUE
  BY AllHits
<1>3. /\ reached \in [0 .. n -> Reactions] /\ reached[0] = past
      /\ \A i \in 1 .. n : reached[i] = HitsOf(reached[i - 1], frame[i], op)
      /\ Hits(past, op) = reached[n]
  BY <1>2 DEF HitsReached
<1> HIDE DEF n
<1> DEFINE P == {i \in 0 .. n : Once(reached[i])
                                /\ Entries(reached[i]) \subseteq Entries(past) \cup New(i)}
<1>4. 0 \in P
  <2>1. 0 \in 0 .. n
    BY <1>1
  <2>2. reached[0] = past
    BY <1>3
  <2> HIDE DEF New
  <2> QED
    BY <2>1, <2>2
<1>5. ASSUME NEW i \in 1 .. n, i - 1 \in P
      PROVE  i \in P
  <2> DEFINE r == reached[i - 1]
             e == frame[i]
  <2>1. i - 1 \in 0 .. n /\ e \in AllEvents /\ e.id \in Nat /\ e.id \in Ids(frame)
    <3>1. i - 1 \in 0 .. n
      BY <1>1
    <3>2. e \in AllEvents /\ e.id \in Nat /\ e.id \in Ids(frame)
      BY <1>1
    <3> QED
      BY <3>1, <3>2
  <2>2. /\ r \in Reactions /\ Once(r) /\ Entries(r) \subseteq Entries(past) \cup New(i - 1)
        /\ reached[i] = HitsOf(r, e, op)
    BY <1>3, <1>5, <2>1
  <2> HIDE DEF r
  <2>3. \A h \in New(i - 1) : h[2] < e.id
    <3>2. \A k \in 1 .. i - 1 : frame[k].id < e.id
      <4> TAKE k \in 1 .. i - 1
      <4>1. k \in DOMAIN frame /\ i \in DOMAIN frame /\ k < i
        BY <1>1
      <4> QED
        BY <4>1 DEF Ascending
    <3> QED
      BY <3>2
  <2>4. New(i - 1) \subseteq New(i) /\ \A j \in Of(op) : <<j, e.id>> \in New(i)
    <3>1. \A k \in 1 .. i - 1 : k \in 1 .. i
      BY <1>1
    <3>2. i \in 1 .. i
      BY <1>1
    <3> QED
      BY <2>1, <3>1, <3>2
  <2>5. \A h \in New(i) : h = <<h[1], h[2]>> 
    OBVIOUS
  <2> HIDE DEF New, e
  <2>6. \A h \in Entries(r) : h[1] \in Of(op) => h[2] < e.id
    BY <2>1, <2>2, <2>3
  <2>7. /\ HitsOf(r, e, op) \in Reactions /\ Once(HitsOf(r, e, op))
        /\ \A h \in Entries(HitsOf(r, e, op)) \ Entries(r) : h[1] \in Of(op) /\ h[2] = e.id
    BY <2>1, <2>2, <2>6, HitsOfOnce
  <2>8. \A h \in Entries(HitsOf(r, e, op)) \ Entries(r) : h \in New(i)
    <3> TAKE h \in Entries(HitsOf(r, e, op)) \ Entries(r)
    <3>1. h = <<h[1], h[2]>>
      <4>1. \A k \in DOMAIN HitsOf(r, e, op) : HitsOf(r, e, op)[k] \in Nat \X Nat
        BY <2>7 DEF Reactions
      <4>2. h \in Nat \X Nat
        BY <4>1 DEF Entries
      <4> QED
        BY <4>2
    <3> QED
      BY <2>4, <2>7, <3>1
  <2> QED
    BY <2>2, <2>4, <2>7, <2>8
<1> HIDE DEF P
<1>6. n \in P
  <2>1. \A i \in 1 .. n : i - 1 \in P => i \in P
    BY <1>5
  <2>2. \A i \in 0 .. n : i \in P
    BY <1>1, <1>4, <2>1, Induction
  <2> QED
    BY <1>1, <2>2
<1>7. Once(reached[n]) /\ Entries(reached[n]) \subseteq Entries(past) \cup New(n)
  BY <1>6 DEF P
<1>8. \A h \in New(n) : h[1] \in Of(op) /\ h[2] \in Ids(frame)
  OBVIOUS
<1> HIDE DEF New
<1> QED
  BY <1>1, <1>3, <1>7, <1>8

-----------------------------------------------------------------------------
(* What was handled lies before what waits; during a collection and its    *)
(* handling, before the whole frame; and a handler that shares the frame   *)
(* of an earlier statement has not reacted to it yet.                      *)
Handlers == {"on_click", "on_key", "on_move"}

Behind(x) == x <= sent /\ \A y \in Waiting(gui) : x < y

History ==
  /\ acts \in Reactions /\ Once(acts)
  /\ mode = "load" => acts = << >>
  /\ \A h \in Entries(acts) : Behind(h[2])
  /\ Ascending(frame)
  /\ \A x \in Ids(frame) : Behind(x)
  /\ mode \in {"collect", "handle"} => \A h \in Entries(acts), x \in Ids(frame) : h[2] < x
  /\ mode = "fetch" /\ valid =>
       \A h \in Entries(acts) :
         h[1] >= pc /\ program[h[1]].op \in Handlers => \A x \in Ids(frame) : h[2] < x

HInv == SInv /\ Ordered(gui, out.id, sent) /\ History

LEMMA HInvOrder == HInv => OInv
BY DEF HInv, SInv, OInv

LEMMA HInvTypes ==
  ASSUME HInv
  PROVE  /\ out.id \in Nat /\ sent \in Nat /\ Good(gui) /\ Waiting(gui) \subseteq 0 .. sent
         /\ program \in Seq(Instructions) /\ DOMAIN program = 1 .. Len(program)
         /\ frame \in Seq(AllEvents) /\ Ids(frame) \subseteq Nat /\ pc \in Nat
<1>1. out.id \in Nat /\ sent \in Nat /\ Good(gui)
  BY HInvOrder, OInvTypes
<1>2. Waiting(gui) \subseteq 0 .. sent
  BY <1>1, WaitingIs DEF HInv
<1>3. program \in Seq(Instructions) /\ DOMAIN program = 1 .. Len(program) /\ pc \in Nat
  BY DEF HInv, SInv, Control, Nested
<1>4. frame \in Seq(AllEvents)
  BY DEF HInv, SInv, Frame
<1>5. \A e \in AllEvents : e.id \in Nat
  BY GuiAssumption DEF GuiAssumption, AllEvents
<1>6. Ids(frame) \subseteq Nat
  BY <1>4, <1>5 DEF Ids
<1> QED
  BY <1>1, <1>2, <1>3, <1>4, <1>6

(* A step that lets nothing new wait leaves what was behind behind. *)
LEMMA StaysBehind ==
  ASSUME sent' = sent, Waiting(gui') \subseteq Waiting(gui), NEW x, Behind(x)
  PROVE  Behind(x)'
BY DEF Behind

LEMMA SweptWaiting ==
  ASSUME HInv, NEW h, Good(h), Sweeps(gui, h)
  PROVE  Ordered(h, out.id, sent) /\ Waiting(h) \subseteq Waiting(gui)
<1>1. out.id \in Nat /\ sent \in Nat /\ Good(gui) /\ Ordered(gui, out.id, sent)
  BY HInvTypes DEF HInv
<1>2. Ordered(h, out.id, sent)
  BY <1>1, SweptOrdered
<1>3. /\ Waiting(gui) = Ids(Contents(gui.events)) \cup AllInputs(gui.pending)
      /\ Waiting(h) = Ids(Contents(h.events)) \cup AllInputs(h.pending)
  BY <1>1, <1>2, WaitingIs
<1>4. Ids(Contents(h.events)) \subseteq Ids(Contents(gui.events))
  BY DEF Sweeps, Ids
<1>5. AllInputs(h.pending) = AllInputs(gui.pending)
  <2>1. gui.pending \in Seq(Arrivals) /\ InOrder(gui.pending)
    BY <1>1, WaitsTypes DEF Ordered
  <2>2. CASE h.pending = gui.pending
    BY <2>2
  <2>3. CASE h.pending # gui.pending
    <3>1. PICK a \in Arrivals : a.type = "DESTROY" /\ h.pending = Append(gui.pending, a)
      BY <2>3 DEF Sweeps
    <3> QED
      BY <2>1, <3>1, AppendArrival
  <2> QED
    BY <2>2, <2>3
<1> QED
  BY <1>2, <1>3, <1>4, <1>5

(* A statement that reacts to nothing, of which the user does nothing. *)
LEMMA QuietStep ==
  ASSUME HInv, UNCHANGED <<acts, frame, sent>>, Waiting(gui') \subseteq Waiting(gui),
         mode' = "load" => acts = << >>,
         mode' \in {"collect", "handle"} => \A h \in Entries(acts), x \in Ids(frame) : h[2] < x,
         mode' = "fetch" /\ valid' =>
           \A h \in Entries(acts) :
             h[1] >= pc' /\ program'[h[1]].op \in Handlers => \A x \in Ids(frame) : h[2] < x
  PROVE  History'
BY StaysBehind DEF HInv, History

(* The frame is emptied. *)
LEMMA StartsCollecting ==
  ASSUME HInv, acts' = acts \/ (acts' \in Reactions /\ Once(acts')), UNCHANGED <<sent, gui>>,
         frame' = << >>, mode' = "collect",
         \A h \in Entries(acts') : Behind(h[2])
  PROVE  History'
<1>1. Ids(frame') = {} /\ Ascending(frame')
  BY DEF Ids, Ascending
<1>2. \A h \in Entries(acts') : Behind(h[2])'
  BY StaysBehind
<1> QED
  BY <1>1, <1>2 DEF HInv, History

(* The handler at pc reacts to the frame, and is left. *)
LEMMA HandlerReacts ==
  ASSUME HInv, acts' = Handled(acts), UNCHANGED <<frame, sent, gui, program>>, Proceed,
         pc \in 1 .. Len(program), Here.op \in Handlers,
         \A h \in Entries(acts) :
           h[1] >= pc /\ program[h[1]].op \in Handlers => \A x \in Ids(frame) : h[2] < x
  PROVE  History'
<1>1. acts \in Reactions /\ Once(acts) /\ Ascending(frame)
  BY DEF HInv, History
<1>2. frame \in Seq(AllEvents) /\ pc \in Nat
  BY HInvTypes
<1>3. \A h \in Entries(acts) : h[1] = pc => \A x \in Ids(frame) : h[2] < x
  BY <1>2 DEF Here
<1>4. /\ acts' \in Reactions /\ Once(acts')
      /\ \A h \in Entries(acts') \ Entries(acts) : h[1] = pc /\ h[2] \in Ids(frame)
  BY <1>1, <1>2, <1>3, ReactedOnce
<1>5. \A h \in Entries(acts') : Behind(h[2])
  BY <1>4 DEF HInv, History
<1>6. pc' = pc + 1 /\ mode' = "fetch"
  BY DEF Proceed
<1>7. \A h \in Entries(acts') :
        h[1] >= pc' /\ program'[h[1]].op \in Handlers => \A x \in Ids(frame) : h[2] < x
  <2> TAKE h \in Entries(acts')
  <2>1. h[1] \in Nat
    BY <1>4, EntryType
  <2>2. CASE h \in Entries(acts)
    BY <1>2, <1>6, <2>1, <2>2
  <2>3. CASE h \notin Entries(acts)
    BY <1>2, <1>4, <1>6, <2>3
  <2> QED
    BY <2>2, <2>3
<1>8. (\A h \in Entries(acts') : Behind(h[2])') /\ (\A x \in Ids(frame) : Behind(x)')
  BY <1>5, StaysBehind DEF HInv, History
<1> QED
  BY <1>1, <1>4, <1>6, <1>7, <1>8 DEF History

(* More than acts: clicks of this frame on widgets of the kinds W. *)
Grown(past, W) ==
  /\ past \in Reactions /\ Once(past)
  /\ \A h \in Entries(past) \ Entries(acts) : program[h[1]].op \in W /\ h[2] \in Ids(frame)

LEMMA HitsGrow ==
  ASSUME HInv, mode = "handle", NEW past, NEW W, Grown(past, W), NEW op, op \notin W
  PROVE  Grown(Hits(past, op), W \cup {op})
<1>1. past \in Reactions /\ Once(past) /\ Ascending(frame)
  BY DEF HInv, History, Grown
<1>2. frame \in Seq(AllEvents) /\ program \in Seq(Instructions)
  BY HInvTypes
<1>3. \A h \in Entries(past) : h[1] \in Of(op) => \A x \in Ids(frame) : h[2] < x
  BY DEF HInv, History, Grown, Of
<1>4. /\ Hits(past, op) \in Reactions /\ Once(Hits(past, op))
      /\ \A h \in Entries(Hits(past, op)) \ Entries(past) :
           h[1] \in Of(op) /\ h[2] \in Ids(frame)
  BY <1>1, <1>2, <1>3, HitsOnce
<1> QED
  BY <1>4 DEF Grown, Of

LEMMA ActsGrow ==
  ASSUME HInv, mode = "handle", HandleLoopBegin \/ HandleLoop
  PROVE  Grown(acts', Widgets)
<1>1. Grown(acts, {})
  BY DEF HInv, History, Grown
<1> DEFINE media == Hits(acts, "media")
<1>2. Grown(media, {"media"})
  BY <1>1, HitsGrow
<1>3. Grown(Hits(media, "button"), {"media", "button"})
  <2> HIDE DEF media
  <2>1. Grown(Hits(media, "button"), {"media"} \cup {"button"})
    BY <1>2, HitsGrow
  <2> QED
    BY <2>1 DEF Grown
<1>4. Grown(Hits(Hits(media, "button"), "seekbar"), Widgets)
  <2> DEFINE both == Hits(media, "button")
  <2> HIDE DEF both
  <2>1. Grown(both, {"media", "button"})
    BY <1>3 DEF both
  <2>2. Grown(Hits(both, "seekbar"), {"media", "button"} \cup {"seekbar"})
    BY <2>1, HitsGrow
  <2> QED
    BY <2>2 DEF Grown, Widgets, both
<1>5. Grown(Hits(acts, "button"), {"button"})
  BY <1>1, HitsGrow
<1>6. Grown(Hits(Hits(acts, "button"), "seekbar"), {"button", "seekbar"})
  <2> DEFINE button == Hits(acts, "button")
  <2> HIDE DEF button
  <2>1. Grown(button, {"button"})
    BY <1>5 DEF button
  <2>2. Grown(Hits(button, "seekbar"), {"button"} \cup {"seekbar"})
    BY <2>1, HitsGrow
  <2> QED
    BY <2>2 DEF Grown, button
<1>7. CASE HandleLoopBegin
  <2>1. acts' = Hits(media, "button") \/ acts' = Hits(Hits(media, "button"), "seekbar")
    BY <1>7 DEF HandleLoopBegin
  <2> HIDE DEF media
  <2> QED
    BY <1>3, <1>4, <2>1 DEF Grown, Widgets
<1>8. CASE HandleLoop
  <2>1. \/ acts' = acts \/ acts' = Hits(acts, "button")
        \/ acts' = Hits(Hits(acts, "button"), "seekbar")
    BY <1>8 DEF HandleLoop
  <2> QED
    BY <1>1, <1>5, <1>6, <2>1 DEF Grown, Widgets
<1> QED
  BY <1>7, <1>8

LEMMA GrownBehind ==
  ASSUME HInv, NEW past, NEW W, Grown(past, W)
  PROVE  \A h \in Entries(past) : Behind(h[2])
BY DEF HInv, History, Grown

LEMMA HandleLoopBeginKeeps ==
  ASSUME HInv, HandleLoopBegin
  PROVE  History'
<1>1. /\ mode = "handle" /\ mode' = "fetch" /\ pc' = pc + 1
      /\ UNCHANGED <<valid, program, frame, gui, sent>>
  BY DEF HandleLoopBegin, Proceed, after
<1>2. Grown(acts', Widgets)
  BY <1>1, ActsGrow
<1>3. \A h \in Entries(acts') : Behind(h[2])'
  BY <1>1, <1>2, GrownBehind, StaysBehind
<1>4. \A h \in Entries(acts') :
        h[1] >= pc' /\ program'[h[1]].op \in Handlers => \A x \in Ids(frame) : h[2] < x
  <2> TAKE h \in Entries(acts')
  <2>1. CASE h \in Entries(acts)
    BY <1>1, <2>1 DEF HInv, History
  <2>2. CASE h \notin Entries(acts)
    BY <1>1, <1>2, <2>2 DEF Grown, Widgets, Handlers
  <2> QED
    BY <2>1, <2>2
<1>5. \A x \in Ids(frame) : Behind(x)'
  BY <1>1, StaysBehind DEF HInv, History
<1> QED
  BY <1>1, <1>2, <1>3, <1>4, <1>5 DEF HInv, History, Grown

LEMMA HandleLoopKeeps ==
  ASSUME HInv, HandleLoop
  PROVE  History'
<1>1. /\ mode = "handle" /\ UNCHANGED <<program, gui, sent>>
      /\ \/ mode' = "fetch" /\ valid' = FALSE /\ frame' = frame
         \/ mode' = "collect" /\ frame' = << >>
  BY DEF HandleLoop, Proceed
<1>2. Grown(acts', Widgets)
  BY <1>1, ActsGrow
<1>3. \A h \in Entries(acts') : Behind(h[2])
  BY <1>2, GrownBehind
<1>4. CASE mode' = "collect"
  BY <1>1, <1>2, <1>3, <1>4, StartsCollecting DEF Grown
<1>5. CASE mode' = "fetch"
  <2>1. (\A h \in Entries(acts') : Behind(h[2])') /\ (\A x \in Ids(frame) : Behind(x)')
    BY <1>1, <1>3, StaysBehind DEF HInv, History
  <2> QED
    BY <1>1, <1>2, <1>5, <2>1 DEF HInv, History, Grown
<1> QED
  BY <1>1, <1>4, <1>5

LEMMA HandleKeeps ==
  ASSUME HInv, HandlePump \/ HandleHandler
  PROVE  History'
<1>1. /\ mode = "handle" /\ Proceed /\ UNCHANGED <<valid, program, frame, gui, sent>>
  BY DEF HandlePump, HandleHandler, after
<1>2. \A h \in Entries(acts), x \in Ids(frame) : h[2] < x
  BY <1>1 DEF HInv, History
<1>3. CASE HandlePump
  <2>1. acts' = acts /\ mode' = "fetch"
    BY <1>1, <1>3 DEF HandlePump, Proceed
  <2> QED
    BY <1>1, <1>2, <2>1, QuietStep
<1>4. CASE HandleHandler
  <2>1. acts' = Handled(acts) /\ Here.op \in Handlers
    BY <1>4 DEF HandleHandler, Handlers
  <2>2. pc \in 1 .. Len(program)
    BY <1>1 DEF HInv, SInv, Control
  <2> QED
    BY <1>1, <1>2, <2>1, <2>2, HandlerReacts
<1> QED
  BY <1>3, <1>4

-----------------------------------------------------------------------------
LEMMA FetchedPlace ==
  ASSUME HInv, NEW ops, Fetches(ops)
  PROVE  /\ mode = "fetch" /\ pc \in 1 .. Len(program) /\ Here.op \in ops
         /\ UNCHANGED <<program, sent>> /\ pc \in Nat /\ \A h \in Entries(acts) : h[1] \in Nat
<1>1. mode = "fetch"
  BY DEF Fetches
<1>2. pc \in 1 .. Len(program) /\ Here.op \in ops /\ UNCHANGED <<program, sent>>
  BY Fetched DEF HInv
<1>3. acts \in Reactions
  BY DEF HInv, History
<1> QED
  BY <1>1, <1>2, <1>3, EntryType

LEMMA PassKeeps ==
  ASSUME HInv, NEW ops, Fetches(ops), Proceed, UNCHANGED <<acts, frame, gui, valid>>
  PROVE  History'
<1>1. /\ mode = "fetch" /\ UNCHANGED <<program, sent>> /\ pc \in Nat
      /\ \A h \in Entries(acts) : h[1] \in Nat
  BY FetchedPlace
<1>2. pc' = pc + 1 /\ mode' = "fetch"
  BY DEF Proceed
<1>3. valid' => \A h \in Entries(acts) :
        h[1] >= pc' /\ program'[h[1]].op \in Handlers => \A x \in Ids(frame) : h[2] < x
  BY <1>1, <1>2 DEF HInv, History
<1> QED
  BY <1>1, <1>2, <1>3, QuietStep

LEMMA CollectKeeps ==
  ASSUME HInv, UNCHANGED <<acts, gui, sent>>, frame' = << >>, mode' = "collect"
  PROVE  History'
BY StartsCollecting DEF HInv, History

LEMMA ExecKeeps ==
  ASSUME HInv, ExecDraw \/ ExecPrint \/ ExecPump \/ ExecHandler \/ ExecLoop
               \/ ExecLoopBegin \/ ExecLoopEnd
  PROVE  History' /\ UNCHANGED <<gui, out, sent>>
<1>1. CASE ExecDraw \/ ExecPrint
  <2>1. PICK ops \in {Drawn, {"print"}} : Fetches(ops)
    BY <1>1 DEF ExecDraw, ExecPrint
  <2>2. Proceed /\ UNCHANGED <<acts, frame, gui, out, valid>>
    BY <1>1 DEF ExecDraw, ExecPrint
  <2> QED
    BY <2>1, <2>2, PassKeeps, FetchedPlace
<1>2. CASE ExecPump \/ ExecLoopBegin
  <2>1. PICK ops \in {{"pump"}, {"begin"}} : Fetches(ops)
    BY <1>2 DEF ExecPump, ExecLoopBegin
  <2>2. mode' = "collect" /\ frame' = << >> /\ UNCHANGED <<acts, gui, out>>
    BY <1>2 DEF ExecPump, ExecLoopBegin, StartCollect
  <2> QED
    BY <2>1, <2>2, CollectKeeps, FetchedPlace
<1>3. CASE ExecLoop
  <2>1. Fetches({"loop"}) /\ UNCHANGED <<acts, gui, out>>
    BY <1>3 DEF ExecLoop
  <2>2. \/ Proceed /\ UNCHANGED <<frame, valid>>
        \/ mode' = "collect" /\ frame' = << >>
    BY <1>3 DEF ExecLoop, StartCollect
  <2> QED
    BY <2>1, <2>2, PassKeeps, CollectKeeps, FetchedPlace
<1>4. CASE ExecHandler
  <2>1. Fetches(Handlers) /\ UNCHANGED <<gui, out>>
    BY <1>4 DEF ExecHandler, Handlers
  <2>2. CASE valid
    <3>1. acts' = Handled(acts) /\ Proceed /\ frame' = frame
      BY <1>4, <2>2 DEF ExecHandler
    <3>2. \A h \in Entries(acts) :
            h[1] >= pc /\ program[h[1]].op \in Handlers => \A x \in Ids(frame) : h[2] < x
      BY <2>1, <2>2, FetchedPlace DEF HInv, History
    <3>3. pc \in 1 .. Len(program) /\ Here.op \in Handlers /\ UNCHANGED <<program, sent>>
      BY <2>1, FetchedPlace
    <3> QED
      BY <2>1, <3>1, <3>2, <3>3, HandlerReacts
  <2>3. CASE ~valid
    <3>1. mode' = "collect" /\ frame' = << >> /\ acts' = acts
      BY <1>4, <2>3 DEF ExecHandler, StartCollect
    <3> QED
      BY <2>1, <3>1, CollectKeeps, FetchedPlace
  <2> QED
    BY <2>2, <2>3
<1>5. CASE ExecLoopEnd
  <2>1. /\ Fetches({"end"}) /\ mode' = "fetch" /\ valid' = FALSE
        /\ UNCHANGED <<frame, acts, gui, out>>
    BY <1>5 DEF ExecLoopEnd
  <2> QED
    BY <2>1, QuietStep, FetchedPlace
<1> QED
  BY <1>1, <1>2, <1>3, <1>4, <1>5

(* The other steps of the engine, that make or sweep windows. *)
LEMMA SweepingKeeps ==
  ASSUME HInv, Load \/ NoticeClosed \/ ExecWindow \/ AskForEnter \/ Exit \/ Enter
  PROVE  History' /\ Ordered(gui', out'.id, sent')
<1>1. UNCHANGED <<acts, frame, sent, out>>
  <2>1. CASE ExecWindow
    BY <2>1, FetchedPlace DEF ExecWindow
  <2>2. CASE ~ExecWindow
    BY <2>2 DEF Load, NoticeClosed, AskForEnter, Exit, Enter, history, rest, gvars
  <2> QED
    BY <2>1, <2>2
<1>2. \/ gui' = gui \/ gui' = ShutDown(gui)
      \/ \E failed \in SUBSET Mishaps : gui' = WithWindow(gui, failed)
  BY DEF Load, NoticeClosed, ExecWindow, AskForEnter, Exit, Enter, gvars
<1>3. Waiting(gui') \subseteq Waiting(gui) /\ Ordered(gui', out'.id, sent')
  <2>1. Good(gui) /\ Ordered(gui, out.id, sent)
    BY HInvTypes DEF HInv
  <2>2. CASE gui' = gui
    BY <1>1, <2>1, <2>2
  <2>3. CASE gui' = ShutDown(gui)
    BY <1>1, <2>1, <2>3, ShutDownGood, ShutDownSweeps, SweptWaiting
  <2>4. CASE \E failed \in SUBSET Mishaps : gui' = WithWindow(gui, failed)
    BY <1>1, <2>1, <2>4, WithWindowGood, WithWindowSweeps, SweptWaiting
  <2> QED
    BY <1>2, <2>2, <2>3, <2>4
<1>4. CASE Load
  <2>1. acts = << >> /\ mode' \in {"fetch", "refused"}
    BY <1>4 DEF Load, HInv, History
  <2>2. Entries(acts) = {}
    BY <2>1 DEF Entries
  <2> QED
    BY <1>1, <1>3, <2>1, <2>2, QuietStep
<1>5. CASE NoticeClosed
  <2>1. mode = "fetch" /\ UNCHANGED <<mode, valid, pc, program>>
    BY <1>5 DEF NoticeClosed
  <2>2. valid' => \A h \in Entries(acts) :
          h[1] >= pc' /\ program'[h[1]].op \in Handlers => \A x \in Ids(frame) : h[2] < x
    BY <2>1 DEF HInv, History
  <2> QED
    BY <1>1, <1>3, <2>1, <2>2, QuietStep
<1>6. CASE ExecWindow
  <2>1. mode' = "fetch" /\ valid' = FALSE
    BY <1>6 DEF ExecWindow, Proceed
  <2> QED
    BY <1>1, <1>3, <2>1, QuietStep
<1>7. CASE AskForEnter \/ Exit \/ Enter
  <2>1. mode' \in {"enter", "done"}
    BY <1>7 DEF AskForEnter, Exit, Enter
  <2> QED
    BY <1>1, <1>3, <2>1, QuietStep
<1> QED
  BY <1>4, <1>5, <1>6, <1>7

LEMMA PolledWaiting ==
  ASSUME HInv
  PROVE  LET p == Polled(Pumped(gui))
         IN  /\ p.event.id \in Nat /\ Ordered(p.gui, p.event.id, sent)
             /\ p.found => p.event.id \in Waiting(gui)
             /\ Waiting(p.gui) \subseteq Waiting(gui) \ {p.event.id}
<1> DEFINE g == Pumped(gui)
           p == Polled(g)
<1>1. out.id \in Nat /\ sent \in Nat /\ Good(gui) /\ Ordered(gui, out.id, sent)
  BY HInvTypes DEF HInv
<1>2. Good(g) /\ Ordered(g, out.id, sent) /\ Waiting(g) \subseteq Waiting(gui)
  BY <1>1, PumpedFacts, PumpedOrdered
<1> HIDE DEF g
<1>3. /\ p.event.id \in Nat /\ Ordered(p.gui, p.event.id, sent)
      /\ p.found => p.event.id \in Waiting(g)
      /\ Waiting(p.gui) = Waiting(g) \ {p.event.id}
  BY <1>1, <1>2, PolledOrdered
<1> HIDE DEF p
<1>4. /\ p.event.id \in Nat /\ Ordered(p.gui, p.event.id, sent)
      /\ p.found => p.event.id \in Waiting(gui)
      /\ Waiting(p.gui) \subseteq Waiting(gui) \ {p.event.id}
  BY <1>2, <1>3
<1> QED
  BY <1>4 DEF p, g

LEMMA CollectOneKeeps ==
  ASSUME HInv, CollectOne
  PROVE  History' /\ Ordered(gui', out'.id, sent')
<1> DEFINE p == Polled(Pumped(gui))
           e == p.event
           now == Append(frame, e)
<1>1. /\ p.event.id \in Nat /\ Ordered(p.gui, p.event.id, sent)
      /\ p.found => p.event.id \in Waiting(gui)
      /\ Waiting(p.gui) \subseteq Waiting(gui) \ {p.event.id}
      /\ Good(p.gui) /\ p.event \in AllEvents
  BY PolledWaiting, PumpedFacts, PolledFacts, HInvTypes
<1>2. /\ mode = "collect" /\ p.found /\ gui' = p.gui /\ out' = p.event /\ frame' = now
      /\ mode' = "collect" /\ sent' = sent /\ acts' = acts
  BY DEF CollectOne, unread, history
<1> HIDE DEF p
<1>3. e.id \in Waiting(gui) /\ e.id \in Nat /\ e.id <= sent
  BY <1>1, <1>2, HInvTypes
<1>4. Waiting(gui') \subseteq Waiting(gui) /\ \A y \in Waiting(gui') : e.id < y
  <2>1. sent \in Nat /\ Good(p.gui) /\ p.event.id \in Nat /\ Ordered(p.gui, p.event.id, sent)
    BY <1>1, HInvTypes
  <2>2. Waiting(p.gui) = Ids(Contents(p.gui.events)) \cup AllInputs(p.gui.pending)
    BY <2>1, WaitingIs
  <2>3. \A y \in Waiting(p.gui) : e.id < y
    BY <2>1, <2>2 DEF Ordered
  <2> QED
    BY <1>1, <1>2, <2>3
<1>5. /\ frame \in Seq(AllEvents) /\ Len(frame) \in Nat /\ DOMAIN frame = 1 .. Len(frame)
      /\ DOMAIN now = 1 .. Len(frame) + 1 /\ now[Len(frame) + 1] = e
      /\ \A i \in 1 .. Len(frame) : now[i] = frame[i]
  <2>1. frame \in Seq(AllEvents) /\ e \in AllEvents
    BY <1>1, HInvTypes
  <2> HIDE DEF e
  <2> QED
    BY <2>1, AppendProperties
<1>6. /\ Ascending(frame) /\ \A x \in Ids(frame) : Behind(x)
      /\ \A h \in Entries(acts) : Behind(h[2])
      /\ \A h \in Entries(acts), x \in Ids(frame) : h[2] < x
  BY <1>2 DEF HInv, History
<1>7. (\A x \in Ids(frame) : x < e.id) /\ (\A h \in Entries(acts) : h[2] < e.id)
  BY <1>3, <1>6 DEF Behind
<1> HIDE DEF e, now
<1>8. Ids(now) = Ids(frame) \cup {e.id}
  <2>1. 1 .. Len(frame) + 1 = 1 .. Len(frame) \cup {Len(frame) + 1}
    BY <1>5
  <2> QED
    BY <1>5, <2>1 DEF Ids
<1>9. Ascending(now)
  <2> DEFINE n == Len(frame)
  <2>0. n \in Nat
    BY <1>5
  <2> SUFFICES ASSUME NEW i \in 1 .. n + 1, NEW j \in 1 .. n + 1, i < j
               PROVE  now[i].id < now[j].id
    BY <1>5 DEF Ascending
  <2> HIDE DEF n
  <2>1. i \in 1 .. n
    BY <2>0
  <2>2. now[i] = frame[i] /\ frame[i].id \in Ids(frame)
    BY <1>5, <2>1 DEF n, Ids
  <2>3. CASE j = n + 1
    BY <1>5, <1>7, <2>2, <2>3 DEF n
  <2>4. CASE j # n + 1
    <3>1. j \in 1 .. n
      BY <2>0, <2>4
    <3>2. now[j] = frame[j] /\ i \in DOMAIN frame /\ j \in DOMAIN frame
      BY <1>5, <2>1, <3>1 DEF n
    <3> QED
      BY <1>6, <2>2, <3>2 DEF Ascending
  <2> QED
    BY <2>3, <2>4
<1>10. \A h \in Entries(acts') : Behind(h[2])'
  BY <1>2, <1>4, <1>6, StaysBehind
<1>11. \A x \in Ids(frame') : Behind(x)'
  <2>1. \A x \in Ids(frame) : Behind(x)'
    BY <1>2, <1>4, <1>6, StaysBehind
  <2>2. ASSUME NEW x, x = e.id PROVE Behind(x)'
    BY <1>2, <1>3, <1>4, <2>2 DEF Behind
  <2>3. \A x \in Ids(frame') : x \in Ids(frame) \/ x = e.id
    BY <1>2, <1>8
  <2> QED
    BY <2>1, <2>2, <2>3
<1>12. \A h \in Entries(acts'), x \in Ids(frame') : h[2] < x
  BY <1>2, <1>6, <1>7, <1>8
<1>13. acts' \in Reactions /\ Once(acts') /\ Ascending(frame')
  BY <1>2, <1>9 DEF HInv, History
<1>14. History'
  BY <1>2, <1>10, <1>11, <1>12, <1>13 DEF History
<1> QED
  BY <1>1, <1>2, <1>14

LEMMA CollectEndKeeps ==
  ASSUME HInv, CollectEnd
  PROVE  History' /\ Ordered(gui', out'.id, sent')
<1> DEFINE p == Polled(Pumped(gui))
<1>1. /\ Ordered(p.gui, p.event.id, sent)
      /\ Waiting(p.gui) \subseteq Waiting(gui)
  BY PolledWaiting
<1> HIDE DEF p
<1>2. /\ mode = "collect" /\ mode' = "handle" /\ UNCHANGED <<frame, acts, sent>>
      /\ UNCHANGED <<gui, out>> \/ (gui' = p.gui /\ out' = p.event)
  BY DEF CollectEnd, unread, history, p
<1>3. Waiting(gui') \subseteq Waiting(gui) /\ Ordered(gui', out'.id, sent')
  BY <1>1, <1>2 DEF HInv
<1>4. \A h \in Entries(acts), x \in Ids(frame) : h[2] < x
  BY <1>2 DEF HInv, History
<1> QED
  BY <1>2, <1>3, <1>4, QuietStep

(* What the user does comes after everything before it. *)
LEMMA UserKeeps ==
  ASSUME HInv, SUser
  PROVE  History' /\ Ordered(gui', out'.id, sent')
<1>1. User /\ UNCHANGED <<program, mode, pc, frame, valid, acts>>
  BY DEF SUser, script, history
<1>2. OInv
  BY HInvOrder
<1>3. Ordered(gui', out'.id, sent')
  BY <1>1, <1>2, InputOrdered
<1>4. /\ sent \in Nat /\ sent' = sent + 1 /\ out' = out
      /\ Waiting(gui') = Waiting(gui) \cup {sent + 1}
  <2>1. PICK w \in 1 .. MaxWindows, type \in InputTypes, at \in Places : Input(w, type, at)
    BY <1>1 DEF User
  <2> DEFINE a == [type |-> type, id |-> sent + 1, at |-> at, window |-> w]
             p == gui.pending
             now == Append(p, a)
  <2>2. sent \in Nat /\ gui \in Processes /\ p \in Seq(Arrivals) /\ gui.events \in Ring
    BY HInvTypes, WaitsTypes DEF Good
  <2>3. /\ sent' = sent + 1 /\ out' = out
        /\ gui'.pending = now /\ gui'.events = gui.events
    BY <2>1, <2>2 DEF Input, Processes
  <2> HIDE DEF p
  <2>4. /\ DOMAIN now = 1 .. Len(p) + 1 /\ now[Len(p) + 1] = a
        /\ \A i \in 1 .. Len(p) : now[i] = p[i]
        /\ DOMAIN p = 1 .. Len(p) /\ Len(p) \in Nat
    <3>1. sent \in 0 .. MaxInputs /\ sent < MaxInputs
      BY <2>1 DEF Input, HInv, SInv, GInv
    <3>2. a \in Arrivals
      <4>1. w \in Nat /\ MaxInputs \in Nat
        BY GuiAssumption DEF GuiAssumption
      <4>2. sent + 1 \in 0 .. MaxInputs
        BY <2>2, <3>1, <4>1
      <4> QED
        BY <4>1, <4>2 DEF Arrivals
    <3> HIDE DEF a
    <3> QED
      BY <2>2, <3>2, AppendProperties
  <2> HIDE DEF now
  <2>5. {now[i].id : i \in DOMAIN now} = {p[i].id : i \in DOMAIN p} \cup {sent + 1}
    <3>1. 1 .. Len(p) + 1 = 1 .. Len(p) \cup {Len(p) + 1}
      BY <2>4
    <3>2. now[Len(p) + 1].id = sent + 1
      BY <2>4
    <3> HIDE DEF a
    <3> QED
      BY <2>4, <3>1, <3>2
  <2> DEFINE c == {Contents(gui.events)[i].id : i \in 1 .. Count(gui.events)}
  <2>7. Waiting(gui) = ({p[i].id : i \in DOMAIN p} \cup c) \ {0}
    BY DEF Waiting, p
  <2>8. Waiting(gui') = ({now[i].id : i \in DOMAIN now} \cup c) \ {0}
    BY <2>3 DEF Waiting
  <2> HIDE DEF c
  <2>6. Waiting(gui') = Waiting(gui) \cup {sent + 1}
    <3> DEFINE before == {p[i].id : i \in DOMAIN p}
               since == {now[i].id : i \in DOMAIN now}
    <3>1. sent + 1 # 0
      BY <2>2
    <3> HIDE DEF before, since
    <3>2. since = before \cup {sent + 1}
      BY <2>5 DEF before, since
    <3>3. Waiting(gui) = (before \cup c) \ {0} /\ Waiting(gui') = (since \cup c) \ {0}
      BY <2>7, <2>8 DEF before, since
    <3> QED
      BY <3>1, <3>2, <3>3
  <2> QED
    BY <2>2, <2>3, <2>6
<1>5. ASSUME NEW x, Behind(x), x \in Nat PROVE Behind(x)'
  BY <1>4, <1>5 DEF Behind
<1>6. acts \in Reactions /\ Ids(frame) \subseteq Nat
  BY HInvTypes DEF HInv, History
<1>7. \A h \in Entries(acts) : Behind(h[2])'
  BY <1>5, <1>6, EntryType DEF HInv, History
<1>8. \A x \in Ids(frame) : Behind(x)'
  BY <1>5, <1>6 DEF HInv, History
<1>9. History'
  BY <1>1, <1>7, <1>8 DEF HInv, History
<1> QED
  BY <1>3, <1>9

LEMMA HInitGood == SInit => HInv
<1> SUFFICES ASSUME SInit PROVE HInv
  OBVIOUS
<1>1. PICK server \in BOOLEAN, failed \in SUBSET Mishaps :
        gui = Initialised(FreshProcess(server), failed)
  BY DEF SInit
<1> DEFINE g == FreshProcess(server)
<1>2. Good(g) /\ g.events = EmptyRing /\ g.pending = << >>
  BY FreshGood DEF FreshProcess
<1>3. Contents(g.events) = << >>
  BY <1>2, EmptyContents
<1>4. Ordered(g, 0, 0)
  BY <1>2, <1>3 DEF Ordered, Ascending, InOrder, Ids, AllInputs, Inputs
<1> HIDE DEF g
<1>5. Ordered(gui, 0, 0)
  BY <1>1, <1>2, <1>4, InitialisedSweeps, SweptOrdered DEF g
<1>6. out.id = 0 /\ sent = 0 /\ acts = << >> /\ frame = << >> /\ mode = "load"
  BY DEF SInit, NoEvent, Event
<1>7. History
  <2>1. << >> \in Reactions /\ Once(<< >>) /\ Entries(<< >>) = {} /\ Ids(<< >>) = {}
        /\ Ascending(<< >>)
    BY DEF Reactions, Once, Entries, Ids, Ascending
  <2> QED
    BY <1>6, <2>1 DEF History
<1> QED
  BY <1>5, <1>6, <1>7, SInitGood DEF HInv

LEMMA HNextGood == HInv /\ [SNext]_svars => HInv'
<1> SUFFICES ASSUME HInv, [SNext]_svars PROVE HInv'
  OBVIOUS
<1>1. SInv' /\ Ordered(gui, out.id, sent)
  BY SNextGood DEF HInv
<1>2. CASE Load \/ NoticeClosed \/ ExecWindow \/ AskForEnter \/ Exit \/ Enter
  BY <1>1, <1>2, SweepingKeeps DEF HInv
<1>3. CASE ExecDraw \/ ExecPrint \/ ExecPump \/ ExecHandler \/ ExecLoop
           \/ ExecLoopBegin \/ ExecLoopEnd
  BY <1>1, <1>3, ExecKeeps DEF HInv
<1>4. CASE CollectOne
  BY <1>1, <1>4, CollectOneKeeps DEF HInv
<1>5. CASE CollectEnd
  BY <1>1, <1>5, CollectEndKeeps DEF HInv
<1>6. CASE HandlePump \/ HandleHandler \/ HandleLoopBegin \/ HandleLoop
  <2>1. UNCHANGED <<gui, out, sent>>
    BY <1>6 DEF HandlePump, HandleHandler, HandleLoopBegin, HandleLoop, after
  <2>2. History'
    BY <1>6, HandleKeeps, HandleLoopBeginKeeps, HandleLoopKeeps
  <2> QED
    BY <1>1, <2>1, <2>2 DEF HInv
<1>7. CASE SUser
  BY <1>1, <1>7, UserKeeps DEF HInv
<1>8. CASE UNCHANGED svars
  BY <1>1, <1>8 DEF svars, gvars, HInv, History, Behind
<1> QED
  BY <1>2, <1>3, <1>4, <1>5, <1>6, <1>7, <1>8 DEF SNext, Engine, Stopped

(***************************************************************************)
(* Whatever the script, the user and the sizes of the rings and of a frame:*)
(* no statement reacts to an input twice, and each reacts to its inputs in *)
(* the order the user made them (execute_program, collect_frame_events).   *)
(***************************************************************************)
THEOREM EachHandledOnce == SSpec => []HandledOnce
<1>1. HInv => HandledOnce
  BY DEF HInv, History, Once, HandledOnce
<1> QED
  BY <1>1, HInitGood, HNextGood, PTL DEF SSpec

=============================================================================
