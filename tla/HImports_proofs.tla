--------------------------- MODULE HImports_proofs ---------------------------
(***************************************************************************)
(* No file is read twice under one name, and the text that comes of it has *)
(* every line once and in its order, whatever the files and their imports  *)
(* are.                                                                    *)
(***************************************************************************)
EXTENDS HImports, HBind_proofs

Pieces == [file : Paths, line : Nat, whole : BOOLEAN]
Calls == [path : Paths, next : Nat \ {0}, out : Seq(Pieces)]

ITypeOK == /\ files \in FileSystems
           /\ active \in Seq(Calls)
           /\ loaded \in Seq(Paths)
           /\ path \in Paths
           /\ text \in Seq(Pieces)
           /\ at \in {"called", "reading", "returned", "failed"}

\* Every file being read is there, and it is one while at says so.
Opened == /\ \A k \in DOMAIN active : Meaning(active[k].path) \in DOMAIN files
          /\ at = "reading" => active # << >>

IInv == ITypeOK /\ Opened /\ NoneTwice

(***************************************************************************)
(* Sequences without their last element, and with another one.             *)
(***************************************************************************)
LEMMA FrontType ==
  ASSUME NEW S, NEW s \in Seq(S), s # << >>
  PROVE  /\ Front(s) \in Seq(S) /\ Len(s) \in Nat \ {0} /\ Last(s) \in S
         /\ DOMAIN Front(s) = 1 .. (Len(s) - 1)
         /\ \A k \in 1 .. (Len(s) - 1) : Front(s)[k] = s[k]
  BY EmptySeq DEF Front, Last

LEMMA SameInterval ==
  ASSUME NEW a \in Nat, NEW b \in Nat, 1 .. a = 1 .. b
  PROVE  a = b
<1>1. (a > 0 => a \in 1 .. b) /\ (b > 0 => b \in 1 .. a)
  OBVIOUS
<1> QED
  BY <1>1

LEMMA ReplacedType ==
  ASSUME NEW S, NEW s \in Seq(S), s # << >>, NEW e \in S
  PROVE  /\ Append(Front(s), e) \in Seq(S)
         /\ DOMAIN Append(Front(s), e) = DOMAIN s
         /\ \A k \in DOMAIN s : Append(Front(s), e)[k] = IF k = Len(s) THEN e ELSE s[k]
  BY FrontType

(***************************************************************************)
(* The paths that imports lead to.                                         *)
(***************************************************************************)
LEMMA DirnameType ==
  ASSUME NEW p \in Paths
  PROVE  Dirname(p) \in Paths
<1>1. p \in Seq(Components) /\ p # << >>
  BY DEF Paths
<1>2. Names(p) \in Seq(Components)
  BY <1>1, FrontType DEF Names
<1>3. CASE Len(Names(p)) <= 1
  <2>1. Dirname(p) = <<".">>
    BY <1>3 DEF Dirname
  <2>2. Dirname(p) \in Seq(Components) /\ 1 \in DOMAIN Dirname(p)
    BY <2>1, ComponentsAssumption
  <2> QED
    BY <2>2 DEF Paths
<1>4. CASE ~(Len(Names(p)) <= 1)
  <2>1. Names(p) # << >> /\ Len(Names(p)) > 1 /\ Dirname(p) = Front(Names(p))
    BY <1>2, <1>4 DEF Dirname
  <2>2. Dirname(p) \in Seq(Components) /\ 1 \in DOMAIN Dirname(p)
    BY <1>2, <2>1, FrontType
  <2> QED
    BY <2>2 DEF Paths
<1> QED
  BY <1>3, <1>4

LEMMA ImportType ==
  ASSUME NEW p \in Paths, NEW module \in Paths, NEW quoted
  PROVE  Join(Dirname(p), ModuleToPath(module, quoted)) \in Paths
<1>1. ModuleToPath(module, quoted) \in Paths
  <2>1. Append(module, ".hosc") \in Seq(Components) /\ Len(Append(module, ".hosc")) > 0
    BY ComponentsAssumption DEF Paths
  <2>2. Append(module, ".hosc") \in Paths
    BY <2>1, EmptySeq DEF Paths
  <2> QED
    BY <2>2 DEF ModuleToPath
<1>2. ASSUME NEW base \in Paths, NEW child \in Paths
      PROVE  base \o child \in Paths
  <2>1. base \o child \in Seq(Components) /\ Len(base \o child) > 0
    BY EmptySeq DEF Paths
  <2> QED
    BY <2>1, EmptySeq DEF Paths
<1> QED
  BY <1>1, <1>2, DirnameType DEF Join

-----------------------------------------------------------------------------
(***************************************************************************)
(* The innermost call, and the calls without it.                           *)
(***************************************************************************)
LEMMA TopType ==
  ASSUME IInv, active # << >>
  PROVE  /\ Len(active) \in DOMAIN active /\ Top = active[Len(active)] /\ Top \in Calls
         /\ Top.path \in Paths /\ Top.next \in Nat \ {0} /\ Top.out \in Seq(Pieces)
         /\ Meaning(Top.path) \in DOMAIN files
<1>1. active \in Seq(Calls)
  BY DEF IInv, ITypeOK
<1>2. Len(active) \in DOMAIN active /\ Top = active[Len(active)] /\ Top \in Calls
  BY <1>1, EmptySeq DEF Top, Last
<1> QED
  BY <1>2 DEF IInv, Opened, Calls

LEMMA Shortened ==
  ASSUME IInv, active # << >>
  PROVE  /\ Front(active) \in Seq(Calls) /\ Len(active) \in Nat \ {0}
         /\ DOMAIN Front(active) = 1 .. (Len(active) - 1) /\ DOMAIN active = 1 .. Len(active)
         /\ \A k \in 1 .. (Len(active) - 1) : Front(active)[k] = active[k]
<1>1. active \in Seq(Calls)
  BY DEF IInv, ITypeOK
<1> QED
  BY <1>1, FrontType

LEMMA Initially == IInit => IInv
  BY EntriesAssumption DEF IInit, IInv, ITypeOK, Opened, NoneTwice, LoadedOnce, ActiveOnce, NotBoth

LEMMA Preserved == IInv /\ [INext]_ivars => IInv'
<1> SUFFICES ASSUME IInv, [INext]_ivars
             PROVE  IInv'
  OBVIOUS
<1>0. /\ files \in FileSystems /\ active \in Seq(Calls) /\ loaded \in Seq(Paths)
      /\ path \in Paths /\ text \in Seq(Pieces)
  BY DEF IInv, ITypeOK
<1>1. CASE AlreadyLoaded
  BY <1>1 DEF AlreadyLoaded, IInv, ITypeOK, Opened, NoneTwice, LoadedOnce, ActiveOnce, NotBoth
<1>2. CASE Open
  <2>1. path \notin PathList(active) /\ path \notin ToSet(loaded) /\ Meaning(path) \in DOMAIN files
    BY <1>2 DEF Open, CanOpen
  <2>2. (\A k \in DOMAIN active : active[k].path # path) /\ (\A j \in DOMAIN loaded : loaded[j] # path)
    BY <2>1 DEF PathList, ToSet
  <2>3. Call(path) \in Calls /\ Call(path).path = path
    BY <1>0 DEF Call, Calls
  <2>4. /\ active' = Append(active, Call(path)) /\ at' = "reading"
        /\ UNCHANGED <<files, loaded, path, text>>
    BY <1>2 DEF Open
  <2>5. /\ active' \in Seq(Calls) /\ active' # << >>
        /\ DOMAIN active' = 1 .. (Len(active) + 1) /\ DOMAIN active = 1 .. Len(active)
        /\ \A k \in DOMAIN active' :
             active'[k] = IF k = Len(active) + 1 THEN Call(path) ELSE active[k]
    BY <1>0, <2>3, <2>4
  <2>6. \A k \in DOMAIN active' :
          active'[k].path = IF k = Len(active) + 1 THEN path ELSE active[k].path
    BY <2>3, <2>5
  <2> QED
    BY <2>1, <2>2, <2>4, <2>5, <2>6 DEF IInv, ITypeOK, Opened, NoneTwice, LoadedOnce, ActiveOnce, NotBoth
<1>3. CASE Cycle
  BY <1>3 DEF Cycle, IInv, ITypeOK, Opened, NoneTwice, LoadedOnce, ActiveOnce, NotBoth
<1>4. CASE CannotOpen
  BY <1>4 DEF CannotOpen, IInv, ITypeOK, Opened, NoneTwice, LoadedOnce, ActiveOnce, NotBoth
<1>5. CASE Import
  <2>1. /\ active # << >> /\ Top.next <= Len(File.lines) /\ Line.kind = "import"
        /\ at' = "called" /\ UNCHANGED <<files, active, loaded, text>>
        /\ path' = Join(Dirname(Top.path), ModuleToPath(Line.module, Line.quoted))
    BY <1>5 DEF Import, Imported, IInv, Opened
  <2>2. /\ File.lines \in Seq(ToSet(File.lines))
        /\ \A line \in ToSet(File.lines) : line.kind = "import" => line.module \in Paths
    BY <1>0, <2>1, TopType, FilesAssumption DEF File
  <2>3. Line \in ToSet(File.lines)
    BY <2>1, <2>2, TopType DEF Line
  <2>4. path' \in Paths
    BY <2>1, <2>2, <2>3, TopType, ImportType
  <2> QED
    BY <2>1, <2>4 DEF IInv, ITypeOK, Opened, NoneTwice, LoadedOnce, ActiveOnce, NotBoth
<1>6. ASSUME NEW e \in Calls, active # << >>, active' = Append(Front(active), e), e.path = Top.path,
             at' = "reading", UNCHANGED <<files, loaded, path, text>>
      PROVE  IInv'
  <2>1. /\ active' \in Seq(Calls) /\ DOMAIN active' = DOMAIN active
        /\ \A k \in DOMAIN active : active'[k] = IF k = Len(active) THEN e ELSE active[k]
    BY <1>0, <1>6, ReplacedType
  <2>2. active' # << >> /\ \A k \in DOMAIN active : active'[k].path = active[k].path
    BY <1>6, <2>1, TopType
  <2>3. ITypeOK' /\ Opened'
    BY <1>6, <2>1, <2>2 DEF IInv, ITypeOK, Opened
  <2>4. NoneTwice'
    BY <1>6, <2>1, <2>2 DEF IInv, NoneTwice, LoadedOnce, ActiveOnce, NotBoth
  <2> QED
    BY <2>3, <2>4 DEF IInv
<1>7. CASE Copy
  <2> DEFINE piece == Piece(Top.path, Top.next, Top.next < Len(File.lines) \/ File.ended)
             called == [Top EXCEPT !.next = @ + 1, !.out = IF Keeps(Line) THEN Append(@, piece) ELSE @]
  <2>1. /\ active # << >> /\ active' = Append(Front(active), called)
        /\ at' = "reading" /\ UNCHANGED <<files, loaded, path, text>>
    BY <1>7 DEF Copy, IInv, Opened
  <2>2. piece \in Pieces
    BY <2>1, TopType DEF Piece, Pieces
  <2>3. called \in Calls /\ called.path = Top.path
    <3> DEFINE kept == IF Keeps(Line) THEN Append(Top.out, piece) ELSE Top.out
    <3> HIDE DEF piece
    <3>1. kept \in Seq(Pieces) /\ Top.next + 1 \in Nat \ {0}
      BY <2>1, <2>2, TopType
    <3>2. called = [Top EXCEPT !.next = Top.next + 1, !.out = kept]
      BY <2>1, TopType DEF Calls
    <3> HIDE DEF kept, called
    <3> QED
      BY <2>1, <3>1, <3>2, TopType DEF Calls
  <2> HIDE DEF called
  <2> QED
    BY <1>6, <2>1, <2>3
<1>8. CASE Finish
  <2>1. /\ active # << >> /\ active' = Front(active) /\ loaded' = Append(loaded, Top.path)
        /\ at' = "returned" /\ text' = Top.out /\ UNCHANGED <<files, path>>
    BY <1>8 DEF Finish, IInv, Opened
  <2>2. /\ active' \in Seq(Calls) /\ DOMAIN active' = 1 .. (Len(active) - 1)
        /\ DOMAIN active = 1 .. Len(active) /\ Len(active) \in Nat \ {0}
        /\ \A k \in DOMAIN active' : active'[k] = active[k]
    BY <2>1, Shortened
  <2>3. /\ loaded' \in Seq(Paths) /\ DOMAIN loaded' = 1 .. (Len(loaded) + 1)
        /\ DOMAIN loaded = 1 .. Len(loaded) /\ Len(loaded) \in Nat
        /\ \A j \in DOMAIN loaded' : loaded'[j] = IF j = Len(loaded) + 1 THEN Top.path ELSE loaded[j]
    BY <1>0, <2>1, TopType
  <2>4. Top = active[Len(active)] /\ NoneTwice
    BY <2>1, TopType DEF IInv
  <2>5. LoadedOnce'
    BY <2>2, <2>3, <2>4 DEF NoneTwice, LoadedOnce, NotBoth
  <2>6. ActiveOnce'
    BY <2>2, <2>4 DEF NoneTwice, ActiveOnce
  <2>7. NotBoth'
    BY <2>2, <2>3, <2>4 DEF NoneTwice, ActiveOnce, NotBoth
  <2> QED
    BY <2>1, <2>2, <2>3, <2>5, <2>6, <2>7, <1>0, TopType DEF IInv, ITypeOK, Opened, NoneTwice
<1>9. CASE Returned
  <2> DEFINE called == [Top EXCEPT !.next = @ + 1, !.out = @ \o text]
  <2>1. /\ active # << >> /\ active' = Append(Front(active), called)
        /\ at' = "reading" /\ UNCHANGED <<files, loaded, path, text>>
    BY <1>9 DEF Returned
  <2>2. Top.out \o text \in Seq(Pieces) /\ Top.next + 1 \in Nat \ {0}
    BY <1>0, <2>1, TopType
  <2>3. called \in Calls /\ called.path = Top.path
    BY <2>1, <2>2, TopType DEF Calls
  <2> HIDE DEF called
  <2> QED
    BY <1>6, <2>1, <2>3
<1>10. CASE Fail
  <2>1. /\ active # << >> /\ active' = Front(active) /\ at = "failed"
        /\ UNCHANGED <<files, loaded, at, path, text>>
    BY <1>10 DEF Fail
  <2>2. /\ active' \in Seq(Calls) /\ DOMAIN active' = 1 .. (Len(active) - 1)
        /\ DOMAIN active = 1 .. Len(active) /\ Len(active) \in Nat \ {0}
        /\ \A k \in DOMAIN active' : active'[k] = active[k]
    BY <2>1, Shortened
  <2> QED
    BY <2>1, <2>2 DEF IInv, ITypeOK, Opened, NoneTwice, LoadedOnce, ActiveOnce, NotBoth
<1>11. CASE UNCHANGED ivars
  BY <1>11 DEF ivars, IInv, ITypeOK, Opened, NoneTwice, LoadedOnce, ActiveOnce, NotBoth
<1> QED
  BY <1>1, <1>2, <1>3, <1>4, <1>5, <1>7, <1>8, <1>9, <1>10, <1>11 DEF INext

(***************************************************************************)
(* No path is read twice (resolve_imports_recursive).                      *)
(***************************************************************************)
THEOREM ReadsOnce == ISpec => []NoneTwice
<1>1. IInv => NoneTwice
  BY DEF IInv
<1> QED
  BY Initially, Preserved, <1>1, PTL DEF ISpec

-----------------------------------------------------------------------------
(***************************************************************************)
(* What the text is made of. The file system is a parameter here, as no    *)
(* step changes it.                                                        *)
(***************************************************************************)
LinesIn(fs, p) == fs[Meaning(p)].lines
OpenIn(fs, p) == Len(p) <= MaxPath /\ Meaning(p) \in DOMAIN fs

\* Line n of the file at p is an import, and what it imports.
ImportIn(fs, p, n) == n \in DOMAIN LinesIn(fs, p) /\ LinesIn(fs, p)[n].kind = "import"
TargetIn(fs, p, n) == Imported(p, LinesIn(fs, p)[n])

LEMMA LinesType ==
  ASSUME NEW fs \in FileSystems, NEW p \in Paths, OpenIn(fs, p)
  PROVE  /\ Len(LinesIn(fs, p)) \in Nat /\ DOMAIN LinesIn(fs, p) = 1 .. Len(LinesIn(fs, p))
         /\ \A n : ImportIn(fs, p, n) => TargetIn(fs, p, n) \in Paths
<1>1. /\ LinesIn(fs, p) \in Seq(ToSet(LinesIn(fs, p)))
      /\ \A line \in ToSet(LinesIn(fs, p)) : line.kind = "import" => line.module \in Paths
  BY FilesAssumption DEF OpenIn, LinesIn
<1>2. ASSUME NEW n, ImportIn(fs, p, n)
      PROVE  TargetIn(fs, p, n) \in Paths
  <2>1. LinesIn(fs, p)[n] \in ToSet(LinesIn(fs, p))
    BY <1>2 DEF ImportIn, ToSet
  <2>2. LinesIn(fs, p)[n].module \in Paths
    BY <1>1, <1>2, <2>1 DEF ImportIn
  <2> QED
    BY <2>2, ImportType DEF TargetIn, Imported
<1> QED
  BY <1>1, <1>2

(***************************************************************************)
(* The chains of imports that end, of every length up to n.                *)
(***************************************************************************)
ImportsIn(fs, p) == {Imported(p, line) : line \in {l \in ToSet(LinesIn(fs, p)) : l.kind = "import"}}

EndsIn(fs, n) ==
  CHOOSE ends : ends =
    [k \in 0 .. n |-> [q \in Paths |-> /\ k > 0 /\ OpenIn(fs, q)
                                       /\ \A r \in ImportsIn(fs, q) : ends[k - 1][r]]]

LEMMA ChainsEndIn ==
  ASSUME NEW p, NEW n
  PROVE  ChainsEnd(p, n) <=> EndsIn(files, n)[n][p]
BY DEF ChainsEnd, EndsIn, CanOpen, OpenIn, ImportsOf, ImportsIn, LinesAt, LinesIn

LEMMA ImportsMembers ==
  ASSUME NEW fs, NEW p, NEW q
  PROVE  q \in ImportsIn(fs, p) <=> \E n : ImportIn(fs, p, n) /\ TargetIn(fs, p, n) = q
BY DEF ImportsIn, ImportIn, TargetIn, ToSet

LEMMA EndsStep ==
  ASSUME NEW fs, NEW n \in Nat, NEW k \in 0 .. n, NEW q \in Paths
  PROVE  EndsIn(fs, n)[k][q] <=>
           /\ k > 0 /\ OpenIn(fs, q)
           /\ \A r \in ImportsIn(fs, q) : EndsIn(fs, n)[k - 1][r]
<1> DEFINE S == [Paths -> BOOLEAN]
           Step(e) == [x \in Paths |-> OpenIn(fs, x) /\ \A r \in ImportsIn(fs, x) : e[r]]
           Right(ends) ==
             ends = [i \in 0 .. n |-> [x \in Paths |-> /\ i > 0 /\ OpenIn(fs, x)
                                                       /\ \A r \in ImportsIn(fs, x) : ends[i - 1][r]]]
           none == [x \in Paths |-> FALSE]
           F == [ei \in S \X (1 .. n) |-> Step(ei[1])]
<1>1. none \in S /\ F \in [S \X (1 .. n) -> S]
  OBVIOUS
<1>2. PICK g \in Results(n, S, none, F) : TRUE
  <2> HIDE DEF F, S, none
  <2> QED
    BY <1>1, Recursion
<1>3. g \in [0 .. n -> S] /\ g[0] = none /\ \A i \in 1 .. n : g[i] = F[<<g[i - 1], i>>]
  BY <1>2 DEF Results
<1>4. \A i \in 1 .. n : g[i] = Step(g[i - 1])
  <2> TAKE i \in 1 .. n
  <2>1. i - 1 \in 0 .. n
    OBVIOUS
  <2>2. g[i - 1] \in S
    BY <1>3, <2>1
  <2> QED
    BY <1>3, <2>2
<1>5. Right(g)
  <2>1. ASSUME NEW i \in 0 .. n
        PROVE  g[i] = [x \in Paths |-> /\ i > 0 /\ OpenIn(fs, x)
                                       /\ \A r \in ImportsIn(fs, x) : g[i - 1][r]]
    <3>1. CASE i = 0
      BY <3>1, <1>3
    <3>2. CASE i # 0
      <4>1. i \in 1 .. n /\ i > 0
        BY <3>2
      <4> QED
        BY <4>1, <1>4
    <3> QED
      BY <3>1, <3>2
  <2> HIDE DEF S
  <2> QED
    BY <1>3, <2>1
<1>6. EndsIn(fs, n) = CHOOSE ends : Right(ends)
  BY DEF EndsIn
<1>7. Right(EndsIn(fs, n))
  <2> HIDE DEF Right
  <2> QED
    BY <1>5, <1>6
<1> QED
  BY <1>7

(***************************************************************************)
(* A path is doomed if no chain behind it ends: it cannot be opened, or it *)
(* imports a doomed one, or it leads back to itself.                       *)
(***************************************************************************)
Doomed(fs, p) == \A n \in Nat : \A k \in 0 .. n : ~EndsIn(fs, n)[k][p]

\* The next line of a call imports p.
Waits(fs, call, p) == ImportIn(fs, call.path, call.next) /\ TargetIn(fs, call.path, call.next) = p

LEMMA ClosedDoomed ==
  ASSUME NEW fs, NEW p \in Paths, ~OpenIn(fs, p)
  PROVE  Doomed(fs, p)
BY EndsStep DEF Doomed

LEMMA ImportDoomed ==
  ASSUME NEW fs, NEW call, call.path \in Paths, NEW p, Doomed(fs, p), Waits(fs, call, p)
  PROVE  Doomed(fs, call.path)
<1>1. p \in ImportsIn(fs, call.path)
  BY ImportsMembers DEF Waits
<1> SUFFICES ASSUME NEW n \in Nat, NEW k \in 0 .. n, EndsIn(fs, n)[k][call.path]
             PROVE  FALSE
  BY DEF Doomed
<1>2. k > 0 /\ EndsIn(fs, n)[k - 1][p]
  BY <1>1, EndsStep
<1>3. k - 1 \in 0 .. n
  BY <1>2
<1> QED
  BY <1>2, <1>3 DEF Doomed

\* Calls that wait for each other, from the first of some on.
LEMMA CycleDoomed ==
  ASSUME NEW fs, NEW calls \in Seq(Calls), calls # << >>, NEW first \in DOMAIN calls,
         \A k \in DOMAIN calls : k < Len(calls) => Waits(fs, calls[k], calls[k + 1].path),
         Waits(fs, calls[Len(calls)], calls[first].path)
  PROVE  Doomed(fs, calls[first].path)
<1> SUFFICES ASSUME NEW n \in Nat
             PROVE  \A k \in 0 .. n : ~EndsIn(fs, n)[k][calls[first].path]
  BY DEF Doomed
<1> DEFINE P == {k \in 0 .. n : \A j \in first .. Len(calls) : ~EndsIn(fs, n)[k][calls[j].path]}
<1>0. /\ Len(calls) \in Nat \ {0} /\ DOMAIN calls = 1 .. Len(calls) /\ first \in Nat
      /\ \A j \in DOMAIN calls : calls[j].path \in Paths
  <2>1. Len(calls) \in Nat \ {0} /\ DOMAIN calls = 1 .. Len(calls)
    BY EmptySeq
  <2>2. \A j \in DOMAIN calls : calls[j] \in Calls
    OBVIOUS
  <2> QED
    BY <2>1, <2>2 DEF Calls
<1>1. 0 \in P
  <2> SUFFICES ASSUME NEW j \in first .. Len(calls) PROVE ~EndsIn(fs, n)[0][calls[j].path]
    OBVIOUS
  <2> QED
    BY <1>0, EndsStep
<1>2. ASSUME NEW i \in 1 .. n, i - 1 \in P
      PROVE  i \in P
  <2> SUFFICES ASSUME NEW j \in first .. Len(calls), EndsIn(fs, n)[i][calls[j].path] PROVE FALSE
    OBVIOUS
  <2>1. j \in DOMAIN calls
    BY <1>0
  <2>2. PICK h \in first .. Len(calls) : Waits(fs, calls[j], calls[h].path)
    <3>1. CASE j = Len(calls)
      BY <3>1, <1>0
    <3>2. CASE j # Len(calls)
      <4>1. \A l, f \in Nat : \A x \in f .. l : x # l => x < l /\ x + 1 \in f .. l
        OBVIOUS
      <4>2. j < Len(calls) /\ j + 1 \in first .. Len(calls)
        BY <3>2, <4>1, <1>0
      <4> QED
        BY <4>2, <2>1
    <3> QED
      BY <3>1, <3>2
  <2>3. calls[h].path \in ImportsIn(fs, calls[j].path)
    BY <2>2, ImportsMembers DEF Waits
  <2>4. EndsIn(fs, n)[i - 1][calls[h].path]
    BY <1>0, <2>1, <2>3, EndsStep
  <2> QED
    BY <1>2, <2>4
<1>3. \A k \in 0 .. n : k \in P
  <2> HIDE DEF P
  <2> QED
    BY <1>1, <1>2, Induction
<1> QED
  BY <1>0, <1>3

(***************************************************************************)
(* The files done with, each after those it imports: their chains end.     *)
(***************************************************************************)
InOrder(fs, done) ==
  \A j \in DOMAIN done :
    /\ OpenIn(fs, done[j])
    /\ \A n : ImportIn(fs, done[j], n) =>
                \E i \in DOMAIN done : i < j /\ done[i] = TargetIn(fs, done[j], n)

LEMMA DoneEnds ==
  ASSUME NEW fs, NEW done \in Seq(Paths), InOrder(fs, done), NEW p \in ToSet(done)
  PROVE  EndsIn(fs, Len(done))[Len(done)][p]
<1> DEFINE L == Len(done)
           P == {k \in 0 .. L : \A j \in DOMAIN done : j <= k => EndsIn(fs, L)[k][done[j]]}
<1>0. L \in Nat /\ DOMAIN done = 1 .. L
  OBVIOUS
<1> HIDE DEF L
<1>1. 0 \in P
  BY <1>0
<1>2. ASSUME NEW k \in 1 .. L, k - 1 \in P
      PROVE  k \in P
  <2> SUFFICES ASSUME NEW j \in DOMAIN done, j <= k
               PROVE  EndsIn(fs, L)[k][done[j]]
    BY <1>0
  <2>1. ASSUME NEW r \in ImportsIn(fs, done[j])
        PROVE  EndsIn(fs, L)[k - 1][r]
    <3>1. PICK n : ImportIn(fs, done[j], n) /\ TargetIn(fs, done[j], n) = r
      BY ImportsMembers
    <3>2. PICK i \in DOMAIN done : i < j /\ done[i] = r
      BY <3>1 DEF InOrder
    <3>3. i <= k - 1
      BY <1>0, <3>2
    <3> QED
      BY <1>2, <3>2, <3>3
  <2>2. k \in 0 .. L /\ k > 0 /\ done[j] \in Paths /\ OpenIn(fs, done[j])
    BY <1>0 DEF InOrder
  <2> QED
    BY <1>0, <2>1, <2>2, EndsStep
<1>3. \A k \in 0 .. L : k \in P
  <2> HIDE DEF P
  <2> QED
    BY <1>0, <1>1, <1>2, Induction
<1>4. L \in P
  BY <1>0, <1>3
<1>5. PICK j \in DOMAIN done : done[j] = p
  BY DEF ToSet
<1> QED
  BY <1>0, <1>4, <1>5 DEF L

-----------------------------------------------------------------------------
(***************************************************************************)
(* The calls in progress: each waits for the one above it, and what the    *)
(* lines before that import import is done with.                           *)
(***************************************************************************)
Passed(fs, done, call) ==
  \A n : ImportIn(fs, call.path, n) /\ n < call.next => TargetIn(fs, call.path, n) \in ToSet(done)

CallsOpen(fs, done, calls) ==
  \A k \in DOMAIN calls : OpenIn(fs, calls[k].path) /\ Passed(fs, done, calls[k])

CallsWait(fs, calls) ==
  \A k \in DOMAIN calls : k < Len(calls) => Waits(fs, calls[k], calls[k + 1].path)

\* What a refusal says: the first import of the file that is doomed.
Blames(fs, done, e) ==
  OpenIn(fs, e.file) =>
    \E call \in Calls :
      /\ call.path = e.file /\ call.next = e.line /\ Passed(fs, done, call)
      /\ \E p : Waits(fs, call, p) /\ Doomed(fs, p)

\* What the innermost call waits for, and what is known once there is none.
Pending ==
  IF active # << >>
  THEN /\ at = "called" => Waits(files, active[Len(active)], path)
       /\ at = "returned" => \E p \in ToSet(loaded) : Waits(files, active[Len(active)], p)
       /\ at = "failed" => \E p : Waits(files, active[Len(active)], p) /\ Doomed(files, p)
  ELSE /\ at = "called" => loaded = << >>
       /\ at = "returned" => loaded # << >>
       /\ at = "failed" => Blames(files, loaded, error)

CInv == /\ CallsOpen(files, loaded, active) /\ CallsWait(files, active)
        /\ InOrder(files, loaded) /\ Pending

LEMMA CallsInitially == IInit => CInv
BY DEF IInit, CInv, CallsOpen, CallsWait, InOrder, Pending

\* Nothing below an import of the first line has been passed yet.
LEMMA NonePassed ==
  ASSUME NEW fs \in FileSystems, NEW done, NEW p \in Paths, OpenIn(fs, p)
  PROVE  Passed(fs, done, Call(p))
BY LinesType DEF Passed, ImportIn, Call

LEMMA PassedMore ==
  ASSUME NEW fs, NEW done \in Seq(Paths), NEW call, NEW p, Passed(fs, done, call)
  PROVE  Passed(fs, Append(done, p), call)
<1>1. ToSet(done) \subseteq ToSet(Append(done, p))
  BY DEF ToSet
<1> QED
  BY <1>1 DEF Passed

\* A call goes on behind a line that is no import, or that is done with.
LEMMA PassedNext ==
  ASSUME NEW fs \in FileSystems, NEW done, NEW call \in Calls, NEW after,
         OpenIn(fs, call.path), Passed(fs, done, call),
         after.path = call.path, after.next = call.next + 1,
         ImportIn(fs, call.path, call.next) => TargetIn(fs, call.path, call.next) \in ToSet(done)
  PROVE  Passed(fs, done, after)
<1> SUFFICES ASSUME NEW n, ImportIn(fs, call.path, n), n < call.next + 1
             PROVE  TargetIn(fs, call.path, n) \in ToSet(done)
  BY DEF Passed
<1>1. n \in Nat /\ call.next \in Nat
  BY LinesType DEF ImportIn, Calls
<1>2. n < call.next \/ n = call.next
  BY <1>1
<1> QED
  BY <1>2 DEF Passed

LEMMA CallsAreOpen ==
  ASSUME IInv, CInv, active # << >>
  PROVE  LET m == Len(active)
         IN  /\ m \in DOMAIN active /\ Top = active[m] /\ Top \in Calls
             /\ OpenIn(files, Top.path) /\ Passed(files, loaded, Top)
             /\ File.lines = LinesIn(files, Top.path)
             /\ Line = LinesIn(files, Top.path)[Top.next]
BY TopType DEF CInv, CallsOpen, LinesIn, File, Line

\* What becomes of the calls when the innermost is replaced by one further on.
LEMMA CallsGoOn ==
  ASSUME IInv, CInv, active # << >>, NEW e \in Calls, e.path = Top.path,
         Passed(files, loaded, e)
  PROVE  /\ CallsOpen(files, loaded, Append(Front(active), e))
         /\ CallsWait(files, Append(Front(active), e))
<1> DEFINE calls == Append(Front(active), e)
<1>0. active \in Seq(Calls)
  BY DEF IInv, ITypeOK
<1>1. /\ calls \in Seq(Calls) /\ DOMAIN calls = DOMAIN active
      /\ \A k \in DOMAIN active : calls[k] = IF k = Len(active) THEN e ELSE active[k]
  BY <1>0, ReplacedType
<1> HIDE DEF calls
<1>2. Len(calls) = Len(active) /\ Top = active[Len(active)] /\ Len(active) \in Nat
  BY <1>0, <1>1, CallsAreOpen
<1>3. CallsOpen(files, loaded, calls)
  BY <1>1, <1>2, CallsAreOpen DEF CInv, CallsOpen
<1>4. CallsWait(files, calls)
  <2> SUFFICES ASSUME NEW k \in DOMAIN calls, k < Len(calls)
               PROVE  Waits(files, calls[k], calls[k + 1].path)
    BY DEF CallsWait
  <2>1. k \in DOMAIN active /\ k # Len(active) /\ k + 1 \in DOMAIN active
    BY <1>0, <1>1, <1>2
  <2>2. calls[k] = active[k] /\ calls[k + 1].path = active[k + 1].path
    BY <1>1, <1>2, <2>1
  <2> QED
    BY <1>2, <2>1, <2>2 DEF CInv, CallsWait
<1> QED
  BY <1>3, <1>4 DEF calls

\* And when it is the last: the one below it waits for it.
LEMMA CallsLeft ==
  ASSUME IInv, CInv, active # << >>
  PROVE  /\ CallsOpen(files, loaded, Front(active))
         /\ CallsWait(files, Front(active))
         /\ Front(active) # << >> =>
              Waits(files, Front(active)[Len(Front(active))], Top.path)
<1>0. /\ active \in Seq(Calls) /\ Top = active[Len(active)]
      /\ CallsOpen(files, loaded, active) /\ CallsWait(files, active)
  BY CallsAreOpen DEF IInv, ITypeOK, CInv
<1>1. /\ Front(active) \in Seq(Calls) /\ Len(active) \in Nat \ {0}
      /\ DOMAIN Front(active) = 1 .. (Len(active) - 1) /\ DOMAIN active = 1 .. Len(active)
      /\ \A k \in 1 .. (Len(active) - 1) : Front(active)[k] = active[k]
  BY Shortened
<1> DEFINE calls == Front(active)
<1> HIDE DEF calls
<1>2. /\ calls \in Seq(Calls) /\ DOMAIN calls = 1 .. (Len(active) - 1)
      /\ \A k \in 1 .. (Len(active) - 1) : calls[k] = active[k]
  BY <1>1 DEF calls
<1>3. Len(calls) = Len(active) - 1
  <2>1. Len(active) - 1 \in Nat
    BY <1>1
  <2>2. calls \in Seq(Calls)
    BY <1>2
  <2>3. Len(calls) \in Nat /\ DOMAIN calls = 1 .. Len(calls)
    BY <2>2
  <2> QED
    BY <1>2, <2>1, <2>3, SameInterval
<1>4. CallsOpen(files, loaded, calls)
  BY <1>0, <1>1, <1>2 DEF CallsOpen
<1>5. CallsWait(files, calls)
  BY <1>0, <1>1, <1>2, <1>3 DEF CallsWait
<1>6. calls # << >> => Waits(files, calls[Len(calls)], Top.path)
  <2> SUFFICES ASSUME calls # << >>
               PROVE  Waits(files, calls[Len(calls)], Top.path)
    OBVIOUS
  <2>1. Len(calls) \in 1 .. (Len(active) - 1) /\ Len(calls) + 1 = Len(active)
    BY <1>1, <1>2, <1>3, EmptySeq
  <2>2. calls[Len(calls)] = active[Len(calls)] /\ active[Len(calls) + 1] = Top
    BY <1>0, <1>2, <2>1
  <2>3. Len(calls) \in DOMAIN active /\ Len(calls) < Len(active)
    BY <1>1, <2>1
  <2> QED
    BY <1>0, <2>2, <2>3 DEF CallsWait
<1> QED
  BY <1>4, <1>5, <1>6 DEF calls

LEMMA InOrderMore ==
  ASSUME IInv, CInv, active # << >>, Top.next > Len(File.lines)
  PROVE  InOrder(files, Append(loaded, Top.path))
<1> DEFINE done == Append(loaded, Top.path)
<1>0. loaded \in Seq(Paths) /\ files \in FileSystems /\ InOrder(files, loaded)
  BY DEF IInv, ITypeOK, CInv
<1>1. /\ DOMAIN done = 1 .. (Len(loaded) + 1) /\ Len(loaded) \in Nat /\ DOMAIN loaded = 1 .. Len(loaded)
      /\ \A j \in DOMAIN done : done[j] = IF j = Len(loaded) + 1 THEN Top.path ELSE loaded[j]
  BY <1>0
<1> HIDE DEF done
<1>2. ASSUME NEW j \in DOMAIN done
      PROVE  /\ OpenIn(files, done[j])
             /\ \A n : ImportIn(files, done[j], n) =>
                         \E i \in DOMAIN done : i < j /\ done[i] = TargetIn(files, done[j], n)
  <2>1. CASE j = Len(loaded) + 1
    <3>1. done[j] = Top.path /\ OpenIn(files, Top.path) /\ Top.path \in Paths /\ Top.next \in Nat
      BY <1>1, <2>1, CallsAreOpen DEF Calls
    <3>2. ASSUME NEW n, ImportIn(files, Top.path, n)
          PROVE  \E i \in DOMAIN done : i < j /\ done[i] = TargetIn(files, Top.path, n)
      <4>1. n \in DOMAIN LinesIn(files, Top.path)
        BY <3>2 DEF ImportIn
      <4>2. n \in 1 .. Len(LinesIn(files, Top.path)) /\ Len(LinesIn(files, Top.path)) \in Nat
        BY <1>0, <3>1, <4>1, LinesType
      <4>3. n < Top.next
        BY <3>1, <4>2, CallsAreOpen
      <4>4. TargetIn(files, Top.path, n) \in ToSet(loaded)
        BY <3>2, <4>3, CallsAreOpen DEF Passed
      <4>5. PICK i \in DOMAIN loaded : loaded[i] = TargetIn(files, Top.path, n)
        BY <4>4 DEF ToSet
      <4> QED
        BY <1>1, <2>1, <4>5
    <3> QED
      BY <3>1, <3>2
  <2>2. CASE j # Len(loaded) + 1
    <3>1. j \in DOMAIN loaded /\ done[j] = loaded[j]
      BY <1>1, <2>2
    <3>2. \A i \in DOMAIN loaded : i \in DOMAIN done /\ done[i] = loaded[i]
      BY <1>1
    <3> QED
      BY <1>0, <3>1, <3>2 DEF InOrder
  <2> QED
    BY <2>1, <2>2
<1> QED
  BY <1>2 DEF InOrder, done

LEMMA CallsPreserved == IInv /\ CInv /\ [INext]_ivars => CInv'
<1> SUFFICES ASSUME IInv, CInv, [INext]_ivars
             PROVE  CInv'
  OBVIOUS
<1>0. /\ files \in FileSystems /\ active \in Seq(Calls) /\ loaded \in Seq(Paths) /\ path \in Paths
      /\ CallsOpen(files, loaded, active) /\ CallsWait(files, active) /\ InOrder(files, loaded)
      /\ Pending
  BY DEF IInv, ITypeOK, CInv
<1>1. CASE AlreadyLoaded
  <2>1. /\ at = "called" /\ path \in ToSet(loaded) /\ at' = "returned"
        /\ UNCHANGED <<files, active, loaded, path, error>>
    BY <1>1 DEF AlreadyLoaded
  <2>2. loaded # << >>
    BY <2>1 DEF ToSet
  <2>3. Pending'
    BY <1>0, <2>1, <2>2 DEF Pending
  <2> QED
    BY <1>0, <2>1, <2>3 DEF CInv
<1>2. CASE Open
  <2>1. /\ at = "called" /\ active' = Append(active, Call(path)) /\ at' = "reading"
        /\ UNCHANGED <<files, loaded, path, text, error>> /\ OpenIn(files, path)
    BY <1>2 DEF Open, CanOpen, OpenIn
  <2>2. Call(path).path = path
    BY DEF Call
  <2>3. /\ DOMAIN active' = 1 .. (Len(active) + 1) /\ DOMAIN active = 1 .. Len(active)
        /\ Len(active') = Len(active) + 1 /\ Len(active) \in Nat /\ active' # << >>
        /\ \A k \in DOMAIN active' :
             active'[k] = IF k = Len(active) + 1 THEN Call(path) ELSE active[k]
    BY <1>0, <2>1
  <2>4. CallsOpen(files, loaded, active')
    BY <1>0, <2>1, <2>2, <2>3, NonePassed DEF CallsOpen
  <2>5. CallsWait(files, active')
    <3> SUFFICES ASSUME NEW k \in DOMAIN active', k < Len(active')
                 PROVE  Waits(files, active'[k], active'[k + 1].path)
      BY DEF CallsWait
    <3>1. k \in DOMAIN active /\ k + 1 \in DOMAIN active' /\ active'[k] = active[k]
      BY <2>3
    <3>2. CASE k = Len(active)
      <4>1. active # << >> /\ active'[k + 1].path = path
        BY <2>2, <2>3, <3>1, <3>2
      <4>2. Waits(files, active[Len(active)], path)
        BY <1>0, <2>1, <4>1 DEF Pending
      <4> QED
        BY <3>1, <3>2, <4>1, <4>2
    <3>3. CASE k # Len(active)
      <4>1. active'[k + 1] = active[k + 1] /\ k < Len(active)
        BY <2>3, <3>1, <3>3
      <4> QED
        BY <1>0, <3>1, <4>1 DEF CallsWait
    <3> QED
      BY <3>2, <3>3
  <2>6. Pending'
    BY <2>1, <2>3 DEF Pending
  <2> QED
    BY <1>0, <2>1, <2>4, <2>5, <2>6 DEF CInv
<1>3. CASE Cycle
  <2>1. /\ at = "called" /\ path \in PathList(active) /\ at' = "failed"
        /\ UNCHANGED <<files, active, loaded, path, text, error>>
    BY <1>3 DEF Cycle
  <2>2. PICK first \in DOMAIN active : active[first].path = path
    BY <2>1 DEF PathList
  <2>3. active # << >>
    BY <2>2
  <2>4. Waits(files, active[Len(active)], path)
    BY <1>0, <2>1, <2>3 DEF Pending
  <2>5. Doomed(files, path)
    BY <1>0, <2>2, <2>3, <2>4, CycleDoomed DEF CallsWait
  <2>6. Pending'
    BY <2>1, <2>3, <2>4, <2>5 DEF Pending
  <2> QED
    BY <1>0, <2>1, <2>6 DEF CInv
<1>4. CASE CannotOpen
  <2>1. /\ at = "called" /\ ~OpenIn(files, path) /\ at' = "failed" /\ error'.file = path
        /\ UNCHANGED <<files, active, loaded, path, text>>
    BY <1>4 DEF CannotOpen, CanOpen, OpenIn, Error
  <2>2. CASE active # << >>
    <3>1. Waits(files, active[Len(active)], path)
      BY <1>0, <2>1, <2>2 DEF Pending
    <3>2. Doomed(files, path)
      BY <1>0, <2>1, ClosedDoomed
    <3>3. Pending'
      BY <2>1, <2>2, <3>1, <3>2 DEF Pending
    <3> QED
      BY <1>0, <2>1, <3>3 DEF CInv
  <2>3. CASE active = << >>
    <3>1. Blames(files, loaded, error')
      BY <2>1 DEF Blames
    <3>2. Pending'
      BY <2>1, <2>3, <3>1 DEF Pending
    <3> QED
      BY <1>0, <2>1, <3>2 DEF CInv
  <2> QED
    BY <2>2, <2>3
<1>5. CASE Import
  <2>1. /\ active # << >> /\ Top.next <= Len(File.lines) /\ Line.kind = "import"
        /\ at' = "called" /\ UNCHANGED <<files, active, loaded, text, error>>
        /\ path' = Imported(Top.path, Line)
    BY <1>5 DEF Import, IInv, Opened
  <2>2. Top.next \in DOMAIN LinesIn(files, Top.path) /\ Top = active[Len(active)]
    <3>1. Top.path \in Paths /\ Top.next \in Nat \ {0}
      BY <2>1, CallsAreOpen DEF Calls
    <3> QED
      BY <1>0, <2>1, <3>1, CallsAreOpen, LinesType
  <2>3. Waits(files, Top, path')
    BY <2>1, <2>2, CallsAreOpen DEF Waits, ImportIn, TargetIn
  <2>4. Pending'
    BY <2>1, <2>2, <2>3 DEF Pending
  <2> QED
    BY <1>0, <2>1, <2>4 DEF CInv
<1>6. ASSUME NEW e \in Calls, active # << >>, active' = Append(Front(active), e), e.path = Top.path,
             Passed(files, loaded, e),
             at' = "reading", UNCHANGED <<files, loaded, path, text, error>>
      PROVE  CInv'
  <2>1. CallsOpen(files, loaded, active') /\ CallsWait(files, active')
    BY <1>6, CallsGoOn
  <2>2. active' # << >>
    BY <1>0, <1>6, ReplacedType, CallsAreOpen
  <2>3. Pending'
    BY <1>6, <2>2 DEF Pending
  <2> QED
    BY <1>0, <1>6, <2>1, <2>3 DEF CInv
<1>7. CASE Copy
  <2> DEFINE piece == Piece(Top.path, Top.next, Top.next < Len(File.lines) \/ File.ended)
             called == [Top EXCEPT !.next = @ + 1, !.out = IF Keeps(Line) THEN Append(@, piece) ELSE @]
  <2>1. /\ active # << >> /\ active' = Append(Front(active), called) /\ Line.kind # "import"
        /\ at' = "reading" /\ UNCHANGED <<files, loaded, path, text, error>>
    BY <1>7 DEF Copy, IInv, Opened
  <2>2. piece \in Pieces
    BY <2>1, TopType DEF Piece, Pieces
  <2>3. called \in Calls /\ called.path = Top.path /\ called.next = Top.next + 1
    <3> DEFINE kept == IF Keeps(Line) THEN Append(Top.out, piece) ELSE Top.out
    <3> HIDE DEF piece
    <3>1. kept \in Seq(Pieces) /\ Top.next + 1 \in Nat \ {0}
      BY <2>1, <2>2, TopType
    <3>2. called = [Top EXCEPT !.next = Top.next + 1, !.out = kept]
      BY <2>1, TopType DEF Calls
    <3> HIDE DEF kept, called
    <3> QED
      BY <2>1, <3>1, <3>2, TopType DEF Calls
  <2> HIDE DEF called
  <2>4. ~ImportIn(files, Top.path, Top.next)
    BY <2>1, CallsAreOpen DEF ImportIn
  <2>5. Passed(files, loaded, called)
    BY <1>0, <2>1, <2>3, <2>4, CallsAreOpen, PassedNext
  <2> QED
    BY <1>6, <2>1, <2>3, <2>5
<1>8. CASE Finish
  <2>1. /\ active # << >> /\ active' = Front(active) /\ loaded' = Append(loaded, Top.path)
        /\ Top.next > Len(File.lines) /\ at' = "returned" /\ UNCHANGED <<files, path>>
    BY <1>8 DEF Finish, IInv, Opened
  <2>2. InOrder(files, loaded')
    BY <2>1, InOrderMore
  <2>3. CallsWait(files, active')
    BY <2>1, CallsLeft
  <2>4. CallsOpen(files, loaded', active')
    <3>1. CallsOpen(files, loaded, active')
      BY <2>1, CallsLeft
    <3> QED
      BY <1>0, <2>1, <3>1, PassedMore DEF CallsOpen
  <2>5. loaded' # << >> /\ Top.path \in ToSet(loaded')
    <3>1. /\ loaded' \in Seq(Paths) /\ Len(loaded') = Len(loaded) + 1 /\ Len(loaded) \in Nat
          /\ loaded'[Len(loaded) + 1] = Top.path
      BY <1>0, <2>1, TopType
    <3>2. Len(loaded) + 1 \in DOMAIN loaded'
      BY <3>1
    <3> QED
      BY <3>1, <3>2 DEF ToSet
  <2>6. active' # << >> => Waits(files, active'[Len(active')], Top.path)
    BY <2>1, CallsLeft
  <2>7. Pending'
    BY <2>1, <2>5, <2>6 DEF Pending
  <2> QED
    BY <2>1, <2>2, <2>3, <2>4, <2>7 DEF CInv
<1>9. CASE Returned
  <2> DEFINE called == [Top EXCEPT !.next = @ + 1, !.out = @ \o text]
  <2>1. /\ active # << >> /\ active' = Append(Front(active), called) /\ at = "returned"
        /\ at' = "reading" /\ UNCHANGED <<files, loaded, path, text, error>>
    BY <1>9 DEF Returned
  <2>2. Top.out \o text \in Seq(Pieces) /\ Top.next + 1 \in Nat \ {0}
    BY <2>1, TopType DEF IInv, ITypeOK
  <2>3. called \in Calls /\ called.path = Top.path /\ called.next = Top.next + 1
    BY <2>1, <2>2, TopType DEF Calls
  <2> HIDE DEF called
  <2>4. TargetIn(files, Top.path, Top.next) \in ToSet(loaded)
    BY <1>0, <2>1, CallsAreOpen DEF Pending, Waits
  <2>5. Passed(files, loaded, called)
    BY <1>0, <2>1, <2>3, <2>4, CallsAreOpen, PassedNext
  <2> QED
    BY <1>6, <2>1, <2>3, <2>5
<1>10. CASE Fail
  <2>1. /\ active # << >> /\ active' = Front(active) /\ at = "failed" /\ at' = "failed"
        /\ error' = Error(Top.path, Top.next, "failed to resolve import")
        /\ UNCHANGED <<files, loaded, at, path, text>>
    BY <1>10 DEF Fail
  <2>2. /\ CallsWait(files, active') /\ CallsOpen(files, loaded, active')
        /\ active' # << >> => Waits(files, active'[Len(active')], Top.path)
    BY <2>1, CallsLeft
  <2>3. PICK p : Waits(files, Top, p) /\ Doomed(files, p)
    BY <1>0, <2>1, CallsAreOpen DEF Pending
  <2>4. Doomed(files, Top.path)
    BY <2>1, <2>3, CallsAreOpen, ImportDoomed DEF Calls
  <2>5. Blames(files, loaded, error')
    <3>1. error'.file = Top.path /\ error'.line = Top.next
      BY <2>1 DEF Error
    <3> QED
      BY <2>1, <2>3, <3>1, CallsAreOpen DEF Blames
  <2>6. Pending'
    BY <2>1, <2>2, <2>4, <2>5 DEF Pending
  <2> QED
    BY <1>0, <2>1, <2>2, <2>6 DEF CInv
<1>11. CASE UNCHANGED ivars
  BY <1>0, <1>11 DEF ivars, CInv, Pending
<1> QED
  BY <1>1, <1>2, <1>3, <1>4, <1>5, <1>7, <1>8, <1>9, <1>10, <1>11 DEF INext

\* What this says of what is resolved and what is not.
LEMMA ResolvedRightly ==
  ASSUME IInv, CInv
  PROVE  ResolvesRightly
<1>0. loaded \in Seq(Paths) /\ InOrder(files, loaded) /\ files \in FileSystems /\ Pending
  BY DEF IInv, ITypeOK, CInv
<1>1. ASSUME Resolved
      PROVE  ChainsEnd(Last(loaded), Len(loaded))
  <2>1. loaded # << >>
    BY <1>0, <1>1 DEF Resolved, Pending
  <2>2. Last(loaded) \in ToSet(loaded)
    BY <1>0, <2>1, EmptySeq DEF Last, ToSet
  <2> QED
    BY <1>0, <2>2, DoneEnds, ChainsEndIn
<1>2. ASSUME NotResolved, CanOpen(error.file)
      PROVE  LET lines == LinesAt(error.file)
                 imports == {n \in DOMAIN lines : lines[n].kind = "import"}
             IN  /\ error.line \in imports
                 /\ \A n \in 0 .. Steps : ~ChainsEnd(Imported(error.file, lines[error.line]), n)
                 /\ \A n \in imports :
                      n < error.line => ChainsEnd(Imported(error.file, lines[n]), Len(loaded))
  <2>0. PICK call \in Calls :
          /\ call.path = error.file /\ call.next = error.line /\ Passed(files, loaded, call)
          /\ \E p : Waits(files, call, p) /\ Doomed(files, p)
    BY <1>0, <1>2 DEF NotResolved, Pending, Blames, CanOpen, OpenIn
  <2>1. PICK p : /\ call.path = error.file /\ call.next = error.line
                 /\ Passed(files, loaded, call) /\ Waits(files, call, p) /\ Doomed(files, p)
    BY <2>0
  <2>2. /\ error.line \in DOMAIN LinesAt(error.file)
        /\ LinesAt(error.file)[error.line].kind = "import"
        /\ Imported(error.file, LinesAt(error.file)[error.line]) = p
    BY <2>1 DEF Waits, ImportIn, TargetIn, LinesAt, LinesIn
  <2>3. ASSUME NEW n \in 0 .. Steps
        PROVE  ~ChainsEnd(p, n)
    <3>1. n \in Nat /\ n \in 0 .. n
      OBVIOUS
    <3> QED
      BY <2>1, <3>1, ChainsEndIn DEF Doomed
  <2>4. ASSUME NEW n \in DOMAIN LinesAt(error.file),
               LinesAt(error.file)[n].kind = "import", n < error.line
        PROVE  ChainsEnd(Imported(error.file, LinesAt(error.file)[n]), Len(loaded))
    <3>1. ImportIn(files, call.path, n) /\ n < call.next
      BY <2>1, <2>4 DEF ImportIn, LinesAt, LinesIn
    <3>2. TargetIn(files, call.path, n) \in ToSet(loaded)
      BY <2>1, <3>1 DEF Passed
    <3>3. TargetIn(files, call.path, n) = Imported(error.file, LinesAt(error.file)[n])
      BY <2>1 DEF TargetIn, LinesAt, LinesIn
    <3> QED
      BY <1>0, <3>2, <3>3, DoneEnds, ChainsEndIn
  <2> QED
    BY <2>2, <2>3, <2>4
<1> QED
  BY <1>1, <1>2 DEF ResolvesRightly

-----------------------------------------------------------------------------
(***************************************************************************)
(* The text so far: what the calls in progress have, one after the other,  *)
(* and behind it what is being returned. cuts[k] is where the part of call *)
(* k ends in it.                                                           *)
(***************************************************************************)
PartsOf(whole, cuts, calls) ==
  /\ cuts \in [0 .. Len(calls) -> Nat] /\ cuts[0] = 0
  /\ \A k \in 1 .. Len(calls) :
       /\ cuts[k] = cuts[k - 1] + Len(calls[k].out)
       /\ \A i \in 1 .. Len(calls[k].out) : calls[k].out[i] = whole[cuts[k - 1] + i]

Rest(whole, from, piece) ==
  /\ Len(whole) = from + Len(piece)
  /\ \A i \in 1 .. Len(piece) : piece[i] = whole[from + i]

\* Line n of the file at p has been read.
Read(fs, done, calls, p, n) ==
  /\ n \in DOMAIN LinesIn(fs, p)
  /\ p \in ToSet(done) \/ \E k \in DOMAIN calls : calls[k].path = p /\ n < calls[k].next

EntryOf(done, calls) == IF calls # << >> THEN calls[1].path ELSE Last(done)

\* The lines that are to be in the text.
Due(fs, done, calls) ==
  {pn \in Paths \X Nat : /\ Read(fs, done, calls, pn[1], pn[2])
                         /\ Copied(LinesIn(fs, pn[1])[pn[2]], pn[1] = EntryOf(done, calls))}

There(whole) == {<<whole[i].file, whole[i].line>> : i \in DOMAIN whole}

Rising(whole) ==
  \A j, k \in DOMAIN whole :
    j < k /\ whole[j].file = whole[k].file => whole[j].line < whole[k].line

Behind(fs, done, whole) ==
  \A j \in DOMAIN whole : \A n :
    ImportIn(fs, whole[j].file, n) /\ n < whole[j].line =>
      LET q == TargetIn(fs, whole[j].file, n)
      IN  q \in ToSet(done) /\ \A k \in DOMAIN whole : whole[k].file = q => k < j

Content(fs, done, calls, whole) ==
  Rising(whole) /\ There(whole) = Due(fs, done, calls) /\ Behind(fs, done, whole)

Written ==
  \E whole \in Seq(Pieces) : \E cuts :
    /\ PartsOf(whole, cuts, active) /\ Content(files, loaded, active, whole)
    /\ IF at = "returned" THEN Rest(whole, cuts[Len(active)], text)
                          ELSE Len(whole) = cuts[Len(active)]

TInv == at # "failed" => Written

LEMMA BehindMore ==
  ASSUME NEW fs, NEW done \in Seq(Paths), NEW p, NEW whole, Behind(fs, done, whole)
  PROVE  Behind(fs, Append(done, p), whole)
<1>1. ToSet(done) \subseteq ToSet(Append(done, p))
  BY DEF ToSet
<1> QED
  BY <1>1 DEF Behind

LEMMA TextInitially == IInit => TInv
<1> SUFFICES ASSUME IInit PROVE Written
  BY DEF TInv
<1> DEFINE cuts == [k \in 0 .. 0 |-> 0]
<1>1. active = << >> /\ loaded = << >> /\ at = "called"
  BY DEF IInit
<1>2. PartsOf(<< >>, cuts, active) /\ Len(<< >>) = cuts[Len(active)]
  BY <1>1 DEF PartsOf
<1>3. Content(files, loaded, active, << >>)
  BY <1>1 DEF Content, Rising, There, Due, Behind, Read, ToSet
<1>4. << >> \in Seq(Pieces)
  OBVIOUS
<1> HIDE DEF cuts
<1> QED
  BY <1>1, <1>2, <1>3, <1>4 DEF Written

\* The innermost call is the only one of its file, which is not done with.
LEMMA OnlyOne ==
  ASSUME IInv, active # << >>
  PROVE  /\ Top.path \notin ToSet(loaded)
         /\ \A k \in DOMAIN active : active[k].path = Top.path => k = Len(active)
BY TopType DEF IInv, NoneTwice, ActiveOnce, NotBoth, ToSet

\* Another innermost call of the same file, which has read as much as it has.
LEMMA TopReplaced ==
  ASSUME IInv, CInv, active # << >>, NEW e \in Calls, e.path = Top.path
  PROVE  LET calls == Append(Front(active), e)
         IN  /\ calls \in Seq(Calls) /\ Len(calls) = Len(active) /\ DOMAIN calls = DOMAIN active
             /\ DOMAIN active = 1 .. Len(active) /\ Len(active) \in Nat \ {0}
             /\ \A k \in DOMAIN active : calls[k] = IF k = Len(active) THEN e ELSE active[k]
             /\ calls # << >> /\ EntryOf(loaded, calls) = EntryOf(loaded, active)
             /\ \A p, n : Read(files, loaded, calls, p, n) <=>
                            IF p = Top.path THEN n \in DOMAIN LinesIn(files, p) /\ n < e.next
                            ELSE Read(files, loaded, active, p, n)
             /\ \A n : Read(files, loaded, active, Top.path, n) <=>
                         n \in DOMAIN LinesIn(files, Top.path) /\ n < Top.next
<1> DEFINE calls == Append(Front(active), e)
<1>0. active \in Seq(Calls)
  BY DEF IInv, ITypeOK
<1>1. /\ calls \in Seq(Calls) /\ DOMAIN calls = DOMAIN active
      /\ \A k \in DOMAIN active : calls[k] = IF k = Len(active) THEN e ELSE active[k]
  BY <1>0, ReplacedType
<1>2. Len(calls) = Len(active)
  <2>1. Front(active) \in Seq(Calls) /\ DOMAIN Front(active) = 1 .. (Len(active) - 1)
    BY <1>0, FrontType
  <2> HIDE DEF calls
  <2> QED
    BY <1>0, <1>1
<1> HIDE DEF calls
<1>3. DOMAIN active = 1 .. Len(active) /\ Len(active) \in Nat \ {0} /\ calls # << >>
  BY <1>0, <1>1, <1>2, EmptySeq
<1>4. Top = active[Len(active)] /\ Len(active) \in DOMAIN active
  BY CallsAreOpen
<1>5. EntryOf(loaded, calls) = EntryOf(loaded, active)
  BY <1>1, <1>3, <1>4 DEF EntryOf
<1>6. \A n : Read(files, loaded, active, Top.path, n) <=>
               n \in DOMAIN LinesIn(files, Top.path) /\ n < Top.next
  BY <1>4, OnlyOne DEF Read
<1>7. \A p, n : Read(files, loaded, calls, p, n) <=>
                  IF p = Top.path THEN n \in DOMAIN LinesIn(files, p) /\ n < e.next
                  ELSE Read(files, loaded, active, p, n)
  <2> TAKE p, n
  <2>1. CASE p = Top.path
    BY <2>1, <1>1, <1>4, OnlyOne DEF Read
  <2>2. CASE p # Top.path
    BY <2>2, <1>1, <1>4 DEF Read
  <2> QED
    BY <2>1, <2>2
<1> QED
  BY <1>1, <1>2, <1>3, <1>5, <1>6, <1>7 DEF calls

\* Nothing that is to be in the text becomes more or less.
LEMMA ContentSame ==
  ASSUME NEW fs, NEW done, NEW calls, NEW done2, NEW calls2, NEW whole,
         Content(fs, done, calls, whole), Behind(fs, done2, whole),
         \A p \in Paths, n \in Nat :
           Read(fs, done2, calls2, p, n) /\ Copied(LinesIn(fs, p)[n], p = EntryOf(done2, calls2)) <=>
           Read(fs, done, calls, p, n) /\ Copied(LinesIn(fs, p)[n], p = EntryOf(done, calls))
  PROVE  Content(fs, done2, calls2, whole)
<1>1. Due(fs, done2, calls2) = Due(fs, done, calls)
  BY DEF Due
<1> QED
  BY <1>1 DEF Content

LEMMA OpenWrites ==
  ASSUME IInv, CInv, Written, Open
  PROVE  Written'
<1>1. /\ at = "called" /\ active' = Append(active, Call(path)) /\ at' = "reading"
      /\ UNCHANGED <<files, loaded, path, text, error>> /\ OpenIn(files, path)
      /\ path \notin ToSet(loaded)
  BY DEF Open, CanOpen, OpenIn
<1>2. /\ files \in FileSystems /\ active \in Seq(Calls) /\ loaded \in Seq(Paths) /\ path \in Paths
  BY DEF IInv, ITypeOK
<1>3a. PICK whole \in Seq(Pieces) : \E cuts :
        /\ PartsOf(whole, cuts, active) /\ Content(files, loaded, active, whole)
        /\ Len(whole) = cuts[Len(active)]
  BY <1>1 DEF Written
<1>3. PICK cuts :
        /\ PartsOf(whole, cuts, active) /\ Content(files, loaded, active, whole)
        /\ Len(whole) = cuts[Len(active)]
  BY <1>3a
<1>4. /\ DOMAIN active' = 1 .. (Len(active) + 1) /\ DOMAIN active = 1 .. Len(active)
      /\ Len(active') = Len(active) + 1 /\ Len(active) \in Nat /\ active' # << >>
      /\ \A k \in DOMAIN active' :
           active'[k] = IF k = Len(active) + 1 THEN Call(path) ELSE active[k]
  BY <1>1, <1>2
<1>5. Call(path).path = path /\ Call(path).next = 1 /\ Call(path).out = << >>
  BY DEF Call
<1> DEFINE more == [k \in 0 .. Len(active') |-> IF k = Len(active) + 1 THEN Len(whole) ELSE cuts[k]]
<1>6. PartsOf(whole, more, active')
  <2>1. Len(whole) \in Nat /\ cuts \in [0 .. Len(active) -> Nat] /\ cuts[0] = 0
    BY <1>3 DEF PartsOf
  <2>2. more \in [0 .. Len(active') -> Nat] /\ more[0] = 0
    BY <1>4, <2>1
  <2>3. \A k \in 0 .. Len(active) : more[k] = cuts[k]
    BY <1>4
  <2>4. more[Len(active) + 1] = Len(whole)
    BY <1>4
  <2> HIDE DEF more
  <2>5. ASSUME NEW k \in 1 .. Len(active')
        PROVE  /\ more[k] = more[k - 1] + Len(active'[k].out)
               /\ \A i \in 1 .. Len(active'[k].out) : active'[k].out[i] = whole[more[k - 1] + i]
    <3>1. CASE k = Len(active) + 1
      <4>1. active'[k].out = << >> /\ k - 1 = Len(active)
        BY <1>4, <1>5, <3>1
      <4>2. more[k - 1] = Len(whole) /\ more[k] = Len(whole)
        BY <1>3, <1>4, <2>3, <2>4, <3>1, <4>1
      <4> QED
        BY <2>1, <4>1, <4>2
    <3>2. CASE k # Len(active) + 1
      <4>1. k \in 1 .. Len(active) /\ k - 1 \in 0 .. Len(active) /\ k \in 0 .. Len(active)
        BY <1>4, <3>2
      <4>2. active'[k] = active[k] /\ more[k] = cuts[k] /\ more[k - 1] = cuts[k - 1]
        BY <1>4, <2>3, <4>1
      <4> QED
        BY <1>3, <4>1, <4>2 DEF PartsOf
    <3> QED
      BY <3>1, <3>2
  <2> QED
    BY <2>2, <2>5 DEF PartsOf
<1>7. Content(files, loaded, active', whole)
  <2>1. \A p, n : Read(files, loaded, active', p, n) <=> Read(files, loaded, active, p, n)
    <3> TAKE p, n
    <3>1. p = path => ~(n \in DOMAIN LinesIn(files, p) /\ n < 1)
      BY <1>1, <1>2, LinesType
    <3>2. Read(files, loaded, active', p, n) =>  Read(files, loaded, active, p, n)
      BY <1>1, <1>4, <1>5, <3>1 DEF Read
    <3>3. Read(files, loaded, active, p, n) =>  Read(files, loaded, active', p, n)
      BY <1>4 DEF Read
    <3> QED
      BY <3>2, <3>3
  <2>2. CASE active # << >>
    <3>1. EntryOf(loaded, active') = EntryOf(loaded, active)
      <4>1. Len(active) # 0
        BY <1>2, <2>2, EmptySeq
      <4>2. 1 \in DOMAIN active' /\ 1 # Len(active) + 1
        BY <1>4, <4>1
      <4>3. active'[1] = active[1]
        BY <1>4, <4>2
      <4> HIDE DEF more
      <4> QED
        BY <1>4, <2>2, <4>3 DEF EntryOf
    <3> QED
      BY <1>3, <2>1, <3>1, ContentSame DEF Content
  <2>3. CASE active = << >>
    <3>1. loaded = << >>
      BY <1>1, <2>3 DEF CInv, Pending
    <3>2. \A p, n : ~Read(files, loaded, active, p, n)
      BY <2>3, <3>1 DEF Read, ToSet
    <3> QED
      BY <1>3, <2>1, <3>2, ContentSame DEF Content
  <2> QED
    BY <2>2, <2>3
<1>8. more[Len(active')] = Len(whole)
  BY <1>4
<1> HIDE DEF more
<1> QED
  BY <1>1, <1>6, <1>7, <1>8 DEF Written

LEMMA FinishWrites ==
  ASSUME IInv, CInv, Written, Finish
  PROVE  Written'
<1>1. /\ active # << >> /\ active' = Front(active) /\ loaded' = Append(loaded, Top.path)
      /\ Top.next > Len(File.lines) /\ at = "reading" /\ at' = "returned" /\ text' = Top.out
      /\ UNCHANGED <<files, path>>
  BY DEF Finish, IInv, Opened
<1>2. /\ files \in FileSystems /\ active \in Seq(Calls) /\ loaded \in Seq(Paths)
  BY DEF IInv, ITypeOK
<1>3a. PICK whole \in Seq(Pieces) : \E cuts :
        /\ PartsOf(whole, cuts, active) /\ Content(files, loaded, active, whole)
        /\ Len(whole) = cuts[Len(active)]
  BY <1>1 DEF Written
<1>3. PICK cuts :
        /\ PartsOf(whole, cuts, active) /\ Content(files, loaded, active, whole)
        /\ Len(whole) = cuts[Len(active)]
  BY <1>3a
<1> DEFINE m == Len(active)
<1>4. /\ active' \in Seq(Calls) /\ m \in Nat \ {0}
      /\ DOMAIN active' = 1 .. (m - 1) /\ DOMAIN active = 1 .. m
      /\ \A k \in 1 .. (m - 1) : active'[k] = active[k]
  BY <1>1, Shortened
<1> HIDE DEF m
<1>5. Len(active') = m - 1
  <2>1. m - 1 \in Nat
    BY <1>4
  <2>2. Len(active') \in Nat /\ DOMAIN active' = 1 .. Len(active')
    BY <1>4
  <2> QED
    BY <1>4, <2>1, <2>2, SameInterval
<1>6. Top = active[m] /\ m \in DOMAIN active /\ Top.path \in Paths /\ Top.out \in Seq(Pieces)
  BY <1>1, TopType DEF m
<1> DEFINE less == [k \in 0 .. (m - 1) |-> cuts[k]]
<1>7. cuts \in [0 .. m -> Nat] /\ cuts[0] = 0
  BY <1>3 DEF PartsOf, m
<1>8. less \in [0 .. Len(active') -> Nat] /\ less[0] = 0 /\ \A k \in 0 .. (m - 1) : less[k] = cuts[k]
  BY <1>4, <1>5, <1>7
<1> HIDE DEF less
<1>9. PartsOf(whole, less, active')
  <2>1. ASSUME NEW k \in 1 .. Len(active')
        PROVE  /\ less[k] = less[k - 1] + Len(active'[k].out)
               /\ \A i \in 1 .. Len(active'[k].out) : active'[k].out[i] = whole[less[k - 1] + i]
    <3>1. k \in 1 .. m /\ k \in 1 .. (m - 1) /\ k \in 0 .. (m - 1) /\ k - 1 \in 0 .. (m - 1)
      BY <1>4, <1>5
    <3>2. active'[k] = active[k] /\ less[k] = cuts[k] /\ less[k - 1] = cuts[k - 1]
      BY <1>4, <1>8, <3>1
    <3> QED
      BY <1>3, <3>1, <3>2 DEF PartsOf, m
  <2> QED
    BY <1>8, <2>1 DEF PartsOf
<1>10. Rest(whole, less[Len(active')], text')
  <2>1. m - 1 \in 0 .. (m - 1) /\ m \in 1 .. m
    BY <1>4
  <2>2. less[Len(active')] = cuts[m - 1]
    BY <1>5, <1>8, <2>1
  <2>3. cuts[m] = cuts[m - 1] + Len(Top.out) /\ \A i \in 1 .. Len(Top.out) : Top.out[i] = whole[cuts[m - 1] + i]
    BY <1>3, <1>6, <2>1 DEF PartsOf, m
  <2> QED
    BY <1>1, <1>3, <2>2, <2>3 DEF Rest, m
<1>11. Content(files, loaded', active', whole)
  <2>0. ToSet(loaded') = ToSet(loaded) \cup {Top.path}
    <3>1. /\ DOMAIN loaded' = 1 .. (Len(loaded) + 1) /\ DOMAIN loaded = 1 .. Len(loaded)
          /\ Len(loaded) \in Nat
          /\ \A j \in DOMAIN loaded' : loaded'[j] = IF j = Len(loaded) + 1 THEN Top.path ELSE loaded[j]
      BY <1>1, <1>2, <1>6
    <3> QED
      BY <3>1 DEF ToSet
  <2>1. \A p, n : Read(files, loaded', active', p, n) <=> Read(files, loaded, active, p, n)
    <3> TAKE p, n
    <3>1. p = Top.path /\ n \in DOMAIN LinesIn(files, p) => n < Top.next
      <4> SUFFICES ASSUME p = Top.path, n \in DOMAIN LinesIn(files, p) PROVE n < Top.next
        OBVIOUS
      <4>1. n \in 1 .. Len(LinesIn(files, Top.path)) /\ Len(LinesIn(files, Top.path)) \in Nat
        BY <1>1, <1>2, <1>6, CallsAreOpen, LinesType
      <4>2. Top.next \in Nat /\ Top.next > Len(LinesIn(files, Top.path))
        BY <1>1, CallsAreOpen DEF Calls
      <4> QED
        BY <4>1, <4>2
    <3>2. Read(files, loaded', active', p, n) => Read(files, loaded, active, p, n)
      BY <1>4, <1>6, <2>0, <3>1 DEF Read
    <3>3. ASSUME Read(files, loaded, active, p, n)
          PROVE  Read(files, loaded', active', p, n)
      <4>1. CASE p \in ToSet(loaded)
        BY <2>0, <3>3, <4>1 DEF Read
      <4>2. ASSUME NEW k \in DOMAIN active, active[k].path = p /\ n < active[k].next
            PROVE  Read(files, loaded', active', p, n)
        <5>1. CASE k = m
          BY <1>6, <2>0, <3>3, <4>2, <5>1 DEF Read
        <5>2. CASE k # m
          <6>1. k \in 1 .. (m - 1)
            BY <1>4, <5>2
          <6>2. k \in DOMAIN active' /\ active'[k] = active[k]
            BY <1>4, <6>1
          <6> QED
            BY <3>3, <4>2, <6>2 DEF Read
        <5> QED
          BY <5>1, <5>2
      <4> QED
        BY <3>3, <4>1, <4>2 DEF Read
    <3> QED
      BY <3>2, <3>3
  <2>2. EntryOf(loaded', active') = EntryOf(loaded, active)
    <3>1. CASE m = 1
      <4>1. active' = << >> /\ active[1] = Top
        BY <1>4, <1>5, <1>6, <3>1, EmptySeq
      <4>2. /\ loaded' \in Seq(Paths) /\ Len(loaded') = Len(loaded) + 1 /\ Len(loaded) \in Nat
            /\ loaded'[Len(loaded) + 1] = Top.path
        BY <1>1, <1>2, <1>6
      <4>3. Last(loaded') = Top.path
        BY <4>2 DEF Last
      <4> QED
        BY <1>1, <4>1, <4>3 DEF EntryOf
    <3>2. CASE m # 1
      <4>1. 1 \in 1 .. (m - 1)
        BY <1>4, <3>2
      <4>2. active' # << >> /\ active'[1] = active[1]
        BY <1>4, <4>1
      <4> QED
        BY <1>1, <4>2 DEF EntryOf
    <3> QED
      BY <3>1, <3>2
  <2>3. Behind(files, loaded', whole)
    BY <1>1, <1>2, <1>3, BehindMore DEF Content
  <2> QED
    BY <1>3, <2>1, <2>2, <2>3, ContentSame
<1> QED
  BY <1>1, <1>9, <1>10, <1>11 DEF Written

LEMMA ReturnedWrites ==
  ASSUME IInv, CInv, Written, Returned
  PROVE  Written'
<1> DEFINE called == [Top EXCEPT !.next = @ + 1, !.out = @ \o text]
           m == Len(active)
<1>1. /\ active # << >> /\ active' = Append(Front(active), called)
      /\ at = "returned" /\ at' = "reading" /\ UNCHANGED <<files, loaded, path, text>>
  BY DEF Returned
<1>2. Top \in Calls /\ Top.next \in Nat \ {0} /\ Top.out \in Seq(Pieces) /\ text \in Seq(Pieces)
  BY <1>1, TopType DEF IInv, ITypeOK
<1>3. Top.out \o text \in Seq(Pieces) /\ Top.next + 1 \in Nat \ {0}
  BY <1>2
<1>4. /\ called \in Calls /\ called.path = Top.path /\ called.next = Top.next + 1
      /\ called.out = Top.out \o text
  BY <1>2, <1>3 DEF Calls
<1> HIDE DEF called
<1>5. /\ active' \in Seq(Calls) /\ Len(active') = m /\ active' # << >> /\ m \in Nat \ {0}
      /\ DOMAIN active = 1 .. m
      /\ \A k \in 1 .. m : active'[k] = IF k = m THEN called ELSE active[k]
      /\ EntryOf(loaded, active') = EntryOf(loaded, active)
      /\ \A p, n : Read(files, loaded, active', p, n) <=>
                     IF p = Top.path THEN n \in DOMAIN LinesIn(files, p) /\ n < called.next
                     ELSE Read(files, loaded, active, p, n)
      /\ \A n : Read(files, loaded, active, Top.path, n) <=>
                  n \in DOMAIN LinesIn(files, Top.path) /\ n < Top.next
  BY <1>1, <1>4, TopReplaced
<1>6a. PICK whole \in Seq(Pieces) : \E cuts :
        /\ PartsOf(whole, cuts, active) /\ Content(files, loaded, active, whole)
        /\ Rest(whole, cuts[m], text)
  BY <1>1 DEF Written
<1>6. PICK cuts :
        /\ PartsOf(whole, cuts, active) /\ Content(files, loaded, active, whole)
        /\ Rest(whole, cuts[m], text)
  BY <1>6a
<1>7. Top = active[m]
  BY <1>1, TopType DEF m
<1> HIDE DEF m
<1>8. cuts \in [0 .. m -> Nat] /\ cuts[0] = 0
  BY <1>6 DEF PartsOf, m
<1> DEFINE more == [cuts EXCEPT ![m] = Len(whole)]
<1>9. /\ more \in [0 .. m -> Nat] /\ more[0] = 0 /\ more[m] = Len(whole)
      /\ \A k \in 0 .. m : k # m => more[k] = cuts[k]
  BY <1>5, <1>8
<1> HIDE DEF more
<1>10. /\ cuts[m] = cuts[m - 1] + Len(Top.out) /\ more[m - 1] = cuts[m - 1] /\ cuts[m - 1] \in Nat
       /\ \A i \in 1 .. Len(Top.out) : Top.out[i] = whole[cuts[m - 1] + i]
       /\ Len(whole) = cuts[m] + Len(text)
       /\ \A i \in 1 .. Len(text) : text[i] = whole[cuts[m] + i]
  <2>1. m \in 1 .. m /\ m - 1 \in 0 .. m /\ m - 1 # m
    BY <1>5
  <2>2. cuts[m] = cuts[m - 1] + Len(Top.out)
    BY <1>6, <1>7, <2>1 DEF PartsOf, m
  <2>3. \A i \in 1 .. Len(Top.out) : Top.out[i] = whole[cuts[m - 1] + i]
    BY <1>6, <1>7, <2>1 DEF PartsOf, m
  <2> QED
    BY <1>6, <1>8, <1>9, <2>1, <2>2, <2>3 DEF Rest
<1>11. /\ more[m] = more[m - 1] + Len(called.out)
       /\ \A i \in 1 .. Len(called.out) : called.out[i] = whole[more[m - 1] + i]
  <2>1. PICK out \in Seq(Pieces), told \in Seq(Pieces) : out = Top.out /\ told = text
    BY <1>2
  <2>2. /\ Len(called.out) = Len(out) + Len(told) /\ Len(out) \in Nat /\ Len(told) \in Nat
        /\ \A i \in 1 .. (Len(out) + Len(told)) :
             called.out[i] = IF i <= Len(out) THEN out[i] ELSE told[i - Len(out)]
    BY <1>4, <2>1, ConcatProperties
  <2>3. ASSUME NEW i \in 1 .. Len(called.out)
        PROVE  called.out[i] = whole[more[m - 1] + i]
    <3>1. CASE i <= Len(out)
      <4>1. i \in 1 .. Len(out)
        BY <2>2, <3>1
      <4> QED
        BY <1>10, <2>1, <2>2, <3>1, <4>1
    <3>2. CASE ~(i <= Len(out))
      <4>1. i - Len(out) \in 1 .. Len(told)
        BY <2>2, <3>2
      <4>2. called.out[i] = text[i - Len(out)]
        BY <2>1, <2>2, <3>2
      <4>3. text[i - Len(out)] = whole[cuts[m] + (i - Len(out))]
        BY <1>10, <2>1, <4>1
      <4>4. \A a, b \in Nat : \A j \in Int : (a + b) + (j - b) = a + j
        OBVIOUS
      <4>5. cuts[m] + (i - Len(out)) = cuts[m - 1] + i
        <5>1. i \in Int /\ Len(out) \in Nat /\ cuts[m - 1] \in Nat
          BY <1>10, <2>2
        <5>2. cuts[m] = cuts[m - 1] + Len(out)
          BY <1>10, <2>1
        <5> HIDE DEF m
        <5> QED
          BY <4>4, <5>1, <5>2
      <4> QED
        BY <1>10, <4>2, <4>3, <4>5
    <3> QED
      BY <3>1, <3>2
  <2>4. more[m] = more[m - 1] + Len(called.out)
    <3>1. \A a, b, c \in Nat : (a + b) + c = a + (b + c)
      OBVIOUS
    <3> QED
      BY <1>9, <1>10, <2>1, <2>2, <3>1
  <2> QED
    BY <2>3, <2>4
<1>12. PartsOf(whole, more, active')
  <2>1. ASSUME NEW k \in 1 .. m
        PROVE  /\ more[k] = more[k - 1] + Len(active'[k].out)
               /\ \A i \in 1 .. Len(active'[k].out) : active'[k].out[i] = whole[more[k - 1] + i]
    <3>1. CASE k = m
      BY <1>5, <1>11, <3>1
    <3>2. CASE k # m
      <4>1. active'[k] = active[k] /\ more[k] = cuts[k] /\ more[k - 1] = cuts[k - 1]
        <5>1. k \in 0 .. m /\ k - 1 \in 0 .. m /\ k - 1 # m
          BY <1>5
        <5> QED
          BY <1>5, <1>9, <3>2, <5>1
      <4> QED
        BY <1>6, <4>1 DEF PartsOf, m
    <3> QED
      BY <3>1, <3>2
  <2> QED
    BY <1>5, <1>9, <2>1 DEF PartsOf
<1>13. Content(files, loaded, active', whole)
  <2>1. ImportIn(files, Top.path, Top.next)
    BY <1>1, CallsAreOpen DEF CInv, Pending, Waits
  <2>2. ~Copied(LinesIn(files, Top.path)[Top.next], Top.path = EntryOf(loaded, active))
    BY <2>1 DEF ImportIn, Copied
  <2>3. \A p \in Paths, n \in Nat :
          Read(files, loaded, active', p, n)
            <=> Read(files, loaded, active, p, n) \/ (p = Top.path /\ n = Top.next)
    <3> TAKE p \in Paths, n \in Nat
    <3>1. n < called.next <=> n < Top.next \/ n = Top.next
      BY <1>2, <1>4
    <3>2. n = Top.next /\ p = Top.path => n \in DOMAIN LinesIn(files, p)
      BY <2>1 DEF ImportIn
    <3> QED
      BY <1>5, <3>1, <3>2
  <2> QED
    BY <1>5, <1>6, <2>2, <2>3, ContentSame DEF Content
<1> QED
  BY <1>1, <1>5, <1>9, <1>12, <1>13 DEF Written

\* The part of every call lies within the text.
LEMMA PartInside ==
  ASSUME NEW whole, NEW cuts, NEW calls \in Seq(Calls), PartsOf(whole, cuts, calls),
         Len(whole) = cuts[Len(calls)], NEW k \in 1 .. Len(calls)
  PROVE  \A i \in 1 .. Len(calls[k].out) : cuts[k - 1] + i \in 1 .. Len(whole)
<1> DEFINE m == Len(calls)
           P == {j \in 0 .. m : \A h \in 0 .. j : cuts[h] <= cuts[j]}
<1>1. /\ m \in Nat /\ cuts \in [0 .. m -> Nat]
      /\ \A j \in 1 .. m : Len(calls[j].out) \in Nat /\ cuts[j] = cuts[j - 1] + Len(calls[j].out)
  <2>1. \A j \in 1 .. m : calls[j] \in Calls
    OBVIOUS
  <2>2. \A j \in 1 .. m : calls[j].out \in Seq(Pieces)
    BY <2>1 DEF Calls
  <2>3. \A j \in 1 .. m : Len(calls[j].out) \in Nat
    BY <2>2
  <2>4. \A j \in 1 .. m : cuts[j] = cuts[j - 1] + Len(calls[j].out)
    BY DEF PartsOf
  <2>5. m \in Nat /\ cuts \in [0 .. m -> Nat]
    BY DEF PartsOf
  <2> QED
    BY <2>3, <2>4, <2>5
<1> HIDE DEF m
<1>2. 0 \in P
  BY <1>1
<1>3. ASSUME NEW j \in 1 .. m, j - 1 \in P
      PROVE  j \in P
  <2>1. cuts[j - 1] \in Nat /\ cuts[j] \in Nat /\ cuts[j - 1] <= cuts[j]
    <3>1. j \in 0 .. m /\ j - 1 \in 0 .. m
      BY <1>1
    <3>2. cuts[j - 1] \in Nat
      BY <1>1, <3>1
    <3>3. cuts[j] \in Nat
      BY <1>1, <3>1
    <3>4. Len(calls[j].out) \in Nat /\ cuts[j] = cuts[j - 1] + Len(calls[j].out)
      BY <1>1
    <3> HIDE DEF P
    <3> QED
      BY <3>2, <3>3, <3>4
  <2> SUFFICES ASSUME NEW h \in 0 .. j PROVE cuts[h] <= cuts[j]
    BY <1>1
  <2>2. h \in 0 .. m
    BY <1>1
  <2>3. cuts[h] \in Nat
    BY <1>1, <2>2
  <2>4. h \in 0 .. (j - 1) \/ h = j
    BY <1>1
  <2>5. h \in 0 .. (j - 1) => cuts[h] <= cuts[j - 1]
    BY <1>3
  <2> QED
    BY <2>1, <2>3, <2>4, <2>5
<1>4. \A j \in 0 .. m : j \in P
  <2> HIDE DEF P
  <2> QED
    BY <1>1, <1>2, <1>3, Induction
<1>5. m \in P /\ k \in 0 .. m /\ k - 1 \in 0 .. m
  BY <1>1, <1>4 DEF m
<1>6. cuts[k] <= cuts[m] /\ cuts[k - 1] \in Nat /\ cuts[k] \in Nat /\ cuts[m] \in Nat
  BY <1>1, <1>5
<1>7. cuts[k] = cuts[k - 1] + Len(calls[k].out) /\ Len(calls[k].out) \in Nat /\ Len(whole) = cuts[m]
  BY <1>1 DEF m
<1>8. \A a, b, c, d \in Nat : b = a + c /\ b <= d => \A i \in 1 .. c : a + i \in 1 .. d
  OBVIOUS
<1> QED
  BY <1>6, <1>7, <1>8

\* A line of the innermost call at the end of the text.
LEMMA ContentMore ==
  ASSUME IInv, CInv, active # << >>, NEW calls, NEW piece \in Pieces, NEW whole \in Seq(Pieces),
         Content(files, loaded, active, whole),
         piece.file = Top.path, piece.line = Top.next,
         Top.next \in DOMAIN LinesIn(files, Top.path),
         Copied(LinesIn(files, Top.path)[Top.next], Top.path = EntryOf(loaded, active)),
         EntryOf(loaded, calls) = EntryOf(loaded, active),
         \A p \in Paths, n \in Nat :
           Read(files, loaded, calls, p, n)
             <=> Read(files, loaded, active, p, n) \/ (p = Top.path /\ n = Top.next),
         \A n : Read(files, loaded, active, Top.path, n) => n < Top.next
  PROVE  Content(files, loaded, calls, Append(whole, piece))
<1> DEFINE w == Append(whole, piece)
<1>1. /\ DOMAIN w = 1 .. (Len(whole) + 1) /\ DOMAIN whole = 1 .. Len(whole) /\ Len(whole) \in Nat
      /\ \A i \in DOMAIN w : w[i] = IF i = Len(whole) + 1 THEN piece ELSE whole[i]
  OBVIOUS
<1> HIDE DEF w
<1>2. Top.path \in Paths /\ Top.next \in Nat /\ Top.path \notin ToSet(loaded)
  BY TopType, OnlyOne
<1>3. There(w) = There(whole) \cup {<<Top.path, Top.next>>}
  <2>1. ASSUME NEW i \in DOMAIN w
        PROVE  <<w[i].file, w[i].line>> \in There(whole) \cup {<<Top.path, Top.next>>}
    BY <1>1 DEF There
  <2>2. Len(whole) + 1 \in DOMAIN w /\ w[Len(whole) + 1] = piece
    BY <1>1
  <2>3. <<Top.path, Top.next>> \in There(w)
    BY <2>2 DEF There
  <2>4. \A i \in DOMAIN whole : i \in DOMAIN w /\ w[i] = whole[i]
    BY <1>1
  <2>5. There(whole) \subseteq There(w)
    BY <2>4 DEF There
  <2> QED
    BY <2>1, <2>3, <2>5 DEF There
<1>4. Due(files, loaded, calls) = Due(files, loaded, active) \cup {<<Top.path, Top.next>>}
  <2>1. \A p \in Paths, n \in Nat :
          <<p, n>> \in Due(files, loaded, calls)
            <=> <<p, n>> \in Due(files, loaded, active) \/ (p = Top.path /\ n = Top.next)
    BY DEF Due
  <2>2. \A pn \in Paths \X Nat :
          pn \in Due(files, loaded, calls)
            <=> pn \in Due(files, loaded, active) \cup {<<Top.path, Top.next>>}
    BY <2>1
  <2> QED
    BY <1>2, <2>2 DEF Due
<1>5. \A i \in DOMAIN whole : whole[i].file = Top.path => whole[i].line < Top.next
  <2> SUFFICES ASSUME NEW i \in DOMAIN whole, whole[i].file = Top.path
               PROVE  whole[i].line < Top.next
    OBVIOUS
  <2>1. <<Top.path, whole[i].line>> \in Due(files, loaded, active)
    BY DEF There, Content
  <2> QED
    BY <2>1 DEF Due
<1>6. Rising(w)
  <2> SUFFICES ASSUME NEW j \in DOMAIN w, NEW k \in DOMAIN w, j < k, w[j].file = w[k].file
               PROVE  w[j].line < w[k].line
    BY DEF Rising
  <2>1. j \in DOMAIN whole /\ w[j] = whole[j]
    BY <1>1
  <2>2. CASE k = Len(whole) + 1
    BY <1>1, <1>5, <2>1, <2>2
  <2>3. CASE k # Len(whole) + 1
    <3>1. k \in DOMAIN whole /\ w[k] = whole[k]
      BY <1>1, <2>3
    <3> QED
      BY <2>1, <3>1 DEF Content, Rising
  <2> QED
    BY <2>2, <2>3
<1>7. Behind(files, loaded, w)
  <2> SUFFICES ASSUME NEW j \in DOMAIN w, NEW n, NEW q, ImportIn(files, w[j].file, n), n < w[j].line,
                      q = TargetIn(files, w[j].file, n)
               PROVE  q \in ToSet(loaded) /\ \A k \in DOMAIN w : w[k].file = q => k < j
    BY DEF Behind
  <2>1. CASE j = Len(whole) + 1
    <3>1. q \in ToSet(loaded)
      BY <1>1, <2>1, CallsAreOpen DEF Passed
    <3>2. \A k \in DOMAIN w : w[k].file = q => k < j
      BY <1>1, <1>2, <2>1, <3>1
    <3> QED
      BY <3>1, <3>2
  <2>2. CASE j # Len(whole) + 1
    <3>1. j \in DOMAIN whole /\ w[j] = whole[j]
      BY <1>1, <2>2
    <3>2. q \in ToSet(loaded) /\ \A k \in DOMAIN whole : whole[k].file = q => k < j
      BY <3>1 DEF Content, Behind
    <3> QED
      BY <1>1, <1>2, <3>2
  <2> QED
    BY <2>1, <2>2
<1> QED
  BY <1>3, <1>4, <1>6, <1>7 DEF Content, w

LEMMA CopyWrites ==
  ASSUME IInv, CInv, Written, Copy
  PROVE  Written'
<1> DEFINE piece == Piece(Top.path, Top.next, Top.next < Len(File.lines) \/ File.ended)
           called == [Top EXCEPT !.next = @ + 1, !.out = IF Keeps(Line) THEN Append(@, piece) ELSE @]
           out == IF Keeps(Line) THEN Append(Top.out, piece) ELSE Top.out
           m == Len(active)
<1>1. /\ active # << >> /\ active' = Append(Front(active), called) /\ Line.kind # "import"
      /\ Top.next <= Len(File.lines)
      /\ at = "reading" /\ at' = "reading" /\ UNCHANGED <<files, loaded, path, text>>
  BY DEF Copy, IInv, Opened
<1>2. /\ Top \in Calls /\ Top.path \in Paths /\ Top.next \in Nat \ {0} /\ Top.out \in Seq(Pieces)
      /\ files \in FileSystems /\ active \in Seq(Calls)
  BY <1>1, TopType DEF IInv, ITypeOK
<1>3. piece \in Pieces /\ piece.file = Top.path /\ piece.line = Top.next
  BY <1>2 DEF Piece, Pieces
<1>4. called \in Calls /\ called.path = Top.path /\ called.next = Top.next + 1 /\ called.out = out
  <2> HIDE DEF piece
  <2>1. out \in Seq(Pieces) /\ Top.next + 1 \in Nat \ {0}
    BY <1>2, <1>3
  <2>2. called = [Top EXCEPT !.next = Top.next + 1, !.out = out]
    BY <1>2 DEF Calls
  <2> HIDE DEF called, out
  <2> QED
    BY <1>2, <2>1, <2>2 DEF Calls
<1> HIDE DEF called, piece
<1>5. /\ active' \in Seq(Calls) /\ Len(active') = m /\ active' # << >> /\ m \in Nat \ {0}
      /\ DOMAIN active = 1 .. m
      /\ \A k \in 1 .. m : active'[k] = IF k = m THEN called ELSE active[k]
      /\ EntryOf(loaded, active') = EntryOf(loaded, active)
      /\ \A p, n : Read(files, loaded, active', p, n) <=>
                     IF p = Top.path THEN n \in DOMAIN LinesIn(files, p) /\ n < called.next
                     ELSE Read(files, loaded, active, p, n)
      /\ \A n : Read(files, loaded, active, Top.path, n) <=>
                  n \in DOMAIN LinesIn(files, Top.path) /\ n < Top.next
  BY <1>1, <1>4, TopReplaced
<1>6a. PICK whole \in Seq(Pieces) : \E cuts :
        /\ PartsOf(whole, cuts, active) /\ Content(files, loaded, active, whole)
        /\ Len(whole) = cuts[m]
  BY <1>1 DEF Written
<1>6. PICK cuts :
        /\ PartsOf(whole, cuts, active) /\ Content(files, loaded, active, whole)
        /\ Len(whole) = cuts[m]
  BY <1>6a
<1>7. Top = active[m]
  BY <1>1, TopType DEF m
<1>8. Keeps(Line) <=> Copied(LinesIn(files, Top.path)[Top.next], Top.path = EntryOf(loaded, active))
  <2>1. Top.path = active[1].path <=> m = 1
    BY <1>1, <1>5, <1>7, OnlyOne
  <2> QED
    BY <1>1, <2>1, CallsAreOpen DEF Keeps, Copied, IsEntry, EntryOf
<1> HIDE DEF m
<1>9. cuts \in [0 .. m -> Nat] /\ cuts[0] = 0
  BY <1>6 DEF PartsOf, m
<1>10. Top.next \in DOMAIN LinesIn(files, Top.path)
  BY <1>1, <1>2, CallsAreOpen, LinesType
<1>11. \A p \in Paths, n \in Nat :
         Read(files, loaded, active', p, n)
           <=> Read(files, loaded, active, p, n) \/ (p = Top.path /\ n = Top.next)
  <2> TAKE p \in Paths, n \in Nat
  <2>1. n < called.next <=> n < Top.next \/ n = Top.next
    BY <1>2, <1>4
  <2> QED
    BY <1>5, <1>10, <2>1
<1>12. /\ cuts[m] = cuts[m - 1] + Len(Top.out) /\ cuts[m - 1] \in Nat
       /\ \A i \in 1 .. Len(Top.out) : Top.out[i] = whole[cuts[m - 1] + i]
  <2>1. m \in 1 .. m /\ m - 1 \in 0 .. m
    BY <1>5
  <2>2. cuts[m] = cuts[m - 1] + Len(Top.out)
    BY <1>6, <1>7, <2>1 DEF PartsOf, m
  <2>3. \A i \in 1 .. Len(Top.out) : Top.out[i] = whole[cuts[m - 1] + i]
    BY <1>6, <1>7, <2>1 DEF PartsOf, m
  <2> QED
    BY <1>9, <2>1, <2>2, <2>3
<1> DEFINE w == IF Keeps(Line) THEN Append(whole, piece) ELSE whole
           more == [cuts EXCEPT ![m] = Len(w)]
<1>13. w \in Seq(Pieces) /\ Len(w) \in Nat /\ \A i \in 1 .. Len(whole) : w[i] = whole[i]
  BY <1>3
<1>14. Len(w) = cuts[m - 1] + Len(out) /\ \A i \in 1 .. Len(out) : out[i] = w[cuts[m - 1] + i]
  <2>1. PICK told \in Seq(Pieces) : told = Top.out
    BY <1>2
  <2>2. CASE Keeps(Line)
    <3>1. /\ Len(w) = Len(whole) + 1 /\ w[Len(whole) + 1] = piece
          /\ Len(out) = Len(told) + 1 /\ out[Len(told) + 1] = piece
          /\ Len(told) \in Nat /\ \A i \in 1 .. Len(told) : out[i] = told[i]
      BY <1>3, <2>1, <2>2
    <3> HIDE DEF w, out
    <3>2. \A a, b \in Nat : (a + b) + 1 = a + (b + 1) /\ \A i \in 1 .. b : a + i \in 1 .. (a + b)
      OBVIOUS
    <3>3. Len(whole) = cuts[m - 1] + Len(told)
      BY <1>6, <1>12, <2>1 DEF m
    <3>4. Len(w) = cuts[m - 1] + Len(out) /\ Len(whole) + 1 = cuts[m - 1] + (Len(told) + 1)
      BY <1>12, <3>1, <3>2, <3>3
    <3>5. ASSUME NEW i \in 1 .. Len(out) PROVE out[i] = w[cuts[m - 1] + i]
      <4>1. CASE i = Len(told) + 1
        BY <3>1, <3>4, <4>1
      <4>2. CASE i # Len(told) + 1
        <5>1. i \in 1 .. Len(told)
          BY <3>1, <4>2
        <5>2. cuts[m - 1] + i \in 1 .. Len(whole)
          BY <1>12, <3>1, <3>2, <3>3, <5>1
        <5> QED
          BY <1>12, <1>13, <2>1, <3>1, <5>1, <5>2
      <4> QED
        BY <4>1, <4>2
    <3> QED
      BY <3>4, <3>5
  <2>3. CASE ~Keeps(Line)
    BY <1>6, <1>12, <2>3 DEF m
  <2> QED
    BY <2>2, <2>3
<1>15. Content(files, loaded, active', w)
  <2>1. CASE Keeps(Line)
    <3>1. \A n : Read(files, loaded, active, Top.path, n) => n < Top.next
      BY <1>5
    <3>2. w = Append(whole, piece)
      BY <2>1
    <3> HIDE DEF w
    <3>3. Content(files, loaded, active', Append(whole, piece))
      BY <1>1, <1>2, <1>3, <1>5, <1>6, <1>8, <1>10, <1>11, <2>1, <3>1, ContentMore
    <3> QED
      BY <3>2, <3>3
  <2>2. CASE ~Keeps(Line)
    <3>1. w = whole
      BY <2>2
    <3> HIDE DEF w
    <3> QED
      BY <1>5, <1>6, <1>8, <1>11, <2>2, <3>1, ContentSame DEF Content
  <2> QED
    BY <2>1, <2>2
<1> HIDE DEF w
<1>16. /\ more \in [0 .. m -> Nat] /\ more[0] = 0 /\ more[m] = Len(w)
       /\ \A k \in 0 .. m : k # m => more[k] = cuts[k]
  BY <1>5, <1>9, <1>13
<1> HIDE DEF more
<1>17. PartsOf(w, more, active')
  <2> HIDE DEF out
  <2>1. \A k \in 1 .. m : k \in 0 .. m /\ k - 1 \in 0 .. m /\ k - 1 # m
    BY <1>5
  <2>2. ASSUME NEW k \in 1 .. m
        PROVE  /\ more[k] = more[k - 1] + Len(active'[k].out)
               /\ \A i \in 1 .. Len(active'[k].out) : active'[k].out[i] = w[more[k - 1] + i]
    <3>1. CASE k = m
      <4>1. active'[k].out = out /\ more[k] = Len(w) /\ more[k - 1] = cuts[m - 1]
        BY <1>4, <1>5, <1>16, <2>1, <3>1
      <4> QED
        BY <1>14, <4>1
    <3>2. CASE k # m
      <4>1. active'[k] = active[k] /\ more[k] = cuts[k] /\ more[k - 1] = cuts[k - 1]
        BY <1>5, <1>16, <2>1, <3>2
      <4>2. /\ cuts[k] = cuts[k - 1] + Len(active[k].out)
            /\ \A i \in 1 .. Len(active[k].out) : active[k].out[i] = whole[cuts[k - 1] + i]
        BY <1>6 DEF PartsOf, m
      <4>3. \A i \in 1 .. Len(active[k].out) : cuts[k - 1] + i \in 1 .. Len(whole)
        BY PartInside, <1>2, <1>6 DEF m
      <4> QED
        BY <1>13, <4>1, <4>2, <4>3
    <3> QED
      BY <3>1, <3>2
  <2> QED
    BY <1>5, <1>16, <2>2 DEF PartsOf
<1> QED
  BY <1>1, <1>5, <1>13, <1>15, <1>16, <1>17 DEF Written

LEMMA TextPreserved == IInv /\ CInv /\ TInv /\ [INext]_ivars => TInv'
<1> SUFFICES ASSUME IInv, CInv, TInv, [INext]_ivars, at' # "failed"
             PROVE  Written'
  BY DEF TInv
<1>1. CASE AlreadyLoaded
  <2>1. /\ at = "called" /\ at' = "returned" /\ text' = << >>
        /\ UNCHANGED <<files, active, loaded, path, error>>
    BY <1>1 DEF AlreadyLoaded
  <2>2a. PICK whole \in Seq(Pieces) : \E cuts :
          /\ PartsOf(whole, cuts, active) /\ Content(files, loaded, active, whole)
          /\ Len(whole) = cuts[Len(active)]
    BY <2>1 DEF TInv, Written
  <2>2. PICK cuts :
          /\ PartsOf(whole, cuts, active) /\ Content(files, loaded, active, whole)
          /\ Len(whole) = cuts[Len(active)]
    BY <2>2a
  <2>3. Rest(whole, cuts[Len(active)], text')
    BY <2>1, <2>2 DEF Rest
  <2> QED
    BY <2>1, <2>2, <2>3 DEF Written
<1>2. CASE Open
  BY <1>2, OpenWrites DEF Open, TInv
<1>3. CASE Cycle
  BY <1>3 DEF Cycle
<1>4. CASE CannotOpen
  BY <1>4 DEF CannotOpen
<1>5. CASE Import
  <2>1. at = "reading" /\ at' = "called" /\ UNCHANGED <<files, active, loaded, text>>
    BY <1>5 DEF Import
  <2> QED
    BY <2>1 DEF TInv, Written
<1>6. CASE Copy
  BY <1>6, CopyWrites DEF Copy, TInv
<1>7. CASE Finish
  BY <1>7, FinishWrites DEF Finish, TInv
<1>8. CASE Returned
  BY <1>8, ReturnedWrites DEF Returned, TInv
<1>9. CASE Fail
  BY <1>9 DEF Fail
<1>10. CASE UNCHANGED ivars
  BY <1>10 DEF ivars, TInv, Written
<1> QED
  BY <1>1, <1>2, <1>3, <1>4, <1>5, <1>6, <1>7, <1>8, <1>9, <1>10 DEF INext

\* What this says of the text that is returned in the end.
LEMMA ResolvedText ==
  ASSUME IInv, CInv, TInv, Resolved
  PROVE  /\ Content(files, loaded, active, text) /\ loaded # << >>
         /\ \A p, n : Read(files, loaded, active, p, n) <=>
                        p \in ToSet(loaded) /\ n \in DOMAIN LinesAt(p)
         /\ EntryOf(loaded, active) = Last(loaded)
<1>1. at = "returned" /\ active = << >> /\ text \in Seq(Pieces)
  BY DEF Resolved, IInv, ITypeOK
<1>2a. PICK whole \in Seq(Pieces) : \E cuts :
        /\ PartsOf(whole, cuts, active) /\ Content(files, loaded, active, whole)
        /\ Rest(whole, cuts[Len(active)], text)
  BY <1>1 DEF TInv, Written
<1>2. PICK cuts :
        /\ PartsOf(whole, cuts, active) /\ Content(files, loaded, active, whole)
        /\ Rest(whole, cuts[Len(active)], text)
  BY <1>2a
<1>3. cuts[Len(active)] = 0
  BY <1>1, <1>2 DEF PartsOf
<1>4. /\ Len(whole) = 0 + Len(text) /\ Len(text) \in Nat
      /\ \A i \in 1 .. Len(text) : text[i] = whole[0 + i]
  BY <1>1, <1>2, <1>3 DEF Rest
<1>5. Len(whole) = Len(text) /\ \A i \in 1 .. Len(text) : text[i] = whole[i]
  BY <1>4
<1>6. text = whole
  BY <1>1, <1>2, <1>5, SeqEqual
<1> QED
  BY <1>1, <1>2, <1>6 DEF CInv, Pending, Read, EntryOf, LinesAt, LinesIn

LEMMA LinesOnce ==
  ASSUME IInv, CInv, TInv
  PROVE  EachLineOnce
<1> SUFFICES ASSUME Resolved
             PROVE  /\ Rising(text)
                    /\ \A p \in ToSet(loaded) \cup {piece.file : piece \in ToSet(text)} :
                         {piece.line : piece \in {t \in ToSet(text) : t.file = p}} =
                           {n \in DOMAIN LinesAt(p) : Copied(LinesAt(p)[n], p = Last(loaded))}
  BY DEF EachLineOnce, Rising
<1>1. /\ Content(files, loaded, active, text) /\ files \in FileSystems
      /\ text \in Seq(Pieces) /\ loaded \in Seq(Paths) /\ InOrder(files, loaded)
  BY ResolvedText DEF IInv, ITypeOK, CInv
<1>2. ASSUME NEW p \in Paths, NEW n \in Nat
      PROVE  (\E i \in DOMAIN text : text[i].file = p /\ text[i].line = n) <=>
               /\ p \in ToSet(loaded) /\ n \in DOMAIN LinesAt(p)
               /\ Copied(LinesAt(p)[n], p = Last(loaded))
  <2>1. (\E i \in DOMAIN text : text[i].file = p /\ text[i].line = n) <=> <<p, n>> \in There(text)
    BY DEF There
  <2>2. <<p, n>> \in There(text) <=> <<p, n>> \in Due(files, loaded, active)
    BY <1>1 DEF Content
  <2>3. <<p, n>> \in Due(files, loaded, active) <=>
          Read(files, loaded, active, p, n) /\ Copied(LinesIn(files, p)[n], p = Last(loaded))
    BY ResolvedText DEF Due
  <2> QED
    BY <2>1, <2>2, <2>3, ResolvedText DEF LinesAt, LinesIn
<1>3. \A i \in DOMAIN text : text[i].file \in Paths /\ text[i].line \in Nat
  <2>1. \A i \in DOMAIN text : text[i] \in Pieces
    BY <1>1
  <2> QED
    BY <2>1 DEF Pieces
<1>4. ASSUME NEW p \in ToSet(loaded) \cup {piece.file : piece \in ToSet(text)}
      PROVE  {piece.line : piece \in {t \in ToSet(text) : t.file = p}} =
               {n \in DOMAIN LinesAt(p) : Copied(LinesAt(p)[n], p = Last(loaded))}
  <2>1. p \in ToSet(loaded)
    <3>1. CASE p \in {piece.file : piece \in ToSet(text)}
      <4>1. PICK i \in DOMAIN text : text[i].file = p
        BY <3>1 DEF ToSet
      <4> QED
        BY <1>2, <1>3, <4>1
    <3> QED
      BY <3>1
  <2>2. p \in Paths
    BY <1>1, <2>1 DEF ToSet
  <2>3. \A n \in DOMAIN LinesAt(p) : n \in Nat
    <3>1. OpenIn(files, p)
      BY <1>1, <2>1 DEF InOrder, ToSet
    <3> QED
      BY <1>1, <2>2, <3>1, LinesType DEF LinesAt, LinesIn
  <2>4. \A n : n \in {piece.line : piece \in {t \in ToSet(text) : t.file = p}} <=>
                 \E i \in DOMAIN text : text[i].file = p /\ text[i].line = n
    BY DEF ToSet
  <2>5. \A n : n \in {piece.line : piece \in {t \in ToSet(text) : t.file = p}} <=>
                 n \in {l \in DOMAIN LinesAt(p) : Copied(LinesAt(p)[l], p = Last(loaded))}
    <3> TAKE n
    <3>1. (\E i \in DOMAIN text : text[i].file = p /\ text[i].line = n) => n \in Nat
      BY <1>3
    <3>2. n \in DOMAIN LinesAt(p) => n \in Nat
      BY <2>3
    <3>3. n \in Nat =>
            ((\E i \in DOMAIN text : text[i].file = p /\ text[i].line = n) <=>
               n \in DOMAIN LinesAt(p) /\ Copied(LinesAt(p)[n], p = Last(loaded)))
      BY <1>2, <2>1, <2>2
    <3>4. n \in {l \in DOMAIN LinesAt(p) : Copied(LinesAt(p)[l], p = Last(loaded))}
            <=> n \in DOMAIN LinesAt(p) /\ Copied(LinesAt(p)[n], p = Last(loaded))
      OBVIOUS
    <3>5. (\E i \in DOMAIN text : text[i].file = p /\ text[i].line = n) <=>
            n \in DOMAIN LinesAt(p) /\ Copied(LinesAt(p)[n], p = Last(loaded))
      BY <3>1, <3>2, <3>3
    <3>6. n \in {piece.line : piece \in {t \in ToSet(text) : t.file = p}} <=>
            \E i \in DOMAIN text : text[i].file = p /\ text[i].line = n
      BY <2>4
    <3> QED
      BY <3>4, <3>5, <3>6
  <2> QED
    BY <2>5
<1> QED
  BY <1>1, <1>4 DEF Content

LEMMA ImportsBefore ==
  ASSUME IInv, CInv, TInv
  PROVE  ImportsFirst
<1> SUFFICES ASSUME Resolved, NEW j \in DOMAIN text, NEW k \in DOMAIN text,
                    NEW n \in DOMAIN LinesAt(text[j].file),
                    n < text[j].line, LinesAt(text[j].file)[n].kind = "import",
                    Imported(text[j].file, LinesAt(text[j].file)[n]) = text[k].file
             PROVE  k < j
  BY DEF ImportsFirst
<1>1. Behind(files, loaded, text)
  BY ResolvedText DEF Content
<1>2. ImportIn(files, text[j].file, n) /\ TargetIn(files, text[j].file, n) = text[k].file
  BY DEF ImportIn, TargetIn, LinesAt, LinesIn
<1> QED
  BY <1>1, <1>2 DEF Behind

(***************************************************************************)
(* The text that is compiled has every line of what the entry imports,     *)
(* directly or not, once and in its place, behind what it needs; and there *)
(* is none exactly if a chain of imports leads to a file that is not there *)
(* or back to where it came from (resolve_imports_recursive).              *)
(***************************************************************************)
THEOREM TextAssembled == ISpec => []Assembled
<1>1. IInv /\ CInv /\ TInv => Assembled
  BY LinesOnce, ImportsBefore, ResolvedRightly DEF Assembled
<1> QED
  BY Initially, Preserved, CallsInitially, CallsPreserved, TextInitially, TextPreserved, <1>1, PTL DEF ISpec
=============================================================================
