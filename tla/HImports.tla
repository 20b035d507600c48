------------------------------ MODULE HImports ------------------------------
(***************************************************************************)
(* Import resolution (compiler/src/frontend/pipeline.c): a source file and *)
(* what it imports become one text. resolve_imports_recursive calls itself *)
(* at an import; `active` holds its calls that have not returned yet, the  *)
(* innermost last, and their paths are the code's list of active paths.    *)
(*                                                                         *)
(* A path is the sequence of its components as it is spelled, the ending   *)
(* ".hosc" being one of its own. Files are compared by their spelling and  *)
(* opened by what it means.                                                *)
(***************************************************************************)
EXTENDS Naturals, FiniteSets, SequencesExt, HBind

CONSTANTS Components,   \* what paths are made of
          FileSystems,  \* what may be found: the file at each meaning of a path
          Entries,      \* the paths the compiler may be called with
          MaxPath       \* the components of a path that the system accepts

\* A path has a component, a module a name.
Paths == Seq(Components) \ {<< >>}
ASSUME ComponentsAssumption == {".", ".hosc"} \subseteq Components
ASSUME EntriesAssumption == Entries \subseteq Paths
ASSUME FilesAssumption ==
  \A system \in FileSystems : \A f \in DOMAIN system :
    /\ system[f].lines \in Seq(ToSet(system[f].lines))
    /\ \A line \in ToSet(system[f].lines) : line.kind = "import" => line.module \in Paths

VARIABLES files,      \* the file system, which nothing changes
          active,     \* the calls in progress
          loaded,     \* the paths of the files that are done with
          at,         \* what the innermost call does next
          path,       \* the path to be resolved next, the entry at first
          text,       \* what a call returned
          error       \* g_last_resolution_file, _line and _error

ivars == <<files, active, loaded, at, path, text, error>>

\* What a path means to the system; it is relative to the root.
Follow(dir, name) ==
  CASE name = "." -> dir
    [] name = "/" -> << >>
    [] name = ".." /\ dir # << >> -> Front(dir)
    [] name = ".." /\ dir = << >> -> dir
    [] OTHER -> Append(dir, name)

Meaning(p) == FoldLeft(Follow, << >>, p)

CanOpen(p) == Len(p) <= MaxPath /\ Meaning(p) \in DOMAIN files

\* The first component of an absolute path is "/".
IsAbsolute(p) == p[1] = "/"

\* dirname_of
Names(p) == IF Last(p) = ".hosc" THEN Front(p) ELSE p
Dirname(p) == IF Len(Names(p)) <= 1 THEN <<".">> ELSE Front(Names(p))

\* join_path
Join(base, child) == IF IsAbsolute(child) THEN child ELSE base \o child

(***************************************************************************)
(* module_to_path: the dots of a module are slashes. ".hosc" anywhere in   *)
(* its name keeps it from getting that ending, although the dot is gone.   *)
(***************************************************************************)
ModuleToPath(module, quoted) ==
  IF quoted \/ "hosc" \in ToSet(Tail(module)) THEN module ELSE Append(module, ".hosc")

\* What a line of the file at p imports.
Imported(p, line) == Join(Dirname(p), ModuleToPath(line.module, line.quoted))

PathList(calls) == {calls[k].path : k \in DOMAIN calls}

Error(file, line, what) == [file |-> file, line |-> line, what |-> what]
NoError == Error(<< >>, 1, "none")

Call(p) == [path |-> p, next |-> 1, out |-> << >>]

\* A line of the text: where it stands, and whether its end came with it.
Piece(file, n, whole) == [file |-> file, line |-> n, whole |-> whole]

Top == Last(active)
File == files[Meaning(Top.path)]
Line == File.lines[Top.next]
IsEntry == Len(active) = 1

IInit == /\ files \in FileSystems
         /\ active = << >> /\ loaded = << >>
         /\ at = "called" /\ path \in Entries
         /\ text = << >> /\ error = NoError

-----------------------------------------------------------------------------
\* Resolved once: nothing more to include.
AlreadyLoaded == /\ at = "called" /\ path \in ToSet(loaded)
                 /\ at' = "returned" /\ text' = << >>
                 /\ UNCHANGED <<files, active, loaded, path, error>>

\* Mutant: the files being read are not looked at.
OpenAnyway == /\ at = "called" /\ path \notin ToSet(loaded) /\ CanOpen(path)
              /\ active' = Append(active, Call(path))
              /\ at' = "reading"
              /\ UNCHANGED <<files, loaded, path, text, error>>

Open == /\ at = "called" /\ path \notin ToSet(loaded) /\ path \notin PathList(active)
        /\ CanOpen(path)
        /\ active' = Append(active, Call(path))
        /\ at' = "reading"
        /\ UNCHANGED <<files, loaded, path, text, error>>

\* A cycle has no message of its own.
Cycle == /\ at = "called" /\ path \notin ToSet(loaded) /\ path \in PathList(active)
         /\ at' = "failed"
         /\ UNCHANGED <<files, active, loaded, path, text, error>>

CannotOpen ==
  /\ at = "called" /\ path \notin ToSet(loaded) \cup PathList(active) /\ ~CanOpen(path)
  /\ at' = "failed"
  /\ error' = Error(path, 1, IF active = << >> THEN "cannot open source file"
                             ELSE "cannot open imported file")
  /\ UNCHANGED <<files, active, loaded, path, text>>

Import == /\ at = "reading" /\ Top.next <= Len(File.lines) /\ Line.kind = "import"
          /\ at' = "called"
          /\ path' = Imported(Top.path, Line)
          /\ UNCHANGED <<files, active, loaded, text, error>>

Keeps(line) == IsEntry \/ line.kind # "package"

Copy == /\ at = "reading" /\ Top.next <= Len(File.lines) /\ Line.kind # "import"
        /\ LET piece == Piece(Top.path, Top.next, Top.next < Len(File.lines) \/ File.ended)
           IN  active' = Append(Front(active),
                           [Top EXCEPT !.next = @ + 1,
                                       !.out = IF Keeps(Line) THEN Append(@, piece) ELSE @])
        /\ UNCHANGED <<files, loaded, at, path, text, error>>

Finish == /\ at = "reading" /\ Top.next > Len(File.lines)
          /\ loaded' = Append(loaded, Top.path)
          /\ active' = Front(active)
          /\ at' = "returned" /\ text' = Top.out
          /\ UNCHANGED <<files, path, error>>

\* Mutant: what was imported comes before what is there.
ReturnedFirst ==
  /\ at = "returned" /\ active # << >>
  /\ active' = Append(Front(active), [Top EXCEPT !.next = @ + 1, !.out = text \o @])
  /\ at' = "reading"
  /\ UNCHANGED <<files, loaded, path, text, error>>

\* Mutant: the line of the import is read again.
ReturnedStays ==
  /\ at = "returned" /\ active # << >>
  /\ active' = Append(Front(active), [Top EXCEPT !.out = @ \o text])
  /\ at' = "reading"
  /\ UNCHANGED <<files, loaded, path, text, error>>

Returned == /\ at = "returned" /\ active # << >>
            /\ active' = Append(Front(active), [Top EXCEPT !.next = @ + 1, !.out = @ \o text])
            /\ at' = "reading"
            /\ UNCHANGED <<files, loaded, path, text, error>>

\* Each call on the way out says that it is its import that failed.
Fail == /\ at = "failed" /\ active # << >>
        /\ error' = Error(Top.path, Top.next, "failed to resolve import")
        /\ active' = Front(active)
        /\ UNCHANGED <<files, loaded, at, path, text>>

INext == \/ AlreadyLoaded \/ Open \/ Cycle \/ CannotOpen
         \/ Import \/ Copy \/ Finish \/ Returned \/ Fail

ISpec == IInit /\ [][INext]_ivars

Resolved == at = "returned" /\ active = << >>
NotResolved == at = "failed" /\ active = << >>

-----------------------------------------------------------------------------
(***************************************************************************)
(* However files import each other, no path is read twice: those of the    *)
(* calls in progress and of the files done with are all different          *)
(* (path_list_contains, path_list_push). Including a file once, and the    *)
(* end of the recursion, rest on this.                                     *)
(***************************************************************************)
LoadedOnce == \A j, k \in DOMAIN loaded : loaded[j] = loaded[k] => j = k
ActiveOnce == \A j, k \in DOMAIN active : active[j].path = active[k].path => j = k
NotBoth == \A j \in DOMAIN loaded, k \in DOMAIN active : loaded[j] # active[k].path

NoneTwice == LoadedOnce /\ ActiveOnce /\ NotBoth

LinesAt(p) == files[Meaning(p)].lines

(***************************************************************************)
(* Every line of every file that was read is in the text once and in its   *)
(* place: all but the imports, and the packages of imported files.         *)
(***************************************************************************)
Copied(line, entry) == line.kind # "import" /\ (line.kind = "package" => entry)

EachLineOnce ==
  Resolved =>
    /\ \A j, k \in DOMAIN text :
         j < k /\ text[j].file = text[k].file => text[j].line < text[k].line
    /\ \A p \in ToSet(loaded) \cup {piece.file : piece \in ToSet(text)} :
         {piece.line : piece \in {t \in ToSet(text) : t.file = p}} =
           {n \in DOMAIN LinesAt(p) : Copied(LinesAt(p)[n], p = Last(loaded))}

(***************************************************************************)
(* What a file imports is in the text before the lines behind its import,  *)
(* whichever file had it included (resolve_imports_recursive).             *)
(***************************************************************************)
ImportsFirst ==
  Resolved =>
    \A j, k \in DOMAIN text :
      (\E n \in DOMAIN LinesAt(text[j].file) :
         /\ n < text[j].line
         /\ LinesAt(text[j].file)[n].kind = "import"
         /\ Imported(text[j].file, LinesAt(text[j].file)[n]) = text[k].file) => k < j

(***************************************************************************)
(* The paths that the file at p imports, and whether every chain of        *)
(* imports that begins at p finds its files and ends within n of them.     *)
(***************************************************************************)
ImportsOf(p) == {Imported(p, line) : line \in {l \in ToSet(LinesAt(p)) : l.kind = "import"}}

ChainsEnd(p, n) ==
  LET ends[k \in 0 .. n] ==
        [q \in Paths |-> /\ k > 0 /\ CanOpen(q)
                         /\ \A r \in ImportsOf(q) : ends[k - 1][r]]
  IN  ends[n][p]

\* How far the chains behind a refused import are followed.
Steps == MaxPath * Cardinality(DOMAIN files)

(***************************************************************************)
(* A file is refused if and only if its imports lead to a file that is not *)
(* there or back to where they came from; the error names the first of its *)
(* own imports that does (resolve_imports_recursive, the messages of the   *)
(* calls inside being replaced).                                           *)
(***************************************************************************)
ResolvesRightly ==
  /\ Resolved => ChainsEnd(Last(loaded), Len(loaded))
  /\ NotResolved /\ CanOpen(error.file) =>
       LET lines == LinesAt(error.file)
           imports == {n \in DOMAIN lines : lines[n].kind = "import"}
       IN  /\ error.line \in imports
           /\ \A n \in 0 .. Steps : ~ChainsEnd(Imported(error.file, lines[error.line]), n)
           /\ \A n \in imports :
                n < error.line => ChainsEnd(Imported(error.file, lines[n]), Len(loaded))

(***************************************************************************)
(* The text that is compiled: every line once, what is imported before the *)
(* lines behind its import, and no text for what cannot be resolved.       *)
(***************************************************************************)
Assembled == EachLineOnce /\ ImportsFirst /\ ResolvesRightly

(***************************************************************************)
(* No line of a file is in the text twice. This does not hold: a file that *)
(* is imported under two names is included under each.                     *)
(***************************************************************************)
IncludedOnce ==
  Resolved =>
    \A j, k \in DOMAIN text :
      Meaning(text[j].file) = Meaning(text[k].file) /\ text[j].line = text[k].line => j = k
=============================================================================
