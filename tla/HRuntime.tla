------------------------------ MODULE HRuntime ------------------------------
(***************************************************************************)
(* The runtime of the framework around its windows and its audio: the      *)
(* memory manager, the registries of modules and of API functions, the     *)
(* last error, the log file, and the start and the end that tie them       *)
(* together (framework/src/hosc_runtime.c and hosc_modules.c).             *)
(*                                                                         *)
(* A program calls the operations in any order, any allocation may be      *)
(* denied, and a runtime that was shut down may be started again. The      *)
(* process ends ("aborted") when free is given what malloc did not return: *)
(* memory_deallocate passes on the address of a header in front of the     *)
(* block, and a text of hosc_strdup_local has none.                        *)
(***************************************************************************)
EXTENDS Naturals, SequencesExt, HBind

CONSTANTS Blocks,          \* bound: the blocks malloc can return
          SizeOf,          \* the size of a block of each kind, in units
          Modules,         \* names that hosc_load_module knows
          Names,           \* names of API functions
          MaxStarts        \* bound: runtimes started in one behaviour

Kinds == {"context", "module", "function", "entry", "text", "error", "own", "grown"}

RuntimeAssumption == /\ Blocks \subseteq Nat \ {0} /\ IsFiniteSet(Blocks)
                     /\ SizeOf \in [Kinds -> Nat]
                     /\ "gui" \in Modules /\ MaxStarts \in Nat
ASSUME RuntimeAssumption

VARIABLES mem,         \* what malloc gave away, and g_memory_stats
          starts,      \* g_runtime_counter
          context,     \* the block of g_runtime_context, 0 for NULL
          modules,     \* g_module_list, the newest first
          functions,   \* g_api_list, the newest first
          error,       \* the block of g_last_error, 0 for NULL
          log,         \* g_log_file
          graphical,   \* whether the GUI is initialised (HGui has the rest of it)
          objects,     \* what the program has allocated: sequences of blocks
          process,     \* "running", "aborted", or "crashed" on a null pointer
          inits,       \* history: how often init of a module was called and cleanup was not
          opened       \* history: how many log files are open

rvars == <<mem, starts, context, modules, functions, error, log, graphical, objects,
           process, inits, opened>>

-----------------------------------------------------------------------------
(* The memory manager, as functions of mem. *)

Unused(m) == {b \in Blocks : m.heap[b] = "free"}

\* malloc returns a block of its own choice; here, the first.
NextBlock(m) == CHOOSE b \in Unused(m) : \A c \in Unused(m) : b <= c

\* malloc, as hosc_strdup_local calls it
Duplicated(m) == [m EXCEPT !.heap[NextBlock(m)] = "text"]

\* memory_track_alloc; totals, which only grow, are left out, and so is their peak.
TrackAlloc(m, size) == IF m.tracking THEN [m EXCEPT !.inUse = @ + size] ELSE m

\* memory_track_free
TrackFree(m, size) ==
  IF m.tracking THEN [m EXCEPT !.inUse = IF @ >= size THEN @ - size ELSE 0] ELSE m

\* memory_allocate
Allocated(m, kind) ==
  TrackAlloc([m EXCEPT !.heap[NextBlock(m)] = kind], SizeOf[kind])

\* memory_deallocate
Deallocated(m, b) ==
  IF b = 0 \/ m.aborted THEN m
  ELSE IF m.heap[b] = "text" THEN [m EXCEPT !.aborted = TRUE]
  ELSE TrackFree([m EXCEPT !.heap[b] = "free"], SizeOf[m.heap[b]])

\* memory_reallocate of a block that the program owns
Reallocated(m, b, kind) ==
  TrackAlloc(TrackFree([m EXCEPT !.heap[b] = kind], SizeOf[m.heap[b]]), SizeOf[kind])

\* One more allocation, and the block it returns.
TookOne(t, kind, refused) ==
  IF refused \/ Unused(t.mem) = {} THEN [t EXCEPT !.blocks = Append(@, 0)]
  ELSE [mem    |-> IF kind = "text" THEN Duplicated(t.mem) ELSE Allocated(t.mem, kind),
        blocks |-> Append(t.blocks, NextBlock(t.mem))]

(***************************************************************************)
(* Some allocations in a row, of which those in `denied` return NULL, as   *)
(* do those for which there is no block left: the memory after them, and   *)
(* the block of each.                                                      *)
(***************************************************************************)
Took(m, kinds, denied) ==
  Fold(LAMBDA t, i : TookOne(t, kinds[i], i \in denied),
       [mem |-> m, blocks |-> << >>], [i \in 1 .. Len(kinds) |-> i])

DeallocatedAll(m, blocks) == Fold(Deallocated, m, blocks)

-----------------------------------------------------------------------------
Running == process = "running"

\* The process goes on, unless the heap noticed what it was given.
Goes(m) == /\ mem' = m
           /\ process' = IF m.aborted THEN "aborted" ELSE "running"

\* logger_set_output: a file that cannot be opened is replaced by stdout.
SetOutput(file, opens) ==
  /\ opened' = (IF log = "file" THEN opened - 1 ELSE opened) + (IF file /\ opens THEN 1 ELSE 0)
  /\ log' = IF file /\ opens THEN "file" ELSE "stdout"

-----------------------------------------------------------------------------
(* The start and the end. *)

\* hosc_runtime_init; a runtime that is there already is returned as it is.
Initialise ==
  /\ Running /\ context = 0 /\ Unused(mem) # {} /\ starts < MaxStarts
  /\ starts' = starts + 1
  /\ \E tracking, file, opens \in BOOLEAN :
       /\ mem' = [Allocated(mem, "context") EXCEPT !.tracking = tracking]
       /\ SetOutput(file, opens)
  /\ context' = NextBlock(mem)
  /\ graphical' = TRUE
  /\ UNCHANGED <<modules, functions, error, objects, process, inits>>

\* cleanup of every module in the list
CleanedAll(counts) ==
  [name \in Modules |-> IF \E i \in DOMAIN modules : modules[i].name = name
                        THEN counts[name] - 1 ELSE counts[name]]

\* The blocks of a registered function, in the order in which they are freed.
FunctionBlocks(f) == << f.name_block, f.signature, f.function, f.entry >>

Unregistered(m, f) == DeallocatedAll(m, FunctionBlocks(f))

\* The modules, the functions, the error and the context, in that order.
ShutDownMemory ==
  LET unloaded     == DeallocatedAll(mem, [i \in DOMAIN modules |-> modules[i].block])
      unregistered == Fold(Unregistered, unloaded, functions)
  IN  DeallocatedAll(unregistered, << error, context >>)

\* hosc_runtime_shutdown; with NULL or anything but the runtime nothing happens.
ShutDownRuntime ==
  /\ Running /\ context # 0
  /\ Goes(ShutDownMemory)
  /\ inits' = CleanedAll(inits)
  /\ opened' = IF log = "file" THEN opened - 1 ELSE opened
  /\ log' = "none"
  /\ context' = 0 /\ modules' = << >> /\ functions' = << >> /\ error' = 0 /\ graphical' = FALSE
  /\ UNCHANGED <<starts, objects>>

-----------------------------------------------------------------------------
(* The registry of modules, with a runtime or without one. *)

Loaded(name) == \E i \in DOMAIN modules : modules[i].name = name

\* hosc_load_module of a name it knows; init of the gui module starts the GUI.
LoadModule(name) ==
  /\ Running /\ ~Loaded(name) /\ Unused(mem) # {}
  /\ mem' = Allocated(mem, "module")
  /\ modules' = << [name |-> name, block |-> NextBlock(mem)] >> \o modules
  /\ inits' = [inits EXCEPT ![name] = @ + 1]
  /\ graphical' = (graphical \/ name = "gui")
  /\ UNCHANGED <<starts, context, functions, error, log, objects, process, opened>>

\* hosc_unload_module; a module that is not loaded is not found.
UnloadModule(i) ==
  /\ Running
  /\ Goes(Deallocated(mem, modules[i].block))
  /\ modules' = RemoveAt(modules, i)
  /\ inits' = [inits EXCEPT ![modules[i].name] = @ - 1]
  /\ UNCHANGED <<starts, context, functions, error, log, graphical, objects, opened>>

-----------------------------------------------------------------------------
(* The registry of API functions. A name that could not be duplicated is    *)
(* NULL, and a search that comes to it crashes.                             *)

\* The function of that name that was registered last, 0 if there is none.
Found(name) ==
  LET of == {i \in DOMAIN functions : functions[i].name = name}
  IN  IF of = {} THEN 0 ELSE CHOOSE i \in of : \A j \in of : i <= j

\* Whether a search for the name compares it with NULL.
Trips(name) ==
  \E i \in DOMAIN functions :
    /\ functions[i].name_block = 0
    /\ Found(name) = 0 \/ i < Found(name)

\* api_register_function: four allocations, and only two of them are looked at.
RegisterFunction(name, denied) ==
  LET first == Took(mem, << "function" >>, denied)
      texts == Took(first.mem, << "text", "text" >>, {d - 1 : d \in denied \ {0, 1}})
      last  == Took(texts.mem, << "entry" >>, {d - 3 : d \in denied \cap {4}})
      func  == first.blocks[1]
      entry == last.blocks[1]
  IN  /\ Running /\ func # 0
      /\ IF entry = 0
         THEN /\ Goes(DeallocatedAll(last.mem, texts.blocks \o << func >>))
              /\ UNCHANGED functions
         ELSE /\ Goes(last.mem)
              /\ functions' = << [name       |-> IF texts.blocks[1] = 0 THEN "NULL" ELSE name,
                                  name_block |-> texts.blocks[1], signature |-> texts.blocks[2],
                                  function   |-> func, entry |-> entry] >> \o functions
      /\ UNCHANGED <<starts, context, modules, error, log, graphical, objects, inits, opened>>

\* hosc_call_function: what the function does is the program's own.
CallFunction(name) ==
  /\ Running /\ Trips(name)
  /\ process' = "crashed"
  /\ UNCHANGED <<mem, starts, context, modules, functions, error, log, graphical, objects,
                 inits, opened>>

\* api_unregister_function
UnregisterFunction(name) ==
  /\ Running /\ ~Trips(name) /\ Found(name) # 0
  /\ Goes(Unregistered(mem, functions[Found(name)]))
  /\ functions' = RemoveAt(functions, Found(name))
  /\ UNCHANGED <<starts, context, modules, error, log, graphical, objects, inits, opened>>

-----------------------------------------------------------------------------
(* Errors and the log. *)

\* Mutant: the error of before is not freed.
ReplacesNothing(m) == m

\* error_report frees the error of before.
Replaces(m) == Deallocated(m, error)

\* hosc_report_error; the handler of the program, if it has set one, may clear
\* the errors.
ReportError ==
  /\ Running /\ Unused(mem) # {}
  /\ LET reported == Replaces(Allocated(mem, "error"))
     IN  \/ Goes(reported) /\ error' = NextBlock(mem)
         \/ Goes(Deallocated(reported, NextBlock(mem))) /\ error' = 0
  /\ UNCHANGED <<starts, context, modules, functions, log, graphical, objects, inits, opened>>

\* error_clear
ClearErrors ==
  /\ Running /\ error # 0
  /\ Goes(Deallocated(mem, error))
  /\ error' = 0
  /\ UNCHANGED <<starts, context, modules, functions, log, graphical, objects, inits, opened>>

\* set_output of the logger
SetLog ==
  /\ Running
  /\ \E file, opens \in BOOLEAN : SetOutput(file, opens)
  /\ UNCHANGED <<mem, starts, context, modules, functions, error, graphical, objects,
                 process, inits>>

-----------------------------------------------------------------------------
(* What the program allocates: a block of its own, a string or an array of  *)
(* two blocks, a dictionary of three.                                       *)

\* The blocks of an object are freed before the structure that points to them.
GivenUp(m, blocks) == DeallocatedAll(m, Tail(blocks) \o << Head(blocks) >>)

\* hosc_allocate, hosc_string_create and hosc_array_create, hosc_dictionary_create
Create(n, denied) ==
  LET t == Took(mem, [i \in 1 .. n |-> "own"], denied)
  IN  /\ Running /\ t.blocks[1] # 0
      /\ IF 0 \in {t.blocks[i] : i \in 1 .. n}
         THEN Goes(GivenUp(t.mem, t.blocks)) /\ UNCHANGED objects
         ELSE Goes(t.mem) /\ objects' = objects \cup {t.blocks}
      /\ UNCHANGED <<starts, context, modules, functions, error, log, graphical, inits, opened>>

\* hosc_deallocate and the hosc_..._destroy functions
Destroy(object) ==
  /\ Running
  /\ Goes(GivenUp(mem, object))
  /\ objects' = objects \ {object}
  /\ UNCHANGED <<starts, context, modules, functions, error, log, graphical, inits, opened>>

\* hosc_reallocate of a block; when realloc is denied nothing changes.
Reallocate(b, kind) ==
  /\ Running /\ << b >> \in objects
  /\ mem' = Reallocated(mem, b, kind)
  /\ UNCHANGED <<starts, context, modules, functions, error, log, graphical, objects,
                 process, inits, opened>>

-----------------------------------------------------------------------------
RInit ==
  /\ mem = [heap |-> [b \in Blocks |-> "free"], inUse |-> 0, tracking |-> FALSE, aborted |-> FALSE]
  /\ starts = 0 /\ context = 0 /\ modules = << >> /\ functions = << >> /\ error = 0
  /\ log = "none" /\ graphical = FALSE
  /\ objects = {} /\ process = "running"
  /\ inits = [name \in Modules |-> 0] /\ opened = 0

\* The process has ended.
Dead == ~Running /\ UNCHANGED rvars

RNext ==
  \/ Initialise \/ ShutDownRuntime
  \/ \E name \in Modules : LoadModule(name)
  \/ \E i \in DOMAIN modules : UnloadModule(i)
  \/ \E name \in Names, denied \in SUBSET (1 .. 4) : RegisterFunction(name, denied)
  \/ \E name \in Names : CallFunction(name)
  \/ \E name \in Names : UnregisterFunction(name)
  \/ ReportError \/ ClearErrors \/ SetLog
  \/ \E n \in 1 .. 3, denied \in SUBSET (2 .. 3) : Create(n, denied)
  \/ \E object \in objects : Destroy(object)
  \/ \E b \in Blocks, kind \in {"own", "grown"} : Reallocate(b, kind)
  \/ Dead

RSpec == RInit /\ [][RNext]_rvars

-----------------------------------------------------------------------------
RTypeOK ==
  /\ mem.heap \in [Blocks -> Kinds \cup {"free"}]
  /\ mem.inUse \in Nat
  /\ context \in Blocks \cup {0} /\ error \in Blocks \cup {0}
  /\ opened \in Nat /\ inits \in [Modules -> Nat]
  /\ objects \subseteq Seq(Blocks)

\* Everything of the runtime or the program that may point to a block.
Holders ==
  {<< "context", 0 >>, << "error", 0 >>}
  \cup {"module"} \X DOMAIN modules
  \cup {"name_block", "signature", "function", "entry"} \X DOMAIN functions
  \cup UNION {{<< "own", object, i >> : i \in DOMAIN object} : object \in objects}

\* What each of them points to; 0 is NULL.
Held ==
  [h \in Holders |-> CASE h[1] = "context" -> context
                       [] h[1] = "error"   -> error
                       [] h[1] = "module"  -> modules[h[2]].block
                       [] h[1] = "own"     -> h[2][h[3]]
                       [] OTHER            -> functions[h[2]][h[1]]]

\* The blocks in use are exactly those that are held, and each is held once.
Accounts(held, m) ==
  /\ \A g, h \in DOMAIN held : held[g] = held[h] /\ held[g] # 0 => g = h
  /\ {held[h] : h \in DOMAIN held} \ {0} = Blocks \ Unused(m)

(***************************************************************************)
(* As long as the process lives, the blocks in use are exactly those that  *)
(* something points to, each once, through denied allocations, replaced    *)
(* errors, unloaded modules, and runtimes ended and started: nothing leaks *)
(* and nothing points to what was freed. With it, each module that is      *)
(* listed had one init more than cleanups, each other one as many, and the *)
(* only log file that is open is the one in use.                           *)
(***************************************************************************)
AllAccounted ==
  Running =>
    /\ Accounts(Held, mem)
    /\ \A name \in Modules : inits[name] = IF Loaded(name) THEN 1 ELSE 0
    /\ opened = IF log = "file" THEN 1 ELSE 0

(***************************************************************************)
(* A program that uses the operations as their header declares them goes   *)
(* on: no call aborts the process.                                         *)
(***************************************************************************)
NeverAborts == process # "aborted"

\* What malloc gave away, counted.
InUse(m) == Fold(LAMBDA n, b : n + IF m.heap[b] = "free" THEN 0 ELSE SizeOf[m.heap[b]],
                 0, SetToSortSeq(Blocks, <))

(***************************************************************************)
(* "Current In Use: %zu bytes" (hosc_runtime.c:250): while allocations are *)
(* tracked, the statistics say how much is in use. (Names and signatures   *)
(* are not allocated by the memory manager; without them.)                 *)
(***************************************************************************)
StatisticsTrue ==
  context # 0 /\ mem.tracking /\ functions = << >> => mem.inUse = InUse(mem)

=============================================================================
