----------------------------- MODULE BsRuntime -----------------------------
(***************************************************************************)
(* The runtime of the bootstrap tool chain (bootstrap/src/bs_runtime.c,    *)
(* bs_command_registry.c, commands/*.c): the chain of scopes, the innermost *)
(* last, each a function from the names defined in it; the registry of     *)
(* commands, in the order of the array; what was printed; and whether      *)
(* runtime_error is set.  skipped is history: the macros whose calls came  *)
(* to be evaluated.                                                        *)
(***************************************************************************)
EXTENDS BsSyntax

NoNames == [name \in {} |-> bs_null]

Command(name, kind, argc, params, body) ==
  [name |-> name, kind |-> kind, parameter_count |-> argc, params |-> params, body |-> body]

-----------------------------------------------------------------------------
(* The registry.                                                           *)
Lookup(registry, name) == {i \in DOMAIN registry : registry[i].name = name}
Has(registry, name) == Lookup(registry, name) # {}
CommandOf(registry, name) == registry[Min(Lookup(registry, name))]
HasKind(registry, name, kind) == Has(registry, name) /\ CommandOf(registry, name).kind = kind

(* registry_add_internal: in the place of the one of that name. *)
Register(registry, command) ==
  IF Has(registry, command.name)
  THEN [registry EXCEPT ![Min(Lookup(registry, command.name))] = command]
  ELSE Append(registry, command)

(* bs_register_ast_command, bs_register_macro. *)
RegisterDefinition(registry, def) ==
  Register(registry, Command(def.name, IF def.type = "macro" THEN "macro" ELSE "ast",
                             Len(def.params), def.params, def.kids[1]))

(* The ones bs_runtime_create and main register. *)
Natives ==
  [log |-> 1, assert_eq |-> 2, callwindow |-> 3, make_window |-> 3, play_sound |-> 2,
   send_packet |-> 3, draw_rect |-> 5]
Builtins ==
  [i \in 1..Cardinality(DOMAIN Natives) |->
     LET name == SetToSeq(DOMAIN Natives)[i]
     IN  Command(name, "native", Natives[name], << >>, NoNode)]

(* A callback looks at how many arguments it got, and of what types. *)
Accepts(name, args) ==
  CASE name \in {"make_window", "play_sound", "send_packet", "assert_eq"} ->
         Len(args) >= Natives[name]
    [] name = "draw_rect" ->
         /\ Len(args) >= 5
         /\ \A i \in 1..4 : args[i].type = "int"
         /\ args[5].type = "string"
    [] OTHER -> TRUE

NativeValue(name, args) ==
  CASE name = "assert_eq" -> bs_bool(Accepts(name, args) /\ ValuesEqual(args[1], args[2]))
    [] name = "draw_rect" /\ Accepts(name, args) -> bs_bool(TRUE)
    [] OTHER -> bs_null

(* What reaches stdout: an assertion that fails writes its values there. *)
NativeOutput(name, args) ==
  CASE ~Accepts(name, args) -> << >>
    [] name = "assert_eq" ->
         IF ValuesEqual(args[1], args[2]) THEN << >> ELSE <<Text(args[1]), Text(args[2])>>
    [] OTHER -> <<name>> \o [i \in DOMAIN args |-> Text(args[i])]

-----------------------------------------------------------------------------
(* Scopes.                                                                 *)
bs_runtime_create ==
  [scopes |-> <<NoNames>>, registry |-> Builtins, out |-> << >>, error |-> FALSE, skipped |-> {}]

PushScope(rt) == [rt EXCEPT !.scopes = Append(@, NoNames)]

(* The global scope stays. *)
PopScope(rt) == IF Len(rt.scopes) = 1 THEN rt ELSE [rt EXCEPT !.scopes = Front(@)]

Entry(value, const) == [value |-> value, is_const |-> const]

(* bs_env_define, in the scope of that depth: an entry of the same name is
   replaced, constant or not. *)
DefineAt(rt, depth, name, value, const) ==
  [rt EXCEPT !.scopes[depth] = (name :> Entry(value, const)) @@ @]
Define(rt, name, value, const) == DefineAt(rt, Len(rt.scopes), name, value, const)

(* bs_env_get and bs_env_assign, from a depth outwards. *)
Scopes(rt, depth, name) == {i \in 1..depth : name \in DOMAIN rt.scopes[i]}
Knows(rt, depth, name) == Scopes(rt, depth, name) # {}
EntryOf(rt, depth, name) == rt.scopes[Max(Scopes(rt, depth, name))][name]
Assignable(rt, depth, name) == Knows(rt, depth, name) /\ ~EntryOf(rt, depth, name).is_const
AssignFrom(rt, depth, name, value) ==
  [rt EXCEPT !.scopes[Max(Scopes(rt, depth, name))][name].value = value]

Write(rt, pieces) == [rt EXCEPT !.out = @ \o pieces]

-----------------------------------------------------------------------------
(***************************************************************************)
(* Macro expansion (bootstrap/src/bs_ast_rewriter.c): one walk over a      *)
(* parsed program, in its order, that registers the commands and macros it *)
(* meets and puts the body of a macro in the place of each call of it.     *)
(* A macro called with too few arguments reads beyond the arguments: no    *)
(* program here does that.                                                 *)
(***************************************************************************)

RECURSIVE Substitute(_, _, _)

(* substitute_ast_params: names become arguments, wherever they stand for
   themselves. *)
Substitute(node, params, args) ==
  CASE node.type = "identifier" /\ node.name \in ToSet(params) ->
         args[Min({i \in DOMAIN params : params[i] = node.name})]
    [] node.type \in {"none", "literal"} -> node
    [] OTHER -> [node EXCEPT !.kids = [i \in DOMAIN @ |-> Substitute(@[i], params, args)]]

(* The block after a call is one more argument, if there is one. *)
Arguments(node) == SelectSeq(node.kids, LAMBDA kid : kid # NoNode)

bs_ast_expand_macro(macro, node) == Substitute(macro.body, macro.params, Arguments(node))

IsCall(node) == node.type \in {"call", "custom"}
IsDefinition(node) == node.type \in {"command", "macro"}

RECURSIVE Rewrite(_, _)

RewriteKids(registry, node) ==
  LET Kid(done, kid) ==
        Bind(Rewrite(done.registry, kid), LAMBDA r :
          [registry |-> r.registry, kids |-> Append(done.kids, r.node)])
  IN  Bind(Fold(Kid, [registry |-> registry, kids |-> << >>], node.kids), LAMBDA all :
        [registry |-> all.registry, node |-> [node EXCEPT !.kids = all.kids]])

(* Mutant: what a macro stands for is not looked at again. *)
RewriteOnce(registry, node) ==
  CASE node.type = "none" -> [registry |-> registry, node |-> node]
    [] IsDefinition(node) -> [registry |-> RegisterDefinition(registry, node), node |-> node]
    [] IsCall(node) /\ HasKind(registry, node.name, "macro") ->
         [registry |-> registry,
          node |-> bs_ast_expand_macro(CommandOf(registry, node.name), node)]
    [] OTHER -> RewriteKids(registry, node)

(* bs_ast_rewrite.  The body of a definition is registered as it stands. *)
Rewrite(registry, node) ==
  CASE node.type = "none" -> [registry |-> registry, node |-> node]
    [] IsDefinition(node) -> [registry |-> RegisterDefinition(registry, node), node |-> node]
    [] IsCall(node) /\ HasKind(registry, node.name, "macro") ->
         Rewrite(registry, bs_ast_expand_macro(CommandOf(registry, node.name), node))
    [] OTHER -> RewriteKids(registry, node)

-----------------------------------------------------------------------------
RECURSIVE Calls(_, _), CallsOfCommands(_)

(* The names called in a tree, but for definitions of some types. *)
Calls(node, but) ==
  CASE node.type \in {"none"} \cup but -> {}
    [] OTHER -> UNION {Calls(kid, but) : kid \in ToSet(node.kids)}
                \cup (IF IsCall(node) THEN {node.name} ELSE {})

(* Those called in the bodies of commands, which the rewriter leaves alone. *)
CallsOfCommands(node) ==
  CASE node.type \in {"none", "macro"} -> {}
    [] node.type = "command" -> Calls(node.kids[1], {"macro"})
    [] OTHER -> UNION {CallsOfCommands(kid) : kid \in ToSet(node.kids)}
=============================================================================
