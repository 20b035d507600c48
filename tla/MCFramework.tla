---------------------------- MODULE MCFramework ----------------------------
(***************************************************************************)
(* The parts of the framework for TLC, each on its own: a behaviour is one *)
(* of the event ring, of the GUI, of the audio or of the runtime.          *)
(*                                                                         *)
(* Rings: of three cells, so that one is full with two events, and wraps   *)
(* around while full, at each place of its head. GUI: a table of three     *)
(* backends is full after the second start of the GUI; with three windows  *)
(* there is one before and one after a shutdown, or two at once.           *)
(* Audio: two process ids, so that an id is given away while the program   *)
(* still holds it and a new player gets another; a track whose length is   *)
(* known or not, and seeks before, inside and behind it. Runtime: four     *)
(* blocks of memory, enough for a runtime, a function and one of its texts.*)
(***************************************************************************)
EXTENDS HEventQueue, HAudio, HGui, HRuntime

CONSTANT Parts    \* the parts that behaviours are about

VARIABLE part     \* the part that the behaviour is about

MCEvents == [type : {"NONE", "QUIT", "MOUSE_DOWN"}, id : 0 .. 3, at : {1}]

MCPids == {1, 2}
MCPaths == {"song"}
MCPositions == 0 .. 2
MCAsked == -1 .. 2
MCDurations == {-1, 1}
MCSeekers == {"ffplay", "mpv", "cvlc"}

MCSizes == [k \in Kinds |-> IF k = "context" THEN 1 ELSE 0]

MCInit == /\ part \in Parts
          /\ IF part = "ring" THEN QInit
             ELSE ring = EmptyRing /\ did = [op |-> "clear", event |-> NoEvent]
          /\ GInit /\ (part # "gui" => ~gui.server)
          /\ AInit
          /\ RInit

MCNext ==
  \/ part = "ring"    /\ QNext /\ UNCHANGED <<part, gvars, avars, rvars>>
  \/ part = "gui"     /\ GNext /\ UNCHANGED <<part, ring, did, avars, rvars>>
  \/ part = "audio"   /\ ANext     /\ UNCHANGED <<part, ring, did, gvars, rvars>>
  \/ part = "runtime" /\ RNext     /\ UNCHANGED <<part, ring, did, gvars, avars>>

mcvars == <<part, ring, did, gvars, avars, rvars>>

\* The fairness of ASpec, which demands nothing of the other parts.
MCSpec == /\ MCInit /\ [][MCNext]_mcvars
          /\ WF_avars(part = "audio" /\ Steps)
          /\ \A p \in Pids : WF_avars(part = "audio" /\ procs[p].state = "ending" /\ Ends(p))

(***************************************************************************)
(* Every part is well-formed: indices, handles and counters stay in their  *)
(* ranges, whatever overflows, fails or is shut down.                      *)
(***************************************************************************)
PartsTypeOK == QTypeOK /\ GTypeOK /\ ATypeOK /\ RTypeOK

=============================================================================
