------------------------------- MODULE HAudio -------------------------------
(***************************************************************************)
(* Audio on a system without a media library: the last of the POSIX back   *)
(* ends of framework/src/hosc_runtime.c, which plays a file in a child     *)
(* process. The process, its child and the table of process ids around     *)
(* them; a call that stops a player is several steps, between which the    *)
(* player may end by itself. Time does not pass in the model: a position   *)
(* is the place in the track where a player began.                         *)
(***************************************************************************)
EXTENDS Integers, FiniteSets

CONSTANTS Pids,          \* process ids; 0 stands for "no child"
          Paths,
          Positions,     \* places in a track
          Asked,         \* the places a caller may ask for
          Durations,     \* what ffprobe may answer; -1 if it fails
          Player,        \* the first player found on PATH, or "none"
          Seekers,       \* the players with a flag for where to begin
          Disposition    \* what the process inherits for SIGCHLD

ASSUME AudioAssumption == /\ 0 \notin Pids /\ Pids # {} /\ Paths # {}
                          /\ Positions \subseteq Nat /\ 0 \in Positions
                          /\ Asked \subseteq Int /\ Asked \cap Nat \subseteq Positions
                          /\ Durations \subseteq Positions \cup {-1} /\ Durations # {}
                          /\ Disposition \in {"default", "ignored"}

VARIABLES procs,      \* who has each process id, and where that player began
          child,      \* g_audio_child_pid
          playing,    \* g_audio_playing
          kind,       \* g_audio_player_kind
          path,       \* g_last_audio_path
          offset,     \* g_audio_seek_offset_ms
          duration,   \* g_audio_duration_ms_cache
          at,         \* the step that the call in progress is about to make
          call        \* what was called, with its arguments

avars == <<procs, child, playing, kind, path, offset, duration, at, call>>

settings == <<kind, path, offset, duration>>

\* "foreign" is a process of somebody else, "ending" a player that got SIGTERM.
States == {"free", "running", "ending", "zombie", "foreign"}

Process(state, from) == [state |-> state, from |-> from]

Free == Process("free", 0)

Alive(p) == procs[p].state \in {"running", "ending"}

Own(p) == Alive(p) \/ procs[p].state = "zombie"

Call(op, to, from) == [op |-> op, path |-> to, from |-> from]

NoPath == CHOOSE q \in Paths : TRUE

Idle == Call("none", NoPath, 0)

AInit == /\ procs = [p \in Pids |-> Free]
         /\ child = 0 /\ playing = FALSE
         /\ kind = "none" /\ path = NoPath /\ offset = 0 /\ duration = -1
         /\ at = "idle" /\ call = Idle

-----------------------------------------------------------------------------
\* waitpid with WNOHANG finds a child that has ended.
Finished == playing /\ child # 0 /\ procs[child].state = "zombie"

\* Mutant: the process id stays behind.
ReapedKeepsPid ==
  /\ procs' = IF Finished THEN [procs EXCEPT ![child] = Free] ELSE procs
  /\ playing' = (playing /\ ~Finished)
  /\ UNCHANGED child

\* hosc_audio_reap_if_finished
Reaped ==
  /\ procs' = IF Finished THEN [procs EXCEPT ![child] = Free] ELSE procs
  /\ playing' = (playing /\ ~Finished)
  /\ child' = IF Finished THEN 0 ELSE child

\* hosc_audio_has_internal_playback, and the two queries that begin with it
Query == /\ at = "idle"
         /\ Reaped
         /\ UNCHANGED <<settings, at, call>>

Stopping(c) == at' = "stop" /\ call' = c

\* Mutant: the player before is not stopped.
PlayOver(to) == /\ at = "idle" /\ Player # "none"
                /\ at' = "spawn" /\ call' = Call("play", to, 0)
                /\ UNCHANGED <<procs, child, playing, settings>>

Play(to) == /\ at = "idle"
            /\ Stopping(Call("play", to, 0))
            /\ UNCHANGED <<procs, child, playing, settings>>

\* A position behind the end or before the beginning of the track.
Clamped(position) ==
  LET low == IF position < 0 THEN 0 ELSE position
  IN  IF duration > 0 /\ low > duration THEN duration ELSE low

\* hosc_audio_seek_ms: only while something plays.
Seek(position) ==
  /\ at = "idle"
  /\ Reaped
  /\ \/ /\ playing' /\ kind # "none"
        /\ Stopping(Call("seek", path, Clamped(position)))
     \/ /\ ~(playing' /\ kind # "none")
        /\ UNCHANGED <<at, call>>
  /\ UNCHANGED settings

\* hosc_audio_stop, and hosc_gui_shutdown at the end of the process
Stop(op) == /\ at = "idle"
            /\ Stopping(Call(op, NoPath, 0))
            /\ UNCHANGED <<procs, child, playing, settings>>

-----------------------------------------------------------------------------
(* hosc_audio_stop_internal, and what its caller does then. *)

\* Mutant: the player is waited for and not told to end.
KillNobody ==
  /\ at = "stop" /\ child # 0
  /\ at' = "wait"
  /\ UNCHANGED <<procs, child, playing, settings, call>>

\* SIGTERM reaches whoever has the process id now.
Kill == /\ at = "stop" /\ child # 0
        /\ procs' = IF procs[child].state = "running"
                    THEN [procs EXCEPT ![child].state = "ending"]
                    ELSE procs
        /\ at' = "wait"
        /\ UNCHANGED <<child, playing, settings, call>>

Stopped == /\ child' = 0 /\ playing' = FALSE
           /\ at' = CASE call.op = "shutdown" -> "ended"
                      [] call.op = "stop" -> "idle"
                      [] call.op = "play" -> IF Player = "none" THEN "idle" ELSE "spawn"
                      [] call.op = "seek" -> "spawn"
           /\ UNCHANGED <<settings, call>>

NothingToStop == at = "stop" /\ child = 0 /\ Stopped /\ UNCHANGED procs

\* waitpid returns when the child has ended, or because there is none.
Wait == /\ at = "wait" /\ ~Alive(child)
        /\ procs' = IF procs[child].state = "zombie"
                    THEN [procs EXCEPT ![child] = Free] ELSE procs
        /\ Stopped

Starts(k, from) == IF k \in Seekers THEN from ELSE 0

\* Mutant: the place an earlier seek went to stays.
SpawnStale(p) ==
  /\ at = "spawn" /\ procs[p].state = "free"
  /\ \E k \in {IF call.op = "seek" THEN kind ELSE Player} :
       /\ procs' = [procs EXCEPT ![p] = Process("running", Starts(k, call.from))]
       /\ kind' = k
  /\ child' = p /\ playing' = TRUE /\ at' = "idle"
  /\ \/ call.op = "play" /\ duration' \in Durations /\ path' = call.path /\ UNCHANGED offset
     \/ call.op = "seek" /\ offset' = call.from /\ UNCHANGED <<path, duration>>
  /\ UNCHANGED call

\* hosc_audio_spawn and what play_file or seek_ms remember; ffprobe comes and
\* goes before play_file returns.
Spawn(p) ==
  /\ at = "spawn" /\ procs[p].state = "free"
  /\ \E k \in {IF call.op = "seek" THEN kind ELSE Player} :
       /\ procs' = [procs EXCEPT ![p] = Process("running", Starts(k, call.from))]
       /\ kind' = k
  /\ child' = p /\ playing' = TRUE /\ at' = "idle"
  /\ offset' = call.from
  /\ \/ call.op = "play" /\ duration' \in Durations /\ path' = call.path
     \/ call.op = "seek" /\ UNCHANGED <<path, duration>>
  /\ UNCHANGED call

\* fork fails.
SpawnFails == /\ at = "spawn"
              /\ at' = "idle"
              /\ UNCHANGED <<procs, child, playing, settings, call>>

-----------------------------------------------------------------------------
(* The other processes. *)

program == <<child, playing, settings, at, call>>

\* A player ends; nobody waits for it when SIGCHLD is ignored.
Ends(p) == /\ Alive(p)
           /\ procs' = [procs EXCEPT ![p] = IF Disposition = "ignored" THEN Free
                                            ELSE Process("zombie", procs[p].from)]
           /\ UNCHANGED program

\* The system gives an id that is free to some other process, or gets it back.
Reuse(p) == /\ procs[p].state \in {"free", "foreign"}
            /\ procs' = [procs EXCEPT ![p] = IF procs[p] = Free THEN Process("foreign", 0)
                                             ELSE Free]
            /\ UNCHANGED program

Calls == \/ Query
         \/ \E to \in Paths : Play(to)
         \/ \E position \in Asked : Seek(position)
         \/ \E op \in {"stop", "shutdown"} : Stop(op)

Steps == Kill \/ NothingToStop \/ Wait \/ SpawnFails \/ \E p \in Pids : Spawn(p)

\* The process is gone.
Over == at = "ended" /\ UNCHANGED avars

ANext == Calls \/ Steps \/ Over \/ \E p \in Pids : Ends(p) \/ Reuse(p)

\* The process goes on, and a player that got SIGTERM ends.
ASpec == /\ AInit /\ [][ANext]_avars
         /\ WF_avars(Steps)
         /\ \A p \in Pids : WF_avars(procs[p].state = "ending" /\ Ends(p))

-----------------------------------------------------------------------------
ATypeOK ==
  /\ procs \in [Pids -> [state : States, from : Positions]]
  /\ child \in Pids \cup {0} /\ playing \in BOOLEAN
  /\ kind \in {"none", Player} /\ path \in Paths
  /\ offset \in Positions /\ duration \in Durations \cup {-1}
  /\ at \in {"idle", "stop", "wait", "spawn", "ended"}
  /\ call \in [op : {"none", "play", "seek", "stop", "shutdown"},
               path : Paths, from : Positions]

(***************************************************************************)
(* There is never a second player, nor a zombie that nobody will wait for: *)
(* every process this one has forked and not waited for is the one that    *)
(* child names, across plays, seeks, stops and players that end by         *)
(* themselves, and the end of the process leaves none.                     *)
(***************************************************************************)
OnePlayer ==
  /\ \A p \in Pids : Own(p) => child = p
  /\ at \in {"spawn", "ended"} => \A p \in Pids : ~Own(p)

(***************************************************************************)
(* SIGTERM never goes to a process that has got the id of a player that is *)
(* gone. The code keeps this where SIGCHLD has its default disposition;    *)
(* "make sure SIGCHLD doesn't get an inherited handler that misbehaves"    *)
(* (hosc_runtime.c:834) says that it has.                                  *)
(***************************************************************************)
SparesOthers == [][Kill => procs[child].state # "foreign"]_avars

(***************************************************************************)
(* The position the seek bar shows is where the player is. "Click timeline *)
(* to seek" (hosc_framework.c:2614).                                       *)
(***************************************************************************)
PositionTrue == playing /\ Own(child) => offset = procs[child].from

(***************************************************************************)
(* A call that stops a player returns, whatever the player was doing, if a *)
(* player ends after SIGTERM.                                              *)
(***************************************************************************)
StopReturns == at = "wait" ~> at # "wait"

=============================================================================
