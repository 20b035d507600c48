------------------------- MODULE HFramework_proofs -------------------------
(***************************************************************************)
(* Three parts of the framework that need nothing of each other. The event *)
(* ring implements the queue that forgets, for every capacity and every    *)
(* set of events. Audio, for any number of process ids, files and          *)
(* positions: the types, and from one inductive invariant that there is    *)
(* one player, that SIGTERM spares other processes and that the position   *)
(* shown is the player's. The runtime, for any memory and any number of    *)
(* modules, functions and objects: that every block in use is held once.   *)
(***************************************************************************)
EXTENDS HEventQueue, HAudio, HRuntime, HRing_proofs

-----------------------------------------------------------------------------
(***************************************************************************)
(* Whatever is pushed and popped, head and tail stay inside the array and  *)
(* every cell read holds an event.                                         *)
(***************************************************************************)
THEOREM QueueTypeCorrect == QSpec => []QTypeOK
<1>1. QInit => QTypeOK
  BY DEF QInit, QTypeOK, Did
<1>2. QTypeOK /\ [QNext]_qvars => QTypeOK'
  <2> SUFFICES ASSUME QTypeOK, [QNext]_qvars
               PROVE  QTypeOK'
    OBVIOUS
  <2>1. ASSUME NEW e \in Events, Push(e)
        PROVE  QTypeOK'
    BY <2>1, PushedIsRing DEF Push, QTypeOK, Did
  <2>2. CASE Pop
    BY <2>2, PopContents DEF Pop, QTypeOK, Ring, First, Did
  <2>3. CASE Clear
    BY <2>3, ClearContents DEF Clear, QTypeOK
  <2>4. CASE UNCHANGED qvars
    BY <2>4 DEF qvars, QTypeOK
  <2> QED
    BY <2>1, <2>2, <2>3, <2>4 DEF QNext
<1> QED
  BY <1>1, <1>2, PTL DEF QSpec

(***************************************************************************)
(* The ring implements the queue that forgets its oldest event: events are *)
(* handed out once and in order, and only an event that Cap - 1 newer ones *)
(* have followed, or that a clear has swept away, is lost.                 *)
(***************************************************************************)
THEOREM RingForgetsOldest == QSpec => IsForgetfulQueue
<1>1. QInit => Forgetful!Init
  <2> SUFFICES ASSUME QInit
               PROVE  Forgetful!Init
    OBVIOUS
  <2>1. ring \in Ring /\ Count(ring) = 0
    BY DEF QInit, Count
  <2>2. Contents(ring) = << >>
    BY <2>1, ContentsType
  <2> QED
    BY <2>2 DEF QInit, Forgetful!Init, Did, Forgetful!Did
<1>2. QTypeOK /\ [QNext]_qvars
        => [Forgetful!Next]_<<Contents(ring), did>>
  <2> SUFFICES ASSUME QTypeOK, [QNext]_qvars
               PROVE  [Forgetful!Next]_<<Contents(ring), did>>
    OBVIOUS
  <2> USE DEF QTypeOK
  <2>1. ASSUME NEW e \in Events, Push(e)
        PROVE  Forgetful!Put(e)
    <3>1. Len(Contents(ring)) = Cap - 1 <=> IsFull(ring)
      BY CountBounds, ContentsType
    <3>2. CASE IsFull(ring)
      BY <2>1, <3>1, <3>2, PushFull DEF Push, Forgetful!Put, Did, Forgetful!Did
    <3>3. CASE ~IsFull(ring)
      BY <2>1, <3>1, <3>3, PushRoom DEF Push, Forgetful!Put, Did, Forgetful!Did
    <3> QED
      BY <3>2, <3>3
  <2>2. CASE Pop
    BY <2>2, PopContents DEF Pop, Forgetful!Next, Forgetful!Take, Did, Forgetful!Did
  <2>3. CASE Clear
    BY <2>3, ClearContents DEF Clear, Forgetful!Next, Forgetful!Forget
  <2>4. CASE UNCHANGED qvars
    BY <2>4 DEF qvars
  <2> QED
    BY <2>1, <2>2, <2>3, <2>4 DEF QNext, Forgetful!Next
<1>3. QSpec => []QTypeOK
  BY QueueTypeCorrect
<1> QED
  BY <1>1, <1>2, <1>3, PTL DEF QSpec, IsForgetfulQueue, Forgetful!Spec

-----------------------------------------------------------------------------
(***************************************************************************)
(* What a call in progress is, step by step.                               *)
(***************************************************************************)
CallShape ==
  /\ at \in {"stop", "wait", "spawn"} => call.op # "none"
  /\ at = "wait" => child # 0
  /\ at = "spawn" => child = 0 /\ call.op \in {"play", "seek"}
  /\ at = "ended" => child = 0
  /\ call.op = "play" => call.from = 0
  /\ at \in {"stop", "wait", "spawn"} /\ call.op = "seek" => kind # "none"

TInv == ATypeOK /\ CallShape

LEMMA ClampedInPositions ==
  ASSUME NEW position \in Asked, duration \in Durations \cup {-1}
  PROVE  Clamped(position) \in Positions
  BY AudioAssumption DEF Clamped

LEMMA InitTInv == AInit => TInv
<1> SUFFICES ASSUME AInit
             PROVE  TInv
  OBVIOUS
<1>1. NoPath \in Paths
  BY AudioAssumption DEF NoPath
<1>2. procs \in [Pids -> [state : States, from : Positions]]
  BY AudioAssumption DEF AInit, Free, Process, States
<1> QED
  BY <1>1, <1>2, AudioAssumption DEF AInit, TInv, ATypeOK, CallShape, Idle, Call

LEMMA ReapedTypes ==
  ASSUME TInv, Reaped
  PROVE  /\ procs' \in [Pids -> [state : States, from : Positions]]
         /\ child' \in Pids \cup {0} /\ playing' \in BOOLEAN
         /\ child = 0 => child' = 0
  BY AudioAssumption DEF TInv, ATypeOK, Reaped, Finished, Free, Process, States

LEMMA StoppedTypes ==
  ASSUME TInv, at \in {"stop", "wait"}, Stopped,
         procs' \in [Pids -> [state : States, from : Positions]]
  PROVE  TInv'
<1>1. call.op \in {"play", "seek", "stop", "shutdown"}
  BY DEF TInv, ATypeOK, CallShape
<1>2. /\ at' \in {"idle", "spawn", "ended"}
      /\ at' = "spawn" => call.op \in {"play", "seek"}
  BY <1>1 DEF Stopped
<1> QED
  BY <1>1, <1>2 DEF TInv, ATypeOK, CallShape, Stopped, settings

(***************************************************************************)
(* Every step keeps the types and the shape of the call in progress.       *)
(***************************************************************************)
LEMMA NextTInv == TInv /\ [ANext]_avars => TInv'
<1> SUFFICES ASSUME TInv, [ANext]_avars
             PROVE  TInv'
  OBVIOUS
<1>1. CASE Query
  BY <1>1, ReapedTypes DEF Query, TInv, ATypeOK, CallShape, settings
<1>2. ASSUME NEW to \in Paths, Play(to)
      PROVE  TInv'
  BY <1>2, AudioAssumption DEF Play, Stopping, Call, TInv, ATypeOK, CallShape, settings
<1>3. ASSUME NEW position \in Asked, Seek(position)
      PROVE  TInv'
  <2>1. Clamped(position) \in Positions
    BY ClampedInPositions DEF TInv, ATypeOK
  <2>2. CASE playing' /\ kind # "none"
    <3>1. at' = "stop" /\ call' = Call("seek", path, Clamped(position))
      BY <1>3, <2>2 DEF Seek, Stopping
    <3> QED
      BY <1>3, <2>1, <2>2, <3>1, ReapedTypes
         DEF Seek, Call, TInv, ATypeOK, CallShape, settings
  <2>3. CASE ~(playing' /\ kind # "none")
    BY <1>3, <2>3, ReapedTypes DEF Seek, TInv, ATypeOK, CallShape, settings
  <2> QED
    BY <2>2, <2>3
<1>4. ASSUME NEW op \in {"stop", "shutdown"}, Stop(op)
      PROVE  TInv'
  <2>1. NoPath \in Paths
    BY AudioAssumption DEF NoPath
  <2> QED
    BY <1>4, <2>1, AudioAssumption
       DEF Stop, Stopping, Call, TInv, ATypeOK, CallShape, settings
<1>5. CASE Kill
  BY <1>5 DEF Kill, TInv, ATypeOK, CallShape, States, settings
<1>6. CASE NothingToStop
  BY <1>6, StoppedTypes DEF NothingToStop, TInv, ATypeOK
<1>7. CASE Wait
  BY <1>7, StoppedTypes, AudioAssumption
     DEF Wait, TInv, ATypeOK, Free, Process, States
<1>8. CASE SpawnFails
  BY <1>8 DEF SpawnFails, TInv, ATypeOK, CallShape, settings
<1>9. ASSUME NEW p \in Pids, Spawn(p)
      PROVE  TInv'
  <2>1. PICK k \in {IF call.op = "seek" THEN kind ELSE Player} :
          /\ procs' = [procs EXCEPT ![p] = Process("running", Starts(k, call.from))]
          /\ kind' = k
    BY <1>9 DEF Spawn
  <2>2. /\ kind' \in {"none", Player}
        /\ procs' \in [Pids -> [state : States, from : Positions]]
    BY <2>1, AudioAssumption DEF TInv, ATypeOK, Process, Starts, States
  <2> QED
    BY <1>9, <2>2, AudioAssumption DEF Spawn, TInv, ATypeOK, CallShape
<1>10. ASSUME NEW p \in Pids, Ends(p)
       PROVE  TInv'
  BY <1>10, AudioAssumption
     DEF Ends, Free, Process, TInv, ATypeOK, CallShape, States, program, settings
<1>11. ASSUME NEW p \in Pids, Reuse(p)
       PROVE  TInv'
  BY <1>11, AudioAssumption
     DEF Reuse, Free, Process, TInv, ATypeOK, CallShape, States, program, settings
<1>12. CASE UNCHANGED avars
  BY <1>12 DEF avars, settings, TInv, ATypeOK, CallShape
<1> QED
  BY <1>1, <1>2, <1>3, <1>4, <1>5, <1>6, <1>7, <1>8, <1>9, <1>10, <1>11, <1>12
     DEF ANext, Calls, Steps, Over

(***************************************************************************)
(* Type correctness.                                                       *)
(***************************************************************************)
THEOREM AudioTypeCorrect == ASpec => []ATypeOK
<1>1. TInv => ATypeOK
  BY DEF TInv
<1> QED
  BY InitTInv, NextTInv, <1>1, PTL DEF ASpec

-----------------------------------------------------------------------------
(***************************************************************************)
(* What child names: the only process of this one, and, as long as nobody  *)
(* else reaps it, a process of this one.                                   *)
(***************************************************************************)
ChildHeld == Disposition = "default" /\ child # 0 => Own(child)

PlayerInv == TInv /\ OnePlayer /\ ChildHeld

LEMMA NextPlayerInv == PlayerInv /\ [ANext]_avars => PlayerInv'
<1> SUFFICES ASSUME PlayerInv, [ANext]_avars
             PROVE  OnePlayer' /\ ChildHeld'
  BY NextTInv DEF PlayerInv
<1> USE DEF PlayerInv
<1>0. /\ procs \in [Pids -> [state : States, from : Positions]]
      /\ child \in Pids \cup {0} /\ 0 \notin Pids
  BY AudioAssumption DEF TInv, ATypeOK
<1>1. ASSUME Reaped, at = "idle", at' \in {"idle", "stop"}
      PROVE  OnePlayer' /\ ChildHeld'
  BY <1>0, <1>1 DEF Reaped, Finished, Free, Process, OnePlayer, ChildHeld, Own, Alive
<1>2. ASSUME UNCHANGED <<procs, child>>, at' \notin {"spawn", "ended"}
      PROVE  OnePlayer' /\ ChildHeld'
  BY <1>2 DEF OnePlayer, ChildHeld, Own, Alive
<1>3. CASE Query
  BY <1>1, <1>3 DEF Query
<1>4. ASSUME NEW to \in Paths, Play(to)
      PROVE  OnePlayer' /\ ChildHeld'
  BY <1>2, <1>4 DEF Play, Stopping
<1>5. ASSUME NEW position \in Asked, Seek(position)
      PROVE  OnePlayer' /\ ChildHeld'
  BY <1>1, <1>5 DEF Seek, Stopping
<1>6. ASSUME NEW op \in {"stop", "shutdown"}, Stop(op)
      PROVE  OnePlayer' /\ ChildHeld'
  BY <1>2, <1>6 DEF Stop, Stopping
<1>7. CASE Kill
  BY <1>0, <1>7 DEF Kill, OnePlayer, ChildHeld, Own, Alive
<1>8. CASE NothingToStop
  BY <1>0, <1>8 DEF NothingToStop, Stopped, OnePlayer, ChildHeld, Own, Alive
<1>9. CASE Wait
  <2>1. \A p \in Pids : ~Own(p)'
    BY <1>0, <1>9 DEF Wait, OnePlayer, Own, Alive, Free, Process
  <2> QED
    BY <1>9, <2>1 DEF Wait, Stopped, OnePlayer, ChildHeld
<1>10. CASE SpawnFails
  BY <1>2, <1>10 DEF SpawnFails
<1>11. ASSUME NEW p \in Pids, Spawn(p)
       PROVE  OnePlayer' /\ ChildHeld'
  <2>1. /\ procs'[p].state = "running"
        /\ \A q \in Pids \ {p} : procs'[q] = procs[q]
        /\ child' = p /\ at' = "idle"
    BY <1>0, <1>11 DEF Spawn, Process
  <2>2. \A q \in Pids : ~Own(q)
    BY <1>11 DEF Spawn, OnePlayer
  <2> QED
    BY <2>1, <2>2 DEF OnePlayer, ChildHeld, Own, Alive
<1>12. ASSUME NEW p \in Pids, Ends(p)
       PROVE  OnePlayer' /\ ChildHeld'
  BY <1>0, <1>12 DEF Ends, program, Free, Process, OnePlayer, ChildHeld, Own, Alive
<1>13. ASSUME NEW p \in Pids, Reuse(p)
       PROVE  OnePlayer' /\ ChildHeld'
  BY <1>0, <1>13 DEF Reuse, program, Free, Process, OnePlayer, ChildHeld, Own, Alive
<1>14. CASE UNCHANGED avars
  BY <1>14 DEF avars, OnePlayer, ChildHeld, Own, Alive
<1> QED
  BY <1>3, <1>4, <1>5, <1>6, <1>7, <1>8, <1>9, <1>10, <1>11, <1>12, <1>13, <1>14
     DEF ANext, Calls, Steps, Over

LEMMA InitPlayerInv == AInit => PlayerInv
  BY InitTInv DEF AInit, PlayerInv, OnePlayer, ChildHeld, Own, Alive, Free, Process

(***************************************************************************)
(* At most one player, and none that will never be waited for, whatever    *)
(* the disposition of SIGCHLD (hosc_audio_stop_internal before each spawn).*)
(***************************************************************************)
THEOREM AtMostOnePlayer == ASpec => []OnePlayer
<1>1. PlayerInv => OnePlayer
  BY DEF PlayerInv
<1> QED
  BY InitPlayerInv, NextPlayerInv, <1>1, PTL DEF ASpec

(***************************************************************************)
(* With the default disposition of SIGCHLD, the child stays a zombie until *)
(* it is waited for, so that its id is not given away and kill hits it.    *)
(***************************************************************************)
THEOREM KillSparesOthers == ASSUME Disposition = "default" PROVE ASpec => SparesOthers
<1>1. PlayerInv /\ [ANext]_avars => [Kill => procs[child].state # "foreign"]_avars
  BY DEF PlayerInv, ChildHeld, Own, Alive, Kill
<1> QED
  BY InitPlayerInv, NextPlayerInv, <1>1, PTL DEF ASpec, SparesOthers

-----------------------------------------------------------------------------
(***************************************************************************)
(* With a player that can begin anywhere, the position shown is the        *)
(* player's (hosc_audio_play_file, hosc_audio_seek_ms).                    *)
(***************************************************************************)
LEMMA NextPosition ==
  ASSUME Player \in Seekers
  PROVE  PlayerInv /\ PositionTrue /\ [ANext]_avars => PositionTrue'
<1> SUFFICES ASSUME PlayerInv, PositionTrue, [ANext]_avars
             PROVE  PositionTrue'
  OBVIOUS
<1> USE DEF PlayerInv
<1>0. /\ procs \in [Pids -> [state : States, from : Positions]]
      /\ child \in Pids \cup {0} /\ 0 \notin Pids
  BY AudioAssumption DEF TInv, ATypeOK
<1>1. ASSUME Reaped, UNCHANGED offset
      PROVE  PositionTrue'
  BY <1>0, <1>1 DEF Reaped, Finished, Free, Process, PositionTrue, Own, Alive
<1>2. ASSUME UNCHANGED <<procs, child, playing, offset>>
      PROVE  PositionTrue'
  BY <1>2 DEF PositionTrue, Own, Alive
<1>3. ASSUME ~playing'
      PROVE  PositionTrue'
  BY <1>3 DEF PositionTrue
<1>4. CASE Calls
  BY <1>1, <1>2, <1>4 DEF Calls, Query, Play, Seek, Stop, settings
<1>5. CASE Kill
  BY <1>0, <1>5 DEF Kill, settings, PositionTrue, Own, Alive
<1>6. CASE NothingToStop \/ Wait
  BY <1>3, <1>6 DEF NothingToStop, Wait, Stopped
<1>7. CASE SpawnFails
  BY <1>2, <1>7 DEF SpawnFails, settings
<1>8. ASSUME NEW p \in Pids, Spawn(p)
      PROVE  PositionTrue'
  <2>1. PICK k \in {IF call.op = "seek" THEN kind ELSE Player} :
          procs' = [procs EXCEPT ![p] = Process("running", Starts(k, call.from))]
    BY <1>8 DEF Spawn
  <2>2. Starts(k, call.from) = call.from
    BY <1>8, <2>1 DEF Spawn, Starts, TInv, ATypeOK, CallShape
  <2> QED
    BY <1>0, <1>8, <2>1, <2>2 DEF Spawn, Process, PositionTrue
<1>9. ASSUME NEW p \in Pids, Ends(p)
      PROVE  PositionTrue'
  BY <1>0, <1>9 DEF Ends, program, settings, Free, Process, PositionTrue, Own, Alive
<1>10. ASSUME NEW p \in Pids, Reuse(p)
       PROVE  PositionTrue'
  BY <1>0, <1>10 DEF Reuse, program, settings, Free, Process, PositionTrue, Own, Alive
<1>11. CASE UNCHANGED avars
  BY <1>2, <1>11 DEF avars, settings
<1> QED
  BY <1>4, <1>5, <1>6, <1>7, <1>8, <1>9, <1>10, <1>11 DEF ANext, Steps, Over

THEOREM PositionIsThePlayers == ASSUME Player \in Seekers PROVE ASpec => []PositionTrue
<1>1. AInit => PositionTrue
  BY DEF AInit, PositionTrue
<1>2. PlayerInv /\ PositionTrue /\ [ANext]_avars => PositionTrue'
  BY NextPosition
<1> QED
  BY InitPlayerInv, NextPlayerInv, <1>1, <1>2, PTL DEF ASpec

-----------------------------------------------------------------------------
(* The runtime: what each operation of the memory manager does to the blocks. *)

Memories == [heap : [Blocks -> Kinds \cup {"free"}], inUse : Nat,
             tracking : BOOLEAN, aborted : BOOLEAN]

Entries(s) == {s[i] : i \in 1 .. Len(s)}

(* No block is twice in s. *)
Once(s) == \A i, j \in 1 .. Len(s) : s[i] = s[j] /\ s[i] # 0 => i = j

(* s lists blocks in use, each once, so that they can be given back. *)
Returnable(m, s) ==
  /\ s \in Seq(Blocks \cup {0})
  /\ ~m.aborted => Once(s) /\ \A i \in 1 .. Len(s) : s[i] # 0 => m.heap[s[i]] # "free"

(* From m to r nothing happens but that the blocks in B are given back, unless *)
(* that ends the process.                                                     *)
GivesBack(m, r, B) ==
  /\ r \in Memories
  /\ ~r.aborted =>
       ~m.aborted /\ \A b \in Blocks : r.heap[b] = IF b \in B THEN "free" ELSE m.heap[b]

LEMMA BlockFacts ==
  /\ Blocks \subseteq Nat /\ 0 \notin Blocks
  /\ SizeOf \in [Kinds -> Nat]
  /\ "free" \notin Kinds
BY RuntimeAssumption DEF RuntimeAssumption, Kinds

LEMMA FirstUnused ==
  ASSUME NEW m, Unused(m) # {}
  PROVE  NextBlock(m) \in Blocks /\ m.heap[NextBlock(m)] = "free"
<1>1. Unused(m) \subseteq Nat
  BY BlockFacts DEF Unused
<1>2. \E b \in Unused(m) : \A c \in Unused(m) : b <= c
  BY <1>1, LeastNumber
<1>3. NextBlock(m) \in Unused(m)
  BY <1>2 DEF NextBlock
<1> QED
  BY <1>3 DEF Unused

LEMMA TrackedTypes ==
  ASSUME NEW m \in Memories, NEW size \in Nat
  PROVE  /\ TrackAlloc(m, size) \in Memories
         /\ TrackAlloc(m, size).heap = m.heap /\ TrackAlloc(m, size).aborted = m.aborted
         /\ TrackFree(m, size) \in Memories
         /\ TrackFree(m, size).heap = m.heap /\ TrackFree(m, size).aborted = m.aborted
BY DEF TrackAlloc, TrackFree, Memories

LEMMA AllocatesOne ==
  ASSUME NEW m \in Memories, NEW purpose \in Kinds, Unused(m) # {}
  PROVE  /\ Allocated(m, purpose) \in Memories
         /\ Allocated(m, purpose).heap = [m.heap EXCEPT ![NextBlock(m)] = purpose]
         /\ Allocated(m, purpose).aborted = m.aborted
         /\ Duplicated(m) \in Memories
         /\ Duplicated(m).heap = [m.heap EXCEPT ![NextBlock(m)] = "text"]
         /\ Duplicated(m).aborted = m.aborted
<1>1. NextBlock(m) \in Blocks
  BY FirstUnused
<1>2. \A k \in Kinds :
        LET n == [m EXCEPT !.heap[NextBlock(m)] = k]
        IN  n \in Memories /\ n.heap = [m.heap EXCEPT ![NextBlock(m)] = k] /\ n.aborted = m.aborted
  BY <1>1 DEF Memories
<1>3. SizeOf[purpose] \in Nat /\ "text" \in Kinds
  BY BlockFacts DEF Kinds
<1> QED
  BY <1>2, <1>3, TrackedTypes DEF Allocated, Duplicated

LEMMA DeallocatesOne ==
  ASSUME NEW m \in Memories, NEW b \in Blocks \cup {0},
         ~m.aborted /\ b # 0 => m.heap[b] # "free"
  PROVE  GivesBack(m, Deallocated(m, b), {b})
<1>1. CASE b = 0 \/ m.aborted
  BY <1>1, BlockFacts DEF Deallocated, GivesBack, Memories
<1>2. CASE b # 0 /\ ~m.aborted /\ m.heap[b] = "text"
  BY <1>2 DEF Deallocated, GivesBack, Memories
<1>3. CASE b # 0 /\ ~m.aborted /\ m.heap[b] # "text"
  <2> DEFINE n == [m EXCEPT !.heap[b] = "free"]
  <2>1. n \in Memories /\ n.heap = [m.heap EXCEPT ![b] = "free"] /\ n.aborted = m.aborted
    BY <1>3 DEF Memories
  <2>2. SizeOf[m.heap[b]] \in Nat
    BY <1>3, BlockFacts DEF Memories
  <2>3. Deallocated(m, b) = TrackFree(n, SizeOf[m.heap[b]])
    BY <1>3 DEF Deallocated
  <2> HIDE DEF n
  <2> DEFINE f == TrackFree(n, SizeOf[m.heap[b]])
  <2>6. f \in Memories /\ f.heap = n.heap
    BY <2>1, <2>2, TrackedTypes
  <2> HIDE DEF f
  <2>4. /\ Deallocated(m, b) \in Memories
        /\ Deallocated(m, b).heap = [m.heap EXCEPT ![b] = "free"]
    BY <2>1, <2>3, <2>6 DEF f
  <2>5. m.heap \in [Blocks -> Kinds \cup {"free"}]
    BY DEF Memories
  <2> QED
    BY <1>3, <2>4, <2>5 DEF GivesBack
<1> QED
  BY <1>1, <1>2, <1>3

LEMMA GivesBackMore ==
  ASSUME NEW m, NEW r, NEW q, NEW B, NEW C, GivesBack(m, r, B), GivesBack(r, q, C)
  PROVE  GivesBack(m, q, B \cup C)
BY DEF GivesBack

LEMMA Reallocates ==
  ASSUME NEW m \in Memories, NEW b \in Blocks, m.heap[b] # "free", NEW purpose \in Kinds
  PROVE  /\ Reallocated(m, b, purpose) \in Memories
         /\ Reallocated(m, b, purpose).heap = [m.heap EXCEPT ![b] = purpose]
         /\ Reallocated(m, b, purpose).aborted = m.aborted
<1> DEFINE n == [m EXCEPT !.heap[b] = purpose]
<1>1. n \in Memories /\ n.heap = [m.heap EXCEPT ![b] = purpose] /\ n.aborted = m.aborted
  BY DEF Memories
<1>2. SizeOf[m.heap[b]] \in Nat /\ SizeOf[purpose] \in Nat
  BY BlockFacts DEF Memories
<1> HIDE DEF n
<1>3. LET f == TrackFree(n, SizeOf[m.heap[b]])
      IN  f \in Memories /\ f.heap = n.heap /\ f.aborted = n.aborted
  BY <1>1, <1>2, TrackedTypes
<1>4. Reallocated(m, b, purpose) = TrackAlloc(TrackFree(n, SizeOf[m.heap[b]]), SizeOf[purpose])
  BY DEF Reallocated, n
<1> QED
  BY <1>1, <1>2, <1>3, <1>4, TrackedTypes

(* Step i gives back the blocks B[i], if the steps before it did the same. *)
StepsGiveBack(m, n, G, B) ==
  \A i \in 1 .. n, r \in Memories :
    GivesBack(m, r, UNION {B[j] : j \in 1 .. i - 1}) => GivesBack(r, G[<<r, i>>], B[i])

(* What n such steps lead to, one by one. *)
AllGivenBack(m, n, G, B) ==
  {g \in [0 .. n -> Memories] :
     /\ g[0] = m
     /\ \A i \in 1 .. n : g[i] = G[<<g[i - 1], i>>]
     /\ GivesBack(m, g[n], UNION {B[j] : j \in 1 .. n})}

(* Steps that give back blocks, each of which may rely on those before it: there *)
(* is what they lead to, and it is what the blocks of all of them were given back *)
(* from.                                                                       *)
LEMMA InTurn ==
  ASSUME NEW m \in Memories, NEW n \in Nat, NEW G, NEW B, StepsGiveBack(m, n, G, B)
  PROVE  AllGivenBack(m, n, G, B) # {}
<1> DEFINE Firsts(i) == UNION {B[j] : j \in 1 .. i}
           F == [p \in Memories \X (1 .. n) |-> IF G[p] \in Memories THEN G[p] ELSE p[1]]
<1>1. \A i \in 1 .. n : i - 1 \in 0 .. n
  OBVIOUS
<1>2. F \in [Memories \X (1 .. n) -> Memories]
  OBVIOUS
<1>3. PICK g \in Results(n, Memories, m, F) : TRUE
  <2> HIDE DEF F
  <2> QED
    BY <1>2, Recursion
<1>4. /\ g \in [0 .. n -> Memories] /\ g[0] = m
      /\ \A i \in 1 .. n : g[i] = F[<<g[i - 1], i>>]
  BY <1>3 DEF Results
<1> DEFINE Right(i) == GivesBack(m, g[i], Firsts(i)) /\ (i > 0 => g[i] = G[<<g[i - 1], i>>])
           P == {i \in 0 .. n : Right(i)}
<1>5. 0 \in P
  <2>1. Firsts(0) = {}
    OBVIOUS
  <2> HIDE DEF Firsts
  <2> QED
    BY <1>4, <2>1 DEF GivesBack
<1>6. ASSUME NEW i \in 1 .. n, i - 1 \in P PROVE i \in P
  <2>1. /\ i \in 0 .. n /\ i - 1 \in 0 .. n /\ g[i - 1] \in Memories
        /\ GivesBack(m, g[i - 1], Firsts(i - 1))
    BY <1>1, <1>4, <1>6
  <2>2. GivesBack(g[i - 1], G[<<g[i - 1], i>>], B[i])
    BY <2>1 DEF StepsGiveBack
  <2>3. G[<<g[i - 1], i>>] \in Memories
    BY <2>2 DEF GivesBack
  <2>4. g[i] = G[<<g[i - 1], i>>]
    BY <1>4, <2>1, <2>3
  <2>5. Firsts(i) = Firsts(i - 1) \cup B[i]
    <3>1. \A j \in 1 .. i : j \in 1 .. i - 1 \/ j = i
      OBVIOUS
    <3>2. i \in 1 .. i /\ \A j \in 1 .. i - 1 : j \in 1 .. i
      OBVIOUS
    <3> QED
      BY <3>1, <3>2
  <2>6. GivesBack(m, g[i], Firsts(i - 1) \cup B[i])
    <3> HIDE DEF Firsts, P
    <3> QED
      BY <2>1, <2>2, <2>4, GivesBackMore
  <2>7. Right(i)
    <3> HIDE DEF Firsts
    <3> QED
      BY <2>4, <2>5, <2>6
  <2> HIDE DEF Right
  <2> QED
    BY <2>1, <2>7
<1>7. \A i \in 0 .. n : Right(i)
  <2>1. \A i \in 1 .. n : i - 1 \in P => i \in P
    BY <1>6
  <2>2. \A i \in 0 .. n : i \in P
    <3> HIDE DEF P
    <3> QED
      BY <1>5, <2>1, Induction
  <2> HIDE DEF Right
  <2> QED
    BY <2>2
<1>8. ASSUME NEW i \in 1 .. n PROVE g[i] = G[<<g[i - 1], i>>]
  <2>1. i \in 0 .. n /\ i > 0
    OBVIOUS
  <2>2. Right(i)
    <3> HIDE DEF Right
    <3> QED
      BY <1>7, <2>1
  <2> QED
    BY <2>1, <2>2
<1>9. GivesBack(m, g[n], Firsts(n))
  <2>1. n \in 0 .. n
    OBVIOUS
  <2>2. Right(n)
    <3> HIDE DEF Right
    <3> QED
      BY <1>7, <2>1
  <2> HIDE DEF Firsts
  <2> QED
    BY <2>2
<1> QED
  BY <1>4, <1>8, <1>9 DEF AllGivenBack

(* Blocks given back one after the other.                                  *)
LEMMA DeallocatesAll ==
  ASSUME NEW m \in Memories, NEW s, Returnable(m, s)
  PROVE  GivesBack(m, DeallocatedAll(m, s), Entries(s))
<1> DEFINE n == Len(s)
           B == [i \in 1 .. n |-> {s[i]}]
           G == [p \in Memories \X (1 .. n) |-> Deallocated(p[1], s[p[2]])]
           Recursive(f) == f = [i \in 0 .. n |->
                                  IF i = 0 THEN m
                                  ELSE Bind(f[i - 1], LAMBDA a : Deallocated(a, s[i]))]
           reached == CHOOSE f : Recursive(f)
<1>1. /\ n \in Nat /\ \A i \in 1 .. n : i - 1 \in 0 .. n /\ s[i] \in Blocks \cup {0}
      /\ s \in Seq(Blocks \cup {0})
  BY DEF Returnable
<1>2. ASSUME NEW i \in 1 .. n, NEW r \in Memories, GivesBack(m, r, UNION {B[j] : j \in 1 .. i - 1})
      PROVE  GivesBack(r, G[<<r, i>>], B[i])
  <2> DEFINE E == UNION {B[j] : j \in 1 .. i - 1}
  <2>1. ASSUME ~r.aborted, s[i] # 0 PROVE r.heap[s[i]] # "free"
    <3>1. ~m.aborted /\ s[i] \in Blocks
      BY <1>1, <1>2, <2>1 DEF GivesBack
    <3>2. m.heap[s[i]] # "free" /\ \A j \in 1 .. n : s[j] = s[i] => j = i
      BY <2>1, <3>1, <1>1 DEF Returnable, Once
    <3>3. s[i] \notin E
      <4>1. \A j \in 1 .. i - 1 : j \in 1 .. n /\ j # i
        BY <1>1
      <4>2. \A j \in 1 .. i - 1 : B[j] = {s[j]} /\ s[j] # s[i]
        BY <3>2, <4>1
      <4> HIDE DEF B
      <4> QED
        BY <4>2
    <3>4. GivesBack(m, r, E)
      BY <1>2
    <3> HIDE DEF E
    <3> QED
      BY <2>1, <3>1, <3>2, <3>3, <3>4 DEF GivesBack
  <2>2. s[i] \in Blocks \cup {0}
    BY <1>1
  <2>3. GivesBack(r, Deallocated(r, s[i]), {s[i]})
    BY <2>1, <2>2, DeallocatesOne
  <2>4. G[<<r, i>>] = Deallocated(r, s[i]) /\ B[i] = {s[i]}
    OBVIOUS
  <2> HIDE DEF G, B
  <2> QED
    BY <2>3, <2>4
<1>3. PICK g \in [0 .. n -> Memories] :
        /\ g[0] = m
        /\ \A i \in 1 .. n : g[i] = G[<<g[i - 1], i>>]
        /\ GivesBack(m, g[n], UNION {B[j] : j \in 1 .. n})
  <2>1. StepsGiveBack(m, n, G, B)
    BY <1>2 DEF StepsGiveBack
  <2>2. n \in Nat
    BY <1>1
  <2>3. AllGivenBack(m, n, G, B) # {}
    <3> HIDE DEF G, B, n
    <3> QED
      BY <2>1, <2>2, InTurn
  <2> HIDE DEF G, B, n
  <2> QED
    BY <2>3 DEF AllGivenBack
<1>4. \A i \in 1 .. n : g[i] = Deallocated(g[i - 1], s[i])
  BY <1>1, <1>3
<1>5. Recursive(g)
  BY <1>1, <1>3, <1>4 DEF Bind
<1>6. Recursive(reached)
  BY <1>5, Zenon
<1> HIDE DEF reached
<1> DEFINE same == {i \in 0 .. n : reached[i] = g[i]}
<1>7. reached[n] = g[n]
  <2>1. reached[0] = m /\ \A i \in 1 .. n : reached[i] = Deallocated(reached[i - 1], s[i])
    BY <1>1, <1>6 DEF Bind
  <2>2. 0 \in same /\ \A i \in 1 .. n : i - 1 \in same => i \in same
    BY <1>1, <1>3, <1>4, <2>1
  <2>3. n \in Nat /\ n \in 0 .. n
    BY <1>1
  <2>4. n \in same
    <3> HIDE DEF same, n
    <3>1. \A i \in 0 .. n : i \in same
      BY <2>2, <2>3, Induction
    <3> QED
      BY <2>3, <3>1
  <2> QED
    BY <2>4
<1>8. DeallocatedAll(m, s) = reached[n]
  BY DEF DeallocatedAll, Fold, reached
<1>9. UNION {B[j] : j \in 1 .. n} = Entries(s)
  BY DEF Entries
<1> HIDE DEF B
<1> QED
  BY <1>3, <1>7, <1>8, <1>9

FunctionEntries ==
  [name : Names \cup {"NULL"}, name_block : Blocks \cup {0}, signature : Blocks \cup {0},
   function : Blocks, entry : Blocks]

(* fs lists functions whose blocks are in use, each for one purpose. *)
ReturnableAll(m, fs) ==
  /\ fs \in Seq(FunctionEntries)
  /\ \A i \in 1 .. Len(fs) : Returnable(m, FunctionBlocks(fs[i]))
  /\ ~m.aborted =>
       \A i, j \in 1 .. Len(fs) :
         i # j => Entries(FunctionBlocks(fs[i])) \cap Entries(FunctionBlocks(fs[j])) \subseteq {0}

(* All functions unregistered at the end of a runtime.                     *)
LEMMA UnregistersAll ==
  ASSUME NEW m \in Memories, NEW fs, ReturnableAll(m, fs)
  PROVE  GivesBack(m, Fold(Unregistered, m, fs),
                   UNION {Entries(FunctionBlocks(fs[i])) : i \in 1 .. Len(fs)})
<1> DEFINE n == Len(fs)
           B == [i \in 1 .. n |-> Entries(FunctionBlocks(fs[i]))]
           G == [p \in Memories \X (1 .. n) |-> Unregistered(p[1], fs[p[2]])]
           Recursive(f) == f = [i \in 0 .. n |->
                                  IF i = 0 THEN m
                                  ELSE Bind(f[i - 1], LAMBDA a : Unregistered(a, fs[i]))]
           reached == CHOOSE f : Recursive(f)
<1>1. /\ n \in Nat /\ \A i \in 1 .. n : i - 1 \in 0 .. n
      /\ fs \in Seq(FunctionEntries)
  BY DEF ReturnableAll
<1>2. ASSUME NEW i \in 1 .. n, NEW r \in Memories, GivesBack(m, r, UNION {B[j] : j \in 1 .. i - 1})
      PROVE  GivesBack(r, G[<<r, i>>], B[i])
  <2> DEFINE E == UNION {B[j] : j \in 1 .. i - 1}
             s == FunctionBlocks(fs[i])
  <2>1. Returnable(m, s) /\ GivesBack(m, r, E)
    BY <1>2 DEF ReturnableAll
  <2>2. ASSUME ~r.aborted, NEW k \in 1 .. Len(s), s[k] # 0 PROVE r.heap[s[k]] # "free"
    <3>1. ~m.aborted
      <4> HIDE DEF E, s
      <4> QED
        BY <2>1, <2>2 DEF GivesBack
    <3>2. s[k] \in Blocks /\ m.heap[s[k]] # "free" /\ s[k] \in Entries(s)
      <4> HIDE DEF E, s
      <4> QED
        BY <2>1, <2>2, <3>1 DEF Returnable, Entries
    <3>3. s[k] \notin E
      <4>1. \A j \in 1 .. i - 1 : j \in 1 .. n /\ j # i
        BY <1>1
      <4>2. \A j \in 1 .. i - 1 : Entries(s) \cap B[j] \subseteq {0}
        BY <3>1, <4>1 DEF ReturnableAll
      <4> HIDE DEF B, s
      <4> QED
        BY <2>2, <3>2, <4>2
    <3> HIDE DEF E, s
    <3> QED
      BY <2>1, <2>2, <3>2, <3>3 DEF GivesBack
  <2>3. Returnable(r, s)
    <3> HIDE DEF E, s
    <3>1. ~r.aborted => ~m.aborted
      BY <2>1 DEF GivesBack
    <3> QED
      BY <2>1, <2>2, <3>1 DEF Returnable
  <2>4. GivesBack(r, Unregistered(r, fs[i]), Entries(s))
    BY <2>3, DeallocatesAll DEF Unregistered
  <2>5. G[<<r, i>>] = Unregistered(r, fs[i]) /\ B[i] = Entries(s)
    OBVIOUS
  <2> HIDE DEF G, B, s
  <2> QED
    BY <2>4, <2>5
<1>3. PICK g \in [0 .. n -> Memories] :
        /\ g[0] = m
        /\ \A i \in 1 .. n : g[i] = G[<<g[i - 1], i>>]
        /\ GivesBack(m, g[n], UNION {B[j] : j \in 1 .. n})
  <2>1. StepsGiveBack(m, n, G, B)
    BY <1>2 DEF StepsGiveBack
  <2>2. n \in Nat
    BY <1>1
  <2>3. AllGivenBack(m, n, G, B) # {}
    <3> HIDE DEF G, B, n
    <3> QED
      BY <2>1, <2>2, InTurn
  <2> HIDE DEF G, B, n
  <2> QED
    BY <2>3 DEF AllGivenBack
<1>4. \A i \in 1 .. n : g[i] = Unregistered(g[i - 1], fs[i])
  BY <1>1, <1>3
<1>5. Recursive(g)
  BY <1>1, <1>3, <1>4 DEF Bind
<1>6. Recursive(reached)
  BY <1>5, Zenon
<1> HIDE DEF reached
<1> DEFINE same == {i \in 0 .. n : reached[i] = g[i]}
<1>7. reached[n] = g[n]
  <2>1. reached[0] = m /\ \A i \in 1 .. n : reached[i] = Unregistered(reached[i - 1], fs[i])
    BY <1>1, <1>6 DEF Bind
  <2>2. 0 \in same /\ \A i \in 1 .. n : i - 1 \in same => i \in same
    BY <1>1, <1>3, <1>4, <2>1
  <2>3. n \in Nat /\ n \in 0 .. n
    BY <1>1
  <2>4. n \in same
    <3> HIDE DEF same, n
    <3>1. \A i \in 0 .. n : i \in same
      BY <2>2, <2>3, Induction
    <3> QED
      BY <2>3, <3>1
  <2> QED
    BY <2>4
<1>8. Fold(Unregistered, m, fs) = reached[n]
  BY DEF Fold, reached
<1>9. UNION {B[j] : j \in 1 .. n} = UNION {Entries(FunctionBlocks(fs[i])) : i \in 1 .. Len(fs)}
  OBVIOUS
<1> HIDE DEF B
<1> QED
  BY <1>3, <1>7, <1>8, <1>9

-----------------------------------------------------------------------------
(* What some allocations in a row return.                                  *)

Taken == [mem : Memories, blocks : Seq(Blocks \cup {0})]

(* t is m after n allocations: the blocks they returned were free before. *)
Takes(m, t, n) ==
  /\ t \in Taken /\ Len(t.blocks) = n /\ t.mem.aborted = m.aborted
  /\ Once(t.blocks)
  /\ \A i \in 1 .. n : t.blocks[i] # 0 => m.heap[t.blocks[i]] = "free"
  /\ \A b \in Blocks : t.mem.heap[b] = "free" <=> m.heap[b] = "free" /\ b \notin Entries(t.blocks)

LEMMA TakesOneMore ==
  ASSUME NEW m \in Memories, NEW n \in Nat, NEW t, Takes(m, t, n),
         NEW purpose \in Kinds, NEW refused
  PROVE  Takes(m, TookOne(t, purpose, refused), n + 1)
<1>1. /\ t.mem \in Memories /\ t.blocks \in Seq(Blocks \cup {0}) /\ Len(t.blocks) = n
      /\ t \in Taken
  BY DEF Takes, Taken
<1>2. ASSUME NEW b \in Blocks \cup {0}, NEW h \in Memories, h.aborted = t.mem.aborted,
             b # 0 => t.mem.heap[b] = "free",
             \A c \in Blocks : h.heap[c] = "free" <=> t.mem.heap[c] = "free" /\ c # b
      PROVE  Takes(m, [mem |-> h, blocks |-> Append(t.blocks, b)], n + 1)
  <2> DEFINE s == Append(t.blocks, b)
  <2>1. /\ s \in Seq(Blocks \cup {0}) /\ Len(s) = n + 1 /\ s[n + 1] = b
        /\ \A i \in 1 .. n : s[i] = t.blocks[i]
    BY <1>1
  <2>2. \A i \in 1 .. n + 1 : i \in 1 .. n \/ i = n + 1
    OBVIOUS
  <2>3. Entries(s) = Entries(t.blocks) \cup {b}
    <3>1. \A i \in 1 .. n : i \in 1 .. n + 1
      OBVIOUS
    <3>2. n + 1 \in 1 .. n + 1
      OBVIOUS
    <3> HIDE DEF s
    <3> QED
      BY <1>1, <2>1, <2>2, <3>1, <3>2 DEF Entries
  <2> HIDE DEF s
  <2>4. b # 0 => m.heap[b] = "free" /\ \A i \in 1 .. n : t.blocks[i] # b
    <3> SUFFICES ASSUME b # 0 PROVE m.heap[b] = "free" /\ b \notin Entries(t.blocks)
      BY <1>1 DEF Entries
    <3> QED
      BY <1>2 DEF Takes
  <2>5. Once(s)
    BY <1>1, <2>1, <2>2, <2>4 DEF Once, Takes
  <2>6. \A i \in 1 .. n + 1 : s[i] # 0 => m.heap[s[i]] = "free"
    BY <2>1, <2>2, <2>4 DEF Takes
  <2>7. \A c \in Blocks : h.heap[c] = "free" <=> m.heap[c] = "free" /\ c \notin Entries(s)
    BY <1>2, <2>3 DEF Takes
  <2>8. [mem |-> h, blocks |-> s] \in Taken /\ h.aborted = m.aborted
    BY <1>2, <2>1 DEF Taken, Takes
  <2> QED
    BY <2>1, <2>5, <2>6, <2>7, <2>8 DEF Takes, s
<1>3. CASE refused \/ Unused(t.mem) = {}
  <2>1. TookOne(t, purpose, refused) = [mem |-> t.mem, blocks |-> Append(t.blocks, 0)]
    BY <1>1, <1>3 DEF TookOne, Taken
  <2> QED
    BY <1>1, <1>2, <2>1, BlockFacts
<1>4. CASE ~refused /\ Unused(t.mem) # {}
  <2> DEFINE b == NextBlock(t.mem)
             h == IF purpose = "text" THEN Duplicated(t.mem) ELSE Allocated(t.mem, purpose)
  <2>1. b \in Blocks /\ t.mem.heap[b] = "free"
    BY <1>4, FirstUnused
  <2>2. /\ h \in Memories /\ h.aborted = t.mem.aborted
        /\ h.heap = [t.mem.heap EXCEPT ![b] = purpose]
    BY <1>1, <1>4, AllocatesOne
  <2>3. \A c \in Blocks : h.heap[c] = "free" <=> t.mem.heap[c] = "free" /\ c # b
    <3>1. t.mem.heap \in [Blocks -> Kinds \cup {"free"}]
      BY <1>1 DEF Memories
    <3> HIDE DEF h, b
    <3> QED
      BY <2>1, <2>2, <3>1, BlockFacts
  <2>4. TookOne(t, purpose, refused) = [mem |-> h, blocks |-> Append(t.blocks, b)]
    BY <1>4 DEF TookOne
  <2> HIDE DEF h, b
  <2>5. b \in Blocks \cup {0} /\ (b # 0 => t.mem.heap[b] = "free")
    BY <2>1
  <2>6. Takes(m, [mem |-> h, blocks |-> Append(t.blocks, b)], n + 1)
    BY <1>2, <2>2, <2>3, <2>5
  <2> QED
    BY <2>4, <2>6
<1> QED
  BY <1>3, <1>4

LEMMA TookTakes ==
  ASSUME NEW m \in Memories, NEW kinds \in Seq(Kinds), NEW denied
  PROVE  Takes(m, Took(m, kinds, denied), Len(kinds))
<1> DEFINE n == Len(kinds)
           first == [mem |-> m, blocks |-> << >>]
           seq == [i \in 1 .. n |-> i]
           F == [p \in Taken \X (1 .. n) |-> TookOne(p[1], kinds[p[2]], p[2] \in denied)]
           Recursive(f) == f = [i \in 0 .. Len(seq) |->
                                  IF i = 0 THEN first
                                  ELSE Bind(f[i - 1],
                                            LAMBDA t : TookOne(t, kinds[seq[i]], seq[i] \in denied))]
           reached == CHOOSE f : Recursive(f)
<1>1. /\ n \in Nat /\ \A i \in 1 .. n : i - 1 \in 0 .. n /\ kinds[i] \in Kinds
      /\ Len(seq) = n /\ \A i \in 1 .. n : seq[i] = i
  OBVIOUS
<1>2. Takes(m, first, 0)
  BY DEF Takes, Taken, Once, Entries
<1>3. ASSUME NEW t \in Taken, NEW i \in 1 .. n
      PROVE  TookOne(t, kinds[i], i \in denied) \in Taken
  <2>1. t.mem \in Memories /\ t.blocks \in Seq(Blocks \cup {0}) /\ kinds[i] \in Kinds
    BY <1>1 DEF Taken
  <2>2. [t EXCEPT !.blocks = Append(@, 0)] \in Taken
    <3>1. Append(t.blocks, 0) \in Seq(Blocks \cup {0})
      BY <2>1
    <3> QED
      BY <3>1 DEF Taken
  <2>3. ASSUME Unused(t.mem) # {}
        PROVE  /\ NextBlock(t.mem) \in Blocks
               /\ Allocated(t.mem, kinds[i]) \in Memories /\ Duplicated(t.mem) \in Memories
    BY <2>1, <2>3, FirstUnused, AllocatesOne
  <2> QED
    BY <2>1, <2>2, <2>3 DEF TookOne, Taken
<1>4. F \in [Taken \X (1 .. n) -> Taken]
  BY <1>3
<1>5. first \in Taken
  BY <1>2 DEF Takes
<1>6. PICK g \in Results(n, Taken, first, F) : TRUE
  <2>1. n \in Nat
    BY <1>1
  <2> HIDE DEF F, n, first
  <2>2. Results(n, Taken, first, F) # {}
    BY <1>4, <1>5, <2>1, Recursion
  <2> QED
    BY <2>2
<1>7. /\ g \in [0 .. n -> Taken] /\ g[0] = first
      /\ \A i \in 1 .. n : g[i] = TookOne(g[i - 1], kinds[i], i \in denied)
  BY <1>1, <1>6 DEF Results
<1>8. Recursive(g)
  BY <1>1, <1>7 DEF Bind
<1>9. Recursive(reached)
  BY <1>8, Zenon
<1> HIDE DEF reached
<1>10. /\ reached[0] = first
       /\ \A i \in 1 .. n : reached[i] = TookOne(reached[i - 1], kinds[i], i \in denied)
  <2> HIDE DEF n, first, seq
  <2>1. Len(seq) = n /\ 0 \in 0 .. n /\ \A i \in 1 .. n : i \in 0 .. n /\ i # 0
    BY <1>1
  <2>2. reached = [i \in 0 .. n |->
                     IF i = 0 THEN first
                     ELSE Bind(reached[i - 1], LAMBDA t : TookOne(t, kinds[seq[i]], seq[i] \in denied))]
    BY <1>9, <2>1
  <2>3. reached[0] = first
    BY <2>1, <2>2
  <2>4. ASSUME NEW i \in 1 .. n PROVE reached[i] = TookOne(reached[i - 1], kinds[i], i \in denied)
    <3>1. seq[i] = i /\ i \in 0 .. n /\ i # 0
      BY <1>1, <2>1
    <3>2. reached[i] = TookOne(reached[i - 1], kinds[seq[i]], seq[i] \in denied)
      BY <2>2, <3>1 DEF Bind
    <3> QED
      BY <3>1, <3>2
  <2> QED
    BY <2>3, <2>4
<1> DEFINE P == {i \in 0 .. n : Takes(m, reached[i], i)}
<1>11. n \in P
  <2>1. 0 \in P
    BY <1>1, <1>2, <1>10
  <2>2. ASSUME NEW i \in 1 .. n, i - 1 \in P PROVE i \in P
    <3>1. i - 1 \in Nat /\ Takes(m, reached[i - 1], i - 1) /\ kinds[i] \in Kinds
      BY <1>1, <2>2
    <3>2. Takes(m, TookOne(reached[i - 1], kinds[i], i \in denied), (i - 1) + 1)
      BY <3>1, TakesOneMore
    <3>3. (i - 1) + 1 = i /\ i \in 0 .. n
      BY <1>1
    <3> QED
      BY <1>10, <3>2, <3>3
  <2>3. \A i \in 1 .. n : i - 1 \in P => i \in P
    BY <2>2
  <2>4. n \in Nat /\ n \in 0 .. n
    BY <1>1
  <2> HIDE DEF P, n
  <2>5. \A i \in 0 .. n : i \in P
    BY <2>1, <2>3, <2>4, Induction
  <2> QED
    BY <2>4, <2>5
<1>12. Took(m, kinds, denied) = reached[Len(seq)]
  BY DEF Took, Fold, reached
<1> QED
  BY <1>1, <1>11, <1>12

-----------------------------------------------------------------------------
(* What points to blocks, before an operation and after it.                *)

Fields == {"name_block", "signature", "function", "entry"}

HoldersOf(ms, fs, os) ==
  {<< "context", 0 >>, << "error", 0 >>}
  \cup {"module"} \X DOMAIN ms
  \cup Fields \X DOMAIN fs
  \cup UNION {{<< "own", object, i >> : i \in DOMAIN object} : object \in os}

(* Held, of given values of the variables. *)
HeldBy(c, e, ms, fs, os) ==
  [h \in HoldersOf(ms, fs, os) |-> CASE h[1] = "context" -> c
                                     [] h[1] = "error"   -> e
                                     [] h[1] = "module"  -> ms[h[2]].block
                                     [] h[1] = "own"     -> h[2][h[3]]
                                     [] OTHER            -> fs[h[2]][h[1]]]

(* In r those blocks are in use that are in m, without `gone` and with `new`. *)
Uses(m, r, new, gone) ==
  \A b \in Blocks :
    r.heap[b] # "free" <=> b \in new \/ (m.heap[b] # "free" /\ b \notin gone)

(* After an operation each holder in `New` has a fresh block, or none; each other *)
(* one is what was[h] was before, where those in `Gone` were left out.            *)
Carried(P, Q, m, New, Gone, was) ==
  /\ New \subseteq DOMAIN Q /\ Gone \subseteq DOMAIN P
  /\ \A h \in DOMAIN Q \ New : was[h] \in DOMAIN P \ Gone /\ Q[h] = P[was[h]]
  /\ \A g, h \in DOMAIN Q \ New : was[g] = was[h] => g = h
  /\ \A p \in DOMAIN P \ Gone : \E h \in DOMAIN Q \ New : was[h] = p
  /\ \A g, h \in New : Q[g] = Q[h] /\ Q[g] # 0 => g = h
  /\ \A h \in New : Q[h] # 0 => Q[h] \in Blocks /\ m.heap[Q[h]] = "free"

LEMMA Reaccounts ==
  ASSUME NEW P, NEW Q, NEW m, NEW r, NEW New, NEW Gone, NEW was, Accounts(P, m),
         Carried(P, Q, m, New, Gone, was),
         Uses(m, r, {Q[h] : h \in New}, {P[p] : p \in Gone})
  PROVE  Accounts(Q, r)
<1> USE DEF Carried
<1>1. \A p \in DOMAIN P : P[p] # 0 => P[p] \in Blocks /\ m.heap[P[p]] # "free"
  BY DEF Accounts, Unused
<1>2. \A g, h \in DOMAIN P : P[g] = P[h] /\ P[g] # 0 => g = h
  BY DEF Accounts
<1>3. ASSUME NEW g \in DOMAIN Q, NEW h \in DOMAIN Q, Q[g] = Q[h], Q[g] # 0 PROVE g = h
  <2>1. CASE g \in New /\ h \in New
    BY <1>3, <2>1
  <2>2. CASE g \notin New /\ h \notin New
    <3>1. P[was[g]] = P[was[h]] /\ P[was[g]] # 0 /\ was[g] \in DOMAIN P /\ was[h] \in DOMAIN P
      BY <1>3, <2>2
    <3> QED
      BY <1>2, <2>2, <3>1
  <2>3. \A k \in DOMAIN Q : k \in New /\ Q[k] # 0 => m.heap[Q[k]] = "free"
    OBVIOUS
  <2>4. \A k \in DOMAIN Q : k \notin New /\ Q[k] # 0 => m.heap[Q[k]] # "free"
    BY <1>1
  <2> QED
    BY <1>3, <2>1, <2>2, <2>3, <2>4
<1>4. ASSUME NEW h \in DOMAIN Q, Q[h] # 0 PROVE Q[h] \in Blocks /\ r.heap[Q[h]] # "free"
  <2>1. CASE h \in New
    BY <1>4, <2>1 DEF Uses
  <2>2. CASE h \notin New
    <3>1. was[h] \in DOMAIN P \ Gone /\ Q[h] = P[was[h]]
      BY <2>2
    <3>2. Q[h] \in Blocks /\ m.heap[Q[h]] # "free"
      BY <1>1, <1>4, <3>1
    <3>3. \A p \in Gone : P[p] # Q[h]
      BY <1>2, <1>4, <3>1
    <3> QED
      BY <3>2, <3>3 DEF Uses
  <2> QED
    BY <2>1, <2>2
<1>5. ASSUME NEW b \in Blocks, r.heap[b] # "free" PROVE \E h \in DOMAIN Q : Q[h] = b
  <2>1. CASE b \in {Q[h] : h \in New}
    BY <2>1
  <2>2. CASE m.heap[b] # "free" /\ b \notin {P[p] : p \in Gone}
    <3>1. PICK p \in DOMAIN P : P[p] = b /\ P[p] # 0
      BY <2>2 DEF Accounts, Unused
    <3> QED
      BY <2>2, <3>1
  <2> QED
    BY <1>5, <2>1, <2>2 DEF Uses
<1>6. {Q[h] : h \in DOMAIN Q} \ {0} = Blocks \ Unused(r)
  <2>1. 0 \notin Blocks
    BY BlockFacts
  <2> QED
    BY <1>4, <1>5, <2>1 DEF Unused
<1> QED
  BY <1>3, <1>6 DEF Accounts

LEMMA HeldAt ==
  ASSUME NEW c, NEW e, NEW ms, NEW fs, NEW os
  PROVE  /\ DOMAIN HeldBy(c, e, ms, fs, os) = HoldersOf(ms, fs, os)
         /\ HeldBy(c, e, ms, fs, os)[<< "context", 0 >>] = c
         /\ HeldBy(c, e, ms, fs, os)[<< "error", 0 >>] = e
         /\ \A i \in DOMAIN ms : HeldBy(c, e, ms, fs, os)[<< "module", i >>] = ms[i].block
         /\ \A f \in Fields, i \in DOMAIN fs : HeldBy(c, e, ms, fs, os)[<< f, i >>] = fs[i][f]
         /\ \A o \in os : \A i \in DOMAIN o : HeldBy(c, e, ms, fs, os)[<< "own", o, i >>] = o[i]
<1> DEFINE held == HeldBy(c, e, ms, fs, os)
           At(h) == CASE h[1] = "context" -> c
                      [] h[1] = "error"   -> e
                      [] h[1] = "module"  -> ms[h[2]].block
                      [] h[1] = "own"     -> h[2][h[3]]
                      [] OTHER            -> fs[h[2]][h[1]]
<1>1. DOMAIN held = HoldersOf(ms, fs, os) /\ \A h \in HoldersOf(ms, fs, os) : held[h] = At(h)
  BY DEF HeldBy
<1>2. /\ << "context", 0 >> \in HoldersOf(ms, fs, os) /\ << "error", 0 >> \in HoldersOf(ms, fs, os)
      /\ \A i \in DOMAIN ms : << "module", i >> \in HoldersOf(ms, fs, os)
      /\ \A f \in Fields, i \in DOMAIN fs : << f, i >> \in HoldersOf(ms, fs, os)
      /\ \A o \in os : \A i \in DOMAIN o : << "own", o, i >> \in HoldersOf(ms, fs, os)
  BY DEF HoldersOf
<1>3. /\ At(<< "context", 0 >>) = c /\ At(<< "error", 0 >>) = e
      /\ \A i : At(<< "module", i >>) = ms[i].block
      /\ \A o, i : At(<< "own", o, i >>) = o[i]
  OBVIOUS
<1>4. \A f \in Fields : \A i : At(<< f, i >>) = fs[i][f]
  BY DEF Fields
<1> HIDE DEF At, held
<1> QED
  BY <1>1, <1>2, <1>3, <1>4 DEF held

LEMMA HolderIs ==
  ASSUME NEW ms, NEW fs, NEW os, NEW h \in HoldersOf(ms, fs, os)
  PROVE  \/ h = << "context", 0 >>
         \/ h = << "error", 0 >>
         \/ \E i \in DOMAIN ms : h = << "module", i >>
         \/ \E f \in Fields, i \in DOMAIN fs : h = << f, i >>
         \/ \E o \in os : \E i \in DOMAIN o : h = << "own", o, i >>
BY DEF HoldersOf

(* Another context.                                                       *)
LEMMA ContextAccounted ==
  ASSUME NEW c, NEW e, NEW ms, NEW fs, NEW os, NEW m, NEW r,
         NEW d, d = 0 \/ (d \in Blocks /\ m.heap[d] = "free"),
         Accounts(HeldBy(c, e, ms, fs, os), m),
         Uses(m, r, {d}, {c})
  PROVE  Accounts(HeldBy(d, e, ms, fs, os), r)
<1> DEFINE P == HeldBy(c, e, ms, fs, os)
           Q == HeldBy(d, e, ms, fs, os)
           New == {<< "context", 0 >>}
           H == HoldersOf(ms, fs, os)
           was == [h \in H |-> h]
<1>1. DOMAIN P = H /\ DOMAIN Q = H /\ New \subseteq H
  <2>1. New \subseteq H
    BY DEF HoldersOf
  <2> HIDE DEF H, New
  <2> QED
    BY <2>1, HeldAt DEF H
<1>2. \A h \in H \ New : P[h] = Q[h]
  <2> TAKE h \in H \ New
  <2> HIDE DEF P, Q
  <2> QED
    BY HolderIs, HeldAt DEF P, Q
<1>3. \A h \in H \ New : was[h] = h
  OBVIOUS
<1>4. P[<< "context", 0 >>] = c /\ Q[<< "context", 0 >>] = d
  BY HeldAt
<1>5. Uses(m, r, {Q[h] : h \in New}, {P[h] : h \in New})
  BY <1>4
<1>6. Carried(P, Q, m, New, New, was)
  <2> HIDE DEF P, Q, H, was
  <2> QED
    BY <1>1, <1>2, <1>3, <1>4 DEF Carried
<1> HIDE DEF P, Q, New, was
<1>7. Accounts(P, m)
  BY DEF P
<1>8. Accounts(Q, r)
  BY <1>5, <1>6, <1>7, Reaccounts
<1> QED
  BY <1>8 DEF Q

(* Another error.                                                         *)
LEMMA ErrorAccounted ==
  ASSUME NEW c, NEW e, NEW ms, NEW fs, NEW os, NEW m, NEW r,
         NEW d, d = 0 \/ (d \in Blocks /\ m.heap[d] = "free"),
         Accounts(HeldBy(c, e, ms, fs, os), m),
         Uses(m, r, {d}, {e})
  PROVE  Accounts(HeldBy(c, d, ms, fs, os), r)
<1> DEFINE P == HeldBy(c, e, ms, fs, os)
           Q == HeldBy(c, d, ms, fs, os)
           New == {<< "error", 0 >>}
           H == HoldersOf(ms, fs, os)
           was == [h \in H |-> h]
<1>1. DOMAIN P = H /\ DOMAIN Q = H /\ New \subseteq H
  <2>1. New \subseteq H
    BY DEF HoldersOf
  <2> HIDE DEF H, New
  <2> QED
    BY <2>1, HeldAt DEF H
<1>2. \A h \in H \ New : P[h] = Q[h]
  <2> TAKE h \in H \ New
  <2> HIDE DEF P, Q
  <2> QED
    BY HolderIs, HeldAt DEF P, Q
<1>3. \A h \in H \ New : was[h] = h
  OBVIOUS
<1>4. P[<< "error", 0 >>] = e /\ Q[<< "error", 0 >>] = d
  BY HeldAt
<1>5. Uses(m, r, {Q[h] : h \in New}, {P[h] : h \in New})
  BY <1>4
<1>6. Carried(P, Q, m, New, New, was)
  <2> HIDE DEF P, Q, H, was
  <2> QED
    BY <1>1, <1>2, <1>3, <1>4 DEF Carried
<1> HIDE DEF P, Q, New, was
<1>7. Accounts(P, m)
  BY DEF P
<1>8. Accounts(Q, r)
  BY <1>5, <1>6, <1>7, Reaccounts
<1> QED
  BY <1>8 DEF Q

(* Neither a context nor an error.                                        *)
LEMMA ClearedAccounted ==
  ASSUME NEW c, NEW e, NEW ms, NEW fs, NEW os, NEW m, NEW r,
         Accounts(HeldBy(c, e, ms, fs, os), m),
         Uses(m, r, {}, {c, e})
  PROVE  Accounts(HeldBy(0, 0, ms, fs, os), r)
<1> DEFINE P == HeldBy(c, e, ms, fs, os)
           Q == HeldBy(0, 0, ms, fs, os)
           New == {<< "context", 0 >>, << "error", 0 >>}
           H == HoldersOf(ms, fs, os)
           was == [h \in H |-> h]
<1>1. DOMAIN P = H /\ DOMAIN Q = H /\ New \subseteq H
  <2>1. New \subseteq H
    BY DEF HoldersOf
  <2> HIDE DEF H, New
  <2> QED
    BY <2>1, HeldAt DEF H
<1>2. \A h \in H \ New : P[h] = Q[h]
  <2> TAKE h \in H \ New
  <2> HIDE DEF P, Q
  <2> QED
    BY HolderIs, HeldAt DEF P, Q
<1>3. \A h \in H \ New : was[h] = h
  OBVIOUS
<1>4. /\ P[<< "context", 0 >>] = c /\ Q[<< "context", 0 >>] = 0
      /\ P[<< "error", 0 >>] = e /\ Q[<< "error", 0 >>] = 0
  BY HeldAt
<1>5. Uses(m, r, {Q[h] : h \in New}, {P[h] : h \in New})
  BY <1>4, BlockFacts DEF Uses
<1>6. Carried(P, Q, m, New, New, was)
  <2> HIDE DEF P, Q, H, was
  <2> QED
    BY <1>1, <1>2, <1>3, <1>4 DEF Carried
<1> HIDE DEF P, Q, New, was
<1>7. Accounts(P, m)
  BY DEF P
<1>8. Accounts(Q, r)
  BY <1>5, <1>6, <1>7, Reaccounts
<1> QED
  BY <1>8 DEF Q

(* t has the elements of s without those at `gone`, and others at `new`: element i *)
(* of t is element w[i] of s.                                                      *)
Reindexed(s, t, w, new, gone) ==
  /\ new \subseteq DOMAIN t /\ gone \subseteq DOMAIN s
  /\ \A i \in DOMAIN t \ new : w[i] \in DOMAIN s \ gone /\ t[i] = s[w[i]]
  /\ \A i, j \in DOMAIN t \ new : w[i] = w[j] => i = j
  /\ \A j \in DOMAIN s \ gone : \E i \in DOMAIN t \ new : w[i] = j

LEMMA Prepended ==
  ASSUME NEW S, NEW s \in Seq(S), NEW x \in S
  PROVE  /\ << x >> \o s \in Seq(S) /\ DOMAIN (<< x >> \o s) = 1 .. Len(s) + 1
         /\ (<< x >> \o s)[1] = x /\ \A i \in 1 .. Len(s) : (<< x >> \o s)[i + 1] = s[i]
         /\ Reindexed(s, << x >> \o s, [i \in 1 .. Len(s) + 1 |-> i - 1], {1}, {})
<1> DEFINE t == << x >> \o s
           w == [i \in 1 .. Len(s) + 1 |-> i - 1]
<1>1. /\ t \in Seq(S) /\ DOMAIN t = 1 .. Len(s) + 1 /\ DOMAIN s = 1 .. Len(s) /\ Len(s) \in Nat
      /\ t[1] = x /\ \A i \in 1 .. Len(s) + 1 : i # 1 => t[i] = s[i - 1]
  OBVIOUS
<1> HIDE DEF t
<1>2. Reindexed(s, t, w, {1}, {})
  <2>1. \A i \in DOMAIN t \ {1} : w[i] = i - 1 /\ i - 1 \in 1 .. Len(s)
    BY <1>1
  <2>2. \A j \in DOMAIN s : j + 1 \in DOMAIN t \ {1} /\ w[j + 1] = j
    BY <1>1
  <2>3. 1 \in DOMAIN t
    BY <1>1
  <2> HIDE DEF w
  <2>4. \A i \in DOMAIN t \ {1} : w[i] \in DOMAIN s /\ t[i] = s[w[i]]
    BY <1>1, <2>1
  <2>5. \A i, j \in DOMAIN t \ {1} : w[i] = w[j] => i = j
    BY <1>1, <2>1
  <2> QED
    BY <2>2, <2>3, <2>4, <2>5 DEF Reindexed
<1>3. \A i \in 1 .. Len(s) : t[i + 1] = s[i]
  BY <1>1
<1> QED
  BY <1>1, <1>2, <1>3 DEF t

LEMMA RemovedAt ==
  ASSUME NEW S, NEW s \in Seq(S), NEW k \in 1 .. Len(s)
  PROVE  /\ RemoveAt(s, k) \in Seq(S)
         /\ Reindexed(s, RemoveAt(s, k), [i \in 1 .. Len(s) - 1 |-> IF i < k THEN i ELSE i + 1],
                      {}, {k})
<1> DEFINE t == RemoveAt(s, k)
           w == [i \in 1 .. Len(s) - 1 |-> IF i < k THEN i ELSE i + 1]
<1>1. /\ t \in Seq(S) /\ DOMAIN t = 1 .. Len(s) - 1 /\ DOMAIN s = 1 .. Len(s) /\ Len(s) \in Nat
      /\ \A i \in 1 .. Len(s) - 1 : t[i] = IF i < k THEN s[i] ELSE s[i + 1]
  <2> DEFINE front == SubSeq(s, 1, k - 1)
             back == SubSeq(s, k + 1, Len(s))
  <2>1. front \in Seq(S)
    OBVIOUS
  <2>2. Len(front) = k - 1 /\ \A i \in 1 .. k - 1 : front[i] = s[i]
    OBVIOUS
  <2>3. back \in Seq(S)
    OBVIOUS
  <2>4. Len(back) = Len(s) - k /\ \A i \in 1 .. Len(s) - k : back[i] = s[k + i]
    OBVIOUS
  <2>5. t = front \o back
    BY DEF RemoveAt
  <2> HIDE DEF front, back, t
  <2>6. t \in Seq(S)
    BY <2>1, <2>3, <2>5
  <2>7. Len(t) = Len(s) - 1
    BY <2>1, <2>2, <2>3, <2>4, <2>5
  <2>8. ASSUME NEW i \in 1 .. Len(s) - 1 PROVE t[i] = IF i < k THEN s[i] ELSE s[i + 1]
    <3>1. CASE i < k
      BY <2>1, <2>2, <2>3, <2>4, <2>5, <3>1
    <3>2. CASE i >= k
      <4>1. i - (k - 1) \in 1 .. Len(s) - k /\ Len(front) = k - 1
        BY <2>2, <3>2
      <4>3. t[i] = back[i - (k - 1)]
        BY <2>1, <2>3, <2>4, <2>5, <4>1
      <4>2. k + (i - (k - 1)) = i + 1
        OBVIOUS
      <4> QED
        BY <2>4, <3>2, <4>1, <4>2, <4>3
    <3> QED
      BY <3>1, <3>2
  <2> QED
    BY <2>6, <2>7, <2>8
<1> HIDE DEF t
<1>2. \A i \in 1 .. Len(s) - 1 : w[i] = IF i < k THEN i ELSE i + 1
  OBVIOUS
<1>3. \A j \in 1 .. Len(s) : /\ j < k => j \in 1 .. Len(s) - 1 /\ w[j] = j
                             /\ j > k => j - 1 \in 1 .. Len(s) - 1 /\ w[j - 1] = j
  BY <1>1
<1> HIDE DEF w
<1>4. \A i \in DOMAIN t : w[i] \in DOMAIN s \ {k} /\ t[i] = s[w[i]]
  BY <1>1, <1>2
<1>5. \A i, j \in DOMAIN t : w[i] = w[j] => i = j
  BY <1>1, <1>2
<1>6. \A j \in DOMAIN s \ {k} : \E i \in DOMAIN t : w[i] = j
  <2> TAKE j \in DOMAIN s \ {k}
  <2>1. j < k \/ j > k
    BY <1>1
  <2> QED
    BY <1>1, <1>3, <2>1
<1>7. Reindexed(s, t, w, {}, {k})
  BY <1>1, <1>4, <1>5, <1>6 DEF Reindexed
<1> QED
  BY <1>1, <1>7 DEF t, w

LEMMA Emptied ==
  ASSUME NEW s
  PROVE  Reindexed(s, << >>, << >>, {}, DOMAIN s)
BY DEF Reindexed

(* Other modules.                                                          *)
LEMMA ModulesAccounted ==
  ASSUME NEW c, NEW e, NEW ms, NEW fs, NEW os, NEW m, NEW r,
         NEW ns, NEW w, NEW new, NEW gone, Reindexed(ms, ns, w, new, gone),
         Accounts(HeldBy(c, e, ms, fs, os), m),
         \A i, j \in new : ns[i].block = ns[j].block => i = j,
         \A i \in new : ns[i].block \in Blocks /\ m.heap[ns[i].block] = "free",
         Uses(m, r, {ns[i].block : i \in new}, {ms[i].block : i \in gone})
  PROVE  Accounts(HeldBy(c, e, ns, fs, os), r)
<1> DEFINE P == HeldBy(c, e, ms, fs, os)
           Q == HeldBy(c, e, ns, fs, os)
           New == {<< "module", i >> : i \in new}
           Gone == {<< "module", i >> : i \in gone}
           was == [h \in HoldersOf(ns, fs, os) |->
                     IF h[1] = "module" THEN << "module", w[h[2]] >> ELSE h]
<1>1. /\ DOMAIN P = HoldersOf(ms, fs, os) /\ DOMAIN Q = HoldersOf(ns, fs, os)
      /\ New \subseteq HoldersOf(ns, fs, os) /\ Gone \subseteq HoldersOf(ms, fs, os)
  <2>1. New \subseteq HoldersOf(ns, fs, os) /\ Gone \subseteq HoldersOf(ms, fs, os)
    BY DEF Reindexed, HoldersOf
  <2> HIDE DEF New, Gone
  <2> QED
    BY <2>1, HeldAt
<1>2. \A h \in HoldersOf(ns, fs, os) :
        was[h] = IF h[1] = "module" THEN << "module", w[h[2]] >> ELSE h
  OBVIOUS
<1>3. \A i \in DOMAIN ns : i \in new <=> << "module", i >> \in New
  OBVIOUS
<1>4. \A i \in DOMAIN ms : i \in gone <=> << "module", i >> \in Gone
  OBVIOUS
<1>5. \A h : h \in New \/ h \in Gone => h[1] = "module"
  OBVIOUS
<1> HIDE DEF was
<1>6. ASSUME NEW h \in HoldersOf(ns, fs, os) \ New
      PROVE  /\ was[h] \in HoldersOf(ms, fs, os) \ Gone /\ Q[h] = P[was[h]]
             /\ h[1] = "module" => /\ h = << "module", h[2] >> /\ h[2] \in DOMAIN ns \ new
                                  /\ was[h] = << "module", w[h[2]] >>
             /\ h[1] # "module" => was[h] = h
  <2>1. CASE \E i \in DOMAIN ns : h = << "module", i >>
    <3>1. PICK i \in DOMAIN ns : h = << "module", i >>
      BY <2>1
    <3>2. i \notin new /\ h[1] = "module" /\ h[2] = i
      BY <1>3, <3>1
    <3>3. was[h] = << "module", w[i] >> /\ w[i] \in DOMAIN ms \ gone /\ ns[i] = ms[w[i]]
      BY <1>2, <3>2 DEF Reindexed
    <3>4. << "module", w[i] >> \in HoldersOf(ms, fs, os) \ Gone
      BY <1>4, <3>3 DEF HoldersOf
    <3>5. Q[h] = ns[i].block /\ P[was[h]] = ms[w[i]].block
      <4> HIDE DEF P, Q
      <4> QED
        BY <3>1, <3>3, HeldAt DEF P, Q
    <3> HIDE DEF P, Q, New, Gone
    <3> QED
      BY <3>1, <3>2, <3>3, <3>4, <3>5
  <2>2. CASE ~\E i \in DOMAIN ns : h = << "module", i >>
    <3>1. /\ h[1] # "module" /\ h \in HoldersOf(ms, fs, os)
      BY <2>2, HolderIs DEF HoldersOf, Fields
    <3>2. h \notin Gone /\ was[h] = h
      BY <1>2, <1>5, <3>1
    <3>3. Q[h] = P[h]
      <4> HIDE DEF P, Q
      <4> QED
        BY <2>2, HolderIs, HeldAt DEF P, Q
    <3> HIDE DEF P, Q, New, Gone
    <3> QED
      BY <3>1, <3>2, <3>3
  <2> QED
    BY <2>1, <2>2
<1>7. ASSUME NEW g \in HoldersOf(ns, fs, os) \ New, NEW h \in HoldersOf(ns, fs, os) \ New,
             was[g] = was[h]
      PROVE  g = h
  <2>1. CASE g[1] = "module" /\ h[1] = "module"
    <3>1. w[g[2]] = w[h[2]]
      BY <1>6, <1>7, <2>1
    <3>2. g[2] = h[2]
      BY <1>6, <2>1, <3>1 DEF Reindexed
    <3> QED
      BY <1>6, <2>1, <3>2
  <2>2. CASE ~(g[1] = "module" /\ h[1] = "module")
    <3>1. g[1] = "module" <=> h[1] = "module"
      BY <1>6, <1>7
    <3> QED
      BY <1>6, <1>7, <2>2, <3>1
  <2> QED
    BY <2>1, <2>2
<1>8. ASSUME NEW p \in HoldersOf(ms, fs, os) \ Gone
      PROVE  \E h \in HoldersOf(ns, fs, os) \ New : was[h] = p
  <2>1. CASE \E i \in DOMAIN ms : p = << "module", i >>
    <3>1. PICK i \in DOMAIN ms : p = << "module", i >>
      BY <2>1
    <3>2. i \notin gone
      BY <1>4, <3>1
    <3>3. PICK j \in DOMAIN ns \ new : w[j] = i
      BY <3>2 DEF Reindexed
    <3>4. << "module", j >> \in HoldersOf(ns, fs, os) \ New
      BY <1>3, <3>3 DEF HoldersOf
    <3> HIDE DEF New, Gone
    <3> QED
      BY <1>6, <3>1, <3>3, <3>4
  <2>2. CASE ~\E i \in DOMAIN ms : p = << "module", i >>
    <3>1. p[1] # "module" /\ p \in HoldersOf(ns, fs, os)
      BY <2>2, HolderIs DEF HoldersOf, Fields
    <3>2. p \notin New
      BY <1>5, <3>1
    <3> HIDE DEF New, Gone
    <3> QED
      BY <1>6, <3>1, <3>2
  <2> QED
    BY <2>1, <2>2
<1> HIDE DEF P, Q
<1>9. \A i \in DOMAIN ns : Q[<< "module", i >>] = ns[i].block
  <2> HIDE DEF New, Gone
  <2> TAKE i \in DOMAIN ns
  <2> QED
    BY HeldAt DEF Q
<1>10. \A i \in DOMAIN ms : P[<< "module", i >>] = ms[i].block
  <2> HIDE DEF New, Gone
  <2> TAKE i \in DOMAIN ms
  <2> QED
    BY HeldAt DEF P
<1>11. new \subseteq DOMAIN ns /\ gone \subseteq DOMAIN ms
  BY DEF Reindexed
<1>12. {Q[h] : h \in New} = {ns[i].block : i \in new}
  <2>1. \A i \in new : Q[<< "module", i >>] = ns[i].block /\ << "module", i >> \in New
    BY <1>9, <1>11
  <2>2. \A h \in New : \E i \in new : h = << "module", i >>
    OBVIOUS
  <2> HIDE DEF New
  <2>3. \A h \in New : Q[h] \in {ns[i].block : i \in new}
    BY <2>1, <2>2
  <2>4. \A i \in new : ns[i].block \in {Q[h] : h \in New}
    BY <2>1
  <2> QED
    BY <2>3, <2>4
<1>13. {P[h] : h \in Gone} = {ms[i].block : i \in gone}
  <2>1. \A i \in gone : P[<< "module", i >>] = ms[i].block /\ << "module", i >> \in Gone
    BY <1>10, <1>11
  <2>2. \A h \in Gone : \E i \in gone : h = << "module", i >>
    OBVIOUS
  <2> HIDE DEF Gone
  <2>3. \A h \in Gone : P[h] \in {ms[i].block : i \in gone}
    BY <2>1, <2>2
  <2>4. \A i \in gone : ms[i].block \in {P[h] : h \in Gone}
    BY <2>1
  <2> QED
    BY <2>3, <2>4
<1>14. \A h \in New : \E i \in new : h = << "module", i >> /\ Q[h] = ns[i].block
  BY <1>9, <1>11
<1> HIDE DEF New, Gone
<1>15. /\ \A g, h \in New : Q[g] = Q[h] /\ Q[g] # 0 => g = h
       /\ \A h \in New : Q[h] # 0 => Q[h] \in Blocks /\ m.heap[Q[h]] = "free"
  BY <1>14
<1>16. Carried(P, Q, m, New, Gone, was)
  BY <1>1, <1>6, <1>7, <1>8, <1>15 DEF Carried
<1>17. Accounts(P, m)
  BY DEF P
<1>18. Accounts(Q, r)
  BY <1>12, <1>13, <1>16, <1>17, Reaccounts
<1> QED
  BY <1>18 DEF Q

BlocksAt(fs, indices) == UNION {{fs[i][f] : f \in Fields} : i \in indices}

(* Other functions.                                                        *)
LEMMA FunctionsAccounted ==
  ASSUME NEW c, NEW e, NEW ms, NEW fs, NEW os, NEW m, NEW r,
         NEW ns, NEW w, NEW new, NEW gone, Reindexed(fs, ns, w, new, gone),
         Accounts(HeldBy(c, e, ms, fs, os), m),
         \A i, j \in new, f, g \in Fields :
           ns[i][f] = ns[j][g] /\ ns[i][f] # 0 => i = j /\ f = g,
         \A i \in new, f \in Fields :
           ns[i][f] # 0 => ns[i][f] \in Blocks /\ m.heap[ns[i][f]] = "free",
         Uses(m, r, BlocksAt(ns, new), BlocksAt(fs, gone))
  PROVE  Accounts(HeldBy(c, e, ms, ns, os), r)
<1> DEFINE P == HeldBy(c, e, ms, fs, os)
           Q == HeldBy(c, e, ms, ns, os)
           New == Fields \X new
           Gone == Fields \X gone
           was == [h \in HoldersOf(ms, ns, os) |->
                     IF h[1] \in Fields THEN << h[1], w[h[2]] >> ELSE h]
<1>1. /\ DOMAIN P = HoldersOf(ms, fs, os) /\ DOMAIN Q = HoldersOf(ms, ns, os)
      /\ New \subseteq HoldersOf(ms, ns, os) /\ Gone \subseteq HoldersOf(ms, fs, os)
  <2>1. New \subseteq HoldersOf(ms, ns, os) /\ Gone \subseteq HoldersOf(ms, fs, os)
    BY DEF Reindexed, HoldersOf
  <2> HIDE DEF New, Gone
  <2> QED
    BY <2>1, HeldAt
<1>2. \A h \in HoldersOf(ms, ns, os) :
        was[h] = IF h[1] \in Fields THEN << h[1], w[h[2]] >> ELSE h
  OBVIOUS
<1>3. \A f \in Fields, i \in DOMAIN ns : i \in new <=> << f, i >> \in New
  OBVIOUS
<1>4. \A f \in Fields, i \in DOMAIN fs : i \in gone <=> << f, i >> \in Gone
  OBVIOUS
<1>5. \A h : h \in New \/ h \in Gone => h[1] \in Fields
  OBVIOUS
<1> HIDE DEF was
<1>6. ASSUME NEW h \in HoldersOf(ms, ns, os) \ New
      PROVE  /\ was[h] \in HoldersOf(ms, fs, os) \ Gone /\ Q[h] = P[was[h]]
             /\ h[1] \in Fields => /\ h = << h[1], h[2] >> /\ h[2] \in DOMAIN ns \ new
                                  /\ was[h] = << h[1], w[h[2]] >>
             /\ h[1] \notin Fields => was[h] = h
  <2>1. CASE \E f \in Fields, i \in DOMAIN ns : h = << f, i >>
    <3>1. PICK f \in Fields, i \in DOMAIN ns : h = << f, i >>
      BY <2>1
    <3>2. i \notin new /\ h[1] = f /\ h[2] = i
      BY <1>3, <3>1
    <3>3. was[h] = << f, w[i] >> /\ w[i] \in DOMAIN fs \ gone /\ ns[i] = fs[w[i]]
      BY <1>2, <3>2 DEF Reindexed
    <3>4. << f, w[i] >> \in HoldersOf(ms, fs, os) \ Gone
      BY <1>4, <3>3 DEF HoldersOf
    <3>5. Q[h] = ns[i][f] /\ P[was[h]] = fs[w[i]][f]
      <4> HIDE DEF P, Q
      <4> QED
        BY <3>1, <3>3, HeldAt DEF P, Q
    <3> HIDE DEF P, Q, New, Gone
    <3> QED
      BY <3>1, <3>2, <3>3, <3>4, <3>5
  <2>2. CASE ~\E f \in Fields, i \in DOMAIN ns : h = << f, i >>
    <3>1. h[1] \notin Fields /\ h \in HoldersOf(ms, fs, os)
      BY <2>2, HolderIs DEF HoldersOf, Fields
    <3>2. h \notin Gone /\ was[h] = h
      BY <1>2, <1>5, <3>1
    <3>3. Q[h] = P[h]
      <4> HIDE DEF P, Q
      <4> QED
        BY <2>2, HolderIs, HeldAt DEF P, Q
    <3> HIDE DEF P, Q, New, Gone
    <3> QED
      BY <3>1, <3>2, <3>3
  <2> QED
    BY <2>1, <2>2
<1>7. ASSUME NEW g \in HoldersOf(ms, ns, os) \ New, NEW h \in HoldersOf(ms, ns, os) \ New,
             was[g] = was[h]
      PROVE  g = h
  <2>1. CASE g[1] \in Fields /\ h[1] \in Fields
    <3>1. w[g[2]] = w[h[2]] /\ g[1] = h[1]
      BY <1>6, <1>7, <2>1
    <3>2. g[2] = h[2]
      BY <1>6, <2>1, <3>1 DEF Reindexed
    <3> QED
      BY <1>6, <2>1, <3>1, <3>2
  <2>2. CASE ~(g[1] \in Fields /\ h[1] \in Fields)
    <3>1. g[1] \in Fields <=> h[1] \in Fields
      BY <1>6, <1>7
    <3> QED
      BY <1>6, <1>7, <2>2, <3>1
  <2> QED
    BY <2>1, <2>2
<1>8. ASSUME NEW p \in HoldersOf(ms, fs, os) \ Gone
      PROVE  \E h \in HoldersOf(ms, ns, os) \ New : was[h] = p
  <2>1. CASE \E f \in Fields, i \in DOMAIN fs : p = << f, i >>
    <3>1. PICK f \in Fields, i \in DOMAIN fs : p = << f, i >>
      BY <2>1
    <3>2. i \notin gone
      BY <1>4, <3>1
    <3>3. PICK j \in DOMAIN ns \ new : w[j] = i
      BY <3>2 DEF Reindexed
    <3>4. << f, j >> \in HoldersOf(ms, ns, os) \ New
      BY <1>3, <3>3 DEF HoldersOf
    <3> HIDE DEF New, Gone
    <3> QED
      BY <1>6, <3>1, <3>3, <3>4
  <2>2. CASE ~\E f \in Fields, i \in DOMAIN fs : p = << f, i >>
    <3>1. p[1] \notin Fields /\ p \in HoldersOf(ms, ns, os)
      BY <2>2, HolderIs DEF HoldersOf, Fields
    <3>2. p \notin New
      BY <1>5, <3>1
    <3> HIDE DEF New, Gone
    <3> QED
      BY <1>6, <3>1, <3>2
  <2> QED
    BY <2>1, <2>2
<1>9. new \subseteq DOMAIN ns /\ gone \subseteq DOMAIN fs
  BY DEF Reindexed
<1> HIDE DEF P, Q
<1>10. \A f \in Fields, i \in new : Q[<< f, i >>] = ns[i][f] /\ << f, i >> \in New
  <2>1. \A f \in Fields, i \in new : << f, i >> \in New
    OBVIOUS
  <2> HIDE DEF New, Gone
  <2> TAKE f \in Fields, i \in new
  <2>2. i \in DOMAIN ns
    BY <1>9
  <2> QED
    BY <2>1, <2>2, HeldAt DEF Q
<1>11. \A f \in Fields, i \in gone : P[<< f, i >>] = fs[i][f] /\ << f, i >> \in Gone
  <2>1. \A f \in Fields, i \in gone : << f, i >> \in Gone
    OBVIOUS
  <2> HIDE DEF New, Gone
  <2> TAKE f \in Fields, i \in gone
  <2>2. i \in DOMAIN fs
    BY <1>9
  <2> QED
    BY <2>1, <2>2, HeldAt DEF P
<1>12. /\ \A h \in New : \E f \in Fields, i \in new : h = << f, i >> /\ Q[h] = ns[i][f]
       /\ \A h \in Gone : \E f \in Fields, i \in gone : h = << f, i >> /\ P[h] = fs[i][f]
  BY <1>10, <1>11
<1> HIDE DEF New, Gone
<1>13. {Q[h] : h \in New} = BlocksAt(ns, new)
  <2>1. \A h \in New : Q[h] \in BlocksAt(ns, new)
    BY <1>12 DEF BlocksAt
  <2>2. \A b \in BlocksAt(ns, new) : b \in {Q[h] : h \in New}
    <3> TAKE b \in BlocksAt(ns, new)
    <3>1. PICK i \in new : b \in {ns[i][f] : f \in Fields}
      BY DEF BlocksAt
    <3>2. PICK f \in Fields : b = ns[i][f]
      BY <3>1
    <3>3. << f, i >> \in New /\ Q[<< f, i >>] = b
      BY <1>10, <3>2
    <3> QED
      BY <3>3
  <2> QED
    BY <2>1, <2>2
<1>14. {P[h] : h \in Gone} = BlocksAt(fs, gone)
  <2>1. \A h \in Gone : P[h] \in BlocksAt(fs, gone)
    BY <1>12 DEF BlocksAt
  <2>2. \A b \in BlocksAt(fs, gone) : b \in {P[h] : h \in Gone}
    <3> TAKE b \in BlocksAt(fs, gone)
    <3>1. PICK i \in gone : b \in {fs[i][f] : f \in Fields}
      BY DEF BlocksAt
    <3>2. PICK f \in Fields : b = fs[i][f]
      BY <3>1
    <3>3. << f, i >> \in Gone /\ P[<< f, i >>] = b
      BY <1>11, <3>2
    <3> QED
      BY <3>3
  <2> QED
    BY <2>1, <2>2
<1>15. /\ \A g, h \in New : Q[g] = Q[h] /\ Q[g] # 0 => g = h
       /\ \A h \in New : Q[h] # 0 => Q[h] \in Blocks /\ m.heap[Q[h]] = "free"
  BY <1>12
<1>16. Carried(P, Q, m, New, Gone, was)
  BY <1>1, <1>6, <1>7, <1>8, <1>15 DEF Carried
<1>17. Accounts(P, m)
  BY DEF P
<1>18. Accounts(Q, r)
  BY <1>13, <1>14, <1>16, <1>17, Reaccounts
<1> QED
  BY <1>18 DEF Q

BlocksOf(objs) == UNION {{o[i] : i \in DOMAIN o} : o \in objs}

(* Other objects of the program.                                           *)
LEMMA ObjectsAccounted ==
  ASSUME NEW c, NEW e, NEW ms, NEW fs, NEW os, NEW m, NEW r,
         NEW new, NEW gone, gone \subseteq os, new \cap os = {},
         Accounts(HeldBy(c, e, ms, fs, os), m),
         \A o, p \in new : \A i \in DOMAIN o, j \in DOMAIN p : o[i] = p[j] => o = p /\ i = j,
         \A o \in new : \A i \in DOMAIN o : o[i] \in Blocks /\ m.heap[o[i]] = "free",
         Uses(m, r, BlocksOf(new), BlocksOf(gone))
  PROVE  Accounts(HeldBy(c, e, ms, fs, (os \ gone) \cup new), r)
<1> DEFINE ns == (os \ gone) \cup new
           P == HeldBy(c, e, ms, fs, os)
           Q == HeldBy(c, e, ms, fs, ns)
           New == UNION {{<< "own", o, i >> : i \in DOMAIN o} : o \in new}
           Gone == UNION {{<< "own", o, i >> : i \in DOMAIN o} : o \in gone}
           was == [h \in HoldersOf(ms, fs, ns) |-> h]
<1>1. /\ New \subseteq HoldersOf(ms, fs, ns) /\ Gone \subseteq HoldersOf(ms, fs, os)
      /\ HoldersOf(ms, fs, ns) \ New = HoldersOf(ms, fs, os) \ Gone
  <2>1. New \subseteq HoldersOf(ms, fs, ns) /\ Gone \subseteq HoldersOf(ms, fs, os)
    BY DEF HoldersOf
  <2>2. ASSUME NEW h \in HoldersOf(ms, fs, ns), h \notin New
        PROVE  h \in HoldersOf(ms, fs, os) /\ h \notin Gone
    BY <2>2 DEF HoldersOf, Fields
  <2>3. ASSUME NEW h \in HoldersOf(ms, fs, os), h \notin Gone
        PROVE  h \in HoldersOf(ms, fs, ns) /\ h \notin New
    BY <2>3 DEF HoldersOf, Fields
  <2> HIDE DEF New, Gone, ns
  <2> QED
    BY <2>1, <2>2, <2>3
<1> HIDE DEF ns
<1>2. DOMAIN P = HoldersOf(ms, fs, os) /\ DOMAIN Q = HoldersOf(ms, fs, ns)
  <2> HIDE DEF New, Gone
  <2> QED
    BY HeldAt
<1>3. \A h \in HoldersOf(ms, fs, ns) : was[h] = h
  OBVIOUS
<1>4. \A h \in HoldersOf(ms, fs, ns) \ New : Q[h] = P[h]
  <2> TAKE h \in HoldersOf(ms, fs, ns) \ New
  <2>1. h \in HoldersOf(ms, fs, os)
    <3> HIDE DEF New, Gone, P, Q
    <3> QED
      BY <1>1
  <2>2. ASSUME NEW o \in ns, NEW i \in DOMAIN o, h = << "own", o, i >> PROVE o \in os
    <3>1. o \notin new
      BY <2>2
    <3> QED
      BY <3>1 DEF ns
  <2> HIDE DEF New, Gone, P, Q
  <2> QED
    BY <2>1, <2>2, HolderIs, HeldAt DEF P, Q
<1> HIDE DEF P, Q
<1>5. \A o \in new : \A i \in DOMAIN o : Q[<< "own", o, i >>] = o[i] /\ << "own", o, i >> \in New
  <2>1. \A o \in new : o \in ns /\ \A i \in DOMAIN o : << "own", o, i >> \in New
    BY DEF ns
  <2> HIDE DEF New, Gone
  <2> TAKE o \in new
  <2> TAKE i \in DOMAIN o
  <2> QED
    BY <2>1, HeldAt DEF Q
<1>6. \A o \in gone : \A i \in DOMAIN o : P[<< "own", o, i >>] = o[i] /\ << "own", o, i >> \in Gone
  <2>1. \A o \in gone : o \in os /\ \A i \in DOMAIN o : << "own", o, i >> \in Gone
    OBVIOUS
  <2> HIDE DEF New, Gone
  <2> TAKE o \in gone
  <2> TAKE i \in DOMAIN o
  <2> QED
    BY <2>1, HeldAt DEF P
<1>7. /\ \A h \in New : \E o \in new : \E i \in DOMAIN o : h = << "own", o, i >> /\ Q[h] = o[i]
      /\ \A h \in Gone : \E o \in gone : \E i \in DOMAIN o : h = << "own", o, i >> /\ P[h] = o[i]
  BY <1>5, <1>6
<1> HIDE DEF New, Gone
<1>8. {Q[h] : h \in New} = BlocksOf(new)
  <2>1. \A h \in New : Q[h] \in BlocksOf(new)
    BY <1>7 DEF BlocksOf
  <2>2. \A b \in BlocksOf(new) : b \in {Q[h] : h \in New}
    <3> TAKE b \in BlocksOf(new)
    <3>1. PICK o \in new : b \in {o[i] : i \in DOMAIN o}
      BY DEF BlocksOf
    <3>2. PICK i \in DOMAIN o : b = o[i]
      BY <3>1
    <3>3. << "own", o, i >> \in New /\ Q[<< "own", o, i >>] = b
      BY <1>5, <3>2
    <3> QED
      BY <3>3
  <2> QED
    BY <2>1, <2>2
<1>9. {P[h] : h \in Gone} = BlocksOf(gone)
  <2>1. \A h \in Gone : P[h] \in BlocksOf(gone)
    BY <1>7 DEF BlocksOf
  <2>2. \A b \in BlocksOf(gone) : b \in {P[h] : h \in Gone}
    <3> TAKE b \in BlocksOf(gone)
    <3>1. PICK o \in gone : b \in {o[i] : i \in DOMAIN o}
      BY DEF BlocksOf
    <3>2. PICK i \in DOMAIN o : b = o[i]
      BY <3>1
    <3>3. << "own", o, i >> \in Gone /\ P[<< "own", o, i >>] = b
      BY <1>6, <3>2
    <3> QED
      BY <3>3
  <2> QED
    BY <2>1, <2>2
<1>10. /\ \A g, h \in New : Q[g] = Q[h] /\ Q[g] # 0 => g = h
       /\ \A h \in New : Q[h] # 0 => Q[h] \in Blocks /\ m.heap[Q[h]] = "free"
  BY <1>7
<1> HIDE DEF was
<1>11. Carried(P, Q, m, New, Gone, was)
  BY <1>1, <1>2, <1>3, <1>4, <1>10 DEF Carried
<1>12. Accounts(P, m)
  BY DEF P
<1>13. Accounts(Q, r)
  BY <1>8, <1>9, <1>11, <1>12, Reaccounts
<1> QED
  BY <1>13 DEF Q, ns

-----------------------------------------------------------------------------
(* The inductive invariant of the runtime.                                 *)

ModuleEntries == [name : Modules, block : Blocks]

RuntimeTypes ==
  /\ mem \in Memories
  /\ context \in Blocks \cup {0} /\ error \in Blocks \cup {0}
  /\ modules \in Seq(ModuleEntries) /\ functions \in Seq(FunctionEntries)
  /\ objects \subseteq Seq(Blocks) /\ << >> \notin objects
  /\ opened \in Nat /\ inits \in [Modules -> Nat]

(* No module is listed twice; each that is listed had one init more than cleanups. *)
ModulesRight ==
  /\ \A i, j \in DOMAIN modules : modules[i].name = modules[j].name => i = j
  /\ \A name \in Modules : inits[name] = IF Loaded(name) THEN 1 ELSE 0

LogRight == opened = IF log = "file" THEN 1 ELSE 0

RuntimeInv ==
  /\ RuntimeTypes
  /\ Running => /\ ~mem.aborted
                /\ Accounts(HeldBy(context, error, modules, functions, objects), mem)
                /\ ModulesRight /\ LogRight

LEMMA HeldNow ==
  /\ Held = HeldBy(context, error, modules, functions, objects)
  /\ Held' = HeldBy(context', error', modules', functions', objects')
<1>1. Holders = HoldersOf(modules, functions, objects)
  BY DEF Holders, HoldersOf, Fields
<1>2. Holders' = HoldersOf(modules', functions', objects')
  BY DEF Holders, HoldersOf, Fields
<1> QED
  BY <1>1, <1>2 DEF Held, HeldBy

LEMMA InvImpliesAccounted == RuntimeInv => AllAccounted
BY HeldNow DEF RuntimeInv, AllAccounted, ModulesRight, LogRight

(* What is held is in use, and not held twice.                             *)
LEMMA HeldInUse ==
  ASSUME NEW c, NEW e, NEW ms, NEW fs, NEW os, NEW m,
         Accounts(HeldBy(c, e, ms, fs, os), m)
  PROVE  /\ c # 0 => c \in Blocks /\ m.heap[c] # "free"
         /\ e # 0 => e \in Blocks /\ m.heap[e] # "free" /\ e # c
         /\ \A i \in DOMAIN ms :
              ms[i].block # 0 => ms[i].block \in Blocks /\ m.heap[ms[i].block] # "free"
         /\ \A i, j \in DOMAIN ms : ms[i].block = ms[j].block /\ ms[i].block # 0 => i = j
         /\ \A f \in Fields, i \in DOMAIN fs :
              fs[i][f] # 0 => fs[i][f] \in Blocks /\ m.heap[fs[i][f]] # "free"
         /\ \A f, g \in Fields, i, j \in DOMAIN fs :
              fs[i][f] = fs[j][g] /\ fs[i][f] # 0 => f = g /\ i = j
         /\ \A o \in os : \A i \in DOMAIN o :
              o[i] # 0 => o[i] \in Blocks /\ m.heap[o[i]] # "free"
         /\ \A o, p \in os : \A i \in DOMAIN o, j \in DOMAIN p :
              o[i] = p[j] /\ o[i] # 0 => o = p /\ i = j
<1> DEFINE P == HeldBy(c, e, ms, fs, os)
           H == HoldersOf(ms, fs, os)
<1>1. DOMAIN P = H
  BY HeldAt
<1>2. /\ \A h \in H : P[h] # 0 => P[h] \in Blocks /\ m.heap[P[h]] # "free"
      /\ \A g, h \in H : P[g] = P[h] /\ P[g] # 0 => g = h
  <2> HIDE DEF P, H
  <2> QED
    BY <1>1 DEF Accounts, Unused, P
<1>3. /\ << "context", 0 >> \in H /\ << "error", 0 >> \in H
      /\ \A i \in DOMAIN ms : << "module", i >> \in H
      /\ \A f \in Fields, i \in DOMAIN fs : << f, i >> \in H
      /\ \A o \in os : \A i \in DOMAIN o : << "own", o, i >> \in H
  BY DEF HoldersOf
<1>4. /\ P[<< "context", 0 >>] = c
      /\ P[<< "error", 0 >>] = e
      /\ \A i \in DOMAIN ms : P[<< "module", i >>] = ms[i].block
      /\ \A f \in Fields, i \in DOMAIN fs : P[<< f, i >>] = fs[i][f]
      /\ \A o \in os : \A i \in DOMAIN o : P[<< "own", o, i >>] = o[i]
  <2> HIDE DEF P, H
  <2> QED
    BY HeldAt DEF P
<1> HIDE DEF P, H
<1>5. /\ c # 0 => c \in Blocks /\ m.heap[c] # "free"
      /\ e # 0 => e \in Blocks /\ m.heap[e] # "free" /\ e # c
  BY <1>2, <1>3, <1>4
<1>6. ASSUME NEW i \in DOMAIN ms, ms[i].block # 0
      PROVE  /\ ms[i].block \in Blocks /\ m.heap[ms[i].block] # "free"
             /\ \A j \in DOMAIN ms : ms[i].block = ms[j].block => i = j
  <2>1. P[<< "module", i >>] = ms[i].block /\ << "module", i >> \in H
    BY <1>3, <1>4
  <2>2. \A j \in DOMAIN ms : P[<< "module", j >>] = ms[j].block /\ << "module", j >> \in H
    BY <1>3, <1>4
  <2> QED
    BY <1>2, <1>6, <2>1, <2>2
<1>7. ASSUME NEW f \in Fields, NEW i \in DOMAIN fs, fs[i][f] # 0
      PROVE  /\ fs[i][f] \in Blocks /\ m.heap[fs[i][f]] # "free"
             /\ \A g \in Fields, j \in DOMAIN fs : fs[i][f] = fs[j][g] => f = g /\ i = j
  <2>1. P[<< f, i >>] = fs[i][f] /\ << f, i >> \in H
    BY <1>3, <1>4
  <2>2. \A g \in Fields, j \in DOMAIN fs : P[<< g, j >>] = fs[j][g] /\ << g, j >> \in H
    BY <1>3, <1>4
  <2>3. fs[i][f] \in Blocks /\ m.heap[fs[i][f]] # "free"
    BY <1>2, <1>7, <2>1
  <2>4. ASSUME NEW g \in Fields, NEW j \in DOMAIN fs, fs[i][f] = fs[j][g] PROVE f = g /\ i = j
    <3>1. << f, i >> = << g, j >>
      <4>1. P[<< g, j >>] = fs[j][g] /\ << g, j >> \in H
        BY <2>2
      <4>2. P[<< f, i >>] = P[<< g, j >>] /\ P[<< f, i >>] # 0
        BY <1>7, <2>1, <2>4, <4>1
      <4> QED
        BY <1>2, <2>1, <4>1, <4>2
    <3> QED
      BY <3>1
  <2> QED
    BY <2>3, <2>4
<1>8. ASSUME NEW o \in os, NEW i \in DOMAIN o, o[i] # 0
      PROVE  /\ o[i] \in Blocks /\ m.heap[o[i]] # "free"
             /\ \A p \in os : \A j \in DOMAIN p : o[i] = p[j] => o = p /\ i = j
  <2>1. P[<< "own", o, i >>] = o[i] /\ << "own", o, i >> \in H
    BY <1>3, <1>4
  <2>2. \A p \in os : \A j \in DOMAIN p : P[<< "own", p, j >>] = p[j] /\ << "own", p, j >> \in H
    BY <1>3, <1>4
  <2>3. o[i] \in Blocks /\ m.heap[o[i]] # "free"
    BY <1>2, <1>8, <2>1
  <2>4. ASSUME NEW p \in os, NEW j \in DOMAIN p, o[i] = p[j] PROVE o = p /\ i = j
    <3>1. << "own", o, i >> = << "own", p, j >>
      <4>1. P[<< "own", p, j >>] = p[j] /\ << "own", p, j >> \in H
        BY <2>2
      <4>2. P[<< "own", o, i >>] = P[<< "own", p, j >>] /\ P[<< "own", o, i >>] # 0
        BY <1>8, <2>1, <2>4, <4>1
      <4> QED
        BY <1>2, <2>1, <4>1, <4>2
    <3> QED
      BY <3>1
  <2> QED
    BY <2>3, <2>4
<1> QED
  BY <1>5, <1>6, <1>7, <1>8

(* Where the same blocks are in use and the same things held.              *)
LEMMA SameUse ==
  ASSUME NEW P, NEW m, NEW r, Accounts(P, m), Uses(m, r, {}, {})
  PROVE  Accounts(P, r)
BY DEF Accounts, Uses, Unused

LEMMA BackIsUse ==
  ASSUME NEW m, NEW r, NEW B, GivesBack(m, r, B), ~r.aborted
  PROVE  r \in Memories /\ ~m.aborted /\ Uses(m, r, {}, B)
BY DEF GivesBack, Uses

LEMMA GoesTo ==
  ASSUME NEW r \in Memories, Goes(r)
  PROVE  mem' = r /\ (Running' <=> ~r.aborted)
BY DEF Goes, Running, Memories

LEMMA OutputSet ==
  ASSUME NEW file \in BOOLEAN, NEW opens \in BOOLEAN, opened \in Nat, LogRight,
         SetOutput(file, opens)
  PROVE  opened' \in Nat /\ LogRight'
BY DEF SetOutput, LogRight

LEMMA RuntimeInit == RInit => RuntimeInv
<1> SUFFICES ASSUME RInit PROVE RuntimeInv
  OBVIOUS
<1>1. mem \in Memories
  BY DEF RInit, Memories
<1>2. RuntimeTypes
  BY <1>1 DEF RInit, RuntimeTypes
<1>3. \A h \in HoldersOf(<< >>, << >>, {}) : h = << "context", 0 >> \/ h = << "error", 0 >>
  BY HolderIs
<1>4. \A h \in HoldersOf(<< >>, << >>, {}) : HeldBy(0, 0, << >>, << >>, {})[h] = 0
  BY <1>3, HeldAt
<1>5. Blocks \ Unused(mem) = {}
  BY DEF RInit, Unused
<1>6. Accounts(HeldBy(0, 0, << >>, << >>, {}), mem)
  <2>1. DOMAIN HeldBy(0, 0, << >>, << >>, {}) = HoldersOf(<< >>, << >>, {})
    BY HeldAt
  <2> QED
    BY <1>4, <1>5, <2>1 DEF Accounts
<1>7. ModulesRight /\ LogRight /\ ~mem.aborted
  BY DEF RInit, ModulesRight, LogRight, Loaded
<1> QED
  BY <1>2, <1>6, <1>7 DEF RuntimeInv, RInit

LEMMA InitialiseInv == RuntimeInv /\ Initialise => RuntimeInv'
<1> SUFFICES ASSUME RuntimeInv, Initialise PROVE RuntimeInv'
  OBVIOUS
<1>1. /\ Running /\ context = 0 /\ Unused(mem) # {} /\ context' = NextBlock(mem)
      /\ UNCHANGED << modules, functions, error, objects, process, inits >>
  BY DEF Initialise
<1>2. PICK tracking, file, opens \in BOOLEAN :
        mem' = [Allocated(mem, "context") EXCEPT !.tracking = tracking] /\ SetOutput(file, opens)
  BY DEF Initialise
<1> DEFINE b == NextBlock(mem)
<1>3. b \in Blocks /\ mem.heap[b] = "free"
  BY <1>1, FirstUnused
<1>4. /\ Allocated(mem, "context") \in Memories
      /\ Allocated(mem, "context").heap = [mem.heap EXCEPT ![b] = "context"]
      /\ Allocated(mem, "context").aborted = mem.aborted
  BY <1>1, AllocatesOne DEF RuntimeInv, RuntimeTypes, Kinds
<1>5. /\ mem' \in Memories /\ mem'.heap = [mem.heap EXCEPT ![b] = "context"]
      /\ mem'.aborted = mem.aborted
  <2> HIDE DEF b
  <2> QED
    BY <1>2, <1>4 DEF Memories
<1> HIDE DEF b
<1>6. Uses(mem, mem', {b}, {context})
  <2>1. mem.heap \in [Blocks -> Kinds \cup {"free"}]
    BY DEF RuntimeInv, RuntimeTypes, Memories
  <2> QED
    BY <1>1, <1>5, <2>1, BlockFacts DEF Uses
<1>7. Accounts(HeldBy(b, error, modules, functions, objects), mem')
  BY <1>1, <1>3, <1>6, ContextAccounted DEF RuntimeInv
<1>8. RuntimeTypes' /\ LogRight'
  <2>1. opened' \in Nat /\ LogRight'
    BY <1>1, <1>2, OutputSet DEF RuntimeInv, RuntimeTypes
  <2> QED
    BY <1>1, <1>3, <1>5, <2>1 DEF RuntimeInv, RuntimeTypes, b
<1>9. ModulesRight' /\ Running'
  BY <1>1 DEF RuntimeInv, ModulesRight, Loaded, Running
<1> QED
  BY <1>1, <1>5, <1>7, <1>8, <1>9 DEF RuntimeInv, b

LEMMA LoadModuleInv ==
  ASSUME RuntimeInv, NEW name \in Modules, LoadModule(name)
  PROVE  RuntimeInv'
<1> DEFINE b == NextBlock(mem)
           entry == [name |-> name, block |-> b]
<1>1. /\ Running /\ ~Loaded(name) /\ Unused(mem) # {}
      /\ mem' = Allocated(mem, "module") /\ modules' = << entry >> \o modules
      /\ inits' = [inits EXCEPT ![name] = @ + 1]
      /\ UNCHANGED << context, functions, error, log, objects, process, opened >>
  BY DEF LoadModule
<1>2. b \in Blocks /\ mem.heap[b] = "free"
  BY <1>1, FirstUnused
<1>3. /\ mem' \in Memories /\ mem'.heap = [mem.heap EXCEPT ![b] = "module"]
      /\ mem'.aborted = mem.aborted
  BY <1>1, AllocatesOne DEF RuntimeInv, RuntimeTypes, Kinds
<1> HIDE DEF b
<1>4. entry \in ModuleEntries /\ entry.block = b /\ entry.name = name
  BY <1>2 DEF ModuleEntries
<1> HIDE DEF entry
<1>5. modules \in Seq(ModuleEntries)
  BY DEF RuntimeInv, RuntimeTypes
<1>6. /\ modules' \in Seq(ModuleEntries) /\ DOMAIN modules' = 1 .. Len(modules) + 1
      /\ modules'[1] = entry /\ \A i \in 1 .. Len(modules) : modules'[i + 1] = modules[i]
      /\ Reindexed(modules, modules', [i \in 1 .. Len(modules) + 1 |-> i - 1], {1}, {})
  BY <1>1, <1>4, <1>5, Prepended
<1>7. Uses(mem, mem', {modules'[i].block : i \in {1}}, {modules[i].block : i \in {}})
  <2>1. mem.heap \in [Blocks -> Kinds \cup {"free"}]
    BY DEF RuntimeInv, RuntimeTypes, Memories
  <2> QED
    BY <1>3, <1>4, <1>6, <2>1, BlockFacts DEF Uses
<1>8. Accounts(HeldBy(context, error, modules', functions, objects), mem')
  <2>1. /\ \A i, j \in {1} : modules'[i].block = modules'[j].block => i = j
        /\ \A i \in {1} : modules'[i].block \in Blocks /\ mem.heap[modules'[i].block] = "free"
    BY <1>2, <1>4, <1>6
  <2>2. Accounts(HeldBy(context, error, modules, functions, objects), mem)
    BY <1>1 DEF RuntimeInv
  <2> QED
    BY <1>6, <1>7, <2>1, <2>2, ModulesAccounted
<1>9. ModulesRight'
  <2>1. /\ \A i, j \in DOMAIN modules : modules[i].name = modules[j].name => i = j
        /\ \A n \in Modules : inits[n] = IF Loaded(n) THEN 1 ELSE 0
    BY <1>1 DEF RuntimeInv, ModulesRight
  <2>2. \A i \in DOMAIN modules' : i = 1 \/ (i - 1 \in DOMAIN modules /\ modules'[i] = modules[i - 1])
    BY <1>5, <1>6
  <2>3. \A i \in DOMAIN modules : modules[i].name # name
    BY <1>1 DEF Loaded
  <2>4. ASSUME NEW i \in DOMAIN modules', NEW j \in DOMAIN modules', modules'[i].name = modules'[j].name
        PROVE  i = j
    <3>1. i \in Nat /\ j \in Nat
      BY <1>5, <1>6
    <3>2. CASE i = 1 \/ j = 1
      BY <1>4, <1>6, <2>2, <2>3, <2>4, <3>2
    <3>3. CASE i # 1 /\ j # 1
      <4> DEFINE k == i - 1
                 l == j - 1
      <4>1. /\ k \in DOMAIN modules /\ modules'[i] = modules[k]
            /\ l \in DOMAIN modules /\ modules'[j] = modules[l]
        BY <2>2, <3>3
      <4>2. k = l
        <5> HIDE DEF k, l
        <5> QED
          BY <2>1, <2>4, <4>1
      <4> QED
        BY <3>1, <4>2
    <3> QED
      BY <3>2, <3>3
  <2>5. \A n : Loaded(n)' <=> n = name \/ Loaded(n)
    <3> TAKE n
    <3>1. ASSUME Loaded(n) PROVE Loaded(n)'
      <4>1. PICK i \in DOMAIN modules : modules[i].name = n
        BY <3>1 DEF Loaded
      <4>2. i \in 1 .. Len(modules) /\ Len(modules) \in Nat
        BY <1>5
      <4>3. i + 1 \in 1 .. Len(modules) + 1
        BY <4>2
      <4>4. i + 1 \in DOMAIN modules' /\ modules'[i + 1].name = n
        BY <1>6, <4>1, <4>2, <4>3
      <4> QED
        BY <4>4 DEF Loaded
    <3>2. Loaded(name)'
      <4>1. 1 \in DOMAIN modules' /\ modules'[1].name = name
        BY <1>4, <1>5, <1>6
      <4> QED
        BY <4>1 DEF Loaded
    <3>3. ASSUME Loaded(n)', n # name PROVE Loaded(n)
      <4>1. PICK i \in DOMAIN modules' : modules'[i].name = n
        BY <3>3 DEF Loaded
      <4>2. i # 1
        BY <1>4, <1>6, <3>3, <4>1
      <4> QED
        BY <2>2, <4>1, <4>2 DEF Loaded
    <3> QED
      BY <3>1, <3>2, <3>3
  <2>6. inits \in [Modules -> Nat]
    BY DEF RuntimeInv, RuntimeTypes
  <2>7. \A n \in Modules : inits'[n] = IF Loaded(n)' THEN 1 ELSE 0
    <3> TAKE n \in Modules
    <3>1. CASE n = name
      BY <1>1, <2>1, <2>5, <2>6, <3>1
    <3>2. CASE n # name
      BY <1>1, <2>1, <2>5, <2>6, <3>2
    <3> QED
      BY <3>1, <3>2
  <2> QED
    BY <2>4, <2>7 DEF ModulesRight
<1>10. RuntimeTypes' /\ LogRight' /\ Running'
  <2>1. inits' \in [Modules -> Nat]
    BY <1>1 DEF RuntimeInv, RuntimeTypes
  <2> QED
    BY <1>1, <1>3, <1>6, <2>1 DEF RuntimeInv, RuntimeTypes, LogRight, Running
<1> QED
  BY <1>1, <1>3, <1>8, <1>9, <1>10 DEF RuntimeInv

LEMMA UnloadModuleInv ==
  ASSUME RuntimeInv, NEW i \in DOMAIN modules, UnloadModule(i)
  PROVE  RuntimeInv'
<1> DEFINE b == modules[i].block
           r == Deallocated(mem, b)
           w == [j \in 1 .. Len(modules) - 1 |-> IF j < i THEN j ELSE j + 1]
<1>1. /\ Running /\ Goes(r) /\ modules' = RemoveAt(modules, i)
      /\ inits' = [inits EXCEPT ![modules[i].name] = @ - 1]
      /\ UNCHANGED << context, functions, error, log, objects, opened >>
  BY DEF UnloadModule
<1>2. /\ modules \in Seq(ModuleEntries) /\ i \in 1 .. Len(modules)
      /\ mem \in Memories /\ inits \in [Modules -> Nat]
  BY DEF RuntimeInv, RuntimeTypes
<1>3. Accounts(HeldBy(context, error, modules, functions, objects), mem) /\ ModulesRight
  BY <1>1 DEF RuntimeInv
<1>4. modules[i] \in ModuleEntries
  BY <1>2
<1>5. b \in Blocks /\ mem.heap[b] # "free" /\ modules[i].name \in Modules
  <2>1. b \in Blocks /\ modules[i].name \in Modules
    BY <1>4 DEF ModuleEntries
  <2> QED
    BY <1>3, <2>1, HeldInUse, BlockFacts
<1>6. GivesBack(mem, r, {b})
  <2> HIDE DEF b
  <2> QED
    BY <1>2, <1>5, DeallocatesOne
<1>7. r \in Memories
  BY <1>6 DEF GivesBack
<1>8. mem' = r /\ (Running' <=> ~r.aborted)
  <2> HIDE DEF r
  <2> QED
    BY <1>1, <1>7, GoesTo
<1>9. modules' \in Seq(ModuleEntries) /\ Reindexed(modules, modules', w, {}, {i})
  BY <1>1, <1>2, RemovedAt
<1>10. /\ \A j \in DOMAIN modules' : w[j] \in DOMAIN modules /\ w[j] # i /\ modules'[j] = modules[w[j]]
       /\ \A j, k \in DOMAIN modules' : w[j] = w[k] => j = k
       /\ \A k \in DOMAIN modules : k # i => \E j \in DOMAIN modules' : w[j] = k
  <2> HIDE DEF w
  <2> QED
    BY <1>9 DEF Reindexed
<1> HIDE DEF w, b, r
<1>11. /\ \A j, k \in DOMAIN modules : modules[j].name = modules[k].name => j = k
       /\ \A n \in Modules : inits[n] = IF Loaded(n) THEN 1 ELSE 0
  BY <1>3 DEF ModulesRight
<1>12. \A n : Loaded(n)' <=> n # modules[i].name /\ Loaded(n)
  <2> TAKE n
  <2>1. ASSUME Loaded(n)' PROVE n # modules[i].name /\ Loaded(n)
    BY <1>10, <1>11, <2>1 DEF Loaded
  <2>2. ASSUME n # modules[i].name, Loaded(n) PROVE Loaded(n)'
    <3>1. PICK k \in DOMAIN modules : modules[k].name = n
      BY <2>2 DEF Loaded
    <3>2. PICK j \in DOMAIN modules' : w[j] = k
      BY <1>10, <2>2, <3>1
    <3> QED
      BY <1>10, <3>1, <3>2 DEF Loaded
  <2> QED
    BY <2>1, <2>2
<1>13. Loaded(modules[i].name)
  BY DEF Loaded
<1>14. \A n \in Modules : inits'[n] = IF Loaded(n)' THEN 1 ELSE 0
  <2> TAKE n \in Modules
  <2>1. CASE n = modules[i].name
    BY <1>1, <1>2, <1>11, <1>12, <1>13, <2>1
  <2>2. CASE n # modules[i].name
    BY <1>1, <1>2, <1>11, <1>12, <2>2
  <2> QED
    BY <2>1, <2>2
<1>15. ModulesRight'
  <2>1. \A j, k \in DOMAIN modules' : modules'[j].name = modules'[k].name => j = k
    BY <1>10, <1>11
  <2> QED
    BY <1>14, <2>1 DEF ModulesRight
<1>16. inits' \in [Modules -> Nat]
  <2>1. inits[modules[i].name] = 1
    BY <1>5, <1>11, <1>13
  <2> QED
    BY <1>1, <1>2, <1>5, <2>1
<1>17. RuntimeTypes'
  BY <1>1, <1>7, <1>8, <1>9, <1>16 DEF RuntimeInv, RuntimeTypes
<1>18. ASSUME Running' PROVE Accounts(HeldBy(context, error, modules', functions, objects), mem')
  <2>1. Uses(mem, mem', {}, {b})
    BY <1>6, <1>8, <1>18, BackIsUse
  <2>2. Uses(mem, mem', {modules'[j].block : j \in {}}, {modules[j].block : j \in {i}})
    <3>1. {modules'[j].block : j \in {}} = {} /\ {modules[j].block : j \in {i}} = {b}
      BY DEF b
    <3> QED
      BY <2>1, <3>1
  <2> QED
    BY <1>3, <1>9, <2>2, ModulesAccounted
<1> QED
  BY <1>1, <1>8, <1>15, <1>17, <1>18 DEF RuntimeInv, LogRight

LEMMA ReportErrorInv == RuntimeInv /\ ReportError => RuntimeInv'
<1> SUFFICES ASSUME RuntimeInv, ReportError PROVE RuntimeInv'
  OBVIOUS
<1> DEFINE b == NextBlock(mem)
           a == Allocated(mem, "error")
           r == Deallocated(a, error)
           q == Deallocated(r, b)
<1>1. /\ Running /\ Unused(mem) # {}
      /\ \/ Goes(r) /\ error' = b
         \/ Goes(q) /\ error' = 0
      /\ UNCHANGED << context, modules, functions, log, objects, inits, opened >>
  BY DEF ReportError, Replaces
<1>2. /\ mem \in Memories /\ mem.heap \in [Blocks -> Kinds \cup {"free"}]
      /\ error \in Blocks \cup {0} /\ ~mem.aborted
      /\ Accounts(HeldBy(context, error, modules, functions, objects), mem)
  BY <1>1 DEF RuntimeInv, RuntimeTypes, Memories
<1>3. b \in Blocks /\ mem.heap[b] = "free"
  BY <1>1, FirstUnused
<1>4. a \in Memories /\ a.heap = [mem.heap EXCEPT ![b] = "error"] /\ a.aborted = mem.aborted
  BY <1>1, <1>2, AllocatesOne DEF Kinds
<1> HIDE DEF a, b
<1>5. error # 0 => mem.heap[error] # "free"
  BY <1>2, HeldInUse
<1>6. \A c \in Blocks : a.heap[c] # "free" <=> c = b \/ mem.heap[c] # "free"
  BY <1>2, <1>3, <1>4, BlockFacts
<1>7. GivesBack(a, r, {error})
  BY <1>2, <1>4, <1>5, <1>6, DeallocatesOne
<1> HIDE DEF r
<1>8. b # error /\ b # 0
  BY <1>2, <1>3, <1>5, BlockFacts
<1>9. GivesBack(r, q, {b})
  <2>1. ~r.aborted => r.heap[b] # "free"
    BY <1>3, <1>6, <1>7, <1>8 DEF GivesBack
  <2>2. r \in Memories
    BY <1>7 DEF GivesBack
  <2> QED
    BY <1>3, <2>1, <2>2, DeallocatesOne
<1> HIDE DEF q
<1>10. r \in Memories /\ q \in Memories
  BY <1>7, <1>9 DEF GivesBack
<1>11. /\ mem' \in Memories /\ error' \in Blocks \cup {0}
       /\ Running' => /\ ~mem'.aborted
                      /\ Accounts(HeldBy(context, error', modules, functions, objects), mem')
  <2>1. CASE Goes(r) /\ error' = b
    <3>1. mem' = r /\ (Running' <=> ~r.aborted)
      BY <1>10, <2>1, GoesTo
    <3>2. ASSUME Running' PROVE Uses(mem, mem', {b}, {error})
      <4>1. ~r.aborted /\ mem' = r
        BY <3>1, <3>2
      <4> QED
        BY <1>3, <1>6, <1>7, <1>8, <4>1 DEF GivesBack, Uses
    <3>3. ASSUME Running' PROVE Accounts(HeldBy(context, b, modules, functions, objects), mem')
      BY <1>2, <1>3, <3>2, <3>3, ErrorAccounted
    <3> QED
      BY <1>3, <1>10, <2>1, <3>1, <3>3
  <2>2. CASE Goes(q) /\ error' = 0
    <3>1. mem' = q /\ (Running' <=> ~q.aborted)
      BY <1>10, <2>2, GoesTo
    <3>2. ASSUME Running' PROVE Uses(mem, mem', {0}, {error})
      <4>1. ~q.aborted /\ mem' = q
        BY <3>1, <3>2
      <4> QED
        BY <1>3, <1>6, <1>7, <1>8, <1>9, <4>1, BlockFacts DEF GivesBack, Uses
    <3>3. ASSUME Running' PROVE Accounts(HeldBy(context, 0, modules, functions, objects), mem')
      BY <1>2, <3>2, <3>3, ErrorAccounted
    <3> QED
      BY <1>10, <2>2, <3>1, <3>3
  <2> QED
    BY <1>1, <2>1, <2>2
<1>12. ModulesRight' /\ LogRight'
  BY <1>1 DEF RuntimeInv, ModulesRight, LogRight, Loaded
<1>13. RuntimeTypes'
  BY <1>1, <1>11 DEF RuntimeInv, RuntimeTypes
<1> QED
  BY <1>1, <1>11, <1>12, <1>13 DEF RuntimeInv

LEMMA ClearErrorsInv == RuntimeInv /\ ClearErrors => RuntimeInv'
<1> SUFFICES ASSUME RuntimeInv, ClearErrors PROVE RuntimeInv'
  OBVIOUS
<1> DEFINE r == Deallocated(mem, error)
<1>1. /\ Running /\ Goes(r) /\ error' = 0
      /\ UNCHANGED << context, modules, functions, log, objects, inits, opened >>
  BY DEF ClearErrors
<1>2. /\ mem \in Memories /\ error \in Blocks \cup {0}
      /\ Accounts(HeldBy(context, error, modules, functions, objects), mem)
  BY <1>1 DEF RuntimeInv, RuntimeTypes
<1>3. GivesBack(mem, r, {error})
  BY <1>2, HeldInUse, DeallocatesOne
<1> HIDE DEF r
<1>4. r \in Memories
  BY <1>3 DEF GivesBack
<1>5. mem' = r /\ (Running' <=> ~r.aborted)
  BY <1>1, <1>4, GoesTo
<1>6. ASSUME Running' PROVE Accounts(HeldBy(context, 0, modules, functions, objects), mem')
  <2>1. Uses(mem, mem', {}, {error})
    BY <1>3, <1>5, <1>6, BackIsUse
  <2>2. Uses(mem, mem', {0}, {error})
    BY <2>1, BlockFacts DEF Uses
  <2> QED
    BY <1>2, <2>2, ErrorAccounted
<1>7. ModulesRight' /\ LogRight'
  BY <1>1 DEF RuntimeInv, ModulesRight, LogRight, Loaded
<1>8. RuntimeTypes'
  BY <1>1, <1>4, <1>5 DEF RuntimeInv, RuntimeTypes
<1> QED
  BY <1>1, <1>5, <1>6, <1>7, <1>8 DEF RuntimeInv

LEMMA SetLogInv == RuntimeInv /\ SetLog => RuntimeInv'
<1> SUFFICES ASSUME RuntimeInv, SetLog PROVE RuntimeInv'
  OBVIOUS
<1>1. PICK file, opens \in BOOLEAN : SetOutput(file, opens)
  BY DEF SetLog
<1>2. /\ Running
      /\ UNCHANGED << mem, context, modules, functions, error, objects, process, inits >>
  BY DEF SetLog
<1>3. opened' \in Nat /\ LogRight'
  BY <1>1, <1>2, OutputSet DEF RuntimeInv, RuntimeTypes
<1> QED
  BY <1>2, <1>3 DEF RuntimeInv, RuntimeTypes, ModulesRight, Loaded, Running

LEMMA ReallocateInv ==
  ASSUME RuntimeInv, NEW b \in Blocks, NEW purpose \in {"own", "grown"}, Reallocate(b, purpose)
  PROVE  RuntimeInv'
<1>1. /\ Running /\ << b >> \in objects /\ mem' = Reallocated(mem, b, purpose)
      /\ UNCHANGED << context, modules, functions, error, log, objects, process, inits, opened >>
  BY DEF Reallocate
<1>2. /\ mem \in Memories /\ mem.heap \in [Blocks -> Kinds \cup {"free"}]
      /\ Accounts(HeldBy(context, error, modules, functions, objects), mem)
  BY <1>1 DEF RuntimeInv, RuntimeTypes, Memories
<1>3. mem.heap[b] # "free"
  <2>1. 1 \in DOMAIN << b >> /\ << b >>[1] = b /\ b # 0
    BY BlockFacts
  <2> QED
    BY <1>1, <1>2, <2>1, HeldInUse
<1>4. /\ mem' \in Memories /\ mem'.heap = [mem.heap EXCEPT ![b] = purpose]
      /\ mem'.aborted = mem.aborted
  <2>1. purpose \in Kinds
    BY DEF Kinds
  <2> QED
    BY <1>1, <1>2, <1>3, <2>1, Reallocates
<1>5. Uses(mem, mem', {}, {})
  BY <1>2, <1>3, <1>4 DEF Uses
<1>6. Accounts(HeldBy(context, error, modules, functions, objects), mem')
  BY <1>2, <1>5, SameUse
<1>7. ModulesRight' /\ LogRight' /\ Running'
  BY <1>1 DEF RuntimeInv, ModulesRight, LogRight, Loaded, Running
<1> QED
  BY <1>1, <1>4, <1>6, <1>7 DEF RuntimeInv, RuntimeTypes

(* The structure of an object comes last when its blocks are given back.   *)
LEMMA Rotates ==
  ASSUME NEW S, NEW s \in Seq(S), s # << >>
  PROVE  LET t == Tail(s) \o << Head(s) >>
         IN  t \in Seq(S) /\ Entries(t) = Entries(s) /\ (Once(s) => Once(t))
<1> DEFINE t == Tail(s) \o << Head(s) >>
           n == Len(s)
<1>1. n \in Nat /\ n > 0 /\ t \in Seq(S) /\ Len(t) = n
  OBVIOUS
<1>2. \A i \in 1 .. n : t[i] = IF i < n THEN s[i + 1] ELSE s[1]
  OBVIOUS
<1> HIDE DEF t, n
<1>3. \A i \in 1 .. n : i = n \/ i + 1 \in 1 .. n
  BY <1>1
<1>4. \A i \in 1 .. n : i = 1 \/ (i - 1 \in 1 .. n /\ i - 1 < n /\ (i - 1) + 1 = i)
  BY <1>1
<1>5. 1 \in 1 .. n /\ n \in 1 .. n /\ ~(n < n)
  BY <1>1
<1>6. \A i \in 1 .. n : \E j \in 1 .. n : t[i] = s[j]
  BY <1>2, <1>3, <1>5
<1>7. \A i \in 1 .. n : \E j \in 1 .. n : s[i] = t[j]
  BY <1>2, <1>4, <1>5
<1>8. Entries(t) = Entries(s)
  <2>1. Entries(t) = {t[i] : i \in 1 .. n} /\ Entries(s) = {s[i] : i \in 1 .. n}
    BY <1>1 DEF Entries, n
  <2> QED
    BY <1>6, <1>7, <2>1
<1>9. ASSUME Once(s) PROVE Once(t)
  <2> SUFFICES ASSUME NEW i \in 1 .. n, NEW j \in 1 .. n, t[i] = t[j], t[i] # 0 PROVE i = j
    BY <1>1 DEF Once
  <2> DEFINE from(k) == IF k < n THEN k + 1 ELSE 1
  <2>1. from(i) \in 1 .. n /\ from(j) \in 1 .. n /\ (from(i) = from(j) => i = j)
    BY <1>1
  <2>2. t[i] = s[from(i)] /\ t[j] = s[from(j)]
    BY <1>2
  <2> HIDE DEF from
  <2> QED
    BY <1>9, <2>1, <2>2 DEF Once, n
<1> QED
  BY <1>1, <1>8, <1>9 DEF t

LEMMA GivesUp ==
  ASSUME NEW m \in Memories, NEW s, s # << >>, Returnable(m, s)
  PROVE  GivesBack(m, GivenUp(m, s), Entries(s))
<1> DEFINE t == Tail(s) \o << Head(s) >>
<1>1. s \in Seq(Blocks \cup {0})
  BY DEF Returnable
<1>2. t \in Seq(Blocks \cup {0}) /\ Entries(t) = Entries(s) /\ (Once(s) => Once(t))
  BY <1>1, Rotates
<1> HIDE DEF t
<1>3. ASSUME ~m.aborted, NEW i \in 1 .. Len(t), t[i] # 0 PROVE m.heap[t[i]] # "free"
  <2>1. t[i] \in Entries(s)
    BY <1>2 DEF Entries
  <2>2. PICK j \in 1 .. Len(s) : s[j] = t[i]
    BY <2>1 DEF Entries
  <2> QED
    BY <1>3, <2>2 DEF Returnable
<1>4. Returnable(m, t)
  BY <1>2, <1>3 DEF Returnable
<1>5. GivesBack(m, DeallocatedAll(m, t), Entries(t))
  BY <1>4, DeallocatesAll
<1> QED
  BY <1>2, <1>5 DEF GivenUp, t

(* What was taken can be given back, and then nothing has changed.         *)
LEMMA TakenBack ==
  ASSUME NEW m \in Memories, NEW n \in Nat, NEW t, Takes(m, t, n)
  PROVE  /\ Returnable(t.mem, t.blocks)
         /\ \A r : GivesBack(t.mem, r, Entries(t.blocks)) /\ ~r.aborted => Uses(m, r, {}, {})
<1>1. /\ t.mem \in Memories /\ t.blocks \in Seq(Blocks \cup {0}) /\ Len(t.blocks) = n
      /\ Once(t.blocks)
      /\ \A b \in Blocks :
           t.mem.heap[b] = "free" <=> m.heap[b] = "free" /\ b \notin Entries(t.blocks)
  BY DEF Takes, Taken
<1>2. ASSUME NEW i \in 1 .. n, t.blocks[i] # 0 PROVE t.mem.heap[t.blocks[i]] # "free"
  <2>1. t.blocks[i] \in Blocks \cup {0}
    BY <1>1
  <2>2. t.blocks[i] \in Entries(t.blocks)
    BY <1>1 DEF Entries
  <2> QED
    BY <1>1, <1>2, <2>1, <2>2
<1>3. Returnable(t.mem, t.blocks)
  BY <1>1, <1>2 DEF Returnable
<1>4. \A b \in Blocks : b \in Entries(t.blocks) => m.heap[b] = "free"
  <2> TAKE b \in Blocks
  <2> SUFFICES ASSUME b \in Entries(t.blocks) PROVE m.heap[b] = "free"
    OBVIOUS
  <2>1. PICK i \in 1 .. n : t.blocks[i] = b
    BY <1>1 DEF Entries
  <2> QED
    BY <2>1, BlockFacts DEF Takes
<1>5. ASSUME NEW r, GivesBack(t.mem, r, Entries(t.blocks)), ~r.aborted PROVE Uses(m, r, {}, {})
  BY <1>1, <1>4, <1>5 DEF GivesBack, Uses
<1> QED
  BY <1>3, <1>5

LEMMA CreateInv ==
  ASSUME RuntimeInv, NEW n \in 1 .. 3, NEW denied, Create(n, denied)
  PROVE  RuntimeInv'
<1> DEFINE kinds == [i \in 1 .. n |-> "own"]
           t == Took(mem, kinds, denied)
           s == t.blocks
           r == GivenUp(t.mem, s)
<1>1. /\ Running /\ s[1] # 0
      /\ IF 0 \in {s[i] : i \in 1 .. n}
         THEN Goes(r) /\ UNCHANGED objects
         ELSE Goes(t.mem) /\ objects' = objects \cup {s}
      /\ UNCHANGED << context, modules, functions, error, log, inits, opened >>
  BY DEF Create
<1>2. /\ mem \in Memories /\ ~mem.aborted
      /\ objects \subseteq Seq(Blocks) /\ << >> \notin objects
      /\ Accounts(HeldBy(context, error, modules, functions, objects), mem)
  BY <1>1 DEF RuntimeInv, RuntimeTypes
<1>3. Takes(mem, t, n) /\ n \in Nat
  <2>1. kinds \in Seq(Kinds) /\ Len(kinds) = n
    BY DEF Kinds
  <2> HIDE DEF kinds
  <2> QED
    BY <1>2, <2>1, TookTakes
<1> HIDE DEF t, kinds
<1>4. /\ t.mem \in Memories /\ s \in Seq(Blocks \cup {0}) /\ Len(s) = n /\ 1 \in 1 .. n
      /\ t.mem.aborted = mem.aborted /\ Once(s)
      /\ \A i \in 1 .. n : s[i] # 0 => mem.heap[s[i]] = "free"
      /\ \A b \in Blocks : t.mem.heap[b] = "free" <=> mem.heap[b] = "free" /\ b \notin Entries(s)
  BY <1>3 DEF Takes, Taken
<1>5. ModulesRight' /\ LogRight'
  BY <1>1 DEF RuntimeInv, ModulesRight, LogRight, Loaded
<1>6. CASE 0 \in {s[i] : i \in 1 .. n}
  <2>1. Goes(r) /\ UNCHANGED objects
    BY <1>1, <1>6
  <2>2. Returnable(t.mem, s) /\ s # << >>
    BY <1>2, <1>3, <1>4, TakenBack
  <2>3. GivesBack(t.mem, r, Entries(s))
    <3> HIDE DEF s
    <3> QED
      BY <1>4, <2>2, GivesUp
  <2>4. r \in Memories
    BY <2>3 DEF GivesBack
  <2> HIDE DEF r
  <2>5. mem' = r /\ (Running' <=> ~r.aborted)
    BY <2>1, <2>4, GoesTo
  <2>6. ASSUME Running'
        PROVE  Accounts(HeldBy(context, error, modules, functions, objects), mem')
    <3>1. Uses(mem, r, {}, {})
      BY <1>2, <1>3, <2>3, <2>5, <2>6, TakenBack
    <3> QED
      BY <1>2, <2>5, <3>1, SameUse
  <2>7. RuntimeTypes'
    BY <1>1, <2>1, <2>4, <2>5 DEF RuntimeInv, RuntimeTypes
  <2> QED
    BY <1>1, <1>5, <2>1, <2>5, <2>6, <2>7 DEF RuntimeInv
<1>7. CASE 0 \notin {s[i] : i \in 1 .. n}
  <2>1. Goes(t.mem) /\ objects' = objects \cup {s}
    BY <1>1, <1>7
  <2>2. \A i \in 1 .. n : s[i] \in Blocks
    BY <1>4, <1>7
  <2>3. s \in Seq(Blocks) /\ s # << >> /\ DOMAIN s = 1 .. n
    <3> HIDE DEF s
    <3>1. \A i \in 1 .. Len(s) : s[i] \in Blocks
      BY <1>4, <2>2
    <3> QED
      BY <1>3, <1>4, <3>1
  <2>4. mem' = t.mem /\ (Running' <=> ~t.mem.aborted)
    BY <1>4, <2>1, GoesTo
  <2> HIDE DEF s
  <2>5. s \notin objects
    <3> SUFFICES ASSUME s \in objects PROVE FALSE
      OBVIOUS
    <3>1. mem.heap[s[1]] # "free"
      BY <1>1, <1>2, <1>4, <2>3, HeldInUse
    <3> QED
      BY <1>1, <1>4, <3>1
  <2>6. Uses(mem, mem', BlocksOf({s}), BlocksOf({}))
    <3>1. BlocksOf({s}) = Entries(s) /\ BlocksOf({}) = {}
      BY <1>4, <2>3 DEF BlocksOf, Entries
    <3>2. \A b \in Blocks : b \in Entries(s) => t.mem.heap[b] # "free"
      BY <1>4
    <3> QED
      BY <1>4, <2>4, <3>1, <3>2 DEF Uses
  <2>7. \A i, j \in DOMAIN s : s[i] = s[j] => i = j
    BY <1>4, <2>2, <2>3, BlockFacts DEF Once
  <2>8. \A i \in DOMAIN s : s[i] \in Blocks /\ mem.heap[s[i]] = "free"
    BY <1>4, <2>2, <2>3, BlockFacts
  <2>9. Accounts(HeldBy(context, error, modules, functions, (objects \ {}) \cup {s}), mem')
    <3>1. /\ {} \subseteq objects /\ {s} \cap objects = {}
          /\ \A o, p \in {s} : \A i \in DOMAIN o, j \in DOMAIN p : o[i] = p[j] => o = p /\ i = j
          /\ \A o \in {s} : \A i \in DOMAIN o : o[i] \in Blocks /\ mem.heap[o[i]] = "free"
      BY <2>5, <2>7, <2>8
    <3> QED
      BY <1>2, <2>6, <3>1, ObjectsAccounted
  <2>10. (objects \ {}) \cup {s} = objects'
    BY <2>1
  <2>11. RuntimeTypes'
    BY <1>1, <1>2, <1>4, <2>1, <2>3, <2>4 DEF RuntimeInv, RuntimeTypes
  <2>12. Accounts(HeldBy(context, error, modules, functions, objects'), mem')
    BY <2>9, <2>10
  <2> QED
    BY <1>1, <1>5, <2>4, <2>11, <2>12 DEF RuntimeInv
<1> QED
  BY <1>6, <1>7

LEMMA DestroyInv ==
  ASSUME RuntimeInv, NEW object \in objects, Destroy(object)
  PROVE  RuntimeInv'
<1> DEFINE r == GivenUp(mem, object)
<1>1. /\ Running /\ Goes(r) /\ objects' = objects \ {object}
      /\ UNCHANGED << context, modules, functions, error, log, inits, opened >>
  BY DEF Destroy
<1>2. /\ mem \in Memories /\ objects \subseteq Seq(Blocks) /\ << >> \notin objects
      /\ Accounts(HeldBy(context, error, modules, functions, objects), mem)
  BY <1>1 DEF RuntimeInv, RuntimeTypes
<1>3. object \in Seq(Blocks) /\ object # << >> /\ DOMAIN object = 1 .. Len(object)
  BY <1>2
<1>4. \A i \in 1 .. Len(object) : object[i] \in Blocks /\ object[i] # 0
  BY <1>3, BlockFacts
<1>5. /\ \A i \in 1 .. Len(object) : mem.heap[object[i]] # "free"
      /\ \A i, j \in 1 .. Len(object) : object[i] = object[j] => i = j
  BY <1>2, <1>3, <1>4, HeldInUse
<1>6. Returnable(mem, object)
  <2>1. object \in Seq(Blocks \cup {0})
    BY <1>3
  <2> QED
    BY <1>5, <2>1 DEF Returnable, Once
<1>7. GivesBack(mem, r, Entries(object))
  BY <1>2, <1>3, <1>6, GivesUp
<1> HIDE DEF r
<1>8. mem' = r /\ (Running' <=> ~r.aborted) /\ r \in Memories
  BY <1>1, <1>7, GoesTo DEF GivesBack
<1>9. ASSUME Running'
      PROVE  Accounts(HeldBy(context, error, modules, functions, objects'), mem')
  <2>1. Uses(mem, mem', {}, Entries(object))
    BY <1>7, <1>8, <1>9, BackIsUse
  <2>2. BlocksOf({object}) = Entries(object) /\ BlocksOf({}) = {}
    BY <1>3 DEF BlocksOf, Entries
  <2>3. Uses(mem, mem', BlocksOf({}), BlocksOf({object}))
    BY <2>1, <2>2
  <2>4. {object} \subseteq objects /\ {} \cap objects = {}
    OBVIOUS
  <2>5. Accounts(HeldBy(context, error, modules, functions, (objects \ {object}) \cup {}), mem')
    BY <1>2, <2>3, <2>4, ObjectsAccounted
  <2>6. (objects \ {object}) \cup {} = objects'
    BY <1>1
  <2> QED
    BY <2>5, <2>6
<1>10. ModulesRight' /\ LogRight'
  BY <1>1 DEF RuntimeInv, ModulesRight, LogRight, Loaded
<1>11. RuntimeTypes'
  BY <1>1, <1>8 DEF RuntimeInv, RuntimeTypes
<1> QED
  BY <1>1, <1>8, <1>9, <1>10, <1>11 DEF RuntimeInv

LEMMA TakesJustOne ==
  ASSUME NEW m, NEW t, Takes(m, t, 1)
  PROVE  /\ t.mem \in Memories /\ t.mem.aborted = m.aborted
         /\ t.blocks[1] \in Blocks \cup {0}
         /\ t.blocks[1] # 0 => m.heap[t.blocks[1]] = "free"
         /\ \A b \in Blocks : t.mem.heap[b] = "free" <=> m.heap[b] = "free" /\ b # t.blocks[1]
<1>1. /\ t.mem \in Memories /\ t.blocks \in Seq(Blocks \cup {0}) /\ Len(t.blocks) = 1
      /\ 1 \in 1 .. 1 /\ \A i \in 1 .. 1 : i = 1
  BY DEF Takes, Taken
<1>2. Entries(t.blocks) = {t.blocks[1]}
  BY <1>1 DEF Entries
<1>3. t.blocks[1] \in Blocks \cup {0}
  BY <1>1
<1> QED
  BY <1>1, <1>2, <1>3 DEF Takes

LEMMA TakesJustTwo ==
  ASSUME NEW m, NEW t, Takes(m, t, 2)
  PROVE  /\ t.mem \in Memories /\ t.mem.aborted = m.aborted
         /\ t.blocks = << t.blocks[1], t.blocks[2] >>
         /\ t.blocks[1] \in Blocks \cup {0} /\ t.blocks[2] \in Blocks \cup {0}
         /\ t.blocks[1] # 0 => m.heap[t.blocks[1]] = "free" /\ t.blocks[1] # t.blocks[2]
         /\ t.blocks[2] # 0 => m.heap[t.blocks[2]] = "free"
         /\ \A b \in Blocks :
              t.mem.heap[b] = "free" <=> m.heap[b] = "free" /\ b # t.blocks[1] /\ b # t.blocks[2]
<1>1. /\ t.mem \in Memories /\ t.blocks \in Seq(Blocks \cup {0}) /\ Len(t.blocks) = 2
      /\ 1 \in 1 .. 2 /\ 2 \in 1 .. 2 /\ \A i \in 1 .. 2 : i = 1 \/ i = 2
  BY DEF Takes, Taken
<1>2. Entries(t.blocks) = {t.blocks[1], t.blocks[2]}
  BY <1>1 DEF Entries
<1>3. t.blocks[1] \in Blocks \cup {0} /\ t.blocks[2] \in Blocks \cup {0}
  BY <1>1
<1>4. t.blocks = << t.blocks[1], t.blocks[2] >>
  BY <1>1
<1>5. t.blocks[1] # 0 => t.blocks[1] # t.blocks[2]
  BY <1>1 DEF Takes, Once
<1> QED
  BY <1>1, <1>2, <1>3, <1>4, <1>5 DEF Takes

LEMMA TwoAndOne ==
  ASSUME NEW S, NEW two \in Seq(S), Len(two) = 2, NEW x \in S
  PROVE  LET s == two \o << x >>
         IN  s \in Seq(S) /\ Len(s) = 3 /\ s[1] = two[1] /\ s[2] = two[2] /\ s[3] = x
<1>1. << x >> \in Seq(S)
  OBVIOUS
<1>2. Len(<< x >>) = 1 /\ << x >>[1] = x
  OBVIOUS
<1>3. PICK one \in Seq(S) : one = << x >> /\ Len(one) = 1 /\ one[1] = x
  BY <1>1, <1>2
<1>4. PICK s \in Seq(S) : s = two \o one
  BY ConcatProperties
<1>5. Len(s) = 3
  <2>1. Len(two \o one) = Len(two) + Len(one)
    BY ConcatProperties
  <2> QED
    BY <1>3, <1>4, <2>1
<1>6. \A i \in 1 .. 3 : s[i] = IF i <= 2 THEN two[i] ELSE one[i - 2]
  BY <1>3, <1>4, <1>5, ConcatProperties
<1>7. s[1] = two[1] /\ s[2] = two[2] /\ s[3] = one[1]
  BY <1>6
<1> QED
  BY <1>3, <1>4, <1>5, <1>7

LEMMA RegisterFunctionInv ==
  ASSUME RuntimeInv, NEW name \in Names, NEW denied, RegisterFunction(name, denied)
  PROVE  RuntimeInv'
<1> DEFINE first == Took(mem, << "function" >>, denied)
           texts == Took(first.mem, << "text", "text" >>, {d - 1 : d \in denied \ {0, 1}})
           last  == Took(texts.mem, << "entry" >>, {d - 3 : d \in denied \cap {4}})
           f == first.blocks[1]
           x == texts.blocks[1]
           y == texts.blocks[2]
           e == last.blocks[1]
           s == texts.blocks \o << f >>
           r == DeallocatedAll(last.mem, s)
           entry == [name |-> IF x = 0 THEN "NULL" ELSE name, name_block |-> x,
                     signature |-> y, function |-> f, entry |-> e]
<1>1. /\ Running /\ f # 0
      /\ IF e = 0 THEN Goes(r) /\ UNCHANGED functions
                  ELSE Goes(last.mem) /\ functions' = << entry >> \o functions
      /\ UNCHANGED << context, modules, error, log, objects, inits, opened >>
  BY DEF RegisterFunction
<1>2. /\ mem \in Memories /\ ~mem.aborted /\ functions \in Seq(FunctionEntries)
      /\ Accounts(HeldBy(context, error, modules, functions, objects), mem)
  BY <1>1 DEF RuntimeInv, RuntimeTypes
<1>3. /\ << "function" >> \in Seq(Kinds) /\ Len(<< "function" >>) = 1
      /\ << "entry" >> \in Seq(Kinds) /\ Len(<< "entry" >>) = 1
      /\ << "text", "text" >> \in Seq(Kinds) /\ Len(<< "text", "text" >>) = 2
  BY DEF Kinds
<1>4. Takes(mem, first, 1)
  BY <1>2, <1>3, TookTakes
<1> HIDE DEF first
<1>5. /\ first.mem \in Memories /\ first.mem.aborted = mem.aborted
      /\ f \in Blocks /\ mem.heap[f] = "free"
      /\ \A b \in Blocks : first.mem.heap[b] = "free" <=> mem.heap[b] = "free" /\ b # f
  BY <1>1, <1>4, TakesJustOne
<1>6. Takes(first.mem, texts, 2)
  BY <1>3, <1>5, TookTakes
<1> HIDE DEF texts
<1>7. /\ texts.mem \in Memories /\ texts.mem.aborted = first.mem.aborted
      /\ texts.blocks = << x, y >> /\ x \in Blocks \cup {0} /\ y \in Blocks \cup {0}
      /\ x # 0 => first.mem.heap[x] = "free" /\ x # y
      /\ y # 0 => first.mem.heap[y] = "free"
      /\ \A b \in Blocks :
           texts.mem.heap[b] = "free" <=> first.mem.heap[b] = "free" /\ b # x /\ b # y
  BY <1>6, TakesJustTwo
<1>8. Takes(texts.mem, last, 1)
  BY <1>3, <1>7, TookTakes
<1> HIDE DEF last
<1>9. /\ last.mem \in Memories /\ last.mem.aborted = texts.mem.aborted
      /\ e \in Blocks \cup {0} /\ (e # 0 => texts.mem.heap[e] = "free")
      /\ \A b \in Blocks : last.mem.heap[b] = "free" <=> texts.mem.heap[b] = "free" /\ b # e
  BY <1>8, TakesJustOne
<1> HIDE DEF f, x, y, e
<1>10. /\ s \in Seq(Blocks \cup {0}) /\ Len(s) = 3
       /\ s[1] = x /\ s[2] = y /\ s[3] = f
  <2>1. texts.blocks \in Seq(Blocks \cup {0}) /\ Len(texts.blocks) = 2 /\ f \in Blocks \cup {0}
    BY <1>5, <1>6 DEF Takes, Taken
  <2>2. texts.blocks[1] = x /\ texts.blocks[2] = y
    BY DEF x, y
  <2> QED
    BY <2>1, <2>2, TwoAndOne
<1>11. /\ last.mem \in Memories /\ ~last.mem.aborted
       /\ f \in Blocks /\ x \in Blocks \cup {0} /\ y \in Blocks \cup {0} /\ e \in Blocks \cup {0}
       /\ mem.heap[f] = "free" /\ f # x /\ f # y /\ f # e
       /\ x # 0 => mem.heap[x] = "free" /\ x # y /\ x # e
       /\ y # 0 => mem.heap[y] = "free" /\ y # e
       /\ e # 0 => mem.heap[e] = "free"
       /\ \A b \in Blocks :
            last.mem.heap[b] = "free" <=>
              mem.heap[b] = "free" /\ b # f /\ b # x /\ b # y /\ b # e
  BY <1>1, <1>2, <1>5, <1>7, <1>9
<1>12. ModulesRight' /\ LogRight'
  BY <1>1 DEF RuntimeInv, ModulesRight, LogRight, Loaded
<1> HIDE DEF s
<1>13. CASE e = 0
  <2>1. Goes(r) /\ UNCHANGED functions
    BY <1>1, <1>13
  <2>2. Returnable(last.mem, s) /\ Entries(s) = {x, y, f}
    <3>1. /\ s \in Seq(Blocks \cup {0}) /\ Len(s) = 3 /\ s[1] = x /\ s[2] = y /\ s[3] = f
          /\ 1 \in 1 .. 3 /\ 2 \in 1 .. 3 /\ 3 \in 1 .. 3
          /\ \A i \in 1 .. 3 : i = 1 \/ i = 2 \/ i = 3
      BY <1>10, <1>11
    <3>2. Once(s)
      BY <1>11, <3>1 DEF Once
    <3>3. \A i \in 1 .. 3 : s[i] # 0 => last.mem.heap[s[i]] # "free"
      BY <1>11, <3>1, BlockFacts
    <3>4. Entries(s) = {x, y, f}
      BY <3>1 DEF Entries
    <3> QED
      BY <3>1, <3>2, <3>3, <3>4 DEF Returnable
  <2>3. GivesBack(last.mem, r, Entries(s))
    BY <1>11, <2>2, DeallocatesAll
  <2> HIDE DEF r
  <2>4. mem' = r /\ (Running' <=> ~r.aborted) /\ r \in Memories
    BY <2>1, <2>3, GoesTo DEF GivesBack
  <2>5. ASSUME Running'
        PROVE  Accounts(HeldBy(context, error, modules, functions, objects), mem')
    <3>1. Uses(mem, mem', {}, {})
      BY <1>11, <1>13, <2>2, <2>3, <2>4, <2>5, BlockFacts DEF GivesBack, Uses
    <3> QED
      BY <1>2, <3>1, SameUse
  <2>6. RuntimeTypes'
    BY <1>1, <2>1, <2>4 DEF RuntimeInv, RuntimeTypes
  <2> QED
    BY <1>1, <1>12, <2>1, <2>4, <2>5, <2>6 DEF RuntimeInv
<1>14. CASE e # 0
  <2>1. Goes(last.mem) /\ functions' = << entry >> \o functions
    BY <1>1, <1>14
  <2>2. /\ entry.name_block = x /\ entry.signature = y /\ entry.function = f /\ entry.entry = e
        /\ entry \in FunctionEntries
    BY <1>11, <1>14 DEF FunctionEntries
  <2> HIDE DEF entry
  <2>3. mem' = last.mem /\ (Running' <=> ~last.mem.aborted)
    BY <1>11, <2>1, GoesTo
  <2>4. /\ functions' \in Seq(FunctionEntries) /\ functions'[1] = entry
        /\ Reindexed(functions, functions', [i \in 1 .. Len(functions) + 1 |-> i - 1], {1}, {})
    BY <1>2, <2>1, <2>2, Prepended
  <2>5. /\ entry["name_block"] = x /\ entry["signature"] = y
        /\ entry["function"] = f /\ entry["entry"] = e
    BY <2>2
  <2>6. Uses(mem, mem', BlocksAt(functions', {1}), BlocksAt(functions, {}))
    <3>1. BlocksAt(functions', {1}) = {x, y, f, e}
      <4>1. BlocksAt(functions', {1}) = {entry[g] : g \in Fields}
        BY <2>4 DEF BlocksAt
      <4> QED
        BY <2>5, <4>1 DEF Fields
    <3>2. BlocksAt(functions, {}) = {}
      BY DEF BlocksAt
    <3> QED
      BY <1>11, <2>3, <3>1, <3>2, BlockFacts DEF Uses
  <2>7. \A i, j \in {1}, g, h \in Fields :
          functions'[i][g] = functions'[j][h] /\ functions'[i][g] # 0 => i = j /\ g = h
    <3>1. \A g, h \in Fields : entry[g] = entry[h] /\ entry[g] # 0 => g = h
      BY <1>11, <2>5 DEF Fields
    <3> QED
      BY <2>4, <3>1
  <2>8. \A i \in {1}, g \in Fields :
          functions'[i][g] # 0 => functions'[i][g] \in Blocks /\ mem.heap[functions'[i][g]] = "free"
    <3>1. \A g \in Fields : entry[g] # 0 => entry[g] \in Blocks /\ mem.heap[entry[g]] = "free"
      BY <1>11, <2>5 DEF Fields
    <3> QED
      BY <2>4, <3>1
  <2>9. Accounts(HeldBy(context, error, modules, functions', objects), mem')
    BY <1>2, <2>4, <2>6, <2>7, <2>8, FunctionsAccounted
  <2>10. RuntimeTypes'
    BY <1>1, <1>11, <2>3, <2>4 DEF RuntimeInv, RuntimeTypes
  <2> QED
    BY <1>1, <1>11, <1>12, <2>3, <2>9, <2>10 DEF RuntimeInv
<1> QED
  BY <1>13, <1>14

LEMMA CallFunctionInv ==
  ASSUME RuntimeInv, NEW name, CallFunction(name)
  PROVE  RuntimeInv'
BY DEF RuntimeInv, CallFunction, RuntimeTypes, Running

(* The function that is found is one of the list.                          *)
LEMMA FoundIsListed ==
  ASSUME NEW name, functions \in Seq(FunctionEntries), Found(name) # 0
  PROVE  Found(name) \in 1 .. Len(functions)
<1> DEFINE named == {i \in DOMAIN functions : functions[i].name = name}
<1>1. named \subseteq Nat /\ named \subseteq 1 .. Len(functions)
  OBVIOUS
<1>2. CASE named = {}
  BY <1>2 DEF Found
<1>3. CASE named # {}
  <2>1. \E i \in named : \A j \in named : i <= j
    <3> HIDE DEF named
    <3> QED
      BY <1>1, <1>3, LeastNumber
  <2>2. Found(name) = CHOOSE i \in named : \A j \in named : i <= j
    BY <1>3 DEF Found
  <2> HIDE DEF named
  <2> QED
    BY <1>1, <2>1, <2>2
<1> QED
  BY <1>2, <1>3

AccountsUnlessAborted(held, m) == ~m.aborted => Accounts(held, m)

(* The blocks of a listed function are in use, each for one purpose.       *)
LEMMA FunctionReturnable ==
  ASSUME NEW c, NEW e, NEW ms, NEW fs \in Seq(FunctionEntries), NEW os, NEW m,
         NEW k \in 1 .. Len(fs), AccountsUnlessAborted(HeldBy(c, e, ms, fs, os), m)
  PROVE  /\ Returnable(m, FunctionBlocks(fs[k]))
         /\ Entries(FunctionBlocks(fs[k])) = BlocksAt(fs, {k})
<1> DEFINE f == fs[k]
           s == FunctionBlocks(f)
<1>1. f \in FunctionEntries /\ k \in DOMAIN fs
  OBVIOUS
<1>2. /\ f["name_block"] \in Blocks \cup {0} /\ f["signature"] \in Blocks \cup {0}
      /\ f["function"] \in Blocks \cup {0} /\ f["entry"] \in Blocks \cup {0}
      /\ f["name_block"] = f.name_block /\ f["signature"] = f.signature
      /\ f["function"] = f.function /\ f["entry"] = f.entry
  BY <1>1 DEF FunctionEntries
<1>3. ASSUME ~m.aborted
      PROVE  /\ \A g \in Fields : f[g] # 0 => m.heap[f[g]] # "free"
             /\ \A g, h \in Fields : f[g] = f[h] /\ f[g] # 0 => g = h
  BY <1>1, <1>3, HeldInUse DEF AccountsUnlessAborted
<1> HIDE DEF f
<1>5. s = << f["name_block"], f["signature"], f["function"], f["entry"] >>
  BY <1>2 DEF FunctionBlocks
<1> HIDE DEF s
<1>6. /\ s \in Seq(Blocks \cup {0}) /\ Len(s) = 4 /\ s[1] = f["name_block"]
      /\ s[2] = f["signature"] /\ s[3] = f["function"] /\ s[4] = f["entry"]
      /\ 1 \in 1 .. 4 /\ 2 \in 1 .. 4 /\ 3 \in 1 .. 4 /\ 4 \in 1 .. 4
      /\ \A i \in 1 .. 4 : i = 1 \/ i = 2 \/ i = 3 \/ i = 4
  BY <1>2, <1>5
<1>7. ASSUME ~m.aborted PROVE Once(s)
  BY <1>3, <1>6, <1>7 DEF Once, Fields
<1>8. ASSUME ~m.aborted, NEW i \in 1 .. 4, s[i] # 0 PROVE m.heap[s[i]] # "free"
  BY <1>3, <1>6, <1>8 DEF Fields
<1>9. Entries(s) = {f["name_block"], f["signature"], f["function"], f["entry"]}
  BY <1>6 DEF Entries
<1>10. BlocksAt(fs, {k}) = {f["name_block"], f["signature"], f["function"], f["entry"]}
  <2>1. BlocksAt(fs, {k}) = {f[g] : g \in Fields}
    BY DEF BlocksAt, f
  <2> QED
    BY <2>1 DEF Fields
<1> QED
  BY <1>6, <1>7, <1>8, <1>9, <1>10 DEF Returnable, s, f

LEMMA UnregisterFunctionInv ==
  ASSUME RuntimeInv, NEW name, UnregisterFunction(name)
  PROVE  RuntimeInv'
<1> DEFINE k == Found(name)
           s == FunctionBlocks(functions[k])
           r == Unregistered(mem, functions[k])
           w == [i \in 1 .. Len(functions) - 1 |-> IF i < k THEN i ELSE i + 1]
<1>1. /\ Running /\ k # 0 /\ Goes(r) /\ functions' = RemoveAt(functions, k)
      /\ UNCHANGED << context, modules, error, log, objects, inits, opened >>
  BY DEF UnregisterFunction
<1>2. /\ mem \in Memories /\ functions \in Seq(FunctionEntries)
      /\ Accounts(HeldBy(context, error, modules, functions, objects), mem)
  BY <1>1 DEF RuntimeInv, RuntimeTypes
<1>3. k \in 1 .. Len(functions)
  BY <1>1, <1>2, FoundIsListed
<1> HIDE DEF k
<1>4. Returnable(mem, s) /\ Entries(s) = BlocksAt(functions, {k})
  <2>1. AccountsUnlessAborted(HeldBy(context, error, modules, functions, objects), mem)
    BY <1>2 DEF AccountsUnlessAborted
  <2> QED
    BY <1>2, <1>3, <2>1, FunctionReturnable
<1>5. GivesBack(mem, r, Entries(s))
  <2>1. r = DeallocatedAll(mem, s)
    BY DEF Unregistered
  <2> HIDE DEF s, r
  <2> QED
    BY <1>2, <1>4, <2>1, DeallocatesAll
<1> HIDE DEF r, s
<1>6. mem' = r /\ (Running' <=> ~r.aborted) /\ r \in Memories
  BY <1>1, <1>5, GoesTo DEF GivesBack
<1>7. functions' \in Seq(FunctionEntries) /\ Reindexed(functions, functions', w, {}, {k})
  BY <1>1, <1>2, <1>3, RemovedAt
<1> HIDE DEF w
<1>8. ASSUME Running'
      PROVE  Accounts(HeldBy(context, error, modules, functions', objects), mem')
  <2>1. Uses(mem, mem', {}, Entries(s))
    BY <1>5, <1>6, <1>8, BackIsUse
  <2>2. BlocksAt(functions, {k}) = Entries(s) /\ BlocksAt(functions', {}) = {}
    BY <1>4 DEF BlocksAt
  <2>3. Uses(mem, mem', BlocksAt(functions', {}), BlocksAt(functions, {k}))
    BY <2>1, <2>2
  <2> QED
    BY <1>2, <1>7, <2>3, FunctionsAccounted
<1>9. ModulesRight' /\ LogRight'
  BY <1>1 DEF RuntimeInv, ModulesRight, LogRight, Loaded
<1>10. RuntimeTypes'
  BY <1>1, <1>6, <1>7 DEF RuntimeInv, RuntimeTypes
<1> QED
  BY <1>1, <1>6, <1>8, <1>9, <1>10 DEF RuntimeInv

LEMMA ShutDownInv == RuntimeInv /\ ShutDownRuntime => RuntimeInv'
<1> SUFFICES ASSUME RuntimeInv, ShutDownRuntime PROVE RuntimeInv'
  OBVIOUS
<1> DEFINE bs == [i \in DOMAIN modules |-> modules[i].block]
           u == DeallocatedAll(mem, bs)
           q == Fold(Unregistered, u, functions)
           last == << error, context >>
           z == DeallocatedAll(q, last)
<1>1. /\ Running /\ Goes(z) /\ inits' = CleanedAll(inits)
      /\ opened' = (IF log = "file" THEN opened - 1 ELSE opened) /\ log' = "none"
      /\ context' = 0 /\ modules' = << >> /\ functions' = << >> /\ error' = 0
      /\ UNCHANGED objects
  BY DEF ShutDownRuntime, ShutDownMemory
<1>2. /\ mem \in Memories /\ modules \in Seq(ModuleEntries) /\ functions \in Seq(FunctionEntries)
      /\ context \in Blocks \cup {0} /\ error \in Blocks \cup {0}
      /\ opened \in Nat /\ inits \in [Modules -> Nat]
      /\ Accounts(HeldBy(context, error, modules, functions, objects), mem)
      /\ ModulesRight /\ LogRight
  BY <1>1 DEF RuntimeInv, RuntimeTypes
<1>3. /\ bs \in Seq(Blocks \cup {0}) /\ Len(bs) = Len(modules)
      /\ \A i \in 1 .. Len(modules) : bs[i] = modules[i].block /\ bs[i] \in Blocks
  <2>1. DOMAIN modules = 1 .. Len(modules) /\ Len(modules) \in Nat
    BY <1>2
  <2>2. \A i \in 1 .. Len(modules) : modules[i].block \in Blocks
    <3> TAKE i \in 1 .. Len(modules)
    <3>1. modules[i] \in ModuleEntries
      BY <1>2
    <3> QED
      BY <3>1 DEF ModuleEntries
  <2>3. bs = [i \in 1 .. Len(modules) |-> modules[i].block]
    BY <2>1
  <2> HIDE DEF bs
  <2>4. bs \in Seq(Blocks \cup {0}) /\ Len(bs) = Len(modules)
    BY <2>1, <2>2, <2>3
  <2> QED
    BY <2>2, <2>3, <2>4
<1> HIDE DEF bs
<1>4. Returnable(mem, bs)
  <2>1. DOMAIN modules = 1 .. Len(modules)
    BY <1>2
  <2>2. \A i, j \in 1 .. Len(modules) : bs[i] = bs[j] /\ bs[i] # 0 => i = j
    BY <1>2, <1>3, <2>1, HeldInUse
  <2>3. \A i \in 1 .. Len(modules) : bs[i] # 0 => mem.heap[bs[i]] # "free"
    BY <1>2, <1>3, <2>1, HeldInUse
  <2> QED
    BY <1>3, <2>2, <2>3 DEF Returnable, Once
<1>5. GivesBack(mem, u, Entries(bs))
  BY <1>2, <1>4, DeallocatesAll
<1> HIDE DEF u
<1>6. ASSUME ~u.aborted
      PROVE  Accounts(HeldBy(context, error, << >>, functions, objects), u)
  <2>1. Uses(mem, u, {}, Entries(bs))
    BY <1>5, <1>6, BackIsUse
  <2>2. {modules[i].block : i \in DOMAIN modules} = Entries(bs)
    <3>1. DOMAIN modules = 1 .. Len(bs)
      BY <1>2, <1>3
    <3>2. \A i \in 1 .. Len(bs) : bs[i] = modules[i].block
      BY <1>3
    <3> QED
      BY <3>1, <3>2 DEF Entries
  <2>3. {<< >>[i].block : i \in {}} = {}
    OBVIOUS
  <2>4. Uses(mem, u, {<< >>[i].block : i \in {}}, {modules[i].block : i \in DOMAIN modules})
    BY <2>1, <2>2, <2>3
  <2>5. Reindexed(modules, << >>, << >>, {}, DOMAIN modules)
    BY Emptied
  <2> QED
    BY <1>2, <2>4, <2>5, ModulesAccounted
<1>7. u \in Memories
  BY <1>5 DEF GivesBack
<1>8. \A i \in 1 .. Len(functions) :
        /\ Returnable(u, FunctionBlocks(functions[i]))
        /\ Entries(FunctionBlocks(functions[i])) = BlocksAt(functions, {i})
  <2> TAKE i \in 1 .. Len(functions)
  <2>1. AccountsUnlessAborted(HeldBy(context, error, << >>, functions, objects), u)
    BY <1>6 DEF AccountsUnlessAborted
  <2> HIDE DEF q
  <2> QED
    BY <1>2, <2>1, FunctionReturnable
<1>9. ReturnableAll(u, functions)
  <2>1. ASSUME ~u.aborted, NEW i \in 1 .. Len(functions), NEW j \in 1 .. Len(functions), i # j
        PROVE  BlocksAt(functions, {i}) \cap BlocksAt(functions, {j}) \subseteq {0}
    <3>1. i \in DOMAIN functions /\ j \in DOMAIN functions
      BY <1>2
    <3>2. \A f, g \in Fields : functions[i][f] = functions[j][g] => functions[i][f] = 0
      BY <1>6, <2>1, <3>1, HeldInUse
    <3> SUFFICES ASSUME NEW b \in BlocksAt(functions, {i}), b \in BlocksAt(functions, {j})
                 PROVE  b = 0
      OBVIOUS
    <3>3. PICK f \in Fields : b = functions[i][f]
      BY DEF BlocksAt
    <3>4. PICK g \in Fields : b = functions[j][g]
      BY DEF BlocksAt
    <3> QED
      BY <3>2, <3>3, <3>4
  <2> QED
    BY <1>2, <1>8, <2>1 DEF ReturnableAll
<1> DEFINE B == UNION {Entries(FunctionBlocks(functions[i])) : i \in 1 .. Len(functions)}
<1>10. GivesBack(u, q, B)
  BY <1>7, <1>9, UnregistersAll
<1> HIDE DEF q
<1>11. B = BlocksAt(functions, DOMAIN functions)
  <2>1. DOMAIN functions = 1 .. Len(functions)
    BY <1>2
  <2>2. ASSUME NEW b \in B PROVE b \in BlocksAt(functions, DOMAIN functions)
    <3>1. PICK i \in 1 .. Len(functions) : b \in Entries(FunctionBlocks(functions[i]))
      OBVIOUS
    <3>2. b \in BlocksAt(functions, {i})
      BY <1>8, <3>1
    <3> QED
      BY <2>1, <3>2 DEF BlocksAt
  <2>3. ASSUME NEW b \in BlocksAt(functions, DOMAIN functions) PROVE b \in B
    <3>1. PICK i \in DOMAIN functions : b \in {functions[i][f] : f \in Fields}
      BY DEF BlocksAt
    <3>2. b \in BlocksAt(functions, {i})
      BY <3>1 DEF BlocksAt
    <3> QED
      BY <1>8, <2>1, <3>2
  <2> HIDE DEF B
  <2> QED
    BY <2>2, <2>3
<1> HIDE DEF B
<1>12. ASSUME ~q.aborted
       PROVE  Accounts(HeldBy(context, error, << >>, << >>, objects), q)
  <2>1. Uses(u, q, {}, B) /\ ~u.aborted
    BY <1>10, <1>12, BackIsUse
  <2>2. BlocksAt(<< >>, {}) = {}
    BY DEF BlocksAt
  <2>3. Uses(u, q, BlocksAt(<< >>, {}), BlocksAt(functions, DOMAIN functions))
    BY <1>11, <2>1, <2>2
  <2>4. Reindexed(functions, << >>, << >>, {}, DOMAIN functions)
    BY Emptied
  <2> QED
    BY <1>6, <2>1, <2>3, <2>4, FunctionsAccounted
<1>13. q \in Memories
  BY <1>10 DEF GivesBack
<1>14. Returnable(q, last) /\ Entries(last) = {context, error}
  <2>1. /\ last \in Seq(Blocks \cup {0}) /\ Len(last) = 2 /\ last[1] = error /\ last[2] = context
        /\ 1 \in 1 .. 2 /\ 2 \in 1 .. 2 /\ \A i \in 1 .. 2 : i = 1 \/ i = 2
    BY <1>2
  <2> HIDE DEF last
  <2>2. Entries(last) = {context, error}
    BY <2>1 DEF Entries
  <2>3. ASSUME ~q.aborted
        PROVE  /\ context # 0 => q.heap[context] # "free"
               /\ error # 0 => q.heap[error] # "free" /\ error # context
    BY <1>12, <2>3, HeldInUse
  <2>4. ASSUME ~q.aborted PROVE Once(last) /\ \A i \in 1 .. 2 : last[i] # 0 => q.heap[last[i]] # "free"
    BY <2>1, <2>3, <2>4 DEF Once
  <2> QED
    BY <2>1, <2>2, <2>4 DEF Returnable
<1>15. GivesBack(q, z, {context, error})
  <2> HIDE DEF last
  <2> QED
    BY <1>13, <1>14, DeallocatesAll
<1> HIDE DEF z, last
<1>16. mem' = z /\ (Running' <=> ~z.aborted) /\ z \in Memories
  BY <1>1, <1>15, GoesTo DEF GivesBack
<1>17. ASSUME Running' PROVE Accounts(HeldBy(0, 0, << >>, << >>, objects), mem')
  <2>1. Uses(q, mem', {}, {context, error}) /\ ~q.aborted
    BY <1>15, <1>16, <1>17, BackIsUse
  <2> QED
    BY <1>12, <2>1, ClearedAccounted
<1>18. \A name \in Modules : inits'[name] = 0 /\ ~Loaded(name)'
  BY <1>1, <1>2 DEF CleanedAll, ModulesRight, Loaded
<1>19. inits' \in [Modules -> Nat]
  <2>1. inits' = [name \in Modules |-> inits'[name]]
    BY <1>1 DEF CleanedAll
  <2> QED
    BY <1>18, <2>1
<1>20. ModulesRight'
  BY <1>1, <1>18 DEF ModulesRight
<1>21. opened' = 0 /\ LogRight'
  BY <1>1, <1>2 DEF LogRight
<1>22. RuntimeTypes'
  BY <1>1, <1>16, <1>19, <1>21 DEF RuntimeInv, RuntimeTypes
<1> QED
  BY <1>1, <1>16, <1>17, <1>20, <1>21, <1>22 DEF RuntimeInv

LEMMA RuntimeNextInv == RuntimeInv /\ [RNext]_rvars => RuntimeInv'
<1> SUFFICES ASSUME RuntimeInv, [RNext]_rvars PROVE RuntimeInv'
  OBVIOUS
<1>1. CASE Initialise
  BY <1>1, InitialiseInv
<1>2. CASE ShutDownRuntime
  BY <1>2, ShutDownInv
<1>3. ASSUME NEW name \in Modules, LoadModule(name) PROVE RuntimeInv'
  BY <1>3, LoadModuleInv
<1>4. ASSUME NEW i \in DOMAIN modules, UnloadModule(i) PROVE RuntimeInv'
  BY <1>4, UnloadModuleInv
<1>5. ASSUME NEW name \in Names, NEW denied \in SUBSET (1 .. 4), RegisterFunction(name, denied)
      PROVE  RuntimeInv'
  BY <1>5, RegisterFunctionInv
<1>6. ASSUME NEW name \in Names, CallFunction(name) PROVE RuntimeInv'
  BY <1>6, CallFunctionInv
<1>7. ASSUME NEW name \in Names, UnregisterFunction(name) PROVE RuntimeInv'
  BY <1>7, UnregisterFunctionInv
<1>8. CASE ReportError
  BY <1>8, ReportErrorInv
<1>9. CASE ClearErrors
  BY <1>9, ClearErrorsInv
<1>10. CASE SetLog
  BY <1>10, SetLogInv
<1>11. ASSUME NEW n \in 1 .. 3, NEW denied \in SUBSET (2 .. 3), Create(n, denied) PROVE RuntimeInv'
  BY <1>11, CreateInv
<1>12. ASSUME NEW object \in objects, Destroy(object) PROVE RuntimeInv'
  BY <1>12, DestroyInv
<1>13. ASSUME NEW b \in Blocks, NEW purpose \in {"own", "grown"}, Reallocate(b, purpose) PROVE RuntimeInv'
  BY <1>13, ReallocateInv
<1>14. CASE Dead \/ UNCHANGED rvars
  BY <1>14 DEF Dead, rvars, RuntimeInv, RuntimeTypes, ModulesRight, LogRight, Loaded, Running
<1> QED
  BY <1>1, <1>2, <1>3, <1>4, <1>5, <1>6, <1>7, <1>8, <1>9, <1>10, <1>11, <1>12, <1>13, <1>14
     DEF RNext

(***************************************************************************)
(* Through any sequence of operations, every pointer of the runtime is NULL *)
(* or a block of the memory, an object is a list of blocks, and neither a  *)
(* counter of the statistics nor one of inits or log files is negative.    *)
(***************************************************************************)
THEOREM RuntimeTypeCorrect == RSpec => []RTypeOK
<1>1. RSpec => []RuntimeInv
  BY RuntimeInit, RuntimeNextInv, PTL DEF RSpec
<1>2. RuntimeInv => RTypeOK
  BY DEF RuntimeInv, RuntimeTypes, RTypeOK, Memories
<1> QED
  BY <1>1, <1>2, PTL

(***************************************************************************)
(* Whatever allocations are denied, and in whatever order a program uses   *)
(* the runtime, for any memory and any number of modules and functions:    *)
(* until free is given what malloc did not return, the blocks in use are   *)
(* exactly those that something points to, each once, and the modules that *)
(* are listed and the log file that is open are the ones in use.           *)
(***************************************************************************)
THEOREM EverythingAccounted == RSpec => []AllAccounted
<1>1. RSpec => []RuntimeInv
  BY RuntimeInit, RuntimeNextInv, PTL DEF RSpec
<1> QED
  BY <1>1, InvImpliesAccounted, PTL
=============================================================================
