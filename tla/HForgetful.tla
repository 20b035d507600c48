----------------------------- MODULE HForgetful -----------------------------
(***************************************************************************)
(* What the event rings promise: a queue of at most Limit events that      *)
(* makes room for a new event by forgetting the oldest one.                *)
(***************************************************************************)
EXTENDS Naturals, Sequences

CONSTANTS Limit, Events

VARIABLES queue,     \* the events not taken yet, the oldest first
          done       \* the operation made last and its event

Did(op, e) == [op |-> op, event |-> e]

Init == /\ queue = << >>
        /\ \E e \in Events : done = Did("clear", e)

Put(e) == /\ queue' = IF Len(queue) = Limit THEN Append(Tail(queue), e)
                                            ELSE Append(queue, e)
          /\ done' = Did("push", e)

Take == /\ queue # << >>
        /\ queue' = Tail(queue)
        /\ done' = Did("pop", Head(queue))

Forget == /\ queue' = << >>
          /\ done' = [done EXCEPT !.op = "clear"]

Next == (\E e \in Events : Put(e)) \/ Take \/ Forget

Spec == Init /\ [][Next]_<<queue, done>>

=============================================================================
