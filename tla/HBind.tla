-------------------------------- MODULE HBind --------------------------------
(* Evaluation in steps: the result of a step is computed once, however often  *)
(* the steps after it refer to it.                                            *)
EXTENDS SequencesExt

(* Steps(value). *)
Bind(value, Steps(_)) == CHOOSE result \in {Steps(v) : v \in {value}} : TRUE

(* The next step of something that may have failed. *)
Then(value, Step(_)) == Bind(value, LAMBDA v : IF v.ok THEN Step(v) ELSE v)

(* The steps of a sequence, one after the other, as FoldLeft takes them. *)
Fold(Step(_, _), start, seq) ==
  LET after[i \in 0 .. Len(seq)] ==
        IF i = 0 THEN start ELSE Bind(after[i - 1], LAMBDA a : Step(a, seq[i]))
  IN  after[Len(seq)]
=============================================================================
