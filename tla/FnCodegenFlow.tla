--------------------------- MODULE FnCodegenFlow ---------------------------
(***************************************************************************)
(* FnCodegen implements StructuredFlow: what can be reached in the blocks  *)
(* is what can be reached in the source.  Auxiliary variables follow the   *)
(* state and constrain nothing: `reached' holds the blocks that the        *)
(* branches made so far connect to the entry of their function, `open' the *)
(* constructs around the insertion point, as StructuredFlow sees them, and *)
(* `jump' tells a break from the other jumps.                              *)
(***************************************************************************)
EXTENDS FnCodegen

VARIABLES reached, open, jump

(* what the branches connect to the entries of the functions *)
Reachable ==
  LET Closure[S \in SUBSET Block] ==
        LET more == S \cup Successors(S) IN IF more = S THEN S ELSE Closure[more]
  IN  Closure[{fns[f].entry : f \in Fn}]

(***************************************************************************)
(* The refinement mapping.                                                 *)
(***************************************************************************)
Alive(b) == b = 0 \/ b \in reached

Branched == Successors(Block)

(* the branches of a frame that are still to be walked, as far as their    *)
(* conditions have been                                                    *)
Waiting(frame) ==
  LET Waits(p) == p.in = "stmts" /\ Landing(p.hops) \in Branched
      parts == SelectSeq(frame.parts, Waits)
  IN  [i \in DOMAIN parts |-> Alive(Landing(parts[i].hops))]

(* the conditions of a frame that are still to be walked to their end *)
Conds(frame) ==
  Cardinality({i \in DOMAIN frame.parts : frame.parts[i].in = "expr"})
    + IF frame.in = "expr" /\ frame.kind # "landor" THEN 1 ELSE 0

Construct(frame) ==
  LET last == frame.parts[Len(frame.parts)]
  IN  CASE frame.kind = "fn" ->
             [kind |-> "fn", conds |-> 0, waiting |-> <<>>, out |-> Alive(frame.from)]
        [] frame.kind \in {"loop", "while", "for"} ->
             [kind |-> "loop", conds |-> Conds(frame), waiting |-> <<>>,
              out |-> Alive(Landing(last.hops))]
        [] OTHER ->
             [kind |-> "select", conds |-> Conds(frame), waiting |-> Waiting(frame),
              out |-> Alive(Landing(last.hops))]

Constructs == [i \in DOMAIN ctl |-> Construct(ctl[i])]

FlowInit == Init /\ reached = Reachable /\ open = Constructs /\ jump = "none"

FlowNext ==
  /\ \/ Break /\ jump' = "break"
     \/ (Continue \/ Return) /\ jump' = "away"
     \/ Structure /\ jump' = "none"
  /\ reached' = Reachable'
  /\ open' = Constructs'

FlowSpec == FlowInit /\ [][FlowNext]_<<vars, reached, open, jump>>

Flow == INSTANCE StructuredFlow WITH live <- Alive(ip)

(* The branches generated for loops, conditions, break, continue, return   *)
(* and inner functions give every place the reachability its source has:   *)
(* what follows a break or a return is dead until a construct ends that    *)
(* control can leave another way.                                          *)
ImplementsStructuredFlow == Flow!Spec
=============================================================================
