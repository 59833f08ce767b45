--------------------------- MODULE StructuredFlow ---------------------------
(***************************************************************************)
(* What the code generator promises about control flow: where control can  *)
(* get, said of the statements themselves.  There are no blocks and no     *)
(* branches, only one bit, `live': control can reach the place that is     *)
(* being compiled, taking both ways of every condition as possible.        *)
(***************************************************************************)
EXTENDS Naturals, Sequences

CONSTANT MaxConds   (* bound: conditions of one if                          *)

VARIABLES
  live,   (* the place being compiled can be reached                       *)
  open,   (* the constructs around it, the innermost last                  *)
  jump    (* the last statement: "break", "away" (another jump) or "none"  *)

flowVars == <<live, open, jump>>

(* `conds': conditions still to be evaluated; `waiting': for each branch   *)
(* whose condition has been compiled, whether it can be entered; `out':    *)
(* whether the end of the construct is known to be reached                 *)
Construct(kind, conds, waiting, out) ==
  [kind |-> kind, conds |-> conds, waiting |-> waiting, out |-> out]

Top == open[Len(open)]
Outer == SubSeq(open, 1, Len(open) - 1)
Become(c) == Append(Outer, c)

Init == live = TRUE /\ open = <<>> /\ jump = "none"

(* a function can be called, whatever surrounds its definition *)
EnterFunction ==
  /\ open' = Append(open, Construct("fn", 0, <<>>, live))
  /\ live' = TRUE

LeaveFunction ==
  /\ open # <<>> /\ Top.kind = "fn"
  /\ open' = Outer
  /\ live' = Top.out

(* control leaves an endless loop only through a break *)
BeginLoop ==
  /\ open' = Append(open, Construct("loop", 0, <<>>, FALSE))
  /\ UNCHANGED live

(* a range or an array may be empty *)
BeginFor ==
  /\ open' = Append(open, Construct("loop", 0, <<>>, live))
  /\ UNCHANGED live

BeginWhile ==
  /\ open' = Append(open, Construct("loop", 1, <<>>, FALSE))
  /\ UNCHANGED live

(* one of n branches, or of n + 1 with an else; the second operand of a    *)
(* logical operator is a branch without an else                            *)
BeginSelect(n, else) ==
  /\ open' = Append(open,
       IF n > 1 THEN Construct("select", n - 1, <<live>>, FALSE)
       ELSE Construct("select", 0, IF else THEN <<live>> ELSE <<>>, live /\ ~else))
  /\ UNCHANGED live

(* the last condition of a while, or a condition that is not the last *)
EndCondition ==
  /\ open # <<>> /\ Top.conds > 0
  /\ \/ /\ Top.kind = "loop"
        /\ open' = Become([Top EXCEPT !.conds = 0, !.out = live])
     \/ /\ Top.kind = "select" /\ Top.conds > 1
        /\ open' = Become([Top EXCEPT !.conds = @ - 1, !.waiting = Append(@, live)])
  /\ UNCHANGED live

(* the last condition of an if: on to the first branch *)
EndConditions(else) ==
  /\ open # <<>> /\ Top.kind = "select" /\ Top.conds = 1
  /\ live' = Head(Top.waiting)
  /\ open' = Become([Top EXCEPT
       !.conds = 0,
       !.waiting = Tail(@) \o (IF else THEN <<live, live>> ELSE <<live>>),
       !.out = live /\ ~else])

EndBranch ==
  /\ open # <<>> /\ Top.kind = "select" /\ Top.conds = 0 /\ Top.waiting # <<>>
  /\ live' = Head(Top.waiting)
  /\ open' = Become([Top EXCEPT !.waiting = Tail(@), !.out = @ \/ live])

EndSelect ==
  /\ open # <<>> /\ Top.kind = "select" /\ Top.conds = 0 /\ Top.waiting = <<>>
  /\ live' = (Top.out \/ live)
  /\ open' = Outer

EndLoop ==
  /\ open # <<>> /\ Top.kind = "loop" /\ Top.conds = 0
  /\ live' = Top.out
  /\ open' = Outer

(* to the end of the innermost loop of the same function whose body has    *)
(* been entered: the condition of a while belongs to the loop around it    *)
Break ==
  /\ \E i \in 1 .. Len(open) :
       /\ open[i].kind = "loop" /\ open[i].conds = 0
       /\ \A j \in i + 1 .. Len(open) : open[j].kind = "select" \/ open[j].conds = 1
       /\ open' = [open EXCEPT ![i].out = @ \/ live]
  /\ live' = FALSE

(* a continue, a return *)
Divert ==
  /\ open' = open
  /\ live' = FALSE

Structure ==
  \/ EnterFunction \/ LeaveFunction
  \/ BeginLoop \/ BeginFor \/ BeginWhile
  \/ \E n \in 1 .. MaxConds, else \in BOOLEAN : BeginSelect(n, else)
  \/ EndCondition \/ \E else \in BOOLEAN : EndConditions(else)
  \/ EndBranch \/ EndSelect \/ EndLoop
  \/ UNCHANGED <<live, open>>

Next ==
  \/ Break /\ jump' = "break"
  \/ Divert /\ jump' = "away"
  \/ Structure /\ jump' = "none"

Spec == Init /\ [][Next]_flowVars
=============================================================================
