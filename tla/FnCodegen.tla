----------------------------- MODULE FnCodegen -----------------------------
(***************************************************************************)
(* The second walk of the code generator (IR_generator.cpp), as far as     *)
(* control flow goes: functions, basic blocks, branches, loops, labels.    *)
(*                                                                         *)
(* The walk is a recursive descent over the syntax tree.  Its C++ stack is *)
(* `ctl': one frame per open function or control construct, with what the  *)
(* walker still has to emit for it.  The source program is not fixed: at   *)
(* every place the walk may meet any statement the grammar allows there.   *)
(* Instructions other than terminators, operand values and types are left  *)
(* out; a condition may go either way.                                     *)
(*                                                                         *)
(* Without `-main' functions sit at top level, where no statement          *)
(* generates code (curr_fn is null); with `-main' the statements of the    *)
(* file are the body of a generated main.                                  *)
(***************************************************************************)
EXTENDS Naturals, Sequences, FiniteSets

CONSTANTS
  EmitMain,      (* the compiler was run with -main                        *)
  Label,         (* label names                                            *)
  SharedLabels,  (* sources may use one label name in two functions        *)
  InnerBreaks,   (* sources may break out of a loop around their function  *)
  Valued,        (* the functions of the sources: FALSE returns nothing    *)
  MaxConds,      (* bound: conditions of one if                            *)
  MaxNode        (* bound: statements and constructs walked                *)

ASSUME OptionAssumption ==
  EmitMain \in BOOLEAN /\ SharedLabels \in BOOLEAN /\ InnerBreaks \in BOOLEAN
    /\ Valued \subseteq BOOLEAN
ASSUME BoundAssumption == MaxConds \in Nat \ {0} /\ MaxNode \in Nat

VARIABLES
  ir,        (* the blocks: their function, their terminators              *)
  phis,      (* the phi instructions: where, and the blocks they name      *)
  ip,        (* the block the IRBuilder inserts into; 0: none              *)
  currFn,    (* curr_fn, curr_fn_node; 0: none                             *)
  fnStack,   (* curr_fn_stack                                              *)
  withRet,   (* g_with_ret_value                                           *)
  labelMap,  (* label_map; 0: no block yet                                 *)
  loops,     (* g_loop_controls                                            *)
  fns,       (* the functions: blocks, and history of what they contain    *)
  ctl,       (* the walker's call stack                                    *)
  nodes,     (* nodes walked so far                                        *)
  phase      (* "walk", "done" or "failed" (caerror exits)                 *)

vars == <<ir, phis, ip, currFn, fnStack, withRet, labelMap, loops, fns, ctl,
          nodes, phase>>

(***************************************************************************)
(* Blocks.  A block is its number in the order of creation.  `fn' is the   *)
(* function that owns it, 0 as long as it is inserted nowhere; `out' lists *)
(* the targets of each terminator appended to it.                          *)
(***************************************************************************)
Block == 1 .. Len(ir.fn)
Fn == 1 .. Len(fns)

(* gen_bb, n times *)
NewBlocks(n) == [fn  |-> ir.fn \o [i \in 1 .. n |-> 0],
                 out |-> ir.out \o [i \in 1 .. n |-> <<>>]]

(* CreateBr, CreateCondBr at the end of block b *)
Branch(m, b, targets) == [m EXCEPT !.out[b] = Append(@, targets)]

(* curr_fn->getBasicBlockList().push_back(b) *)
Insert(m, b, f) == [m EXCEPT !.fn[b] = f]

(***************************************************************************)
(* A construct is generated in parts.  Where one part ends, the walker     *)
(* makes one or more hops, each a branch from the insertion block, to      *)
(* `to', and the insertion of the block `at', which becomes the insertion  *)
(* block.  `in' says what source the part holds, `loop' what happens to    *)
(* g_loop_controls.                                                        *)
(***************************************************************************)
Hop(to, at) == [to |-> to, at |-> at]
Part(hops, in) == [hops |-> hops, in |-> in, loop |-> <<>>]
LoopBody(hops, cond, out) ==
  [hops |-> hops, in |-> "stmts", loop |-> <<[cond |-> cond, out |-> out]>>]
Last(hops) == Part(hops, "after")

Source(hops, i) == IF i = 1 THEN ip ELSE hops[i - 1].at

Jump(m, hops) ==
  [fn  |-> [b \in DOMAIN m.fn |->
              IF \E i \in DOMAIN hops : hops[i].at = b THEN currFn ELSE m.fn[b]],
   out |-> [b \in DOMAIN m.out |->
              IF \E i \in DOMAIN hops : Source(hops, i) = b
                THEN Append(m.out[b],
                       hops[CHOOSE i \in DOMAIN hops : Source(hops, i) = b].to)
                ELSE m.out[b]]]

Landing(hops) == hops[Len(hops)].at

(***************************************************************************)
(* Frames.                                                                 *)
(***************************************************************************)
Frame(kind, in, parts, from) ==
  [kind |-> kind, in |-> in, parts |-> parts, from |-> from, fn |-> 0]

(* walk_fn_define_full_withsym_generic: `from' holds saved_insert_bb *)
FnFrame(f, saved) ==
  [kind |-> "fn", in |-> "stmts", parts |-> <<>>, from |-> saved, fn |-> f]

Top == ctl[Len(ctl)]
Outer == SubSeq(ctl, 1, Len(ctl) - 1)

(* the function whose body is being walked: 0 at top level *)
FnFrames == {i \in 1 .. Len(ctl) : ctl[i].kind = "fn"}
Enclosing == IF FnFrames = {} THEN IF EmitMain THEN 1 ELSE 0
             ELSE ctl[CHOOSE i \in FnFrames : \A j \in FnFrames : j <= i].fn

Walking == phase = "walk" /\ UNCHANGED phase

(* the place being walked may hold an expression with control flow in it *)
ExpressionPlace ==
  IF ctl = <<>> THEN EmitMain ELSE Top.in \in {"stmts", "expr"}

DefinitionPlace == IF ctl = <<>> THEN TRUE ELSE Top.in = "stmts"

StatementPlace == IF ctl = <<>> THEN EmitMain ELSE Top.in = "stmts"

Visit == nodes < MaxNode /\ nodes' = nodes + 1

UnchangedFn == UNCHANGED <<currFn, fnStack, withRet, fns>>

(* the head of a construct: the first part is entered at once *)
Begin(kind, n, parts, from) ==
  /\ Walking /\ Visit
  /\ ir' = Jump(NewBlocks(n), parts[1].hops)
  /\ ip' = Landing(parts[1].hops)
  /\ loops' = loops \o parts[1].loop
  /\ ctl' = Append(ctl, Frame(kind, parts[1].in, Tail(parts), from))
  /\ UNCHANGED <<phis, labelMap>> /\ UnchangedFn

(* the blocks a construct is about to create *)
New(i) == Len(ir.fn) + i

(***************************************************************************)
(* Initial state (llvm_codegen_begin): with -main, function 1 is main, its *)
(* blocks are the entry, 1, and the return block, 2.                       *)
(***************************************************************************)
Function(entry, ret, valued) ==
  [entry |-> entry, ret |-> ret, valued |-> valued, final |-> "open",
   returns |-> FALSE, inner |-> FALSE, defs |-> {}, uses |-> {}]

Init ==
  /\ ir = IF EmitMain THEN [fn |-> <<1, 0>>, out |-> << <<>>, <<>> >>]
                      ELSE [fn |-> <<>>, out |-> <<>>]
  /\ fns = IF EmitMain THEN <<Function(1, 2, TRUE)>> ELSE <<>>
  /\ ip = IF EmitMain THEN 1 ELSE 0
  /\ currFn = IF EmitMain THEN 1 ELSE 0
  /\ phis = {}
  /\ fnStack = <<>>
  /\ withRet = FALSE
  /\ labelMap = [l \in Label |-> 0]
  /\ loops = <<>>
  /\ ctl = <<>>
  /\ nodes = 0
  /\ phase = "walk"

(***************************************************************************)
(* Functions.                                                              *)
(***************************************************************************)

(* walk_fn_define_full_withsym_generic up to the walk of the body *)
EnterFunction(valued) ==
  /\ Walking /\ Visit
  /\ DefinitionPlace
  /\ LET f == Len(fns) + 1
         ret == New(1)
         entry == New(2)
     IN  /\ ir' = Insert(NewBlocks(2), entry, f)
         /\ ip' = entry
         /\ fns' = Append(fns, Function(entry, ret, valued))
         /\ currFn' = f
         /\ ctl' = Append(ctl, FnFrame(f, ip))
  /\ fnStack' = Append(fnStack, currFn)
  /\ withRet' = FALSE
  /\ UNCHANGED <<phis, labelMap, loops>>

(* generate_final_return *)
FinalReturn(f) ==
  IF ~fns[f].valued THEN "void"
  ELSE IF withRet THEN "slot"
  ELSE IF EmitMain THEN "default" ELSE "rejected"

(* caerror: "There is no return value in function" *)
RejectFunction ==
  /\ phase = "walk" /\ ctl # <<>> /\ Top.kind = "fn"
  /\ FinalReturn(Top.fn) = "rejected"
  /\ phase' = "failed"
  /\ fns' = [fns EXCEPT ![Top.fn].final = "rejected"]
  /\ UNCHANGED <<ir, phis, ip, currFn, fnStack, withRet, labelMap, loops, ctl,
                 nodes>>

(* the return block, and the ret instruction in it *)
Finish(f) ==
  LET ret == fns[f].ret
  IN  Branch(Insert(Branch(ir, ip, {ret}), ret, f), ret, {})

(* the definition around it now contains a function *)
Finished(f, final) ==
  [g \in Fn |-> CASE g = f -> [fns[g] EXCEPT !.final = final]
                  [] \E i \in FnFrames : ctl[i].fn = g /\ i < Len(ctl) /\
                       \A j \in FnFrames : j <= i \/ j = Len(ctl)
                       -> [fns[g] EXCEPT !.inner = TRUE]
                  [] OTHER -> fns[g]]

(* mutant: the insertion point stays in the return block *)
RestoredBlockNone == fns[Top.fn].ret

(* SetInsertPoint(main_bb), SetInsertPoint(saved_insert_bb) *)
RestoredBlock == IF EmitMain THEN 1 ELSE Top.from

(* the rest of walk_fn_define_full_withsym_generic *)
LeaveFunction ==
  /\ Walking
  /\ ctl # <<>> /\ Top.kind = "fn"
  /\ FinalReturn(Top.fn) # "rejected"
  /\ ir' = Finish(Top.fn)
  /\ fns' = Finished(Top.fn, FinalReturn(Top.fn))
  /\ ctl' = Outer
  /\ ip' = RestoredBlock
  /\ IF EmitMain
       THEN /\ currFn' = 1
            /\ UNCHANGED fnStack
       ELSE /\ currFn' = fnStack[Len(fnStack)]
            /\ fnStack' = SubSeq(fnStack, 1, Len(fnStack) - 1)
  /\ UNCHANGED <<phis, withRet, labelMap, loops, nodes>>

(* the end of the file (llvm_codegen_end) *)
EndUnit ==
  /\ phase = "walk" /\ ctl = <<>>
  /\ phase' = "done"
  /\ ir' = IF EmitMain THEN Finish(1) ELSE ir
  /\ fns' = IF EmitMain THEN [fns EXCEPT ![1].final = "slot"] ELSE fns
  /\ UNCHANGED <<phis, ip, currFn, fnStack, withRet, labelMap, loops, ctl, nodes>>

(***************************************************************************)
(* Statements that divert control: a branch, and a fresh block for what    *)
(* follows, "to avoid verify error of 'Terminator found in the middle of a *)
(* basic block!'".  (Mutant: no fresh block.)                              *)
(***************************************************************************)
DivertNoBlock(m, targets, extra) ==
  /\ ir' = Branch(m, ip, targets)
  /\ ip' = ip

Divert(m, targets, extra) ==
  /\ ir' = Insert(Branch(m, ip, targets), extra, currFn)
  /\ ip' = extra

Statement == Walking /\ Visit /\ StatementPlace

InnermostLoop == loops[Len(loops)]

(* Nothing in the compiler checks that a break or continue stands in a     *)
(* loop of its own function.  Where there is none the innermost loop is    *)
(* one around the function; where there is none at all either, back() of   *)
(* an empty vector is undefined, and not considered.                       *)
InLoop ==
  /\ loops # <<>>
  /\ InnerBreaks \/ ir.fn[InnermostLoop.cond] = Enclosing

(* walk_break *)
Break ==
  /\ Statement /\ InLoop
  /\ Divert(NewBlocks(1), {InnermostLoop.out}, New(1))
  /\ UNCHANGED <<phis, labelMap, loops, ctl>> /\ UnchangedFn

(* mutant: continue leaves the loop *)
ContinueLeaves ==
  /\ Statement /\ InLoop
  /\ Divert(NewBlocks(1), {InnermostLoop.out}, New(1))
  /\ UNCHANGED <<phis, labelMap, loops, ctl>> /\ UnchangedFn

(* walk_continue *)
Continue ==
  /\ Statement /\ InLoop
  /\ Divert(NewBlocks(1), {InnermostLoop.cond}, New(1))
  /\ UNCHANGED <<phis, labelMap, loops, ctl>> /\ UnchangedFn

(* mutant: the flag is not set *)
ReturnNoFlag ==
  /\ Statement
  /\ Divert(NewBlocks(1), {fns[currFn].ret}, New(1))
  /\ fns' = [fns EXCEPT ![Enclosing].returns = TRUE]
  /\ UNCHANGED <<phis, currFn, fnStack, withRet, labelMap, loops, ctl>>

(* walk_ret *)
Return ==
  /\ Statement
  /\ Divert(NewBlocks(1), {fns[currFn].ret}, New(1))
  /\ withRet' = TRUE
  /\ fns' = [fns EXCEPT ![Enclosing].returns = TRUE]
  /\ UNCHANGED <<phis, currFn, fnStack, labelMap, loops, ctl>>

(***************************************************************************)
(* Labels.  The parser keeps them per function, and refuses a redefinition *)
(* there; after an inner function its curr_fn_symtable is null, so a label *)
(* cannot follow one.                                                      *)
(***************************************************************************)
LabelAllowed(l) ==
  /\ Enclosing \in Fn /\ ~fns[Enclosing].inner
  /\ SharedLabels \/ \A g \in Fn \ {Enclosing} : l \notin fns[g].defs \cup fns[g].uses

(* walk_label_goto *)
Goto(l) ==
  /\ Statement /\ LabelAllowed(l)
  /\ LET b == IF labelMap[l] # 0 THEN labelMap[l] ELSE New(1)
         n == IF labelMap[l] # 0 THEN 1 ELSE 2
     IN  /\ Divert(NewBlocks(n), {b}, New(n))
         /\ labelMap' = [labelMap EXCEPT ![l] = b]
  /\ fns' = [fns EXCEPT ![Enclosing].uses = @ \cup {l}]
  /\ UNCHANGED <<phis, currFn, fnStack, withRet, loops, ctl>>

(* walk_label; inserting a block that is in a function already corrupts    *)
(* both block lists, and is not followed further                           *)
DefineLabel(l) ==
  /\ Statement /\ LabelAllowed(l)
  /\ l \notin fns[Enclosing].defs
  /\ LET b == IF labelMap[l] # 0 THEN labelMap[l] ELSE New(1)
         n == IF labelMap[l] # 0 THEN 0 ELSE 1
     IN  /\ b \in Block => ir.fn[b] = 0
         /\ Divert(NewBlocks(n), {b}, b)
         /\ labelMap' = [labelMap EXCEPT ![l] = b]
  /\ fns' = [fns EXCEPT ![Enclosing].defs = @ \cup {l}]
  /\ UNCHANGED <<phis, currFn, fnStack, withRet, loops, ctl>>

(***************************************************************************)
(* Control constructs.                                                     *)
(***************************************************************************)

(* walk_loop *)
BeginLoop ==
  /\ StatementPlace
  /\ LET loopbb == New(1)
         endloopbb == New(2)
     IN  Begin("loop", 2,
           << LoopBody(<<Hop({loopbb}, loopbb)>>, loopbb, endloopbb),
              Last(<<Hop({loopbb}, endloopbb)>>) >>, 0)

(* walk_while *)
BeginWhile ==
  /\ StatementPlace
  /\ LET condbb == New(1)
         whilebb == New(2)
         endwhilebb == New(3)
     IN  Begin("while", 3,
           << Part(<<Hop({condbb}, condbb)>>, "expr"),
              LoopBody(<<Hop({whilebb, endwhilebb}, whilebb)>>, condbb, endwhilebb),
              Last(<<Hop({condbb}, endwhilebb)>>) >>, 0)

(* walk_for *)
BeginFor ==
  /\ StatementPlace
  /\ LET condbb == New(1)
         loopbb == New(2)
         endloopbb == New(3)
     IN  Begin("for", 3,
           << LoopBody(<<Hop({condbb}, condbb), Hop({loopbb, endloopbb}, loopbb)>>,
                       condbb, endloopbb),
              Last(<<Hop({condbb}, endloopbb)>>) >>, 0)

(* walk_if_common2: n conditions, and an else or not; the first condition  *)
(* has been evaluated                                                      *)
BeginIf(n, else) ==
  /\ StatementPlace
  /\ LET bodies == IF else THEN n + 1 ELSE n
         condbb(i) == New(i)
         bodybb(i) == New(n + i)
         outbb == New(n + bodies + 1)
         test(i) == Hop({bodybb(i), condbb(i)}, condbb(i))
         otherwise == IF else THEN bodybb(n + 1) ELSE outbb
     IN  Begin("if", n + bodies + 1,
           [i \in 1 .. n - 1 |-> Part(<<test(i)>>, "expr")]
           \o << Part(<<test(n), Hop({otherwise}, bodybb(1))>>, "stmts") >>
           \o [i \in 1 .. bodies - 1 |-> Part(<<Hop({outbb}, bodybb(i + 1))>>, "stmts")]
           \o << Last(<<Hop({outbb}, outbb)>>) >>, 0)

(* walk_if_common: ife *)
BeginIfe ==
  /\ ExpressionPlace
  /\ LET thenbb == New(1)
         outbb == New(2)
         elsebb == New(3)
     IN  Begin("ife", 3,
           << Part(<<Hop({thenbb, elsebb}, thenbb)>>, "stmts"),
              Part(<<Hop({outbb}, elsebb)>>, "stmts"),
              Last(<<Hop({outbb}, outbb)>>) >>, 0)

(* walk_expr_landor: && and ||; `from' is v1bb *)
BeginLandOr ==
  /\ ExpressionPlace
  /\ LET thenbb == New(1)
         outbb == New(2)
     IN  Begin("landor", 2,
           << Part(<<Hop({thenbb, outbb}, thenbb)>>, "expr"),
              Last(<<Hop({outbb}, outbb)>>) >>, ip)

NextPart == Head(Top.parts)
Pending == phase = "walk" /\ ctl # <<>> /\ Top.parts # <<>>

(* a part of a construct ends, and another follows *)
EndPart ==
  /\ Pending /\ NextPart.in # "after"
  /\ ir' = Jump(ir, NextPart.hops)
  /\ ip' = Landing(NextPart.hops)
  /\ loops' = loops \o NextPart.loop
  /\ ctl' = Append(Outer, [Top EXCEPT !.in = NextPart.in, !.parts = Tail(@)])
  /\ UNCHANGED <<phis, labelMap, nodes, phase>> /\ UnchangedFn

(* mutant: the block of the second operand is taken to be thenbb *)
IncomingThenBlock == {Top.from, Landing(NextPart.hops) - 1}

(* the incoming blocks of the phi of && or ||: v1bb, and where the second  *)
(* operand ended                                                           *)
Incoming == {Top.from, ip}

(* the last part ends, and the construct with it *)
EndConstruct ==
  /\ Pending /\ NextPart.in = "after"
  /\ ir' = Jump(ir, NextPart.hops)
  /\ ip' = Landing(NextPart.hops)
  /\ loops' = IF Top.kind \in {"loop", "while", "for"}
                THEN SubSeq(loops, 1, Len(loops) - 1) ELSE loops
  /\ phis' = IF Top.kind = "landor"
               THEN phis \cup {[at |-> ip', in |-> Incoming]} ELSE phis
  /\ ctl' = Outer
  /\ UNCHANGED <<labelMap, nodes, phase>> /\ UnchangedFn

(* whatever is not a jump out of the place being walked *)
Structure ==
  \/ \E valued \in Valued : EnterFunction(valued)
  \/ RejectFunction \/ LeaveFunction \/ EndUnit
  \/ \E l \in Label : Goto(l) \/ DefineLabel(l)
  \/ BeginLoop \/ BeginWhile \/ BeginFor
  \/ \E n \in 1 .. MaxConds, else \in BOOLEAN : BeginIf(n, else)
  \/ BeginIfe \/ BeginLandOr
  \/ EndPart \/ EndConstruct

Next == Break \/ Continue \/ Return \/ Structure

Spec == Init /\ [][Next]_vars

(***************************************************************************)
(* Properties.                                                             *)
(***************************************************************************)
BlockOrNone == 0 .. Len(ir.fn)
HopType == [to : SUBSET Block, at : Block]
LoopType == [cond : Block, out : Block]
PartType == [hops : Seq(HopType), in : {"stmts", "expr", "after"}, loop : Seq(LoopType)]
FrameType == [kind : {"fn", "loop", "while", "for", "if", "ife", "landor"},
              in : {"stmts", "expr"}, parts : Seq(PartType), from : BlockOrNone,
              fn : 0 .. Len(fns)]
FunctionType == [entry : Block, ret : Block, valued : BOOLEAN,
                 final : {"open", "void", "slot", "default", "rejected"},
                 returns : BOOLEAN, inner : BOOLEAN,
                 defs : SUBSET Label, uses : SUBSET Label]

TypeOK ==
  /\ ir.fn \in Seq(0 .. Len(fns))
  /\ ir.out \in Seq(Seq(SUBSET Block)) /\ Len(ir.out) = Len(ir.fn)
  /\ phis \subseteq [at : Block, in : SUBSET Block]
  /\ ip \in BlockOrNone
  /\ currFn \in 0 .. Len(fns)
  /\ fnStack \in Seq(0 .. Len(fns))
  /\ withRet \in BOOLEAN
  /\ labelMap \in [Label -> BlockOrNone]
  /\ loops \in Seq(LoopType)
  /\ fns \in Seq(FunctionType)
  /\ ctl \in Seq(FrameType)
  /\ nodes \in Nat
  /\ phase \in {"walk", "done", "failed"}

(* Wherever the walk stands, instructions go into an unterminated block of *)
(* the function whose body is being walked: not into a block of a function *)
(* around it or inside it, and not behind a branch.                        *)
InsertionPointInBody ==
  phase = "walk" /\ Enclosing # 0 =>
    ir.fn[ip] = Enclosing /\ ir.out[ip] = <<>> /\ currFn = Enclosing

Body(f) == {b \in Block : ir.fn[b] = f}
Successors(S) == UNION {UNION {ir.out[b][i] : i \in DOMAIN ir.out[b]} : b \in S}

Complete(f) == fns[f].final \in {"void", "slot", "default"} /\ fns[f].uses \subseteq fns[f].defs

(* A function that has been generated passes the verifier (verifyFunction  *)
(* reports, and compilation goes on): every block ends in its only         *)
(* terminator, branches stay inside the function, and nothing branches to  *)
(* the entry.                                                              *)
FinishedFunctionsVerify ==
  \A f \in Fn : Complete(f) =>
    /\ \A b \in Body(f) : Len(ir.out[b]) = 1
    /\ Successors(Body(f)) \subseteq Body(f) \ {fns[f].entry}
    /\ {fns[f].entry, fns[f].ret} \subseteq Body(f)

(* Every phi of a finished function names exactly the predecessors of its  *)
(* block, whatever control flow the operands of && and || contain.         *)
PhisNamePredecessors ==
  \A p \in phis :
    Complete(ir.fn[p.at]) =>
      p.in = {b \in Block : \E i \in DOMAIN ir.out[b] : p.at \in ir.out[b][i]}

(* generate_final_return trusts g_with_ret_value.  For a function with no  *)
(* function inside it that is right: the slot is returned exactly if the   *)
(* body has a return.                                                      *)
PlainFunctionReturnsOwnValue ==
  \A f \in Fn : fns[f].valued /\ ~fns[f].inner /\ (EmitMain => f # 1) =>
    /\ fns[f].final = "slot" => fns[f].returns
    /\ fns[f].final \in {"rejected", "default"} => ~fns[f].returns

(* With -main, the definition of a plain function does not disturb the     *)
(* top-level code around it: what follows goes into an unterminated block. *)
TopLevelCodeContinues ==
  EmitMain /\ phase = "walk" /\ ctl = <<>> /\ (\A f \in Fn : ~fns[f].inner) =>
    ir.out[ip] = <<>>

(* The same of every function: one is rejected for having no return value  *)
(* (IR_generator.cpp:4567) exactly if it has none.                         *)
RejectedIfNoReturn ==
  \A f \in Fn : fns[f].valued /\ fns[f].final # "open" =>
    (fns[f].final = "rejected" <=> ~fns[f].returns)

(* No block of a function branches to a block of another.                  *)
BranchesStayInFunction ==
  \A b \in Block : ir.fn[b] # 0 =>
    \A t \in Successors({b}) : ir.fn[t] \in {0, ir.fn[b]}
=============================================================================
