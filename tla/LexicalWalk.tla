---------------------------- MODULE LexicalWalk ----------------------------
(***************************************************************************)
(* The two passes of walk() (IR_generator.cpp) and the names they give to  *)
(* functions.                                                              *)
(*                                                                         *)
(* Pass 1 declares every function, pass 2 generates its body.  The name a  *)
(* function gets in the module is made of the lexical bodies around it,    *)
(* functions by their name and blocks by a number that a counter hands     *)
(* out during each pass.  Pass 2 therefore finds what pass 1 declared only *)
(* if the two passes meet the same lexical bodies in the same order,       *)
(* although many handlers return at once in pass 1, and others in pass 2.  *)
(*                                                                         *)
(* The tree being walked is arbitrary; it is kept as the sequence of its   *)
(* lexical bodies' beginnings and ends.  Methods, which are named after    *)
(* the scope of their struct, are left out.                                *)
(***************************************************************************)
EXTENDS Naturals, Sequences, SequencesExt

CONSTANTS
  EmitMain,  (* the ways the compiler is run: TRUE is with -main           *)
  FnName,
  MaxLen     (* bound: beginnings and ends of lexical bodies               *)

ASSUME OptionAssumption == EmitMain \subseteq BOOLEAN
(* an identifier is no number *)
ASSUME NameAssumption == FnName \cap Nat = {}
ASSUME BoundAssumption == MaxLen \in Nat

VARIABLES
  emitMain, (* genv.emit_main                                              *)
  mode,    (* "build", "walk", "done" or "failed"                          *)
  ast,     (* the lexical bodies, in the order of the source               *)
  nest,    (* build: the bodies that are open, as indices of ast           *)
  pass,    (* walk_pass                                                    *)
  pc,      (* the next element of ast                                      *)
  scopes,  (* lexical_scope_stack: the bodies around it that are walked    *)
  skipped, (* the bodies around it that are not, all inside the others     *)
  count,   (* curr_lexical_count                                           *)
  first,   (* first_lexical_count                                          *)
  named    (* per pass, the name given to each function: index -> name     *)

source == <<emitMain, ast, nest>>
vars == <<emitMain, mode, ast, nest, pass, pc, scopes, skipped, count, first, named>>

(***************************************************************************)
(* Kinds of bodies.                                                        *)
(*   "fn"       the body of a function                                     *)
(*   "generic"  the body of a generic function                             *)
(*   "block"    a statement block of its own                               *)
(*   "branch"   the body of a loop, a for, a while, of a branch of an if,  *)
(*              or of an ife that is a statement or the operand of print   *)
(*   "value"    the body of an ife inside a let, an assignment, a return,  *)
(*              a condition or a larger expression                         *)
(***************************************************************************)
Kind == {"fn", "generic", "block", "branch", "value"}
Element(kind, name, within) == [kind |-> kind, name |-> name, within |-> within]
End == Element("end", 0, 0)

Init ==
  /\ emitMain \in EmitMain
  /\ mode = "build"
  /\ ast = <<>>
  /\ nest = <<>>
  /\ pass = 1
  /\ pc = 1
  /\ scopes = <<>>
  /\ skipped = 0
  /\ count = 0
  /\ first = 0
  /\ named = <<>>

(***************************************************************************)
(* The source.                                                             *)
(***************************************************************************)
Innermost == IF nest = <<>> THEN 0 ELSE Last(nest)

UnchangedWalk == UNCHANGED <<pass, pc, scopes, skipped, count, first, named>>

Add(kind, name) ==
  /\ mode = "build" /\ UNCHANGED <<emitMain, mode>>
  /\ Len(ast) + Len(nest) + 2 <= MaxLen
  /\ ast' = Append(ast, Element(kind, name, Innermost))
  /\ nest' = Append(nest, Len(ast) + 1)
  /\ UnchangedWalk

(* make_fn_proto refuses a second function of a name in one scope *)
AddFunction(kind, name) ==
  /\ \A i \in DOMAIN ast : ast[i].name = name => ast[i].within # Innermost
  /\ Add(kind, name)

AddBlock == Add("block", 0)

AddBranch == Add("branch", 0)

AddValue == Add("value", 0)

EndBody ==
  /\ mode = "build" /\ UNCHANGED <<emitMain, mode>>
  /\ nest # <<>>
  /\ ast' = Append(ast, End)
  /\ nest' = Front(nest)
  /\ UnchangedWalk

(* yyparse has returned; llvm_codegen_begin *)
BeginWalk ==
  /\ mode = "build" /\ nest = <<>>
  /\ mode' = "walk"
  /\ UNCHANGED source /\ UnchangedWalk

(***************************************************************************)
(* The walk.                                                               *)
(***************************************************************************)
(* curr_fn is not null *)
InFunction == emitMain \/ \E i \in DOMAIN scopes : scopes[i].kind = "fn"

(* walk_loop, walk_for, walk_while and walk_if go straight to the bodies   *)
(* in pass 1, and nowhere without a function in pass 2                     *)
BranchWalked == pass = 1 \/ InFunction

(* walk_letbind, walk_assign, walk_ret and walk_expr return at once in     *)
(* pass 1                                                                  *)
ValueWalked == pass = 2 /\ InFunction

(* walk_fn_define_full_withsym_generic is never asked for one              *)
GenericWalked == FALSE

Enters(kind) ==
  CASE kind = "branch" -> BranchWalked
    [] kind = "value" -> ValueWalked
    [] kind = "generic" -> GenericWalked
    [] OTHER -> TRUE

(* mutant: blocks are not told apart *)
MangledUnnumbered(name) ==
  Append([i \in DOMAIN scopes |-> IF scopes[i].kind = "fn" THEN scopes[i].name ELSE 0], name)

(* mangling_function_name: a block by its id, a function by its name       *)
Mangled(name) ==
  Append([i \in DOMAIN scopes |-> IF scopes[i].kind = "fn" THEN scopes[i].name
                                  ELSE scopes[i].id], name)

(* mutant: the ids are handed out to functions only *)
CountsOnlyFunctions(kind) == skipped = 0 /\ Enters(kind) /\ (kind = "fn" \/ pass = 2)

(* walk_lexical_body counts every body it is called for *)
Counts(kind) == skipped = 0 /\ Enters(kind)

AtBody == mode = "walk" /\ pc <= Len(ast) /\ ast[pc] # End
AtEnd == mode = "walk" /\ pc <= Len(ast) /\ ast[pc] = End

(* walk_fn_declare_full_withsym, then walk_lexical_body *)
EnterBody ==
  /\ AtBody /\ Counts(ast[pc].kind)
  /\ LET e == ast[pc]
     IN  /\ scopes' = Append(scopes, [kind |-> e.kind, name |-> e.name, id |-> count + 1])
         /\ named' = IF e.kind = "fn"
                       THEN Append(named, [pass |-> pass, at |-> pc, as |-> Mangled(e.name)])
                       ELSE named
  /\ count' = count + 1
  /\ pc' = pc + 1
  /\ UNCHANGED <<mode, source, pass, skipped, first>>

SkipBody ==
  /\ AtBody /\ ~Counts(ast[pc].kind)
  /\ skipped' = skipped + 1
  /\ pc' = pc + 1
  /\ UNCHANGED <<mode, source, pass, scopes, count, first, named>>

(* the scope is popped *)
LeaveBody ==
  /\ AtEnd /\ skipped = 0
  /\ scopes' = Front(scopes)
  /\ pc' = pc + 1
  /\ UNCHANGED <<mode, source, pass, skipped, count, first, named>>

LeaveSkipped ==
  /\ AtEnd /\ skipped > 0
  /\ skipped' = skipped - 1
  /\ pc' = pc + 1
  /\ UNCHANGED <<mode, source, pass, scopes, count, first, named>>

(* mutant: the counter runs on *)
SecondPassCountingOn ==
  /\ mode = "walk" /\ pc > Len(ast) /\ pass = 1
  /\ first' = count
  /\ pass' = 2
  /\ pc' = 1
  /\ UNCHANGED <<mode, source, scopes, skipped, count, named>>

(* the loop of walk() *)
SecondPass ==
  /\ mode = "walk" /\ pc > Len(ast) /\ pass = 1
  /\ first' = count
  /\ count' = 0
  /\ pass' = 2
  /\ pc' = 1
  /\ UNCHANGED <<mode, source, scopes, skipped, named>>

(* "lexical count not identical in 2 pass", or on to llvm_codegen_end *)
EndWalk ==
  /\ mode = "walk" /\ pc > Len(ast) /\ pass = 2
  /\ mode' = IF first # count THEN "failed" ELSE "done"
  /\ UNCHANGED source /\ UnchangedWalk

Next ==
  \/ \E kind \in {"fn", "generic"}, name \in FnName : AddFunction(kind, name)
  \/ AddBlock \/ AddBranch \/ AddValue \/ EndBody
  \/ BeginWalk \/ EnterBody \/ SkipBody \/ LeaveBody \/ LeaveSkipped
  \/ SecondPass \/ EndWalk

Spec == Init /\ [][Next]_vars

(***************************************************************************)
(* Properties.                                                             *)
(***************************************************************************)
NameType == FnName \cup Nat
ScopeType == [kind : Kind, name : NameType, id : Nat]

TypeOK ==
  /\ mode \in {"build", "walk", "done", "failed"}
  /\ ast \in Seq([kind : Kind \cup {"end"}, name : NameType, within : Nat])
  /\ nest \in Seq(DOMAIN ast)
  /\ pass \in {1, 2}
  /\ pc \in 1 .. Len(ast) + 1
  /\ scopes \in Seq(ScopeType) /\ skipped \in Nat
  /\ count \in 0 .. Len(ast) /\ first \in 0 .. Len(ast)
  /\ named \in Seq([pass : {1, 2}, at : DOMAIN ast, as : Seq(NameType)])

(* Different functions get different names, also functions of one name in  *)
(* different blocks or functions: a second one would be generated into the *)
(* first.                                                                  *)
FunctionNamesAreDistinct ==
  \A i, j \in DOMAIN named :
    named[i].pass = named[j].pass /\ named[i].as = named[j].as =>
      named[i].at = named[j].at

(* A body that one pass only descends into: a block in a value (not in     *)
(* pass 1), a branch outside of functions (not in pass 2), a generic       *)
(* function's is in neither.                                               *)
Encloses(k, i) ==
  ast[k] # End /\ \A j \in k + 1 .. i : ast[j] # End => ast[j].within >= k
InBodyOf(kinds, i) == \E k \in 1 .. i - 1 : Encloses(k, i) /\ ast[k].kind \in kinds
OnePassOnly(i) ==
  \/ ast[i].kind = "value"
  \/ ast[i].kind = "branch" /\ ~emitMain /\ ~InBodyOf({"fn", "generic"}, i)

(* Pass 2 gives a function the name under which pass 1 declared it         *)
(* (walk_fn_declare_full_withsym would declare another one), however       *)
(* blocks and functions nest, up to the first body that only one pass      *)
(* descends into.                                                          *)
SecondPassFindsPrototypes ==
  \A i \in DOMAIN named :
    named[i].pass = 2 /\ (\A k \in 1 .. named[i].at : ~OnePassOnly(k)) =>
      \E j \in DOMAIN named :
        named[j].pass = 1 /\ named[j].at = named[i].at /\ named[j].as = named[i].as

(* The two passes count the same lexical bodies (IR_generator.cpp:5422     *)
(* ends the compilation otherwise), in a source without such bodies.       *)
CountsAgreeOnStatements ==
  (\A k \in DOMAIN ast : ~OnePassOnly(k)) => mode # "failed"

(* The same in every source.                                               *)
LexicalCountsAgree == mode # "failed"
=============================================================================
