---------------------------- MODULE VarShielding ----------------------------
(***************************************************************************)
(* Variable shielding: how one symbol-table entry (STEntry) stands for all *)
(* the variables that share a name in one symbol table.                    *)
(*                                                                         *)
(* The parser (pass "build AST") appends every re-binding of a name to the *)
(* entry, so that after parsing `current' is the last variant.  The code   *)
(* generator (pass "walk") visits the same statements again and rotates    *)
(* the list as it meets each binding, so that a use of the name finds the  *)
(* variant that was in force when the use was parsed.                      *)
(*                                                                         *)
(* The module models one function: its symbol table (table 1, holding the  *)
(* parameters and the bindings of its body), the tables of the blocks in   *)
(* it, the parsing of an arbitrary body, and any number of walks of it (a  *)
(* trait's default method is walked once per implementing type).  What a   *)
(* binding binds is its number among the variants of its entry; values and *)
(* types are left out.                                                     *)
(***************************************************************************)
EXTENDS Naturals, Sequences, FiniteSets

CONSTANTS
  Name,       (* the identifiers                                           *)
  Param,      (* those that are parameters of the function                 *)
  MaxTable,   (* bound: symbol tables one function may open                *)
  MaxLen,     (* bound: statements and expressions recorded in the body    *)
  MaxWalk     (* bound: walks of the body                                  *)

ASSUME ParamAssumption == Param \subseteq Name
ASSUME BoundAssumption ==
  MaxTable \in Nat \ {0} /\ MaxLen \in Nat /\ MaxWalk \in Nat

Table == 1 .. MaxTable
Entry == Table \X Name          (* an STEntry: (symbol table, name)        *)

ParamEntry == {1} \X Param

Pattern == (SUBSET Name) \ {{}} (* the names a CAPattern binds             *)

VARIABLES
  mode,     (* "parse", "idle" (between walks) or "walk"                   *)
  frames,   (* parser: the open blocks and the open right-hand sides       *)
  ntab,     (* number of symbol tables pushed so far                       *)
  reg,      (* variants registered per entry; 0: the entry does not exist  *)
  prog,     (* the AST: what the parser recorded, in walking order         *)
  varlist,  (* CAVariableShielding.varlist                                 *)
  current,  (* CAVariableShielding.current                                 *)
  pc,       (* the next element of prog to walk                            *)
  step,     (* position inside walk_letbind                                *)
  walks,    (* completed walks                                             *)
  obs       (* the last variable the generator looked up (history)         *)

shield == <<varlist, current>>
parser == <<frames, ntab, reg, prog>>
vars == <<mode, frames, ntab, reg, prog, varlist, current, pc, step, walks, obs>>

(***************************************************************************)
(* AST elements.  `reg' is a history field: the variants registered when   *)
(* the element was parsed, i.e. what lexical scoping says is in force.     *)
(***************************************************************************)
Element(op, ents, let) ==
  [op |-> op, ents |-> ents, let |-> let, reg |-> reg]

Observation(kind, e, got, want) ==
  [kind |-> kind, ent |-> {e}, got |-> got, want |-> want]

NoObservation == [kind |-> "none", ent |-> {}, got |-> 0, want |-> 0]

(***************************************************************************)
(* The rotations of one entry (varshielding_rotate_variable).              *)
(***************************************************************************)
RotFwdList(l, c)    == IF Len(l) = 0 THEN l ELSE Append(Tail(l), c)
RotFwdCurrent(l, c) == IF Len(l) = 0 THEN c ELSE Head(l)

RotBackList(l, c)    == IF Len(l) = 0 THEN l
                        ELSE <<c>> \o SubSeq(l, 1, Len(l) - 1)
RotBackCurrent(l, c) == IF Len(l) = 0 THEN c ELSE l[Len(l)]

(* varshielding_rotate_capattern: every entry the pattern binds, as a whole *)
RotateForward(S) ==
  /\ varlist' = [e \in Entry |-> IF e \in S THEN RotFwdList(varlist[e], current[e])
                                            ELSE varlist[e]]
  /\ current' = [e \in Entry |-> IF e \in S THEN RotFwdCurrent(varlist[e], current[e])
                                            ELSE current[e]]

RotateBack(S) ==
  /\ varlist' = [e \in Entry |-> IF e \in S THEN RotBackList(varlist[e], current[e])
                                            ELSE varlist[e]]
  /\ current' = [e \in Entry |-> IF e \in S THEN RotBackCurrent(varlist[e], current[e])
                                            ELSE current[e]]

(***************************************************************************)
(* Initial state: the prototype has been parsed; each parameter is the     *)
(* first variant of its entry (add_fn_args).                               *)
(***************************************************************************)
Init ==
  /\ mode = "parse"
  /\ frames = <<[kind |-> "block", tab |-> 1, at |-> 0]>>
  /\ ntab = 1
  /\ reg = [e \in Entry |-> IF e \in ParamEntry THEN 1 ELSE 0]
  /\ prog = <<>>
  /\ varlist = [e \in Entry |-> <<>>]
  /\ current = [e \in Entry |-> IF e \in ParamEntry THEN 1 ELSE 0]
  /\ pc = 0
  /\ step = "start"
  /\ walks = 0
  /\ obs = NoObservation

(***************************************************************************)
(* Parsing.                                                                *)
(***************************************************************************)
Top == frames[Len(frames)]

(* the open frames whose table holds the name *)
Visible(n) == {i \in 1 .. Len(frames) : reg[<<frames[i].tab, n>>] > 0}

Parsing == mode = "parse" /\ UNCHANGED <<mode, pc, step, walks, obs>>

Room == Len(prog) < MaxLen

(* stmt_list_block, stmtexpr_list_block: push_new_symtable *)
OpenBlock ==
  /\ Parsing
  /\ ntab < MaxTable
  /\ ntab' = ntab + 1
  /\ frames' = Append(frames, [kind |-> "block", tab |-> ntab + 1, at |-> 0])
  /\ UNCHANGED <<reg, prog, varlist, current>>

(* make_stmtexpr_list_block: pop_symtable *)
CloseBlock ==
  /\ Parsing
  /\ Top.kind = "block" /\ Len(frames) > 1
  /\ frames' = SubSeq(frames, 1, Len(frames) - 1)
  /\ UNCHANGED <<ntab, reg, prog, varlist, current>>

(* make_ident_expr, make_assign_var: sym_getsym(curr_symtable, id, 1) finds *)
(* the entry of the innermost open table, and the node keeps it.  `let' is  *)
(* the binding whose right-hand side directly contains the use.             *)
ParseUse(n) ==
  /\ Parsing /\ Room
  /\ \E i \in Visible(n) :
       /\ \A k \in Visible(n) : k <= i
       /\ prog' = Append(prog, Element("use", {<<frames[i].tab, n>>}, Top.at))
  /\ UNCHANGED <<frames, ntab, reg, varlist, current>>

(* a call of the function inside its own body *)
ParseRecursiveCall ==
  /\ Parsing /\ Room
  /\ Param # {}
  /\ prog' = Append(prog, Element("call", ParamEntry, 0))
  /\ UNCHANGED <<frames, ntab, reg, varlist, current>>

(* mutant: the index of the let is taken before it is recorded *)
BeginLetStaleIndex(P) ==
  /\ Parsing /\ Room
  /\ Top.kind = "block"
  /\ prog' = Append(prog, Element("letbegin", {Top.tab} \X P, 0))
  /\ frames' = Append(frames, [kind |-> "let", tab |-> Top.tab, at |-> Len(prog) - 1])
  /\ UNCHANGED <<ntab, reg, varlist, current>>

(* LET pattern '=' : the pattern is known, nothing is registered yet *)
BeginLet(P) ==
  /\ Parsing /\ Room
  /\ Top.kind = "block"
  /\ prog' = Append(prog, Element("letbegin", {Top.tab} \X P, 0))
  /\ frames' = Append(frames, [kind |-> "let", tab |-> Top.tab, at |-> Len(prog) + 1])
  /\ UNCHANGED <<ntab, reg, varlist, current>>

(* mutant: the shielded variant is not kept *)
RegisterForgetting(S) ==
  /\ reg' = [e \in Entry |-> IF e \in S THEN reg[e] + 1 ELSE reg[e]]
  /\ current' = [e \in Entry |-> IF e \in S THEN reg[e] + 1 ELSE current[e]]
  /\ UNCHANGED varlist

(* register_variable for every name the pattern binds *)
Register(S) ==
  /\ reg' = [e \in Entry |-> IF e \in S THEN reg[e] + 1 ELSE reg[e]]
  /\ varlist' = [e \in Entry |-> IF e \in S /\ reg[e] > 0
                                   THEN Append(varlist[e], current[e])
                                   ELSE varlist[e]]
  /\ current' = [e \in Entry |-> IF e \in S THEN reg[e] + 1 ELSE current[e]]

(* make_let_stmt, after the right-hand side has been parsed *)
EndLet ==
  /\ Parsing
  /\ Top.kind = "let"
  /\ LET S == prog[Top.at].ents
     IN  /\ Register(S)
         /\ prog' = Append(prog, Element("letend", S, 0))
  /\ frames' = SubSeq(frames, 1, Len(frames) - 1)
  /\ UNCHANGED ntab

(* LET pattern ';' and LET pattern '=' __zero_init__ *)
ParseLetZero(P) ==
  /\ Parsing /\ Room
  /\ Top.kind = "block"
  /\ Register({Top.tab} \X P)
  /\ prog' = Append(prog, Element("letzero", {Top.tab} \X P, 0))
  /\ UNCHANGED <<frames, ntab>>

(* make_fn_def: the body is complete *)
EndParse ==
  /\ mode = "parse"
  /\ Len(frames) = 1
  /\ mode' = "idle"
  /\ UNCHANGED <<frames, ntab, reg, prog, varlist, current, pc, step, walks, obs>>

(***************************************************************************)
(* Between walks.                                                          *)
(***************************************************************************)

(* mutant: the entry is not rotated back after the read *)
ReadFormalTypeNoBack(kind, e) ==
  /\ obs' = Observation(kind, e, RotFwdCurrent(varlist[e], current[e]), 1)
  /\ varlist' = [varlist EXCEPT ![e] = RotFwdList(varlist[e], current[e])]
  /\ current' = [current EXCEPT ![e] = RotFwdCurrent(varlist[e], current[e])]

(* mutant: the type is read before the rotation *)
ReadFormalTypeUnrotated(kind, e) ==
  /\ obs' = Observation(kind, e, current[e], 1)
  /\ UNCHANGED shield

(* The type of a parameter is read by rotating its entry forward, reading, *)
(* and rotating back: the first variant, if the entry is in the state the  *)
(* parser left it in (walk_fn_declare_full_withsym, post_check_fn_proto,   *)
(* check_and_determine_param_type).                                        *)
ReadFormalType(kind, e) ==
  LET l == RotFwdList(varlist[e], current[e])
      c == RotFwdCurrent(varlist[e], current[e])
  IN  /\ obs' = Observation(kind, e, c, 1)
      /\ varlist' = [varlist EXCEPT ![e] = RotBackList(l, c)]
      /\ current' = [current EXCEPT ![e] = RotBackCurrent(l, c)]

(* declaring the function, or calling it while it is not being walked *)
ReadFormal ==
  /\ mode = "idle"
  /\ \E e \in ParamEntry : ReadFormalType("formal", e)
  /\ UNCHANGED <<mode, parser, pc, step, walks>>

(* a method call reads the type of its first parameter without rotating *)
ReadSelf ==
  /\ mode = "idle"
  /\ \E e \in ParamEntry : obs' = Observation("self", e, current[e], 1)
  /\ UNCHANGED <<mode, parser, shield, pc, step, walks>>

(* walk_fn_define_full_withsym_generic up to init_fn_param_info *)
EnterFunction ==
  /\ mode = "idle" /\ walks < MaxWalk
  /\ mode' = "walk"
  /\ pc' = 1
  /\ RotateForward(ParamEntry)
  /\ obs' = NoObservation
  /\ UNCHANGED <<parser, step, walks>>

LeaveFunction ==
  /\ mode = "walk" /\ pc > Len(prog)
  /\ mode' = "idle"
  /\ walks' = walks + 1
  /\ pc' = 0
  /\ obs' = NoObservation
  /\ UNCHANGED <<parser, shield, step>>

(***************************************************************************)
(* The walk.                                                               *)
(***************************************************************************)
At(op) == mode = "walk" /\ pc <= Len(prog) /\ prog[pc].op = op

Walking == UNCHANGED <<mode, parser, walks>>

(* walk_id *)
WalkUse ==
  /\ At("use")
  /\ \E e \in prog[pc].ents :
       obs' = Observation("use", e, current[e], prog[pc].reg[e])
  /\ pc' = pc + 1
  /\ Walking /\ UNCHANGED <<shield, step>>

(* walk_expr_call -> check_and_determine_param_type, inside the body *)
WalkRecursiveCall ==
  /\ At("call")
  /\ \E e \in prog[pc].ents : ReadFormalType("recursive", e)
  /\ pc' = pc + 1
  /\ Walking /\ UNCHANGED step

(* walk_letbind: to the variants this binding introduces *)
LetForward ==
  /\ At("letbegin") /\ step = "start"
  /\ RotateForward(prog[pc].ents)
  /\ step' = "forward"
  /\ Walking /\ UNCHANGED <<pc, obs>>

(* inference_letbind_type: back to what the right-hand side sees; once per *)
(* element of a pattern with sub-patterns                                  *)
InferBack ==
  /\ At("letbegin") /\ step \in {"forward", "typed"}
  /\ RotateBack(prog[pc].ents)
  /\ step' = "infer"
  /\ Walking /\ UNCHANGED <<pc, obs>>

(* inference_expr_type reads the names directly in the right-hand side *)
InferRead ==
  /\ At("letbegin") /\ step = "infer"
  /\ \E i \in pc + 1 .. Len(prog) :
       /\ prog[i].op = "use" /\ prog[i].let = pc
       /\ \E e \in prog[i].ents :
            obs' = Observation("use", e, current[e], prog[i].reg[e])
  /\ Walking /\ UNCHANGED <<pc, shield, step>>

(* forward again: capattern_register_variable_catype gives the type to a   *)
(* variant of this binding                                                 *)
InferForward ==
  /\ At("letbegin") /\ step = "infer"
  /\ RotateForward(prog[pc].ents)
  /\ \E e \in prog[pc].ents :
       obs' = Observation("type", e, current'[e], prog[pc].reg[e] + 1)
  /\ step' = "typed"
  /\ Walking /\ UNCHANGED pc

(* mutant: the right-hand side is walked with the pattern's new variants *)
LetWalkRightNoBack ==
  /\ At("letbegin") /\ step = "typed"
  /\ step' = "start"
  /\ pc' = pc + 1
  /\ Walking /\ UNCHANGED <<shield, obs>>

(* back, for walk_stack(exprn) *)
LetWalkRight ==
  /\ At("letbegin") /\ step = "typed"
  /\ RotateBack(prog[pc].ents)
  /\ step' = "start"
  /\ pc' = pc + 1
  /\ Walking /\ UNCHANGED obs

(* forward, then capattern_bind_value stores to the variants *)
LetBind ==
  /\ At("letend") \/ At("letzero")
  /\ RotateForward(prog[pc].ents)
  /\ \E e \in prog[pc].ents :
       obs' = Observation("bind", e, current'[e], prog[pc].reg[e] + 1)
  /\ pc' = pc + 1
  /\ Walking /\ UNCHANGED step

Next ==
  \/ OpenBlock \/ CloseBlock
  \/ \E n \in Name : ParseUse(n)
  \/ ParseRecursiveCall
  \/ \E P \in Pattern : BeginLet(P) \/ ParseLetZero(P)
  \/ EndLet \/ EndParse
  \/ ReadFormal \/ ReadSelf \/ EnterFunction \/ LeaveFunction
  \/ WalkUse \/ WalkRecursiveCall
  \/ LetForward \/ InferBack \/ InferRead \/ InferForward
  \/ LetWalkRight \/ LetBind

Spec == Init /\ [][Next]_vars

(***************************************************************************)
(* Properties.                                                             *)
(***************************************************************************)

FrameType == [kind : {"block", "let"}, tab : Table, at : Nat]
ElementType == [op : {"use", "call", "letbegin", "letend", "letzero"},
                ents : SUBSET Entry, let : Nat, reg : [Entry -> Nat]]
ObsType == [kind : {"none", "use", "type", "bind", "formal", "recursive", "self"},
            ent : SUBSET Entry, got : Nat, want : Nat]

TypeOK ==
  /\ mode \in {"parse", "idle", "walk"}
  /\ ntab \in Table
  /\ frames \in Seq(FrameType)
  /\ reg \in [Entry -> Nat]
  /\ prog \in Seq(ElementType)
  /\ varlist \in [Entry -> Seq(Nat)]
  /\ current \in [Entry -> Nat]
  /\ pc \in Nat
  /\ step \in {"start", "forward", "infer", "typed"}
  /\ walks \in Nat
  /\ obs \in ObsType

(* A name in the body denotes, at every walk and also while the right-hand *)
(* side of a binding is being typed, the variant that was the latest when  *)
(* the parser met it (walk_id, inference_expr_type); and types and values  *)
(* go to the variants that the binding itself registered (walk_letbind).   *)
UseDenotesLexicalBinding ==
  obs.kind \in {"use", "type", "bind"} => obs.got = obs.want

(* Outside a walk every entry is as the parser left it: walking a body     *)
(* takes the rotations full circle, although init_fn_param_info rotates    *)
(* the parameters and does not rotate back.  This is what lets a trait's   *)
(* default method be walked once per implementing type.                    *)
WalkRestoresParserState ==
  mode = "idle" => \A e \in Entry :
    /\ current[e] = reg[e]
    /\ varlist[e] = [i \in 1 .. (IF reg[e] = 0 THEN 0 ELSE reg[e] - 1) |-> i]

(* Declaring the function, or calling it from outside, reads the type the  *)
(* parameter was declared with, however often the body re-binds its name.  *)
FormalTypeIsDeclared == obs.kind = "formal" => obs.got = obs.want

(* The same inside the function's own body: a recursive call checks its    *)
(* arguments against the declared parameters                               *)
(* (check_and_determine_param_type, IR_generator.cpp:3320).                *)
RecursiveCallSeesDeclaredType == obs.kind = "recursive" => obs.got = obs.want

(* A method call checks the object against the type `self' was declared    *)
(* with (check_and_determine_param_type, IR_generator.cpp:3288).           *)
MethodCallSeesDeclaredSelf == obs.kind = "self" => obs.got = obs.want

(***************************************************************************)
(* The rotated lists implement plain sequential re-binding.  The binding   *)
(* in force is read off the list itself: `current', or what was current    *)
(* before the rotation of the let that is being typed.                     *)
(***************************************************************************)
Registered == IF pc <= Len(prog) THEN prog[pc].reg ELSE reg

InForce(e) ==
  IF mode # "walk" THEN IF e \in ParamEntry THEN 1 ELSE 0
  ELSE IF Registered[e] = 0 THEN 0
  ELSE IF step \in {"forward", "typed"} /\ e \in prog[pc].ents
         THEN RotBackCurrent(varlist[e], current[e])
  ELSE current[e]

Lexical == INSTANCE LexicalBinding WITH
  Entry <- Entry, ParamEntry <- ParamEntry,
  inforce <- [e \in Entry |-> InForce(e)],
  seen <- IF obs.kind \in {"use", "type", "bind"}
            THEN [ent |-> obs.ent, got |-> obs.got]
            ELSE [ent |-> {}, got |-> 0]

(* Every walk of every body is a run of the sequential semantics. *)
ImplementsLexicalBinding == Lexical!Spec
=============================================================================
