---------------------------- MODULE ParserScope ----------------------------
(***************************************************************************)
(* Where the parser puts names: the globals that the grammar's actions     *)
(* (ca.y, ca_parser.c) keep about the scope they are in.                   *)
(*                                                                         *)
(*   curr_symtable      the table that takes the next name                 *)
(*   curr_fn_symtable   the table that takes the next label                *)
(*   current_trait_id, current_type_impl                                   *)
(*                      what the next function is a method of              *)
(*   curr_arglist       the parameters of the prototype being read         *)
(*                                                                         *)
(* Symbol tables form a tree through their parent pointers.  With `-main'  *)
(* the file's statements are the body of a generated main, whose table     *)
(* lies under the root, and a function definition takes main's table off   *)
(* the tree and hangs it back.                                             *)
(*                                                                         *)
(* The source being parsed is arbitrary: `ctx' is the grammar's own        *)
(* nesting, which the globals are meant to follow.  Of the entries, those  *)
(* of functions and labels are kept; of a variable only its table.         *)
(***************************************************************************)
EXTENDS Integers, Sequences, FiniteSets

CONSTANTS
  EmitMain,   (* the ways the compiler is run: TRUE is with -main          *)
  Nested,     (* those in which sources define or declare functions inside *)
              (* blocks, or have trait methods without a default body      *)
  FnName, Type, Label,
  MaxTable,   (* bound: symbol tables besides the root's and main's        *)
  MaxDepth    (* bound: nesting of constructs                              *)

ASSUME OptionAssumption == EmitMain \subseteq BOOLEAN /\ Nested \subseteq BOOLEAN
ASSUME BoundAssumption == MaxTable \in Nat /\ MaxDepth \in Nat

VARIABLES
  emitMain, (* genv.emit_main                                              *)
  parent,   (* the tables: SymTable.parent; 0: NULL                        *)
  curr,     (* curr_symtable                                               *)
  currFn,   (* curr_fn_symtable; 0: NULL                                   *)
  trait,    (* current_trait_id                                            *)
  impls,    (* type_impl_stack and, last, current_type_impl                *)
  varg,     (* curr_arglist.contain_varg                                   *)
  fnsyms,   (* per table, its function entries                             *)
  labels,   (* per table, its label entries                                *)
  ctx,      (* the open grammar constructs, outermost first (history)      *)
  obs,      (* the last name: how it was recorded and how it was written   *)
  phase     (* "parse", "failed" (caerror), "crashed" (NULL dereferenced)  *)

globals == <<trait, impls, varg>>
tables == <<parent, fnsyms, labels>>
vars == <<emitMain, parent, curr, currFn, trait, impls, varg, fnsyms, labels,
          ctx, obs, phase>>

None == "none"
Root == 1
Main == 2                 (* with -main only *)
Table == 1 .. Len(parent)
Args == {"empty", "fixed", "varg"}   (* the parameter list of a prototype  *)

(***************************************************************************)
(* The grammar's side.                                                     *)
(***************************************************************************)
Top == ctx[Len(ctx)]
Outer == SubSeq(ctx, 1, Len(ctx) - 1)
Frame(kind, tab, owner) == [kind |-> kind, tab |-> tab, owner |-> owner]

In(kinds) == ctx # <<>> /\ Top.kind \in kinds

StatementPlace == ctx = <<>> \/ In({"block", "fn"})

(* a place for fn_def inside a trait or an impl *)
MemberPlace == In({"trait", "impl"})

FunctionAllowed ==
  emitMain \in Nested \/ \A i \in DOMAIN ctx : ctx[i].kind \in {"trait", "impl"}

(* the table of the innermost open construct that has one *)
Scopes(c) == {i \in DOMAIN c : c[i].tab # 0}
Home(c) == IF Scopes(c) = {} THEN IF emitMain THEN Main ELSE Root
           ELSE c[CHOOSE i \in Scopes(c) : \A j \in Scopes(c) : j <= i].tab

(* functions of the file itself are names of the root, and hang under it *)
FnHome(c) == IF Scopes(c) = {} THEN Root ELSE Home(c)

InTrait == \E i \in DOMAIN ctx : ctx[i].kind = "trait"

FnFrames == {i \in DOMAIN ctx : ctx[i].kind = "fn"}
FnTable == IF FnFrames = {} THEN IF emitMain THEN Main ELSE 0
           ELSE ctx[CHOOSE i \in FnFrames : \A j \in FnFrames : j <= i].tab

Method(cls, for) == [cls |-> cls, for |-> for]
Plain == Method(None, None)

Written == IF MemberPlace THEN Top.owner ELSE Plain

Open(kind, tab, owner) ==
  /\ Len(ctx) < MaxDepth
  /\ ctx' = Append(ctx, Frame(kind, tab, owner))

Parsing == phase = "parse" /\ UNCHANGED <<emitMain, phase>>

(***************************************************************************)
(* Symbol tables.                                                          *)
(***************************************************************************)

(* pop_symtable: where it leads from table t *)
Up(t) == IF t = Root THEN Root ELSE parent[t]

(* push_new_symtable, under table p; more: function entries it adds to p *)
NewTable == Len(parent) + 1
RoomForTable == Len(parent) < MaxTable + (IF emitMain THEN Main ELSE Root)
Grow(links, p, more) ==
  /\ RoomForTable
  /\ parent' = Append(links, p)
  /\ fnsyms' = Append([t \in Table |-> IF t = p THEN more ELSE fnsyms[t]], {})
  /\ labels' = Append(labels, [l \in Label |-> "absent"])

Observe(sort, got, want) ==
  obs' = [sort |-> sort, got |-> got, want |-> want, intrait |-> InTrait]
NoName == [sort |-> None, got |-> 0, want |-> 0, intrait |-> FALSE]
Nameless == obs' = NoName
Recorded(table, method, arity) == [table |-> table, method |-> method, varg |-> arity]

(***************************************************************************)
(* Initial state (yyparser_init).                                          *)
(***************************************************************************)
Init ==
  /\ emitMain \in EmitMain
  /\ parent = IF emitMain THEN <<0, Root>> ELSE <<0>>
  /\ curr = IF emitMain THEN Main ELSE Root
  /\ currFn = IF emitMain THEN Main ELSE 0
  /\ trait = None
  /\ impls = <<>>
  /\ varg = FALSE
  /\ fnsyms = [t \in Table |-> {}]
  /\ labels = [t \in Table |-> [l \in Label |-> "absent"]]
  /\ ctx = <<>>
  /\ obs = NoName
  /\ phase = "parse"

(***************************************************************************)
(* Blocks: statement and expression blocks, bodies of loops and branches.  *)
(***************************************************************************)
OpenBlock ==
  /\ Parsing
  /\ StatementPlace \/ In({"for"})
  /\ Open("block", NewTable, Plain)
  /\ Grow(parent, curr, fnsyms[curr])
  /\ curr' = NewTable
  /\ Nameless /\ UNCHANGED <<currFn, globals>>

(* make_stmtexpr_list_block *)
CloseBlock ==
  /\ Parsing
  /\ In({"block"})
  /\ curr' = Up(curr)
  /\ ctx' = Outer
  /\ Nameless /\ UNCHANGED <<currFn, globals, tables>>

(* for_stmt: a table of its own for the variable; blocks in it are the     *)
(* body's or the list expression's                                         *)
OpenFor ==
  /\ Parsing /\ StatementPlace
  /\ Open("for", NewTable, Plain)
  /\ Grow(parent, curr, fnsyms[curr])
  /\ curr' = NewTable
  /\ Nameless /\ UNCHANGED <<currFn, globals>>

(* make_for_stmt *)
CloseFor ==
  /\ Parsing
  /\ In({"for"})
  /\ curr' = Up(curr)
  /\ ctx' = Outer
  /\ Nameless /\ UNCHANGED <<currFn, globals, tables>>

(* struct_type_def: the members' table comes and goes, the argument list   *)
(* is reset (reset_arglist_with_new_symtable)                              *)
DefineStruct ==
  /\ Parsing /\ StatementPlace
  /\ Grow(parent, curr, fnsyms[curr])
  /\ varg' = FALSE
  /\ Nameless /\ UNCHANGED <<curr, currFn, trait, impls, ctx>>

(***************************************************************************)
(* Traits and impls.                                                       *)
(***************************************************************************)
OpenTrait(t) ==
  /\ Parsing /\ StatementPlace
  /\ trait' = t
  /\ Open("trait", 0, Method(t, None))
  /\ Nameless /\ UNCHANGED <<curr, currFn, impls, varg, tables>>

CloseTrait ==
  /\ Parsing
  /\ In({"trait"})
  /\ trait' = None
  /\ ctx' = Outer
  /\ Nameless /\ UNCHANGED <<curr, currFn, impls, varg, tables>>

(* begin_impl_type, begin_impl_trait_for_type; push_type_impl *)
OpenImpl(cls, for) ==
  /\ Parsing /\ StatementPlace
  /\ impls' = Append(impls, [owner |-> Method(cls, for), count |-> 0])
  /\ Open("impl", 0, Method(cls, for))
  /\ Nameless /\ UNCHANGED <<curr, currFn, trait, varg, tables>>

(* pop_type_impl *)
CloseImpl ==
  /\ Parsing
  /\ In({"impl"})
  /\ impls' = SubSeq(impls, 1, Len(impls) - 1)
  /\ ctx' = Outer
  /\ Nameless /\ UNCHANGED <<curr, currFn, trait, varg, tables>>

(***************************************************************************)
(* Function prototypes (fn_proto_name, fn_args, make_fn_proto).  A list    *)
(* that is empty leaves contain_varg as it is.                             *)
(***************************************************************************)

(* mutant: main's table stays in the tree *)
FnParentUnderMain == curr

(* with -main, the table that is popped first is meant to be main's *)
FnParent == IF emitMain THEN Up(curr) ELSE curr

Argc(args) == IF args = "empty" THEN 0 ELSE 1
ContainVarg(args) == IF args = "empty" THEN varg ELSE args = "varg"

(* what the function is a method of; im: the impls with the count that     *)
(* make_fn_proto sees                                                      *)
MethodOf(im) ==
  IF trait # None THEN Method(trait, None)
  ELSE IF im # <<>> /\ im[Len(im)].count = 0 THEN im[Len(im)].owner
  ELSE Plain

(* mutant: functions are names of the root, wherever they are written *)
NameTableRoot == Root

(* sym_parent_or_global(curr_symtable) *)
NameTable == FnParent

Found(n, m) == {e \in fnsyms[NameTable] : e.name = n /\ e.method = m}
FnEntry(n, m, sort, args) ==
  [name |-> n, method |-> m, sort |-> sort, argc |-> Argc(args),
   varg |-> ContainVarg(args)]

(* pre_check_fn_proto *)
SameProto(E, args) ==
  \A e \in E : e.argc = Argc(args) /\ e.varg = ContainVarg(args)

Declarable(n, m, args) == SameProto(Found(n, m), args)
Definable(n, m, args) ==
  /\ \A e \in Found(n, m) : trait = None /\ e.sort = "decl"
  /\ SameProto(Found(n, m), args)

WithDecl(n, m, args) ==
  IF Found(n, m) # {} THEN fnsyms[NameTable]
  ELSE fnsyms[NameTable] \cup {FnEntry(n, m, "decl", args)}
WithDef(n, m, args) ==
  IF Found(n, m) = {} THEN fnsyms[NameTable] \cup {FnEntry(n, m, "def", args)}
  ELSE (fnsyms[NameTable] \ Found(n, m))
         \cup {[e EXCEPT !.sort = "def"] : e \in Found(n, m)}

ReadProto(sort, m, args) ==
  /\ varg' = ContainVarg(args)
  /\ Observe(sort, Recorded(NameTable, m, ContainVarg(args)),
                   Recorded(FnHome(ctx), Written, args = "varg"))

(* mutant: the count goes up, but never down *)
CountedUp(im, d) == IF im = <<>> \/ d = -1 THEN im ELSE [im EXCEPT ![Len(im)].count = @ + d]

(* fn_unit: fn_def_recursive_count *)
Counted(im, d) == IF im = <<>> THEN im ELSE [im EXCEPT ![Len(im)].count = @ + d]

AtProto == IF StatementPlace THEN Counted(impls, 1) ELSE impls

(* fn_proto of a definition: the body follows *)
BeginFn(n, args) ==
  /\ Parsing /\ FunctionAllowed /\ (StatementPlace \/ MemberPlace)
  /\ Definable(n, MethodOf(AtProto), args)
  /\ Open("fn", NewTable, Plain)
  /\ Grow(parent, FnParent, WithDef(n, MethodOf(AtProto), args))
  /\ curr' = NewTable
  /\ currFn' = NewTable
  /\ impls' = AtProto
  /\ ReadProto("function", MethodOf(AtProto), args)
  /\ UNCHANGED trait

(* mutant: labels have no table again until the next definition *)
BackToMainOrUpForgetful(links, to) ==
  /\ currFn' = 0
  /\ IF emitMain THEN parent' = [links EXCEPT ![Main] = to] /\ curr' = Main
                 ELSE parent' = links /\ curr' = to

(* the end of make_fn_def and make_fn_decl: with -main, push_symtable of   *)
(* main's table where pop_symtable has led                                 *)
BackToMainOrUp(links, to) ==
  IF emitMain
    THEN parent' = [links EXCEPT ![Main] = to] /\ curr' = Main /\ currFn' = Main
    ELSE parent' = links /\ curr' = to /\ currFn' = 0

(* make_fn_def, and the end of fn_unit *)
EndFn ==
  /\ Parsing
  /\ In({"fn"})
  /\ BackToMainOrUp(parent, Up(curr))
  /\ ctx' = Outer
  /\ impls' = IF Outer # <<>> /\ Outer[Len(Outer)].kind \in {"trait", "impl"}
                THEN impls ELSE Counted(impls, -1)
  /\ Nameless /\ UNCHANGED <<trait, varg, fnsyms, labels>>

(* fn_decl; fn_unit does not count it *)
DeclareExtern(n, args) ==
  /\ Parsing /\ FunctionAllowed /\ StatementPlace
  /\ Declarable(n, MethodOf(impls), args)
  /\ RoomForTable
  /\ BackToMainOrUp(Append(parent, FnParent), FnParent)
  /\ fnsyms' = Append([fnsyms EXCEPT ![NameTable] = WithDecl(n, MethodOf(impls), args)], {})
  /\ labels' = Append(labels, [l \in Label |-> "absent"])
  /\ ReadProto("extern", MethodOf(impls), args)
  /\ UNCHANGED <<trait, impls, ctx>>

(* trait_fn_def without a body: nothing is pushed back *)
TraitProto(n, args) ==
  /\ Parsing /\ emitMain \in Nested
  /\ In({"trait"})
  /\ Definable(n, MethodOf(impls), args)
  /\ Grow(parent, FnParent, WithDef(n, MethodOf(impls), args))
  /\ curr' = FnParent
  /\ currFn' = NewTable
  /\ ReadProto("function", MethodOf(impls), args)
  /\ UNCHANGED <<trait, impls, ctx>>

(* caerror: defined already, or not the same as before *)
RejectProto(n, args) ==
  /\ phase = "parse" /\ FunctionAllowed
  /\ \/ (StatementPlace \/ MemberPlace) /\ ~Definable(n, MethodOf(AtProto), args)
     \/ StatementPlace /\ ~Declarable(n, MethodOf(impls), args)
  /\ phase' = "failed"
  /\ Nameless /\ UNCHANGED <<emitMain, curr, currFn, globals, tables, ctx>>

(***************************************************************************)
(* Variables and labels.                                                   *)
(***************************************************************************)

(* register_variable, make_for_var_entry, make_global_vardef:              *)
(* #[scope(global)] counts only in the generated main                      *)
Let(global) ==
  /\ Parsing
  /\ StatementPlace \/ (In({"for"}) /\ ~global)
  /\ LET in(t) == IF emitMain /\ global /\ t = Main THEN Root ELSE t
     IN  Observe("variable", in(curr), in(Home(ctx)))
  /\ UNCHANGED <<curr, currFn, globals, tables, ctx>>

LabelPlace == StatementPlace /\ FnTable # 0

(* make_goto *)
Goto(l) ==
  /\ Parsing /\ LabelPlace
  /\ currFn # 0
  /\ labels' = [labels EXCEPT ![currFn][l] = IF @ = "absent" THEN "hanging" ELSE @]
  /\ Observe("label", currFn, FnTable)
  /\ UNCHANGED <<curr, currFn, globals, parent, fnsyms, ctx>>

(* make_label_def *)
DefineLabel(l) ==
  /\ Parsing /\ LabelPlace
  /\ currFn # 0
  /\ labels[currFn][l] # "defined"
  /\ labels' = [labels EXCEPT ![currFn][l] = "defined"]
  /\ Observe("label", currFn, FnTable)
  /\ UNCHANGED <<curr, currFn, globals, parent, fnsyms, ctx>>

(* caerror: "Label redefinition" *)
RejectLabel(l) ==
  /\ phase = "parse" /\ LabelPlace
  /\ currFn # 0 /\ labels[currFn][l] = "defined"
  /\ phase' = "failed"
  /\ Nameless /\ UNCHANGED <<emitMain, curr, currFn, globals, tables, ctx>>

(* sym_getsym(NULL, ...) *)
CrashOnLabel ==
  /\ phase = "parse" /\ LabelPlace
  /\ currFn = 0
  /\ phase' = "crashed"
  /\ Observe("label", currFn, FnTable)
  /\ UNCHANGED <<emitMain, curr, currFn, globals, tables, ctx>>

Next ==
  \/ OpenBlock \/ CloseBlock \/ OpenFor \/ CloseFor \/ DefineStruct
  \/ \E t \in Type : OpenTrait(t)
  \/ CloseTrait
  \/ \E cls \in Type, for \in Type \cup {None} : OpenImpl(cls, for)
  \/ CloseImpl
  \/ \E n \in FnName, args \in Args :
       BeginFn(n, args) \/ DeclareExtern(n, args) \/ TraitProto(n, args)
         \/ RejectProto(n, args)
  \/ EndFn
  \/ \E global \in BOOLEAN : Let(global)
  \/ \E l \in Label : Goto(l) \/ DefineLabel(l) \/ RejectLabel(l)
  \/ CrashOnLabel

Spec == Init /\ [][Next]_vars

(***************************************************************************)
(* Properties.                                                             *)
(***************************************************************************)
MethodType == [cls : Type \cup {None}, for : Type \cup {None}]
EntryType == [name : FnName, method : MethodType, sort : {"decl", "def"},
              argc : {0, 1}, varg : BOOLEAN]
CtxType == [kind : {"block", "for", "fn", "trait", "impl"},
            tab : 0 .. Len(parent), owner : MethodType]
RecordType == [table : 0 .. Len(parent), method : MethodType, varg : BOOLEAN]

TypeOK ==
  /\ emitMain \in BOOLEAN
  /\ parent \in Seq(0 .. Len(parent))
  /\ curr \in Table
  /\ currFn \in 0 .. Len(parent)
  /\ trait \in Type \cup {None}
  /\ impls \in Seq([owner : MethodType, count : Nat])
  /\ varg \in BOOLEAN
  /\ fnsyms \in [Table -> SUBSET EntryType]
  /\ labels \in [Table -> [Label -> {"absent", "hanging", "defined"}]]
  /\ ctx \in Seq(CtxType)
  /\ \/ obs.sort = None
     \/ obs.sort \in {"function", "extern"} 
          /\ obs.got \in RecordType /\ obs.want \in RecordType
     \/ obs.sort \in {"variable", "label"} /\ obs.got \in 0 .. Len(parent)
          /\ obs.want \in 0 .. Len(parent)
  /\ obs.intrait \in BOOLEAN
  /\ phase \in {"parse", "failed", "crashed"}

Before(i) == SubSeq(ctx, 1, i - 1)

(* Where a table hangs by the layout of ca.y:34: functions of the file     *)
(* under the root, everything else under the construct around it.          *)
Above(i) == IF ctx[i].kind = "fn" THEN FnHome(Before(i)) ELSE Home(Before(i))

(* curr_symtable is the table of the innermost open construct, and the     *)
(* tables of the open constructs hang one under the other, also after any  *)
(* number of functions, prototypes and blocks inside them have closed:     *)
(* sym_getsym finds exactly the names of the scopes that are open.         *)
ScopeFollowsGrammar ==
  /\ curr = Home(ctx)
  /\ \A i \in Scopes(ctx) : parent[ctx[i].tab] = Above(i)
  /\ emitMain => parent[Main] = Root

(* A name goes into the scope it is written in: a variable into the        *)
(* innermost construct's, a function into the one around it.               *)
NamesGoToTheirScope ==
  /\ obs.sort = "variable" => obs.got = obs.want
  /\ obs.sort \in {"function", "extern"} => obs.got.table = obs.want.table

(* Outside of traits, exactly the functions written directly in an impl    *)
(* are its methods, however functions and impls nest in their bodies; an   *)
(* extern declaration is not looked at here.                               *)
ImplMethodsAreMethods ==
  obs.sort = "function" /\ ~obs.intrait => obs.got.method = obs.want.method

(* Labels belong to the function they are written in, or to main, as long  *)
(* as functions are named in the root's table only: no function, extern or *)
(* trait is inside another function.                                       *)
LabelsInTheirFunction ==
  obs.sort = "label" /\ (\A t \in Table \ {Root} : fnsyms[t] = {}) =>
    obs.got = obs.want

(* The same, also when there are functions in the function.                *)
LabelsPassInnerFunctions == obs.sort = "label" => obs.got = obs.want

(* Every chain of scopes ends at the root, whose parent is NULL; on a      *)
(* cycle sym_getsym would search for an unknown name forever.              *)
Climb[k \in Nat] == IF k = 0 THEN curr
                    ELSE IF Climb[k - 1] = 0 THEN 0 ELSE parent[Climb[k - 1]]
ParentChainsReachRoot == Climb[Len(parent)] = 0

(* With -main, what is outside of functions is in main's scope (ca.y:35).  *)
OutOfFunctionsIsMain ==
  emitMain /\ phase = "parse" /\ ctx = <<>> => curr = Main /\ currFn = Main

(* A function inside another is a function, also when the other is the     *)
(* default method of a trait.                                              *)
InnerFunctionsArePlain ==
  obs.sort = "function" /\ obs.want.method = Plain => obs.got.method = Plain

(* contain_varg tells whether the prototype just read has an ellipsis.     *)
PrototypeIsAsWritten ==
  obs.sort \in {"function", "extern"} => obs.got.varg = obs.want.varg
=============================================================================
