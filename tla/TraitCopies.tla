---------------------------- MODULE TraitCopies ----------------------------
(***************************************************************************)
(* The default methods of a trait in the second pass.  Their trees are not *)
(* copied: for every impl that takes a default method over the walker goes *)
(* through the one tree of its body again.  What is different from impl to *)
(* impl is reached through an association that the walker puts on the      *)
(* method's symbol table for the time of the walk: it gives the name Self  *)
(* the class of the impl as its meaning.  What the walk writes into the    *)
(* symbol table, the types of the variables, is recorded and taken back at *)
(* the end of the body; what it writes into the nodes of the tree is not.  *)
(*                                                                         *)
(* A call of a default method, from anywhere, puts the association of the  *)
(* called class on the called method's table to read its parameters, and   *)
(* takes the association away afterwards.                                  *)
(*                                                                         *)
(* One trait and the classes that take all its default methods over, in    *)
(* the order of their impls.  MethodLookup is about which impls do.        *)
(***************************************************************************)
EXTENDS Naturals, Sequences

CONSTANTS Classes,       \* the classes whose impls have no methods of their own
          Methods,       \* the default methods of the trait
          FieldType,     \* the type of the field the bodies use, for each class
          MaxBody,       \* bound: statements of a body
          Bodies         \* the bodies that are considered, for each method

NoClass == "no class"     \* a table without association; no copy is walked
AsParsed == "as parsed"   \* `*Self' of a parameter, no type yet for a let
NoType  == "no type"      \* a node that no walk has typed

\* a class is named by its type; the types of fields are none of these names
ASSUME TraitCopiesAssumption ==
  /\ MaxBody \in Nat /\ Methods # {}
  /\ DOMAIN FieldType = Classes
  /\ \A c \in Classes : FieldType[c] \notin Classes
  /\ {NoClass, AsParsed, NoType} \cap Classes = {}

(***************************************************************************)
(* The statements of a body that have to do with the class:                *)
(*   self     the parameter self is used                                   *)
(*   typed    let b: Self = __zero_init__                                  *)
(*   literal  let a = Self { .. }                                          *)
(*   field    let x = self->f + self->f                                    *)
(*   call     c::m(&x), of the trait's default method m for a class c      *)
(* nested: the statement is in a block of the body, which has a table of   *)
(* its own.                                                                *)
(***************************************************************************)
Plain == [kind: {"self", "typed", "literal", "field"}, nested: BOOLEAN]
Calls == [kind: {"call"}, cls: Classes, meth: Methods]
Body  == UNION {[1 .. n -> Plain \cup Calls] : n \in 0 .. MaxBody}

ASSUME BodiesAssumption == Bodies \subseteq [Methods -> Body]

Types == Classes \cup {FieldType[c] : c \in Classes}

VARIABLES
  body,       \* the statements of each method
  returnsSelf,\* the methods whose declared result is Self
  walked,     \* the copies that are done
  cls,        \* the class whose copy is walked, or NoClass
  meth,       \* the method whose copy is walked
  pc,         \* the statement the walk comes to
  assoc,      \* the association on each method's table, by its class
  self,       \* the type in the entry of each method's self
  lets,       \* the type in the entry of each let's variable
  recorded,   \* generic_type_stack.back(): the entries to take back
  node,       \* expr_type of the tree of each statement
  seen,       \* the last type read: what of, by which class, which type
  verdict     \* "going on", "refused", "aborted"

vars == <<body, returnsSelf, walked, cls, meth, pc, assoc, self, lets,
          recorded, node, seen, verdict>>

program == <<body, returnsSelf>>

Nothing == [what |-> "nothing", by |-> NoClass, type |-> NoType]

Init ==
  /\ body \in Bodies
  /\ returnsSelf \in SUBSET Methods
  /\ walked = {}
  /\ cls = NoClass /\ meth = (CHOOSE m \in Methods : TRUE) /\ pc = 1
  /\ assoc = [m \in Methods |-> NoClass]
  /\ self = [m \in Methods |-> AsParsed]
  /\ lets = [m \in Methods |-> [i \in 1 .. MaxBody |-> AsParsed]]
  /\ recorded = {}
  /\ node = [m \in Methods |-> [i \in 1 .. MaxBody |-> NoType]]
  /\ seen = Nothing
  /\ verdict = "going on"

Idle    == cls = NoClass /\ verdict = "going on"
Walking == cls # NoClass /\ verdict = "going on"
Stmt    == body[meth][pc]
AtStmt(kind) == Walking /\ pc <= Len(body[meth]) /\ Stmt.kind = kind

-----------------------------------------------------------------------------
(* Reading types *)

\* Self, looked up from a statement: the association hangs on the method's own
\* table, and the search does not look at it on its way up from a block's
SelfKnown(nested) == ~nested /\ assoc[meth] # NoClass

\* The parameter's type: `*Self' as it was parsed, or a class's type, which
\* is found from everywhere
ParameterKnown(nested) == self[meth] # AsParsed \/ SelfKnown(nested)
ParameterType == IF self[meth] = AsParsed THEN assoc[meth] ELSE self[meth]

\* inference_expr_expr_type: a node that has a type keeps it
InferredKind(type) == IF type \in Classes THEN "class" ELSE "field"   \* mutant: the kind of type only
Inferred(type) == IF node[meth][pc] = NoType THEN type ELSE node[meth][pc]

\* generic_type_record_replace and the assignment after it; an entry is
\* recorded once, when its type first changes
SelfEntry == <<meth, 0>>
LetEntry  == <<meth, pc>>

UseSelf ==
  /\ self' = [self EXCEPT ![meth] = ParameterType]
  /\ recorded' = IF self[meth] = AsParsed THEN recorded \cup {SelfEntry} ELSE recorded

Bind(type) ==
  /\ lets' = [lets EXCEPT ![meth][pc] = type]
  /\ recorded' = IF lets[meth][pc] # type THEN recorded \cup {LetEntry} ELSE recorded

See(what, type) == seen' = [what |-> what, by |-> cls, type |-> type]

Refuse ==
  /\ verdict' = "refused"
  /\ UNCHANGED <<pc, assoc, self, lets, recorded, node, seen>>

Placed == UNCHANGED <<program, walked, cls, meth>>

-----------------------------------------------------------------------------
(* The walk of one copy *)

\* The impls of which some method is walked and some is not: none or one
Unfinished == {c \in Classes : \E m, n \in Methods : <<c, m>> \in walked /\ <<c, n>> \notin walked}

\* walk_fn_define_impl, for the next default method of an impl
AssocOfFirst(c, m) ==     \* mutant: the association of the first impl is kept with the method
  IF \E d \in Classes : <<d, m>> \in walked THEN CHOOSE d \in Classes : <<d, m>> \in walked ELSE c
AssocOf(c, m) == c

Begin(c, m) ==
  /\ Idle /\ <<c, m>> \notin walked /\ Unfinished \subseteq {c}
  /\ cls' = c /\ meth' = m /\ pc' = 1
  /\ assoc' = [assoc EXCEPT ![m] = AssocOf(c, m)]
  /\ recorded' = {}
  /\ UNCHANGED <<program, walked, self, lets, node, seen, verdict>>

\* walk_id
WalkSelf ==
  /\ AtStmt("self")
  /\ IF ~ParameterKnown(Stmt.nested) THEN Refuse
     ELSE /\ UseSelf
          /\ See("self", ParameterType)
          /\ pc' = pc + 1
          /\ UNCHANGED <<assoc, lets, node, verdict>>
  /\ Placed

\* walk_letbind with a type
WalkTyped ==
  /\ AtStmt("typed")
  /\ IF ~SelfKnown(Stmt.nested) THEN Refuse
     ELSE /\ Bind(assoc[meth])
          /\ See("typed", assoc[meth])
          /\ pc' = pc + 1
          /\ UNCHANGED <<assoc, self, node, verdict>>
  /\ Placed

\* walk_letbind of a struct expression: its node decides, once it has a type
WalkLiteral ==
  /\ AtStmt("literal")
  /\ IF node[meth][pc] = NoType /\ ~SelfKnown(Stmt.nested) THEN Refuse
     ELSE LET type == Inferred(assoc[meth]) IN
          /\ node' = [node EXCEPT ![meth][pc] = type]
          /\ Bind(type)
          /\ See("literal", type)
          /\ pc' = pc + 1
          /\ UNCHANGED <<assoc, self, verdict>>
  /\ Placed

\* walk_letbind of an operator on fields: the variable gets the type of the
\* node, the walk computes the type of the operands anew, and
\* walk_expr_op2_calc asserts that they are one
WalkField ==
  /\ AtStmt("field")
  /\ IF ~ParameterKnown(Stmt.nested) THEN Refuse
     ELSE LET type == FieldType[ParameterType] IN
          /\ node' = [node EXCEPT ![meth][pc] = Inferred(type)]
          /\ lets' = [lets EXCEPT ![meth][pc] = Inferred(type)]
          /\ self' = [self EXCEPT ![meth] = ParameterType]
          /\ recorded' = recorded \cup {LetEntry}
                           \cup (IF self[meth] = AsParsed THEN {SelfEntry} ELSE {})
          /\ See("field", Inferred(type))
          /\ verdict' = IF Inferred(type) = type THEN verdict ELSE "aborted"
          /\ pc' = pc + 1
          /\ UNCHANGED assoc
  /\ Placed

-----------------------------------------------------------------------------
(* Calls *)

\* The type of the parameter self that a call of m for c is compared with
FormalSelfTooEarly(c, m) == IF self[m] = AsParsed THEN assoc[m] ELSE self[m]  \* mutant: before the association is set
FormalSelf(c, m) == IF self[m] = AsParsed THEN c ELSE self[m]

\* check_and_determine_param_type and walk_expr_call: the association of the
\* called class is on the called method's table while its parameters, and then
\* its result, are read; afterwards there is none
Accepts(c, m) == FormalSelf(c, m) = c

CallInBody ==
  /\ AtStmt("call")
  /\ IF ~Accepts(Stmt.cls, Stmt.meth) THEN Refuse
     ELSE /\ assoc' = [assoc EXCEPT ![Stmt.meth] = NoClass]
          /\ See("call in body", FormalSelf(Stmt.cls, Stmt.meth))
          /\ pc' = pc + 1
          /\ UNCHANGED <<self, lets, recorded, node, verdict>>
  /\ Placed

\* A call in a function that is walked before, between or after the copies
CallOutside(c, m) ==
  /\ Idle /\ Unfinished = {}
  /\ seen' = [what |-> "call", by |-> c, type |-> FormalSelf(c, m)]
  /\ IF Accepts(c, m)
       THEN assoc' = [assoc EXCEPT ![m] = NoClass] /\ UNCHANGED verdict
       ELSE verdict' = "refused" /\ UNCHANGED assoc
  /\ Placed /\ UNCHANGED <<pc, self, lets, recorded, node>>

-----------------------------------------------------------------------------
(* The end of a body *)

\* generic_type_handle_replace
TakenBackSelf == [m \in Methods |-> IF <<m, 0>> \in recorded THEN AsParsed ELSE self[m]]
TakenBackLetsNot == lets      \* mutant: only parameters are recorded
TakenBackLets == [m \in Methods |-> [i \in 1 .. MaxBody |->
                    IF <<m, i>> \in recorded THEN AsParsed ELSE lets[m][i]]]

\* The end of walk_fn_define_full_withsym_generic: generate_final_return reads
\* the declared result once more, the types are taken back, and its caller
\* walk_fn_define_impl clears the association
End ==
  /\ Walking /\ pc > Len(body[meth])
  /\ IF meth \in returnsSelf /\ ~SelfKnown(FALSE)
       THEN Refuse /\ UNCHANGED <<walked, cls>>
       ELSE /\ self' = TakenBackSelf
            /\ lets' = TakenBackLets
            /\ recorded' = {}
            /\ assoc' = [assoc EXCEPT ![meth] = NoClass]
            /\ walked' = walked \cup {<<cls, meth>>}
            /\ cls' = NoClass
            /\ UNCHANGED <<pc, node, seen, verdict>>
  /\ UNCHANGED <<program, meth>>

Next ==
  \/ \E c \in Classes, m \in Methods : Begin(c, m) \/ CallOutside(c, m)
  \/ WalkSelf \/ WalkTyped \/ WalkLiteral \/ WalkField \/ CallInBody \/ End

Spec == Init /\ [][Next]_vars

-----------------------------------------------------------------------------
(***************************************************************************)
(* TypeOK: entries and nodes hold types of classes or of their fields       *)
(* (symtable.h:505-545, ca_parser.h:260).                                  *)
(***************************************************************************)
TypeOK ==
  /\ body \in [Methods -> Body] /\ returnsSelf \subseteq Methods
  /\ walked \subseteq Classes \X Methods
  /\ cls \in Classes \cup {NoClass} /\ meth \in Methods /\ pc \in 1 .. MaxBody + 1
  /\ assoc \in [Methods -> Classes \cup {NoClass}]
  /\ self \in [Methods -> Classes \cup {AsParsed}]
  /\ lets \in [Methods -> [1 .. MaxBody -> Types \cup {AsParsed}]]
  /\ recorded \subseteq Methods \X (0 .. MaxBody)
  /\ node \in [Methods -> [1 .. MaxBody -> Types \cup {NoType}]]
  /\ verdict \in {"going on", "refused", "aborted"}

(***************************************************************************)
(* BetweenCopiesAsParsed: when no copy is walked, the entries of parameters *)
(* and variables are as the parser left them and no table has an            *)
(* association, although every copy writes its class's types into them and *)
(* calls take associations away at any point (generic_type_record_replace,  *)
(* generic_type_handle_replace, IR_generator.cpp:4954-4964).               *)
(***************************************************************************)
BetweenCopiesAsParsed ==
  Idle => \A m \in Methods :
    /\ assoc[m] = NoClass /\ self[m] = AsParsed
    /\ \A i \in 1 .. MaxBody : lets[m][i] = AsParsed

(***************************************************************************)
(* ParameterMeansImplementor: whatever was walked before, and whatever is   *)
(* called on the way, self and a let of type Self have the type of the      *)
(* class whose copy is walked, if they have one (walk_id, walk_letbind).   *)
(***************************************************************************)
ParameterMeansImplementor ==
  seen.what \in {"self", "typed"} => seen.type = seen.by

(***************************************************************************)
(* CallersAreAccepted: a call of c's copy from a function that is walked    *)
(* before, between or after the copies finds c for the declared type of     *)
(* self, and is accepted (check_and_determine_param_type).                 *)
(***************************************************************************)
CallersAreAccepted ==
  seen.what = "call" => seen.type = seen.by

(***************************************************************************)
(* NodesMeanImplementor: in the copy for a class, a struct expression of    *)
(* Self is of that class and a field of self has the type of that class's   *)
(* field: docs/template_and_trait.md:15, "the `self` or `Self` using the    *)
(* symbol table in the position of the type definition of the real `Self`". *)
(* Refuted: see the README.                                                *)
(***************************************************************************)
NodesMeanImplementor ==
  /\ seen.what = "literal" => seen.type = seen.by
  /\ seen.what = "field" => seen.type = FieldType[seen.by]

(***************************************************************************)
(* SelfIsKnownInBodies: no use of self or Self in a default method ends the *)
(* compilation (docs/todo-inner-miscs.md:152, "[x] support Self skeleton"). *)
(* Refuted: see the README.                                                *)
(***************************************************************************)
SelfIsKnownInBodies == verdict # "refused"
=============================================================================
