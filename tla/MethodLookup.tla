---------------------------- MODULE MethodLookup ----------------------------
(***************************************************************************)
(* How the methods of a class (a struct type) are recorded and found.      *)
(*                                                                         *)
(* The parser reads the impls of a program, `impl C { .. }' and            *)
(* `impl T for C { .. }'.  The first pass of the walker compares each trait *)
(* impl with its trait and records the methods in tables that belong to the *)
(* entry of the class: one map for its own methods, one map per trait, and  *)
(* one more map, per trait, of the default methods that were copied, which  *)
(* holds the association that gives `Self' its meaning.  The second pass    *)
(* looks calls up in these tables: c.m(), C::m(&c), T::m(&c) and           *)
(* <C as T>::m(&c).                                                        *)
(*                                                                         *)
(* A trait has two names in the compiler: the identifier of the source and *)
(* the type name formed from it ("t:" and the identifier).  They are       *)
(* different numbers, and the module keeps them apart.                     *)
(***************************************************************************)
EXTENDS Naturals, Sequences

CONSTANTS Classes, Traits, Methods,
          Scopes,      \* the symbol tables impls are written in
          MaxImpls     \* bound: impls of a program

NoTrait == "no trait"      \* trait_id -1: an impl of the class itself

ASSUME MethodLookupAssumption ==
  MaxImpls \in Nat /\ NoTrait \notin Traits

NoFn    == [method |-> "none"]
NoCall  == [form |-> "none"]

Kinds == {"absent", "required", "default"}

\* An impl as it is written; fits: every method of it has its trait's signature
Impl == [cls: Classes, trait: Traits \cup {NoTrait}, methods: SUBSET Methods,
         fits: BOOLEAN, scope: Scopes]

\* A recorded method: the impl it comes from, and whether that impl defines it
Fn == [cls: Classes, trait: Traits \cup {NoTrait}, method: Methods,
       impl: 1 .. MaxImpls, own: BOOLEAN]

\* The ways to call a method; trait is NoTrait where the call names none
Call == [form: {"dot", "path"}, cls: Classes, trait: {NoTrait}, method: Methods]
          \cup [form: {"trait", "as"}, cls: Classes, trait: Traits, method: Methods]

VARIABLES
  decl,       \* what each trait says of each method
  impls,      \* the impls parsed
  phase,      \* "parse", "declare" (pass 1), "call" (pass 2), "refused"
  next,       \* the impl that pass 1 comes to
  inStruct,   \* method_in_struct of each class
  inTraits,   \* method_in_traits of each class
  copied,     \* method_in_traits_copied of each class
  answer      \* the last call, the method found and the trait of its Self

vars == <<decl, impls, phase, next, inStruct, inTraits, copied, answer>>

Unanswered == [call |-> NoCall, fn |-> NoFn, self |-> NoTrait]

Init ==
  /\ decl \in [Traits -> [Methods -> Kinds]]
  /\ impls = <<>>
  /\ phase = "parse"
  /\ next = 1
  /\ inStruct = [c \in Classes |-> [m \in Methods |-> NoFn]]
  /\ inTraits = [c \in Classes |-> [t \in Traits |-> [m \in Methods |-> NoFn]]]
  /\ copied = [c \in Classes |-> [t \in Traits |-> {}]]
  /\ answer = Unanswered

-----------------------------------------------------------------------------
(* Parsing *)

\* The parser compares only impls of one symbol table: a second impl of a
\* trait for a class, or a second method of one name for the class itself
Conflict(i) ==
  \E j \in 1 .. Len(impls) :
    /\ impls[j].cls = i.cls /\ impls[j].trait = i.trait /\ impls[j].scope = i.scope
    /\ i.trait # NoTrait \/ impls[j].methods \cap i.methods # {}

ParseImpl(i) ==
  /\ phase = "parse" /\ Len(impls) < MaxImpls
  /\ IF Conflict(i)
       THEN phase' = "refused" /\ UNCHANGED impls
       ELSE impls' = Append(impls, i) /\ UNCHANGED phase
  /\ UNCHANGED <<decl, next, inStruct, inTraits, copied, answer>>

EndOfText ==
  /\ phase = "parse"
  /\ phase' = "declare"
  /\ UNCHANGED <<decl, impls, next, inStruct, inTraits, copied, answer>>

-----------------------------------------------------------------------------
(* Pass 1: walk_fn_define_impl *)

Declared(t)  == {m \in Methods : decl[t][m] # "absent"}
Defaults(t)  == {m \in Methods : decl[t][m] = "default"}
Required(t)  == Declared(t) \ Defaults(t)

\* check_trait_impl_match
MatchesNamesOnly(i) ==              \* mutant: nothing is missed
  i.trait = NoTrait \/ (i.methods \subseteq Declared(i.trait) /\ i.fits)
Matches(i) ==
  \/ i.trait = NoTrait
  \/ /\ i.methods \subseteq Declared(i.trait)
     /\ i.fits
     /\ Required(i.trait) \subseteq i.methods

\* The default methods the impl takes over
CopiesDefaults(i) == IF i.trait = NoTrait THEN {} ELSE Defaults(i.trait)   \* mutant: without set_difference
Copies(i) == IF i.trait = NoTrait THEN {} ELSE Declared(i.trait) \ i.methods

\* The methods of impl number k, each with its recorded form, into a map.  A
\* mangled name that is declared already is not recorded again: its text
\* names the class, the trait and the method, not the impl.
Recorded(map, i, k) ==
  [m \in Methods |->
     IF map[m] = NoFn /\ m \in i.methods \cup Copies(i)
       THEN [cls |-> i.cls, trait |-> i.trait, method |-> m,
             impl |-> k, own |-> m \in i.methods]
       ELSE map[m]]

DeclareImpl ==
  /\ phase = "declare" /\ next <= Len(impls)
  /\ LET i == impls[next] IN
       IF ~Matches(i)
         THEN phase' = "refused" /\ UNCHANGED <<next, inStruct, inTraits, copied>>
         ELSE /\ next' = next + 1
              /\ UNCHANGED phase
              /\ IF i.trait = NoTrait
                   THEN /\ inStruct' = [inStruct EXCEPT ![i.cls] = Recorded(@, i, next)]
                        /\ UNCHANGED <<inTraits, copied>>
                   ELSE /\ inTraits' = [inTraits EXCEPT ![i.cls][i.trait] = Recorded(@, i, next)]
                        /\ copied' = [copied EXCEPT ![i.cls][i.trait] = @ \cup Copies(i)]
                        /\ UNCHANGED inStruct
  /\ UNCHANGED <<decl, impls, answer>>

EndOfPass1 ==
  /\ phase = "declare" /\ next > Len(impls)
  /\ phase' = "call"
  /\ UNCHANGED <<decl, impls, next, inStruct, inTraits, copied, answer>>

-----------------------------------------------------------------------------
(* Pass 2: calls *)

\* The two numbers of a trait: the tables have the type name for their key,
\* the paths of the source give the identifier
TypeId(t) == <<"type", t>>
NameId(t) == <<"identifier", t>>

\* The trait a call names, as it reaches runable_find_entry
Named(call) == IF call.trait = NoTrait THEN NoTrait ELSE NameId(call.trait)

\* runable_find_entry: the class's own methods first, unless a trait is named;
\* then the named trait; then the only trait that has the method, if it is
\* the only one
Candidates(c, m) == {t \in Traits : inTraits[c][t][m] # NoFn}
FoundTraitsFirst(c, m, named) ==    \* mutant: traits before the class's own
  IF Candidates(c, m) # {} THEN {inTraits[c][t][m] : t \in Candidates(c, m)}
  ELSE {inStruct[c][m]} \ {NoFn}
Found(c, m, named) ==
  IF named = NoTrait /\ inStruct[c][m] # NoFn THEN {inStruct[c][m]}
  ELSE LET exact == {t \in Candidates(c, m) : named # NoTrait /\ TypeId(t) = named}
       IN {inTraits[c][t][m] : t \in IF exact # {} THEN exact ELSE Candidates(c, m)}

\* runable_find_entry_assoc, always called without a trait
SelfTraits(c, m) == {t \in Traits : m \in copied[c][t]}

Unique(S) == \E x \in S : S = {x}

\* The type that Self gets with the method fn: none for a method an impl
\* defines, otherwise that of the association
SelfOf(fn, self) == IF fn.own \/ self = {} THEN NoTrait ELSE CHOOSE t \in self : TRUE

\* A call that finds one method
CallMethod(call) ==
  /\ phase = "call"
  /\ \E fn \in Found(call.cls, call.method, Named(call)) :
       LET self == SelfTraits(call.cls, call.method) IN
       /\ Found(call.cls, call.method, Named(call)) = {fn}
       /\ fn.own \/ self = {} \/ Unique(self)
       /\ answer' = [call |-> call, fn |-> fn, self |-> SelfOf(fn, self)]
  /\ UNCHANGED <<decl, impls, phase, next, inStruct, inTraits, copied>>

\* One that finds none or several, or several associations, is an error
RefuseCall(call) ==
  /\ phase = "call"
  /\ \A fn \in Found(call.cls, call.method, Named(call)) :
       LET self == SelfTraits(call.cls, call.method) IN
       Found(call.cls, call.method, Named(call)) = {fn} =>
         ~(fn.own \/ self = {} \/ Unique(self))
  /\ phase' = "refused"
  /\ answer' = [Unanswered EXCEPT !.call = call]
  /\ UNCHANGED <<decl, impls, next, inStruct, inTraits, copied>>

Next ==
  \/ \E i \in Impl : ParseImpl(i)
  \/ EndOfText \/ DeclareImpl \/ EndOfPass1
  \/ \E call \in Call : CallMethod(call) \/ RefuseCall(call)

Spec == Init /\ [][Next]_vars

-----------------------------------------------------------------------------
(* What the text says: the references below read only decl and impls *)

Owns(c, m)        == \E i \in 1 .. Len(impls) :
                       impls[i].cls = c /\ impls[i].trait = NoTrait /\ m \in impls[i].methods
Implements(c, t)  == \E i \in 1 .. Len(impls) : impls[i].cls = c /\ impls[i].trait = t
Provides(c, t, m) == Implements(c, t) /\ m \in Declared(t)

\* The impls a call can mean; it means something if there is exactly one
Meant(call) ==
  LET c == call.cls  m == call.method IN
  IF call.trait # NoTrait THEN {t \in {call.trait} : Provides(c, t, m)}
  ELSE IF Owns(c, m) THEN {NoTrait}
  ELSE {t \in Traits : Provides(c, t, m)}

Answered == answer.call # NoCall

(***************************************************************************)
(* TypeOK: the tables hold recorded methods under their class, trait and    *)
(* name (symtable_cpp.h:37-48).                                            *)
(***************************************************************************)
TypeOK ==
  /\ decl \in [Traits -> [Methods -> Kinds]]
  /\ impls \in Seq(Impl) /\ Len(impls) <= MaxImpls
  /\ phase \in {"parse", "declare", "call", "refused"}
  /\ next \in 1 .. MaxImpls + 1
  /\ inStruct \in [Classes -> [Methods -> Fn \cup {NoFn}]]
  /\ inTraits \in [Classes -> [Traits -> [Methods -> Fn \cup {NoFn}]]]
  /\ copied \in [Classes -> [Traits -> SUBSET Methods]]
  /\ answer \in [call: Call \cup {NoCall}, fn: Fn \cup {NoFn}, self: Traits \cup {NoTrait}]

(***************************************************************************)
(* PlainCallsReachTheirMethod: a call that names no trait is accepted       *)
(* exactly if it means one method (the class's own, or that of the only     *)
(* trait that provides it), and reaches that one, in the impl's version if  *)
(* the impl has one and in the trait's otherwise (runable_find_entry,       *)
(* walk_fn_define_impl).                                                   *)
(***************************************************************************)
PlainCallsReachTheirMethod ==
  Answered /\ answer.call.trait = NoTrait =>
    LET call == answer.call  fn == answer.fn IN
    /\ fn # NoFn <=> Unique(Meant(call))
    /\ fn # NoFn => /\ fn.cls = call.cls /\ fn.method = call.method
                    /\ fn.trait \in Meant(call)
                    /\ impls[fn.impl].cls = fn.cls /\ impls[fn.impl].trait = fn.trait
                    /\ fn.own <=> call.method \in impls[fn.impl].methods

(***************************************************************************)
(* ImplementedTraitsAreComplete: after pass 1 every method a trait declares *)
(* is recorded for every class that implements it, the impl's own version   *)
(* or the trait's default, whatever the order of the impls                  *)
(* (check_trait_impl_match, runable_add_entry).                            *)
(***************************************************************************)
ImplementedTraitsAreComplete ==
  phase = "call" =>
    \A i \in 1 .. Len(impls) : impls[i].trait # NoTrait =>
      LET t == impls[i].trait  c == impls[i].cls IN
      \A m \in Methods :
        IF m \in Declared(t)
          THEN /\ inTraits[c][t][m] # NoFn
               /\ decl[t][m] = "required" => inTraits[c][t][m].own
          ELSE inTraits[c][t][m] = NoFn

(***************************************************************************)
(* CopiesKnowTheirSelf: the two tables that are searched one after the      *)
(* other, by the name of the method only, agree: a default method is found  *)
(* together with the association of the very impl it was copied for, and a  *)
(* method the impl defines has none (runable_find_entry_assoc,             *)
(* IR_generator.cpp:3279 and 3578).                                        *)
(***************************************************************************)
CopiesKnowTheirSelf ==
  /\ Answered /\ answer.fn # NoFn =>
       answer.self = IF answer.fn.own THEN NoTrait ELSE answer.fn.trait
  /\ phase = "call" =>
       \A c \in Classes, t \in Traits, m \in Methods :
         m \in copied[c][t] <=> inTraits[c][t][m] # NoFn /\ ~inTraits[c][t][m].own

(***************************************************************************)
(* NamedTraitDecides: a call that names a trait, T::m(&c) or <C as T>::m,   *)
(* is accepted if the class has m from that trait, and reaches it; "cannot  *)
(* find method `%s` for struct `%s` on trait `%s`" (symtable_cpp.cpp:342)   *)
(* is the answer otherwise.  Refuted: see the README.                      *)
(***************************************************************************)
NamedTraitDecides ==
  Answered /\ answer.call.trait # NoTrait =>
    /\ answer.fn # NoFn <=> Meant(answer.call) # {}
    /\ answer.fn # NoFn => answer.fn.trait = answer.call.trait

(***************************************************************************)
(* DefinitionsAreCalled: every method that is written is recorded, so that  *)
(* a call can reach it; a second one of its name is an error                *)
(* (ca_parser.c:2777, "function '%s' already defined").  Refuted with impls *)
(* in two scopes: see the README.                                          *)
(***************************************************************************)
DefinitionsAreCalled ==
  phase = "call" =>
    \A i \in 1 .. Len(impls) : \A m \in impls[i].methods :
      LET c == impls[i].cls  t == impls[i].trait IN
      (IF t = NoTrait THEN inStruct[c][m] ELSE inTraits[c][t][m]).impl = i
=============================================================================
