----------------------------- MODULE TypeNames -----------------------------
(***************************************************************************)
(* From the name of a type to its object: catype_get_by_name.  The         *)
(* definitions of two nested scopes are given; struct and alias            *)
(* definitions may refer to one another in any order.  A request unwinds   *)
(* the type as seen from a scope, which yields a tree of objects with      *)
(* references back to enclosing structs, gives every object its layout,    *)
(* and enters it in two tables: by scope and name, and by signature.       *)
(*                                                                         *)
(* A type is written as a tree of "prim", "ptr", "arr", "tuple" and        *)
(* "name"; the characters of a signature are left out.  A tuple struct     *)
(* is a struct, typeof and references (&) are left out.                    *)
(***************************************************************************)
EXTENDS Integers, Sequences, FiniteSets, SequencesExt, FiniteSetsExt, TLC

CONSTANTS
  Names,      (* names of types                                            *)
  Programs,   (* definitions, by scope and name; "none" where there is none*)
  Asks,       (* types that are requested                                  *)
  MaxAsks     (* bound: requests                                           *)

VARIABLES
  defs,       (* the definitions in the symbol tables                      *)
  objs,       (* the objects made: a tree, and the layout of its nodes     *)
  bySite,     (* s_symtable_type_map: from scope and type to an object     *)
  bySig,      (* s_type_map: from signature to an object                   *)
  asked,      (* requests                                                  *)
  mode

vars == <<defs, objs, bySite, bySig, asked, mode>>

Outer == 1
Inner == 2
Scopes == {Outer, Inner}
PtrSize == 8
Calculating == -2

(* sym_gettypesym_by_name: the scope of the definition that is visible; 0  *)
(* when there is none                                                      *)
Home(scope, n) ==
  IF defs[scope][n].kind # "none" THEN scope
  ELSE IF scope = Inner /\ defs[Outer][n].kind # "none" THEN Outer
  ELSE 0

Failure == [kind |-> "error"]
Back(n) == [kind |-> "back", name |-> n, size |-> Calculating]
Pointer(o) == [kind |-> "ptr", size |-> PtrSize, to |-> o]
ArrayOf(o, n) ==
  [kind |-> "arr", len |-> n, of |-> o,
   size |-> IF o.size < 0 THEN o.size ELSE o.size * n]

RECURSIVE SumOfSizes(_)
SumOfSizes(os) == IF os = <<>> THEN 0 ELSE Head(os).size + SumOfSizes(Tail(os))

(* catype_unwind_type_struct; a general tuple has the name ""              *)
StructOf(n, os) ==
  [kind |-> "struct", name |-> n, members |-> os,
   size |-> IF \E i \in DOMAIN os : os[i].size = Calculating
            THEN Calculating ELSE SumOfSizes(os)]

AnyFailed(os) == \E i \in DOMAIN os : os[i] = Failure

(* mutant: the check set is passed on through a pointer *)
PointeeCheckInherited(check) == check

(* mutant: the elements of an array are checked like pointees *)
ElementCheckFresh(check) == {}

(* A pointer has its size whatever it points to: nothing is forbidden      *)
(* below it.  An array is as large as its elements.                        *)
PointeeCheck(check) == {}
ElementCheck(check) == check

(* catype_unwind_type_signature_inner: type t in a scope, inside the       *)
(* structs "open" and the aliases "aliases" (prenamemap); the names in     *)
(* "check" (rcheckset) would contain themselves.                           *)
RECURSIVE Unwind(_, _, _, _, _)

(* catype_unwind_type_name *)
UnwindName(scope, n, open, aliases, check) ==
  LET home == Home(scope, n)
      d == defs[home][n]
      inside == check \union {n}
      members == [i \in DOMAIN d.members |->
                    Unwind(home, d.members[i], open \union {n}, aliases, inside)]
  IN CASE home = 0 \/ n \in check \union aliases -> Failure
       [] home # 0 /\ n \in open \ check -> Back(n)
       [] OTHER ->
            IF d.kind = "alias"
            THEN Unwind(home, d.members[1], open, aliases \union {n}, inside)
            ELSE IF AnyFailed(members) THEN Failure ELSE StructOf(n, members)

Unwind(scope, t, open, aliases, check) ==
  CASE t.kind = "prim" -> t
    [] t.kind = "ptr" ->
         LET o == Unwind(scope, t.to, open, aliases, PointeeCheck(check))
         IN IF o = Failure THEN o ELSE Pointer(o)
    [] t.kind = "arr" ->
         LET o == Unwind(scope, t.of, open, aliases, ElementCheck(check))
         IN IF o = Failure THEN o ELSE ArrayOf(o, t.len)
    [] t.kind = "tuple" ->
         LET os == [i \in DOMAIN t.members |->
                      Unwind(scope, t.members[i], open, aliases, check)]
         IN IF AnyFailed(os) THEN Failure ELSE StructOf("", os)
    [] OTHER -> UnwindName(scope, t.name, open, aliases, check)

(* the children of a node, and the nodes of a tree by the path to them     *)
Kids(o) ==
  CASE o.kind = "ptr" -> <<o.to>>
    [] o.kind = "arr" -> <<o.of>>
    [] o.kind = "struct" -> o.members
    [] OTHER -> <<>>

RECURSIVE NodeAt(_, _)
NodeAt(root, p) ==
  IF p = <<>> THEN root ELSE NodeAt(Kids(root)[Head(p)], Tail(p))

RECURSIVE Paths(_)
Paths(o) ==
  {<<>>} \union UNION {{<<i>> \o p : p \in Paths(Kids(o)[i])} : i \in DOMAIN Kids(o)}

(* the object at a path: a reference back is the enclosing struct itself   *)
Object(root, p) ==
  LET o == NodeAt(root, p) IN
  IF o.kind # "back" THEN p
  ELSE CHOOSE q \in {SubSeq(p, 1, n) : n \in 0 .. Len(p) - 1} :
         /\ NodeAt(root, q).kind = "struct"
         /\ NodeAt(root, q).name = o.name

(* mutant: signatures that leave out the names of structs *)
LabelNameless(o) ==
  CASE o.kind = "arr" -> o.len
    [] o.kind = "prim" -> o.size
    [] OTHER -> 0

Label(o) ==
  CASE o.kind \in {"struct", "back"} -> o.name
    [] o.kind = "arr" -> o.len
    [] o.kind = "prim" -> o.size
    [] OTHER -> 0

(* catype_unwind_type_signature: the tree without the sizes *)
RECURSIVE Signature(_)
Signature(o) ==
  <<o.kind, Label(o), [i \in DOMAIN Kids(o) |-> Signature(Kids(o)[i])]>>

RECURSIVE FieldAlign(_, _, _)
FieldAlign(root, layout, p) ==
  LET o == NodeAt(root, p) IN
  CASE o.kind = "ptr" -> PtrSize
    [] o.kind = "arr" -> FieldAlign(root, layout, Object(root, p \o <<1>>))
    [] o.kind = "struct" -> layout[p].align
    [] OTHER -> o.size

(* mutant: the end of a struct is not padded *)
PaddedNot(n, a) == n

Aligned(n, a) == IF n % a = 0 THEN n ELSE n + a - (n % a)
Padded(n, a) == Aligned(n, a)

(* catype_formalize_type_layout: the objects in "busy" (rcheck) are fields *)
(* that are being laid out further up; they are passed over.               *)
RECURSIVE Laid(_, _, _, _)
Laid(root, p, busy, layout) ==
  LET o == NodeAt(root, p)
      kid(i) == Object(root, p \o <<i>>)
      Field(acc, i) ==
        IF kid(i) \in busy THEN acc
        ELSE LET after == Laid(root, kid(i), busy \union {kid(i)}, acc.layout)
                 align == FieldAlign(root, after, kid(i))
                 at == Aligned(acc.size, align)
             IN [layout |-> [after EXCEPT ![p].offsets[i] = at],
                 size |-> at + after[kid(i)].size,
                 align |-> IF align > acc.align THEN align ELSE acc.align]
  IN CASE o.kind = "ptr" -> Laid(root, kid(1), busy, layout)
       [] o.kind = "arr" ->
            LET after == Laid(root, kid(1), busy, layout)
            IN [after EXCEPT ![p].size = o.len * after[kid(1)].size]
       [] o.kind = "struct" ->
            LET all == FoldLeft(Field, [layout |-> layout, size |-> 0, align |-> 1],
                                [i \in DOMAIN o.members |-> i])
            IN [all.layout EXCEPT ![p].size = Padded(all.size, all.align),
                                  ![p].align = all.align]
       [] OTHER -> layout

(* catype_formalize_type *)
Layout(root) ==
  Laid(root, <<>>, {<<>>},
       [p \in {q \in Paths(root) : NodeAt(root, q).kind # "back"} |->
          [size |-> NodeAt(root, p).size, align |-> 1,
           offsets |-> [i \in DOMAIN Kids(NodeAt(root, p)) |-> 0]]])

Init ==
  /\ defs \in Programs
  /\ objs = <<>>
  /\ bySite = <<>>
  /\ bySig = <<>>
  /\ asked = 0
  /\ mode = "run"

Unwound(scope, t) == Unwind(scope, t, {}, {}, {})

(* mutant: the table of signatures is not looked up *)
FreshAlways(sig) == TRUE

Fresh(sig) == sig \notin DOMAIN bySig

(* catype_get_by_name for a type that is not in s_symtable_type_map under  *)
(* this scope yet; a type without names is its own signature.              *)
Ask(scope, t) ==
  /\ mode = "run"
  /\ asked < MaxAsks
  /\ <<scope, t>> \notin DOMAIN bySite
  /\ asked' = asked + 1
  /\ UNCHANGED defs

(* an error, which ends the compiler *)
Refuse(scope, t) ==
  /\ Ask(scope, t)
  /\ Unwound(scope, t) = Failure
  /\ mode' = "failed"
  /\ bySite' = (<<scope, t>> :> 0) @@ bySite
  /\ UNCHANGED <<objs, bySig>>

Share(scope, t) ==
  /\ Ask(scope, t)
  /\ \E root \in {Unwound(scope, t)} :
       /\ root # Failure
       /\ ~Fresh(Signature(root))
       /\ bySite' = (<<scope, t>> :> bySig[Signature(root)]) @@ bySite
  /\ UNCHANGED <<objs, bySig, mode>>

Create(scope, t) ==
  /\ Ask(scope, t)
  /\ \E root \in {Unwound(scope, t)} :
       /\ root # Failure
       /\ Fresh(Signature(root))
       /\ objs' = Append(objs, [root |-> root, layout |-> Layout(root)])
       /\ bySite' = (<<scope, t>> :> Len(objs) + 1) @@ bySite
       /\ bySig' = (Signature(root) :> Len(objs) + 1) @@ bySig
  /\ UNCHANGED mode

Next ==
  \E scope \in Scopes, t \in Asks :
    Refuse(scope, t) \/ Share(scope, t) \/ Create(scope, t)

Spec == Init /\ [][Next]_vars

(***************************************************************************)
(* What types mean, from the definitions alone.  A site is a type at a     *)
(* scope; a name at a site means the definition visible there.             *)
(***************************************************************************)
HomeOf(x) == Home(x[1], x[2].name)
IsName(x) == x[2].kind = "name"
Defined(x) == ~IsName(x) \/ HomeOf(x) # 0
IsAlias(x) == IsName(x) /\ Defined(x) /\ defs[HomeOf(x)][x[2].name].kind = "alias"
IsStruct(x) == IsName(x) /\ Defined(x) /\ ~IsAlias(x)

(* what a type is written with, in order *)
Parts(x) ==
  LET t == x[2] IN
  CASE t.kind = "ptr" -> <<<<x[1], t.to>>>>
    [] t.kind = "arr" -> <<<<x[1], t.of>>>>
    [] t.kind = "tuple" -> [i \in DOMAIN t.members |-> <<x[1], t.members[i]>>]
    [] t.kind = "name" /\ Defined(x) ->
         [i \in DOMAIN defs[HomeOf(x)][t.name].members |->
            <<HomeOf(x), defs[HomeOf(x)][t.name].members[i]>>]
    [] OTHER -> <<>>
PartsOf(x) == ToSet(Parts(x))
PartsByValue(x) == IF x[2].kind = "ptr" THEN {} ELSE PartsOf(x)
PartsOfUnnamed(x) == IF IsStruct(x) THEN {} ELSE PartsOf(x)

Closure(Edges(_), S) ==
  LET RECURSIVE From(_)
      From(R) == LET T == R \union UNION {Edges(x) : x \in R}
                 IN IF T = R THEN R ELSE From(T)
  IN From(S)

(* every type that x refers to has a definition, no type contains itself,  *)
(* and none is written with itself without a struct between                *)
Meaningful(x) ==
  \A y \in Closure(PartsOf, {x}) :
    /\ Defined(y)
    /\ y \notin Closure(PartsByValue, PartsByValue(y))
    /\ y \notin Closure(PartsOfUnnamed, PartsOfUnnamed(y))

(* one name with a meaning in either scope *)
Shadowing == \E n \in Names : \A s \in Scopes : defs[s][n].kind # "none"

(* an alias on a cycle of definitions *)
AliasOnCycle(x) ==
  \E y \in Closure(PartsOf, {x}) : IsAlias(y) /\ y \in Closure(PartsOf, PartsOf(y))

RECURSIVE Dealiased(_)
Dealiased(x) == IF IsAlias(x) THEN Dealiased(Parts(x)[1]) ELSE x

(* the definition a struct has, by scope and name *)
Identity(x) == IF IsStruct(x) THEN <<HomeOf(x), x[2].name>> ELSE <<0, "">>

(* The type at a site, whatever it is written with and wherever: aliases   *)
(* are gone, and a struct is the definition that the name has there.       *)
RECURSIVE Canonical(_)
Canonical(x) ==
  LET y == Dealiased(x)
      parts == IF IsStruct(y) THEN <<>> ELSE Parts(y)
  IN <<y[2].kind, Identity(y), Label(y[2]), [i \in DOMAIN parts |-> Canonical(parts[i])]>>

(* the nodes of a tree with the sites they stand for *)
RECURSIVE NodeSites(_, _, _)
NodeSites(root, p, x) ==
  LET y == Dealiased(x)
      kids == DOMAIN Kids(NodeAt(root, p)) \intersect DOMAIN Parts(y)
  IN {<<p, y>>} \union UNION {NodeSites(root, p \o <<i>>, Parts(y)[i]) : i \in kids}

LeastFrom(n, a) == CHOOSE m \in n .. n + a - 1 : m % a = 0

(* the layout C gives: each field at the next place its alignment allows,  *)
(* the size a multiple of the strictest alignment                          *)
RECURSIVE CAlign(_)
CAlign(x) ==
  LET y == Dealiased(x) IN
  CASE y[2].kind = "prim" -> y[2].size
    [] y[2].kind = "ptr" -> PtrSize
    [] OTHER -> Max({1} \union {CAlign(z) : z \in PartsOf(y)})
RECURSIVE CSize(_)
RECURSIVE COffset(_, _)
COffset(x, i) ==
  IF i = 1 THEN 0
  ELSE LeastFrom(COffset(x, i - 1) + CSize(Parts(x)[i - 1]), CAlign(Parts(x)[i]))
CSize(x) ==
  LET y == Dealiased(x)
      n == Len(Parts(y))
  IN CASE y[2].kind = "prim" -> y[2].size
       [] y[2].kind = "ptr" -> PtrSize
       [] y[2].kind = "arr" -> y[2].len * CSize(Parts(y)[1])
       [] OTHER -> IF n = 0 THEN 0
                   ELSE LeastFrom(COffset(y, n) + CSize(Parts(y)[n]), CAlign(y))

HasCLayout(l, x) ==
  /\ l.size = CSize(x)
  /\ IsStruct(x) => \A i \in DOMAIN Parts(x) : l.offsets[i] = COffset(x, i)

Accepted == {x \in DOMAIN bySite : bySite[x] # 0}
ObjectOf(x) == objs[bySite[x]]

(***************************************************************************)
(* Properties                                                              *)
(***************************************************************************)

(* The tables lead to objects, and an error is final (catype_get_by_name). *)
TypeOK ==
  /\ mode \in {"run", "failed"}
  /\ asked \in 0 .. MaxAsks
  /\ \A x \in DOMAIN bySite : bySite[x] \in 0 .. Len(objs)
  /\ mode = "failed" <=> \E x \in DOMAIN bySite : bySite[x] = 0
  /\ \A sig \in DOMAIN bySig : bySig[sig] \in 1 .. Len(objs)

(* What the compiler accepts has a meaning: whatever refers to whatever,   *)
(* through pointers too, no type it lays out contains itself               *)
(* (rcheckset and prenamemap of catype_unwind_type_name); and the type     *)
(* that was asked for has got its size, not the mark that it is pending.   *)
AcceptedHaveMeaning ==
  \A x \in Accepted :
    /\ Shadowing \/ Meaningful(x)
    /\ ObjectOf(x).root.size # Calculating

(* A type that has a meaning is not refused, in whatever order types are   *)
(* asked for.  Exempt: names that mean different things in the two scopes  *)
(* (rcheckset holds names), and cycles through an alias (prenamemap has no *)
(* object for an alias).                                                   *)
RefusedHaveNoMeaning ==
  \A x \in DOMAIN bySite \ Accepted :
    Meaningful(x) => Shadowing \/ AliasOnCycle(x)

(* The object found for a type has the structure its definitions say, and  *)
(* a reference back leads to the struct that is meant, also when the       *)
(* object was made for another name (s_type_map).                          *)
ObjectsAreTheirTypes ==
  ~Shadowing =>
    \A x \in Accepted :
      LET root == ObjectOf(x).root
          sites == NodeSites(root, <<>>, x)
      IN \A s \in sites :
           LET o == NodeAt(root, s[1])
               y == s[2]
           IN /\ CASE IsStruct(y) -> o.kind \in {"struct", "back"} /\ o.name = y[2].name
                   [] y[2].kind = "tuple" -> o.kind = "struct" /\ o.name = ""
                   [] OTHER -> o.kind = y[2].kind
              /\ Len(Kids(o)) = IF o.kind = "back" THEN 0 ELSE Len(Parts(y))
              /\ o.kind = "back" =>
                   \A z \in sites : z[1] = Object(root, s[1]) => Identity(z[2]) = Identity(y)

(* One type, one object: types are compared by the signature of their      *)
(* objects (catype_check_identical), and s_symtable_type_map has an entry  *)
(* of its own for every scope a type is asked for in.  An alias, and the   *)
(* same struct seen from another scope, by its name or in a pointer, array *)
(* or tuple, must lead to the same object, whichever was asked for first.  *)
SameTypeSameObject ==
  \A x, y \in Accepted :
    Meaningful(x) /\ Meaningful(y) /\ Canonical(x) = Canonical(y) => bySite[x] = bySite[y]

(* In every object, each part whose size the unwinding could tell gets the *)
(* size and offsets of the C layout, however often the layout comes past   *)
(* it through pointers (catype_formalize_type_layout).                     *)
SizedPartsHaveCLayout ==
  ~Shadowing =>
    \A x \in Accepted :
      LET made == ObjectOf(x) IN
      \A s \in NodeSites(made.root, <<>>, x) :
        NodeAt(made.root, s[1]).size # Calculating =>
          HasCLayout(made.layout[s[1]], s[2])

(* A type may refer to itself without forming a circle: the comment above  *)
(* catype_get_by_name.  The code refuses a struct that does so through an  *)
(* alias when the alias is asked for first.                                *)
RecursiveTypesAreAccepted ==
  ~Shadowing => \A x \in DOMAIN bySite \ Accepted : ~Meaningful(x)

(* Every part has its layout.  The code passes over a field that is being  *)
(* laid out further up, and leaves a struct or array behind a pointer      *)
(* that contains an enclosing struct too small.                            *)
PartsHaveCLayout ==
  ~Shadowing =>
    \A x \in Accepted :
      \A s \in NodeSites(ObjectOf(x).root, <<>>, x) :
        LET p == Object(ObjectOf(x).root, s[1])
        IN HasCLayout(ObjectOf(x).layout[p], s[2])

(* A name means the definition that is visible where it is written.  The   *)
(* code compares names: a struct of the outer scope that refers to the     *)
(* outer A means the inner one when it is reached from there.              *)
NamesMeanVisible ==
  \A x \in DOMAIN bySite \ Accepted : Meaningful(x) => AliasOnCycle(x)
=============================================================================
