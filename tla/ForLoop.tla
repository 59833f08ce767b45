------------------------------ MODULE ForLoop ------------------------------
(***************************************************************************)
(* The run of the code that walk_for emits for nested for loops.  Loop d   *)
(* has an index slot and an item slot in the entry block of the function.  *)
(* Entering the loop loads the two ends of the list from memory, once, and *)
(* stores the first into the index slot; condbb compares the index with    *)
(* the other end; loopbb copies the index to the item slot and steps the   *)
(* index before the body runs, so that continue may branch to condbb.      *)
(*                                                                         *)
(* A value is the number its bits mean in the item type; the add wraps.    *)
(* An array is a list of the positions from 0, exclusive, in size_t: which *)
(* element a position holds is left out, and so is the item of a loop over *)
(* pointers.  Loop d + 1 stands in the body of loop d.                     *)
(***************************************************************************)
EXTENDS Integers, FiniteSets

CONSTANTS
  Types,      (* integer types: [signed, lo, hi, ends], the values lo .. hi *)
              (* and those of them that lists are written with             *)
  Depth,      (* bound: nested loops                                       *)
  MaxWrites   (* bound: assignments the bodies execute, in all             *)

ASSUME TypesAssumption ==
  \A t \in Types :
    /\ t.lo \in Int /\ t.hi \in Int /\ t.lo <= t.hi
    /\ t.signed \in BOOLEAN
    /\ t.ends \subseteq t.lo .. t.hi
    /\ ~t.signed => t.lo = 0

ASSUME DepthAssumption == Depth \in Nat \ {0} /\ MaxWrites \in Nat

VARIABLES
  form,     (* per loop, the type of its list, fixed when it was compiled  *)
  list,     (* per loop, the memory of its list                            *)
  ran,      (* per loop, the ends loaded when it was last entered          *)
  idx,      (* per loop, the index slot                                    *)
  item,     (* per loop, the slot of the item variable                     *)
  count,    (* per loop, bodies begun since it was last entered            *)
  pc,       (* the loop and the block control is in                        *)
  writes    (* assignments executed                                        *)

vars == <<form, list, ran, idx, item, count, pc, writes>>

Loops == 1 .. Depth
Values(t) == t.lo .. t.hi

Forms == [array : BOOLEAN, type : Types, inclusive : BOOLEAN]

(* an array is indexed by an unsigned type, exclusive; a list of it starts *)
(* at 0                                                                    *)
IsForm(f) == f.array => ~f.type.signed /\ ~f.inclusive
Lists(f) == [start : IF f.array THEN {0} ELSE f.type.ends, end : f.type.ends]

(* aux_create_compare_value_for: an unsigned comparison takes a number     *)
(* with the sign bit for the greater one                                   *)
LessUnsigned(a, b) == IF (a < 0) = (b < 0) THEN a < b ELSE b < 0
Less(f, a, b) == IF f.type.signed THEN a < b ELSE LessUnsigned(a, b)

(* mutant: the inclusive comparison is not selected *)
CompareExclusive(f, a, b) == Less(f, a, b)

Compare(f, a, b) == Less(f, a, b) \/ (f.inclusive /\ a = b)

(* mutant: the add is done in a wider type *)
StepWider(t, v) == v + 1

(* the add of one, in the bits of the type *)
Step(t, v) == IF v = t.hi THEN t.lo ELSE v + 1

(* bound: the count stops above the number of the values of the type *)
Tally(t, n) == IF n > t.hi - t.lo THEN n ELSE n + 1

At(d, block) == pc = <<d, block>>

(* mutant: g_loop_controls is not popped after the body *)
InnermostUnpopped(p) == p[1]

(* The innermost loop around the place, 0 outside of all loops; for code   *)
(* of a body it was the top of g_loop_controls when the code was compiled. *)
Innermost(p) == IF p[2] = "endloopbb" THEN p[1] - 1 ELSE p[1]

InBody(d) == pc[2] # "condbb" /\ Innermost(pc) = d

Init ==
  /\ form \in [Loops -> {f \in Forms : IsForm(f)}]
  /\ list \in {l \in [Loops -> UNION {Lists(form[d]) : d \in Loops}] :
                 \A d \in Loops : l[d] \in Lists(form[d])}
  /\ ran = [d \in Loops |-> [start |-> form[d].type.lo, end |-> form[d].type.lo]]
  /\ idx = [d \in Loops |-> form[d].type.lo]
  /\ item = [d \in Loops |-> form[d].type.lo]
  /\ count = [d \in Loops |-> 0]
  /\ pc = <<0, "loopbb">>
  /\ writes = 0

(* mutant: the store to the index slot is in the entry block too *)
EnterKeepsIndex(d) ==
  /\ At(d - 1, "loopbb")
  /\ ran' = [ran EXCEPT ![d] = list[d]]
  /\ count' = [count EXCEPT ![d] = 0]
  /\ pc' = <<d, "condbb">>
  /\ UNCHANGED <<form, list, idx, item, writes>>

(* walk_for up to the branch to condbb, in the body of the loop around it *)
Enter(d) ==
  /\ At(d - 1, "loopbb")
  /\ ran' = [ran EXCEPT ![d] = list[d]]
  /\ idx' = [idx EXCEPT ![d] = list[d].start]
  /\ count' = [count EXCEPT ![d] = 0]
  /\ pc' = <<d, "condbb">>
  /\ UNCHANGED <<form, list, item, writes>>

(* condbb with a member left, and loopbb up to the body *)
Iterate(d) ==
  /\ At(d, "condbb")
  /\ Compare(form[d], idx[d], ran[d].end)
  /\ item' = [item EXCEPT ![d] = idx[d]]
  /\ idx' = [idx EXCEPT ![d] = Step(form[d].type, idx[d])]
  /\ count' = [count EXCEPT ![d] = Tally(form[d].type, count[d])]
  /\ pc' = <<d, "loopbb">>
  /\ UNCHANGED <<form, list, ran, writes>>

(* condbb with none left *)
Exhaust(d) ==
  /\ At(d, "condbb")
  /\ ~Compare(form[d], idx[d], ran[d].end)
  /\ pc' = <<d, "endloopbb">>
  /\ UNCHANGED <<form, list, ran, idx, item, count, writes>>

(* continue, or the end of the body *)
NextRound(d) ==
  /\ InBody(d)
  /\ pc' = <<d, "condbb">>
  /\ UNCHANGED <<form, list, ran, idx, item, count, writes>>

Break(d) ==
  /\ InBody(d)
  /\ pc' = <<d, "endloopbb">>
  /\ UNCHANGED <<form, list, ran, idx, item, count, writes>>

(* mutant: the item variable is the index slot *)
AssignItemIsIndex(d, v) ==
  /\ writes < MaxWrites
  /\ \E e \in d .. Depth : InBody(e)
  /\ item' = [item EXCEPT ![d] = v]
  /\ idx' = [idx EXCEPT ![d] = v]
  /\ writes' = writes + 1
  /\ UNCHANGED <<form, list, ran, count, pc>>

(* The body assigns to the item variable of a loop it is in. *)
AssignItem(d, v) ==
  /\ writes < MaxWrites
  /\ \E e \in d .. Depth : InBody(e)
  /\ item' = [item EXCEPT ![d] = v]
  /\ writes' = writes + 1
  /\ UNCHANGED <<form, list, ran, idx, count, pc>>

(* Some body assigns to the variable a loop has for its list; the bounds   *)
(* of an array are part of its type.                                       *)
AssignList(d, r) ==
  /\ writes < MaxWrites
  /\ ~form[d].array
  /\ \E e \in Loops : InBody(e)
  /\ list' = [list EXCEPT ![d] = r]
  /\ writes' = writes + 1
  /\ UNCHANGED <<form, ran, idx, item, count, pc>>

Control == \E d \in Loops :
  \/ Enter(d)
  \/ Iterate(d)
  \/ Exhaust(d)
  \/ NextRound(d)
  \/ Break(d)

Next ==
  \/ Control
  \/ \E d \in Loops : \E v \in Values(form[d].type) : AssignItem(d, v)
  \/ \E d \in Loops : \E r \in Lists(form[d]) : AssignList(d, r)

(* Compiled code runs on: a processor does not stop between instructions.  *)
Spec == Init /\ [][Next]_vars /\ WF_vars(Next)

(***************************************************************************)
(* Properties.                                                             *)
(***************************************************************************)


(* the number of the loops control is in *)
Within == IF pc[2] = "endloopbb" THEN pc[1] - 1 ELSE pc[1]

(* a loop over an inclusive range that ends with the type's greatest value *)
Endless(d) == form[d].inclusive /\ ran[d].end = form[d].type.hi

Members(d) ==
  IF form[d].inclusive THEN ran[d].start .. ran[d].end
  ELSE ran[d].start .. ran[d].end - 1

(* Every slot holds a value of its type. *)
TypeOK ==
  /\ form \in [Loops -> {f \in Forms : IsForm(f)}]
  /\ DOMAIN list = Loops /\ DOMAIN ran = Loops
  /\ DOMAIN idx = Loops /\ DOMAIN item = Loops
  /\ \A d \in Loops :
       /\ list[d] \in Lists(form[d])
       /\ ran[d] \in [start : Values(form[d].type), end : Values(form[d].type)]
       /\ idx[d] \in Values(form[d].type)
       /\ item[d] \in Values(form[d].type)
  /\ count \in [Loops -> Nat]
  /\ pc \in (0 .. Depth) \X {"condbb", "loopbb", "endloopbb"}
  /\ writes \in 0 .. MaxWrites

(* A body that assigns to the item, to the list or to an inner loop's list *)
(* changes nothing about which values the loop visits: the n-th body gets  *)
(* the n-th member of the list the loop was entered with.                  *)
ItemsInOrder ==
  [][\A d \in Loops : Iterate(d) /\ ~Endless(d) =>
       item'[d] = ran[d].start + count[d] /\ item'[d] \in Members(d)]_vars

(* A loop that ends at its condition has visited every member once. *)
AllMembersVisited ==
  [][\A d \in Loops : Exhaust(d) => count[d] = Cardinality(Members(d))]_vars

(* The code after the outermost loop is reached unless some loop was       *)
(* entered whose list includes the greatest value of its type.             *)
Terminates ==
  <>(At(1, "endloopbb") \/ \E d \in 1 .. Within : Endless(d))

(* ForEach, with what is still to visit read off the index slot. *)
Todo(d) ==
  {v \in Values(form[d].type) :
     idx[d] <= v /\ (v < ran[d].end \/ (form[d].inclusive /\ v = ran[d].end))}

ToVisit(d) ==
  [todo  |-> Todo(d),
   again |-> IF Endless(d) THEN Values(form[d].type) ELSE {}]

AsInterval(f, l) ==
  [lo |-> f.type.lo, hi |-> f.type.hi, first |-> l.start,
   last |-> IF f.inclusive THEN l.end ELSE l.end - 1]

AllLists == UNION {{AsInterval(f, l) : l \in Lists(f)} : f \in {g \in Forms : IsForm(g)}}
AsLists == [d \in Loops |-> AsInterval(form[d], list[d])]
AsRunning == [d \in 1 .. Within |-> ToVisit(d)]

Abstract == INSTANCE ForEach WITH
  Iterables <- AllLists, lists <- AsLists, running <- AsRunning

ImplementsForEach == Abstract!Spec
=============================================================================
