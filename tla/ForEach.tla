------------------------------ MODULE ForEach ------------------------------
(***************************************************************************)
(* What a nest of for loops over ranges promises: each time a loop is      *)
(* begun it visits the members of the range it was begun with, the least   *)
(* first, each once, whatever the statements of the body assign, unless it *)
(* is left early.  A range that includes the greatest value of its type is *)
(* the one exception: after that value the loop goes on with the least.    *)
(***************************************************************************)
EXTENDS Integers, Sequences

CONSTANTS
  Iterables,  (* the lists: [lo, hi, first, last], the members first ..    *)
              (* last of an integer type with the values lo .. hi          *)
  Depth       (* loops in the nest                                         *)

VARIABLES
  lists,      (* per loop, the list it would be begun with now             *)
  running     (* the loops being executed, the innermost last: the members *)
              (* still to visit and the set to go on with                  *)

Init ==
  /\ lists \in [1 .. Depth -> Iterables]
  /\ running = <<>>

Innermost == running[Len(running)]
Outer == [i \in 1 .. Len(running) - 1 |-> running[i]]

Begin ==
  /\ Len(running) < Depth
  /\ LET l == lists[Len(running) + 1]
     IN running' = Append(running,
          [todo  |-> l.first .. l.last,
           again |-> IF l.last = l.hi THEN l.lo .. l.hi ELSE {}])
  /\ UNCHANGED lists

IsLeast(v, S) == \A w \in S : v <= w

Visit ==
  /\ running # <<>>
  /\ \E v \in Innermost.todo : IsLeast(v, Innermost.todo) /\
     LET rest == Innermost.todo \ {v}
     IN running' = Append(Outer,
          [Innermost EXCEPT !.todo = IF rest = {} THEN Innermost.again ELSE rest])
  /\ UNCHANGED lists

(* all members are visited, or a break *)
Leave ==
  /\ running # <<>>
  /\ running' = Outer
  /\ UNCHANGED lists

Assign(d, l) ==
  /\ lists' = [lists EXCEPT ![d] = l]
  /\ UNCHANGED running

Next ==
  \/ Begin
  \/ Visit
  \/ Leave
  \/ \E d \in 1 .. Depth : \E l \in Iterables : Assign(d, l)

Spec == Init /\ [][Next]_<<lists, running>>
=============================================================================
