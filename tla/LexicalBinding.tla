--------------------------- MODULE LexicalBinding ---------------------------
(***************************************************************************)
(* What variable shielding promises: the sequential meaning of re-binding. *)
(* Every name of every scope has a binding in force, numbered from one; a  *)
(* statement that binds a set of names makes the next binding of each of   *)
(* them the one in force; a reference denotes the binding in force.        *)
(* Nothing is kept in lists and nothing is rotated.                        *)
(***************************************************************************)
EXTENDS Naturals

CONSTANTS
  Entry,      (* the (scope, name) pairs                                   *)
  ParamEntry  (* those bound on entry to the function                      *)

VARIABLES
  inforce,    (* the number of the binding in force; 0: none yet           *)
  seen        (* the last reference: what was asked for and what was found *)

bindingVars == <<inforce, seen>>

AtEntry == [e \in Entry |-> IF e \in ParamEntry THEN 1 ELSE 0]
Nothing == [ent |-> {}, got |-> 0]

Init == inforce = AtEntry /\ seen = Nothing

(* a reference finds the binding in force *)
Refer(e) ==
  /\ inforce[e] > 0
  /\ seen' = [ent |-> {e}, got |-> inforce[e]]
  /\ UNCHANGED inforce

(* the type found for a right-hand side is given to the binding that is    *)
(* about to come into force                                                *)
Foresee(e) ==
  /\ seen' = [ent |-> {e}, got |-> inforce[e] + 1]
  /\ UNCHANGED inforce

(* a binding: one of the names it binds is stored to *)
Rebind(S) ==
  /\ inforce' = [e \in Entry |-> IF e \in S THEN inforce[e] + 1 ELSE inforce[e]]
  /\ \E e \in S : seen' = [ent |-> {e}, got |-> inforce'[e]]

Forget == UNCHANGED inforce /\ seen' = Nothing

(* the function is entered afresh, or left *)
Restart == inforce' = AtEntry /\ seen' = Nothing

Next ==
  \/ \E e \in Entry : Refer(e) \/ Foresee(e)
  \/ \E S \in SUBSET Entry : Rebind(S)
  \/ Forget \/ Restart

Spec == Init /\ [][Next]_bindingVars
=============================================================================
