--------------------------- MODULE ForLoopProofs ---------------------------
(***************************************************************************)
(* Proofs about ForLoop, for every set of integer types, every depth of    *)
(* the nest and every number of assignments.                               *)
(*                                                                         *)
(* The argument.  While control is in loop d or just after it, the index   *)
(* is the start of the list the loop was entered with plus the number of   *)
(* bodies begun (Progress), unless the list includes the greatest value    *)
(* of its type.  The index never passes the end by more than one step, so  *)
(* the add does not wrap; and the slots of loop d are written by Enter(d), *)
(* Iterate(d) alone, never by an assignment of a body.                     *)
(***************************************************************************)
EXTENDS ForLoop, FiniteSetTheorems, SequenceTheorems, TLAPS

Progress(d) ==
  (pc[1] >= d /\ ~Endless(d)) =>
    /\ idx[d] = ran[d].start + count[d]
    /\ count[d] = 0 \/ idx[d] - 1 \in Members(d)

(* outside of all loops control is before the outermost *)
OutsideIsBefore == pc[1] = 0 => pc[2] = "loopbb"

IndInv == TypeOK /\ OutsideIsBefore /\ \A d \in Loops : Progress(d)

(***************************************************************************)
(* Types, comparisons and the add.                                         *)
(***************************************************************************)

(* What a form and its type consist of. *)
LEMMA FormFacts ==
  ASSUME NEW f \in Forms, IsForm(f)
  PROVE  /\ f.type \in Types
         /\ f.type.lo \in Int /\ f.type.hi \in Int /\ f.type.lo <= f.type.hi
         /\ f.type.signed \in BOOLEAN /\ f.inclusive \in BOOLEAN
         /\ ~f.type.signed => f.type.lo = 0
         /\ f.type.ends \subseteq Values(f.type)
  BY TypesAssumption DEF Forms, IsForm, Values

(* On the values of the type the emitted comparison is the mathematical    *)
(* one, whichever of signed and unsigned is selected.                      *)
LEMMA CompareIsOrder ==
  ASSUME NEW f \in Forms, IsForm(f), NEW a \in Values(f.type), NEW b \in Values(f.type)
  PROVE  Compare(f, a, b) <=> (a < b \/ (f.inclusive /\ a = b))
<1>1. f.type.lo \in Int /\ f.type.hi \in Int /\ (~f.type.signed => f.type.lo = 0)
  BY FormFacts
<1>2. a \in Int /\ b \in Int /\ (~f.type.signed => a >= 0 /\ b >= 0)
  BY <1>1 DEF Values
<1> QED BY <1>2 DEF Compare, Less, LessUnsigned

(* A list of an array starts at 0, the least value of its index type. *)
LEMMA ListsAreInType ==
  ASSUME NEW f \in Forms, IsForm(f), NEW l \in Lists(f)
  PROVE  l \in [start : Values(f.type), end : Values(f.type)]
<1>1. f.type.lo \in Int /\ f.type.hi \in Int /\ f.type.lo <= f.type.hi
      /\ f.type.ends \subseteq Values(f.type)
  BY FormFacts
<1>2. f.array => f.type.lo = 0
  BY FormFacts DEF IsForm
<1>3. f.array => 0 \in Values(f.type)
  BY <1>1, <1>2 DEF Values
<1> QED BY <1>1, <1>3 DEF Lists

(***************************************************************************)
(* The invariant.                                                          *)
(***************************************************************************)

LEMMA InitIndInv == Init => IndInv
<1> SUFFICES ASSUME Init PROVE IndInv
  OBVIOUS
<1>1. form \in [Loops -> {f \in Forms : IsForm(f)}]
  BY DEF Init
<1>2. \A d \in Loops :
        /\ form[d] \in Forms /\ IsForm(form[d])
        /\ form[d].type.lo \in Values(form[d].type)
        /\ form[d].type.lo \in Int
  <2> TAKE d \in Loops
  <2>1. form[d] \in Forms /\ IsForm(form[d])
    BY <1>1
  <2> QED BY <2>1, FormFacts DEF Values
<1>3. \A d \in Loops : list[d] \in Lists(form[d])
  BY DEF Init
<1>4. DOMAIN list = Loops
  BY DEF Init
<1>5. pc \in (0 .. Depth) \X {"condbb", "loopbb", "endloopbb"} /\ writes \in 0 .. MaxWrites
  BY DepthAssumption DEF Init
<1>6. TypeOK
  BY <1>1, <1>2, <1>3, <1>4, <1>5 DEF Init, TypeOK
<1>7. \A d \in Loops : ~(pc[1] >= d)
  BY DepthAssumption DEF Init, Loops
<1>8. OutsideIsBefore
  BY DEF Init, OutsideIsBefore
<1> QED BY <1>6, <1>7, <1>8 DEF IndInv, Progress

(* What TypeOK says of one loop, with the numbers behind it. *)
LEMMA LoopFacts ==
  ASSUME TypeOK, NEW d \in Loops
  PROVE  /\ form[d] \in Forms /\ IsForm(form[d])
         /\ form[d].type.lo \in Int /\ form[d].type.hi \in Int
         /\ form[d].inclusive \in BOOLEAN
         /\ list[d] \in [start : Values(form[d].type), end : Values(form[d].type)]
         /\ ran[d] \in [start : Values(form[d].type), end : Values(form[d].type)]
         /\ idx[d] \in Values(form[d].type) /\ idx[d] \in Int
         /\ ran[d].start \in Int /\ ran[d].end \in Values(form[d].type) /\ ran[d].end \in Int
         /\ count[d] \in Nat
         /\ pc = <<pc[1], pc[2]>> /\ pc[1] \in 0 .. Depth
<1>1. form[d] \in Forms /\ IsForm(form[d])
  BY DEF TypeOK
<1>2. form[d].type.lo \in Int /\ form[d].type.hi \in Int /\ form[d].inclusive \in BOOLEAN
  BY <1>1, FormFacts
<1>3. list[d] \in [start : Values(form[d].type), end : Values(form[d].type)]
  BY <1>1, ListsAreInType DEF TypeOK
<1>4. ran[d] \in [start : Values(form[d].type), end : Values(form[d].type)]
      /\ idx[d] \in Values(form[d].type) /\ count[d] \in Nat
  BY DEF TypeOK
<1>5. pc = <<pc[1], pc[2]>> /\ pc[1] \in 0 .. Depth
  BY DEF TypeOK
<1> QED BY <1>1, <1>2, <1>3, <1>4, <1>5 DEF Values

(* In a loop that does not reach the greatest value the add of a member    *)
(* neither wraps nor stops the count.                                      *)
LEMMA MembersBelowGreatest ==
  ASSUME TypeOK, NEW d \in Loops, ~Endless(d), Progress(d), pc[1] >= d,
         Compare(form[d], idx[d], ran[d].end)
  PROVE  /\ idx[d] \in Members(d)
         /\ idx[d] < form[d].type.hi
         /\ Step(form[d].type, idx[d]) = idx[d] + 1
         /\ Tally(form[d].type, count[d]) = count[d] + 1
<1>0. /\ idx[d] \in Int /\ ran[d].start \in Int /\ ran[d].end \in Int /\ count[d] \in Nat
      /\ form[d].type.lo \in Int /\ form[d].type.hi \in Int
      /\ form[d].inclusive \in BOOLEAN
      /\ form[d].type.lo <= ran[d].start
      /\ ran[d].end <= form[d].type.hi
  BY LoopFacts DEF Values
<1>1. idx[d] < ran[d].end \/ (form[d].inclusive /\ idx[d] = ran[d].end)
  BY LoopFacts, CompareIsOrder
<1>2. idx[d] = ran[d].start + count[d]
  BY DEF Progress
<1>3. idx[d] < form[d].type.hi
  BY <1>0, <1>1 DEF Endless
<1>4. idx[d] \in Members(d)
  BY <1>0, <1>1, <1>2 DEF Members
<1>5. ~(count[d] > form[d].type.hi - form[d].type.lo)
  BY <1>0, <1>2, <1>3
<1> QED BY <1>0, <1>3, <1>4, <1>5 DEF Step, Tally

(* A value of the type has a successor of the type. *)
LEMMA StepInType ==
  ASSUME NEW f \in Forms, IsForm(f), NEW v \in Values(f.type)
  PROVE  Step(f.type, v) \in Values(f.type)
<1>1. f.type.lo \in Int /\ f.type.hi \in Int /\ f.type.lo <= f.type.hi
  BY FormFacts
<1> QED BY <1>1 DEF Values, Step

LEMMA TallyIsNat ==
  ASSUME NEW f \in Forms, IsForm(f), NEW n \in Nat
  PROVE  Tally(f.type, n) \in Nat
<1>1. f.type.lo \in Int /\ f.type.hi \in Int
  BY FormFacts
<1> QED BY <1>1 DEF Tally

(***************************************************************************)
(* Every action keeps the types.                                           *)
(***************************************************************************)

LEMMA TypeStep == TypeOK /\ [Next]_vars => TypeOK'
<1> SUFFICES ASSUME TypeOK, [Next]_vars PROVE TypeOK'
  OBVIOUS
<1> USE DepthAssumption
<1>1. ASSUME NEW d \in Loops, Enter(d) PROVE TypeOK'
  <2>1. list[d] \in [start : Values(form[d].type), end : Values(form[d].type)]
    BY LoopFacts
  <2>2. ran' = [ran EXCEPT ![d] = list[d]] /\ idx' = [idx EXCEPT ![d] = list[d].start]
        /\ count' = [count EXCEPT ![d] = 0] /\ pc' = <<d, "condbb">>
        /\ UNCHANGED <<form, list, item, writes>>
    BY <1>1 DEF Enter
  <2>3. pc' \in (0 .. Depth) \X {"condbb", "loopbb", "endloopbb"}
    BY <2>2 DEF Loops
  <2> QED BY <2>1, <2>2, <2>3 DEF TypeOK
<1>2. ASSUME NEW d \in Loops, Iterate(d) PROVE TypeOK'
  <2>1. Step(form[d].type, idx[d]) \in Values(form[d].type)
    BY LoopFacts, StepInType
  <2>2. idx[d] \in Values(form[d].type)
    BY LoopFacts
  <2>3. Tally(form[d].type, count[d]) \in Nat
    BY LoopFacts, TallyIsNat
  <2>4. item' = [item EXCEPT ![d] = idx[d]]
        /\ idx' = [idx EXCEPT ![d] = Step(form[d].type, idx[d])]
        /\ count' = [count EXCEPT ![d] = Tally(form[d].type, count[d])]
        /\ pc' = <<d, "loopbb">> /\ UNCHANGED <<form, list, ran, writes>>
    BY <1>2 DEF Iterate
  <2>5. pc' \in (0 .. Depth) \X {"condbb", "loopbb", "endloopbb"}
    BY <2>4 DEF Loops
  <2> QED BY <2>1, <2>2, <2>3, <2>4, <2>5 DEF TypeOK
<1>3. ASSUME NEW d \in Loops, Exhaust(d) \/ NextRound(d) \/ Break(d) PROVE TypeOK'
  <2>1. pc' \in (0 .. Depth) \X {"condbb", "loopbb", "endloopbb"}
    BY <1>3 DEF Loops, Exhaust, NextRound, Break
  <2>2. UNCHANGED <<form, list, ran, idx, item, count, writes>>
    BY <1>3 DEF Exhaust, NextRound, Break
  <2> QED BY <2>1, <2>2 DEF TypeOK
<1>4. ASSUME NEW d \in Loops, NEW v \in Values(form[d].type), AssignItem(d, v) PROVE TypeOK'
  <2>1. item' = [item EXCEPT ![d] = v] /\ writes' = writes + 1 /\ writes < MaxWrites
        /\ UNCHANGED <<form, list, ran, idx, count, pc>>
    BY <1>4 DEF AssignItem
  <2> QED BY <2>1 DEF TypeOK
<1>5. ASSUME NEW d \in Loops, NEW r \in Lists(form[d]), AssignList(d, r) PROVE TypeOK'
  <2>1. list' = [list EXCEPT ![d] = r] /\ writes' = writes + 1 /\ writes < MaxWrites
        /\ UNCHANGED <<form, ran, idx, item, count, pc>>
    BY <1>5 DEF AssignList
  <2> QED BY <2>1 DEF TypeOK
<1>6. CASE UNCHANGED vars
  BY <1>6 DEF vars, TypeOK
<1> QED BY <1>1, <1>2, <1>3, <1>4, <1>5, <1>6 DEF Next, Control

(* Type correctness: every slot holds a value of its type, the index       *)
(* after the add included.                                                 *)
THEOREM TypeCorrect == Spec => []TypeOK
<1>1. Init => TypeOK
  BY InitIndInv DEF IndInv
<1> QED BY <1>1, TypeStep, PTL DEF Spec

(***************************************************************************)
(* Every action keeps the progress of every loop.                          *)
(***************************************************************************)

LEMMA ProgressStep == IndInv /\ [Next]_vars => \A d \in Loops : Progress(d)'
<1> SUFFICES ASSUME IndInv, [Next]_vars, NEW e \in Loops PROVE Progress(e)'
  OBVIOUS
<1> USE DEF IndInv
<1>00. pc = <<pc[1], pc[2]>> /\ pc[1] \in 0 .. Depth /\ e \in Int
  BY LoopFacts, DepthAssumption DEF Loops
<1>0. /\ pc = <<pc[1], pc[2]>> /\ pc[1] \in 0 .. Depth /\ e \in Int
      /\ DOMAIN idx = Loops /\ DOMAIN ran = Loops
      /\ count \in [Loops -> Nat]
  BY <1>00 DEF TypeOK
<1>1. ASSUME NEW d \in Loops, Enter(d) PROVE Progress(e)'
  <2>1. pc[1] = d - 1 /\ pc'[1] = d /\ form' = form
    BY <1>1 DEF Enter, At
  <2>2. CASE e = d
    <3>1. idx'[d] = list[d].start /\ ran'[d] = list[d] /\ count'[d] = 0
      BY <1>0, <1>1 DEF Enter
    <3>2. list[d].start \in Int
      BY LoopFacts DEF Values
    <3> QED BY <2>2, <3>1, <3>2 DEF Progress
  <2>3. CASE e # d
    <3>1. idx'[e] = idx[e] /\ ran'[e] = ran[e] /\ count'[e] = count[e]
      BY <1>0, <1>1, <2>3 DEF Enter
    <3>2. pc'[1] >= e => pc[1] >= e
      BY <1>0, <2>1, <2>3 DEF Loops
    <3> QED BY <2>1, <3>1, <3>2 DEF Progress, Endless, Members
  <2> QED BY <2>2, <2>3
<1>2. ASSUME NEW d \in Loops, Iterate(d) PROVE Progress(e)'
  <2>1. pc[1] = d /\ pc'[1] = d /\ form' = form /\ ran' = ran
    BY <1>2 DEF Iterate, At
  <2>2. CASE e = d /\ ~Endless(d)
    <3>1. /\ idx[d] \in Members(d)
          /\ Step(form[d].type, idx[d]) = idx[d] + 1
          /\ Tally(form[d].type, count[d]) = count[d] + 1
      BY <1>0, <1>2, <2>1, <2>2, MembersBelowGreatest DEF Iterate
    <3>2. idx'[d] = idx[d] + 1 /\ count'[d] = count[d] + 1
      BY <1>0, <1>2, <3>1 DEF Iterate
    <3>3. idx[d] = ran[d].start + count[d]
      BY <1>0, <2>1, <2>2 DEF Progress
    <3>4. idx[d] \in Int /\ ran[d].start \in Int /\ count[d] \in Nat
      BY LoopFacts
    <3>5. idx'[d] = ran[d].start + count'[d] /\ idx'[d] - 1 = idx[d]
      BY <3>2, <3>3, <3>4
    <3>6. Members(d)' = Members(d)
      BY <2>1 DEF Members
    <3> QED BY <2>1, <2>2, <3>1, <3>5, <3>6 DEF Progress
  <2>3. CASE e = d /\ Endless(d)
    BY <2>1, <2>3 DEF Progress, Endless
  <2>4. CASE e # d
    <3>1. idx'[e] = idx[e] /\ count'[e] = count[e]
      BY <1>0, <1>2, <2>4 DEF Iterate
    <3> QED BY <2>1, <3>1 DEF Progress, Endless, Members
  <2> QED BY <2>2, <2>3, <2>4
<1>3. ASSUME NEW d \in Loops, Exhaust(d) \/ NextRound(d) \/ Break(d) PROVE Progress(e)'
  <2>1. UNCHANGED <<form, ran, idx, count>> /\ pc'[1] = d
    BY <1>3 DEF Exhaust, NextRound, Break
  <2>2. pc[1] >= d
    BY <1>0, <1>3, DepthAssumption DEF Exhaust, NextRound, Break, At, InBody, Innermost, Loops
  <2>3. pc'[1] >= e => pc[1] >= e
    BY <1>0, <2>1, <2>2 DEF Loops
  <2> QED BY <2>1, <2>3 DEF Progress, Endless, Members
<1>4. ASSUME UNCHANGED <<form, ran, idx, count, pc>> PROVE Progress(e)'
  BY <1>4 DEF Progress, Endless, Members
<1> QED BY <1>1, <1>2, <1>3, <1>4 DEF Next, Control, AssignItem, AssignList, vars

LEMMA OutsideStep == OutsideIsBefore /\ [Next]_vars => OutsideIsBefore'
  BY DEF OutsideIsBefore, Next, Control, vars, Enter, Iterate, Exhaust, NextRound, Break,
         AssignItem, AssignList, Loops

LEMMA NextIndInv == IndInv /\ [Next]_vars => IndInv'
  BY TypeStep, OutsideStep, ProgressStep DEF IndInv

LEMMA Invariance == Spec => []IndInv
  BY InitIndInv, NextIndInv, PTL DEF Spec

(***************************************************************************)
(* What the bodies see, and when a loop ends.                              *)
(***************************************************************************)

(* The n-th body gets the n-th member, whatever bodies assign. *)
THEOREM BodiesGetMembersInOrder == Spec => ItemsInOrder
<1>1. ASSUME IndInv, NEW d \in Loops, Iterate(d), ~Endless(d)
      PROVE  item'[d] = ran[d].start + count[d] /\ item'[d] \in Members(d)
  <2>1. pc[1] = d /\ d \in Int /\ Progress(d) /\ TypeOK
    BY <1>1 DEF Iterate, At, IndInv, Loops
  <2>2. item'[d] = idx[d]
    BY <1>1, <2>1 DEF Iterate, TypeOK
  <2>3. idx[d] \in Members(d)
    BY <1>1, <2>1, MembersBelowGreatest DEF Iterate
  <2> QED BY <1>1, <2>1, <2>2, <2>3 DEF Progress
<1>2. IndInv => [\A d \in Loops : Iterate(d) /\ ~Endless(d) =>
                  item'[d] = ran[d].start + count[d] /\ item'[d] \in Members(d)]_vars
  BY <1>1
<1> QED BY <1>2, Invariance, PTL DEF ItemsInOrder

(* A loop that ends at its condition has visited every member. *)
THEOREM ExhaustedLoopsVisitedAll == Spec => AllMembersVisited
<1>1. ASSUME IndInv, NEW d \in Loops, Exhaust(d)
      PROVE  count[d] = Cardinality(Members(d))
  <2>1. pc[1] = d /\ d \in Int /\ Progress(d) /\ TypeOK
    BY <1>1 DEF Exhaust, At, IndInv, Loops
  <2>2. /\ idx[d] \in Int /\ ran[d].start \in Int /\ ran[d].end \in Int /\ count[d] \in Nat
        /\ form[d].type.hi \in Int /\ form[d].inclusive \in BOOLEAN
        /\ idx[d] <= form[d].type.hi
    BY <2>1, LoopFacts DEF Values
  <2>3. ~(idx[d] < ran[d].end \/ (form[d].inclusive /\ idx[d] = ran[d].end))
    BY <1>1, <2>1, LoopFacts, CompareIsOrder DEF Exhaust
  <2>4. ~Endless(d)
    BY <2>2, <2>3 DEF Endless
  <2>5. idx[d] = ran[d].start + count[d] /\ (count[d] = 0 \/ idx[d] - 1 \in Members(d))
    BY <2>1, <2>4 DEF Progress
  <2>6. CASE form[d].inclusive
    <3>1. Members(d) = ran[d].start .. ran[d].end
      BY <2>6 DEF Members
    <3>2. count[d] = IF ran[d].start > ran[d].end THEN 0 ELSE ran[d].end - ran[d].start + 1
      BY <2>2, <2>3, <2>5, <2>6, <3>1
    <3> QED BY <2>2, <3>1, <3>2, FS_Interval
  <2>7. CASE ~form[d].inclusive
    <3>1. Members(d) = ran[d].start .. ran[d].end - 1
      BY <2>7 DEF Members
    <3>2. count[d] = IF ran[d].start > ran[d].end - 1 THEN 0
                     ELSE ran[d].end - 1 - ran[d].start + 1
      BY <2>2, <2>3, <2>5, <2>7, <3>1, SMTT(30)
    <3> QED BY <2>2, <3>1, <3>2, FS_Interval, SMTT(30)
  <2> QED BY <2>6, <2>7
<1>2. IndInv => [\A d \in Loops : Exhaust(d) => count[d] = Cardinality(Members(d))]_vars
  BY <1>1
<1> QED BY <1>2, Invariance, PTL DEF AllMembersVisited

(***************************************************************************)
(* The refinement.                                                         *)
(***************************************************************************)

LEMMA Grow ==
  ASSUME NEW S, NEW n \in Nat, NEW g \in [1 .. n + 1 -> S], NEW f,
         f = [i \in 1 .. n |-> g[i]]
  PROVE  f \in Seq(S) /\ Len(f) = n /\ Append(f, g[n + 1]) = g
<1>1. f \in [1 .. n -> S]
  OBVIOUS
<1>2. f \in Seq(S) /\ Len(f) = n
  BY <1>1, SeqDef
<1>3. g[n + 1] \in S
  OBVIOUS
<1>4. /\ Append(f, g[n + 1]) \in Seq(S)
      /\ Len(Append(f, g[n + 1])) = n + 1
      /\ \A i \in 1 .. n + 1 : Append(f, g[n + 1])[i] = g[i]
  BY <1>1, <1>2, <1>3, AppendProperties
<1>5. g \in Seq(S) /\ Len(g) = n + 1
  BY SeqDef
<1> QED BY <1>4, <1>5, SeqEqual

LEMMA WithinIsNat == IndInv => Within \in Nat /\ Within <= Depth
<1> SUFFICES ASSUME IndInv PROVE Within \in Nat /\ Within <= Depth
  OBVIOUS
<1>1. pc[1] \in 0 .. Depth /\ Depth \in Nat
  BY DepthAssumption DEF IndInv, TypeOK
<1>2. pc[2] = "endloopbb" => pc[1] # 0
  BY DEF IndInv, OutsideIsBefore
<1> QED BY <1>1, <1>2 DEF Within

(* A step that keeps the inner part of the sequence and nothing else. *)
LEMMA OuterLoops ==
  ASSUME Within \in Nat, Within' \in Nat,
         NEW k \in Nat, k <= Within, k <= Within',
         \A i \in 1 .. k : ToVisit(i)' = ToVisit(i)
  PROVE  [i \in 1 .. k |-> AsRunning[i]] = [i \in 1 .. k |-> (AsRunning')[i]]
<1>1. \A i \in 1 .. k : AsRunning[i] = ToVisit(i) /\ (AsRunning')[i] = ToVisit(i)'
  BY DEF AsRunning
<1> QED BY <1>1

LEMMA AsListsAreIterable == TypeOK => AsLists \in [Loops -> AllLists]
<1> SUFFICES ASSUME TypeOK, NEW d \in Loops PROVE AsInterval(form[d], list[d]) \in AllLists
  BY DEF AsLists
<1>1. form[d] \in {g \in Forms : IsForm(g)} /\ list[d] \in Lists(form[d])
  BY DEF TypeOK
<1> QED BY <1>1 DEF AllLists

LEMMA RefinesInit == Init => Abstract!Init
<1> SUFFICES ASSUME Init PROVE Abstract!Init
  OBVIOUS
<1>1. TypeOK
  BY InitIndInv DEF IndInv
<1>2. Within = 0
  BY DEF Init, Within
<1>3. AsRunning = <<>>
  BY <1>2 DEF AsRunning
<1> QED BY <1>1, <1>3, AsListsAreIterable DEF Abstract!Init, Loops

(* Entering a loop begins its list as it is now. *)
LEMMA RefinesEnter ==
  ASSUME IndInv, IndInv', NEW d \in Loops, Enter(d)
  PROVE  Abstract!Begin
<1>0. d \in Nat /\ d >= 1 /\ d <= Depth /\ TypeOK /\ DOMAIN ran = Loops /\ DOMAIN idx = Loops
  BY DepthAssumption DEF Loops, IndInv, TypeOK
<1>1. Within = d - 1 /\ Within' = d /\ form' = form /\ list' = list
  BY <1>0 DEF Enter, At, Within
<1>2. /\ \A i \in 1 .. d - 1 : idx'[i] = idx[i] /\ ran'[i] = ran[i]
      /\ idx'[d] = list[d].start /\ ran'[d] = list[d]
  BY <1>0 DEF Enter, Loops
<1>3. \A i \in 1 .. d - 1 : ToVisit(i)' = ToVisit(i)
  BY <1>1, <1>2 DEF ToVisit, Todo, Endless
<1>4. ToVisit(d)' = [todo  |-> AsLists[d].first .. AsLists[d].last,
                     again |-> IF AsLists[d].last = AsLists[d].hi
                               THEN AsLists[d].lo .. AsLists[d].hi ELSE {}]
  <2>1. /\ form[d].type.lo \in Int /\ form[d].type.hi \in Int
        /\ list[d].start \in Int /\ list[d].end \in Int
        /\ form[d].type.lo <= list[d].start /\ list[d].end <= form[d].type.hi
        /\ form[d].inclusive \in BOOLEAN
    BY <1>0, LoopFacts DEF Values
  <2>2. AsLists[d] = [lo |-> form[d].type.lo, hi |-> form[d].type.hi, first |-> list[d].start,
                      last |-> IF form[d].inclusive THEN list[d].end ELSE list[d].end - 1]
    BY DEF AsLists, AsInterval
  <2>3. Todo(d)' = {v \in form[d].type.lo .. form[d].type.hi : list[d].start <= v /\
                     (v < list[d].end \/ (form[d].inclusive /\ v = list[d].end))}
    BY <1>1, <1>2 DEF Todo, Values
  <2>4. Todo(d)' = AsLists[d].first .. AsLists[d].last
    BY <2>1, <2>2, <2>3
  <2>5. Endless(d)' <=> AsLists[d].last = AsLists[d].hi
    BY <1>1, <1>2, <2>1, <2>2 DEF Endless
  <2>6. ToVisit(d)' = [todo  |-> Todo(d)',
                       again |-> IF Endless(d)' THEN form[d].type.lo .. form[d].type.hi ELSE {}]
    BY <1>1 DEF ToVisit, Values
  <2>7. AsLists[d].lo = form[d].type.lo /\ AsLists[d].hi = form[d].type.hi
    BY <2>2
  <2> QED BY <2>4, <2>5, <2>6, <2>7
<1> DEFINE S == {ToVisit(i)' : i \in Loops}
<1>5. AsRunning' \in [1 .. (d - 1) + 1 -> S]
  <2>1. AsRunning' = [i \in 1 .. d |-> ToVisit(i)']
    BY <1>1 DEF AsRunning
  <2>2. \A i \in 1 .. d : i \in Loops
    BY <1>0, DepthAssumption DEF Loops
  <2>3. (d - 1) + 1 = d
    BY <1>0
  <2> QED BY <2>1, <2>2, <2>3
<1>6. AsRunning = [i \in 1 .. d - 1 |-> (AsRunning')[i]]
  BY <1>0, <1>1, <1>3 DEF AsRunning
<1> HIDE DEF S
<1>7. Len(AsRunning) = d - 1 /\ Append(AsRunning, (AsRunning')[d]) = AsRunning'
  BY <1>0, <1>5, <1>6, Grow
<1>8. (AsRunning')[d] = ToVisit(d)'
  BY <1>0, <1>1 DEF AsRunning
<1>9. AsLists' = AsLists
  BY <1>1 DEF AsLists
<1>10. Len(AsRunning) < Depth /\ Len(AsRunning) + 1 = d /\ (d - 1) + 1 = d
  BY <1>0, <1>7, DepthAssumption
<1> QED BY <1>4, <1>7, <1>8, <1>9, <1>10 DEF Abstract!Begin

(* The sequence of the loops around the place, and its last element. *)
LEMMA RunningSeq ==
  ASSUME IndInv
  PROVE  /\ Len(AsRunning) = Within
         /\ \A i \in 1 .. Within : AsRunning[i] = ToVisit(i)
         /\ Within > 0 => AsRunning # <<>>
<1>1. Within \in Nat /\ Within <= Depth
  BY WithinIsNat
<1>2. \A i \in 1 .. Within : AsRunning[i] = ToVisit(i)
  BY DEF AsRunning
<1>3. Len(AsRunning) = Within
  <2> DEFINE S == {ToVisit(i) : i \in 1 .. Within}
  <2>1. AsRunning \in [1 .. Within -> S]
    BY DEF AsRunning
  <2> HIDE DEF S
  <2> QED BY <1>1, <2>1, SeqDef
<1>4. Within > 0 => AsRunning # <<>>
  BY <1>1, <1>3
<1> QED BY <1>2, <1>3, <1>4

(* A body is begun with the least of the members to visit; after the       *)
(* greatest value of the type comes the least.                             *)
LEMMA VisitedIsLeast ==
  ASSUME IndInv, NEW d \in Loops, Iterate(d)
  PROVE  /\ idx[d] \in Todo(d)
         /\ \A w \in Todo(d) : idx[d] <= w
         /\ Todo(d)' = IF Todo(d) \ {idx[d]} = {} THEN ToVisit(d).again ELSE Todo(d) \ {idx[d]}
<1>0. /\ TypeOK /\ form' = form /\ ran' = ran
      /\ idx'[d] = Step(form[d].type, idx[d])
  BY DEF Iterate, IndInv, TypeOK
<1> DEFINE lo == form[d].type.lo
           hi == form[d].type.hi
           a == idx[d]
           b == ran[d].end
           incl == form[d].inclusive
<1>1. /\ lo \in Int /\ hi \in Int /\ a \in Int /\ b \in Int /\ incl \in BOOLEAN
      /\ lo <= a /\ a <= hi /\ lo <= b /\ b <= hi
  BY <1>0, LoopFacts DEF Values
<1>2. a < b \/ (incl /\ a = b)
  BY <1>0, LoopFacts, CompareIsOrder DEF Iterate
<1>3. Todo(d) = {v \in lo .. hi : a <= v /\ (v < b \/ (incl /\ v = b))}
  BY DEF Todo, Values
<1>4. Todo(d)' = {v \in lo .. hi : Step(form[d].type, a) <= v /\ (v < b \/ (incl /\ v = b))}
  BY <1>0 DEF Todo, Values
<1>5. ToVisit(d).again = IF incl /\ b = hi THEN lo .. hi ELSE {}
  BY DEF ToVisit, Endless, Values
<1> HIDE DEF lo, hi, a, b, incl
<1>6. a \in Todo(d) /\ \A w \in Todo(d) : a <= w
  BY <1>1, <1>2, <1>3
<1>7. CASE a < hi
  <2>1. Step(form[d].type, a) = a + 1
    BY <1>1, <1>7 DEF Step, hi
  <2>2. Todo(d)' = Todo(d) \ {a}
    BY <1>1, <1>3, <1>4, <2>1
  <2>3. incl /\ b = hi => hi \in Todo(d) \ {a}
    BY <1>1, <1>3, <1>7
  <2>4. Todo(d) \ {a} = {} => ToVisit(d).again = {}
    BY <1>5, <2>3
  <2> QED BY <1>6, <2>2, <2>4 DEF a
<1>8. CASE a = hi
  <2>1. incl /\ b = hi
    BY <1>1, <1>2, <1>8
  <2>2. Step(form[d].type, a) = lo
    BY <1>8 DEF Step, hi, lo
  <2>3. Todo(d) \ {a} = {}
    BY <1>1, <1>3, <1>8
  <2>4. Todo(d)' = lo .. hi
    BY <1>1, <1>4, <2>1, <2>2
  <2> QED BY <1>5, <1>6, <2>1, <2>3, <2>4 DEF a
<1> QED BY <1>1, <1>7, <1>8

LEMMA RefinesIterate ==
  ASSUME IndInv, IndInv', NEW d \in Loops, Iterate(d)
  PROVE  Abstract!Visit
<1>0. d \in Nat /\ d >= 1 /\ d <= Depth /\ TypeOK /\ DOMAIN idx = Loops
  BY DepthAssumption DEF Loops, IndInv, TypeOK
<1>1. Within = d /\ Within' = d /\ form' = form /\ list' = list /\ ran' = ran
  BY <1>0 DEF Iterate, At, Within
<1>2. \A i \in 1 .. d - 1 : ToVisit(i)' = ToVisit(i)
  <2>1. \A i \in 1 .. d - 1 : idx'[i] = idx[i]
    BY <1>0 DEF Iterate, Loops
  <2> QED BY <1>1, <2>1 DEF ToVisit, Todo, Endless
<1>3. Len(AsRunning) = d /\ AsRunning # <<>> /\ AsRunning[d] = ToVisit(d)
      /\ \A i \in 1 .. d - 1 : AsRunning[i] = ToVisit(i)
  BY <1>0, <1>1, RunningSeq
<1> DEFINE S == {ToVisit(i)' : i \in Loops}
           outer == [i \in 1 .. d - 1 |-> AsRunning[i]]
<1>4. AsRunning' \in [1 .. (d - 1) + 1 -> S]
  <2>1. AsRunning' = [i \in 1 .. d |-> ToVisit(i)']
    BY <1>1 DEF AsRunning
  <2>2. \A i \in 1 .. d : i \in Loops
    BY <1>0, DepthAssumption DEF Loops
  <2>3. (d - 1) + 1 = d
    BY <1>0
  <2> QED BY <2>1, <2>2, <2>3
<1>5. outer = [i \in 1 .. d - 1 |-> (AsRunning')[i]]
  BY <1>0, <1>1, <1>2, <1>3 DEF AsRunning
<1>6. (AsRunning')[d] = ToVisit(d)'
  BY <1>0, <1>1 DEF AsRunning
<1> HIDE DEF S
<1>7. Append(outer, ToVisit(d)') = AsRunning'
  <2>1. (d - 1) + 1 = d /\ d - 1 \in Nat
    BY <1>0
  <2> QED BY <1>4, <1>5, <1>6, <2>1, Grow
<1>8. ToVisit(d)' = [ToVisit(d) EXCEPT !.todo = Todo(d)']
  <2>1. Endless(d)' <=> Endless(d)
    BY <1>1 DEF Endless
  <2> QED BY <1>1, <2>1 DEF ToVisit
<1>9. ToVisit(d).todo = Todo(d)
  BY DEF ToVisit
<1>10. AsLists' = AsLists
  BY <1>1 DEF AsLists
<1>11. Abstract!Outer = outer /\ Abstract!Innermost = ToVisit(d)
  BY <1>3 DEF Abstract!Outer, Abstract!Innermost
<1> HIDE DEF outer
<1> DEFINE rest == Todo(d) \ {idx[d]}
           next == IF rest = {} THEN ToVisit(d).again ELSE rest
<1>12. idx[d] \in Todo(d) /\ (\A w \in Todo(d) : idx[d] <= w) /\ Todo(d)' = next
  BY VisitedIsLeast
<1>13. AsRunning' = Append(Abstract!Outer, [ToVisit(d) EXCEPT !.todo = next])
  BY <1>7, <1>8, <1>11, <1>12
<1>14. \E v \in ToVisit(d).todo :
         /\ \A w \in ToVisit(d).todo : v <= w
         /\ AsRunning' = Append(Abstract!Outer,
              [ToVisit(d) EXCEPT !.todo = IF ToVisit(d).todo \ {v} = {} THEN ToVisit(d).again
                                                              ELSE ToVisit(d).todo \ {v}])
  BY <1>9, <1>12, <1>13
<1> QED BY <1>3, <1>10, <1>11, <1>14 DEF Abstract!Visit, Abstract!IsLeast

LEMMA RefinesLeave ==
  ASSUME IndInv, IndInv', NEW d \in Loops, Exhaust(d) \/ Break(d)
  PROVE  Abstract!Leave
<1>0. d \in Nat /\ d >= 1 /\ pc[1] \in Int
  BY DepthAssumption DEF Loops, IndInv, TypeOK
<1>1. Within = d /\ Within' = d - 1
  BY <1>0 DEF Exhaust, Break, At, InBody, Innermost, Within
<1>2. UNCHANGED <<form, list, ran, idx>>
  BY DEF Exhaust, Break
<1>3. \A i \in 1 .. d - 1 : ToVisit(i)' = ToVisit(i)
  BY <1>2 DEF ToVisit, Todo, Endless
<1>4. Len(AsRunning) = d /\ AsRunning # <<>> /\ \A i \in 1 .. d - 1 : AsRunning[i] = ToVisit(i)
  BY <1>0, <1>1, RunningSeq
<1>5. AsRunning' = [i \in 1 .. d - 1 |-> AsRunning[i]]
  BY <1>1, <1>3, <1>4 DEF AsRunning
<1>6. AsLists' = AsLists
  BY <1>2 DEF AsLists
<1> QED BY <1>4, <1>5, <1>6 DEF Abstract!Leave, Abstract!Outer

LEMMA Stutters ==
  ASSUME Within' = Within, UNCHANGED <<form, list, ran, idx>>
  PROVE  UNCHANGED <<AsLists, AsRunning>>
<1>1. \A i : ToVisit(i)' = ToVisit(i)
  BY DEF ToVisit, Todo, Endless
<1> QED BY <1>1 DEF AsLists, AsRunning

LEMMA RefinesNext == IndInv /\ IndInv' /\ [Next]_vars => [Abstract!Next]_<<AsLists, AsRunning>>
<1> SUFFICES ASSUME IndInv, IndInv', [Next]_vars
             PROVE  Abstract!Next \/ UNCHANGED <<AsLists, AsRunning>>
  BY DEF vars
<1>1. ASSUME NEW d \in Loops, Enter(d) PROVE Abstract!Next
  BY <1>1, RefinesEnter DEF Abstract!Next
<1>2. ASSUME NEW d \in Loops, Iterate(d) PROVE Abstract!Next
  BY <1>2, RefinesIterate DEF Abstract!Next
<1>3. ASSUME NEW d \in Loops, Exhaust(d) \/ Break(d) PROVE Abstract!Next
  BY <1>3, RefinesLeave DEF Abstract!Next
<1>4. ASSUME NEW d \in Loops, NextRound(d) PROVE UNCHANGED <<AsLists, AsRunning>>
  <2>1. d \in Nat /\ pc[1] \in Int
    BY DepthAssumption DEF Loops, IndInv, TypeOK
  <2>2. Within = d /\ Within' = d
    BY <1>4, <2>1 DEF NextRound, InBody, Innermost, Within
  <2> QED BY <1>4, <2>2, Stutters DEF NextRound
<1>5. ASSUME NEW d \in Loops, NEW v, AssignItem(d, v) PROVE UNCHANGED <<AsLists, AsRunning>>
  BY <1>5, Stutters DEF AssignItem, Within
<1>6. ASSUME NEW d \in Loops, NEW r \in Lists(form[d]), AssignList(d, r) PROVE Abstract!Next
  <2>1. form' = form /\ ran' = ran /\ idx' = idx /\ pc' = pc /\ list' = [list EXCEPT ![d] = r]
    BY <1>6 DEF AssignList
  <2>2. DOMAIN list = Loops /\ form[d] \in {g \in Forms : IsForm(g)}
    BY DEF IndInv, TypeOK
  <2>3. AsLists' = [AsLists EXCEPT ![d] = AsInterval(form[d], r)]
    BY <2>1, <2>2 DEF AsLists
  <2>4. AsInterval(form[d], r) \in AllLists
    BY <2>2 DEF AllLists
  <2>5. AsRunning' = AsRunning
    <3>1. \A i : ToVisit(i)' = ToVisit(i)
      BY <2>1 DEF ToVisit, Todo, Endless
    <3> QED BY <2>1, <3>1 DEF AsRunning, Within
  <2>6. Abstract!Assign(d, AsInterval(form[d], r))
    BY <2>3, <2>5 DEF Abstract!Assign
  <2> QED BY <2>4, <2>6 DEF Abstract!Next, Loops
<1>7. CASE UNCHANGED vars
  BY <1>7, Stutters DEF vars, Within
<1> QED BY <1>1, <1>2, <1>3, <1>4, <1>5, <1>6, <1>7 DEF Next, Control

(* The emitted loops visit what ForEach says they visit: an assignment in  *)
(* a body to an item or to the list of a running loop is invisible to the  *)
(* loops that run, and seen by the next execution (walk_for).              *)
THEOREM LoopsImplementForEach == Spec => ImplementsForEach
<1>1. Init /\ []IndInv /\ [][Next]_vars => Abstract!Spec
  BY RefinesInit, RefinesNext, PTL DEF Abstract!Spec
<1> QED BY <1>1, Invariance, PTL DEF Spec, ImplementsForEach
=============================================================================
