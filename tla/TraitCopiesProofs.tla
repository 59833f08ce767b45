------------------------- MODULE TraitCopiesProofs -------------------------
(***************************************************************************)
(* Proofs about TraitCopies, for every set of classes and methods and all  *)
(* bodies.                                                                 *)
(*                                                                         *)
(* The argument.  Whatever a walk has left in a symbol table is recorded,  *)
(* belongs to the method whose copy is walked, and means the class it is   *)
(* walked for (Owned); a call can take the association away, never put a   *)
(* class of its own there.  What is recorded is taken back at the end, so  *)
(* that nothing is left between two copies.                                *)
(***************************************************************************)
EXTENDS TraitCopies, SequenceTheorems, TLAPS

OwnedSelf(m) ==
  self[m] # AsParsed => /\ m = meth /\ cls # NoClass
                        /\ self[m] = cls /\ <<m, 0>> \in recorded

OwnedLets(m) ==
  \A i \in 1 .. MaxBody :
    lets[m][i] # AsParsed => m = meth /\ cls # NoClass /\ <<m, i>> \in recorded

OwnedAssoc(m) == assoc[m] # NoClass => m = meth /\ assoc[m] = cls

Owned == \A m \in Methods : OwnedSelf(m) /\ OwnedLets(m) /\ OwnedAssoc(m)

SeenMeans == ParameterMeansImplementor /\ CallersAreAccepted

IndInv == TypeOK /\ Owned /\ SeenMeans

(***************************************************************************)
(* Bodies and statements.                                                  *)
(***************************************************************************)

(* A body has at most MaxBody statements. *)
LEMMA BodyFacts ==
  ASSUME NEW b \in Body
  PROVE  /\ Len(b) \in 0 .. MaxBody
         /\ \A i \in 1 .. Len(b) : b[i] \in Plain \cup Calls
<1>1. PICK n \in 0 .. MaxBody : b \in [1 .. n -> Plain \cup Calls]
  BY DEF Body
<1>2. n \in Nat
  BY TraitCopiesAssumption
<1>3. b \in Seq(Plain \cup Calls)
  BY <1>1, <1>2, SeqDef
<1>4. b \in [1 .. Len(b) -> Plain \cup Calls] /\ DOMAIN b = 1 .. Len(b) /\ Len(b) \in Nat
  BY <1>3, LenProperties
<1>5. Len(b) = n
  BY <1>1, <1>2, <1>4
<1> QED BY <1>1, <1>4, <1>5

(* The statement a step is about. *)
LEMMA StmtFacts ==
  ASSUME TypeOK, NEW kind, AtStmt(kind)
  PROVE  /\ pc \in 1 .. MaxBody /\ pc + 1 \in 1 .. MaxBody + 1
         /\ Stmt \in Plain \cup Calls /\ Stmt.kind = kind
         /\ cls \in Classes /\ meth \in Methods /\ verdict = "going on"
<1>1. body[meth] \in Body /\ pc \in 1 .. MaxBody + 1 /\ MaxBody \in Nat
  BY TraitCopiesAssumption DEF TypeOK
<1> DEFINE n == Len(body[meth])
<1>2. n \in 0 .. MaxBody /\ \A i \in 1 .. n : body[meth][i] \in Plain \cup Calls
  BY <1>1, BodyFacts
<1>3. pc <= n /\ Stmt.kind = kind /\ cls # NoClass /\ verdict = "going on"
  BY DEF AtStmt, Walking
<1> HIDE DEF n
<1>4. pc \in 1 .. n
  <2>1. pc <= n
    BY <1>3
  <2> QED BY <1>1, <1>2, <2>1
<1>5. pc \in 1 .. MaxBody /\ pc + 1 \in 1 .. MaxBody + 1
  BY <1>1, <1>2, <1>4
<1>6. cls \in Classes /\ meth \in Methods
  BY <1>3 DEF TypeOK
<1> QED BY <1>2, <1>3, <1>4, <1>5, <1>6 DEF Stmt

(* A known parameter means the class that is walked. *)
LEMMA ParameterIsClass ==
  ASSUME TypeOK, Owned, NEW n, ParameterKnown(n), meth \in Methods
  PROVE  ParameterType = cls
  BY DEF Owned, OwnedSelf, OwnedAssoc, ParameterKnown, ParameterType, SelfKnown

(* What Self is known to mean is the class that is walked. *)
LEMMA SelfIsClass ==
  ASSUME TypeOK, Owned, NEW n, SelfKnown(n), meth \in Methods
  PROVE  assoc[meth] = cls
  BY DEF Owned, OwnedAssoc, SelfKnown

(***************************************************************************)
(* The invariant.                                                          *)
(***************************************************************************)

LEMMA InitIndInv == Init => IndInv
<1> SUFFICES ASSUME Init PROVE IndInv
  OBVIOUS
<1>1. (CHOOSE m \in Methods : TRUE) \in Methods
  BY TraitCopiesAssumption
<1>2. 1 \in 1 .. MaxBody + 1
  BY TraitCopiesAssumption
<1>3. body \in [Methods -> Body]
  BY BodiesAssumption DEF Init
<1>4. TypeOK
  BY <1>1, <1>2, <1>3 DEF Init, TypeOK
<1>5. Owned
  BY DEF Init, Owned, OwnedSelf, OwnedLets, OwnedAssoc
<1>6. SeenMeans
  BY DEF Init, Nothing, SeenMeans, ParameterMeansImplementor, CallersAreAccepted
<1> QED BY <1>4, <1>5, <1>6 DEF IndInv

(* A refusal leaves everything but the verdict as it is. *)
LEMMA RefuseKeeps ==
  ASSUME IndInv, Refuse, Placed
  PROVE  IndInv'
<1> USE DEF IndInv, Refuse, Placed, program
<1>1. TypeOK'
  BY DEF TypeOK
<1>2. Owned'
  BY DEF Owned, OwnedSelf, OwnedLets, OwnedAssoc
<1>3. SeenMeans'
  BY DEF SeenMeans, ParameterMeansImplementor, CallersAreAccepted
<1> QED BY <1>1, <1>2, <1>3

(* The two entries of a body: what recording and assigning one keeps. *)
LEMMA UseSelfKeeps ==
  ASSUME TypeOK, Owned, meth \in Methods, cls \in Classes,
         ParameterType = cls, UseSelf
  PROVE  /\ self' \in [Methods -> Classes \cup {AsParsed}]
         /\ recorded' \subseteq Methods \X (0 .. MaxBody)
         /\ recorded \subseteq recorded'
         /\ \A m \in Methods : self'[m] # AsParsed =>
              m = meth /\ self'[m] = cls /\ <<m, 0>> \in recorded'
<1>1. self' = [self EXCEPT ![meth] = cls]
  BY DEF UseSelf
<1>2. recorded' \subseteq recorded \cup {<<meth, 0>>} /\ recorded \subseteq recorded'
  BY DEF UseSelf, SelfEntry
<1>3. <<meth, 0>> \in recorded'
  BY DEF UseSelf, SelfEntry, Owned, OwnedSelf
<1>4. 0 \in 0 .. MaxBody
  BY TraitCopiesAssumption
<1>5. self' \in [Methods -> Classes \cup {AsParsed}]
  BY <1>1 DEF TypeOK
<1>6. recorded' \subseteq Methods \X (0 .. MaxBody)
  <2>1. <<meth, 0>> \in Methods \X (0 .. MaxBody)
    BY <1>4
  <2> QED BY <1>2, <2>1 DEF TypeOK
<1>7. ASSUME NEW m \in Methods, self'[m] # AsParsed
      PROVE  m = meth /\ self'[m] = cls /\ <<m, 0>> \in recorded'
  <2>1. CASE m = meth
    BY <1>1, <1>3, <2>1 DEF TypeOK
  <2>2. CASE m # meth
    <3>1. self'[m] = self[m]
      BY <1>1, <2>2 DEF TypeOK
    <3> QED BY <1>7, <2>2, <3>1 DEF Owned, OwnedSelf
  <2> QED BY <2>1, <2>2
<1> QED BY <1>2, <1>5, <1>6, <1>7

LEMMA BindKeeps ==
  ASSUME TypeOK, Owned, meth \in Methods, pc \in 1 .. MaxBody,
         NEW type \in Types, Bind(type)
  PROVE  /\ lets' \in [Methods -> [1 .. MaxBody -> Types \cup {AsParsed}]]
         /\ recorded' \subseteq Methods \X (0 .. MaxBody)
         /\ recorded \subseteq recorded'
         /\ \A m \in Methods, i \in 1 .. MaxBody : lets'[m][i] # AsParsed =>
              m = meth /\ <<m, i>> \in recorded'
<1>1. lets' = [lets EXCEPT ![meth][pc] = type]
  BY DEF Bind
<1>2. recorded' \subseteq recorded \cup {<<meth, pc>>} /\ recorded \subseteq recorded'
  BY DEF Bind, LetEntry
<1>3. lets[meth][pc] # type => <<meth, pc>> \in recorded'
  BY DEF Bind, LetEntry
<1>4. pc \in 0 .. MaxBody
  BY TraitCopiesAssumption
<1>5. lets' \in [Methods -> [1 .. MaxBody -> Types \cup {AsParsed}]]
  BY <1>1 DEF TypeOK
<1>6. recorded' \subseteq Methods \X (0 .. MaxBody)
  <2>1. <<meth, pc>> \in Methods \X (0 .. MaxBody)
    BY <1>4
  <2> QED BY <1>2, <2>1 DEF TypeOK
<1>7. ASSUME NEW m \in Methods, NEW i \in 1 .. MaxBody, lets'[m][i] # AsParsed
      PROVE  m = meth /\ <<m, i>> \in recorded'
  <2>1. CASE m = meth /\ i = pc
    <3>1. lets[meth][pc] = type => <<meth, pc>> \in recorded
      <4>1. lets'[meth][pc] = type
        BY <1>1 DEF TypeOK
      <4> QED BY <1>7, <2>1, <4>1 DEF Owned, OwnedLets
    <3> QED BY <1>2, <1>3, <2>1, <3>1
  <2>2. CASE ~(m = meth /\ i = pc)
    <3>1. lets'[m][i] = lets[m][i]
      BY <1>1, <2>2 DEF TypeOK
    <3> QED BY <1>2, <1>7, <3>1 DEF Owned, OwnedLets
  <2> QED BY <2>1, <2>2
<1> QED BY <1>2, <1>5, <1>6, <1>7

(***************************************************************************)
(* One lemma per action.                                                   *)
(***************************************************************************)

LEMMA BeginKeeps ==
  ASSUME IndInv, NEW c \in Classes, NEW m \in Methods, Begin(c, m)
  PROVE  IndInv'
<1>1. cls = NoClass /\ cls' = c /\ meth' = m /\ pc' = 1 /\ recorded' = {}
      /\ assoc' = [assoc EXCEPT ![m] = c]
      /\ UNCHANGED <<body, returnsSelf, walked, self, lets, node, seen, verdict>>
  BY DEF Begin, AssocOf, Idle, program
<1>2. 1 \in 1 .. MaxBody + 1
  BY TraitCopiesAssumption
<1>3. TypeOK'
  BY <1>1, <1>2 DEF IndInv, TypeOK
<1>4. \A k \in Methods : assoc[k] = NoClass /\ self[k] = AsParsed
                         /\ \A i \in 1 .. MaxBody : lets[k][i] = AsParsed
  <2>1. NoClass \notin Classes
    BY TraitCopiesAssumption
  <2> QED BY <1>1, <2>1 DEF IndInv, TypeOK, Owned, OwnedSelf, OwnedLets, OwnedAssoc
<1>5. \A k \in Methods : assoc'[k] # NoClass => k = meth' /\ assoc'[k] = cls'
  BY <1>1, <1>4 DEF IndInv, TypeOK
<1>6. Owned'
  BY <1>1, <1>4, <1>5 DEF Owned, OwnedSelf, OwnedLets, OwnedAssoc
<1>7. SeenMeans'
  BY <1>1 DEF IndInv, SeenMeans, ParameterMeansImplementor, CallersAreAccepted
<1> QED BY <1>3, <1>6, <1>7 DEF IndInv

LEMMA WalkSelfKeeps == IndInv /\ WalkSelf => IndInv'
<1> SUFFICES ASSUME IndInv, WalkSelf PROVE IndInv'
  OBVIOUS
<1> USE DEF IndInv
<1>1. /\ pc + 1 \in 1 .. MaxBody + 1 /\ cls \in Classes /\ meth \in Methods
      /\ Placed
  BY StmtFacts DEF WalkSelf
<1>2. CASE ~ParameterKnown(Stmt.nested)
  BY <1>1, <1>2, RefuseKeeps DEF WalkSelf
<1>3. CASE ParameterKnown(Stmt.nested)
  <2>1. ParameterType = cls
    BY <1>1, <1>3, ParameterIsClass
  <2>2. /\ UseSelf /\ pc' = pc + 1
        /\ seen' = [what |-> "self", by |-> cls, type |-> ParameterType]
        /\ UNCHANGED <<body, returnsSelf, walked, cls, meth, assoc, lets, node, verdict>>
    BY <1>1, <1>3 DEF WalkSelf, See, Placed, program
  <2>3. /\ self' \in [Methods -> Classes \cup {AsParsed}]
        /\ recorded' \subseteq Methods \X (0 .. MaxBody)
        /\ recorded \subseteq recorded'
        /\ \A m \in Methods : self'[m] # AsParsed =>
             m = meth /\ self'[m] = cls /\ <<m, 0>> \in recorded'
    BY <1>1, <2>1, <2>2, UseSelfKeeps
  <2>4. TypeOK'
    BY <1>1, <2>2, <2>3 DEF TypeOK
  <2>5. cls # NoClass
    BY <1>1, TraitCopiesAssumption
  <2>6. Owned'
    BY <2>2, <2>3, <2>5 DEF Owned, OwnedSelf, OwnedLets, OwnedAssoc
  <2>7. SeenMeans'
    BY <2>1, <2>2 DEF SeenMeans, ParameterMeansImplementor, CallersAreAccepted
  <2> QED BY <2>4, <2>6, <2>7
<1> QED BY <1>2, <1>3

(* The lets' part of a step that binds, with what it sees. *)
LEMMA BindStepKeeps ==
  ASSUME IndInv, meth \in Methods, cls \in Classes,
         pc \in 1 .. MaxBody, pc + 1 \in 1 .. MaxBody + 1,
         NEW type \in Types, Bind(type), SeenMeans',
         node' \in [Methods -> [1 .. MaxBody -> Types \cup {NoType}]],
         pc' = pc + 1,
         UNCHANGED <<body, returnsSelf, walked, cls, meth, assoc, self, verdict>>
  PROVE  IndInv'
<1> USE DEF IndInv
<1>1. /\ lets' \in [Methods -> [1 .. MaxBody -> Types \cup {AsParsed}]]
      /\ recorded' \subseteq Methods \X (0 .. MaxBody)
      /\ recorded \subseteq recorded'
      /\ \A m \in Methods, i \in 1 .. MaxBody : lets'[m][i] # AsParsed =>
           m = meth /\ <<m, i>> \in recorded'
  BY BindKeeps
<1>2. TypeOK'
  BY <1>1 DEF TypeOK
<1>3. cls # NoClass
  BY TraitCopiesAssumption
<1>4. Owned'
  BY <1>1, <1>3 DEF Owned, OwnedSelf, OwnedLets, OwnedAssoc
<1> QED BY <1>2, <1>4

LEMMA WalkTypedKeeps == IndInv /\ WalkTyped => IndInv'
<1> SUFFICES ASSUME IndInv, WalkTyped PROVE IndInv'
  OBVIOUS
<1> USE DEF IndInv
<1>1. /\ pc \in 1 .. MaxBody /\ pc + 1 \in 1 .. MaxBody + 1
      /\ cls \in Classes /\ meth \in Methods /\ Placed
  BY StmtFacts DEF WalkTyped
<1>2. CASE ~SelfKnown(Stmt.nested)
  BY <1>1, <1>2, RefuseKeeps DEF WalkTyped
<1>3. CASE SelfKnown(Stmt.nested)
  <2>1. assoc[meth] = cls /\ cls \in Types
    BY <1>1, <1>3, SelfIsClass DEF Types
  <2>2. /\ Bind(cls) /\ pc' = pc + 1
        /\ seen' = [what |-> "typed", by |-> cls, type |-> cls]
        /\ UNCHANGED <<body, returnsSelf, walked, cls, meth, assoc, self, node, verdict>>
    BY <1>1, <1>3, <2>1 DEF WalkTyped, See, Placed, program
  <2>3. SeenMeans'
    BY <2>2 DEF SeenMeans, ParameterMeansImplementor, CallersAreAccepted
  <2>4. node' \in [Methods -> [1 .. MaxBody -> Types \cup {NoType}]]
    BY <2>2 DEF TypeOK
  <2> QED BY <1>1, <2>1, <2>2, <2>3, <2>4, BindStepKeeps
<1> QED BY <1>2, <1>3

LEMMA WalkLiteralKeeps == IndInv /\ WalkLiteral => IndInv'
<1> SUFFICES ASSUME IndInv, WalkLiteral PROVE IndInv'
  OBVIOUS
<1> USE DEF IndInv
<1>1. /\ pc \in 1 .. MaxBody /\ pc + 1 \in 1 .. MaxBody + 1
      /\ cls \in Classes /\ meth \in Methods /\ Placed
  BY StmtFacts DEF WalkLiteral
<1>2. CASE node[meth][pc] = NoType /\ ~SelfKnown(Stmt.nested)
  BY <1>1, <1>2, RefuseKeeps DEF WalkLiteral
<1>3. CASE ~(node[meth][pc] = NoType /\ ~SelfKnown(Stmt.nested))
  <2> DEFINE type == Inferred(assoc[meth])
  <2>1. type \in Types
    <3>1. CASE node[meth][pc] = NoType
      BY <1>1, <1>3, <3>1, SelfIsClass DEF Inferred, Types
    <3>2. CASE node[meth][pc] # NoType
      <4>1. node \in [Methods -> [1 .. MaxBody -> Types \cup {NoType}]]
        BY DEF TypeOK
      <4>2. node[meth][pc] \in Types \cup {NoType}
        BY <1>1, <4>1
      <4> QED BY <3>2, <4>2 DEF Inferred
    <3> QED BY <3>1, <3>2
  <2>2. /\ Bind(type) /\ pc' = pc + 1
        /\ node' = [node EXCEPT ![meth][pc] = type]
        /\ seen' = [what |-> "literal", by |-> cls, type |-> type]
        /\ UNCHANGED <<body, returnsSelf, walked, cls, meth, assoc, self, verdict>>
    BY <1>1, <1>3 DEF WalkLiteral, See, Placed, program
  <2> HIDE DEF type
  <2>3. SeenMeans'
    BY <2>2 DEF SeenMeans, ParameterMeansImplementor, CallersAreAccepted
  <2>4. node' \in [Methods -> [1 .. MaxBody -> Types \cup {NoType}]]
    BY <2>1, <2>2 DEF TypeOK
  <2> QED BY <1>1, <2>1, <2>2, <2>3, <2>4, BindStepKeeps
<1> QED BY <1>2, <1>3

(* The walk of an operator on fields writes both entries. *)
LEMMA WalkFieldKeeps == IndInv /\ WalkField => IndInv'
<1> SUFFICES ASSUME IndInv, WalkField PROVE IndInv'
  OBVIOUS
<1> USE DEF IndInv
<1>1. /\ pc \in 1 .. MaxBody /\ pc + 1 \in 1 .. MaxBody + 1
      /\ cls \in Classes /\ meth \in Methods /\ Placed /\ verdict = "going on"
  BY StmtFacts DEF WalkField
<1>2. CASE ~ParameterKnown(Stmt.nested)
  BY <1>1, <1>2, RefuseKeeps DEF WalkField
<1>3. CASE ParameterKnown(Stmt.nested)
  <2> DEFINE type == Inferred(FieldType[cls])
  <2>1. ParameterType = cls
    BY <1>1, <1>3, ParameterIsClass
  <2>2. type \in Types
    <3>1. FieldType[cls] \in Types
      BY <1>1 DEF Types
    <3>2. CASE node[meth][pc] = NoType
      BY <3>1, <3>2 DEF Inferred
    <3>3. CASE node[meth][pc] # NoType
      <4>1. node \in [Methods -> [1 .. MaxBody -> Types \cup {NoType}]]
        BY DEF TypeOK
      <4>2. node[meth][pc] \in Types \cup {NoType}
        BY <1>1, <4>1
      <4> QED BY <3>3, <4>2 DEF Inferred
    <3> QED BY <3>2, <3>3
  <2>3. /\ node' = [node EXCEPT ![meth][pc] = type]
        /\ lets' = [lets EXCEPT ![meth][pc] = type]
        /\ self' = [self EXCEPT ![meth] = cls]
        /\ recorded' = recorded \cup {<<meth, pc>>}
                          \cup (IF self[meth] = AsParsed THEN {<<meth, 0>>} ELSE {})
        /\ seen' = [what |-> "field", by |-> cls, type |-> type]
        /\ verdict' \in {verdict, "aborted"} /\ pc' = pc + 1
        /\ UNCHANGED <<body, returnsSelf, walked, cls, meth, assoc>>
    BY <1>1, <1>3, <2>1 DEF WalkField, See, LetEntry, SelfEntry, Placed, program
  <2> HIDE DEF type
  <2>4. recorded' \subseteq Methods \X (0 .. MaxBody)
    <3>0. MaxBody \in Nat
      BY TraitCopiesAssumption
    <3>1. pc \in 0 .. MaxBody /\ 0 \in 0 .. MaxBody
      <4>1. pc \in 1 .. MaxBody
        BY <1>1
      <4> QED BY <3>0, <4>1
    <3>2. <<meth, pc>> \in Methods \X (0 .. MaxBody) /\ <<meth, 0>> \in Methods \X (0 .. MaxBody)
      BY <1>1, <3>1
    <3> QED BY <2>3, <3>2 DEF TypeOK
  <2>5. lets' \in [Methods -> [1 .. MaxBody -> Types \cup {AsParsed}]]
    BY <1>1, <2>2, <2>3 DEF TypeOK
  <2>6. node' \in [Methods -> [1 .. MaxBody -> Types \cup {NoType}]]
    BY <1>1, <2>2, <2>3 DEF TypeOK
  <2>7. self' \in [Methods -> Classes \cup {AsParsed}]
    BY <1>1, <2>3 DEF TypeOK
  <2>8. TypeOK'
    BY <1>1, <2>3, <2>4, <2>5, <2>6, <2>7 DEF TypeOK
  <2>9. cls # NoClass
    BY <1>1, TraitCopiesAssumption
  <2>10. ASSUME NEW m \in Methods PROVE OwnedSelf(m)'
    <3>1. CASE m = meth
      <4>1. self'[m] = cls
        BY <1>1, <2>3, <3>1 DEF TypeOK
      <4>2. <<meth, 0>> \in recorded'
        BY <1>1, <2>3 DEF Owned, OwnedSelf
      <4> QED BY <2>3, <2>9, <3>1, <4>1, <4>2 DEF OwnedSelf
    <3>2. CASE m # meth
      <4>1. self'[m] = self[m]
        BY <2>3, <3>2 DEF TypeOK
      <4> QED BY <2>3, <2>10, <3>2, <4>1 DEF Owned, OwnedSelf
    <3> QED BY <3>1, <3>2
  <2>11. ASSUME NEW m \in Methods, NEW i \in 1 .. MaxBody, lets'[m][i] # AsParsed
         PROVE  m = meth /\ <<m, i>> \in recorded'
    <3>1. CASE m = meth /\ i = pc
      BY <2>3, <3>1
    <3>2. CASE ~(m = meth /\ i = pc)
      <4>1. lets'[m][i] = lets[m][i]
        BY <2>3, <3>2 DEF TypeOK
      <4> QED BY <2>3, <2>11, <4>1 DEF Owned, OwnedLets
    <3> QED BY <3>1, <3>2
  <2>12. Owned'
    BY <2>3, <2>9, <2>10, <2>11 DEF Owned, OwnedLets, OwnedAssoc
  <2>13. SeenMeans'
    BY <2>3 DEF SeenMeans, ParameterMeansImplementor, CallersAreAccepted
  <2> QED BY <2>8, <2>12, <2>13
<1> QED BY <1>2, <1>3

(* A call leaves less association, never another one. *)
LEMMA CallInBodyKeeps == IndInv /\ CallInBody => IndInv'
<1> SUFFICES ASSUME IndInv, CallInBody PROVE IndInv'
  OBVIOUS
<1> USE DEF IndInv
<1>1. /\ pc + 1 \in 1 .. MaxBody + 1 /\ Placed
      /\ Stmt \in Plain \cup Calls /\ Stmt.kind = "call"
  BY StmtFacts DEF CallInBody
<1>2. CASE ~Accepts(Stmt.cls, Stmt.meth)
  BY <1>1, <1>2, RefuseKeeps DEF CallInBody
<1>3. CASE Accepts(Stmt.cls, Stmt.meth)
  <2>0. seen' = [what |-> "call in body", by |-> cls,
                 type |-> FormalSelf(Stmt.cls, Stmt.meth)]
    BY <1>3 DEF CallInBody, See
  <2>1. /\ assoc' = [assoc EXCEPT ![Stmt.meth] = NoClass] /\ pc' = pc + 1
        /\ UNCHANGED <<body, returnsSelf, walked, cls, meth, self, lets, recorded, node, verdict>>
    BY <1>1, <1>3 DEF CallInBody, Placed, program
  <2>2. \A m \in Methods : assoc'[m] \in {assoc[m], NoClass}
    BY <2>1 DEF TypeOK
  <2>3. assoc' \in [Methods -> Classes \cup {NoClass}]
    BY <2>1 DEF TypeOK
  <2>4. TypeOK'
    BY <1>1, <2>1, <2>3 DEF TypeOK
  <2>5. Owned'
    BY <2>1, <2>2 DEF Owned, OwnedSelf, OwnedLets, OwnedAssoc
  <2>6. SeenMeans'
    BY <2>0 DEF SeenMeans, ParameterMeansImplementor, CallersAreAccepted
  <2> QED BY <2>4, <2>5, <2>6
<1> QED BY <1>2, <1>3

(* Between the copies the declared type of self is what its table means. *)
LEMMA CallOutsideKeeps ==
  ASSUME IndInv, NEW c \in Classes, NEW m \in Methods, CallOutside(c, m)
  PROVE  IndInv'
<1> USE DEF IndInv
<1>1. /\ cls = NoClass
      /\ seen' = [what |-> "call", by |-> c, type |-> FormalSelf(c, m)]
      /\ assoc' = [assoc EXCEPT ![m] = NoClass] \/ assoc' = assoc
      /\ verdict' \in {verdict, "refused"}
      /\ UNCHANGED <<body, returnsSelf, walked, cls, meth, pc, self, lets, recorded, node>>
  BY DEF CallOutside, Idle, Placed, program
<1>2. self[m] = AsParsed
  BY <1>1 DEF Owned, OwnedSelf
<1>3. assoc' \in [Methods -> Classes \cup {NoClass}]
      /\ \A k \in Methods : assoc'[k] \in {assoc[k], NoClass}
  BY <1>1 DEF TypeOK
<1>4. TypeOK'
  BY <1>1, <1>3 DEF TypeOK
<1>5. Owned'
  BY <1>1, <1>3 DEF Owned, OwnedSelf, OwnedLets, OwnedAssoc
<1>6. FormalSelf(c, m) = c
  BY <1>2 DEF FormalSelf
<1>7. SeenMeans'
  BY <1>1, <1>6 DEF SeenMeans, ParameterMeansImplementor, CallersAreAccepted
<1> QED BY <1>4, <1>5, <1>7

(* What is taken back is all there was. *)
LEMMA EndKeeps == IndInv /\ End => IndInv'
<1> SUFFICES ASSUME IndInv, End PROVE IndInv'
  OBVIOUS
<1> USE DEF IndInv
<1>1. cls \in Classes /\ meth \in Methods
  BY DEF End, Walking, TypeOK
<1>2. CASE meth \in returnsSelf /\ ~SelfKnown(FALSE)
  <2>1. Refuse /\ Placed
    BY <1>2 DEF End, Placed, program
  <2> QED BY <2>1, RefuseKeeps
<1>3. CASE ~(meth \in returnsSelf /\ ~SelfKnown(FALSE))
  <2>1. /\ self' = TakenBackSelf /\ lets' = TakenBackLets /\ recorded' = {}
        /\ assoc' = [assoc EXCEPT ![meth] = NoClass]
        /\ walked' = walked \cup {<<cls, meth>>} /\ cls' = NoClass
        /\ UNCHANGED <<body, returnsSelf, meth, pc, node, seen, verdict>>
    BY <1>3 DEF End, program
  <2>2. \A m \in Methods : self'[m] = AsParsed
    BY <2>1 DEF TakenBackSelf, Owned, OwnedSelf
  <2>3. \A m \in Methods, i \in 1 .. MaxBody : lets'[m][i] = AsParsed
    BY <2>1 DEF TakenBackLets, Owned, OwnedLets
  <2>4. \A m \in Methods : assoc'[m] = NoClass
    BY <2>1 DEF TypeOK, Owned, OwnedAssoc
  <2>5. self' \in [Methods -> Classes \cup {AsParsed}]
    BY <2>1, <2>2 DEF TakenBackSelf
  <2>6. lets' \in [Methods -> [1 .. MaxBody -> Types \cup {AsParsed}]]
    BY <2>1 DEF TakenBackLets, TypeOK
  <2>7. assoc' \in [Methods -> Classes \cup {NoClass}]
    BY <2>1 DEF TypeOK
  <2>8. TypeOK'
    <3>1. walked' \subseteq Classes \X Methods
      <4>1. <<cls, meth>> \in Classes \X Methods
        BY <1>1
      <4>2. walked' = walked \cup {<<cls, meth>>}
        BY <2>1
      <4> QED BY <4>1, <4>2 DEF TypeOK
    <3>2. recorded' \subseteq Methods \X (0 .. MaxBody)
      BY <2>1
    <3> QED BY <2>1, <2>5, <2>6, <2>7, <3>1, <3>2 DEF TypeOK
  <2>9. Owned'
    BY <2>2, <2>3, <2>4 DEF Owned, OwnedSelf, OwnedLets, OwnedAssoc
  <2>10. SeenMeans'
    BY <2>1 DEF SeenMeans, ParameterMeansImplementor, CallersAreAccepted
  <2> QED BY <2>8, <2>9, <2>10
<1> QED BY <1>2, <1>3

(***************************************************************************)
(* The theorems.                                                           *)
(***************************************************************************)

LEMMA NextKeeps == IndInv /\ [Next]_vars => IndInv'
<1> SUFFICES ASSUME IndInv, [Next]_vars PROVE IndInv'
  OBVIOUS
<1>1. ASSUME NEW c \in Classes, NEW m \in Methods, Begin(c, m) PROVE IndInv'
  BY <1>1, BeginKeeps
<1>2. ASSUME NEW c \in Classes, NEW m \in Methods, CallOutside(c, m) PROVE IndInv'
  BY <1>2, CallOutsideKeeps
<1>3. CASE WalkSelf
  BY <1>3, WalkSelfKeeps
<1>4. CASE WalkTyped
  BY <1>4, WalkTypedKeeps
<1>5. CASE WalkLiteral
  BY <1>5, WalkLiteralKeeps
<1>6. CASE WalkField
  BY <1>6, WalkFieldKeeps
<1>7. CASE CallInBody
  BY <1>7, CallInBodyKeeps
<1>8. CASE End
  BY <1>8, EndKeeps
<1>9. CASE UNCHANGED vars
  BY <1>9 DEF IndInv, vars, TypeOK, Owned, OwnedSelf, OwnedLets, OwnedAssoc, SeenMeans,
              ParameterMeansImplementor, CallersAreAccepted
<1> QED BY <1>1, <1>2, <1>3, <1>4, <1>5, <1>6, <1>7, <1>8, <1>9 DEF Next

LEMMA Invariance == Spec => []IndInv
<1>1. Init => IndInv
  BY InitIndInv
<1>2. IndInv /\ [Next]_vars => IndInv'
  BY NextKeeps
<1> QED BY <1>1, <1>2, PTL DEF Spec

(* Entries and nodes always hold types: symtable.h:505-545. *)
THEOREM TypeCorrect == Spec => []TypeOK
<1>1. IndInv => TypeOK
  BY DEF IndInv
<1> QED BY <1>1, Invariance, PTL

(* Between two copies the symbol tables are as the parser left them: what  *)
(* generic_type_record_replace recorded, generic_type_handle_replace took  *)
(* back, and nothing was written without being recorded.                   *)
THEOREM CopiesLeaveNothingBehind == Spec => []BetweenCopiesAsParsed
<1>1. IndInv => BetweenCopiesAsParsed
  BY TraitCopiesAssumption
     DEF IndInv, Owned, OwnedSelf, OwnedLets, OwnedAssoc, TypeOK,
         BetweenCopiesAsParsed, Idle
<1> QED BY <1>1, Invariance, PTL

(* In a copy self and Self mean the class it is walked for (walk_id,       *)
(* walk_letbind).                                                          *)
THEOREM SelfMeansImplementor == Spec => []ParameterMeansImplementor
<1>1. IndInv => ParameterMeansImplementor
  BY DEF IndInv, SeenMeans
<1> QED BY <1>1, Invariance, PTL

(* A call from outside finds the class it names                            *)
(* (check_and_determine_param_type).                                       *)
THEOREM OutsideCallersAreAccepted == Spec => []CallersAreAccepted
<1>1. IndInv => CallersAreAccepted
  BY DEF IndInv, SeenMeans
<1> QED BY <1>1, Invariance, PTL
=============================================================================
