-------------------------- MODULE LexicalWalkProofs --------------------------
(***************************************************************************)
(* Proofs about LexicalWalk, for every set of names, every source and      *)
(* every depth of nesting.                                                 *)
(*                                                                         *)
(* The source is flat: a sequence of beginnings and ends.  The argument is *)
(* about its nesting, N: N[p] are the bodies that are open after p         *)
(* elements, outermost first.  A pass's scopes are the part of N[pc - 1]   *)
(* that it walks (Walked), an id is the number of bodies walked before     *)
(* (Id), and so the name of a function is a function of the tree and of    *)
(* the pass alone (NameIs).  That different functions have different names *)
(* then follows where their nestings part; that the passes agree follows   *)
(* from their walking the same bodies.                                     *)
(***************************************************************************)
EXTENDS LexicalWalk, SequenceTheorems, FiniteSetTheorems, TLAPS

(***************************************************************************)
(* Sequences and numbers.                                                  *)
(***************************************************************************)

LEMMA FrontFacts ==
  ASSUME NEW S, NEW s \in Seq(S), s # <<>>
  PROVE  LET f == Front(s) IN
         /\ Len(s) \in Nat \ {0} /\ s[Len(s)] \in S
         /\ f \in Seq(S) /\ Len(f) = Len(s) - 1
         /\ \A i \in 1 .. Len(s) - 1 : f[i] = s[i]
<1>1. Len(s) \in Nat \ {0} /\ \A i \in 1 .. Len(s) : s[i] \in S
  BY EmptySeq, ElementOfSeq
<1>2. \A i \in 1 .. Len(s) - 1 : s[i] \in S
  BY <1>1
<1>3. 1 \in Int /\ Len(s) - 1 \in Int
  BY <1>1
<1> DEFINE f == SubSeq(s, 1, Len(s) - 1)
<1>4. /\ f \in Seq(S)
      /\ Len(f) = IF 1 <= Len(s) - 1 THEN Len(s) - 1 - 1 + 1 ELSE 0
      /\ \A i \in 1 .. Len(s) - 1 - 1 + 1 : f[i] = s[1 + i - 1]
  BY <1>2, <1>3, SubSeqProperties
<1> HIDE DEF f
<1>5. \A i \in 1 .. Len(s) - 1 : 1 + i - 1 = i
  OBVIOUS
<1>6. \A i \in 1 .. Len(s) - 1 : f[i] = s[i]
  BY <1>1, <1>4, <1>5
<1>7. Len(f) = Len(s) - 1
  <2>1. CASE Len(s) = 1
    BY <1>4, <2>1
  <2>2. CASE Len(s) > 1
    BY <1>1, <1>4, <2>2
  <2>3. Len(s) \in Nat /\ Len(s) # 0
    BY <1>1
  <2> QED BY <2>1, <2>2, <2>3
<1> QED BY <1>1, <1>4, <1>6, <1>7 DEF f, Front

(* Every set of naturals has a least element: the finite sets are well-founded. *)
LEMMA Least ==
  ASSUME NEW S \in SUBSET Nat, S # {}
  PROVE  \E x \in S : \A y \in S : x <= y
<1>1. PICK n \in S : TRUE
  OBVIOUS
<1> DEFINE T == {0 .. k : k \in S}
<1>2. IsWellFoundedOn(StrictSubsetOrdering(Nat), FiniteSubsetsOf(Nat))
  BY FS_StrictSubsetOrderingWellFounded
<1>3. T \subseteq FiniteSubsetsOf(Nat) /\ T # {}
  <2>1. \A k \in Nat : IsFiniteSet(0 .. k) /\ 0 .. k \in SUBSET Nat
    BY FS_Interval
  <2> QED BY <1>1, <2>1 DEF FiniteSubsetsOf
<1>4. PICK X \in T : \A Y \in T : <<Y, X>> \notin StrictSubsetOrdering(Nat)
  <2> HIDE DEF T
  <2> QED BY <1>2, <1>3, WFMin
<1>5. PICK k \in S : X = 0 .. k
  BY <1>4
<1>6. ASSUME NEW y \in S, y < k PROVE FALSE
  <2>1. 0 .. y \in T
    BY <1>6
  <2>2. 0 .. y \subseteq 0 .. k /\ k \in 0 .. k /\ k \notin 0 .. y
    BY <1>6
  <2>3. 0 .. y \in SUBSET Nat /\ X \in SUBSET Nat
    BY <1>5
  <2> QED BY <1>4, <1>5, <2>1, <2>2, <2>3 DEF StrictSubsetOrdering
<1> QED BY <1>6

LEMMA Appended ==
  ASSUME NEW S, NEW s \in Seq(S), NEW T, NEW e \in T, S \subseteq T
  PROVE  /\ Append(s, e) \in Seq(T) /\ Len(Append(s, e)) = Len(s) + 1
         /\ Append(s, e)[Len(s) + 1] = e /\ Len(s) \in Nat
         /\ \A i \in 1 .. Len(s) : Append(s, e)[i] = s[i]
<1>1. s \in Seq(T)
  BY SeqMonotonic
<1> QED BY <1>1, AppendProperties, LenProperties

(***************************************************************************)
(* The source.                                                             *)
(***************************************************************************)
ElementType ==
  {e \in [kind : Kind \cup {"end"}, name : NameType, within : Nat] :
     (e.kind = "fn" => e.name \in FnName) /\ (e.kind = "end" => e = End)}

(* The nesting: N[p] are the bodies open after p elements. *)
Nesting(N) ==
  /\ N \in [0 .. Len(ast) -> Seq(Nat)]
  /\ N[0] = <<>>
  /\ nest = N[Len(ast)]
  /\ \A p \in 1 .. Len(ast) :
       /\ ast[p] = End => N[p - 1] # <<>> /\ N[p] = Front(N[p - 1])
       /\ ast[p] # End => N[p] = Append(N[p - 1], p)
       /\ ast[p] # End => ast[p].within = IF N[p - 1] = <<>> THEN 0 ELSE Last(N[p - 1])
  /\ \A p \in 0 .. Len(ast) : \A j \in 1 .. Len(N[p]) :
       /\ N[p][j] \in 1 .. p
       /\ ast[N[p][j]] # End
       /\ j > 1 => N[p][j - 1] < N[p][j]
       /\ Len(N[N[p][j]]) = j
       /\ \A h \in 1 .. j : N[N[p][j]][h] = N[p][h]

(* make_fn_proto: one function of a name in a scope. *)
Unique ==
  \A i, j \in 1 .. Len(ast) :
    i < j /\ ast[j].kind \in {"fn", "generic"} /\ ast[i].name = ast[j].name =>
      ast[i].within # ast[j].within

Source ==
  /\ emitMain \in BOOLEAN
  /\ ast \in Seq(ElementType)
  /\ Unique
  /\ \E N : Nesting(N)

Unstarted ==
  /\ pass = 1 /\ pc = 1 /\ scopes = <<>> /\ skipped = 0
  /\ count = 0 /\ first = 0 /\ named = <<>>

LEMMA NestTyped ==
  ASSUME Source
  PROVE  /\ Len(ast) \in Nat /\ nest \in Seq(Nat) /\ nest \in Seq(1 .. Len(ast))
         /\ DOMAIN ast = 1 .. Len(ast)
         /\ Innermost \in Nat
<1>1. Len(ast) \in Nat /\ DOMAIN ast = 1 .. Len(ast)
  BY LenProperties DEF Source
<1>2. PICK N : Nesting(N)
  BY DEF Source
<1>3. nest \in Seq(Nat) /\ \A j \in 1 .. Len(nest) : nest[j] \in 1 .. Len(ast)
  BY <1>1, <1>2 DEF Nesting
<1>4. nest \in Seq(1 .. Len(ast))
  BY <1>3, IsASeq, LenProperties, SeqDef
<1>5. Innermost \in Nat
  BY <1>3, FrontFacts DEF Innermost, Last
<1> QED BY <1>1, <1>3, <1>4, <1>5

(* An element is added to the source; m: the bodies then open. *)
LEMMA NestingGrows ==
  ASSUME NEW N, Nesting(N), Len(ast) \in Nat, NEW T, ast \in Seq(T), NEW e \in T,
         ast' = Append(ast, e), NEW m \in Seq(Nat), nest' = m,
         e = End => nest # <<>> /\ m = Front(nest),
         e # End => m = Append(nest, Len(ast) + 1),
         e # End => e.within = Innermost
  PROVE  \E M : Nesting(M)'
<1> DEFINE n == Len(ast)
<1>1. PICK k \in Nat : k = n + 1
  OBVIOUS
<1> DEFINE M == [p \in 0 .. k |-> IF p = k THEN m ELSE N[p]]
<1>2. /\ ast' \in Seq(T) /\ Len(ast') = k /\ ast'[k] = e
      /\ \A i \in 1 .. n : ast'[i] = ast[i]
  BY <1>1, AppendProperties
<1>3. /\ M \in [0 .. k -> Seq(Nat)] /\ M[k] = m
      /\ \A p \in 0 .. n : M[p] = N[p] /\ p \in 0 .. k /\ p # k
  BY <1>1 DEF Nesting
<1>4. N[n] = nest /\ nest \in Seq(Nat) /\ n \in 0 .. n /\ \A p \in 0 .. n : N[p] \in Seq(Nat)
  <2>1. N \in [0 .. n -> Seq(Nat)] /\ nest = N[n]
    BY DEF Nesting
  <2> HIDE DEF n
  <2>2. n \in Nat
    BY DEF n
  <2> QED BY <2>1, <2>2
<1> HIDE DEF M
<1>5. ASSUME NEW p \in 1 .. k
      PROVE  /\ ast'[p] = End => M[p - 1] # <<>> /\ M[p] = Front(M[p - 1])
             /\ ast'[p] # End => M[p] = Append(M[p - 1], p)
             /\ ast'[p] # End => ast'[p].within = IF M[p - 1] = <<>> THEN 0 ELSE Last(M[p - 1])
  <2>1. CASE p = k
    <3>1. M[p - 1] = nest /\ M[p] = m /\ ast'[p] = e
      <4>1. p - 1 = n
        BY <1>1, <2>1
      <4> HIDE DEF n
      <4> QED BY <1>2, <1>3, <1>4, <2>1, <4>1
    <3> QED BY <1>1, <2>1, <3>1 DEF Innermost
  <2>2. CASE p # k
    <3>1. p \in 1 .. n /\ p \in 0 .. n /\ p - 1 \in 0 .. n
      BY <1>1, <2>2
    <3>2. M[p - 1] = N[p - 1] /\ M[p] = N[p] /\ ast'[p] = ast[p]
      BY <1>2, <1>3, <3>1
    <3> QED BY <3>1, <3>2 DEF Nesting
  <2> QED BY <2>1, <2>2
<1>6. ASSUME NEW p \in 0 .. n, NEW j \in 1 .. Len(N[p])
      PROVE  /\ N[p][j] \in 1 .. p /\ N[p][j] \in 0 .. n /\ N[p][j] \in 1 .. n
             /\ ast'[N[p][j]] # End /\ M[N[p][j]] = N[N[p][j]]
             /\ j > 1 => N[p][j - 1] < N[p][j]
             /\ Len(N[N[p][j]]) = j
             /\ \A h \in 1 .. j : N[N[p][j]][h] = N[p][h]
  <2>1. N[p][j] \in 1 .. p /\ ast[N[p][j]] # End
    BY DEF Nesting
  <2>2. N[p][j] \in 1 .. n /\ N[p][j] \in 0 .. n
    BY <2>1
  <2>3. ast'[N[p][j]] # End /\ M[N[p][j]] = N[N[p][j]]
    BY <1>2, <1>3, <2>1, <2>2
  <2> QED BY <2>1, <2>2, <2>3 DEF Nesting
<1>7. ASSUME NEW j \in 1 .. Len(m)
      PROVE  /\ m[j] \in 1 .. k
             /\ ast'[m[j]] # End
             /\ j > 1 => m[j - 1] < m[j]
             /\ Len(M[m[j]]) = j
             /\ \A h \in 1 .. j : M[m[j]][h] = m[h]
  <2>1. ASSUME j \in 1 .. Len(nest), \A h \in 1 .. j : m[h] = nest[h]
        PROVE  /\ m[j] \in 1 .. k
               /\ ast'[m[j]] # End
               /\ j > 1 => m[j - 1] < m[j]
               /\ Len(M[m[j]]) = j
               /\ \A h \in 1 .. j : M[m[j]][h] = m[h]
    <3>1. j \in 1 .. j /\ (j > 1 => j - 1 \in 1 .. j)
      BY <1>4, LenProperties
    <3>2. m[j] = nest[j] /\ (j > 1 => m[j - 1] = nest[j - 1])
      BY <2>1, <3>1
    <3>3. /\ nest[j] \in 1 .. n /\ ast'[nest[j]] # End /\ M[nest[j]] = N[nest[j]]
          /\ j > 1 => nest[j - 1] < nest[j]
          /\ Len(N[nest[j]]) = j
          /\ \A h \in 1 .. j : N[nest[j]][h] = nest[h]
      BY <1>4, <1>6, <2>1
    <3> QED BY <1>1, <2>1, <3>2, <3>3
  <2>2. CASE e = End
    <3>1. Len(m) = Len(nest) - 1 /\ Len(nest) \in Nat /\ \A i \in 1 .. Len(nest) - 1 : m[i] = nest[i]
      <4>1. nest \in Seq(Nat) /\ nest # <<>> /\ m = Front(nest)
        BY <1>4, <2>2
      <4> QED BY <4>1, FrontFacts
    <3>2. j \in 1 .. Len(nest) /\ \A h \in 1 .. j : m[h] = nest[h]
      BY <3>1
    <3> QED BY <2>1, <3>2
  <2>3. CASE e # End
    <3>1. Len(m) = Len(nest) + 1 /\ Len(nest) \in Nat /\ m[Len(nest) + 1] = k
          /\ \A i \in 1 .. Len(nest) : m[i] = nest[i]
      <4>1. m = Append(nest, k) /\ k \in Nat /\ Len(nest) \in Nat
        BY <1>1, <1>4, <2>3, LenProperties
      <4> QED BY <1>4, <4>1, AppendProperties
    <3>2. CASE j # Len(m)
      <4>1. j \in 1 .. Len(nest) /\ \A h \in 1 .. j : m[h] = nest[h]
        BY <3>1, <3>2
      <4> QED BY <2>1, <4>1
    <3>3. CASE j = Len(m)
      <4>1. m[j] = k /\ ast'[m[j]] = e /\ M[m[j]] = m
        BY <1>2, <1>3, <3>1, <3>3
      <4>2. j > 1 => m[j - 1] < m[j]
        <5>1. j > 1 => j - 1 \in 1 .. Len(nest) /\ m[j - 1] = nest[j - 1]
          BY <3>1, <3>3
        <5>2. \A i \in 1 .. Len(nest) : nest[i] \in 1 .. n
          BY <1>4, <1>6
        <5> QED BY <1>1, <4>1, <5>1, <5>2
      <4> QED BY <1>1, <2>3, <3>3, <4>1, <4>2
    <3> QED BY <3>2, <3>3
  <2> QED BY <2>2, <2>3
<1>8. ASSUME NEW p \in 0 .. k, NEW j \in 1 .. Len(M[p])
      PROVE  /\ M[p][j] \in 1 .. p
             /\ ast'[M[p][j]] # End
             /\ j > 1 => M[p][j - 1] < M[p][j]
             /\ Len(M[M[p][j]]) = j
             /\ \A h \in 1 .. j : M[M[p][j]][h] = M[p][h]
  <2>1. CASE p = k
    BY <1>3, <1>7, <2>1
  <2>2. CASE p # k
    <3>1. p \in 0 .. n /\ M[p] = N[p]
      BY <1>1, <1>3, <2>2
    <3>2. j \in 1 .. Len(N[p])
      BY <3>1
    <3>3. /\ N[p][j] \in 1 .. p /\ ast'[N[p][j]] # End /\ M[N[p][j]] = N[N[p][j]]
          /\ (j > 1 => N[p][j - 1] < N[p][j]) /\ Len(N[N[p][j]]) = j
          /\ \A h \in 1 .. j : N[N[p][j]][h] = N[p][h]
      BY <1>6, <3>1, <3>2
    <3> QED BY <3>1, <3>3
  <2> QED BY <2>1, <2>2
<1>9. M[0] = <<>>
  BY <1>3 DEF Nesting
<1>10. Nesting(M)'
  BY <1>2, <1>3, <1>5, <1>8, <1>9 DEF Nesting
<1> QED BY <1>10

LEMMA NestingKept == ASSUME UNCHANGED source, NEW N, Nesting(N) PROVE Nesting(N)'
<1>1. ast' = ast /\ nest' = nest
  BY DEF source
<1> QED BY <1>1 DEF Nesting

LEMMA SourceKept == ASSUME Source, UNCHANGED source PROVE Source'
<1>1. ast' = ast /\ emitMain' = emitMain
  BY DEF source
<1>2. PICK N : Nesting(N)
  BY DEF Source
<1>3. Nesting(N)'
  BY <1>2, NestingKept
<1>4. Unique'
  BY <1>1 DEF Unique, Source
<1> QED BY <1>1, <1>3, <1>4 DEF Source

LEMMA EndIsAnElement ==
  End \in ElementType /\ End.kind = "end" /\ Kind \cap {"end"} = {}
BY DEF End, Element, ElementType, NameType, Kind

LEMMA AddStep ==
  ASSUME Source, NEW kind \in Kind, NEW name \in NameType, Add(kind, name),
         kind = "fn" => name \in FnName,
         kind \in {"fn", "generic"} =>
           \A i \in DOMAIN ast : ast[i].name = name => ast[i].within # Innermost
  PROVE  Source'
<1> DEFINE e == Element(kind, name, Innermost)
<1>1. /\ Len(ast) \in Nat /\ DOMAIN ast = 1 .. Len(ast) /\ nest \in Seq(Nat)
      /\ Innermost \in Nat /\ ast \in Seq(ElementType)
  BY NestTyped DEF Source
<1>2. /\ e \in ElementType /\ e # End
      /\ e.kind = kind /\ e.name = name /\ e.within = Innermost
  BY <1>1, EndIsAnElement DEF Element, ElementType
<1>3. /\ ast' = Append(ast, e) /\ nest' = Append(nest, Len(ast) + 1)
      /\ emitMain' = emitMain
  BY DEF Add
<1> HIDE DEF e
<1>4. PICK k \in Nat : k = Len(ast) + 1
  BY <1>1
<1>5. /\ ast' \in Seq(ElementType) /\ Len(ast') = k /\ ast'[k] = e
      /\ \A i \in 1 .. Len(ast) : ast'[i] = ast[i]
  BY <1>1, <1>2, <1>3, <1>4, AppendProperties
<1>6. \E M : Nesting(M)'
  <2>1. PICK N : Nesting(N)
    BY DEF Source
  <2>2. Append(nest, Len(ast) + 1) \in Seq(Nat)
    BY <1>1, <1>4, AppendProperties
  <2> QED BY <1>1, <1>2, <1>3, <2>1, <2>2, NestingGrows
<1>7. Unique'
  <2> SUFFICES ASSUME NEW i \in 1 .. k, NEW j \in 1 .. k, i < j,
                      ast'[j].kind \in {"fn", "generic"}, ast'[i].name = ast'[j].name
               PROVE  ast'[i].within # ast'[j].within
    BY <1>5 DEF Unique
  <2>1. i \in 1 .. Len(ast) /\ ast'[i] = ast[i]
    BY <1>1, <1>4, <1>5, SMTT(30)
  <2>2. CASE j = k
    BY <1>1, <1>2, <1>5, <2>1, <2>2
  <2>3. CASE j # k
    <3>1. j \in 1 .. Len(ast) /\ ast'[j] = ast[j]
      BY <1>1, <1>4, <1>5, <2>3
    <3> QED BY <2>1, <3>1 DEF Source, Unique
  <2> QED BY <2>2, <2>3
<1> QED BY <1>3, <1>5, <1>6, <1>7 DEF Source

LEMMA EndStep == ASSUME Source, EndBody PROVE Source'
<1>1. /\ Len(ast) \in Nat /\ nest \in Seq(Nat) /\ ast \in Seq(ElementType)
  BY NestTyped DEF Source
<1>2. /\ ast' = Append(ast, End) /\ nest' = Front(nest) /\ nest # <<>>
      /\ emitMain' = emitMain
  BY DEF EndBody
<1>3. PICK k \in Nat : k = Len(ast) + 1
  BY <1>1
<1>4. /\ ast' \in Seq(ElementType) /\ Len(ast') = k /\ ast'[k] = End
      /\ \A i \in 1 .. Len(ast) : ast'[i] = ast[i]
  BY <1>1, <1>2, <1>3, EndIsAnElement, AppendProperties
<1>5. \E M : Nesting(M)'
  <2>1. PICK N : Nesting(N)
    BY DEF Source
  <2>2. Front(nest) \in Seq(Nat)
    BY <1>1, <1>2, FrontFacts
  <2> QED BY <1>1, <1>2, <2>1, <2>2, EndIsAnElement, NestingGrows
<1>6. Unique'
  <2> SUFFICES ASSUME NEW i \in 1 .. k, NEW j \in 1 .. k, i < j,
                      ast'[j].kind \in {"fn", "generic"}, ast'[i].name = ast'[j].name
               PROVE  ast'[i].within # ast'[j].within
    BY <1>4 DEF Unique
  <2>1. i \in 1 .. Len(ast) /\ ast'[i] = ast[i]
    BY <1>1, <1>3, <1>4
  <2>2. j # k
    BY <1>4, EndIsAnElement
  <2>3. j \in 1 .. Len(ast) /\ ast'[j] = ast[j]
    BY <1>1, <1>3, <1>4, <2>2
  <2> QED BY <2>1, <2>3 DEF Source, Unique
<1> QED BY <1>2, <1>4, <1>5, <1>6 DEF Source

(* The steps that make the source. *)
Building ==
  \/ \E kind \in {"fn", "generic"}, name \in FnName : AddFunction(kind, name)
  \/ AddBlock \/ AddBranch \/ AddValue \/ EndBody

LEMMA BuildStep == ASSUME Source, Building PROVE Source'
<1>1. CASE \E kind \in {"fn", "generic"}, name \in FnName : AddFunction(kind, name)
  BY <1>1, AddStep DEF AddFunction, Kind, NameType
<1>2. CASE AddBlock \/ AddBranch \/ AddValue
  BY <1>2, AddStep DEF AddBlock, AddBranch, AddValue, Kind, NameType
<1> QED BY <1>1, <1>2, EndStep DEF Building

LEMMA SourceInit == Init => Source /\ Unstarted /\ mode = "build"
<1> SUFFICES ASSUME Init PROVE Source
  BY DEF Init, Unstarted
<1>1. ast = <<>> /\ nest = <<>> /\ Len(ast) = 0 /\ emitMain \in BOOLEAN
  BY OptionAssumption, EmptySeq DEF Init
<1> DEFINE N == [p \in 0 .. 0 |-> <<>>]
<1>2. N \in [0 .. 0 -> Seq(Nat)] /\ N[0] = <<>> /\ Len(N[0]) = 0
  BY EmptySeq
<1> HIDE DEF N
<1>3. Nesting(N)
  BY <1>1, <1>2 DEF Nesting
<1> QED BY <1>1, <1>3, EmptySeq DEF Source, Unique

(***************************************************************************)
(* What a pass walks.                                                      *)
(***************************************************************************)
(* body m is inside a function's *)
InFn(N, m) == emitMain \/ \E j \in 1 .. Len(N[m]) - 1 : ast[N[m][j]].kind = "fn"

(* pass p descends into body m when it comes to it, *)
Descends(N, p, m) ==
  /\ ast[m].kind = "branch" => p = 1 \/ InFn(N, m)
  /\ ast[m].kind = "value" => p = 2 /\ InFn(N, m)
  /\ ast[m].kind # "generic"

(* and it comes to it *)
Walks(N, p, k) == \A j \in 1 .. Len(N[k]) : Descends(N, p, N[k][j])

Walked(N, p, i) == {q \in 1 .. i : ast[q] # End /\ Walks(N, p, q)}
Id(N, p, i) == Cardinality(Walked(N, p, i))

LEMMA IdTyped ==
  ASSUME NEW N, NEW p, NEW i \in Nat
  PROVE  IsFiniteSet(Walked(N, p, i)) /\ Id(N, p, i) \in 0 .. i
<1>1. IsFiniteSet(1 .. i) /\ Cardinality(1 .. i) = i
  BY FS_Interval
<1>2. Walked(N, p, i) \subseteq 1 .. i
  BY DEF Walked
<1>3. /\ IsFiniteSet(Walked(N, p, i))
      /\ Cardinality(Walked(N, p, i)) <= Cardinality(1 .. i)
  BY <1>1, <1>2, FS_Subset
<1>4. Cardinality(Walked(N, p, i)) \in Nat
  BY <1>3, FS_CardinalityType
<1> QED BY <1>1, <1>3, <1>4 DEF Id

LEMMA IdZero == \A N, p : Id(N, p, 0) = 0
<1> SUFFICES ASSUME NEW N, NEW p PROVE Id(N, p, 0) = 0
  OBVIOUS
<1> QED BY IdTyped

LEMMA IdStep ==
  ASSUME NEW N, NEW p, NEW i \in Nat, i > 0
  PROVE  Id(N, p, i) = IF ast[i] # End /\ Walks(N, p, i)
                         THEN Id(N, p, i - 1) + 1 ELSE Id(N, p, i - 1)
<1> DEFINE W == Walked(N, p, i - 1)
<1>1. IsFiniteSet(W) /\ i - 1 \in Nat
  BY IdTyped
<1>2. CASE ast[i] # End /\ Walks(N, p, i)
  <2>1. Walked(N, p, i) = W \cup {i} /\ i \notin W
    BY <1>2 DEF Walked
  <2>2. Cardinality(W \cup {i}) = Cardinality(W) + 1
    <3> HIDE DEF W
    <3> QED BY <1>1, <2>1, FS_AddElement
  <2> QED BY <1>2, <2>1, <2>2 DEF Id
<1>3. CASE ~(ast[i] # End /\ Walks(N, p, i))
  <2>1. Walked(N, p, i) = W
    BY <1>3 DEF Walked
  <2> QED BY <1>3, <2>1 DEF Id
<1> QED BY <1>2, <1>3

(* Of two bodies that are walked the later one has the greater id. *)
LEMMA IdsDiffer ==
  ASSUME NEW N, NEW p, NEW i \in Nat, NEW k \in Nat, i < k,
         ast[k] # End, Walks(N, p, k)
  PROVE  Id(N, p, i) # Id(N, p, k)
<1>1. IsFiniteSet(Walked(N, p, k))
  BY IdTyped
<1>2. Walked(N, p, i) \subseteq Walked(N, p, k) /\ k \in Walked(N, p, k) /\ k \notin Walked(N, p, i)
  BY DEF Walked
<1> QED BY <1>1, <1>2, FS_Subset DEF Id

(* The bodies around body k are walked if it is. *)
LEMMA WalksAround ==
  ASSUME Source, NEW N, Nesting(N), NEW p, NEW k \in 1 .. Len(ast), Walks(N, p, k),
         NEW j \in 1 .. Len(N[k])
  PROVE  Walks(N, p, N[k][j])
<1>1. k \in 0 .. Len(ast) /\ Len(ast) \in Nat
  BY NestTyped
<1>2. /\ Len(N[N[k][j]]) = j /\ \A h \in 1 .. j : N[N[k][j]][h] = N[k][h]
  BY <1>1 DEF Nesting
<1>3. \A h \in 1 .. j : h \in 1 .. Len(N[k])
  <2>1. Len(N[k]) \in Nat
    BY <1>1, LenProperties DEF Nesting
  <2> QED BY <2>1
<1> QED BY <1>2, <1>3 DEF Walks

(* The body around the j-th of those that are open at body k. *)
LEMMA AroundIs ==
  ASSUME Source, NEW N, Nesting(N), NEW k \in 1 .. Len(ast), NEW j \in 1 .. Len(N[k])
  PROVE  /\ N[k][j] \in 1 .. k /\ N[k][j] \in 1 .. Len(ast) /\ ast[N[k][j]] # End
         /\ ast[N[k][j]].within = IF j = 1 THEN 0 ELSE N[k][j - 1]
<1>1. Len(ast) \in Nat /\ k \in 0 .. Len(ast)
  BY NestTyped
<1>2. PICK u : u = N[k][j]
  OBVIOUS
<1>3. /\ u \in 1 .. k /\ ast[u] # End /\ Len(N[u]) = j /\ \A h \in 1 .. j : N[u][h] = N[k][h]
  BY <1>1, <1>2 DEF Nesting
<1>4. u \in 1 .. Len(ast) /\ u - 1 \in 0 .. Len(ast)
  BY <1>1, <1>3
<1>5. N[u - 1] \in Seq(Nat) /\ N[u] = Append(N[u - 1], u)
      /\ ast[u].within = IF N[u - 1] = <<>> THEN 0 ELSE Last(N[u - 1])
  BY <1>3, <1>4 DEF Nesting
<1>6. /\ Len(N[u - 1]) \in Nat /\ Len(N[u - 1]) + 1 = j
      /\ \A h \in 1 .. Len(N[u - 1]) : N[u - 1][h] = N[u][h]
  BY <1>3, <1>4, <1>5, AppendProperties, LenProperties
<1>7. N[u - 1] = <<>> <=> Len(N[u - 1]) = 0
  BY <1>5, EmptySeq
<1>8. CASE j = 1
  BY <1>2, <1>3, <1>4, <1>5, <1>6, <1>7, <1>8
<1>9. CASE j # 1
  <2>1. Len(N[u - 1]) = j - 1 /\ j - 1 \in 1 .. Len(N[u - 1]) /\ j - 1 \in 1 .. j
    BY <1>6, <1>9
  <2>2. Last(N[u - 1]) = N[k][j - 1]
    BY <1>3, <1>6, <2>1 DEF Last
  <2> QED BY <1>2, <1>3, <1>4, <1>5, <1>7, <1>9, <2>1, <2>2
<1> QED BY <1>8, <1>9

(* A body is the innermost one where it begins; n others are around it. *)
Inside(N, k, n) ==
  /\ N[k - 1] \in Seq(Nat) /\ N[k] \in Seq(Nat)
  /\ n \in Nat /\ n = Len(N[k - 1]) /\ n + 1 = Len(N[k]) /\ N[k][n + 1] = k
  /\ \A j \in 1 .. n : N[k][j] = N[k - 1][j]

(* where a body begins, it is the last of those it is in *)
LEMMA InsideEnds ==
  ASSUME NEW N, NEW k, NEW n, Inside(N, k, n)
  PROVE  /\ Len(N[k]) = n + 1 /\ Len(N[k]) \in Nat /\ Len(N[k]) \in 1 .. Len(N[k])
         /\ N[k][Len(N[k])] = k
<1>1. n \in Nat /\ Len(N[k]) = n + 1 /\ N[k][n + 1] = k
  BY DEF Inside
<1>2. N[k][Len(N[k])] = k
  BY <1>1
<1>3. \A l : l = n + 1 => l \in Nat /\ l \in 1 .. l
  BY <1>1
<1> QED BY <1>1, <1>2, <1>3

LEMMA InnermostIs ==
  ASSUME Source, NEW N, Nesting(N), NEW k \in 1 .. Len(ast), ast[k] # End
  PROVE  Inside(N, k, Len(N[k - 1]))
<1>1. Len(ast) \in Nat /\ k - 1 \in 0 .. Len(ast) /\ k \in Nat /\ k \in 0 .. Len(ast)
  BY NestTyped
<1>2. N[k - 1] \in Seq(Nat) /\ N[k] \in Seq(Nat) /\ N[k] = Append(N[k - 1], k)
  BY <1>1 DEF Nesting
<1>3. /\ Len(N[k - 1]) \in Nat /\ Len(N[k]) = Len(N[k - 1]) + 1
      /\ N[k][Len(N[k - 1]) + 1] = k
      /\ \A j \in 1 .. Len(N[k - 1]) : N[k][j] = N[k - 1][j]
  BY <1>1, <1>2, AppendProperties, LenProperties
<1> QED BY <1>2, <1>3 DEF Inside

(***************************************************************************)
(* Names.                                                                  *)
(***************************************************************************)
(* what body m gives to the names of the functions in it *)
Part(N, p, m) == IF ast[m].kind = "fn" THEN ast[m].name ELSE Id(N, p, m)

NameIs(N, p, k, s) ==
  Len(s) = Len(N[k]) /\ \A j \in 1 .. Len(N[k]) : s[j] = Part(N, p, N[k][j])

(* Bodies that begin in the same body give different parts. *)
LEMMA PartsDiffer ==
  ASSUME Source, NEW N, Nesting(N), NEW p, NEW u \in 1 .. Len(ast), NEW v \in 1 .. Len(ast),
         u # v, ast[u] # End, ast[v] # End, Walks(N, p, u), Walks(N, p, v),
         ast[u].within = ast[v].within
  PROVE  Part(N, p, u) # Part(N, p, v)
<1>1. Len(ast) \in Nat /\ u \in Nat /\ v \in Nat
  BY NestTyped
<1>2. \A m \in 1 .. Len(ast) : ast[m].kind = "fn" => ast[m].name \in FnName
  BY ElementOfSeq DEF Source, ElementType
<1>3. Id(N, p, u) \in Nat /\ Id(N, p, v) \in Nat
  BY <1>1, IdTyped
<1>4. CASE ast[u].kind = "fn" /\ ast[v].kind = "fn"
  <2>1. u < v \/ v < u
    BY <1>1
  <2> QED BY <1>4, <2>1 DEF Source, Unique, Part
<1>5. CASE ast[u].kind # "fn" /\ ast[v].kind # "fn"
  <2>1. u < v \/ v < u
    BY <1>1
  <2> QED BY <1>1, <1>5, <2>1, IdsDiffer DEF Part
<1>6. CASE ast[u].kind = "fn" /\ ast[v].kind # "fn"
  BY <1>2, <1>3, <1>6, NameAssumption DEF Part
<1>7. CASE ast[u].kind # "fn" /\ ast[v].kind = "fn"
  BY <1>2, <1>3, <1>7, NameAssumption DEF Part
<1> QED BY <1>4, <1>5, <1>6, <1>7

LEMMA NamesDiffer ==
  ASSUME Source, NEW N, Nesting(N), NEW p, NEW a \in 1 .. Len(ast), NEW b \in 1 .. Len(ast),
         ast[a] # End, ast[b] # End, Walks(N, p, a), Walks(N, p, b),
         NEW s, NameIs(N, p, a, s), NameIs(N, p, b, s)
  PROVE  a = b
<1> SUFFICES ASSUME a # b PROVE FALSE
  OBVIOUS
<1>1. PICK d : d = Len(N[a])
  OBVIOUS
<1>2. /\ d \in Nat /\ d \in 1 .. d /\ Len(N[a]) = d /\ Len(N[b]) = d
      /\ N[a][d] = a /\ N[b][d] = b
  <2>0. Inside(N, a, Len(N[a - 1])) /\ Inside(N, b, Len(N[b - 1]))
    BY InnermostIs
  <2>1. Len(N[a]) \in Nat /\ Len(N[a]) \in 1 .. Len(N[a]) /\ N[a][Len(N[a])] = a
    BY <2>0, InsideEnds
  <2>2. N[b][Len(N[b])] = b
    BY <2>0, InsideEnds
  <2>3. Len(N[b]) = d
    BY <1>1 DEF NameIs
  <2> QED BY <1>1, <2>1, <2>2, <2>3
<1> DEFINE D == {j \in 1 .. d : N[a][j] # N[b][j]}
<1>3. PICK x \in D : \A y \in D : x <= y
  <2>1. d \in D /\ D \in SUBSET Nat
    BY <1>2
  <2> HIDE DEF D
  <2> QED BY <2>1, Least
<1>4. PICK u, v : u = N[a][x] /\ v = N[b][x]
  OBVIOUS
<1>5. x \in 1 .. d /\ u # v
  BY <1>3, <1>4
<1>6. /\ u \in 1 .. Len(ast) /\ ast[u] # End /\ ast[u].within = IF x = 1 THEN 0 ELSE N[a][x - 1]
      /\ v \in 1 .. Len(ast) /\ ast[v] # End /\ ast[v].within = IF x = 1 THEN 0 ELSE N[b][x - 1]
  BY <1>2, <1>4, <1>5, AroundIs
<1>7. ast[u].within = ast[v].within
  <2>1. CASE x = 1
    BY <1>6, <2>1
  <2>2. CASE x # 1
    <3>1. x - 1 \in 1 .. d /\ ~(x <= x - 1)
      BY <1>2, <1>5, <2>2
    <3>2. x - 1 \notin D
      BY <1>3, <3>1
    <3> QED BY <1>6, <2>2, <3>1, <3>2
  <2> QED BY <2>1, <2>2
<1>8. Walks(N, p, u) /\ Walks(N, p, v)
  BY <1>2, <1>4, <1>5, WalksAround
<1>9. Part(N, p, u) = Part(N, p, v)
  BY <1>2, <1>4, <1>5 DEF NameIs
<1> QED BY <1>5, <1>6, <1>7, <1>8, <1>9, PartsDiffer

(***************************************************************************)
(* The walk.  D[p] are the bodies that pass p descends into, I[p] numbers  *)
(* them, T are the right entries of named, F the functions of pass 1: all  *)
(* of them are determined by the source, which the walk leaves as it is.   *)
(***************************************************************************)
NameEntry(N, r) ==
  /\ ast[r.at].kind = "fn"
  /\ Walks(N, r.pass, r.at)
  /\ NameIs(N, r.pass, r.at, r.as)

Marks(N, D, I, T, F) ==
  /\ D = [p \in {1, 2} |-> {m \in 1 .. Len(ast) : Descends(N, p, m)}]
  /\ I = [p \in {1, 2} |-> [i \in 0 .. Len(ast) |-> Id(N, p, i)]]
  /\ T = {r \in [pass : {1, 2}, at : 1 .. Len(ast), as : Seq(NameType)] : NameEntry(N, r)}
  /\ F = {k \in 1 .. Len(ast) : ast[k].kind = "fn" /\ Walks(N, 1, k)}

Scoped(N, D, I) ==
  /\ pass \in {1, 2} /\ pc \in 1 .. Len(ast) + 1 /\ skipped \in Nat
  /\ scopes \in Seq(ScopeType)
  /\ Len(scopes) + skipped = Len(N[pc - 1])
  /\ \A j \in 1 .. Len(scopes) :
       /\ scopes[j].kind = ast[N[pc - 1][j]].kind
       /\ scopes[j].name = ast[N[pc - 1][j]].name
       /\ scopes[j].id = I[pass][N[pc - 1][j]]
       /\ N[pc - 1][j] \in D[pass]
  /\ skipped > 0 => N[pc - 1][Len(scopes) + 1] \notin D[pass]
  /\ count = I[pass][pc - 1]
  /\ first = IF pass = 1 THEN 0 ELSE I[1][Len(ast)]

Named(T, F) ==
  /\ named \in Seq(T)
  /\ pass = 1 => \A j \in DOMAIN named : named[j].pass = 1
  /\ \A k \in F : pass = 2 \/ k < pc =>
       \E j \in DOMAIN named : named[j].pass = 1 /\ named[j].at = k

LEMMA MarksKept ==
  ASSUME UNCHANGED source, NEW N, NEW D, NEW I, NEW T, NEW F, Marks(N, D, I, T, F)
  PROVE  Marks(N, D, I, T, F)'
<1>1. ast' = ast /\ emitMain' = emitMain
  BY DEF source
<1>2. \A p, m : Descends(N, p, m)' <=> Descends(N, p, m)
  BY <1>1 DEF Descends, InFn
<1>3. \A p, k : Walks(N, p, k)' <=> Walks(N, p, k)
  BY <1>1 DEF Walks, Descends, InFn
<1>4. \A p, i : Id(N, p, i)' = Id(N, p, i)
  <2> SUFFICES ASSUME NEW p, NEW i PROVE Id(N, p, i)' = Id(N, p, i)
    OBVIOUS
  <2>1. Walked(N, p, i)' = Walked(N, p, i)
    BY <1>1, <1>3 DEF Walked
  <2> QED BY <2>1 DEF Id
<1>5. \A r : NameEntry(N, r)' <=> NameEntry(N, r)
  <2> SUFFICES ASSUME NEW r PROVE NameEntry(N, r)' <=> NameEntry(N, r)
    OBVIOUS
  <2>1. \A p, m : Part(N, p, m)' = Part(N, p, m)
    BY <1>1, <1>4 DEF Part
  <2> QED BY <1>1, <1>3, <2>1 DEF NameEntry, NameIs
<1>6. D = [p \in {1, 2} |-> {m \in 1 .. Len(ast) : Descends(N, p, m)}]'
  BY <1>1, <1>2 DEF Marks
<1>7. I = [p \in {1, 2} |-> [i \in 0 .. Len(ast) |-> Id(N, p, i)]]'
  BY <1>1, <1>4 DEF Marks
<1>8. T = {r \in [pass : {1, 2}, at : 1 .. Len(ast), as : Seq(NameType)] : NameEntry(N, r)}'
  BY <1>1, <1>5 DEF Marks
<1>9. F = {k \in 1 .. Len(ast) : ast[k].kind = "fn" /\ Walks(N, 1, k)}'
  BY <1>1, <1>3 DEF Marks
<1> QED BY <1>6, <1>7, <1>8, <1>9 DEF Marks

(* The element the walk is at. *)
LEMMA Here ==
  ASSUME Source, NEW N, Nesting(N), NEW D, NEW I, Scoped(N, D, I),
         mode = "walk", pc <= Len(ast)
  PROVE  /\ pc \in 1 .. Len(ast) /\ Len(ast) \in Nat /\ pc \in Nat /\ pc - 1 \in 0 .. Len(ast)
         /\ pc \in 0 .. Len(ast) /\ pc + 1 \in 1 .. Len(ast) + 1 /\ pc + 1 - 1 = pc
         /\ Len(scopes) \in Nat /\ skipped \in Nat /\ Len(N[pc - 1]) \in Nat
         /\ pass \in {1, 2} /\ ast[pc] \in ElementType
<1>1. Len(ast) \in Nat
  BY NestTyped
<1>2. pc \in 1 .. Len(ast) /\ pc \in Nat /\ pc - 1 \in 0 .. Len(ast)
      /\ pc \in 0 .. Len(ast) /\ pc + 1 \in 1 .. Len(ast) + 1 /\ pc + 1 - 1 = pc
  BY <1>1 DEF Scoped
<1>3. N[pc - 1] \in Seq(Nat)
  BY <1>2 DEF Nesting
<1> QED BY <1>1, <1>2, <1>3, LenProperties, ElementOfSeq DEF Scoped, Source

(* A body is counted if and only if it is walked in the tree's terms. *)
LEMMA CountsWhatIsWalked ==
  ASSUME Source, NEW N, Nesting(N), NEW D, NEW I, NEW T, NEW F, Marks(N, D, I, T, F),
         Scoped(N, D, I), AtBody
  PROVE  /\ skipped = 0 => (Enters(ast[pc].kind) <=> pc \in D[pass])
         /\ Counts(ast[pc].kind) <=> Walks(N, pass, pc)
<1> DEFINE n == Len(N[pc - 1])
<1>1. /\ pc \in 1 .. Len(ast) /\ pc - 1 \in 0 .. Len(ast) /\ Len(scopes) \in Nat
      /\ skipped \in Nat /\ n \in Nat /\ Len(scopes) + skipped = n
      /\ ast[pc] # End /\ pass \in {1, 2} /\ ast[pc] \in ElementType
  <2>1. mode = "walk" /\ pc <= Len(ast) /\ ast[pc] # End
    BY DEF AtBody
  <2>2. Len(scopes) + skipped = n
    BY DEF Scoped
  <2> QED BY <2>1, <2>2, Here
<1>2. /\ Len(N[pc]) = n + 1 /\ N[pc][n + 1] = pc
      /\ \A j \in 1 .. n : N[pc][j] = N[pc - 1][j]
  <2>1. Inside(N, pc, n)
    BY <1>1, InnermostIs
  <2> QED BY <2>1 DEF Inside
<1>3. \A p \in {1, 2} : \A m \in 1 .. Len(ast) : m \in D[p] <=> Descends(N, p, m)
  BY DEF Marks
<1>4. \A j \in 1 .. n : N[pc - 1][j] \in 1 .. Len(ast)
  <2>1. \A j \in 1 .. n : N[pc - 1][j] \in 1 .. pc - 1
    BY <1>1 DEF Nesting
  <2> QED BY <1>1, <2>1
<1> HIDE DEF n
<1>5. ASSUME skipped = 0 PROVE Enters(ast[pc].kind) <=> pc \in D[pass]
  <2>1. Len(scopes) = n /\ DOMAIN scopes = 1 .. n
    BY <1>1, <1>5, LenProperties DEF Scoped
  <2>2. \A j \in 1 .. n : scopes[j].kind = ast[N[pc][j]].kind
    BY <1>2, <2>1 DEF Scoped
  <2>3. Len(N[pc]) - 1 = n
    BY <1>1, <1>2
  <2>4. InFunction <=> InFn(N, pc)
    BY <2>1, <2>2, <2>3 DEF InFunction, InFn
  <2>5. Enters(ast[pc].kind) <=> Descends(N, pass, pc)
    <3>1. pass = 1 \/ pass = 2
      BY <1>1
    <3> QED BY <2>4, <3>1 DEF Enters, Descends, BranchWalked, ValueWalked, GenericWalked
  <2> QED BY <1>1, <1>3, <2>5
<1>6. CASE skipped = 0
  <2>1. Len(scopes) = n
    BY <1>1, <1>6
  <2>2. \A j \in 1 .. n : Descends(N, pass, N[pc][j])
    BY <1>1, <1>2, <1>3, <1>4, <2>1 DEF Scoped
  <2>3. Walks(N, pass, pc) <=> Descends(N, pass, pc)
    <3>1. \A j \in 1 .. n + 1 : j \in 1 .. n \/ j = n + 1
      BY <1>1
    <3>2. n + 1 \in 1 .. n + 1
      BY <1>1
    <3> QED BY <1>2, <2>2, <3>1, <3>2 DEF Walks
  <2> QED BY <1>1, <1>3, <1>5, <1>6, <2>3 DEF Counts
<1>7. CASE skipped # 0
  <2>1. Len(scopes) + 1 \in 1 .. n /\ Len(scopes) + 1 \in 1 .. n + 1
    BY <1>1, <1>7
  <2>2. N[pc - 1][Len(scopes) + 1] \notin D[pass]
    BY <1>1, <1>7 DEF Scoped
  <2>3. ~Descends(N, pass, N[pc][Len(scopes) + 1])
    BY <1>1, <1>2, <1>3, <1>4, <2>1, <2>2
  <2>4. ~Walks(N, pass, pc)
    BY <1>2, <2>1, <2>3 DEF Walks
  <2> QED BY <1>7, <2>4 DEF Counts
<1> QED BY <1>5, <1>6, <1>7

LEMMA FunctionIsSeq ==
  ASSUME NEW n \in Nat, NEW S, NEW f \in [1 .. n -> S]
  PROVE  f \in Seq(S) /\ Len(f) = n
<1>1. f \in Seq(S)
  BY SeqDef
<1>2. DOMAIN f = 1 .. n /\ DOMAIN f = 1 .. Len(f) /\ Len(f) \in Nat
  BY <1>1, LenProperties
<1>3. Len(f) = n
  BY <1>2
<1> QED BY <1>1, <1>3

(* The counter at an element. *)
LEMMA CountHere ==
  ASSUME Source, NEW N, Nesting(N), NEW D, NEW I, NEW T, NEW F, Marks(N, D, I, T, F),
         Scoped(N, D, I), mode = "walk", pc <= Len(ast)
  PROVE  /\ I[pass][pc - 1] \in Nat
         /\ I[pass][pc] = IF ast[pc] # End /\ Walks(N, pass, pc)
                            THEN I[pass][pc - 1] + 1 ELSE I[pass][pc - 1]
<1>1. pc \in Nat /\ pc > 0 /\ pc - 1 \in Nat /\ pc - 1 \in 0 .. Len(ast) /\ pc \in 0 .. Len(ast)
      /\ pass \in {1, 2}
  BY Here
<1>2. I[pass][pc] = Id(N, pass, pc) /\ I[pass][pc - 1] = Id(N, pass, pc - 1)
  BY <1>1 DEF Marks
<1>3. Id(N, pass, pc - 1) \in Nat
  BY <1>1, IdTyped
<1> QED BY <1>1, <1>2, <1>3, IdStep

LEMMA EnterScoped ==
  ASSUME Source, NEW N, Nesting(N), NEW D, NEW I, NEW T, NEW F, Marks(N, D, I, T, F),
         Scoped(N, D, I), EnterBody
  PROVE  Scoped(N, D, I)'
<1> DEFINE n == Len(scopes)
           e == [kind |-> ast[pc].kind, name |-> ast[pc].name, id |-> count + 1]
<1>1. /\ mode = "walk" /\ pc <= Len(ast) /\ ast[pc] # End /\ AtBody
      /\ skipped = 0 /\ Counts(ast[pc].kind) /\ Enters(ast[pc].kind)
  BY DEF EnterBody, AtBody, Counts
<1>2. /\ pc \in 1 .. Len(ast) /\ pc + 1 \in 1 .. Len(ast) + 1 /\ pc + 1 - 1 = pc
      /\ n \in Nat /\ pass \in {1, 2} /\ ast[pc] \in ElementType
  BY <1>1, Here
<1>3. /\ pc' = pc + 1 /\ scopes' = Append(scopes, e) /\ count' = count + 1
      /\ skipped' = skipped /\ pass' = pass /\ first' = first /\ ast' = ast
  BY DEF EnterBody, source
<1>4. pc \in D[pass] /\ Walks(N, pass, pc)
  BY <1>1, CountsWhatIsWalked
<1>5. I[pass][pc] = I[pass][pc - 1] + 1 /\ count = I[pass][pc - 1] /\ count \in Nat
  BY <1>1, <1>4, CountHere DEF Scoped
<1>6. e \in ScopeType
  BY <1>1, <1>2, <1>5 DEF ScopeType, ElementType
<1>7. scopes \in Seq(ScopeType) /\ Len(N[pc - 1]) = n
      /\ \A j \in 1 .. n :
           /\ scopes[j].kind = ast[N[pc - 1][j]].kind
           /\ scopes[j].name = ast[N[pc - 1][j]].name
           /\ scopes[j].id = I[pass][N[pc - 1][j]]
           /\ N[pc - 1][j] \in D[pass]
  BY <1>1, <1>2 DEF Scoped
<1> HIDE DEF n
<1>8. /\ Len(N[pc]) = n + 1 /\ N[pc][n + 1] = pc
      /\ \A j \in 1 .. n : N[pc][j] = N[pc - 1][j]
  <2>1. Inside(N, pc, n)
    BY <1>1, <1>2, <1>7, InnermostIs
  <2> QED BY <2>1 DEF Inside
<1> HIDE DEF e
<1>9. /\ scopes' \in Seq(ScopeType) /\ Len(scopes') = n + 1 /\ scopes'[n + 1] = e
      /\ \A j \in 1 .. n : scopes'[j] = scopes[j]
  BY <1>3, <1>6, <1>7, AppendProperties DEF n
<1>10. ASSUME NEW j \in 1 .. n + 1
       PROVE  /\ scopes'[j].kind = ast[N[pc][j]].kind
              /\ scopes'[j].name = ast[N[pc][j]].name
              /\ scopes'[j].id = I[pass][N[pc][j]]
              /\ N[pc][j] \in D[pass]
  <2>1. CASE j = n + 1
    BY <1>4, <1>5, <1>8, <1>9, <2>1 DEF e
  <2>2. CASE j # n + 1
    <3>1. j \in 1 .. n
      BY <1>2, <2>2
    <3> QED BY <1>7, <1>8, <1>9, <3>1
  <2> QED BY <2>1, <2>2
<1>11. pc' - 1 = pc /\ pc' \in 1 .. Len(ast') + 1
  BY <1>2, <1>3
<1>12. first' = IF pass' = 1 THEN 0 ELSE I[1][Len(ast')]
  BY <1>3 DEF Scoped
<1>13. Len(scopes') + skipped' = Len(N[pc' - 1])
  BY <1>1, <1>2, <1>3, <1>8, <1>9, <1>11
<1> QED BY <1>1, <1>2, <1>3, <1>5, <1>9, <1>10, <1>11, <1>12, <1>13 DEF Scoped

LEMMA SkipScoped ==
  ASSUME Source, NEW N, Nesting(N), NEW D, NEW I, NEW T, NEW F, Marks(N, D, I, T, F),
         Scoped(N, D, I), SkipBody
  PROVE  Scoped(N, D, I)'
<1>0. PICK n, k : n = Len(scopes) /\ k = Len(N[pc - 1])
  OBVIOUS
<1>1. /\ mode = "walk" /\ pc <= Len(ast) /\ ast[pc] # End /\ AtBody /\ ~Counts(ast[pc].kind)
  BY DEF SkipBody, AtBody
<1>2. /\ pc \in 1 .. Len(ast) /\ pc + 1 \in 1 .. Len(ast) + 1 /\ pc + 1 - 1 = pc
      /\ n \in Nat /\ k \in Nat /\ skipped \in Nat /\ pass \in {1, 2}
  BY <1>0, <1>1, Here
<1>3. /\ pc' = pc + 1 /\ skipped' = skipped + 1
      /\ scopes' = scopes /\ count' = count /\ pass' = pass /\ first' = first /\ ast' = ast
  BY DEF SkipBody, source
<1>4. I[pass][pc] = I[pass][pc - 1]
  BY <1>1, CountsWhatIsWalked, CountHere
<1>5. n + skipped = k
      /\ \A j \in 1 .. n :
           /\ scopes[j].kind = ast[N[pc - 1][j]].kind
           /\ scopes[j].name = ast[N[pc - 1][j]].name
           /\ scopes[j].id = I[pass][N[pc - 1][j]]
           /\ N[pc - 1][j] \in D[pass]
  BY <1>0 DEF Scoped
<1>6. /\ Len(N[pc]) = k + 1 /\ N[pc][k + 1] = pc
      /\ \A j \in 1 .. k : N[pc][j] = N[pc - 1][j]
  <2>1. Inside(N, pc, k)
    BY <1>0, <1>1, <1>2, InnermostIs
  <2> QED BY <2>1 DEF Inside
<1>7. N[pc][n + 1] \notin D[pass]
  <2>1. CASE skipped = 0
    <3>1. n = k /\ pc \notin D[pass]
      BY <1>1, <1>2, <1>5, <2>1, CountsWhatIsWalked DEF Counts
    <3> QED BY <1>6, <3>1
  <2>2. CASE skipped # 0
    <3>1. n + 1 \in 1 .. k /\ N[pc - 1][n + 1] \notin D[pass]
      BY <1>0, <1>2, <1>5, <2>2 DEF Scoped
    <3> QED BY <1>6, <3>1
  <2> QED BY <2>1, <2>2
<1>8. \A j \in 1 .. n : N[pc][j] = N[pc - 1][j]
  <2>1. \A j \in 1 .. n : j \in 1 .. k
    BY <1>2, <1>5
  <2> QED BY <1>6, <2>1
<1>9. pc' - 1 = pc /\ pc' \in 1 .. Len(ast') + 1
  BY <1>2, <1>3
<1>10. Len(scopes') + skipped' = Len(N[pc' - 1])
  <2>1. Len(scopes') = n /\ skipped' = skipped + 1 /\ N[pc' - 1] = N[pc]
    BY <1>0, <1>3, <1>9
  <2>2. n + (skipped + 1) = k + 1
    BY <1>2, <1>5
  <2> QED BY <1>6, <2>1, <2>2
<1>11. first' = IF pass' = 1 THEN 0 ELSE I[1][Len(ast')]
  BY <1>3 DEF Scoped
<1>12. scopes' \in Seq(ScopeType) /\ skipped' \in Nat /\ count' = I[pass'][pc' - 1]
  BY <1>2, <1>3, <1>4, <1>9 DEF Scoped
<1>13. /\ Len(scopes') = n /\ N[pc' - 1] = N[pc]
       /\ \A j \in 1 .. n :
            /\ scopes'[j].kind = ast'[N[pc][j]].kind
            /\ scopes'[j].name = ast'[N[pc][j]].name
            /\ scopes'[j].id = I[pass'][N[pc][j]]
            /\ N[pc][j] \in D[pass']
       /\ N[pc][n + 1] \notin D[pass']
  <2>1. Len(scopes') = n /\ N[pc' - 1] = N[pc] /\ N[pc][n + 1] \notin D[pass']
    BY <1>0, <1>3, <1>7, <1>9
  <2>2. ASSUME NEW j \in 1 .. n
        PROVE  /\ scopes'[j].kind = ast'[N[pc][j]].kind
               /\ scopes'[j].name = ast'[N[pc][j]].name
               /\ scopes'[j].id = I[pass'][N[pc][j]]
               /\ N[pc][j] \in D[pass']
    <3>1. N[pc][j] = N[pc - 1][j]
      BY <1>8
    <3>2. /\ scopes[j].kind = ast[N[pc - 1][j]].kind
          /\ scopes[j].name = ast[N[pc - 1][j]].name
          /\ scopes[j].id = I[pass][N[pc - 1][j]]
          /\ N[pc - 1][j] \in D[pass]
      BY <1>5
    <3> QED BY <1>3, <3>1, <3>2
  <2> QED BY <2>1, <2>2
<1>14. pass' \in {1, 2}
  BY <1>2, <1>3
<1> QED BY <1>9, <1>10, <1>11, <1>12, <1>13, <1>14 DEF Scoped

LEMMA LeaveScoped ==
  ASSUME Source, NEW N, Nesting(N), NEW D, NEW I, NEW T, NEW F, Marks(N, D, I, T, F),
         Scoped(N, D, I), LeaveBody \/ LeaveSkipped
  PROVE  Scoped(N, D, I)'
<1>0. PICK n, k : n = Len(scopes) /\ k = Len(N[pc - 1])
  OBVIOUS
<1>1. mode = "walk" /\ pc <= Len(ast) /\ ast[pc] = End
  BY DEF LeaveBody, LeaveSkipped, AtEnd
<1>2. /\ pc \in 1 .. Len(ast) /\ pc + 1 \in 1 .. Len(ast) + 1 /\ pc + 1 - 1 = pc
      /\ n \in Nat /\ k \in Nat /\ skipped \in Nat /\ pass \in {1, 2} /\ pc - 1 \in 0 .. Len(ast)
  BY <1>0, <1>1, Here
<1>3. /\ pc' = pc + 1 /\ count' = count /\ pass' = pass /\ first' = first /\ ast' = ast
  BY DEF LeaveBody, LeaveSkipped, source
<1>4. I[pass][pc] = I[pass][pc - 1]
  BY <1>1, CountHere
<1>5. n + skipped = k /\ scopes \in Seq(ScopeType)
      /\ \A j \in 1 .. n :
           /\ scopes[j].kind = ast[N[pc - 1][j]].kind
           /\ scopes[j].name = ast[N[pc - 1][j]].name
           /\ scopes[j].id = I[pass][N[pc - 1][j]]
           /\ N[pc - 1][j] \in D[pass]
  BY <1>0 DEF Scoped
<1>6. N[pc - 1] \in Seq(Nat) /\ N[pc - 1] # <<>> /\ N[pc] = Front(N[pc - 1])
  BY <1>1, <1>2 DEF Nesting
<1>7. /\ k # 0 /\ Len(N[pc]) = k - 1 /\ \A j \in 1 .. k - 1 : N[pc][j] = N[pc - 1][j]
  BY <1>0, <1>6, FrontFacts
<1>8. pc' - 1 = pc /\ pc' \in 1 .. Len(ast') + 1
  BY <1>2, <1>3
<1>9. first' = IF pass' = 1 THEN 0 ELSE I[1][Len(ast')]
  BY <1>3 DEF Scoped
<1>10. count' = I[pass'][pc' - 1]
  BY <1>3, <1>4, <1>8 DEF Scoped
<1>11. CASE LeaveBody
  <2>1. skipped = 0 /\ skipped' = 0 /\ scopes' = Front(scopes) /\ n = k
    BY <1>2, <1>5, <1>11 DEF LeaveBody
  <2>2. scopes # <<>>
    BY <1>0, <1>7, <2>1, EmptySeq
  <2>3. /\ scopes' \in Seq(ScopeType) /\ Len(scopes') = k - 1
        /\ \A j \in 1 .. k - 1 : scopes'[j] = scopes[j]
    <3>1. /\ Front(scopes) \in Seq(ScopeType) /\ Len(Front(scopes)) = Len(scopes) - 1
          /\ \A j \in 1 .. Len(scopes) - 1 : Front(scopes)[j] = scopes[j]
      <4>1. scopes \in Seq(ScopeType)
        BY <1>5
      <4> QED BY <2>2, <4>1, FrontFacts
    <3>2. Len(scopes) = k /\ scopes' = Front(scopes)
      BY <1>0, <2>1
    <3> QED BY <3>1, <3>2
  <2>4. \A j \in 1 .. k - 1 : j \in 1 .. n
    BY <1>2, <2>1
  <2>5. \A j \in 1 .. k - 1 :
           /\ scopes'[j].kind = ast[N[pc][j]].kind
           /\ scopes'[j].name = ast[N[pc][j]].name
           /\ scopes'[j].id = I[pass][N[pc][j]]
           /\ N[pc][j] \in D[pass]
    <3> QED BY <1>5, <1>7, <2>3, <2>4
  <2>6. Len(scopes') + skipped' = Len(N[pc' - 1])
    BY <1>2, <1>7, <1>8, <2>1, <2>3
  <2> QED BY <1>2, <1>3, <1>8, <1>9, <1>10, <2>1, <2>3, <2>5, <2>6 DEF Scoped
<1>12. CASE LeaveSkipped
  <2>1. skipped > 0 /\ skipped' = skipped - 1 /\ scopes' = scopes /\ skipped' \in Nat
    BY <1>2, <1>12 DEF LeaveSkipped
  <2>2. \A j \in 1 .. n : j \in 1 .. k - 1
    BY <1>2, <1>5, <2>1
  <2>3. \A j \in 1 .. n : N[pc][j] = N[pc - 1][j]
    BY <1>7, <2>2
  <2>4. skipped' > 0 => N[pc][n + 1] \notin D[pass]
    <3>1. skipped' > 0 => n + 1 \in 1 .. k - 1
      BY <1>2, <1>5, <2>1
    <3> QED BY <1>0, <1>7, <2>1, <3>1 DEF Scoped
  <2>5. Len(scopes') + skipped' = Len(N[pc' - 1])
    <3>1. Len(scopes') = n /\ skipped' = skipped - 1 /\ N[pc' - 1] = N[pc]
      BY <1>0, <1>8, <2>1
    <3>2. n + (skipped - 1) = k - 1
      BY <1>2, <1>5
    <3> QED BY <1>7, <3>1, <3>2
  <2>6. /\ Len(scopes') = n /\ N[pc' - 1] = N[pc] /\ scopes' \in Seq(ScopeType)
        /\ \A j \in 1 .. n :
             /\ scopes'[j].kind = ast'[N[pc][j]].kind
             /\ scopes'[j].name = ast'[N[pc][j]].name
             /\ scopes'[j].id = I[pass'][N[pc][j]]
             /\ N[pc][j] \in D[pass']
        /\ skipped' > 0 => N[pc][n + 1] \notin D[pass']
    BY <1>0, <1>3, <1>5, <1>8, <2>1, <2>3, <2>4, SMTT(30)
  <2>7. pass' \in {1, 2}
    BY <1>2, <1>3
  <2> QED BY <1>8, <1>9, <1>10, <2>1, <2>5, <2>6, <2>7 DEF Scoped
<1> QED BY <1>11, <1>12

(* The name that a function is given is the one that the tree determines. *)
LEMMA EntryIsRight ==
  ASSUME Source, NEW N, Nesting(N), NEW D, NEW I, NEW T, NEW F, Marks(N, D, I, T, F),
         Scoped(N, D, I), AtBody, Counts(ast[pc].kind), ast[pc].kind = "fn"
  PROVE  [pass |-> pass, at |-> pc, as |-> Mangled(ast[pc].name)] \in T
<1>0. PICK n, k, name : n = Len(scopes) /\ k = pc /\ name = ast[pc].name
  OBVIOUS
<1>1. mode = "walk" /\ k <= Len(ast) /\ ast[k] # End /\ skipped = 0
  BY <1>0 DEF AtBody, Counts
<1>2. /\ k \in 1 .. Len(ast) /\ k - 1 \in 0 .. Len(ast) /\ n \in Nat /\ pass \in {1, 2}
      /\ ast[k] \in ElementType /\ Len(ast) \in Nat
  BY <1>0, <1>1, Here
<1>3. /\ scopes \in Seq(ScopeType) /\ Len(N[k - 1]) = n
      /\ \A j \in 1 .. n :
           /\ scopes[j].kind = ast[N[k - 1][j]].kind
           /\ scopes[j].name = ast[N[k - 1][j]].name
           /\ scopes[j].id = I[pass][N[k - 1][j]]
  BY <1>0, <1>1, <1>2 DEF Scoped
<1>4. DOMAIN scopes = 1 .. n /\ \A j \in 1 .. n : scopes[j] \in ScopeType
  BY <1>0, <1>3, LenProperties, ElementOfSeq
<1>5. /\ Len(N[k]) = n + 1 /\ N[k][n + 1] = k
      /\ \A j \in 1 .. n : N[k][j] = N[k - 1][j]
  <2>1. Inside(N, k, n)
    BY <1>1, <1>2, <1>3, InnermostIs
  <2> QED BY <2>1 DEF Inside
<1>6. PICK f : f = [i \in 1 .. n |-> IF scopes[i].kind = "fn" THEN scopes[i].name
                                     ELSE scopes[i].id]
  OBVIOUS
<1>7. f \in [1 .. n -> NameType]
  BY <1>4, <1>6 DEF ScopeType, NameType
<1>8. f \in Seq(NameType) /\ Len(f) = n
  BY <1>2, <1>7, FunctionIsSeq
<1>9. name \in NameType /\ name \in FnName
  BY <1>0, <1>2 DEF ElementType, NameType
<1>10. PICK s : s = Append(f, name)
  OBVIOUS
<1>11. /\ s \in Seq(NameType) /\ Len(s) = n + 1 /\ s[n + 1] = name
       /\ \A j \in 1 .. n : s[j] = f[j]
  BY <1>8, <1>9, <1>10, AppendProperties
<1>12. Mangled(ast[pc].name) = s
  BY <1>0, <1>4, <1>6, <1>10 DEF Mangled
<1>13. \A j \in 1 .. n : f[j] = Part(N, pass, N[k][j])
  <2> SUFFICES ASSUME NEW j \in 1 .. n PROVE f[j] = Part(N, pass, N[k][j])
    OBVIOUS
  <2>1. PICK m : m = N[k][j]
    OBVIOUS
  <2>2. m \in 1 .. k - 1 /\ m = N[k - 1][j]
    BY <1>2, <1>3, <1>5, <2>1 DEF Nesting
  <2>3. m \in 0 .. Len(ast)
    BY <1>2, <2>2
  <2>4. I[pass][m] = Id(N, pass, m)
    BY <1>2, <2>3 DEF Marks
  <2> QED BY <1>3, <1>6, <2>1, <2>2, <2>4 DEF Part
<1>14. NameIs(N, pass, k, s)
  <2>1. ASSUME NEW j \in 1 .. n + 1 PROVE s[j] = Part(N, pass, N[k][j])
    <3>1. CASE j = n + 1
      BY <1>0, <1>5, <1>11, <3>1 DEF Part
    <3>2. CASE j # n + 1
      <4>1. j \in 1 .. n
        BY <1>2, <3>2
      <4> QED BY <1>11, <1>13, <4>1
    <3> QED BY <3>1, <3>2
  <2> QED BY <1>5, <1>11, <2>1 DEF NameIs
<1>15. Walks(N, pass, k)
  BY <1>0, CountsWhatIsWalked
<1>16. PICK r : r = [pass |-> pass, at |-> k, as |-> s]
  OBVIOUS
<1>17. r \in [pass : {1, 2}, at : 1 .. Len(ast), as : Seq(NameType)]
  BY <1>2, <1>11, <1>16
<1>18. NameEntry(N, r)
  BY <1>0, <1>14, <1>15, <1>16 DEF NameEntry
<1>19. r \in T
  BY <1>17, <1>18 DEF Marks
<1> QED BY <1>0, <1>12, <1>16, <1>19

LEMMA EnterNamed ==
  ASSUME Source, NEW N, Nesting(N), NEW D, NEW I, NEW T, NEW F, Marks(N, D, I, T, F),
         Scoped(N, D, I), Named(T, F), EnterBody
  PROVE  Named(T, F)'
<1>0. PICK k, e : k = pc /\ e = [pass |-> pass, at |-> pc, as |-> Mangled(ast[pc].name)]
  OBVIOUS
<1>1. /\ AtBody /\ Counts(ast[k].kind) /\ pc' = k + 1 /\ pass' = pass
      /\ named' = IF ast[k].kind = "fn" THEN Append(named, e) ELSE named
  BY <1>0 DEF EnterBody
<1>2. k \in 1 .. Len(ast) /\ k \in Nat /\ Len(ast) \in Nat /\ pass \in {1, 2}
  BY <1>0, <1>1, Here DEF AtBody
<1>3. named \in Seq(T) /\ DOMAIN named = 1 .. Len(named)
      /\ \A q \in F : pass = 2 \/ q < k =>
           \E j \in DOMAIN named : named[j].pass = 1 /\ named[j].at = q
  BY <1>0, LenProperties DEF Named
<1>4. CASE ast[k].kind # "fn"
  <2>1. k \notin F
    BY <1>4 DEF Marks
  <2>2. \A q \in F : q \in Nat
    BY <1>2 DEF Marks
  <2>3. \A q \in F : q < k + 1 => q < k
    BY <1>2, <2>1, <2>2
  <2> QED BY <1>1, <1>3, <1>4, <2>3 DEF Named
<1>5. CASE ast[k].kind = "fn"
  <2>1. e \in T
    BY <1>0, <1>1, <1>5, EntryIsRight
  <2>2. /\ named' \in Seq(T) /\ Len(named') = Len(named) + 1 /\ Len(named) \in Nat
        /\ named'[Len(named) + 1] = e /\ \A i \in 1 .. Len(named) : named'[i] = named[i]
        /\ DOMAIN named' = 1 .. Len(named')
    <3>1. named' = Append(named, e)
      BY <1>1, <1>5
    <3> QED BY <1>3, <2>1, <3>1, AppendProperties, LenProperties
  <2>3. ASSUME NEW q \in F, pass' = 2 \/ q < pc'
        PROVE  \E j \in DOMAIN named' : named'[j].pass = 1 /\ named'[j].at = q
    <3>0. q \in Nat
      BY <1>2 DEF Marks
    <3>1. CASE pass = 2 \/ q < k
      <4>1. PICK j \in 1 .. Len(named) : named[j].pass = 1 /\ named[j].at = q
        BY <1>3, <3>1
      <4>2. j \in DOMAIN named' /\ named'[j] = named[j]
        BY <2>2
      <4> QED BY <4>1, <4>2
    <3>2. CASE ~(pass = 2 \/ q < k)
      <4>1. pass = 1 /\ q = k
        BY <1>1, <1>2, <2>3, <3>0, <3>2
      <4>2. e.pass = 1 /\ e.at = q /\ Len(named) + 1 \in DOMAIN named'
        BY <1>0, <2>2, <4>1
      <4> QED BY <2>2, <4>2
    <3> QED BY <3>1, <3>2
  <2>4. pass' = 1 => \A j \in DOMAIN named' : named'[j].pass = 1
    <3>1. ASSUME pass = 1, NEW j \in 1 .. Len(named) + 1 PROVE named'[j].pass = 1
      <4>1. CASE j = Len(named) + 1
        BY <1>0, <2>2, <3>1, <4>1
      <4>2. CASE j # Len(named) + 1
        <5>1. j \in 1 .. Len(named) /\ j \in DOMAIN named
          BY <1>3, <2>2, <4>2
        <5> QED BY <2>2, <3>1, <5>1 DEF Named
      <4> QED BY <4>1, <4>2
    <3> QED BY <1>1, <2>2, <3>1
  <2> QED BY <2>2, <2>3, <2>4 DEF Named
<1> QED BY <1>4, <1>5

(* Only functions that are walked are declared by pass 1. *)
LEMMA SkipNamed ==
  ASSUME Source, NEW N, Nesting(N), NEW D, NEW I, NEW T, NEW F, Marks(N, D, I, T, F),
         Scoped(N, D, I), Named(T, F), SkipBody \/ LeaveBody \/ LeaveSkipped
  PROVE  Named(T, F)'
<1>0. PICK k : k = pc
  OBVIOUS
<1>1. /\ mode = "walk" /\ k <= Len(ast) /\ pc' = k + 1 /\ pass' = pass /\ named' = named
      /\ ast[k] = End \/ (AtBody /\ ~Counts(ast[k].kind))
  BY <1>0 DEF SkipBody, LeaveBody, LeaveSkipped, AtBody, AtEnd
<1>2. k \in 1 .. Len(ast) /\ k \in Nat /\ Len(ast) \in Nat /\ pass \in {1, 2}
  BY <1>0, <1>1, Here
<1>3. pass = 1 => k \notin F
  <2>1. CASE ast[k] = End
    BY <2>1, EndIsAnElement DEF Marks
  <2>2. CASE AtBody /\ ~Counts(ast[k].kind)
    <3>1. ~Walks(N, pass, k)
      BY <1>0, <2>2, CountsWhatIsWalked
    <3> QED BY <3>1 DEF Marks
  <2> QED BY <1>1, <2>1, <2>2
<1>4. \A q \in F : pass = 2 \/ q < k + 1 => pass = 2 \/ q < k
  <2>1. \A q \in F : q \in Nat
    BY <1>2 DEF Marks
  <2> QED BY <1>2, <1>3, <2>1
<1> QED BY <1>0, <1>1, <1>4 DEF Named

LEMMA SecondPassStep ==
  ASSUME Source, NEW N, Nesting(N), NEW D, NEW I, NEW T, NEW F, Marks(N, D, I, T, F),
         Scoped(N, D, I), Named(T, F), nest = <<>>, SecondPass
  PROVE  Scoped(N, D, I)' /\ Named(T, F)'
<1>0. PICK n : n = Len(ast)
  OBVIOUS
<1>1. /\ pass = 1 /\ pass' = 2 /\ pc > n /\ pc' = 1 /\ first' = count /\ count' = 0
      /\ scopes' = scopes /\ skipped' = skipped /\ named' = named /\ ast' = ast
  BY <1>0 DEF SecondPass, source
<1>2. n \in Nat /\ n \in 0 .. n /\ 0 \in 0 .. n
  BY <1>0, NestTyped
<1>3. pc - 1 = n
  BY <1>0, <1>1, <1>2 DEF Scoped
<1>4. N[n] = <<>> /\ N[0] = <<>> /\ Len(N[n]) = 0 /\ Len(N[0]) = 0
  BY <1>0, EmptySeq DEF Nesting
<1>5. Len(scopes) \in Nat /\ skipped \in Nat /\ Len(scopes) + skipped = 0
      /\ scopes \in Seq(ScopeType)
  BY <1>3, <1>4, LenProperties DEF Scoped
<1>6. Len(scopes) = 0 /\ skipped = 0
  BY <1>5
<1>7. count = I[1][n] /\ I[2][0] = 0
  <2>1. I[2][0] = Id(N, 2, 0)
    BY <1>0, <1>2 DEF Marks
  <2> QED BY <1>1, <1>3, <2>1, IdZero DEF Scoped
<1>8. Scoped(N, D, I)'
  <2>1. pc' - 1 = 0 /\ pc' \in 1 .. Len(ast') + 1
    BY <1>0, <1>1, <1>2
  <2>2. /\ pass' = 2 /\ skipped' = 0 /\ scopes' \in Seq(ScopeType) /\ Len(scopes') = 0
        /\ Len(scopes') + skipped' = Len(N[pc' - 1])
        /\ first' = I[1][Len(ast')] /\ count' = I[pass'][pc' - 1]
    BY <1>0, <1>1, <1>4, <1>5, <1>6, <1>7, <2>1
  <2> QED BY <2>1, <2>2 DEF Scoped
<1>9. Named(T, F)'
  <2>1. \A q \in F : q < pc
    <3>1. \A q \in F : q \in 1 .. n
      BY <1>0 DEF Marks
    <3> QED BY <1>2, <1>3, <1>0, <3>1 DEF Scoped
  <2> QED BY <1>1, <2>1 DEF Named
<1> QED BY <1>8, <1>9

(* What the walk does is determined by the source. *)
Tracked(N, D, I, T, F) ==
  /\ Nesting(N) /\ Marks(N, D, I, T, F)
  /\ Scoped(N, D, I) /\ Named(T, F)
  /\ mode = "failed" => I[1][Len(ast)] # I[2][Len(ast)]

IndInv ==
  /\ Source
  /\ mode \in {"build", "walk", "done", "failed"}
  /\ mode = "build" => Unstarted
  /\ mode # "build" => nest = <<>> /\ \E N, D, I, T, F : Tracked(N, D, I, T, F)

LEMMA BeginStep == ASSUME IndInv, BeginWalk PROVE IndInv'
<1>1. /\ Source /\ Unstarted /\ nest = <<>> /\ mode' = "walk" /\ nest' = nest /\ ast' = ast
      /\ pass' = pass /\ pc' = pc /\ scopes' = scopes /\ skipped' = skipped
      /\ count' = count /\ first' = first /\ named' = named
      /\ UNCHANGED source
  BY DEF BeginWalk, IndInv, source, UnchangedWalk
<1>2. PICK N : Nesting(N)
  BY <1>1 DEF Source
<1>3. PICK D, I, T, F : Marks(N, D, I, T, F)
  BY DEF Marks
<1>4. /\ pass' = 1 /\ pc' = 1 /\ scopes' = <<>> /\ skipped' = 0
      /\ count' = 0 /\ first' = 0 /\ named' = <<>>
  BY <1>1 DEF Unstarted
<1>5. Len(ast) \in Nat /\ 0 \in 0 .. Len(ast) /\ 1 \in 1 .. Len(ast) + 1
  BY <1>1, NestTyped
<1>6. I[1][0] = 0
  <2>1. I[1][0] = Id(N, 1, 0)
    BY <1>3, <1>5 DEF Marks
  <2> QED BY <2>1, IdZero
<1>7. Scoped(N, D, I)'
  <2>1. pc' - 1 = 0
    BY <1>4
  <2>2. N[0] = <<>>
    BY <1>2 DEF Nesting
  <2>3. Len(N[0]) = 0 /\ Len(scopes') = 0 /\ scopes' \in Seq(ScopeType)
    BY <1>4, <2>2, EmptySeq
  <2>4. Len(scopes') + skipped' = Len(N[pc' - 1]) /\ count' = I[pass'][pc' - 1]
    BY <1>4, <1>6, <2>1, <2>3
  <2> QED BY <1>1, <1>4, <1>5, <2>1, <2>3, <2>4 DEF Scoped
<1>8. Named(T, F)'
  <2>1. named' \in Seq(T)
    BY <1>4, EmptySeq
  <2>2. \A q \in F : ~(pass' = 2 \/ q < pc')
    BY <1>3, <1>4, <1>5 DEF Marks
  <2>3. DOMAIN named' = {}
    <3>1. Len(named') = 0
      BY <1>4, EmptySeq
    <3> QED BY <2>1, <3>1, LenProperties
  <2> QED BY <2>1, <2>2, <2>3 DEF Named
<1>9. Nesting(N)' /\ Marks(N, D, I, T, F)'
  BY <1>1, <1>2, <1>3, NestingKept, MarksKept
<1>10. Tracked(N, D, I, T, F)'
  BY <1>1, <1>7, <1>8, <1>9 DEF Tracked
<1>11. \E N1, D1, I1, T1, F1 : Tracked(N1, D1, I1, T1, F1)'
  BY <1>10
<1>12. Source'
  BY <1>1, SourceKept
<1> QED BY <1>1, <1>11, <1>12 DEF IndInv

LEMMA WalkStep ==
  ASSUME IndInv, EnterBody \/ SkipBody \/ LeaveBody \/ LeaveSkipped \/ SecondPass
  PROVE  IndInv'
<1>1. mode = "walk" /\ mode' = mode /\ UNCHANGED source /\ nest' = nest
  BY DEF EnterBody, SkipBody, LeaveBody, LeaveSkipped, SecondPass, AtBody, AtEnd, source
<1>2. Source /\ nest = <<>> /\ \E N, D, I, T, F : Tracked(N, D, I, T, F)
  BY <1>1 DEF IndInv
<1>3. PICK N, D, I, T, F : Tracked(N, D, I, T, F)
  BY <1>2
<1>4. Nesting(N) /\ Marks(N, D, I, T, F) /\ Scoped(N, D, I) /\ Named(T, F)
  BY <1>3 DEF Tracked
<1>5. Scoped(N, D, I)' /\ Named(T, F)'
  <2>1. CASE EnterBody
    BY <1>2, <1>4, <2>1, EnterScoped, EnterNamed
  <2>2. CASE SkipBody
    BY <1>2, <1>4, <2>2, SkipScoped, SkipNamed
  <2>3. CASE LeaveBody \/ LeaveSkipped
    BY <1>2, <1>4, <2>3, LeaveScoped, SkipNamed
  <2>4. CASE SecondPass
    BY <1>2, <1>4, <2>4, SecondPassStep
  <2> QED BY <2>1, <2>2, <2>3, <2>4
<1>6. Nesting(N)' /\ Marks(N, D, I, T, F)'
  BY <1>1, <1>4, NestingKept, MarksKept
<1>7. Tracked(N, D, I, T, F)'
  BY <1>1, <1>5, <1>6 DEF Tracked
<1>8. \E N1, D1, I1, T1, F1 : Tracked(N1, D1, I1, T1, F1)'
  BY <1>7
<1>9. Source'
  BY <1>1, <1>2, SourceKept
<1> QED BY <1>1, <1>2, <1>8, <1>9 DEF IndInv

LEMMA EndWalkStep == ASSUME IndInv, EndWalk PROVE IndInv'
<1>1. /\ mode = "walk" /\ UNCHANGED source /\ nest' = nest /\ ast' = ast
      /\ pass = 2 /\ pc > Len(ast)
      /\ mode' = IF first # count THEN "failed" ELSE "done"
      /\ pass' = pass /\ pc' = pc /\ scopes' = scopes /\ skipped' = skipped
      /\ count' = count /\ first' = first /\ named' = named
  BY DEF EndWalk, source, UnchangedWalk
<1>2. Source /\ nest = <<>> /\ \E N, D, I, T, F : Tracked(N, D, I, T, F)
  BY <1>1 DEF IndInv
<1>3. PICK N, D, I, T, F : Tracked(N, D, I, T, F)
  BY <1>2
<1>4. Nesting(N) /\ Marks(N, D, I, T, F) /\ Scoped(N, D, I) /\ Named(T, F)
  BY <1>3 DEF Tracked
<1>5. Scoped(N, D, I)' /\ Named(T, F)'
  <2>1. Scoped(N, D, I)'
    BY <1>1, <1>4 DEF Scoped
  <2>2. Named(T, F)'
    BY <1>1, <1>4 DEF Named
  <2> QED BY <2>1, <2>2
<1>6. Nesting(N)' /\ Marks(N, D, I, T, F)'
  BY <1>1, <1>4, NestingKept, MarksKept
<1>7. first = I[1][Len(ast)] /\ count = I[2][Len(ast)]
  <2>1. Len(ast) \in Nat
    BY <1>2, NestTyped
  <2>2. pc - 1 = Len(ast)
    BY <1>1, <1>4, <2>1 DEF Scoped
  <2> QED BY <1>1, <1>4, <2>2 DEF Scoped
<1>8. Tracked(N, D, I, T, F)'
  BY <1>1, <1>5, <1>6, <1>7 DEF Tracked
<1>9. \E N1, D1, I1, T1, F1 : Tracked(N1, D1, I1, T1, F1)'
  BY <1>8
<1>10. Source'
  BY <1>1, <1>2, SourceKept
<1> QED BY <1>1, <1>2, <1>9, <1>10 DEF IndInv

LEMMA StutterStep == ASSUME IndInv, UNCHANGED vars PROVE IndInv'
<1>1. /\ mode' = mode /\ nest' = nest /\ ast' = ast /\ emitMain' = emitMain
      /\ pass' = pass /\ pc' = pc /\ scopes' = scopes /\ skipped' = skipped
      /\ count' = count /\ first' = first /\ named' = named
      /\ UNCHANGED source
  BY DEF vars, source
<1>2. Source'
  BY <1>1, SourceKept DEF IndInv
<1>3. CASE mode = "build"
  <2>1. Unstarted'
    BY <1>1, <1>3 DEF IndInv, Unstarted
  <2> QED BY <1>1, <1>2, <1>3, <2>1 DEF IndInv
<1>4. CASE mode # "build"
  <2>1. \E N, D, I, T, F : Tracked(N, D, I, T, F)
    BY <1>4 DEF IndInv
  <2>2. PICK N, D, I, T, F : Tracked(N, D, I, T, F)
    BY <2>1
  <2>3. Nesting(N)' /\ Marks(N, D, I, T, F)'
    BY <1>1, <2>2, NestingKept, MarksKept DEF Tracked
  <2>4. Scoped(N, D, I)'
    BY <1>1, <2>2 DEF Tracked, Scoped
  <2>5. Named(T, F)'
    BY <1>1, <2>2 DEF Tracked, Named
  <2>6. Tracked(N, D, I, T, F)'
    BY <1>1, <2>2, <2>3, <2>4, <2>5 DEF Tracked
  <2>7. \E N1, D1, I1, T1, F1 : Tracked(N1, D1, I1, T1, F1)'
    BY <2>6
  <2> QED BY <1>1, <1>2, <1>4, <2>7 DEF IndInv
<1> QED BY <1>3, <1>4

LEMMA SourceStep == ASSUME IndInv, Building PROVE IndInv'
<1>1. /\ mode = "build" /\ mode' = mode
      /\ pass' = pass /\ pc' = pc /\ scopes' = scopes /\ skipped' = skipped
      /\ count' = count /\ first' = first /\ named' = named
  BY DEF Building, AddFunction, AddBlock, AddBranch, AddValue, Add, EndBody, UnchangedWalk
<1>2. Source'
  BY BuildStep DEF IndInv
<1>3. Unstarted'
  BY <1>1 DEF IndInv, Unstarted
<1> QED BY <1>1, <1>2, <1>3 DEF IndInv

LEMMA Invariance == Spec => []IndInv
<1>1. Init => IndInv
  BY SourceInit DEF IndInv
<1>2. IndInv /\ [Next]_vars => IndInv'
  <2> SUFFICES ASSUME IndInv, [Next]_vars PROVE IndInv'
    OBVIOUS
  <2>1. CASE Next
    BY <2>1, SourceStep, BeginStep, WalkStep, EndWalkStep DEF Next, Building
  <2> QED BY <2>1, StutterStep
<1> QED BY <1>1, <1>2, PTL DEF Spec

(***************************************************************************)
(* The passes agree.                                                       *)
(***************************************************************************)
(* What Encloses says of the source is that k is open around body i. *)
LEMMA EnclosersAreOpen ==
  ASSUME Source, NEW N, Nesting(N), NEW i \in 1 .. Len(ast), ast[i] # End,
         NEW k \in 1 .. i - 1, Encloses(k, i)
  PROVE  \E j \in 1 .. Len(N[i]) - 1 : N[i][j] = k
<1>1. /\ Len(ast) \in Nat /\ i \in Nat /\ k \in Nat /\ k > 0 /\ k < i
      /\ k \in 1 .. Len(ast) /\ ast[k] # End
      /\ \A q \in k + 1 .. i : ast[q] # End => ast[q].within >= k
  BY NestTyped DEF Encloses
<1>2. \A p \in k .. i : p \in 0 .. Len(ast) /\ N[p] \in Seq(Nat) /\ Len(N[p]) \in Nat
  <2> SUFFICES ASSUME NEW p \in k .. i
               PROVE  p \in 0 .. Len(ast) /\ N[p] \in Seq(Nat) /\ Len(N[p]) \in Nat
    OBVIOUS
  <2>1. p \in 0 .. Len(ast)
    BY <1>1
  <2> QED BY <2>1, LenProperties DEF Nesting
<1>3. ASSUME NEW p \in k + 1 .. i
      PROVE  /\ p - 1 \in k .. i /\ p \in k .. i /\ p \in 1 .. Len(ast)
             /\ ast[p] = End => /\ N[p - 1] # <<>> /\ Len(N[p]) = Len(N[p - 1]) - 1
                                /\ \A j \in 1 .. Len(N[p - 1]) - 1 : N[p][j] = N[p - 1][j]
             /\ ast[p] # End => /\ Len(N[p]) = Len(N[p - 1]) + 1
                                /\ \A j \in 1 .. Len(N[p - 1]) : N[p][j] = N[p - 1][j]
                                /\ ast[p].within = IF N[p - 1] = <<>> THEN 0 ELSE Last(N[p - 1])
  <2>1. p - 1 \in k .. i /\ p \in k .. i /\ p \in 1 .. Len(ast)
    BY <1>1
  <2>2. N[p - 1] \in Seq(Nat)
    BY <1>2, <2>1
  <2>3. /\ ast[p] = End => N[p - 1] # <<>> /\ N[p] = Front(N[p - 1])
        /\ ast[p] # End => ast[p].within = IF N[p - 1] = <<>> THEN 0 ELSE Last(N[p - 1])
    BY <2>1 DEF Nesting
  <2>4. ast[p] # End => /\ Len(N[p]) = Len(N[p - 1]) + 1
                        /\ \A j \in 1 .. Len(N[p - 1]) : N[p][j] = N[p - 1][j]
    <3> SUFFICES ASSUME ast[p] # End
                 PROVE  /\ Len(N[p]) = Len(N[p - 1]) + 1
                        /\ \A j \in 1 .. Len(N[p - 1]) : N[p][j] = N[p - 1][j]
      OBVIOUS
    <3>1. Inside(N, p, Len(N[p - 1]))
      BY <2>1, InnermostIs
    <3>2. Len(N[p]) = Len(N[p - 1]) + 1
      BY <3>1, InsideEnds
    <3>3. \A j \in 1 .. Len(N[p - 1]) : N[p][j] = N[p - 1][j]
      BY <3>1 DEF Inside
    <3> QED BY <3>2, <3>3
  <2>5. ast[p] = End => /\ Len(N[p]) = Len(N[p - 1]) - 1
                        /\ \A j \in 1 .. Len(N[p - 1]) - 1 : N[p][j] = N[p - 1][j]
    BY <2>2, <2>3, FrontFacts
  <2> QED BY <2>1, <2>3, <2>4, <2>5
<1>4. N[k][Len(N[k])] = k /\ Len(N[k]) \in 1 .. Len(N[k])
      /\ N[i][Len(N[i])] = i /\ Len(N[i]) \in 1 .. Len(N[i])
  <2>1. Inside(N, k, Len(N[k - 1])) /\ Inside(N, i, Len(N[i - 1]))
    BY <1>1, InnermostIs
  <2> QED BY <2>1, InsideEnds
<1> DEFINE Bad == {p \in k .. i : \A j \in 1 .. Len(N[p]) : N[p][j] # k}
<1>5. ASSUME Bad # {} PROVE FALSE
  <2>1. PICK p \in Bad : \A r \in Bad : p <= r
    <3>1. Bad \in SUBSET Nat
      BY <1>1
    <3> HIDE DEF Bad
    <3> QED BY <1>5, <3>1, Least
  <2>2. p # k /\ p \in k + 1 .. i
    <3>1. p # k
      BY <1>4, <2>1
    <3> QED BY <1>1, <2>1, <3>1
  <2>3. p - 1 \in k .. i /\ p - 1 \notin Bad
    <3>1. p - 1 \in k .. i /\ ~(p <= p - 1)
      BY <1>1, <2>2
    <3> HIDE DEF Bad
    <3> QED BY <2>1, <3>1
  <2>4. PICK j \in 1 .. Len(N[p - 1]) : N[p - 1][j] = k
    BY <2>3
  <2>5. \A h \in 1 .. Len(N[p]) : N[p][h] # k
    BY <2>1
  <2>6. Len(N[p - 1]) \in Nat /\ Len(N[p]) \in Nat /\ p - 1 \in 0 .. Len(ast)
    BY <1>2, <1>3, <2>2
  <2>7. ast[p] = End
    <3> SUFFICES ASSUME ast[p] # End PROVE FALSE
      OBVIOUS
    <3>1. /\ Len(N[p]) = Len(N[p - 1]) + 1
          /\ \A h \in 1 .. Len(N[p - 1]) : N[p][h] = N[p - 1][h]
      BY <1>3, <2>2
    <3>2. N[p][j] = k /\ j \in 1 .. Len(N[p])
      BY <2>4, <2>6, <3>1, SMTT(30)
    <3> QED BY <2>5, <3>2
  <2>8. /\ j = Len(N[p - 1]) /\ Len(N[p]) = j - 1
        /\ \A h \in 1 .. j - 1 : N[p][h] = N[p - 1][h]
    <3>1. /\ Len(N[p]) = Len(N[p - 1]) - 1
          /\ \A h \in 1 .. Len(N[p - 1]) - 1 : N[p][h] = N[p - 1][h]
      BY <1>3, <2>2, <2>7
    <3>2. j = Len(N[p - 1])
      <4> SUFFICES ASSUME j # Len(N[p - 1]) PROVE FALSE
        OBVIOUS
      <4>1. j \in 1 .. Len(N[p - 1]) - 1 /\ j \in 1 .. Len(N[p])
        BY <2>4, <2>6, <3>1
      <4> QED BY <2>4, <2>5, <3>1, <4>1
    <3> QED BY <3>1, <3>2
  <2> DEFINE Over == {q \in p .. i : Len(N[q]) > 0 /\ N[q][Len(N[q])] >= k}
  <2>9. i \in Over
    BY <1>1, <1>2, <1>4, <2>2
  <2>10. PICK q \in Over : \A r \in Over : q <= r
    <3>1. Over \in SUBSET Nat
      BY <1>1, <2>2
    <3> HIDE DEF Over
    <3> QED BY <2>9, <3>1, Least
  <2>11. p \notin Over
    <3> SUFFICES ASSUME Len(N[p]) > 0 PROVE N[p][Len(N[p])] < k
      <4>1. p \in k .. i /\ N[p] \in Seq(Nat)
        BY <1>2, <1>3, <2>2
      <4>2. Len(N[p]) > 0 => N[p][Len(N[p])] \in Nat
        BY <2>6, <4>1, ElementOfSeq, SMTT(30)
      <4> QED BY <1>1, <4>2
    <3>1. j > 1 /\ j - 1 \in 1 .. j - 1 /\ j \in Nat
      BY <2>4, <2>6, <2>8
    <3>2. N[p - 1][j - 1] < N[p - 1][j]
      BY <2>4, <2>6, <3>1 DEF Nesting
    <3> QED BY <2>4, <2>8, <3>1, <3>2
  <2>12. q # p /\ q \in k + 1 .. i /\ q - 1 \in p .. i /\ ~(q <= q - 1)
    <3>1. q \in p .. i /\ q # p
      BY <2>10, <2>11
    <3> QED BY <1>1, <2>2, <3>1
  <2>13. q - 1 \notin Over
    <3> HIDE DEF Over
    <3> QED BY <2>10, <2>12
  <2>14. /\ Len(N[q - 1]) \in Nat /\ N[q - 1] \in Seq(Nat) /\ q - 1 \in 0 .. Len(ast)
         /\ Len(N[q]) \in Nat /\ Len(N[q]) > 0 /\ N[q][Len(N[q])] >= k
    BY <1>2, <1>3, <2>10, <2>12
  <2>15. Len(N[q - 1]) > 0 => N[q - 1][Len(N[q - 1])] \in Nat /\ N[q - 1][Len(N[q - 1])] < k
    <3> SUFFICES ASSUME Len(N[q - 1]) > 0
                 PROVE  N[q - 1][Len(N[q - 1])] \in Nat /\ N[q - 1][Len(N[q - 1])] < k
      OBVIOUS
    <3>0. PICK r, v : r = N[q - 1] /\ v = Len(r)
      OBVIOUS
    <3>1. r[v] \in Nat
      <4>1. r \in Seq(Nat) /\ v \in 1 .. Len(r)
        BY <2>14, <3>0
      <4> QED BY <4>1, ElementOfSeq
    <3> QED BY <1>1, <2>12, <2>13, <3>0, <3>1
  <2>16. N[q - 1] = <<>> <=> Len(N[q - 1]) = 0
    BY <2>14, EmptySeq
  <2>17. CASE ast[q] = End
    <3>1. /\ Len(N[q]) = Len(N[q - 1]) - 1
          /\ \A h \in 1 .. Len(N[q - 1]) - 1 : N[q][h] = N[q - 1][h]
      BY <1>3, <2>12, <2>17
    <3>2. PICK u : u = Len(N[q - 1])
      OBVIOUS
    <3>3. u \in Nat /\ u > 1 /\ u - 1 \in 1 .. u - 1 /\ u \in 1 .. u
      BY <2>14, <3>1, <3>2, SMTT(30)
    <3>4. N[q - 1][u - 1] < N[q - 1][u] /\ N[q - 1][u - 1] \in Nat
      <4>1. N[q - 1][u - 1] < N[q - 1][u]
        BY <2>14, <3>2, <3>3 DEF Nesting
      <4>2. u - 1 \in 1 .. Len(N[q - 1])
        BY <3>2, <3>3
      <4> QED BY <2>14, <4>1, <4>2, ElementOfSeq
    <3>5. N[q][Len(N[q])] = N[q - 1][u - 1]
      BY <3>1, <3>2, <3>3
    <3>6. Len(N[q - 1]) > 0 /\ N[q - 1][u] \in Nat /\ N[q - 1][u] < k
      BY <2>15, <3>2, <3>3
    <3>7. N[q - 1][u - 1] >= k
      BY <2>14, <3>5
    <3> QED BY <1>1, <3>4, <3>6, <3>7
  <2>18. CASE ast[q] # End
    <3>1. ast[q].within = (IF N[q - 1] = <<>> THEN 0 ELSE Last(N[q - 1])) /\ ast[q].within >= k
      BY <1>1, <1>3, <2>12, <2>18
    <3>2. CASE N[q - 1] = <<>>
      BY <1>1, <3>1, <3>2
    <3>3. CASE N[q - 1] # <<>>
      <4>1. Len(N[q - 1]) > 0
        BY <2>14, <2>16, <3>3
      <4> QED BY <1>1, <2>15, <3>1, <3>3, <4>1 DEF Last
    <3> QED BY <3>2, <3>3
  <2> QED BY <2>17, <2>18
<1>6. i \in k .. i /\ i \notin Bad
  BY <1>1, <1>5
<1>7. PICK j \in 1 .. Len(N[i]) : N[i][j] = k
  BY <1>6
<1>8. j \in 1 .. Len(N[i]) - 1
  <2>1. j # Len(N[i])
    BY <1>1, <1>4, <1>7
  <2> QED BY <1>2, <1>6, <1>7, <2>1
<1> QED BY <1>7, <1>8

(* A body that one pass walks, in a source of which neither pass leaves out  *)
(* a body that the other one takes, is walked by the other one too.          *)
LEMMA PassesAgree ==
  ASSUME Source, NEW N, Nesting(N), NEW k \in 1 .. Len(ast),
         \A h \in 1 .. k : ~OnePassOnly(h),
         NEW p \in {1, 2}, Walks(N, p, k), NEW q \in {1, 2}
  PROVE  Walks(N, q, k)
<1> SUFFICES ASSUME NEW j \in 1 .. Len(N[k]) PROVE Descends(N, q, N[k][j])
  BY DEF Walks
<1>1. PICK m : m = N[k][j]
  OBVIOUS
<1>2. /\ Len(ast) \in Nat /\ k \in 0 .. Len(ast) /\ Len(N[k]) \in Nat
  BY NestTyped, LenProperties DEF Nesting
<1>3. /\ m \in 1 .. k /\ m \in 1 .. Len(ast) /\ ast[m] # End
      /\ Len(N[m]) = j /\ \A h \in 1 .. j : N[m][h] = N[k][h]
  <2>1. /\ m \in 1 .. k /\ ast[m] # End
        /\ Len(N[m]) = j /\ \A h \in 1 .. j : N[m][h] = N[k][h]
    BY <1>1, <1>2 DEF Nesting
  <2> QED BY <1>2, <2>1
<1>4. \A h \in 1 .. j : ast[N[m][h]].kind # "generic"
  <2> SUFFICES ASSUME NEW h \in 1 .. j PROVE ast[N[m][h]].kind # "generic"
    OBVIOUS
  <2>1. h \in 1 .. Len(N[k])
    BY <1>2
  <2> QED BY <1>3, <2>1 DEF Walks, Descends
<1>5. ast[m].kind # "generic"
  BY <1>1 DEF Walks, Descends
<1>6. ~OnePassOnly(m)
  BY <1>3
<1>7. ast[m].kind # "value"
  BY <1>6 DEF OnePassOnly
<1>8. ASSUME ast[m].kind = "branch", ~emitMain PROVE InFn(N, m)
  <2>1. PICK h \in 1 .. m - 1 : Encloses(h, m) /\ ast[h].kind \in {"fn", "generic"}
    BY <1>6, <1>8 DEF OnePassOnly, InBodyOf
  <2>2. PICK i \in 1 .. Len(N[m]) - 1 : N[m][i] = h
    BY <1>3, <2>1, EnclosersAreOpen
  <2>3. i \in 1 .. j
    BY <1>2, <1>3, <2>2
  <2>4. ast[h].kind # "generic"
    BY <1>4, <2>2, <2>3
  <2> QED BY <2>1, <2>2, <2>4 DEF InFn
<1>9. ast[m].kind = "branch" => InFn(N, m)
  BY <1>8 DEF InFn
<1> QED BY <1>1, <1>5, <1>7, <1>9 DEF Descends

LEMMA IdsAgree ==
  ASSUME Source, NEW N, Nesting(N), NEW i \in 0 .. Len(ast),
         \A h \in 1 .. i : ~OnePassOnly(h)
  PROVE  Id(N, 1, i) = Id(N, 2, i)
<1>1. Len(ast) \in Nat
  BY NestTyped
<1>2. \A k \in 1 .. i : k \in 1 .. Len(ast) /\ \A h \in 1 .. k : h \in 1 .. i
  BY <1>1
<1>3. ASSUME NEW k \in 1 .. i PROVE Walks(N, 1, k) <=> Walks(N, 2, k)
  <2>1. k \in 1 .. Len(ast) /\ \A h \in 1 .. k : ~OnePassOnly(h)
    BY <1>2
  <2> QED BY <2>1, PassesAgree
<1>4. Walked(N, 1, i) = Walked(N, 2, i)
  BY <1>3 DEF Walked
<1> QED BY <1>4 DEF Id

LEMMA NamesAgree ==
  ASSUME Source, NEW N, Nesting(N), NEW k \in 1 .. Len(ast),
         \A h \in 1 .. k : ~OnePassOnly(h),
         NEW s \in Seq(NameType), NEW t \in Seq(NameType),
         NameIs(N, 1, k, s), NameIs(N, 2, k, t)
  PROVE  s = t
<1>1. Len(s) = Len(t) /\ Len(s) = Len(N[k])
  BY DEF NameIs
<1>2. ASSUME NEW j \in 1 .. Len(N[k]) PROVE s[j] = t[j]
  <2>1. Len(ast) \in Nat /\ k \in 0 .. Len(ast)
    BY NestTyped
  <2>2. N[k][j] \in 1 .. k
    BY <2>1 DEF Nesting
  <2>3. N[k][j] \in 0 .. Len(ast) /\ \A h \in 1 .. N[k][j] : h \in 1 .. k
    BY <2>1, <2>2
  <2>4. Id(N, 1, N[k][j]) = Id(N, 2, N[k][j])
    BY <2>3, IdsAgree
  <2>5. Part(N, 1, N[k][j]) = Part(N, 2, N[k][j])
    BY <2>4 DEF Part
  <2> QED BY <2>5 DEF NameIs
<1> QED BY <1>1, <1>2, SeqEqual

(***************************************************************************)
(* The theorems.                                                           *)
(***************************************************************************)
LEMMA TypesHold == IndInv => TypeOK
<1> SUFFICES ASSUME IndInv PROVE TypeOK
  OBVIOUS
<1>1. /\ Source /\ Len(ast) \in Nat /\ DOMAIN ast = 1 .. Len(ast) /\ nest \in Seq(DOMAIN ast)
  BY NestTyped DEF IndInv
<1>2. ast \in Seq([kind : Kind \cup {"end"}, name : NameType, within : Nat])
  <2>1. ElementType \subseteq [kind : Kind \cup {"end"}, name : NameType, within : Nat]
    BY DEF ElementType
  <2> QED BY <1>1, <2>1, SeqMonotonic DEF Source
<1>3. CASE mode = "build"
  <2>1. /\ pass = 1 /\ pc = 1 /\ scopes = <<>> /\ skipped = 0
        /\ count = 0 /\ first = 0 /\ named = <<>>
    BY <1>3 DEF IndInv, Unstarted
  <2>2. pc \in 1 .. Len(ast) + 1 /\ count \in 0 .. Len(ast) /\ first \in 0 .. Len(ast)
    BY <1>1, <2>1
  <2>3. /\ scopes \in Seq(ScopeType)
        /\ named \in Seq([pass : {1, 2}, at : DOMAIN ast, as : Seq(NameType)])
    BY <2>1, EmptySeq
  <2> QED BY <1>1, <1>2, <1>3, <2>1, <2>2, <2>3 DEF TypeOK
<1>4. CASE mode # "build"
  <2>1. PICK N, D, I, T, F : Tracked(N, D, I, T, F)
    BY <1>4 DEF IndInv
  <2>2. Nesting(N) /\ Marks(N, D, I, T, F) /\ Scoped(N, D, I) /\ Named(T, F)
    BY <2>1 DEF Tracked
  <2>3. /\ pass \in {1, 2} /\ pc \in 1 .. Len(ast) + 1 /\ skipped \in Nat
        /\ scopes \in Seq(ScopeType)
    BY <2>2 DEF Scoped
  <2>4. \A p \in {1, 2} : \A i \in 0 .. Len(ast) : I[p][i] \in 0 .. Len(ast)
    <3> SUFFICES ASSUME NEW p \in {1, 2}, NEW i \in 0 .. Len(ast)
                 PROVE  I[p][i] \in 0 .. Len(ast)
      OBVIOUS
    <3>1. I[p][i] = Id(N, p, i)
      BY <2>2 DEF Marks
    <3>2. i \in Nat /\ Id(N, p, i) \in 0 .. i
      BY <1>1, IdTyped
    <3> QED BY <1>1, <3>1, <3>2
  <2>5. count \in 0 .. Len(ast) /\ first \in 0 .. Len(ast)
    <3>1. pc - 1 \in 0 .. Len(ast) /\ Len(ast) \in 0 .. Len(ast) /\ 0 \in 0 .. Len(ast)
      BY <1>1, <2>3
    <3> QED BY <2>2, <2>3, <2>4, <3>1 DEF Scoped
  <2>6. named \in Seq([pass : {1, 2}, at : DOMAIN ast, as : Seq(NameType)])
    <3>1. T \subseteq [pass : {1, 2}, at : DOMAIN ast, as : Seq(NameType)]
      BY <1>1, <2>2 DEF Marks
    <3> QED BY <2>2, <3>1, SeqMonotonic DEF Named
  <2> QED BY <1>1, <1>2, <2>3, <2>5, <2>6 DEF TypeOK, IndInv
<1> QED BY <1>3, <1>4

(* The walk keeps to the source: the place in it, the counters and what is *)
(* named are those of lexical bodies that are there.                       *)
THEOREM TypeCorrect == Spec => []TypeOK
BY Invariance, TypesHold, PTL

LEMMA NoneNamedInBuild == ASSUME IndInv, mode = "build" PROVE DOMAIN named = {}
<1>1. named = <<>>
  BY DEF IndInv, Unstarted
<1>2. named \in Seq({}) /\ Len(named) = 0
  BY <1>1, EmptySeq
<1> QED BY <1>2, LenProperties

LEMMA NamesAreDistinct == IndInv => FunctionNamesAreDistinct
<1> SUFFICES ASSUME IndInv, NEW i \in DOMAIN named, NEW j \in DOMAIN named,
                    named[i].pass = named[j].pass, named[i].as = named[j].as
             PROVE  named[i].at = named[j].at
  BY DEF FunctionNamesAreDistinct
<1>1. mode # "build"
  BY NoneNamedInBuild
<1>2. PICK N, D, I, T, F : Tracked(N, D, I, T, F)
  BY <1>1 DEF IndInv
<1>3. Source /\ Nesting(N) /\ Marks(N, D, I, T, F) /\ named \in Seq(T)
  BY <1>2 DEF Tracked, Named, IndInv
<1>4. named[i] \in T /\ named[j] \in T
  BY <1>3, LenProperties, ElementOfSeq
<1>5. PICK a, b, p, s : /\ a = named[i].at /\ b = named[j].at
                        /\ p = named[i].pass /\ s = named[i].as
  OBVIOUS
<1>6. /\ a \in 1 .. Len(ast) /\ ast[a].kind = "fn" /\ Walks(N, p, a) /\ NameIs(N, p, a, s)
      /\ b \in 1 .. Len(ast) /\ ast[b].kind = "fn" /\ Walks(N, p, b) /\ NameIs(N, p, b, s)
  BY <1>3, <1>4, <1>5 DEF Marks, NameEntry
<1>7. ast[a] # End /\ ast[b] # End
  BY <1>6, EndIsAnElement
<1>8. a = b
  BY <1>3, <1>6, <1>7, NamesDiffer
<1> QED BY <1>5, <1>8

(* However functions of one name are spread over blocks, branches and other *)
(* functions, the lexical ids and names in mangling_function_name tell them *)
(* apart, in each of the passes.                                            *)
THEOREM NamesDistinct == Spec => []FunctionNamesAreDistinct
BY Invariance, NamesAreDistinct, PTL

LEMMA PrototypesAreFound == IndInv => SecondPassFindsPrototypes
<1> SUFFICES ASSUME IndInv, NEW i \in DOMAIN named, named[i].pass = 2,
                    \A k \in 1 .. named[i].at : ~OnePassOnly(k)
             PROVE  \E j \in DOMAIN named :
                      /\ named[j].pass = 1 /\ named[j].at = named[i].at
                      /\ named[j].as = named[i].as
  BY DEF SecondPassFindsPrototypes
<1>1. mode # "build"
  BY NoneNamedInBuild
<1>2. PICK N, D, I, T, F : Tracked(N, D, I, T, F)
  BY <1>1 DEF IndInv
<1>3. /\ Source /\ Nesting(N) /\ Marks(N, D, I, T, F) /\ named \in Seq(T) /\ Named(T, F)
      /\ pass \in {1, 2}
  BY <1>2 DEF Tracked, Named, Scoped, IndInv
<1>4. \A h \in DOMAIN named : named[h] \in T
  BY <1>3, LenProperties, ElementOfSeq
<1>5. PICK a, t : a = named[i].at /\ t = named[i].as
  OBVIOUS
<1>6. /\ a \in 1 .. Len(ast) /\ ast[a].kind = "fn" /\ Walks(N, 2, a) /\ NameIs(N, 2, a, t)
      /\ t \in Seq(NameType)
  BY <1>3, <1>4, <1>5 DEF Marks, NameEntry
<1>7. \A k \in 1 .. a : ~OnePassOnly(k)
  BY <1>5
<1>8. Walks(N, 1, a)
  BY <1>3, <1>6, <1>7, PassesAgree
<1>9. a \in F
  BY <1>3, <1>6, <1>8 DEF Marks
<1>10. pass = 2
  BY <1>3 DEF Named
<1>11. PICK j \in DOMAIN named : named[j].pass = 1 /\ named[j].at = a
  BY <1>3, <1>9, <1>10 DEF Named
<1>12. NameIs(N, 1, a, named[j].as) /\ named[j].as \in Seq(NameType)
  BY <1>3, <1>4, <1>11 DEF Marks, NameEntry
<1>13. named[j].as = t
  BY <1>3, <1>6, <1>7, <1>12, NamesAgree
<1> QED BY <1>5, <1>11, <1>13

(* What walk_fn_declare_full_withsym finds in pass 2 is what it declared in *)
(* pass 1, as long as no body came before that only one pass counts.        *)
THEOREM PrototypesFound == Spec => []SecondPassFindsPrototypes
BY Invariance, PrototypesAreFound, PTL

LEMMA CountsDoAgree == IndInv => CountsAgreeOnStatements
<1> SUFFICES ASSUME IndInv, \A k \in DOMAIN ast : ~OnePassOnly(k), mode = "failed" PROVE FALSE
  BY DEF CountsAgreeOnStatements
<1>1. PICK N, D, I, T, F : Tracked(N, D, I, T, F)
  BY DEF IndInv
<1>2. /\ Source /\ Nesting(N) /\ Marks(N, D, I, T, F)
      /\ I[1][Len(ast)] # I[2][Len(ast)]
  BY <1>1 DEF Tracked, IndInv
<1>3. /\ Len(ast) \in Nat /\ Len(ast) \in 0 .. Len(ast)
      /\ \A h \in 1 .. Len(ast) : ~OnePassOnly(h)
  BY <1>2, NestTyped
<1>4. I[1][Len(ast)] = Id(N, 1, Len(ast)) /\ I[2][Len(ast)] = Id(N, 2, Len(ast))
  BY <1>2, <1>3 DEF Marks
<1>5. Id(N, 1, Len(ast)) = Id(N, 2, Len(ast))
  BY <1>2, <1>3, IdsAgree
<1> QED BY <1>2, <1>4, <1>5

(* "lexical count not identical in 2 pass" (IR_generator.cpp:5422) does not *)
(* end the compilation of a source without such bodies.                     *)
THEOREM CountsAgree == Spec => []CountsAgreeOnStatements
BY Invariance, CountsDoAgree, PTL
=============================================================================
