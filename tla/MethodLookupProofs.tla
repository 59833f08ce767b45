------------------------- MODULE MethodLookupProofs -------------------------
(***************************************************************************)
(* Proofs about MethodLookup, for every set of classes, traits and methods *)
(* and every number of impls.                                              *)
(*                                                                         *)
(* The argument.  After any part of pass 1 the entry of a class, a trait    *)
(* (or none) and a method says which of the impls declared so far provides  *)
(* the method, and none if there is none (Tables); the map of the copied   *)
(* methods says which impls took one over (CopiedMap).  A call then only   *)
(* has to read these tables.  The parser's check for conflicts is needed   *)
(* for one thing: that the two maps speak of the same impl.                *)
(***************************************************************************)
EXTENDS MethodLookup, SequenceTheorems, TLAPS

(* Impl number k is one of the first n - 1 and provides m *)
ProvidedBy(k, c, t, m, n) ==
  /\ k \in 1 .. Len(impls) /\ k < n
  /\ impls[k].cls = c /\ impls[k].trait = t
  /\ m \in impls[k].methods \cup Copies(impls[k])

FnOf(k, m) == [cls |-> impls[k].cls, trait |-> impls[k].trait, method |-> m,
               impl |-> k, own |-> m \in impls[k].methods]

(* fn is what the first n - 1 impls give for m *)
Records(fn, c, t, m, n) ==
  \/ fn = NoFn /\ \A k \in 1 .. Len(impls) : ~ProvidedBy(k, c, t, m, n)
  \/ \E k \in 1 .. Len(impls) : ProvidedBy(k, c, t, m, n) /\ fn = FnOf(k, m)

StructTable ==
  \A c \in Classes, m \in Methods : Records(inStruct[c][m], c, NoTrait, m, next)

TraitTables ==
  \A c \in Classes, t \in Traits, m \in Methods : Records(inTraits[c][t][m], c, t, m, next)

Tables == StructTable /\ TraitTables

CopiedMap ==
  \A c \in Classes, t \in Traits, m \in Methods :
    m \in copied[c][t] <=>
      \E k \in 1 .. Len(impls) :
        /\ k < next /\ impls[k].cls = c /\ impls[k].trait = t
        /\ m \in Copies(impls[k])

AllMatch == \A k \in 1 .. Len(impls) : k < next => Matches(impls[k])

InPhase ==
  /\ next <= Len(impls) + 1
  /\ phase = "parse" => next = 1
  /\ phase = "call" => next = Len(impls) + 1
  /\ phase \in {"parse", "declare"} => ~Answered

NoConflicts ==
  \A j, k \in 1 .. Len(impls) :
    /\ impls[j].cls = impls[k].cls /\ impls[j].trait = impls[k].trait
    /\ impls[j].scope = impls[k].scope /\ impls[j].trait # NoTrait
    => j = k

IndInv == TypeOK /\ InPhase /\ Tables /\ CopiedMap /\ AllMatch /\ NoConflicts

(***************************************************************************)
(* Type correctness.                                                       *)
(***************************************************************************)

(* A recorded method is not the absence of one. *)
LEMMA FnIsSome == \A f \in Fn : f # NoFn
<1> SUFFICES ASSUME NEW f \in Fn, f = NoFn PROVE FALSE
  OBVIOUS
<1>1. DOMAIN f = {"cls", "trait", "method", "impl", "own"}
  BY DEF Fn
<1>2. DOMAIN NoFn = {"method"}
  BY DEF NoFn
<1> QED BY <1>1, <1>2

(* An impl of the program, at its number. *)
LEMMA ImplFacts ==
  ASSUME TypeOK, NEW k \in 1 .. Len(impls)
  PROVE  /\ impls[k] \in Impl /\ k \in 1 .. MaxImpls
         /\ impls[k].cls \in Classes /\ impls[k].trait \in Traits \cup {NoTrait}
         /\ impls[k].methods \subseteq Methods /\ impls[k].scope \in Scopes
<1>1. impls \in Seq(Impl) /\ Len(impls) <= MaxImpls /\ MaxImpls \in Nat
  BY MethodLookupAssumption DEF TypeOK
<1>2. impls[k] \in Impl /\ Len(impls) \in Nat
  BY <1>1, LenProperties, ElementOfSeq
<1> QED BY <1>1, <1>2 DEF Impl

(* What a map becomes by the methods of an impl is a map again. *)
LEMMA RecordedIsMap ==
  ASSUME TypeOK, NEW k \in 1 .. Len(impls),
         NEW map \in [Methods -> Fn \cup {NoFn}]
  PROVE  Recorded(map, impls[k], k) \in [Methods -> Fn \cup {NoFn}]
<1>1. impls[k].cls \in Classes /\ impls[k].trait \in Traits \cup {NoTrait}
      /\ k \in 1 .. MaxImpls
  BY ImplFacts
<1>2. ASSUME NEW m \in Methods
      PROVE [cls |-> impls[k].cls, trait |-> impls[k].trait, method |-> m,
             impl |-> k, own |-> m \in impls[k].methods] \in Fn
  <2>1. (m \in impls[k].methods) \in BOOLEAN
    OBVIOUS
  <2> QED BY <1>1, <2>1 DEF Fn
<1> QED BY <1>2 DEF Recorded

LEMMA CopiesAreMethods ==
  ASSUME NEW i PROVE Copies(i) \subseteq Methods
BY DEF Copies, Declared

LEMMA InitIndInv == Init => IndInv
<1> SUFFICES ASSUME Init PROVE IndInv
  OBVIOUS
<1>1. impls \in Seq(Impl) /\ Len(impls) = 0 /\ MaxImpls \in Nat
  BY MethodLookupAssumption DEF Init
<1>2. TypeOK
  BY <1>1 DEF Init, TypeOK, Unanswered
<1>3. InPhase
  BY <1>1 DEF Init, InPhase, Answered, Unanswered
<1>4. Tables
  BY <1>1 DEF Init, Tables, StructTable, TraitTables, Records
<1>5. CopiedMap /\ AllMatch /\ NoConflicts
  BY <1>1 DEF Init, CopiedMap, AllMatch, NoConflicts
<1> QED BY <1>2, <1>3, <1>4, <1>5 DEF IndInv

(* The trait of Self that is found with a method. *)
LEMMA SelfOfIsTrait ==
  ASSUME NEW fn, NEW c, NEW m
  PROVE  SelfOf(fn, SelfTraits(c, m)) \in Traits \cup {NoTrait}
BY DEF SelfOf, SelfTraits

(* A call finds recorded methods. *)
LEMMA FoundAreFns ==
  ASSUME TypeOK, NEW c \in Classes, NEW m \in Methods, NEW named
  PROVE  Found(c, m, named) \subseteq Fn
<1>1. Candidates(c, m) \subseteq Traits
      /\ \A t \in Candidates(c, m) : inTraits[c][t][m] \in Fn
  BY DEF TypeOK, Candidates
<1>2. inStruct[c][m] # NoFn => inStruct[c][m] \in Fn
  BY DEF TypeOK
<1> QED BY <1>1, <1>2 DEF Found

LEMMA CallFacts ==
  ASSUME NEW call \in Call
  PROVE  /\ call.cls \in Classes /\ call.method \in Methods
         /\ call.trait \in Traits \cup {NoTrait}
BY DEF Call

LEMMA TypeStep == TypeOK /\ [Next]_vars => TypeOK'
<1> SUFFICES ASSUME TypeOK, [Next]_vars PROVE TypeOK'
  OBVIOUS
<1>0. MaxImpls \in Nat /\ Len(impls) \in Nat /\ impls \in Seq(Impl)
  BY MethodLookupAssumption, LenProperties DEF TypeOK
<1>1. ASSUME NEW i \in Impl, ParseImpl(i) PROVE TypeOK'
  <2>1. CASE Conflict(i)
    BY <1>1, <2>1 DEF ParseImpl, TypeOK
  <2>2. CASE ~Conflict(i)
    <3>1. impls' = Append(impls, i) /\ Len(impls) < MaxImpls
      BY <1>1, <2>2 DEF ParseImpl
    <3>2. impls' \in Seq(Impl) /\ Len(impls') = Len(impls) + 1
      BY <1>0, <3>1, AppendProperties
    <3> QED BY <1>0, <1>1, <2>2, <3>1, <3>2 DEF ParseImpl, TypeOK
  <2> QED BY <2>1, <2>2
<1>2. CASE EndOfText
  BY <1>2 DEF EndOfText, TypeOK
<1>3. CASE EndOfPass1
  BY <1>3 DEF EndOfPass1, TypeOK
<1>4. CASE DeclareImpl
  <2> DEFINE i == impls[next]
  <2>1. next \in 1 .. Len(impls)
    BY <1>0, <1>4 DEF DeclareImpl, TypeOK
  <2>2. i.cls \in Classes /\ i.trait \in Traits \cup {NoTrait}
    BY <2>1, ImplFacts
  <2>3. CASE ~Matches(i)
    BY <1>4, <2>3 DEF DeclareImpl, TypeOK
  <2>4. CASE Matches(i) /\ i.trait = NoTrait
    <3>1. inStruct' = [inStruct EXCEPT ![i.cls] = Recorded(@, i, next)]
          /\ UNCHANGED <<decl, impls, phase, inTraits, copied, answer>>
          /\ next' = next + 1
      BY <1>4, <2>4 DEF DeclareImpl
    <3>2. Recorded(inStruct[i.cls], i, next) \in [Methods -> Fn \cup {NoFn}]
      BY <2>1, <2>2, RecordedIsMap DEF TypeOK
    <3>3. inStruct' \in [Classes -> [Methods -> Fn \cup {NoFn}]]
      BY <3>1, <3>2, <2>2 DEF TypeOK
    <3>4. next' \in 1 .. MaxImpls + 1
      BY <1>0, <2>1, <3>1 DEF TypeOK
    <3> QED BY <3>1, <3>3, <3>4 DEF TypeOK
  <2>5. CASE Matches(i) /\ i.trait # NoTrait
    <3>0. i.trait \in Traits
      BY <2>2, <2>5
    <3>1. /\ inTraits' = [inTraits EXCEPT ![i.cls][i.trait] = Recorded(@, i, next)]
          /\ copied' = [copied EXCEPT ![i.cls][i.trait] = @ \cup Copies(i)]
          /\ UNCHANGED <<decl, impls, phase, inStruct, answer>>
          /\ next' = next + 1
      BY <1>4, <2>5 DEF DeclareImpl
    <3>2. Recorded(inTraits[i.cls][i.trait], i, next) \in [Methods -> Fn \cup {NoFn}]
      BY <2>1, <2>2, <3>0, RecordedIsMap DEF TypeOK
    <3>3. inTraits' \in [Classes -> [Traits -> [Methods -> Fn \cup {NoFn}]]]
      BY <3>0, <3>1, <3>2, <2>2 DEF TypeOK
    <3>4. copied' \in [Classes -> [Traits -> SUBSET Methods]]
      <4>1. Copies(i) \subseteq Methods
        BY CopiesAreMethods
      <4> QED BY <4>1, <3>0, <3>1, <2>2 DEF TypeOK
    <3>5. next' \in 1 .. MaxImpls + 1
      BY <1>0, <2>1, <3>1 DEF TypeOK
    <3> QED BY <3>1, <3>3, <3>4, <3>5 DEF TypeOK
  <2> QED BY <2>3, <2>4, <2>5
<1>5. ASSUME NEW call \in Call, CallMethod(call) PROVE TypeOK'
  <2>1. PICK fn \in Found(call.cls, call.method, Named(call)) :
          answer' = [call |-> call, fn |-> fn,
                     self |-> SelfOf(fn, SelfTraits(call.cls, call.method))]
    BY <1>5 DEF CallMethod
  <2>2. fn \in Fn
    BY CallFacts, FoundAreFns
  <2>3. answer' \in [call: Call \cup {NoCall}, fn: Fn \cup {NoFn}, self: Traits \cup {NoTrait}]
    BY <2>1, <2>2, SelfOfIsTrait
  <2> QED BY <1>5, <2>3 DEF CallMethod, TypeOK
<1>6. ASSUME NEW call \in Call, RefuseCall(call) PROVE TypeOK'
  BY <1>6 DEF RefuseCall, Unanswered, TypeOK
<1>7. CASE UNCHANGED vars
  BY <1>7 DEF vars, TypeOK
<1> QED BY <1>1, <1>2, <1>3, <1>4, <1>5, <1>6, <1>7 DEF Next

(***************************************************************************)
(* The invariant.                                                          *)
(***************************************************************************)

(* What the actions other than DeclareImpl and ParseImpl leave alone. *)
LEMMA OtherActions ==
  ASSUME [Next]_vars, ~DeclareImpl, \A i \in Impl : ~ParseImpl(i)
  PROVE  UNCHANGED <<decl, impls, next, inStruct, inTraits, copied>>
BY DEF Next, vars, EndOfText, EndOfPass1, CallMethod, RefuseCall

(* While the text is read no table has been written. *)
LEMMA ParsingChangesNothing ==
  ASSUME TypeOK, InPhase, NEW i \in Impl, ParseImpl(i)
  PROVE  /\ next = 1 /\ UNCHANGED <<decl, next, inStruct, inTraits, copied>>
         /\ Len(impls') \in Nat
<1>1. impls \in Seq(Impl) /\ (impls' = impls \/ impls' = Append(impls, i))
  BY DEF ParseImpl, TypeOK
<1>2. Len(impls') \in Nat
  BY <1>1, LenProperties, AppendProperties
<1> QED BY <1>2 DEF ParseImpl, InPhase

LEMMA PhaseStep == TypeOK /\ InPhase /\ [Next]_vars => InPhase'
<1> SUFFICES ASSUME TypeOK, InPhase, [Next]_vars PROVE InPhase'
  OBVIOUS
<1>0. Len(impls) \in Nat /\ next \in Nat
  BY MethodLookupAssumption, LenProperties DEF TypeOK
<1>1. ASSUME NEW i \in Impl, ParseImpl(i) PROVE InPhase'
  BY <1>1, ParsingChangesNothing DEF ParseImpl, InPhase, Answered
<1>2. CASE EndOfText
  BY <1>2 DEF EndOfText, InPhase, Answered
<1>3. CASE DeclareImpl
  BY <1>0, <1>3 DEF DeclareImpl, InPhase, Answered
<1>4. CASE EndOfPass1
  BY <1>0, <1>4 DEF EndOfPass1, InPhase, Answered
<1>5. ASSUME NEW call \in Call, CallMethod(call) PROVE InPhase'
  BY <1>5 DEF CallMethod, InPhase
<1>6. ASSUME NEW call \in Call, RefuseCall(call) PROVE InPhase'
  BY <1>6 DEF RefuseCall, InPhase
<1>7. CASE UNCHANGED vars
  BY <1>7 DEF vars, InPhase, Answered
<1> QED BY <1>1, <1>2, <1>3, <1>4, <1>5, <1>6, <1>7 DEF Next

(* Two impls of one trait for one class in one scope are never accepted.   *)
LEMMA ConflictsStep == TypeOK /\ NoConflicts /\ [Next]_vars => NoConflicts'
<1> SUFFICES ASSUME TypeOK, NoConflicts, [Next]_vars PROVE NoConflicts'
  OBVIOUS
<1>1. CASE UNCHANGED impls
  BY <1>1 DEF NoConflicts
<1>2. ASSUME NEW i \in Impl, ParseImpl(i), ~Conflict(i) PROVE NoConflicts'
  <2>1. impls \in Seq(Impl) /\ impls' = Append(impls, i)
    BY <1>2 DEF ParseImpl, TypeOK
  <2>2. /\ Len(impls) \in Nat /\ Len(impls') = Len(impls) + 1
        /\ \A k \in 1 .. Len(impls) : impls'[k] = impls[k]
        /\ impls'[Len(impls) + 1] = i
    BY <2>1, LenProperties, AppendProperties
  <2>3. \A k \in 1 .. Len(impls') : k \in 1 .. Len(impls) \/ k = Len(impls) + 1
    BY <2>2
  <2>4. \A k \in 1 .. Len(impls) :
          /\ impls[k].cls = i.cls /\ impls[k].trait = i.trait /\ impls[k].scope = i.scope
          => i.trait = NoTrait
    BY <1>2 DEF Conflict
  <2> QED BY <2>2, <2>3, <2>4 DEF NoConflicts
<1>3. \A i \in Impl : ParseImpl(i) /\ Conflict(i) => UNCHANGED impls
  BY DEF ParseImpl
<1>4. DeclareImpl => UNCHANGED impls
  BY DEF DeclareImpl
<1> QED BY <1>1, <1>2, <1>3, <1>4, OtherActions

(* What pass 1 has gone past has been compared with its trait. *)
LEMMA MatchStep == TypeOK /\ InPhase /\ AllMatch /\ [Next]_vars => AllMatch'
<1> SUFFICES ASSUME TypeOK, InPhase, AllMatch, [Next]_vars PROVE AllMatch'
  OBVIOUS
<1>1. ASSUME NEW i \in Impl, ParseImpl(i) PROVE AllMatch'
  BY <1>1, ParsingChangesNothing DEF AllMatch
<1>2. CASE DeclareImpl
  <2>1. UNCHANGED <<decl, impls>> /\ next \in Nat
        /\ (next' = next \/ (next' = next + 1 /\ Matches(impls[next])))
    BY <1>2 DEF DeclareImpl, TypeOK
  <2>2. \A k \in 1 .. Len(impls) : k < next' => Matches(impls[k])
    <3>1. Len(impls) \in Nat
      BY LenProperties DEF TypeOK
    <3> QED BY <2>1, <3>1 DEF AllMatch
  <2> QED BY <2>1, <2>2 DEF AllMatch, Matches, Declared, Required, Defaults
<1>3. CASE UNCHANGED <<decl, impls, next>>
  BY <1>3 DEF AllMatch, Matches, Declared, Required, Defaults
<1> QED BY <1>1, <1>2, <1>3, OtherActions

(* The map of an impl's own table after the impl. *)
LEMMA RecordedRecords ==
  ASSUME TypeOK, NEW k \in 1 .. Len(impls), NEW map \in [Methods -> Fn \cup {NoFn}],
         NEW m \in Methods, NEW c, NEW t, impls[k].cls = c, impls[k].trait = t,
         Records(map[m], c, t, m, k)
  PROVE  Records(Recorded(map, impls[k], k)[m], c, t, m, k + 1)
<1> DEFINE new == Recorded(map, impls[k], k)[m]
<1>1. new = IF map[m] = NoFn /\ m \in impls[k].methods \cup Copies(impls[k])
              THEN FnOf(k, m) ELSE map[m]
  BY DEF Recorded, FnOf
<1>2. k \in Nat /\ Len(impls) \in Nat
  BY LenProperties DEF TypeOK
<1>3. \A j \in 1 .. Len(impls) : ProvidedBy(j, c, t, m, k) => ProvidedBy(j, c, t, m, k + 1)
  BY <1>2 DEF ProvidedBy
<1>4. \A j \in 1 .. Len(impls) :
        ProvidedBy(j, c, t, m, k + 1) => ProvidedBy(j, c, t, m, k) \/ j = k
  BY <1>2 DEF ProvidedBy
<1>5. m \in impls[k].methods \cup Copies(impls[k]) <=> ProvidedBy(k, c, t, m, k + 1)
  BY <1>2 DEF ProvidedBy
<1>6. CASE map[m] # NoFn
  <2>1. new = map[m]
    BY <1>1, <1>6
  <2>2. \E j \in 1 .. Len(impls) : ProvidedBy(j, c, t, m, k) /\ map[m] = FnOf(j, m)
    BY <1>6 DEF Records
  <2> QED BY <2>1, <2>2, <1>3 DEF Records
<1>7. CASE map[m] = NoFn
  <2>1. \A j \in 1 .. Len(impls) : ~ProvidedBy(j, c, t, m, k)
    <3> SUFFICES ASSUME NEW j \in 1 .. Len(impls), map[m] = FnOf(j, m) PROVE FALSE
      BY DEF Records
    <3>1. FnOf(j, m) \in Fn
      <4>1. impls[j].cls \in Classes /\ impls[j].trait \in Traits \cup {NoTrait}
            /\ j \in 1 .. MaxImpls /\ (m \in impls[j].methods) \in BOOLEAN
        BY ImplFacts
      <4> QED BY <4>1 DEF FnOf, Fn
    <3> QED BY <3>1, <1>7, FnIsSome
  <2>2. CASE ProvidedBy(k, c, t, m, k + 1)
    <3>1. new = FnOf(k, m)
      BY <1>1, <1>5, <1>7, <2>2
    <3> QED BY <2>2, <3>1 DEF Records
  <2>3. CASE ~ProvidedBy(k, c, t, m, k + 1)
    <3>1. new = NoFn
      BY <1>1, <1>5, <1>7, <2>3
    <3> QED BY <1>4, <2>1, <2>3, <3>1 DEF Records
  <2> QED BY <2>2, <2>3
<1> QED BY <1>6, <1>7

(* Every other table. *)
LEMMA OthersRecord ==
  ASSUME TypeOK, NEW k \in 1 .. Len(impls), NEW fn, NEW m, NEW c, NEW t,
         ~(impls[k].cls = c /\ impls[k].trait = t), Records(fn, c, t, m, k)
  PROVE  Records(fn, c, t, m, k + 1)
<1>1. k \in Nat /\ Len(impls) \in Nat
  BY LenProperties DEF TypeOK
<1>2. \A j \in 1 .. Len(impls) : ProvidedBy(j, c, t, m, k + 1) <=> ProvidedBy(j, c, t, m, k)
  BY <1>1 DEF ProvidedBy
<1> QED BY <1>2 DEF Records

(* What an accepted impl does to the tables. *)
LEMMA DeclareFacts ==
  ASSUME TypeOK, DeclareImpl, Matches(impls[next])
  PROVE  /\ next \in 1 .. Len(impls) /\ next' = next + 1 /\ UNCHANGED <<decl, impls>>
         /\ impls[next].cls \in Classes /\ impls[next].trait \in Traits \cup {NoTrait}
         /\ impls[next].trait = NoTrait =>
              /\ inStruct' = [inStruct EXCEPT ![impls[next].cls] = Recorded(@, impls[next], next)]
              /\ UNCHANGED <<inTraits, copied>>
         /\ impls[next].trait # NoTrait =>
              /\ inTraits' = [inTraits EXCEPT ![impls[next].cls][impls[next].trait] =
                                 Recorded(@, impls[next], next)]
              /\ copied' = [copied EXCEPT ![impls[next].cls][impls[next].trait] =
                               @ \cup Copies(impls[next])]
              /\ UNCHANGED inStruct
<1>1. next \in 1 .. Len(impls)
  BY LenProperties DEF DeclareImpl, TypeOK
<1>2. impls[next].cls \in Classes /\ impls[next].trait \in Traits \cup {NoTrait}
  BY <1>1, ImplFacts
<1> QED BY <1>1, <1>2 DEF DeclareImpl

LEMMA RefusedImpl ==
  ASSUME DeclareImpl, ~Matches(impls[next])
  PROVE  UNCHANGED <<decl, impls, next, inStruct, inTraits, copied>>
BY DEF DeclareImpl

LEMMA TablesStep == TypeOK /\ InPhase /\ Tables /\ [Next]_vars => Tables'
<1> SUFFICES ASSUME TypeOK, InPhase, Tables, [Next]_vars PROVE Tables'
  OBVIOUS
<1>1. CASE UNCHANGED <<decl, impls, next, inStruct, inTraits, copied>>
  <2>1. \A c \in Classes, m \in Methods : Records(inStruct'[c][m], c, NoTrait, m, next')
    BY <1>1 DEF Tables, StructTable
  <2>2. \A c \in Classes, t \in Traits, m \in Methods :
          Records(inTraits'[c][t][m], c, t, m, next')
    BY <1>1 DEF Tables, TraitTables
  <2>3. UNCHANGED <<decl, impls>>
    BY <1>1
  <2> QED BY <2>1, <2>2, <2>3
       DEF Tables, StructTable, TraitTables, Records, ProvidedBy, FnOf, Copies, Declared
<1>2. ASSUME NEW i \in Impl, ParseImpl(i) PROVE Tables'
  <2>1. /\ next = 1 /\ UNCHANGED <<next, inStruct, inTraits>>
        /\ Len(impls) \in Nat /\ Len(impls') \in Nat
    BY <1>2, ParsingChangesNothing, LenProperties DEF TypeOK
  <2>2. ASSUME NEW fn, NEW c, NEW t, NEW m PROVE Records(fn, c, t, m, 1) => fn = NoFn
    BY <2>1 DEF Records, ProvidedBy
  <2>3. \A c \in Classes, m \in Methods : inStruct'[c][m] = NoFn
    BY <2>1, <2>2 DEF Tables, StructTable
  <2>4. \A c \in Classes, t \in Traits, m \in Methods : inTraits'[c][t][m] = NoFn
    BY <2>1, <2>2 DEF Tables, TraitTables
  <2>5. \A k \in 1 .. Len(impls') : ~(k < next')
    BY <2>1
  <2> QED BY <2>3, <2>4, <2>5 DEF Tables, StructTable, TraitTables, Records, ProvidedBy
<1>3. CASE DeclareImpl /\ Matches(impls[next])
  <2> DEFINE i == impls[next]
  <2>1. /\ next \in 1 .. Len(impls) /\ next' = next + 1 /\ UNCHANGED <<decl, impls>>
        /\ i.cls \in Classes /\ i.trait \in Traits \cup {NoTrait}
    BY <1>3, DeclareFacts
  <2>2. CASE i.trait = NoTrait
    <3>1. inStruct' = [inStruct EXCEPT ![i.cls] = Recorded(@, i, next)] /\ UNCHANGED inTraits
      BY <1>3, <2>2, DeclareFacts
    <3>2. ASSUME NEW c \in Classes, NEW m \in Methods
          PROVE  Records(inStruct'[c][m], c, NoTrait, m, next + 1)
      <4>1. Records(inStruct[c][m], c, NoTrait, m, next)
            /\ inStruct[c] \in [Methods -> Fn \cup {NoFn}]
        BY DEF Tables, StructTable, TypeOK
      <4>2. CASE c = i.cls
        <5>1. inStruct'[c] = Recorded(inStruct[c], i, next)
          BY <3>1, <4>2 DEF TypeOK
        <5> QED BY <2>1, <2>2, <4>1, <4>2, <5>1, RecordedRecords
      <4>3. CASE c # i.cls
        <5>1. inStruct'[c] = inStruct[c]
          BY <3>1, <4>3 DEF TypeOK
        <5> QED BY <2>1, <4>1, <4>3, <5>1, OthersRecord
      <4> QED BY <4>2, <4>3
    <3>3. ASSUME NEW c \in Classes, NEW t \in Traits, NEW m \in Methods
          PROVE  Records(inTraits'[c][t][m], c, t, m, next + 1)
      <4>1. Records(inTraits[c][t][m], c, t, m, next) /\ t # NoTrait
        BY MethodLookupAssumption DEF Tables, TraitTables
      <4> QED BY <2>1, <2>2, <3>1, <4>1, OthersRecord
    <3> QED BY <2>1, <3>2, <3>3
         DEF Tables, StructTable, TraitTables, Records, ProvidedBy, FnOf, Copies, Declared
  <2>3. CASE i.trait # NoTrait
    <3>0. i.trait \in Traits
      BY <2>1, <2>3
    <3>1. /\ inTraits' = [inTraits EXCEPT ![i.cls][i.trait] = Recorded(@, i, next)]
          /\ UNCHANGED inStruct
      BY <1>3, <2>3, DeclareFacts
    <3>2. ASSUME NEW c \in Classes, NEW m \in Methods
          PROVE  Records(inStruct'[c][m], c, NoTrait, m, next + 1)
      <4>1. Records(inStruct[c][m], c, NoTrait, m, next)
        BY DEF Tables, StructTable
      <4> QED BY <2>1, <2>3, <3>1, <4>1, OthersRecord
    <3>3. ASSUME NEW c \in Classes, NEW t \in Traits, NEW m \in Methods
          PROVE  Records(inTraits'[c][t][m], c, t, m, next + 1)
      <4>1. Records(inTraits[c][t][m], c, t, m, next)
            /\ inTraits[c][t] \in [Methods -> Fn \cup {NoFn}]
        BY DEF Tables, TraitTables, TypeOK
      <4>2. CASE c = i.cls /\ t = i.trait
        <5>1. inTraits'[c][t] = Recorded(inTraits[c][t], i, next)
          BY <3>1, <4>2 DEF TypeOK
        <5> QED BY <2>1, <4>1, <4>2, <5>1, RecordedRecords
      <4>3. CASE ~(c = i.cls /\ t = i.trait)
        <5>1. inTraits'[c][t] = inTraits[c][t]
          BY <3>1, <4>3 DEF TypeOK
        <5> QED BY <2>1, <4>1, <4>3, <5>1, OthersRecord
      <4> QED BY <4>2, <4>3
    <3> QED BY <2>1, <3>2, <3>3
         DEF Tables, StructTable, TraitTables, Records, ProvidedBy, FnOf, Copies, Declared
  <2> QED BY <2>2, <2>3
<1>4. DeclareImpl /\ ~Matches(impls[next]) =>
        UNCHANGED <<decl, impls, next, inStruct, inTraits, copied>>
  BY RefusedImpl
<1> QED BY <1>1, <1>2, <1>3, <1>4, OtherActions

LEMMA CopiedStep == TypeOK /\ InPhase /\ CopiedMap /\ [Next]_vars => CopiedMap'
<1> SUFFICES ASSUME TypeOK, InPhase, CopiedMap, [Next]_vars PROVE CopiedMap'
  OBVIOUS
<1>1. CASE UNCHANGED <<decl, impls, next, inStruct, inTraits, copied>>
  BY <1>1 DEF CopiedMap, Copies, Declared
<1>2. ASSUME NEW i \in Impl, ParseImpl(i) PROVE CopiedMap'
  <2>1. /\ next = 1 /\ UNCHANGED <<next, copied>>
        /\ Len(impls) \in Nat /\ Len(impls') \in Nat
    BY <1>2, ParsingChangesNothing, LenProperties DEF TypeOK
  <2>2. /\ \A k \in 1 .. Len(impls) : ~(k < next)
        /\ \A k \in 1 .. Len(impls') : ~(k < next')
    BY <2>1
  <2> QED BY <2>1, <2>2 DEF CopiedMap
<1>3. CASE DeclareImpl /\ Matches(impls[next])
  <2> DEFINE i == impls[next]
             By(k, c, t, m, n) == /\ k < n /\ impls[k].cls = c /\ impls[k].trait = t
                                  /\ m \in Copies(impls[k])
  <2>1. /\ next \in 1 .. Len(impls) /\ next' = next + 1 /\ UNCHANGED <<decl, impls>>
        /\ i.cls \in Classes /\ i.trait \in Traits \cup {NoTrait}
        /\ Len(impls) \in Nat
    BY <1>3, DeclareFacts, LenProperties DEF TypeOK
  <2>2. ASSUME NEW c \in Classes, NEW t \in Traits, NEW m \in Methods
        PROVE  m \in copied'[c][t] <=>
                 \E k \in 1 .. Len(impls) : By(k, c, t, m, next + 1)
    <3>1. m \in copied[c][t] <=> \E k \in 1 .. Len(impls) : By(k, c, t, m, next)
      BY DEF CopiedMap
    <3>2. \A k \in 1 .. Len(impls) :
            By(k, c, t, m, next + 1) <=>
              By(k, c, t, m, next)
                \/ (k = next /\ i.cls = c /\ i.trait = t /\ m \in Copies(i))
      BY <2>1
    <3>3. t # NoTrait
      BY MethodLookupAssumption
    <3>4. CASE i.cls = c /\ i.trait = t
      <4>1. copied' = [copied EXCEPT ![i.cls][i.trait] = @ \cup Copies(i)]
        BY <1>3, <3>3, <3>4, DeclareFacts
      <4>2. copied'[c][t] = copied[c][t] \cup Copies(i)
        BY <3>4, <4>1 DEF TypeOK
      <4> QED BY <2>1, <3>1, <3>2, <3>4, <4>2
    <3>5. CASE ~(i.cls = c /\ i.trait = t)
      <4>1. \/ UNCHANGED copied
            \/ copied' = [copied EXCEPT ![i.cls][i.trait] = @ \cup Copies(i)]
        BY <1>3, DeclareFacts
      <4>2. copied'[c][t] = copied[c][t]
        BY <3>5, <4>1 DEF TypeOK
      <4> QED BY <3>1, <3>2, <3>5, <4>2
    <3> QED BY <3>4, <3>5
  <2> QED BY <2>1, <2>2 DEF CopiedMap, Copies, Declared
<1>4. DeclareImpl /\ ~Matches(impls[next]) =>
        UNCHANGED <<decl, impls, next, inStruct, inTraits, copied>>
  BY RefusedImpl
<1> QED BY <1>1, <1>2, <1>3, <1>4, OtherActions

LEMMA Invariance == Spec => []IndInv
<1>1. Init => IndInv
  BY InitIndInv
<1>2. IndInv /\ [Next]_vars => IndInv'
  BY TypeStep, PhaseStep, TablesStep, CopiedStep, MatchStep, ConflictsStep DEF IndInv
<1> QED BY <1>1, <1>2, PTL DEF Spec

(***************************************************************************)
(* Complete traits.                                                        *)
(***************************************************************************)

(* When pass 1 is over, a table holds what some impl provides, and nothing *)
(* if none does.                                                           *)
LEMMA TableIsFn ==
  ASSUME TypeOK, NEW c, NEW t, NEW m, NEW fn, Records(fn, c, t, m, next), fn # NoFn
  PROVE  \E k \in 1 .. Len(impls) : ProvidedBy(k, c, t, m, next) /\ fn = FnOf(k, m)
BY DEF Records

LEMMA ProvidedIsRecorded ==
  ASSUME TypeOK, NEW c, NEW t, NEW m \in Methods, NEW fn, Records(fn, c, t, m, next),
         NEW k \in 1 .. Len(impls), ProvidedBy(k, c, t, m, next)
  PROVE  fn # NoFn
<1>1. PICK j \in 1 .. Len(impls) : fn = FnOf(j, m)
  BY DEF Records
<1>2. impls[j].cls \in Classes /\ impls[j].trait \in Traits \cup {NoTrait} /\ j \in 1 .. MaxImpls
      /\ (m \in impls[j].methods) \in BOOLEAN
  BY ImplFacts
<1>3. fn \in Fn
  BY <1>1, <1>2 DEF FnOf, Fn
<1> QED BY <1>3, FnIsSome

(* An impl that matches its trait provides what the trait declares.        *)
LEMMA MatchingProvidesDeclared ==
  ASSUME NEW i, NEW t \in Traits, i.trait = t, Matches(i)
  PROVE  /\ i.methods \cup Copies(i) = Declared(t)
         /\ \A m \in Methods : decl[t][m] = "required" => m \in i.methods
<1>1. t # NoTrait
  BY MethodLookupAssumption
<1>2. i.methods \subseteq Declared(t) /\ Required(t) \subseteq i.methods
  BY <1>1 DEF Matches
<1>3. Copies(i) = Declared(t) \ i.methods
  BY <1>1 DEF Copies
<1>4. \A m \in Methods : decl[t][m] = "required" => m \in Required(t)
  BY DEF Required, Declared, Defaults
<1> QED BY <1>2, <1>3, <1>4

(* Every method a trait declares is recorded for every class that          *)
(* implements it (check_trait_impl_match, walk_fn_define_impl).            *)
THEOREM TraitsAreComplete == Spec => []ImplementedTraitsAreComplete
<1>1. IndInv => ImplementedTraitsAreComplete
  <2> SUFFICES ASSUME IndInv, phase = "call",
                      NEW k \in 1 .. Len(impls), impls[k].trait # NoTrait,
                      NEW m \in Methods
               PROVE  LET t == impls[k].trait  c == impls[k].cls IN
                      IF m \in Declared(t)
                        THEN /\ inTraits[c][t][m] # NoFn
                             /\ decl[t][m] = "required" => inTraits[c][t][m].own
                        ELSE inTraits[c][t][m] = NoFn
    BY DEF ImplementedTraitsAreComplete
  <2> DEFINE t == impls[k].trait
             c == impls[k].cls
             fn == inTraits[c][t][m]
  <2>1. TypeOK /\ next = Len(impls) + 1 /\ Len(impls) \in Nat
    BY LenProperties DEF IndInv, InPhase, TypeOK
  <2>2. t \in Traits /\ c \in Classes
    BY <2>1, ImplFacts
  <2>3. \A j \in 1 .. Len(impls) : j < next /\ Matches(impls[j])
    BY <2>1 DEF IndInv, AllMatch
  <2>4. Records(fn, c, t, m, next)
    BY <2>2 DEF IndInv, Tables, TraitTables
  <2>5. CASE m \in Declared(t)
    <3>1. ProvidedBy(k, c, t, m, next)
      BY <2>2, <2>3, <2>5, MatchingProvidesDeclared DEF ProvidedBy
    <3>2. fn # NoFn
      BY <2>1, <2>4, <3>1, ProvidedIsRecorded
    <3>3. PICK j \in 1 .. Len(impls) : ProvidedBy(j, c, t, m, next) /\ fn = FnOf(j, m)
      BY <2>1, <2>4, <3>2, TableIsFn
    <3>4. impls[j].trait = t
      BY <3>3 DEF ProvidedBy
    <3>5. decl[t][m] = "required" => m \in impls[j].methods
      BY <2>2, <2>3, <3>4, MatchingProvidesDeclared
    <3>6. fn.own = (m \in impls[j].methods)
      BY <3>3 DEF FnOf
    <3> QED BY <2>5, <3>2, <3>5, <3>6
  <2>6. CASE m \notin Declared(t)
    <3>1. \A j \in 1 .. Len(impls) : ~ProvidedBy(j, c, t, m, next)
      BY <2>2, <2>3, <2>6, MatchingProvidesDeclared DEF ProvidedBy
    <3> QED BY <2>4, <2>6, <3>1 DEF Records
  <2> QED BY <2>5, <2>6
<1> QED BY <1>1, Invariance, PTL

(***************************************************************************)
(* Calls.                                                                  *)
(***************************************************************************)

(* What a table holds is the method of an impl that provides it. *)
LEMMA EntryFacts ==
  ASSUME NEW c, NEW t, NEW m, NEW fn, NEW k, ProvidedBy(k, c, t, m, next), fn = FnOf(k, m)
  PROVE  /\ fn.cls = c /\ fn.trait = t /\ fn.method = m /\ fn.impl = k
         /\ fn.own = (m \in impls[k].methods)
         /\ impls[k].cls = c /\ impls[k].trait = t
         /\ ~fn.own => m \in Copies(impls[k])
BY DEF ProvidedBy, FnOf

(* In pass 2 the class's own table says what the class owns. *)
LEMMA OwnTable ==
  ASSUME IndInv, phase = "call", NEW c \in Classes, NEW m \in Methods
  PROVE  /\ Owns(c, m) <=> inStruct[c][m] # NoFn
         /\ inStruct[c][m] # NoFn =>
              /\ inStruct[c][m].own
              /\ \E k \in 1 .. Len(impls) : ProvidedBy(k, c, NoTrait, m, next)
                                          /\ inStruct[c][m] = FnOf(k, m)
<1>1. TypeOK /\ Records(inStruct[c][m], c, NoTrait, m, next)
  BY DEF IndInv, Tables, StructTable
<1>2. \A k \in 1 .. Len(impls) : k < next
  BY LenProperties DEF IndInv, InPhase, TypeOK
<1>3. \A k \in 1 .. Len(impls) :
        ProvidedBy(k, c, NoTrait, m, next) <=>
          impls[k].cls = c /\ impls[k].trait = NoTrait /\ m \in impls[k].methods
  BY <1>2 DEF ProvidedBy, Copies
<1>4. Owns(c, m) <=> \E k \in 1 .. Len(impls) : ProvidedBy(k, c, NoTrait, m, next)
  BY <1>3 DEF Owns
<1>5. Owns(c, m) => inStruct[c][m] # NoFn
  BY <1>1, <1>4, ProvidedIsRecorded
<1>6. ASSUME inStruct[c][m] # NoFn
      PROVE  /\ Owns(c, m) /\ inStruct[c][m].own
             /\ \E k \in 1 .. Len(impls) : ProvidedBy(k, c, NoTrait, m, next)
                                         /\ inStruct[c][m] = FnOf(k, m)
  <2>1. PICK k \in 1 .. Len(impls) : ProvidedBy(k, c, NoTrait, m, next)
                                  /\ inStruct[c][m] = FnOf(k, m)
    BY <1>1, <1>6, TableIsFn
  <2>2. inStruct[c][m].own = (m \in impls[k].methods)
    BY <2>1, EntryFacts
  <2>3. m \in impls[k].methods
    BY <1>3, <2>1
  <2> QED BY <1>4, <2>1, <2>2, <2>3
<1> QED BY <1>5, <1>6

(* The traits' tables say what the traits provide. *)
LEMMA TraitTable ==
  ASSUME IndInv, phase = "call", NEW c \in Classes, NEW m \in Methods
  PROVE  /\ Candidates(c, m) = {t \in Traits : Provides(c, t, m)}
         /\ \A t \in Candidates(c, m) : \E k \in 1 .. Len(impls) :
              ProvidedBy(k, c, t, m, next) /\ inTraits[c][t][m] = FnOf(k, m)
         /\ SelfTraits(c, m) \subseteq Candidates(c, m)
<1>1. TypeOK /\ \A t \in Traits : Records(inTraits[c][t][m], c, t, m, next)
  BY DEF IndInv, Tables, TraitTables
<1>2. \A k \in 1 .. Len(impls) : k < next /\ Matches(impls[k])
  BY LenProperties DEF IndInv, InPhase, TypeOK, AllMatch
<1>3. \A t \in Traits : \A k \in 1 .. Len(impls) :
        ProvidedBy(k, c, t, m, next) <=>
          impls[k].cls = c /\ impls[k].trait = t /\ m \in Declared(t)
  BY <1>2, MatchingProvidesDeclared DEF ProvidedBy
<1>4. \A t \in Traits :
        Provides(c, t, m) <=> \E k \in 1 .. Len(impls) : ProvidedBy(k, c, t, m, next)
  BY <1>3 DEF Provides, Implements
<1>5. \A t \in Traits : Provides(c, t, m) => inTraits[c][t][m] # NoFn
  BY <1>1, <1>4, ProvidedIsRecorded
<1>6. \A t \in Candidates(c, m) : \E k \in 1 .. Len(impls) :
        ProvidedBy(k, c, t, m, next) /\ inTraits[c][t][m] = FnOf(k, m)
  BY <1>1, TableIsFn DEF Candidates
<1>7. \A t \in SelfTraits(c, m) : t \in Traits /\ Provides(c, t, m)
  <2> SUFFICES ASSUME NEW t \in Traits, m \in copied[c][t] PROVE Provides(c, t, m)
    BY DEF SelfTraits
  <2>1. PICK k \in 1 .. Len(impls) : /\ k < next /\ impls[k].cls = c /\ impls[k].trait = t
                                   /\ m \in Copies(impls[k])
    BY DEF IndInv, CopiedMap
  <2> QED BY <1>4, <2>1 DEF ProvidedBy
<1> QED BY <1>4, <1>5, <1>6, <1>7 DEF Candidates

(* An answer lasts: the text and the tables it was read from do not change *)
LEMMA AnswerKept ==
  ASSUME InPhase, [Next]_vars, Answered, UNCHANGED answer
  PROVE  UNCHANGED <<decl, impls>>
BY DEF InPhase, Next, vars, ParseImpl, EndOfText, DeclareImpl, EndOfPass1, CallMethod, RefuseCall

LEMMA WhoAnswers ==
  ASSUME [Next]_vars, ~ UNCHANGED answer
  PROVE  \E call \in Call : CallMethod(call) \/ RefuseCall(call)
BY DEF Next, vars, ParseImpl, EndOfText, DeclareImpl, EndOfPass1

(* A call without a trait: what it means, and what is found. *)
LEMMA PlainFound ==
  ASSUME IndInv, phase = "call", NEW call \in Call, call.trait = NoTrait
  PROVE  LET c == call.cls  m == call.method  found == Found(c, m, Named(call)) IN
         IF Owns(c, m)
           THEN found = {inStruct[c][m]} /\ Meant(call) = {NoTrait}
           ELSE /\ found = {inTraits[c][t][m] : t \in Candidates(c, m)}
                /\ Meant(call) = Candidates(c, m)
<1> DEFINE c == call.cls
           m == call.method
<1>1. c \in Classes /\ m \in Methods /\ Named(call) = NoTrait
  BY CallFacts DEF Named
<1>2. CASE Owns(c, m)
  BY <1>1, <1>2, OwnTable DEF Found, Meant
<1>3. CASE ~Owns(c, m)
  <2>1. inStruct[c][m] = NoFn
    BY <1>1, <1>3, OwnTable
  <2>2. Found(c, m, NoTrait) = {inTraits[c][t][m] : t \in Candidates(c, m)}
    BY <2>1 DEF Found
  <2>3. Meant(call) = Candidates(c, m)
    BY <1>1, <1>3, TraitTable DEF Meant
  <2> QED BY <1>1, <1>3, <2>2, <2>3
<1> QED BY <1>2, <1>3

LEMMA PlainAnswered ==
  ASSUME IndInv, NEW call \in Call, CallMethod(call), call.trait = NoTrait
  PROVE  LET fn == answer'.fn IN
         /\ fn # NoFn /\ Unique(Meant(call))
         /\ fn.cls = call.cls /\ fn.method = call.method /\ fn.trait \in Meant(call)
         /\ impls[fn.impl].cls = fn.cls /\ impls[fn.impl].trait = fn.trait
         /\ fn.own <=> call.method \in impls[fn.impl].methods
<1> DEFINE c == call.cls
           m == call.method
<1>1. c \in Classes /\ m \in Methods /\ phase = "call" /\ TypeOK
  BY CallFacts DEF CallMethod, IndInv
<1>2. PICK fn \in Found(c, m, Named(call)) :
        Found(c, m, Named(call)) = {fn} /\ answer'.fn = fn
  BY DEF CallMethod
<1>3. fn # NoFn
  BY <1>1, FoundAreFns, FnIsSome
<1>4. ASSUME NEW t, NEW k \in 1 .. Len(impls), ProvidedBy(k, c, t, m, next),
             fn = FnOf(k, m), Meant(call) = {t}
      PROVE  /\ Unique(Meant(call))
             /\ fn.cls = c /\ fn.method = m /\ fn.trait \in Meant(call)
             /\ impls[fn.impl].cls = fn.cls /\ impls[fn.impl].trait = fn.trait
             /\ fn.own <=> m \in impls[fn.impl].methods
  <2>1. /\ fn.cls = c /\ fn.trait = t /\ fn.method = m /\ fn.impl = k
        /\ fn.own = (m \in impls[k].methods)
        /\ impls[k].cls = c /\ impls[k].trait = t
    BY <1>4, EntryFacts
  <2> QED BY <1>4, <2>1 DEF Unique
<1>5. CASE Owns(c, m)
  <2>1. fn = inStruct[c][m] /\ Meant(call) = {NoTrait}
    BY <1>1, <1>2, <1>5, PlainFound
  <2>2. PICK k \in 1 .. Len(impls) : ProvidedBy(k, c, NoTrait, m, next)
                                  /\ inStruct[c][m] = FnOf(k, m)
    BY <1>1, <1>3, <2>1, OwnTable
  <2> QED BY <1>2, <1>3, <1>4, <2>1, <2>2
<1>6. CASE ~Owns(c, m)
  <2>1. /\ {fn} = {inTraits[c][t][m] : t \in Candidates(c, m)}
        /\ Meant(call) = Candidates(c, m)
    BY <1>1, <1>2, <1>6, PlainFound
  <2>2. PICK t \in Candidates(c, m) : fn = inTraits[c][t][m]
    BY <2>1
  <2>3. ASSUME NEW u \in Candidates(c, m) PROVE fn.trait = u
    <3>1. fn = inTraits[c][u][m]
      BY <2>1
    <3>2. PICK k \in 1 .. Len(impls) :
            ProvidedBy(k, c, u, m, next) /\ inTraits[c][u][m] = FnOf(k, m)
      BY <1>1, TraitTable
    <3> QED BY <3>1, <3>2, EntryFacts
  <2>4. Meant(call) = {t}
    BY <2>1, <2>3
  <2>5. PICK k \in 1 .. Len(impls) :
          ProvidedBy(k, c, t, m, next) /\ inTraits[c][t][m] = FnOf(k, m)
    BY <1>1, TraitTable
  <2> QED BY <1>2, <1>3, <1>4, <2>2, <2>4, <2>5
<1> QED BY <1>5, <1>6

LEMMA PlainRefused ==
  ASSUME IndInv, NEW call \in Call, RefuseCall(call), call.trait = NoTrait
  PROVE  ~Unique(Meant(call))
<1> SUFFICES ASSUME NEW t \in Meant(call), Meant(call) = {t} PROVE FALSE
  BY DEF Unique
<1> DEFINE c == call.cls
           m == call.method
           self == SelfTraits(c, m)
<1>1. c \in Classes /\ m \in Methods /\ phase = "call"
  BY CallFacts DEF RefuseCall
<1>2. \A fn \in Found(c, m, Named(call)) :
        Found(c, m, Named(call)) = {fn} => ~(fn.own \/ self = {} \/ Unique(self))
  BY DEF RefuseCall
<1>3. CASE Owns(c, m)
  <2>1. Found(c, m, Named(call)) = {inStruct[c][m]} /\ inStruct[c][m].own
    BY <1>1, <1>3, PlainFound, OwnTable
  <2> QED BY <1>2, <2>1
<1>4. CASE ~Owns(c, m)
  <2>1. Candidates(c, m) = {t}
    BY <1>1, <1>4, PlainFound
  <2>2. Found(c, m, Named(call)) = {inTraits[c][t][m]}
    BY <1>1, <1>4, <2>1, PlainFound
  <2>3. self \subseteq {t}
    BY <1>1, <2>1, TraitTable
  <2>4. self = {} \/ Unique(self)
    BY <2>3 DEF Unique
  <2> QED BY <1>2, <2>2, <2>4
<1> QED BY <1>3, <1>4

(* A call that names no trait is accepted exactly if it means one method,  *)
(* and reaches that one (runable_find_entry, walk_fn_define_impl).         *)
THEOREM PlainCallsReach == Spec => []PlainCallsReachTheirMethod
<1>1. Init => PlainCallsReachTheirMethod
  BY DEF Init, Unanswered, PlainCallsReachTheirMethod, Answered
<1>2. IndInv /\ PlainCallsReachTheirMethod /\ [Next]_vars => PlainCallsReachTheirMethod'
  <2> SUFFICES ASSUME IndInv, PlainCallsReachTheirMethod, [Next]_vars
               PROVE  PlainCallsReachTheirMethod'
    OBVIOUS
  <2>1. CASE UNCHANGED answer
    <3>1. CASE Answered
      <4>1. UNCHANGED <<decl, impls>>
        BY <2>1, <3>1, AnswerKept DEF IndInv
      <4>2. Meant(answer.call)' = Meant(answer.call)
        BY <2>1, <4>1 DEF Meant, Owns, Provides, Implements, Declared
      <4> QED BY <2>1, <4>1, <4>2 DEF PlainCallsReachTheirMethod, Answered, Unique
    <3>2. CASE ~Answered
      BY <2>1, <3>2 DEF PlainCallsReachTheirMethod, Answered
    <3> QED BY <3>1, <3>2
  <2>2. ASSUME NEW call \in Call, CallMethod(call) PROVE PlainCallsReachTheirMethod'
    <3>1. answer'.call = call /\ UNCHANGED <<decl, impls>>
      BY <2>2 DEF CallMethod
    <3>2. Meant(call)' = Meant(call)
      BY <3>1 DEF Meant, Owns, Provides, Implements, Declared
    <3>3. CASE call.trait = NoTrait
      <4>1. LET fn == answer'.fn IN
            /\ fn # NoFn /\ Unique(Meant(call))
            /\ fn.cls = call.cls /\ fn.method = call.method /\ fn.trait \in Meant(call)
            /\ impls[fn.impl].cls = fn.cls /\ impls[fn.impl].trait = fn.trait
            /\ fn.own <=> call.method \in impls[fn.impl].methods
        BY <2>2, <3>3, PlainAnswered
      <4> QED BY <3>1, <3>2, <4>1 DEF PlainCallsReachTheirMethod, Unique
    <3>4. CASE call.trait # NoTrait
      BY <3>1, <3>4 DEF PlainCallsReachTheirMethod
    <3> QED BY <3>3, <3>4
  <2>3. ASSUME NEW call \in Call, RefuseCall(call) PROVE PlainCallsReachTheirMethod'
    <3>1. answer'.call = call /\ answer'.fn = NoFn /\ UNCHANGED <<decl, impls>>
      BY <2>3 DEF RefuseCall, Unanswered
    <3>2. Meant(call)' = Meant(call)
      BY <3>1 DEF Meant, Owns, Provides, Implements, Declared
    <3>3. call.trait = NoTrait => ~Unique(Meant(call))
      BY <2>3, PlainRefused
    <3> QED BY <3>1, <3>2, <3>3 DEF PlainCallsReachTheirMethod, Unique
  <2> QED BY <2>1, <2>2, <2>3, WhoAnswers
<1> QED BY <1>1, <1>2, Invariance, PTL DEF Spec

(***************************************************************************)
(* The association of Self.                                                *)
(***************************************************************************)

(* All impls are written in one symbol table, so that the parser compares  *)
(* every two of them.                                                      *)
OneScope == \A r, s \in Scopes : r = s

(* The two parts of CopiesKnowTheirSelf. *)
AnswerKnowsSelf ==
  Answered /\ answer.fn # NoFn =>
    answer.self = IF answer.fn.own THEN NoTrait ELSE answer.fn.trait

CopiesAgree ==
  phase = "call" =>
    \A c \in Classes, t \in Traits, m \in Methods :
      m \in copied[c][t] <=> inTraits[c][t][m] # NoFn /\ ~inTraits[c][t][m].own

(* Then one impl at most implements a trait for a class, and the two maps  *)
(* speak of the same one.                                                  *)
LEMMA MapsAgree == ASSUME OneScope, IndInv PROVE CopiesAgree
<1> SUFFICES ASSUME phase = "call", NEW c \in Classes, NEW t \in Traits, NEW m \in Methods
             PROVE  m \in copied[c][t] <=> inTraits[c][t][m] # NoFn /\ ~inTraits[c][t][m].own
  BY DEF CopiesAgree
<1> DEFINE fn == inTraits[c][t][m]
<1>1. TypeOK /\ t # NoTrait /\ Records(fn, c, t, m, next)
  BY MethodLookupAssumption DEF IndInv, Tables, TraitTables
<1>2. ASSUME NEW j \in 1 .. Len(impls), NEW k \in 1 .. Len(impls),
             impls[j].cls = c, impls[j].trait = t, impls[k].cls = c, impls[k].trait = t
      PROVE  j = k
  <2>1. impls[j].scope \in Scopes /\ impls[k].scope \in Scopes
    BY <1>1, ImplFacts
  <2>2. impls[j].scope = impls[k].scope
    BY <2>1 DEF OneScope
  <2> QED BY <1>1, <1>2, <2>2 DEF IndInv, NoConflicts
<1>3. ASSUME m \in copied[c][t] PROVE fn # NoFn /\ ~fn.own
  <2>1. PICK k \in 1 .. Len(impls) : /\ k < next /\ impls[k].cls = c /\ impls[k].trait = t
                                   /\ m \in Copies(impls[k])
    BY <1>3 DEF IndInv, CopiedMap
  <2>2. ProvidedBy(k, c, t, m, next)
    BY <2>1 DEF ProvidedBy
  <2>3. fn # NoFn
    BY <1>1, <2>2, ProvidedIsRecorded
  <2>4. PICK j \in 1 .. Len(impls) : ProvidedBy(j, c, t, m, next) /\ fn = FnOf(j, m)
    BY <1>1, <2>3, TableIsFn
  <2>5. j = k
    BY <1>2, <2>1, <2>4 DEF ProvidedBy
  <2>6. m \notin impls[k].methods
    BY <1>1, <2>1 DEF Copies
  <2>7. fn.own = (m \in impls[k].methods)
    BY <2>4, <2>5, EntryFacts
  <2> QED BY <2>3, <2>6, <2>7
<1>4. ASSUME fn # NoFn, ~fn.own PROVE m \in copied[c][t]
  <2>1. PICK j \in 1 .. Len(impls) : ProvidedBy(j, c, t, m, next) /\ fn = FnOf(j, m)
    BY <1>1, <1>4, TableIsFn
  <2>2. m \in Copies(impls[j])
    BY <1>4, <2>1, EntryFacts
  <2> QED BY <2>1, <2>2 DEF IndInv, CopiedMap, ProvidedBy
<1> QED BY <1>3, <1>4

(* What a call finds stands in one of the tables. *)
LEMMA FoundStands ==
  ASSUME NEW c, NEW m, NEW named, NEW fn \in Found(c, m, named)
  PROVE  \/ fn = inStruct[c][m] /\ fn # NoFn
         \/ \E t \in Candidates(c, m) : fn = inTraits[c][t][m]
BY DEF Found

(* With one scope, the method found and the trait of its Self agree. *)
LEMMA CallKnowsSelf ==
  ASSUME OneScope, IndInv, NEW call \in Call, CallMethod(call)
  PROVE  AnswerKnowsSelf'
<1> DEFINE c == call.cls
           m == call.method
           self == SelfTraits(c, m)
<1>1. c \in Classes /\ m \in Methods /\ phase = "call"
  BY CallFacts DEF CallMethod
<1>2. PICK fn \in Found(c, m, Named(call)) :
        /\ fn.own \/ self = {} \/ Unique(self)
        /\ answer'.fn = fn /\ answer'.self = SelfOf(fn, self)
  BY DEF CallMethod
<1>3. CASE fn.own
  BY <1>2, <1>3 DEF AnswerKnowsSelf, SelfOf
<1>4. CASE ~fn.own
  <2>1. PICK t \in Candidates(c, m) : fn = inTraits[c][t][m]
    BY <1>1, <1>2, <1>4, FoundStands, OwnTable
  <2>2. PICK k \in 1 .. Len(impls) :
          ProvidedBy(k, c, t, m, next) /\ inTraits[c][t][m] = FnOf(k, m)
    BY <1>1, TraitTable
  <2>3. fn.trait = t
    BY <2>1, <2>2, EntryFacts
  <2>4. t \in Traits /\ inTraits[c][t][m] # NoFn
    BY DEF Candidates
  <2>5. t \in self
    BY <1>1, <1>4, <2>1, <2>4, MapsAgree DEF CopiesAgree, SelfTraits
  <2>6. self = {t}
    BY <1>2, <1>4, <2>5 DEF Unique
  <2>7. SelfOf(fn, self) = t
    BY <1>4, <2>6 DEF SelfOf
  <2> QED BY <1>2, <1>4, <2>3, <2>7 DEF AnswerKnowsSelf
<1> QED BY <1>3, <1>4

(* With one scope, a default method is found together with the association *)
(* of the impl it was copied for, and a method the impl defines has none    *)
(* (runable_find_entry_assoc, IR_generator.cpp:3279).                      *)
THEOREM CopiesFound ==
  ASSUME OneScope PROVE Spec => []CopiesKnowTheirSelf
<1>1. Init => AnswerKnowsSelf
  BY DEF Init, Unanswered, AnswerKnowsSelf, Answered
<1>2. IndInv /\ AnswerKnowsSelf /\ [Next]_vars => AnswerKnowsSelf'
  <2> SUFFICES ASSUME IndInv, AnswerKnowsSelf, [Next]_vars PROVE AnswerKnowsSelf'
    OBVIOUS
  <2>1. CASE UNCHANGED answer
    BY <2>1 DEF AnswerKnowsSelf, Answered
  <2>2. ASSUME NEW call \in Call, CallMethod(call) PROVE AnswerKnowsSelf'
    BY <2>2, CallKnowsSelf
  <2>3. ASSUME NEW call \in Call, RefuseCall(call) PROVE AnswerKnowsSelf'
    <3>1. answer'.fn = NoFn
      BY <2>3 DEF RefuseCall, Unanswered
    <3> QED BY <3>1 DEF AnswerKnowsSelf
  <2> QED BY <2>1, <2>2, <2>3, WhoAnswers
<1>3. IndInv /\ AnswerKnowsSelf => CopiesKnowTheirSelf
  BY MapsAgree DEF AnswerKnowsSelf, CopiesAgree, CopiesKnowTheirSelf
<1> QED BY <1>1, <1>2, <1>3, Invariance, PTL DEF Spec
=============================================================================
